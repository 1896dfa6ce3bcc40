-------------------------- MODULE FrontEnd_proofs --------------------------
(***************************************************************************)
(* Proofs about the terminal and the tool calls behind it, for any number   *)
(* of jobs, turns, calls, commands and dialogs: whose Enter key it is, what  *)
(* Esc aborts, and that nothing runs on that was stopped.  The tool calls    *)
(* come first: their steps leave the turn and its signal alone, and open no  *)
(* overlay but the question of an agent.                                     *)
(***************************************************************************)
EXTENDS FrontEnd, TLAPS

-----------------------------------------------------------------------------
(* The inductive invariant.                                                  *)

\* The parts of NothingRunsOn: commands, jobs, and jobs of a reviewed worker.
AgentsObey == \A a \in Agents : agents[a].stage = "running" => agents[a].turn \notin aborted
JobsObey == \A j \in Jobs : jobs[j].st = "running" => ~Signalled(j)
ReviewIsQuiet ==
  \A j \in Jobs :
    jobs[j].st \in {"running", "stopping"} /\ jobs[j].by = "worker" => workspace # "review"

RunFacts == AgentsObey /\ JobsObey /\ ReviewIsQuiet

\* The application is busy with something; the editor is borrowed only by an
\* open question of a login; a controller is the one of the running query.
UiFacts ==
  /\ ui.busy <=> ui.doing # "nothing"
  /\ ui.login # "off" <=> ui.doing = "login"
  /\ IF ui.prompt
     THEN ui.submit = "prompt" /\ ui.saved = "handler" /\ ui.login # "off"
     ELSE ui.submit = "handler" /\ ui.saved = None
  /\ ui.ctl # NoTurn => ui.ctl = turn /\ ui.doing = "query"

\* A command waits for the one overlay it has opened.
CommandWaits ==
  \A i \in DOMAIN dialogs : dialogs[i] = "command" =>
    ui.doing = "choosing" /\ \A k \in DOMAIN dialogs : dialogs[k] = "command" => k = i

IInv == TypeOK /\ RunFacts /\ UiFacts /\ CommandWaits /\ OnlyEscAborts

-----------------------------------------------------------------------------
(* The tool calls.                                                           *)

\* What a step of the tool calls leaves alone.
Quiet ==
  /\ UNCHANGED <<interactive, turn, aborted>>
  /\ dialogs' = dialogs \/ \E a \in Agents : dialogs' = Append(dialogs, a)

ToolInv == ToolTypeOK /\ RunFacts
ToolGood == ToolInv' /\ Quiet

\* An agent that moves on keeps all but its stage.
LEMMA ToMoves ==
  ASSUME agents \in [Agents -> Agent], NEW a \in Agents, NEW stage \in Stages
  PROVE  /\ To(a, stage) \in [Agents -> Agent]
         /\ \A b \in Agents : /\ To(a, stage)[b].turn = agents[b].turn
                              /\ To(a, stage)[b].stage = IF b = a THEN stage ELSE agents[b].stage
BY DEF To, Agent

\* The queue of the lock, when its owner lets go or another one comes.
LEMMA LockMoves ==
  ASSUME lock \in Seq(Agents \cup Jobs), NEW h \in Agents \cup Jobs
  PROVE  /\ Waiting(h) \in Seq(Agents \cup Jobs)
         /\ Owner(h) => Released \in Seq(Agents \cup Jobs)
         /\ Freed(h) \in Seq(Agents \cup Jobs)
BY DEF Waiting, Owner, Released, Freed

\* Moving to a stage other than running starts nothing.
LEMMA MovedObey ==
  ASSUME ToolInv, NEW a \in Agents, NEW stage \in Stages \ {"running"},
         agents' = To(a, stage), aborted' = aborted
  PROVE  agents' \in [Agents -> Agent] /\ AgentsObey'
<1>1. agents \in [Agents -> Agent] /\ stage \in Stages
  BY DEF ToolInv, ToolTypeOK
<1>2. /\ agents' \in [Agents -> Agent]
      /\ \A b \in Agents : /\ agents'[b].turn = agents[b].turn
                           /\ agents'[b].stage = "running" => agents[b].stage = "running"
  BY <1>1, ToMoves
<1> QED BY <1>2 DEF ToolInv, RunFacts, AgentsObey

\* A step that only moves an agent, to a stage other than running.
LEMMA OnlyMoves ==
  ASSUME ToolInv, NEW a \in Agents, NEW stage \in Stages \ {"running"},
         agents' = To(a, stage), lock' \in Seq(Agents \cup Jobs),
         UNCHANGED <<interactive, turn, aborted, jobs, workspace, dialogs, notes, heard>>
  PROVE  ToolGood
<1>1. agents' \in [Agents -> Agent] /\ AgentsObey'
  BY MovedObey
<1>2. ToolTypeOK'
  BY <1>1 DEF ToolInv, ToolTypeOK
<1>3. JobsObey' /\ ReviewIsQuiet'
  BY DEF ToolInv, RunFacts, JobsObey, ReviewIsQuiet, Signalled
<1> QED
  BY <1>1, <1>2, <1>3 DEF ToolGood, ToolInv, RunFacts, Quiet

\* Jobs that are not started by a step: each keeps its owner and its turn, and
\* runs on only where its signal has not fired.
JobsCalm ==
  /\ jobs' \in [Jobs -> Job]
  /\ \A j \in Jobs :
       /\ jobs'[j].by = jobs[j].by /\ jobs'[j].turn = jobs[j].turn
       /\ jobs'[j].st # None => jobs[j].st # None
       /\ jobs'[j].st = "running" => jobs[j].st = "running" /\ jobs'[j].killed = jobs[j].killed
       /\ jobs'[j].st = "stopping" => jobs[j].st \in {"running", "stopping"}

LEMMA CalmJobs ==
  ASSUME ToolInv, JobsCalm, aborted' = aborted, workspace' = workspace
  PROVE  /\ JobsObey' /\ ReviewIsQuiet'
         /\ \A j \in Jobs : jobs'[j].st # None => jobs'[j].by \in Agents
<1>1. JobsObey'
  BY DEF ToolInv, RunFacts, JobsObey, Signalled, JobsCalm
<1>2. ReviewIsQuiet'
  BY DEF ToolInv, RunFacts, ReviewIsQuiet, JobsCalm
<1>3. \A j \in Jobs : jobs'[j].st # None => jobs'[j].by \in Agents
  BY DEF ToolInv, ToolTypeOK, JobsCalm
<1> QED BY <1>1, <1>2, <1>3

LEMMA JobsUnchanged ==
  ASSUME ToolInv, jobs' = jobs
  PROVE  JobsCalm
BY DEF ToolInv, ToolTypeOK, JobsCalm

\* Stopping the processes of an agent that have been spawned.
LEMMA CancelCalms ==
  ASSUME ToolInv, NEW a \in Agents, jobs' = CancelOf(a)
  PROVE  JobsCalm
<1>1. jobs \in [Jobs -> Job]
  BY DEF ToolInv, ToolTypeOK
<1>2. ASSUME NEW j \in Jobs
      PROVE  /\ jobs'[j] \in Job
             /\ jobs'[j].by = jobs[j].by /\ jobs'[j].turn = jobs[j].turn
             /\ jobs'[j].killed = jobs[j].killed
             /\ jobs'[j].st = jobs[j].st \/ (jobs'[j].st = "stopping" /\ jobs[j].st = "running")
  <2>1. jobs'[j] = IF jobs[j].by = a /\ jobs[j].st = "running"
                   THEN [jobs[j] EXCEPT !.st = "stopping"] ELSE jobs[j]
    BY DEF CancelOf
  <2>2. jobs[j] \in Job
    BY <1>1
  <2> QED BY <2>1, <2>2 DEF Job
<1>3. jobs' \in [Jobs -> Job]
  <2>1. jobs' = [j \in Jobs |-> jobs'[j]]
    BY DEF CancelOf
  <2> QED BY <1>2, <2>1
<1> QED BY <1>2, <1>3 DEF JobsCalm, None

-----------------------------------------------------------------------------
(* One lemma per step of an agent.                                           *)

LEMMA StopsGood ==
  ASSUME ToolInv, NEW a \in Agents, Stops(a)
  PROVE  ToolGood
<1>1. /\ UNCHANGED <<interactive, turn, aborted, workspace, dialogs, lock>>
      /\ notes' \cup heard' \subseteq notes \cup heard
  BY DEF Stops, Leave, Consume
<1>2. /\ agents' \in [Agents -> Agent]
      /\ \A b \in Agents : agents'[b].stage = "running" =>
            agents[b].stage = "running" /\ agents'[b].turn = agents[b].turn
  <2>1. CASE a = "lead"
    <3>1. agents' = [agents EXCEPT ![a] = Idle] /\ Idle \in Agent /\ Idle.stage = "off"
      BY <2>1 DEF Stops, Leave, Idle, Agent, NoTurn, Stages
    <3> QED BY <3>1 DEF ToolInv, ToolTypeOK
  <2>2. CASE a # "lead"
    <3>1. agents' = To(a, "cancelling") /\ "cancelling" \in Stages
      BY <2>2 DEF Stops, Leave, Stages
    <3> QED BY <3>1, ToMoves DEF ToolInv, ToolTypeOK
  <2> QED BY <2>1, <2>2
<1>3. JobsCalm
  BY JobsUnchanged, CancelCalms DEF Stops, Leave
<1>4. ToolTypeOK'
  BY <1>1, <1>2, <1>3, CalmJobs DEF ToolInv, ToolTypeOK, JobsCalm
<1>5. AgentsObey'
  BY <1>1, <1>2 DEF ToolInv, RunFacts, AgentsObey
<1> QED
  BY <1>1, <1>3, <1>4, <1>5, CalmJobs DEF ToolGood, ToolInv, RunFacts, Quiet

LEMMA CallsToolGood ==
  ASSUME ToolInv, NEW a \in Agents, CallsTool(a)
  PROVE  ToolGood
<1>1. PICK c \in Calls, next \in {"head", "asking", "hooks"} :
        /\ agents' = [agents EXCEPT ![a].stage = next, ![a].call = c, ![a].left = @ - 1]
        /\ dialogs' = dialogs \/ dialogs' = Append(dialogs, a)
  BY DEF CallsTool
<1>2. /\ UNCHANGED <<interactive, turn, aborted, jobs, lock, workspace>>
      /\ notes' \cup heard' \subseteq notes \cup heard /\ agents[a].left > 0
  BY DEF CallsTool, Consume
<1>3. /\ agents' \in [Agents -> Agent]
      /\ \A b \in Agents : agents'[b].stage = "running" =>
            agents[b].stage = "running" /\ agents'[b].turn = agents[b].turn
  <2>1. agents[a] \in Agent /\ agents[a].left \in Nat /\ agents[a].turn \in Nat
    BY DEF ToolInv, ToolTypeOK, Agent
  <2>2. agents[a].left - 1 \in Nat
    BY <1>2, <2>1
  <2> DEFINE new == [agents[a] EXCEPT !.stage = next, !.call = c, !.left = @ - 1]
  <2>3. new \in Agent /\ new.stage # "running"
    BY <2>1, <2>2 DEF Agent, Stages
  <2>4. agents' = [agents EXCEPT ![a] = new]
    BY <1>1 DEF ToolInv, ToolTypeOK
  <2> HIDE DEF new
  <2> QED BY <2>3, <2>4 DEF ToolInv, ToolTypeOK
<1>4. dialogs' \in Seq(Agents \cup {"command", "login", "models"})
  <2> DEFINE Asking == Agents \cup {"command", "login", "models"}
  <2>1. a \in Asking /\ dialogs \in Seq(Asking)
    BY DEF ToolInv, ToolTypeOK
  <2> HIDE DEF Asking
  <2>2. Append(dialogs, a) \in Seq(Asking)
    BY <2>1
  <2> QED BY <1>1, <2>1, <2>2 DEF Asking
<1>5. ToolTypeOK'
  BY <1>2, <1>3, <1>4 DEF ToolInv, ToolTypeOK
<1>6. AgentsObey'
  BY <1>2, <1>3 DEF ToolInv, RunFacts, AgentsObey
<1>7. JobsCalm
  BY <1>2, JobsUnchanged
<1> QED
  BY <1>1, <1>2, <1>5, <1>6, <1>7, CalmJobs DEF ToolGood, ToolInv, RunFacts, Quiet

\* Whatever only moves the agent, or moves it into the queue of the lock.
LEMMA MovesGood ==
  ASSUME ToolInv, NEW a \in Agents,
         HookRefuses(a) \/ CancelledBeforeRun(a) \/ Reads(a) \/ TakesLock(a) \/ CommandExits(a)
  PROVE  ToolGood
<1>1. /\ {"head", "waiting"} \subseteq Stages \ {"running"}
      /\ agents' = To(a, "head") \/ agents' = To(a, "waiting")
      /\ lock' \in {lock, Waiting(a), Freed(a)}
      /\ UNCHANGED <<interactive, turn, aborted, jobs, workspace, dialogs, notes, heard>>
  BY DEF HookRefuses, CancelledBeforeRun, Reads, TakesLock, CommandExits, Stages
<1>2. lock' \in Seq(Agents \cup Jobs)
  BY <1>1, LockMoves DEF ToolInv, ToolTypeOK
<1> QED BY <1>1, <1>2, OnlyMoves

LEMMA StartJobGood ==
  ASSUME ToolInv, NEW a \in Agents, NEW j \in Jobs, startBackgroundTask(a, j)
  PROVE  ToolGood
<1>1. /\ UNCHANGED <<interactive, turn, aborted, workspace, dialogs, notes, heard>>
      /\ agents' = To(a, "head") /\ "head" \in Stages \ {"running"} /\ lock' = Waiting(j)
      /\ jobs' = [jobs EXCEPT ![j].st = "queued", ![j].by = a, ![j].turn = agents[a].turn]
  BY DEF startBackgroundTask, Stages
<1>2. agents[a].turn \in Nat /\ jobs \in [Jobs -> Job]
  BY DEF ToolInv, ToolTypeOK, Agent
<1> DEFINE new == [jobs[j] EXCEPT !.st = "queued", !.by = a, !.turn = agents[a].turn]
<1>3. new \in Job /\ new.st = "queued" /\ new.by = a
  BY <1>2 DEF Job
<1>4. jobs' = [jobs EXCEPT ![j] = new]
  BY <1>1, <1>2
<1> HIDE DEF new
<1>5. /\ jobs' \in [Jobs -> Job]
      /\ \A k \in Jobs : IF k = j THEN jobs'[k].st = "queued" /\ jobs'[k].by = a
                         ELSE jobs'[k] = jobs[k]
  BY <1>2, <1>3, <1>4
<1>6. lock' \in Seq(Agents \cup Jobs)
  BY <1>1, LockMoves DEF ToolInv, ToolTypeOK
<1>7. ToolTypeOK'
  BY <1>1, <1>5, <1>6, MovedObey DEF ToolInv, ToolTypeOK
<1>8. AgentsObey'
  BY <1>1, MovedObey
<1>9. JobsObey' /\ ReviewIsQuiet'
  BY <1>1, <1>5 DEF ToolInv, RunFacts, JobsObey, ReviewIsQuiet, Signalled
<1> QED BY <1>1, <1>7, <1>8, <1>9 DEF ToolGood, ToolInv, RunFacts, Quiet

LEMMA KillGood ==
  ASSUME ToolInv, NEW a \in Agents, NEW j \in Jobs, killBgTask(a, j)
  PROVE  ToolGood
<1>1. /\ UNCHANGED <<interactive, turn, aborted, lock, workspace, dialogs, notes, heard>>
      /\ agents' = To(a, "head") /\ "head" \in Stages \ {"running"}
  BY DEF killBgTask, Stages
<1>2. jobs \in [Jobs -> Job] /\ jobs[j] \in Job
  BY DEF ToolInv, ToolTypeOK
<1> DEFINE killed == jobs[j].killed \/ jobs[j].st \in {"queued", "running", "stopping"}
           st == IF jobs[j].st = "running" THEN "stopping" ELSE jobs[j].st
           new == [jobs[j] EXCEPT !.killed = killed, !.st = st]
<1>3. new \in Job
  BY <1>2 DEF Job
<1>4. new.st = st /\ new.by = jobs[j].by /\ new.turn = jobs[j].turn
  BY <1>2 DEF Job
<1>5. jobs' = [jobs EXCEPT ![j] = new]
  BY <1>2 DEF killBgTask
<1> HIDE DEF new
<1>6. JobsCalm
  <2>1. /\ jobs' \in [Jobs -> Job] /\ jobs'[j] = new
        /\ \A k \in Jobs \ {j} : jobs'[k] = jobs[k]
    BY <1>2, <1>3, <1>5
  <2> QED BY <1>4, <2>1 DEF JobsCalm, None
<1>7. ToolTypeOK'
  BY <1>1, <1>6, MovedObey, CalmJobs DEF ToolInv, ToolTypeOK, JobsCalm
<1>8. AgentsObey'
  BY <1>1, MovedObey
<1> QED BY <1>1, <1>6, <1>7, <1>8, CalmJobs DEF ToolGood, ToolInv, RunFacts, Quiet


LEMMA AgentNextGood ==
  ASSUME ToolInv, NEW a \in Agents, AgentNext(a)
  PROVE  ToolGood
BY StopsGood, CallsToolGood, MovesGood, StartJobGood, KillGood DEF AgentNext

-----------------------------------------------------------------------------
(* Delegation and the lock.                                                  *)

\* The steps that only move the lead or the worker.
LEMMA LockMovesGood ==
  ASSUME ToolInv, Delegates \/ Restored \/ WorkerCancelled
  PROVE  ToolGood
<1>a. "lead" \in Agents /\ "worker" \in Agents
  BY DEF Agents
<1>1. PICK a \in Agents, stage \in {"isolating", "head", "leaving"} :
        /\ agents' = To(a, stage)
        /\ lock' = Waiting(a) \/ (Owner(a) /\ lock' = Released)
        /\ UNCHANGED <<interactive, turn, aborted, jobs, workspace, dialogs, notes, heard>>
  <2>1. CASE Delegates
    BY <1>a, <2>1 DEF Delegates
  <2>2. CASE Restored
    BY <1>a, <2>2 DEF Restored
  <2>3. CASE WorkerCancelled
    BY <1>a, <2>3 DEF WorkerCancelled
  <2> QED BY <2>1, <2>2, <2>3
<1>2. lock' \in Seq(Agents \cup Jobs) /\ stage \in Stages \ {"running"}
  BY <1>1, LockMoves DEF ToolInv, ToolTypeOK, Stages
<1> QED BY <1>1, <1>2, OnlyMoves

LEMMA IsolatedGood ==
  ASSUME ToolInv, Isolated
  PROVE  ToolGood
<1>1. /\ UNCHANGED <<interactive, turn, aborted, jobs, dialogs, notes, heard>>
      /\ workspace' = "active" /\ Owner("lead") /\ lock' = Released /\ "lead" \in Agents
  BY DEF Isolated, Agents
<1> DEFINE lead == [agents["lead"] EXCEPT !.stage = "delegating"]
           worker == [stage |-> "head", turn |-> agents["lead"].turn,
                      call |-> NoCall, left |-> MaxCalls]
<1>2. agents["lead"] \in Agent /\ agents \in [Agents -> Agent]
  BY <1>1 DEF ToolInv, ToolTypeOK
<1>3. lead \in Agent /\ lead.stage = "delegating"
  BY <1>2 DEF Agent, Stages
<1>4. worker \in Agent /\ worker.stage = "head"
  BY <1>2, CallsAssumption DEF Agent, Stages
<1>5. agents' = [agents EXCEPT !["lead"] = lead, !["worker"] = worker]
  BY <1>2 DEF Isolated
<1> HIDE DEF lead, worker
<1>6. agents' \in [Agents -> Agent] /\ \A a \in Agents : agents'[a].stage # "running"
  BY <1>2, <1>3, <1>4, <1>5 DEF Agents
<1>7. lock' \in Seq(Agents \cup Jobs)
  BY <1>1, LockMoves DEF ToolInv, ToolTypeOK
<1>8. ToolTypeOK'
  BY <1>1, <1>6, <1>7 DEF ToolInv, ToolTypeOK
<1>9. RunFacts'
  BY <1>1, <1>6 DEF ToolInv, RunFacts, AgentsObey, JobsObey, ReviewIsQuiet, Signalled
<1> QED BY <1>1, <1>8, <1>9 DEF ToolGood, ToolInv, Quiet

\* A command starts only if the signal of its turn has not fired.
LEMMA ProceedsGood ==
  ASSUME ToolInv, LeadProceeds \/ WorkerProceeds
  PROVE  ToolGood
<1>a. "lead" \in Agents /\ "worker" \in Agents
  BY DEF Agents
<1>1. PICK a \in Agents, stage \in {"running", "stopping", "head"} :
        /\ agents' = To(a, stage)
        /\ stage = "running" => agents[a].turn \notin aborted
        /\ lock' = lock \/ (Owner(a) /\ lock' = Released)
        /\ UNCHANGED <<interactive, turn, aborted, jobs, workspace, dialogs, notes, heard>>
  <2> DEFINE starts == /\ agents["lead"].call.tool = "run_bash"
                       /\ agents["lead"].turn \notin aborted
  <2>1. CASE LeadProceeds /\ starts
    BY <1>a, <2>1 DEF LeadProceeds, Cancelled
  <2>2. CASE LeadProceeds /\ ~starts
    BY <1>a, <2>2 DEF LeadProceeds, Cancelled
  <2>3. CASE WorkerProceeds /\ agents["worker"].turn \in aborted
    BY <1>a, <2>3 DEF WorkerProceeds, Spawned
  <2>4. CASE WorkerProceeds /\ agents["worker"].turn \notin aborted
    BY <1>a, <2>4 DEF WorkerProceeds, Spawned
  <2> QED BY <2>1, <2>2, <2>3, <2>4
<1>2. lock' \in Seq(Agents \cup Jobs) /\ stage \in Stages
  BY <1>1, LockMoves DEF ToolInv, ToolTypeOK, Stages
<1>3. /\ agents' \in [Agents -> Agent]
      /\ \A b \in Agents : /\ agents'[b].turn = agents[b].turn
                           /\ agents'[b].stage = IF b = a THEN stage ELSE agents[b].stage
  BY <1>1, <1>2, ToMoves DEF ToolInv, ToolTypeOK
<1>4. ToolTypeOK'
  BY <1>1, <1>2, <1>3 DEF ToolInv, ToolTypeOK
<1>5. AgentsObey'
  BY <1>1, <1>3 DEF ToolInv, RunFacts, AgentsObey
<1>6. JobsObey' /\ ReviewIsQuiet'
  BY <1>1 DEF ToolInv, RunFacts, JobsObey, ReviewIsQuiet, Signalled
<1> QED BY <1>1, <1>4, <1>5, <1>6 DEF ToolGood, ToolInv, RunFacts, Quiet

\* A job starts only if its signal has not fired, and a worker's only while
\* its workspace is still the worker's.
LEMMA JobProceedsGood ==
  ASSUME ToolInv, NEW j \in Jobs, JobProceeds(j)
  PROVE  ToolGood
<1>1. jobs[j] \in Job /\ jobs \in [Jobs -> Job] /\ jobs[j].by \in Agents
  BY DEF ToolInv, ToolTypeOK, JobProceeds, None
<1>2. UNCHANGED <<interactive, turn, aborted, agents, workspace, dialogs, notes, heard>>
  BY DEF JobProceeds
<1>3. PICK st \in {"ended", "running", "stopping"} :
        /\ jobs' = [jobs EXCEPT ![j].st = st]
        /\ st = "running" => ~Signalled(j)
        /\ st # "ended" /\ jobs[j].by = "worker" => workspace = "active"
        /\ lock' = lock \/ (Owner(j) /\ lock' = Released)
  <2>1. CASE jobs[j].by = "lead" /\ Signalled(j)
    BY <2>1 DEF JobProceeds, Cancelled, Ended
  <2>2. CASE jobs[j].by = "lead" /\ ~Signalled(j)
    BY <2>2 DEF JobProceeds, Cancelled, Signalled
  <2>3. CASE jobs[j].by = "worker" /\ ~Writable
    BY <2>3 DEF JobProceeds, Ended
  <2>4. CASE jobs[j].by = "worker" /\ Writable
    <3>1. /\ Spawned(Signalled(j)) \in {"running", "stopping"}
          /\ Spawned(Signalled(j)) = "running" => ~Signalled(j)
      BY DEF Spawned
    <3> QED BY <2>4, <3>1 DEF JobProceeds, Writable
  <2> QED BY <1>1, <2>1, <2>2, <2>3, <2>4 DEF Agents
<1> DEFINE new == [jobs[j] EXCEPT !.st = st]
<1>4. /\ new \in Job /\ new.st = st /\ new.by = jobs[j].by
      /\ new.turn = jobs[j].turn /\ new.killed = jobs[j].killed
  BY <1>1 DEF Job
<1>5. jobs' = [jobs EXCEPT ![j] = new]
  BY <1>1, <1>3
<1> HIDE DEF new
<1>6. /\ jobs' \in [Jobs -> Job] /\ jobs'[j] = new
      /\ \A k \in Jobs \ {j} : jobs'[k] = jobs[k]
  BY <1>1, <1>4, <1>5
<1>7. lock' \in Seq(Agents \cup Jobs)
  BY <1>3, LockMoves DEF ToolInv, ToolTypeOK
<1>8. ToolTypeOK'
  BY <1>1, <1>2, <1>4, <1>6, <1>7 DEF ToolInv, ToolTypeOK
<1>9. AgentsObey'
  BY <1>2 DEF ToolInv, RunFacts, AgentsObey
<1>10. JobsObey'
  BY <1>2, <1>3, <1>4, <1>6 DEF ToolInv, RunFacts, JobsObey, Signalled
<1>11. ReviewIsQuiet'
  BY <1>2, <1>3, <1>4, <1>6 DEF ToolInv, RunFacts, ReviewIsQuiet
<1> QED BY <1>2, <1>8, <1>9, <1>10, <1>11 DEF ToolGood, ToolInv, RunFacts, Quiet

\* A workspace is given to review only when nothing runs in it.
LEMMA FinishGood ==
  ASSUME ToolInv, finishWorkspace
  PROVE  ToolGood
<1>1. /\ UNCHANGED <<interactive, turn, aborted, dialogs, notes, heard>>
      /\ Owner("worker") /\ lock' = Released /\ {"lead", "worker"} \subseteq Agents
      /\ \/ workspace' = "review" /\ Quiescent /\ jobs' = jobs
         \/ workspace' = workspace /\ jobs' = CancelOf("worker")
         \/ workspace' = "retained" /\ jobs' = jobs
  BY DEF finishWorkspace, Agents
<1>2. /\ agents["lead"] \in Agent /\ agents["worker"] \in Agent /\ agents \in [Agents -> Agent]
      /\ Idle \in Agent /\ Idle.stage = "off"
  BY DEF ToolInv, ToolTypeOK, Idle, Agent, NoTurn, Stages, Agents
<1>3. /\ agents' \in [Agents -> Agent]
      /\ \A a \in Agents : agents'[a].stage = "running" => agents'[a] = agents[a]
  <2>1. CASE agents' = [agents EXCEPT !["worker"] = Idle, !["lead"].stage = "head"]
    <3> DEFINE lead == [agents["lead"] EXCEPT !.stage = "head"]
    <3>1. lead \in Agent /\ lead.stage = "head"
      BY <1>2 DEF Agent, Stages
    <3>2. agents' = [agents EXCEPT !["worker"] = Idle, !["lead"] = lead]
      BY <1>2, <2>1
    <3> HIDE DEF lead
    <3> QED BY <1>2, <3>1, <3>2 DEF Agents
  <2>2. CASE agents' = [agents EXCEPT !["worker"].stage = "cancelling",
                                     !["worker"].left = Retrying]
    <3> DEFINE worker == [agents["worker"] EXCEPT !.stage = "cancelling", !.left = Retrying]
    <3>1. worker \in Agent /\ worker.stage = "cancelling"
      <4>1. Retrying \in Nat
        BY CallsAssumption DEF Retrying
      <4> QED BY <1>2, <4>1 DEF Agent, Stages
    <3>2. agents' = [agents EXCEPT !["worker"] = worker]
      BY <1>2, <2>2
    <3> HIDE DEF worker
    <3> QED BY <1>2, <3>1, <3>2 DEF Agents
  <2> QED BY <2>1, <2>2 DEF finishWorkspace
<1>4. JobsCalm
  BY <1>1, JobsUnchanged, CancelCalms
<1>5. /\ \A j \in Jobs : jobs'[j].st # None => jobs'[j].by \in Agents
      /\ ReviewIsQuiet'
  <2>1. \A j \in Jobs : jobs'[j].st # None => jobs'[j].by \in Agents
    BY <1>4 DEF ToolInv, ToolTypeOK, JobsCalm
  <2>2. ReviewIsQuiet'
    BY <1>1, <1>4 DEF ToolInv, RunFacts, ReviewIsQuiet, JobsCalm, Quiescent
  <2> QED BY <2>1, <2>2
<1>6. lock' \in Seq(Agents \cup Jobs)
  BY <1>1, LockMoves
    DEF ToolInv, ToolTypeOK
<1>7. ToolTypeOK'
  BY <1>1, <1>3, <1>4, <1>5, <1>6 DEF ToolInv, ToolTypeOK, JobsCalm
<1>8. AgentsObey'
  BY <1>1, <1>3 DEF ToolInv, RunFacts, AgentsObey
<1>9. JobsObey'
  BY <1>1, <1>4 DEF ToolInv, RunFacts, JobsObey, Signalled, JobsCalm
<1> QED BY <1>1, <1>5, <1>7, <1>8, <1>9 DEF ToolGood, ToolInv, RunFacts, Quiet

LEMMA LockNextGood ==
  ASSUME ToolInv, LockNext
  PROVE  ToolGood
BY LockMovesGood, IsolatedGood, ProceedsGood, JobProceedsGood, FinishGood DEF LockNext

-----------------------------------------------------------------------------
(* Jobs end, stall and are reported.                                         *)

LEMMA JobNextGood ==
  ASSUME ToolInv, NEW j \in Jobs, JobNext(j)
  PROVE  ToolGood
<1>1. /\ UNCHANGED <<interactive, turn, aborted, agents, workspace, dialogs>>
      /\ lock' \in {lock, Freed(j)}
      /\ notes' \cup heard' \subseteq notes \cup heard \cup ({"next", "later"} \X {j})
  BY DEF JobNext, JobExits, JobStalls, JobReports
<1>2. jobs[j] \in Job /\ jobs \in [Jobs -> Job]
  BY DEF ToolInv, ToolTypeOK
<1>3. PICK new \in Job :
        /\ jobs' = [jobs EXCEPT ![j] = new]
        /\ new.by = jobs[j].by /\ new.turn = jobs[j].turn /\ new.killed = jobs[j].killed
        /\ new.st = jobs[j].st \/ new.st \in {"ended", "reported"}
        /\ jobs[j].st # None
  <2>1. CASE JobExits(j) \/ JobReports(j)
    <3>1. PICK st \in {"ended", "reported"} : jobs' = [jobs EXCEPT ![j].st = st]
      BY <2>1 DEF JobExits, JobReports, Ended
    <3>2. jobs[j].st # None
      BY <2>1 DEF JobExits, JobReports, None
    <3> DEFINE new == [jobs[j] EXCEPT !.st = st]
    <3>3. /\ new \in Job /\ new.st = st /\ new.by = jobs[j].by
          /\ new.turn = jobs[j].turn /\ new.killed = jobs[j].killed
      BY <1>2 DEF Job
    <3>4. jobs' = [jobs EXCEPT ![j] = new]
      BY <1>2, <3>1
    <3> HIDE DEF new
    <3> QED BY <3>2, <3>3, <3>4
  <2>2. CASE JobStalls(j)
    <3> DEFINE new == [jobs[j] EXCEPT !.stalled = TRUE]
    <3>1. /\ new \in Job /\ new.st = jobs[j].st /\ new.by = jobs[j].by
          /\ new.turn = jobs[j].turn /\ new.killed = jobs[j].killed
      BY <1>2 DEF Job
    <3>2. jobs' = [jobs EXCEPT ![j] = new] /\ jobs[j].st # None
      BY <1>2, <2>2 DEF JobStalls, None
    <3> HIDE DEF new
    <3> QED BY <3>1, <3>2
  <2> QED BY <2>1, <2>2 DEF JobNext
<1>4. /\ jobs' \in [Jobs -> Job] /\ jobs'[j] = new
      /\ \A k \in Jobs \ {j} : jobs'[k] = jobs[k]
  BY <1>2, <1>3
<1>5. JobsCalm
  BY <1>3, <1>4 DEF JobsCalm
<1>6. lock' \in Seq(Agents \cup Jobs)
  BY <1>1, LockMoves DEF ToolInv, ToolTypeOK
<1>7. notes' \cup heard' \subseteq {"next", "later"} \X Jobs
  BY <1>1 DEF ToolInv, ToolTypeOK
<1>8. ToolTypeOK'
  BY <1>1, <1>4, <1>5, <1>6, <1>7, CalmJobs DEF ToolInv, ToolTypeOK
<1>9. AgentsObey'
  BY <1>1 DEF ToolInv, RunFacts, AgentsObey
<1> QED BY <1>1, <1>5, <1>8, <1>9, CalmJobs DEF ToolGood, ToolInv, RunFacts, Quiet

LEMMA ToolNextGood ==
  ASSUME ToolInv, ToolNext
  PROVE  ToolGood
BY AgentNextGood, LockMovesGood, LockNextGood, JobNextGood DEF ToolNext


-----------------------------------------------------------------------------
(* The terminal.                                                             *)

LEMMA InitIInv == Init => IInv
<1> SUFFICES ASSUME Init PROVE IInv
  OBVIOUS
<1>1. ToolTypeOK
  <2>1. Idle \in Agent
    BY DEF Idle, Agent, Stages, NoTurn
  <2>2. NoJobs \in [Jobs -> Job] /\ \A j \in Jobs : NoJobs[j].st = None
    BY DEF NoJobs, Job, NoTurn, None
  <2>3. turn \in 0..MaxTurns /\ aborted \subseteq 1..turn
    BY CallsAssumption DEF Init, ToolInit, NoTurn
  <2> QED BY <2>1, <2>2, <2>3 DEF Init, ToolInit, ToolTypeOK
<1>2. AtRest \in Ui
  BY DEF AtRest, Ui, NoTurn, None
<1>3. RunFacts
  BY DEF Init, ToolInit, RunFacts, AgentsObey, JobsObey, ReviewIsQuiet, Idle, NoJobs, None
<1>4. UiFacts /\ CommandWaits
  BY DEF Init, ToolInit, UiFacts, CommandWaits, AtRest, NoTurn
<1> QED BY <1>1, <1>2, <1>3, <1>4 DEF Init, ToolInit, IInv, TypeOK, OnlyEscAborts

\* A step of the tool calls is no step of the terminal.
LEMMA ToolsKeep ==
  ASSUME IInv, Tools(ToolNext)
  PROVE  IInv'
<1>1. /\ ToolTypeOK' /\ RunFacts' /\ turn' = turn /\ aborted' = aborted
      /\ dialogs' = dialogs \/ \E a \in Agents : dialogs' = Append(dialogs, a)
  BY ToolNextGood DEF Tools, IInv, TypeOK, ToolInv, ToolGood, Quiet
<1>2. UNCHANGED uiVars
  BY DEF Tools
<1>3. TypeOK' /\ OnlyEscAborts'
  BY <1>1, <1>2 DEF IInv, TypeOK, OnlyEscAborts, uiVars
<1>4. UiFacts'
  BY <1>1, <1>2 DEF IInv, UiFacts, uiVars
<1>5. CommandWaits'
  <2>1. CASE dialogs' = dialogs
    BY <1>2, <2>1 DEF IInv, CommandWaits, uiVars
  <2>2. ASSUME NEW a \in Agents, dialogs' = Append(dialogs, a)
        PROVE  CommandWaits'
    <3>1. dialogs \in Seq(Agents \cup {"command", "login", "models"}) /\ a # "command"
      BY DEF IInv, TypeOK, ToolTypeOK, Agents
    <3>2. \A i \in DOMAIN dialogs' : dialogs'[i] = "command" =>
             i \in DOMAIN dialogs /\ dialogs[i] = "command"
      BY <2>2, <3>1
    <3> QED BY <1>2, <3>2 DEF IInv, CommandWaits, uiVars
  <2> QED BY <1>1, <2>1, <2>2
<1> QED BY <1>1, <1>3, <1>4, <1>5 DEF IInv

\* A step of the terminal that starts and stops nothing, and keeps a command
\* waiting that waits.
LEMMA UiStep ==
  ASSUME IInv, UNCHANGED <<toolVars, escaped>>,
         commands' \in Nat, prompts' \in Nat, ui' \in Ui, UiFacts',
         ui.doing = "choosing" => ui'.doing = "choosing"
  PROVE  IInv'
<1>1. TypeOK' /\ OnlyEscAborts'
  BY DEF IInv, TypeOK, ToolTypeOK, OnlyEscAborts, toolVars
<1>2. RunFacts'
  BY DEF IInv, RunFacts, AgentsObey, JobsObey, ReviewIsQuiet, Signalled, toolVars
<1>3. CommandWaits'
  BY DEF IInv, CommandWaits, toolVars
<1> QED BY <1>1, <1>2, <1>3 DEF IInv

\* What finishing a question leaves: the editor has its own handler again.
LEMMA FinishRestores ==
  ASSUME ui \in Ui, UiFacts
  PROVE  LET u == finishLoginPrompt(ui)
         IN  /\ u \in Ui
             /\ u = [ui EXCEPT !.prompt = FALSE, !.submit = "handler", !.saved = None]
<1>1. (IF ui.saved # None THEN ui.saved ELSE ui.submit) = "handler"
  BY DEF UiFacts, None
<1> QED BY <1>1 DEF finishLoginPrompt, Ui, None

\* Queries and commands begin and end; the models are loaded.
LEMMA DoingKeeps ==
  ASSUME IInv, TurnOver \/ SubmitCommand \/ CommandEnds \/ beginLoginMode \/ CtrlL
  PROVE  IInv'
<1>1. ui \in Ui /\ UiFacts /\ commands \in Nat /\ prompts \in Nat
  BY DEF IInv, TypeOK
<1>2. CASE TurnOver
  <2>1. ui' = [ui EXCEPT !.ctl = NoTurn, !.busy = FALSE, !.doing = "nothing"]
    BY <1>1, <1>2 DEF TurnOver, endTurn, Ui
  <2>2. UNCHANGED <<toolVars, commands, prompts, escaped>> /\ ui.doing = "query"
    BY <1>2 DEF TurnOver
  <2>3. ui' \in Ui /\ UiFacts'
    BY <1>1, <2>1, <2>2 DEF UiFacts, Ui, NoTurn
  <2> QED BY <1>1, <2>2, <2>3, UiStep
<1>3. CASE SubmitCommand
  <2>1. /\ ui' = [ui EXCEPT !.busy = TRUE, !.doing = "command"] /\ ~ui.busy
        /\ UNCHANGED <<toolVars, prompts, escaped>> /\ commands' = commands + 1
    BY <1>3 DEF SubmitCommand
  <2>2. ui' \in Ui /\ UiFacts' /\ ui.doing # "choosing"
    BY <1>1, <2>1 DEF UiFacts, Ui, NoTurn
  <2> QED BY <1>1, <2>1, <2>2, UiStep
<1>4. CASE CommandEnds
  <2>1. /\ ui' = [ui EXCEPT !.busy = FALSE, !.doing = "nothing"]
        /\ UNCHANGED <<toolVars, commands, prompts, escaped>>
        /\ ui.doing \in {"command", "loggedIn"}
    BY <1>4 DEF CommandEnds
  <2>2. ui' \in Ui /\ UiFacts'
    BY <1>1, <2>1 DEF UiFacts, Ui, NoTurn
  <2> QED BY <1>1, <2>1, <2>2, UiStep
<1>5. CASE beginLoginMode
  <2>1. /\ ui' = [ui EXCEPT !.doing = "login", !.login = "on"] /\ ui.doing = "command"
        /\ UNCHANGED <<toolVars, commands, prompts, escaped>>
    BY <1>5 DEF beginLoginMode
  <2>2. ui' \in Ui /\ UiFacts'
    BY <1>1, <2>1 DEF UiFacts, Ui, NoTurn
  <2> QED BY <1>1, <2>1, <2>2, UiStep
<1>6. CASE CtrlL
  <2>1. /\ ui' = [ui EXCEPT !.models = TRUE]
        /\ UNCHANGED <<toolVars, commands, prompts, escaped>>
    BY <1>6 DEF CtrlL
  <2>2. ui' \in Ui /\ UiFacts' /\ ui'.doing = ui.doing
    BY <1>1, <2>1 DEF UiFacts, Ui, NoTurn, toolVars
  <2> QED BY <1>1, <2>1, <2>2, UiStep
<1> QED BY <1>2, <1>3, <1>4, <1>5, <1>6

\* A login ends, is cancelled or gets a value: the editor is given back.
LEMMA LoginKeeps ==
  ASSUME IInv, \/ LoginEnds \/ EnterValue
               \/ EscCancelsLogin /\ UNCHANGED <<commands, prompts>>
  PROVE  IInv'
<1>1. ui \in Ui /\ UiFacts /\ commands \in Nat /\ prompts \in Nat
  BY DEF IInv, TypeOK
<1>2. CASE LoginEnds
  <2> DEFINE off == [ui EXCEPT !.login = "off"]
  <2>1. off \in Ui
    BY <1>1 DEF Ui
  <2>2. off.saved # None => off.saved = "handler"
    BY <1>1 DEF UiFacts, Ui, None
  <2>3. finishLoginPrompt(off) = [ui EXCEPT !.login = "off", !.prompt = FALSE,
                                            !.submit = "handler", !.saved = None]
    BY <1>1, <2>1, <2>2 DEF finishLoginPrompt, Ui, UiFacts, None
  <2>4. ui' = [ui EXCEPT !.login = "off", !.prompt = FALSE, !.submit = "handler",
                         !.saved = None, !.doing = "loggedIn"]
    BY <1>1, <1>2, <2>3 DEF LoginEnds, endLoginMode, Ui
  <2>5. ui.doing = "login" /\ UNCHANGED <<toolVars, commands, prompts, escaped>>
    BY <1>2 DEF LoginEnds
  <2>6. ui' \in Ui /\ UiFacts'
    BY <1>1, <2>4, <2>5 DEF UiFacts, Ui, NoTurn, None
  <2> QED BY <1>1, <2>5, <2>6, UiStep
<1>3. CASE EnterValue
  <2>1. ui' = [ui EXCEPT !.prompt = FALSE, !.submit = "handler", !.saved = None]
    BY <1>1, <1>3, FinishRestores DEF EnterValue
  <2>2. UNCHANGED <<toolVars, commands, prompts, escaped>>
    BY <1>3 DEF EnterValue
  <2>3. ui' \in Ui /\ UiFacts' /\ ui'.doing = ui.doing
    BY <1>1, <2>1, <2>2 DEF UiFacts, Ui, NoTurn, None, toolVars
  <2> QED BY <1>1, <2>2, <2>3, UiStep
<1>4. CASE EscCancelsLogin /\ UNCHANGED <<commands, prompts>>
  <2>1. ui' = [ui EXCEPT !.prompt = FALSE, !.submit = "handler", !.saved = None,
                         !.login = "cancelled"]
    BY <1>1, <1>4, FinishRestores DEF EscCancelsLogin, Ui
  <2>2. UNCHANGED <<toolVars, commands, prompts, escaped>> /\ ui.login # "off"
    BY <1>4 DEF EscCancelsLogin
  <2>3. ui' \in Ui /\ UiFacts' /\ ui'.doing = ui.doing
    BY <1>1, <2>1, <2>2 DEF UiFacts, Ui, NoTurn, None, toolVars
  <2> QED BY <1>1, <2>2, <2>3, UiStep
<1> QED BY <1>2, <1>3, <1>4

\* The parts of the state an overlay has nothing to do with.
Others == <<interactive, turn, aborted, jobs, lock, workspace, notes, heard, escaped>>

\* A step that opens or closes an overlay and answers whoever asked.
LEMMA OverlayStep ==
  ASSUME IInv, UNCHANGED Others, commands' \in Nat, prompts' \in Nat,
         ui' \in Ui, UiFacts', CommandWaits',
         dialogs' \in Seq(Agents \cup {"command", "login", "models"}),
         agents' = agents \/ \E a \in Agents, stage \in {"hooks", "head"} : agents' = To(a, stage)
  PROVE  IInv'
<1>1. agents' \in [Agents -> Agent] /\ AgentsObey'
  <2>1. CASE agents' = agents
    BY <2>1 DEF IInv, TypeOK, ToolTypeOK, RunFacts, AgentsObey, Others
  <2>2. CASE \E a \in Agents, stage \in {"hooks", "head"} : agents' = To(a, stage)
    <3>1. ToolInv /\ aborted' = aborted /\ {"hooks", "head"} \subseteq Stages \ {"running"}
      BY DEF IInv, TypeOK, ToolInv, Others, Stages
    <3> QED BY <2>2, <3>1, MovedObey
  <2> QED BY <2>1, <2>2
<1>2. TypeOK' /\ OnlyEscAborts'
  BY <1>1 DEF IInv, TypeOK, ToolTypeOK, OnlyEscAborts, Others
<1>3. RunFacts'
  BY <1>1 DEF IInv, RunFacts, JobsObey, ReviewIsQuiet, Signalled, Others
<1> QED BY <1>2, <1>3 DEF IInv

LEMMA OpensKeep ==
  ASSUME IInv, CommandSelects \/ LoginPrompts \/ ModelsLoaded
  PROVE  IInv'
<1>1. /\ ui \in Ui /\ UiFacts /\ CommandWaits /\ commands \in Nat /\ prompts \in Nat
      /\ dialogs \in Seq(Agents \cup {"command", "login", "models"})
  BY DEF IInv, TypeOK, ToolTypeOK
<1>2. ASSUME NEW d \in {"command", "login", "models"}, dialogs' = Append(dialogs, d)
      PROVE  /\ dialogs' \in Seq(Agents \cup {"command", "login", "models"})
             /\ DOMAIN dialogs' = DOMAIN dialogs \cup {Len(dialogs) + 1}
             /\ \A i \in DOMAIN dialogs' :
                  dialogs'[i] = IF i = Len(dialogs) + 1 THEN d ELSE dialogs[i]
  BY <1>1, <1>2
<1>3. CASE CommandSelects
  <2>1. /\ ui' = [ui EXCEPT !.doing = "choosing"] /\ ui.doing = "command"
        /\ dialogs' = Append(dialogs, "command") /\ prompts' = prompts + 1
        /\ UNCHANGED <<Others, commands, agents>>
    BY <1>3 DEF CommandSelects, Others
  <2>2. ui' \in Ui /\ UiFacts'
    BY <1>1, <2>1 DEF UiFacts, Ui, NoTurn, Others
  <2>3. CommandWaits'
    <3>1. \A i \in DOMAIN dialogs : dialogs[i] # "command"
      BY <1>1, <2>1 DEF CommandWaits
    <3>2. ui'.doing = "choosing"
      BY <1>1, <2>1 DEF Ui
    <3> QED BY <1>2, <2>1, <3>1, <3>2 DEF CommandWaits
  <2> QED BY <1>1, <1>2, <2>1, <2>2, <2>3, OverlayStep
<1>4. CASE LoginPrompts /\ ui' = promptForInput(ui) /\ dialogs' = dialogs
  <2>1. /\ UNCHANGED <<Others, commands, agents>> /\ prompts' = prompts + 1
        /\ ui.doing = "login"
    BY <1>4 DEF LoginPrompts, Others
  <2> DEFINE v == IF ui.prompt THEN finishLoginPrompt(ui) ELSE ui
  <2>2. v = [ui EXCEPT !.prompt = FALSE, !.submit = "handler", !.saved = None]
    <3>1. CASE ui.prompt
      BY <1>1, <3>1, FinishRestores
    <3>2. CASE ~ui.prompt
      BY <1>1, <3>2 DEF UiFacts, Ui
    <3> QED BY <3>1, <3>2
  <2>3. ui' = [ui EXCEPT !.prompt = TRUE, !.saved = "handler", !.submit = "prompt"]
    <3>1. ui' = [v EXCEPT !.prompt = TRUE, !.saved = v.submit, !.submit = "prompt"]
      BY <1>4 DEF promptForInput
    <3>2. v.submit = "handler"
      BY <1>1, <2>2 DEF Ui
    <3> HIDE DEF v
    <3> QED BY <1>1, <2>2, <3>1, <3>2 DEF Ui
  <2> HIDE DEF v
  <2>4. ui' \in Ui /\ UiFacts' /\ ui'.doing = ui.doing
    BY <1>1, <2>1, <2>3 DEF UiFacts, Ui, NoTurn, Others
  <2>5. CommandWaits'
    BY <1>1, <1>4, <2>4 DEF CommandWaits
  <2> QED BY <1>1, <1>4, <2>1, <2>4, <2>5, OverlayStep
<1>5. CASE LoginPrompts /\ dialogs' = Append(dialogs, "login") /\ ui' = ui
  <2>1. UNCHANGED <<Others, commands, agents>> /\ prompts' = prompts + 1
    BY <1>5 DEF LoginPrompts, Others
  <2>2. UiFacts'
    BY <1>1, <1>5, <2>1 DEF UiFacts, Others
  <2>3. CommandWaits'
    BY <1>1, <1>2, <1>5 DEF CommandWaits
  <2> QED BY <1>1, <1>2, <1>5, <2>1, <2>2, <2>3, OverlayStep
<1>6. CASE ModelsLoaded
  <2>1. /\ UNCHANGED <<Others, commands, prompts, agents>>
        /\ ui' = [ui EXCEPT !.models = FALSE]
        /\ dialogs' = Append(dialogs, "models") \/ dialogs' = dialogs
    BY <1>6 DEF ModelsLoaded, Others
  <2>2. ui' \in Ui /\ UiFacts' /\ ui'.doing = ui.doing
    BY <1>1, <2>1 DEF UiFacts, Ui, Others
  <2>3. CommandWaits' /\ dialogs' \in Seq(Agents \cup {"command", "login", "models"})
    <3>1. CASE dialogs' = Append(dialogs, "models")
      BY <1>1, <1>2, <2>2, <3>1 DEF CommandWaits
    <3>2. CASE dialogs' = dialogs
      BY <1>1, <2>2, <3>2 DEF CommandWaits
    <3> QED BY <2>1, <3>1, <3>2
  <2> QED BY <1>1, <2>1, <2>2, <2>3, OverlayStep
<1> QED BY <1>3, <1>4, <1>5, <1>6 DEF LoginPrompts


\* An answer goes to the overlay in front; a command goes on when it was its.
LEMMA AnswerKeeps ==
  ASSUME IInv, NEW allowed \in BOOLEAN, Answer(allowed),
         UNCHANGED <<Others, commands, prompts>>
  PROVE  IInv'
<1>1. /\ ui \in Ui /\ UiFacts /\ CommandWaits /\ commands \in Nat /\ prompts \in Nat
      /\ dialogs \in Seq(Agents \cup {"command", "login", "models"}) /\ dialogs # <<>>
  BY DEF IInv, TypeOK, ToolTypeOK, Answer
<1>2. /\ dialogs' \in Seq(Agents \cup {"command", "login", "models"})
      /\ \A i \in DOMAIN dialogs' : i + 1 \in DOMAIN dialogs /\ dialogs'[i] = dialogs[i + 1]
  BY <1>1 DEF Answer
<1>3. 1 \in DOMAIN dialogs /\ Head(dialogs) = dialogs[1]
      /\ \A i \in DOMAIN dialogs' : i \in Nat \ {0}
  BY <1>1, <1>2
<1>4. agents' = agents \/ \E a \in Agents, stage \in {"hooks", "head"} : agents' = To(a, stage)
  <2>1. CASE Head(dialogs) \in Agents
    BY <2>1 DEF Answer, Answered
  <2>2. CASE Head(dialogs) \notin Agents
    BY <2>2 DEF Answer
  <2> QED BY <2>1, <2>2
<1>5. CASE Head(dialogs) = "command"
  <2>1. ui' = [ui EXCEPT !.doing = "command"] /\ ui.doing = "choosing"
    BY <1>1, <1>3, <1>5 DEF Answer, CommandWaits, Agents
  <2>2. ui' \in Ui /\ UiFacts'
    BY <1>1, <2>1 DEF UiFacts, Ui, NoTurn, Others
  <2>3. \A i \in DOMAIN dialogs' : dialogs'[i] # "command"
    <3> SUFFICES ASSUME NEW i \in DOMAIN dialogs', dialogs'[i] = "command" PROVE FALSE
      OBVIOUS
    <3>1. i + 1 = 1
      BY <1>1, <1>2, <1>3, <1>5 DEF CommandWaits
    <3> QED BY <1>3, <3>1
  <2>4. CommandWaits'
    BY <2>3 DEF CommandWaits
  <2> QED BY <1>1, <1>2, <1>4, <2>2, <2>4, OverlayStep
<1>6. CASE Head(dialogs) # "command"
  <2>1. ui' = ui
    BY <1>6 DEF Answer
  <2>2. UiFacts'
    BY <1>1, <2>1 DEF UiFacts, Others
  <2>3. CommandWaits'
    BY <1>1, <1>2, <1>3, <2>1 DEF CommandWaits
  <2> QED BY <1>1, <1>2, <1>4, <2>1, <2>2, <2>3, OverlayStep
<1> QED BY <1>5, <1>6

\* Esc stops the processes of the turn whose controller there is.
LEMMA EscInterruptsKeeps ==
  ASSUME IInv, EscInterrupts, UNCHANGED <<commands, prompts>>
  PROVE  IInv'
<1>1. /\ ui \in Ui /\ UiFacts /\ ToolTypeOK /\ RunFacts
      /\ jobs \in [Jobs -> Job] /\ agents \in [Agents -> Agent]
  BY DEF IInv, TypeOK, ToolTypeOK
<1>2. /\ ui.ctl = turn /\ ui.doing = "query" /\ turn \in 1..MaxTurns
      /\ aborted' = aborted \cup {turn} /\ escaped' = escaped \cup {turn}
      /\ jobs' = StopJobs(turn) /\ agents' = StopAgents(turn)
      /\ UNCHANGED <<interactive, turn, lock, workspace, dialogs, notes, heard, ui>>
  <2>1. ui.ctl = turn /\ ui.doing = "query" /\ ui.ctl # NoTurn
    BY <1>1 DEF EscInterrupts, UiFacts
  <2>2. turn \in 0..MaxTurns /\ turn # 0
    BY <1>1, <2>1 DEF ToolTypeOK, NoTurn
  <2> QED BY <2>1, <2>2, CallsAssumption DEF EscInterrupts
<1>3. /\ agents' \in [Agents -> Agent]
      /\ \A a \in Agents : agents'[a].stage = "running" =>
            agents'[a] = agents[a] /\ agents[a].turn # turn
  <2>1. ASSUME NEW a \in Agents
        PROVE  /\ agents'[a] \in Agent
               /\ agents'[a].stage = "running" => agents'[a] = agents[a] /\ agents[a].turn # turn
    <3>1. agents[a] \in Agent
      BY <1>1
    <3>2. CASE agents[a].stage = "running" /\ agents[a].turn = turn
      <4>1. agents'[a] = [agents[a] EXCEPT !.stage = "stopping"]
        BY <1>2, <3>2 DEF StopAgents
      <4> QED BY <3>1, <4>1 DEF Agent, Stages
    <3>3. CASE ~(agents[a].stage = "running" /\ agents[a].turn = turn)
      <4>1. agents'[a] = agents[a]
        BY <1>2, <3>3 DEF StopAgents
      <4> QED BY <3>1, <3>3, <4>1
    <3> QED BY <3>2, <3>3
  <2>2. agents' = [a \in Agents |-> agents'[a]]
    BY <1>2 DEF StopAgents
  <2> QED BY <2>1, <2>2
<1>4. /\ jobs' \in [Jobs -> Job]
      /\ \A j \in Jobs :
           /\ jobs'[j].by = jobs[j].by
           /\ jobs'[j].st # None => jobs[j].st # None
           /\ jobs'[j].st = "running" => jobs'[j] = jobs[j] /\ jobs[j].turn # turn
           /\ jobs'[j].st = "stopping" => jobs[j].st \in {"running", "stopping"}
  <2>1. ASSUME NEW j \in Jobs
        PROVE  /\ jobs'[j] \in Job
               /\ jobs'[j].by = jobs[j].by
               /\ jobs'[j].st # None => jobs[j].st # None
               /\ jobs'[j].st = "running" => jobs'[j] = jobs[j] /\ jobs[j].turn # turn
               /\ jobs'[j].st = "stopping" => jobs[j].st \in {"running", "stopping"}
    <3>1. jobs[j] \in Job
      BY <1>1
    <3>2. CASE jobs[j].st = "running" /\ jobs[j].turn = turn
      <4>1. jobs'[j] = [jobs[j] EXCEPT !.st = "stopping"]
        BY <1>2, <3>2 DEF StopJobs
      <4> QED BY <3>1, <3>2, <4>1 DEF Job, None
    <3>3. CASE ~(jobs[j].st = "running" /\ jobs[j].turn = turn)
      <4>1. jobs'[j] = jobs[j]
        BY <1>2, <3>3 DEF StopJobs
      <4> QED BY <3>1, <3>3, <4>1
    <3> QED BY <3>2, <3>3
  <2>2. jobs' = [j \in Jobs |-> jobs'[j]]
    BY <1>2 DEF StopJobs
  <2> QED BY <2>1, <2>2
<1>5. TypeOK'
  BY <1>2, <1>3, <1>4 DEF IInv, TypeOK, ToolTypeOK
<1>6. AgentsObey'
  BY <1>1, <1>2, <1>3 DEF RunFacts, AgentsObey
<1>7. JobsObey' /\ ReviewIsQuiet'
  <2>1. JobsObey'
    BY <1>1, <1>2, <1>4 DEF RunFacts, JobsObey, Signalled
  <2>2. ReviewIsQuiet'
    BY <1>1, <1>2, <1>4 DEF RunFacts, ReviewIsQuiet
  <2> QED BY <2>1, <2>2
<1>8. UiFacts' /\ CommandWaits' /\ OnlyEscAborts'
  BY <1>2 DEF IInv, UiFacts, CommandWaits, OnlyEscAborts
<1> QED BY <1>5, <1>6, <1>7, <1>8 DEF IInv, RunFacts

\* A query begins when no turn has a controller, so it aborts none.
LEMMA SubmitQueryKeeps ==
  ASSUME IInv, SubmitQuery
  PROVE  IInv'
<1>1. /\ ui \in Ui /\ UiFacts /\ ToolTypeOK /\ RunFacts /\ CommandWaits
      /\ jobs \in [Jobs -> Job] /\ agents \in [Agents -> Agent]
  BY DEF IInv, TypeOK, ToolTypeOK
<1>2. /\ turn' = turn + 1 /\ turn \in Nat /\ turn' \in 1..MaxTurns
      /\ UNCHANGED <<interactive, workspace, dialogs, notes, heard, commands, prompts, escaped>>
  BY <1>1, CallsAssumption DEF SubmitQuery, ToolTypeOK
<1>3. aborted' = aborted /\ jobs' = jobs
  <2>1. ui.ctl = NoTurn /\ BeginAborts = {}
    BY <1>1 DEF SubmitQuery, UiFacts, BeginAborts
  <2> QED BY <2>1 DEF SubmitQuery, Abort
<1>4. /\ agents' \in [Agents -> Agent] /\ lock' \in Seq(Agents \cup Jobs)
      /\ \A a \in Agents : agents'[a].stage = "running" => agents'[a] = agents[a]
  <2> DEFINE lead == [stage |-> "restoring", turn |-> turn + 1, call |-> NoCall, left |-> MaxCalls]
  <2>1. lead \in Agent /\ lead.stage = "restoring"
    BY <1>2, CallsAssumption DEF Agent, Stages
  <2>2. agents' = [agents EXCEPT !["lead"] = lead] /\ lock' = Waiting("lead")
    BY DEF SubmitQuery, BeginLead
  <2> HIDE DEF lead
  <2>3. lock' \in Seq(Agents \cup Jobs)
    BY <1>1, <2>2, LockMoves DEF ToolTypeOK, Agents
  <2> QED BY <1>1, <2>1, <2>2, <2>3
<1>5. PICK ctl \in {turn + 1, NoTurn} :
        ui' = [ui EXCEPT !.busy = TRUE, !.doing = "query", !.ctl = ctl]
  BY DEF SubmitQuery
<1>6. ui' \in Ui /\ UiFacts' /\ ui.doing = "nothing"
  <2>1. ui.doing = "nothing"
    BY <1>1 DEF SubmitQuery, UiFacts
  <2>2. ctl \in Nat /\ (ctl # NoTurn => ctl = turn')
    BY <1>2 DEF NoTurn
  <2>3. ui' \in Ui
    BY <1>1, <1>5, <2>2 DEF Ui
  <2>4. UiFacts'
    BY <1>1, <1>5, <2>1, <2>2 DEF UiFacts, Ui
  <2> QED BY <2>1, <2>3, <2>4
<1>7. TypeOK' /\ OnlyEscAborts'
  BY <1>1, <1>2, <1>3, <1>4, <1>6 DEF IInv, TypeOK, ToolTypeOK, OnlyEscAborts
<1>8. RunFacts'
  BY <1>1, <1>2, <1>3, <1>4
    DEF RunFacts, AgentsObey, JobsObey, ReviewIsQuiet, Signalled
<1>9. CommandWaits'
  BY <1>1, <1>2, <1>6 DEF CommandWaits
<1> QED BY <1>6, <1>7, <1>8, <1>9 DEF IInv

LEMMA exitAppKeeps ==
  ASSUME IInv, exitApp
  PROVE  IInv'
<1>1. /\ agents' = [a \in Agents |-> Idle] /\ jobs' = NoJobs
      /\ aborted' = {} /\ turn' = NoTurn /\ lock' = <<>> /\ dialogs' = <<>>
      /\ notes' = {} /\ heard' = {} /\ escaped' = {}
      /\ UNCHANGED <<interactive, workspace, commands, prompts>>
      /\ ui' = [AtRest EXCEPT !.running = FALSE]
  BY DEF exitApp
<1>2. TypeOK'
  <2>1. Idle \in Agent
    BY DEF Idle, Agent, Stages, NoTurn
  <2>2. NoJobs \in [Jobs -> Job] /\ \A j \in Jobs : NoJobs[j].st = None
    BY DEF NoJobs, Job, NoTurn, None
  <2>3. turn' \in 0..MaxTurns
    BY <1>1, CallsAssumption DEF NoTurn
  <2>4. ui' \in Ui
    BY <1>1 DEF NoTurn, AtRest, Ui, None
  <2> QED BY <1>1, <2>1, <2>2, <2>3, <2>4 DEF IInv, TypeOK, ToolTypeOK
<1>3. RunFacts' /\ OnlyEscAborts'
  BY <1>1 DEF RunFacts, AgentsObey, JobsObey, ReviewIsQuiet, Idle, NoJobs, None, OnlyEscAborts
<1>4. UiFacts' /\ CommandWaits'
  BY <1>1 DEF UiFacts, CommandWaits, AtRest, NoTurn
<1> QED BY <1>2, <1>3, <1>4 DEF IInv

LEMMA NextIInv == IInv /\ [Next]_vars => IInv'
<1> SUFFICES ASSUME IInv, [Next]_vars PROVE IInv'
  OBVIOUS
<1>1. CASE PressEnter
  <2>1. PICK allowed \in BOOLEAN : Answer(allowed)
    BY <1>1 DEF PressEnter
  <2>2. UNCHANGED <<Others, commands, prompts>>
    BY <1>1 DEF PressEnter, Others
  <2> QED BY <2>1, <2>2, AnswerKeeps
<1>2. CASE PressEsc
  <2>1. UNCHANGED <<commands, prompts>>
    BY <1>2 DEF PressEsc
  <2>2. CASE EscToOverlay
    <3>1. Answer(FALSE) /\ UNCHANGED Others
      BY <2>2 DEF EscToOverlay, Others
    <3> QED BY <2>1, <3>1, AnswerKeeps
  <2> QED BY <1>2, <2>1, <2>2, LoginKeeps, EscInterruptsKeeps DEF PressEsc
<1>3. CASE UNCHANGED vars
  BY <1>3 DEF vars, toolVars, uiVars, IInv, TypeOK, ToolTypeOK, RunFacts, AgentsObey, JobsObey,
     Signalled, ReviewIsQuiet, UiFacts, CommandWaits, OnlyEscAborts
<1> QED
  BY <1>1, <1>2, <1>3, ToolsKeep, SubmitQueryKeeps, DoingKeeps, LoginKeeps, OpensKeep, exitAppKeeps
    DEF Next

-----------------------------------------------------------------------------
(* The theorems.                                                             *)

\* The inductive invariant holds in every reachable state.
THEOREM Invariance == Spec => []IInv
<1> QED BY InitIInv, NextIInv, PTL DEF Spec

\* Agents, jobs, queues, overlays and the screen keep their types.
THEOREM TypeCorrect == Spec => []TypeOK
<1>1. IInv => TypeOK
  BY DEF IInv
<1> QED BY <1>1, Invariance, PTL

\* No command runs on behind an abort or a kill, and none of a worker in a
\* workspace that was given to review, however long it had waited for the lock
\* (process-runner.ts, background-task.ts, workspaces.ts).
THEOREM StoppedMeansStopped == Spec => []NothingRunsOn
<1>1. IInv => NothingRunsOn
  BY DEF IInv, RunFacts, AgentsObey, JobsObey, ReviewIsQuiet, NothingRunsOn
<1> QED BY <1>1, Invariance, PTL

\* A turn is aborted only by an Esc pressed while it ran (turn-controller.ts).
THEOREM AbortsAreAskedFor == Spec => []OnlyEscAborts
<1>1. IInv => OnlyEscAborts
  BY DEF IInv
<1> QED BY <1>1, Invariance, PTL

\* Outside a login Enter reaches the application's own handler, however many
\* questions the login asked and left unanswered (app.ts).
THEOREM EnterIsHandedBack == Spec => []SubmitReachesHandler
<1>1. IInv => SubmitReachesHandler
  BY DEF IInv, TypeOK, Ui, UiFacts, SubmitReachesHandler
<1> QED BY <1>1, Invariance, PTL

=============================================================================
