----------------------------- MODULE ToolCalls -----------------------------
(***************************************************************************)
(* What a tool call waits for: the user's answer, the hooks, the lock of     *)
(* the repository, a process.  The lead runs calls (agent-loop.ts runToolCall *)
(* and tools/runtime.ts executeToolCallResult), may delegate to a worker that *)
(* runs its own in an isolated workspace (tools/agent-tools.ts spawnSubagent), *)
(* and commands may go on in the background (background-task.ts).             *)
(*                                                                          *)
(* The lock is the queue of file-lock.ts inside one process.  A command run   *)
(* outside a leased workspace holds it until its process ends; a command of   *)
(* a worker takes it only to register its process (workspaces.ts).            *)
(*                                                                          *)
(* A turn is identified by a number; its abort signal is a member of aborted. *)
(***************************************************************************)
EXTENDS ToolGate

CONSTANTS
  Calls,       \* the calls a model may make
  Jobs,        \* identities of background jobs
  MaxTurns,    \* bound: turns the user starts
  MaxCalls     \* bound: calls an agent makes in one run

ASSUME CallsAssumption == MaxTurns \in Nat /\ MaxCalls \in Nat

Agents == {"lead", "worker"}

VARIABLES
  interactive, \* TRUE in the TUI, FALSE in the REPL
  turn,        \* the turn last begun
  aborted,     \* the turns whose abort signal has fired
  agents,      \* agent -> [stage, turn, call, left]
  jobs,        \* job -> [st, by, turn, killed, stalled]
  lock,        \* the queue of the repository lock, its owner first
  workspace,   \* the worker's: none, active, review or retained
  dialogs,     \* the owners of the open overlays, the one that gets the keys first
  notes,       \* notifications nobody has consumed: <<kind, job>>
  heard        \* those an agent has consumed

toolVars == <<interactive, turn, aborted, agents, jobs, lock, workspace, dialogs,
              notes, heard>>

None == "none"
NoTurn == 0
NoCall == [tool |-> None]
Retrying == MaxCalls + 1   \* the worker's workspace could not be closed at once

Stages == {"off", "restoring", "head", "asking", "hooks", "waiting", "running", "stopping",
           "isolating", "delegating", "cancelling", "leaving"}
Agent == [stage : Stages, turn : Nat, call : Calls \cup {NoCall}, left : Nat]

Job == [st : {None, "queued", "running", "stopping", "ended", "reported"},
        by : Agents \cup {None}, turn : Nat, killed : BOOLEAN, stalled : BOOLEAN]

Idle == [stage |-> "off", turn |-> NoTurn, call |-> NoCall, left |-> 0]

NoJobs ==
  [j \in Jobs |-> [st |-> None, by |-> None, turn |-> NoTurn,
                   killed |-> FALSE, stalled |-> FALSE]]

ToolInit ==
  /\ interactive \in BOOLEAN
  /\ turn = NoTurn /\ aborted = {}
  /\ agents = [a \in Agents |-> Idle]
  /\ jobs = NoJobs
  /\ lock = <<>> /\ workspace = None /\ dialogs = <<>>
  /\ notes = {} /\ heard = {}

-----------------------------------------------------------------------------
(* Helpers.                                                                  *)

Owner(h) == lock # <<>> /\ Head(lock) = h
Waiting(h) == Append(lock, h)

To(a, stage) == [agents EXCEPT ![a].stage = stage]

(* The TUI runs its turns as a script does: no background for its lead.      *)
allowBackground(a) ==
  Profile(a).enableBackground /\ (a = "lead" => ~interactive)

Signalled(j) == jobs[j].killed \/ jobs[j].turn \in aborted

(* The signal of turn t fires: every process listening to it is stopped.     *)
StopAgents(t) ==
  [a \in Agents |->
     IF agents[a].stage = "running" /\ agents[a].turn = t
     THEN [agents[a] EXCEPT !.stage = "stopping"] ELSE agents[a]]
StopJobs(t) ==
  [j \in Jobs |->
     IF jobs[j].st = "running" /\ jobs[j].turn = t
     THEN [jobs[j] EXCEPT !.st = "stopping"] ELSE jobs[j]]

(* A process of a worker has been registered; a signal that came meanwhile   *)
(* is looked at once more after the spawn.                                   *)
Spawned(signalled) == IF signalled THEN "stopping" ELSE "running"

(* runProcess refuses to start under a signal that has fired.                *)
Cancelled_Never(signalled) == FALSE
Cancelled(signalled) == signalled

-----------------------------------------------------------------------------
(* The head of the loop, the gate and the hooks.                             *)

(* cancelWorkspaceProcesses: those of an agent that have been spawned.       *)
CancelOf(a) ==
  [j \in Jobs |-> IF jobs[j].by = a /\ jobs[j].st = "running"
                  THEN [jobs[j] EXCEPT !.st = "stopping"] ELSE jobs[j]]

(* The lead's loop begins: it waits for the lock to restore its workspace.   *)
BeginLead(t) ==
  /\ agents' = [agents EXCEPT !["lead"] =
                  [stage |-> "restoring", turn |-> t, call |-> NoCall, left |-> MaxCalls]]
  /\ lock' = Waiting("lead")

(* The loop ends: aborted, out of requests or done.                          *)
Leave(a) ==
  IF a = "lead"
  THEN /\ agents' = [agents EXCEPT ![a] = Idle] /\ UNCHANGED <<lock, jobs>>
  ELSE (* cancelWorkspaceProcesses, then the lock to preserve and close.     *)
       /\ agents' = To(a, "cancelling") /\ UNCHANGED lock
       /\ jobs' = CancelOf(a)

(* The lead consumes every notification before each request of its own.      *)
Consume(a) ==
  IF Profile(a).injectBackgroundNotifications
  THEN notes' = {} /\ heard' = heard \union notes
  ELSE UNCHANGED <<notes, heard>>

Stops(a) ==
  /\ agents[a].stage = "head"
  /\ agents[a].turn \notin aborted => Consume(a)
  /\ agents[a].turn \in aborted => UNCHANGED <<notes, heard>>
  /\ Leave(a)
  /\ UNCHANGED <<interactive, turn, aborted, workspace, dialogs>>

(* The model answers with a call: refused by the gate, asked about, or on    *)
(* its way to the hooks.  Outside the TUI askUser rejects.                   *)
CallsTool(a) ==
  /\ agents[a].stage = "head" /\ agents[a].turn \notin aborted /\ agents[a].left > 0
  /\ Consume(a)
  /\ \E c \in Calls :
       LET asks == ~Refused(a, c) /\ checkRules(c)
           next == CASE Refused(a, c) -> "head"
                     [] asks /\ ~interactive -> "head"
                     [] asks /\ interactive -> "asking"
                     [] ~Refused(a, c) /\ ~asks -> "hooks"
       IN  /\ agents' = [agents EXCEPT ![a].stage = next, ![a].call = c, ![a].left = @ - 1]
           /\ dialogs' = IF asks /\ interactive THEN Append(dialogs, a) ELSE dialogs
  /\ UNCHANGED <<interactive, turn, aborted, jobs, lock, workspace>>

(* A hook answers, throws or is given up after its timeout; the instructions *)
(* of a directory are shown before the first edit in it.                     *)
HookRefuses(a) ==
  /\ agents[a].stage = "hooks"
  /\ agents' = To(a, "head")
  /\ UNCHANGED <<interactive, turn, aborted, jobs, lock, workspace, dialogs, notes, heard>>

Passed(a, tool) ==
  /\ agents[a].stage = "hooks" /\ agents[a].turn \notin aborted
  /\ agents[a].call.tool = tool

CancelledBeforeRun(a) ==
  /\ agents[a].stage = "hooks" /\ agents[a].turn \in aborted
  /\ agents' = To(a, "head")
  /\ UNCHANGED <<interactive, turn, aborted, jobs, lock, workspace, dialogs, notes, heard>>

Reads(a) ==
  /\ Passed(a, "read_file")
  /\ agents' = To(a, "head")
  /\ UNCHANGED <<interactive, turn, aborted, jobs, lock, workspace, dialogs, notes, heard>>

InBackground(a) == allowBackground(a) /\ shouldRunBackground(agents[a].call)

(* A command in the foreground, and an edit of the lead's own files.  (An    *)
(* edit of the worker waits for the lock too, but in a workspace of its own.) *)
TakesLock(a) ==
  /\ \/ Passed(a, "run_bash") /\ ~InBackground(a)
     \/ a = "lead" /\ Passed(a, "write_file")
  /\ agents' = To(a, "waiting") /\ lock' = Waiting(a)
  /\ UNCHANGED <<interactive, turn, aborted, jobs, workspace, dialogs, notes, heard>>

startBackgroundTask(a, j) ==
  /\ Passed(a, "run_bash") /\ InBackground(a)
  /\ jobs[j].st = None
  /\ jobs' = [jobs EXCEPT ![j].st = "queued", ![j].by = a, ![j].turn = agents[a].turn]
  /\ agents' = To(a, "head") /\ lock' = Waiting(j)
  /\ UNCHANGED <<interactive, turn, aborted, workspace, dialogs, notes, heard>>

killBgTask(a, j) ==
  /\ Passed(a, "background_job")
  /\ jobs' = [jobs EXCEPT
       ![j].killed = @ \/ jobs[j].st \in {"queued", "running", "stopping"},
       ![j].st = IF @ = "running" THEN "stopping" ELSE @]
  /\ agents' = To(a, "head")
  /\ UNCHANGED <<interactive, turn, aborted, lock, workspace, dialogs, notes, heard>>

(* The lead delegates: a private worktree is made under the lock.            *)
Delegates ==
  /\ Passed("lead", "delegate") /\ workspace = None   \* bound: one worker
  /\ agents' = To("lead", "isolating") /\ lock' = Waiting("lead")
  /\ UNCHANGED <<interactive, turn, aborted, jobs, workspace, dialogs, notes, heard>>

-----------------------------------------------------------------------------
(* What the owner of the lock does.                                          *)

Released == Tail(lock)

Restored ==
  /\ Owner("lead") /\ agents["lead"].stage = "restoring"
  /\ lock' = Released /\ agents' = To("lead", "head")
  /\ UNCHANGED <<interactive, turn, aborted, jobs, workspace, dialogs, notes, heard>>

Isolated ==
  /\ Owner("lead") /\ agents["lead"].stage = "isolating"
  /\ lock' = Released /\ workspace' = "active"
  /\ agents' = [agents EXCEPT !["lead"].stage = "delegating",
                  !["worker"] = [stage |-> "head", turn |-> agents["lead"].turn,
                                 call |-> NoCall, left |-> MaxCalls]]
  /\ UNCHANGED <<interactive, turn, aborted, jobs, dialogs, notes, heard>>

(* The lead's command runs under the lock; its edit is done at once, whether *)
(* or not the turn was aborted while it waited.                              *)
LeadProceeds ==
  /\ Owner("lead") /\ agents["lead"].stage = "waiting"
  /\ IF agents["lead"].call.tool = "run_bash" /\ ~Cancelled(agents["lead"].turn \in aborted)
     THEN agents' = To("lead", "running") /\ UNCHANGED lock
     ELSE agents' = To("lead", "head") /\ lock' = Released
  /\ UNCHANGED <<interactive, turn, aborted, jobs, workspace, dialogs, notes, heard>>

WorkerProceeds ==
  /\ Owner("worker") /\ agents["worker"].stage = "waiting"
  /\ agents' = To("worker", Spawned(agents["worker"].turn \in aborted))
  /\ lock' = Released
  /\ UNCHANGED <<interactive, turn, aborted, jobs, workspace, dialogs, notes, heard>>

(* requireWritableWorkspace, for a job of the worker.                        *)
Writable == workspace = "active"

Ended_Unreported(j) == [jobs EXCEPT ![j].st = "reported"]
(* Its status and output are in its record; the order of events is not.      *)
Ended(j) == [jobs EXCEPT ![j].st = "ended"]

(* A job of the lead holds the lock while it runs.  A job of a worker is     *)
(* refused once its workspace is no longer active.                           *)
JobProceeds(j) ==
  /\ Owner(j) /\ jobs[j].st = "queued"
  /\ CASE jobs[j].by = "lead" /\ Cancelled(Signalled(j)) ->
            jobs' = Ended(j) /\ lock' = Released
       [] jobs[j].by = "lead" /\ ~Cancelled(Signalled(j)) ->
            jobs' = [jobs EXCEPT ![j].st = "running"] /\ UNCHANGED lock
       [] jobs[j].by = "worker" /\ ~Writable ->
            jobs' = Ended(j) /\ lock' = Released
       [] jobs[j].by = "worker" /\ Writable ->
            jobs' = [jobs EXCEPT ![j].st = Spawned(Signalled(j))] /\ lock' = Released
  /\ UNCHANGED <<interactive, turn, aborted, agents, workspace, dialogs, notes, heard>>

-----------------------------------------------------------------------------
(* Processes end: by themselves, at their timeout or killed.                 *)

Freed_Kept(h) == lock
Freed(h) == IF Owner(h) THEN Released ELSE lock

CommandExits(a) ==
  /\ agents[a].stage \in {"running", "stopping"}
  /\ agents' = To(a, "head") /\ lock' = Freed(a)
  /\ UNCHANGED <<interactive, turn, aborted, jobs, workspace, dialogs, notes, heard>>

JobExits(j) ==
  /\ jobs[j].st \in {"running", "stopping"}
  /\ jobs' = Ended(j) /\ lock' = Freed(j)
  /\ UNCHANGED <<interactive, turn, aborted, agents, workspace, dialogs, notes, heard>>

(* No output for a while: said once.  The watchdog runs from the start of    *)
(* the job, before it has the lock.                                          *)
JobStalls(j) ==
  /\ jobs[j].st \in {"queued", "running"} /\ ~jobs[j].stalled
  /\ jobs' = [jobs EXCEPT ![j].stalled = TRUE]
  /\ notes' = notes \union {<<"next", j>>}
  /\ UNCHANGED <<interactive, turn, aborted, agents, lock, workspace, dialogs, heard>>

(* The PostToolUse hooks have run; the result is told.                       *)
JobReports(j) ==
  /\ jobs[j].st = "ended"
  /\ jobs' = [jobs EXCEPT ![j].st = "reported"]
  /\ notes' = notes \union {<<"later", j>>}
  /\ UNCHANGED <<interactive, turn, aborted, agents, lock, workspace, dialogs, heard>>

-----------------------------------------------------------------------------
(* The worker's end: its running processes have ended, then the lock; what   *)
(* still runs keeps the workspace from closing, at the second attempt for    *)
(* good.                                                                     *)

WorkerCancelled ==
  /\ agents["worker"].stage = "cancelling"
  /\ \A j \in Jobs : jobs[j].by = "worker" => jobs[j].st # "stopping"
  /\ agents' = To("worker", "leaving") /\ lock' = Waiting("worker")
  /\ UNCHANGED <<interactive, turn, aborted, jobs, workspace, dialogs, notes, heard>>

Quiescent == \A j \in Jobs : jobs[j].by = "worker" => jobs[j].st \notin {"running", "stopping"}

(* Preserving the worker's changes may fail as well.                         *)
finishWorkspace ==
  /\ Owner("worker") /\ agents["worker"].stage = "leaving"
  /\ lock' = Released
  /\ \E preserved \in BOOLEAN :
       IF Quiescent /\ preserved
       THEN /\ workspace' = "review" /\ UNCHANGED jobs
            /\ agents' = [agents EXCEPT !["worker"] = Idle, !["lead"].stage = "head"]
       ELSE IF agents["worker"].left # Retrying
       THEN /\ agents' = [agents EXCEPT !["worker"].stage = "cancelling",
                                       !["worker"].left = Retrying]
            /\ jobs' = CancelOf("worker") /\ UNCHANGED workspace
       ELSE /\ workspace' = "retained" /\ UNCHANGED jobs
            /\ agents' = [agents EXCEPT !["worker"] = Idle, !["lead"].stage = "head"]
  /\ UNCHANGED <<interactive, turn, aborted, dialogs, notes, heard>>

-----------------------------------------------------------------------------

(* The user answers the dialog of a call: finish() closes it and resumes.    *)
Answered(a, allowed) ==
  agents' = To(a, IF allowed THEN "hooks" ELSE "head")

AgentNext(a) ==
  \/ Stops(a) \/ CallsTool(a) \/ HookRefuses(a) \/ CancelledBeforeRun(a) \/ Reads(a)
  \/ TakesLock(a) \/ CommandExits(a)
  \/ \E j \in Jobs : startBackgroundTask(a, j) \/ killBgTask(a, j)

LockNext ==
  \/ Restored \/ Isolated \/ LeadProceeds \/ WorkerProceeds \/ finishWorkspace
  \/ \E j \in Jobs : JobProceeds(j)

JobNext(j) == JobExits(j) \/ JobStalls(j) \/ JobReports(j)

ToolNext ==
  \/ \E a \in Agents : AgentNext(a)
  \/ Delegates \/ WorkerCancelled \/ LockNext
  \/ \E j \in Jobs : JobNext(j)

-----------------------------------------------------------------------------

(* Agents, jobs, the queue and the overlays have their types; a job that was *)
(* started belongs to the agent that started it.                             *)
ToolTypeOK ==
  /\ interactive \in BOOLEAN
  /\ turn \in 0..MaxTurns /\ aborted \subseteq 1..turn
  /\ agents \in [Agents -> Agent]
  /\ jobs \in [Jobs -> Job]
  /\ \A j \in Jobs : jobs[j].st # None => jobs[j].by \in Agents
  /\ lock \in Seq(Agents \cup Jobs)
  /\ workspace \in {None, "active", "review", "retained"}
  /\ dialogs \in Seq(Agents \cup {"command", "login", "models"})
  /\ notes \cup heard \subseteq {"next", "later"} \X Jobs

=============================================================================
