----------------------------- MODULE Teammates -----------------------------
(***************************************************************************)
(* Free-swarm teammates of claude-pi: src/teammates/spawn.ts,              *)
(* inbox-dispatch.ts, lifecycle.ts, autonomous.ts, and the parts of        *)
(* mailbox.ts and team-helpers.ts they call.                               *)
(*                                                                         *)
(* All teammates are coroutines of one process.  The code between two      *)
(* awaits is one step; at every await the lead, the user and the other     *)
(* teammates go on.  A mailbox is changed under a file lock, hence in one  *)
(* step, and is read without it.  Team file and mailboxes survive the      *)
(* process; the table of active teammates does not.                        *)
(*                                                                         *)
(* Left out: the lead's mailbox (a teammate only appends to it), the       *)
(* notices of other teammates' end (a teammate skips them), and what a     *)
(* teammate does while it works: claiming and delivering tasks is          *)
(* TaskBoard's.                                                            *)
(***************************************************************************)
EXTENDS Integers, Sequences, FiniteSets

CONSTANTS
    Names,       \* names the lead gives to teammates
    MaxRuns,     \* spawns, over all processes
    MaxActive,   \* MAX_ACTIVE_TEAMMATES
    MaxMessages, \* messages ever written to the mailboxes
    MaxRestarts  \* times the process ends and another one starts

ASSUME TeamAssumption ==
    /\ IsFiniteSet(Names)
    /\ MaxRuns \in Nat /\ MaxActive \in Nat /\ MaxMessages \in Nat /\ MaxRestarts \in Nat

VARIABLES
    member,   \* isActive in the team file
    active,   \* the table of active teammates: a name's run, 0 if it has none
    run,      \* the coroutines, in the order they were spawned
    asked,    \* runs with a shutdown request on its way to the mailbox
    inbox,    \* mailboxes, by name
    restarts,
    stranded, \* names that were active when a process ended
    approved  \* runs that have sent shutdown_approved

vars == <<member, active, run, asked, inbox, restarts, stranded, approved>>

\* `for' is the run a message was meant for, `injected' says that it reached
\* a model, `raced' that it was marked read behind the reader's back.
Message == [kind: {"plain", "shutdown"}, for: 0..MaxRuns, read: BOOLEAN,
            injected: BOOLEAN, raced: BOOLEAN]

Looping == {"poll", "answer", "mark", "return", "work", "report", "claim", "wait"}
Over    == {"broadcast", "dead"}

\* idle: idlePoll reads the mailbox, not the main loop; seen: how much of it
\* the dispatch has read; stop and plain: what it found there.
RunRec == [name: Names, pc: Looping \cup Over, idle: BOOLEAN, seen: 0..MaxMessages,
           stop: BOOLEAN, plain: BOOLEAN]

Init ==
    /\ member = [n \in Names |-> FALSE]
    /\ active = [n \in Names |-> 0]
    /\ run = <<>>
    /\ asked = {}
    /\ inbox = [n \in Names |-> <<>>]
    /\ restarts = 0
    /\ stranded = {} /\ approved = {}

----------------------------------------------------------------------------
(* Helpers.                                                                *)

Spawned  == DOMAIN run
Name(r)  == run[r].name
At(r, p) == run[r].pc = p
Goto(r, p) == run' = [run EXCEPT ![r].pc = p]

\* The coroutine goes on at p, outside a dispatch whose locals are gone.
Loop(r, p, idle) ==
    run' = [run EXCEPT ![r] = [name |-> @.name, pc |-> p, idle |-> idle, seen |-> 0,
                               stop |-> FALSE, plain |-> FALSE]]

\* isShutdownRequested
ShutdownRequested(r) == active[Name(r)] # r

Unread(n, kind) == {i \in DOMAIN inbox[n] : inbox[n][i].kind = kind /\ ~inbox[n][i].read}

Written == {e \in Names \X (1..MaxMessages) : e[2] \in DOMAIN inbox[e[1]]}

NewMessage(kind, r) ==
    [kind |-> kind, for |-> r, read |-> FALSE, injected |-> FALSE, raced |-> FALSE]

\* writeToMailbox
Post(n, kind, r) ==
    /\ Cardinality(Written) < MaxMessages
    /\ inbox' = [inbox EXCEPT ![n] = Append(@, NewMessage(kind, r))]

\* Mutant: the last entry read is left out.
Batch_OffByOne(n, k) == {i \in Unread(n, "plain") : i < k}

\* The unread plain entries among the first k.
Batch(n, k) == {i \in Unread(n, "plain") : i <= k}

\* They become one user message of the model.
Inject(n, k) ==
    inbox' = [inbox EXCEPT ![n] =
        [i \in DOMAIN inbox[n] |-> [inbox[n][i] EXCEPT !.injected = @ \/ i \in Batch(n, k)]]]

\* markMessagesAsRead reads the mailbox again and marks all of it.
MarkAll(r) ==
    LET box == inbox[Name(r)] IN
    inbox' = [inbox EXCEPT ![Name(r)] =
        [i \in DOMAIN box |-> [box[i] EXCEPT !.read = TRUE,
                                            !.raced = @ \/ (i > run[r].seen /\ ~box[i].read)]]]

----------------------------------------------------------------------------
(* Spawning, messages and requests to stop.                                *)

\* Mutant: the team file alone says whether the name is taken.
CanSpawn_FileOnly(n) ==
    /\ ~member[n]
    /\ Cardinality({m \in Names : active[m] # 0}) < MaxActive

\* ensureTeammateForSpawn looks at the team file as well.
CanSpawn(n) ==
    /\ active[n] = 0
    /\ Cardinality({m \in Names : active[m] # 0}) < MaxActive
    /\ ~member[n]

Spawn(n) ==
    /\ CanSpawn(n) /\ Len(run) < MaxRuns
    /\ member' = [member EXCEPT ![n] = TRUE]
    /\ active' = [active EXCEPT ![n] = Len(run) + 1]
    /\ run' = Append(run, [name |-> n, pc |-> "poll", idle |-> FALSE, seen |-> 0,
                           stop |-> FALSE, plain |-> FALSE])
    /\ UNCHANGED <<asked, inbox, restarts, stranded, approved>>

\* requestTeammateShutdown looks the name up, then waits for the mailbox.
AskShutdown(n) ==
    /\ active[n] # 0 /\ active[n] \notin asked
    /\ asked' = asked \cup {active[n]}
    /\ UNCHANGED <<member, active, run, inbox, restarts, stranded, approved>>

PostShutdown(r) ==
    /\ r \in asked
    /\ asked' = asked \ {r}
    /\ Post(Name(r), "shutdown", r)
    /\ UNCHANGED <<member, active, run, restarts, stranded, approved>>

\* send_message: nobody looks whether the name is active.
SendPlain(n) ==
    /\ Post(n, "plain", active[n])
    /\ UNCHANGED <<member, active, run, asked, restarts, stranded, approved>>

----------------------------------------------------------------------------
(* The end of a run.                                                       *)

\* Mutant: the team file is left to the broadcast.
Deregister_TableOnly(n) == active' = [active EXCEPT ![n] = 0] /\ UNCHANGED member

\* The registry, the table and the team file change in one synchronous block.
Deregister(n) ==
    /\ active' = [active EXCEPT ![n] = 0]
    /\ member' = [member EXCEPT ![n] = FALSE]

Finish(r) ==
    /\ Deregister(Name(r))
    /\ Loop(r, "broadcast", FALSE)
    /\ UNCHANGED <<asked, inbox, restarts, stranded, approved>>

\* notifyTeammateTerminated waits for a mailbox per recipient, then deactivates
\* the name; an error on the way skips that.
Broadcast(r) ==
    /\ At(r, "broadcast")
    /\ Goto(r, "dead")
    /\ \/ member' = [member EXCEPT ![Name(r)] = FALSE]
       \/ UNCHANGED member
    /\ UNCHANGED <<active, asked, inbox, restarts, stranded, approved>>

\* An await of the loop throws: a lock, a model call, a claim.
Fail(r) ==
    /\ run[r].pc \in {"answer", "mark", "work", "report", "claim"}
    /\ Finish(r)

----------------------------------------------------------------------------
(* dispatchInboxBatch, for the main loop or for idlePoll.                  *)

\* Mutant: a batch with plain messages is not searched for a request.
FindsStop_PlainFirst(n) == Unread(n, "plain") = {} /\ Unread(n, "shutdown") # {}

FindsStop(n) == Unread(n, "shutdown") # {}

\* The mailbox is read; without a request the plain entries are injected at once.
Poll(r) ==
    LET n     == Name(r)
        stop  == FindsStop(n)
        plain == Unread(n, "plain") # {}
    IN /\ At(r, "poll")
       /\ IF ShutdownRequested(r) THEN Finish(r)
          ELSE /\ run' = [run EXCEPT ![r] =
                     [@ EXCEPT !.seen = Len(inbox[n]), !.stop = stop, !.plain = plain,
                               !.pc = CASE stop -> "answer"
                                        [] plain /\ ~stop -> "mark"
                                        [] OTHER -> "return"]]
               /\ IF plain /\ ~stop THEN Inject(n, Len(inbox[n])) ELSE UNCHANGED inbox
               /\ UNCHANGED <<member, active, asked, restarts, stranded, approved>>

\* handleShutdownRequest for each request; then the plain entries.
Answer(r) ==
    /\ At(r, "answer")
    /\ approved' = approved \cup {r}
    /\ IF run[r].plain
       THEN Inject(Name(r), run[r].seen) /\ Goto(r, "mark")
       ELSE UNCHANGED inbox /\ Goto(r, "return")
    /\ UNCHANGED <<member, active, asked, restarts, stranded>>

Mark(r) ==
    /\ At(r, "mark")
    /\ MarkAll(r)
    /\ Goto(r, "return")
    /\ UNCHANGED <<member, active, asked, restarts, stranded, approved>>

\* Mutant: new messages are looked at before the request.
Stops_UnlessResuming(r) == run[r].stop /\ ~(run[r].idle /\ run[r].plain)

Stops(r) == run[r].stop

\* The main loop works; idlePoll goes back to it when there are messages, and
\* looks at the task board when there are none.
Continue(r) ==
    CASE ~run[r].idle                  -> Loop(r, "work", FALSE)
      [] run[r].idle /\ run[r].plain  -> Loop(r, "poll", FALSE)
      [] run[r].idle /\ ~run[r].plain -> Loop(r, "claim", TRUE)

Return(r) ==
    /\ At(r, "return")
    /\ IF Stops(r) THEN Finish(r)
       ELSE /\ Continue(r)
            /\ UNCHANGED <<member, active, asked, inbox, restarts, stranded, approved>>

----------------------------------------------------------------------------
(* Working and idling.                                                     *)

\* agentLoopDetailed: at most TEAMMATE_WORK_MAX_TURNS turns.
Work(r) ==
    /\ At(r, "work") /\ Goto(r, "report")
    /\ UNCHANGED <<member, active, asked, inbox, restarts, stranded, approved>>

\* The result and the idle notification go to the lead's mailbox.
Report(r) ==
    /\ At(r, "report")
    /\ Loop(r, "poll", TRUE)
    /\ UNCHANGED <<member, active, asked, inbox, restarts, stranded, approved>>

\* tryClaimNextTask: a claimed task goes to the main loop.
Claim(r) ==
    /\ At(r, "claim")
    /\ \/ Loop(r, "poll", FALSE)
       \/ Goto(r, "wait")
    /\ UNCHANGED <<member, active, asked, inbox, restarts, stranded, approved>>

Wait(r) ==
    /\ At(r, "wait")
    /\ Goto(r, "poll")
    /\ UNCHANGED <<member, active, asked, inbox, restarts, stranded, approved>>

\* The last wait of TEAMMATE_IDLE_TIMEOUT is over: no further look at the mailbox.
Timeout(r) == At(r, "wait") /\ Finish(r)

----------------------------------------------------------------------------
(* Next.                                                                   *)

\* The process ends, in whatever way, and another one starts.  No code runs for
\* the teammates that were active.
Restart ==
    /\ restarts < MaxRestarts
    /\ restarts' = restarts + 1
    /\ stranded' = stranded \cup {n \in Names : active[n] # 0}
    /\ active' = [n \in Names |-> 0]
    /\ run' = [r \in Spawned |-> [name |-> Name(r), pc |-> "dead", idle |-> FALSE, seen |-> 0,
                                   stop |-> FALSE, plain |-> FALSE]]
    /\ asked' = {}
    /\ UNCHANGED <<member, inbox, approved>>

\* The coroutine goes on.
Advance(r) ==
    \/ Poll(r) \/ Answer(r) \/ Mark(r) \/ Return(r) \/ Work(r) \/ Report(r)
    \/ Claim(r) \/ Wait(r) \/ Timeout(r) \/ Broadcast(r) \/ Fail(r)

Next ==
    \/ Restart
    \/ \E n \in Names : Spawn(n) \/ AskShutdown(n) \/ SendPlain(n)
    \/ \E r \in Spawned : PostShutdown(r) \/ Advance(r)

Spec == Init /\ [][Next]_vars

\* A coroutine runs on: its awaits are file locks, timers and model calls with
\* a deadline.  A request on its way reaches the mailbox.
FairSpec == Spec /\ \A r \in 1..MaxRuns :
                       /\ WF_vars(r \in Spawned /\ Advance(r))
                       /\ WF_vars(r \in Spawned /\ PostShutdown(r))

----------------------------------------------------------------------------
(* Properties.                                                             *)

\* Files, tables and coroutines have the shape their readers rely on; protocol
\* messages do not reach a model.
TypeOK ==
    /\ member \in [Names -> BOOLEAN]
    /\ active \in [Names -> 0..MaxRuns]
    /\ run \in Seq(RunRec) /\ Len(run) <= MaxRuns
    /\ asked \subseteq Spawned /\ approved \subseteq Spawned
    /\ inbox \in [Names -> Seq(Message)]
    /\ \A n \in Names : \A i \in DOMAIN inbox[n] :
          inbox[n][i].injected => inbox[n][i].kind = "plain"
    /\ restarts \in 0..MaxRestarts /\ stranded \subseteq Names

\* Two guards, the table and the team file, and a file that a run that is over
\* may still change: a loop runs exactly as long as the table names it, so no
\* name has two.
OneLoopPerName ==
    /\ \A r \in Spawned : run[r].pc \in Looping <=> active[Name(r)] = r
    /\ \A q, r \in Spawned :
          q # r /\ run[q].pc \in Looping /\ run[r].pc \in Looping => Name(q) # Name(r)

\* Of the three tables that end a run together none is left behind: only a name
\* whose process ended under it is taken in the file and free in the table.
FreeNameCanBeSpawned ==
    \A n \in Names : member[n] /\ active[n] = 0 => n \in stranded

\* A message marked as read has reached a model, or came between the read of
\* the mailbox and the mark.
ReadMeansInjected ==
    \A n \in Names : \A i \in DOMAIN inbox[n] :
        LET m == inbox[n][i] IN m.kind = "plain" /\ m.read => m.injected \/ m.raced

\* A teammate that has told the lead it stops works on no more.
ApprovalIsFinal ==
    \A r \in approved : run[r].pc \in {"answer", "mark", "return"} \cup Over

\* A request in the mailbox ends the run it was sent to, or was lost unseen.
RequestEndsRun ==
    \A n \in Names, i \in 1..MaxMessages :
        LET Waiting == /\ i \in DOMAIN inbox[n]
                       /\ inbox[n][i].kind = "shutdown" /\ ~inbox[n][i].raced
                       /\ run[inbox[n][i].for].pc \in Looping
        IN Waiting ~> ~Waiting

=============================================================================
