--------------------------- MODULE TaskLifecycle ---------------------------
(***************************************************************************)
(* What the task board promises, without files, locks, leases or crashes:  *)
(* a task is held by one agent at a time, is taken only after everything   *)
(* it depends on is done, changes only while it is held, is given back     *)
(* only unchanged, is delivered only when nobody works below it any more,  *)
(* and is done only when the main workspace has what it produced.          *)
(* TaskBoard implements this (TaskBoard!Lifecycle).                        *)
(***************************************************************************)
EXTENDS Integers

CONSTANTS Agents, Tasks, MaxEdits, None

VARIABLES
    phase,    \* "absent", "open", "held", "review", "done"
    holder,   \* the agent a task was given to
    blockers, \* tasks that must be done before it is taken
    edits,    \* how often the task's files were changed
    helping,  \* whether a command or a worker runs in the task's worktree
    merged    \* version in the main workspace, None once the user changed it

lvars == <<phase, holder, blockers, edits, helping, merged>>

LifecycleInit ==
    /\ phase = [t \in Tasks |-> "absent"]
    /\ holder = [t \in Tasks |-> None]
    /\ blockers = [t \in Tasks |-> {}]
    /\ edits = [t \in Tasks |-> 0]
    /\ helping = [t \in Tasks |-> FALSE]
    /\ merged = [t \in Tasks |-> 0]

\* Dependencies exist when the task is created, so they can form no cycle.
Create(t) ==
    /\ phase[t] = "absent"
    /\ \E deps \in SUBSET {d \in Tasks : phase[d] # "absent"} :
          blockers' = [blockers EXCEPT ![t] = deps]
    /\ phase' = [phase EXCEPT ![t] = "open"]
    /\ UNCHANGED <<holder, edits, helping, merged>>

Take(t, a) ==
    /\ phase[t] = "open"
    /\ \A d \in blockers[t] : phase[d] = "done"
    /\ phase' = [phase EXCEPT ![t] = "held"]
    /\ holder' = [holder EXCEPT ![t] = a]
    /\ UNCHANGED <<blockers, edits, helping, merged>>

GiveBack(t) ==
    /\ phase[t] = "held" /\ edits[t] = 0 /\ ~helping[t]
    /\ phase' = [phase EXCEPT ![t] = "open"]
    /\ holder' = [holder EXCEPT ![t] = None]
    /\ UNCHANGED <<blockers, edits, helping, merged>>

Change(t) ==
    /\ phase[t] = "held"
    /\ edits' = [edits EXCEPT ![t] = @ + 1]
    /\ helping' \in {helping, [helping EXCEPT ![t] = FALSE]}
    /\ UNCHANGED <<phase, holder, blockers, merged>>

Help(t) ==
    /\ helping' = [helping EXCEPT ![t] = ~@]
    /\ UNCHANGED <<phase, holder, blockers, edits, merged>>

Deliver(t) ==
    /\ phase[t] \in {"held", "review"} /\ ~helping[t]
    /\ phase' = [phase EXCEPT ![t] = "review"]
    /\ UNCHANGED <<holder, blockers, edits, helping, merged>>

Finish(t) ==
    /\ phase[t] \in {"held", "review"} /\ ~helping[t]
    /\ edits[t] = 0 \/ merged[t] = edits[t]
    /\ phase' = [phase EXCEPT ![t] = "done"]
    /\ UNCHANGED <<holder, blockers, edits, helping, merged>>

\* Only what was delivered reaches the main workspace, and never over a
\* change of the user's.
Merge(t) ==
    /\ phase[t] = "review" /\ merged[t] = 0
    /\ merged' = [merged EXCEPT ![t] = edits[t]]
    /\ UNCHANGED <<phase, holder, blockers, edits, helping>>

UserChanges(t) ==
    /\ merged' \in {[merged EXCEPT ![t] = None], [merged EXCEPT ![t] = 0]}
    /\ merged[t] \in {0, None}
    /\ UNCHANGED <<phase, holder, blockers, edits, helping>>

LifecycleNext ==
    \E t \in Tasks :
        \/ Create(t) \/ GiveBack(t) \/ Change(t) \/ Help(t)
        \/ Deliver(t) \/ Finish(t) \/ Merge(t) \/ UserChanges(t)
        \/ \E a \in Agents : Take(t, a)

LifecycleSpec == LifecycleInit /\ [][LifecycleNext]_lvars

=============================================================================
