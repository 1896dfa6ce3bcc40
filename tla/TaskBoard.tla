----------------------------- MODULE TaskBoard -----------------------------
(***************************************************************************)
(* The task board and the workspace leases of claude-pi: src/tasks.ts,     *)
(* src/workspaces.ts, and the parts of src/worktree.ts they call.          *)
(*                                                                         *)
(* Everything durable is a file, and every file is replaced by one atomic  *)
(* rename.  A process that holds the repository lock therefore acts        *)
(* atomically for every other lock user, and the only thing that can come  *)
(* between two of its writes is its own death (the kernel drops the lock). *)
(* The model has one step per durable write: `job' is the operation that   *)
(* holds the lock and the write it is about to do.                         *)
(*                                                                         *)
(* A lease is kept twice, in records/<id>.json (`records') and as a full   *)
(* copy in a file per agent (`pointer'); a third reference lives in the    *)
(* memory of the process that runs the agent (`mem').  A generation is a   *)
(* fresh UUID drawn together with ownerPid, in the same write, and one     *)
(* process draws at most one for a lease: `gen' stands for both.           *)
(***************************************************************************)
EXTENDS Integers, FiniteSets

CONSTANTS
    Agents,      \* stable agent identities: session:<id>, teammate runtime ids
    Leads,       \* the agents that are sessions: only they may integrate
    MaxProcs,    \* cpi processes ever started; a process never comes back
    MaxTasks,    \* task files ever created
    MaxLeases,   \* workspace records ever registered
    MaxEdits,    \* versions a worktree can reach beyond its base
    GitOutcomes, \* what validateWorkspace may answer inside registerWorkspace
    None

Procs   == 1..MaxProcs
Tasks   == 1..MaxTasks
Leases  == 1..MaxLeases
Version == 0..MaxEdits

ASSUME BoardAssumption ==
    /\ MaxProcs \in Nat /\ MaxTasks \in Nat /\ MaxLeases \in Nat /\ MaxEdits \in Nat
    /\ Leads \subseteq Agents
    /\ GitOutcomes \subseteq {"ok", "failed"}
    /\ None \notin Agents \cup Int

VARIABLES
    proc,     \* process life: "new", "up", "dead"
    board,    \* task files
    hwm,      \* .highwatermark
    creating, \* a createTask between its two writes, under the board lock
    records,  \* records/<id>.json
    pointer,  \* the per-agent copy of the agent's last lease
    mem,      \* mem[p][a]: the lease bound to agent a's context in process p
    work,     \* version of the files in a task's worktree, None if it is absent
    shells,   \* processes with a starting/running process record in a worktree
    children, \* processes with an active child-worker lease below a worktree
    main,     \* version of the task's files in the main workspace, None if the user changed them
    cleanup,  \* completed tasks whose worktree a process has still to remove
    job       \* the operation that holds the repository lock

vars == <<proc, board, hwm, creating, records, pointer, mem, work, shells,
          children, main, cleanup, job>>

Status == {"absent", "pending", "preparing", "in_progress", "ready_for_review", "completed"}

TaskRec == [status: Status, owner: Agents \cup {None}, binding: Leases \cup {None},
            pid: Procs \cup {None}, deps: SUBSET Tasks, art: Version \cup {None}]

NoTask == [status |-> "absent", owner |-> None, binding |-> None, pid |-> None,
           deps |-> {}, art |-> None]

LeaseRec == [status: {"unused", "active", "review", "closed"}, task: Tasks \cup {None},
             agent: Agents \cup {None}, gen: Procs \cup {None}, linked: BOOLEAN]

NoLease == [status |-> "unused", task |-> None, agent |-> None, gen |-> None,
            linked |-> FALSE]

PointerRec == [status: {"none", "active", "review", "closed"}, id: Leases \cup {None},
               gen: Procs \cup {None}, linked: BOOLEAN]

NoPointer == [status |-> "none", id |-> None, gen |-> None, linked |-> FALSE]

Steps == {"idle", "recover", "worktree", "record", "pointer", "attachRecord",
          "attachPointer", "publish", "undo", "complete", "finishRecord",
          "finishPointer", "commit", "takeRecord", "takePointer", "restoreTask"}

JobRec == [step: Steps, p: Procs \cup {None}, a: Agents \cup {None},
           want: Tasks \cup {None}, t: Tasks \cup {None}, l: Leases \cup {None},
           repair: BOOLEAN, to: Status, art: Version \cup {None}]

NoJob == [step |-> "idle", p |-> None, a |-> None, want |-> None, t |-> None,
          l |-> None, repair |-> FALSE, to |-> "absent", art |-> None]

NoCreation == [p |-> None, t |-> None, deps |-> {}]

Creation == [p: Procs \cup {None}, t: Tasks \cup {None}, deps: SUBSET Tasks]

Init ==
    /\ proc = [p \in Procs |-> "new"]
    /\ board = [t \in Tasks |-> NoTask]
    /\ hwm = 0
    /\ creating = NoCreation
    /\ records = [l \in Leases |-> NoLease]
    /\ pointer = [a \in Agents |-> NoPointer]
    /\ mem = [p \in Procs |-> [a \in Agents |-> None]]
    /\ work = [t \in Tasks |-> None]
    /\ shells = [t \in Tasks |-> {}]
    /\ children = [t \in Tasks |-> {}]
    /\ main = [t \in Tasks |-> 0]
    /\ cleanup = [p \in Procs |-> {}]
    /\ job = NoJob

----------------------------------------------------------------------------
(* Helpers.                                                                *)

LockFree  == job = NoJob
BoardFree == creating = NoCreation
Running(p, step) == proc[p] = "up" /\ job.p = p /\ job.step = step

\* The agent's own code is not running while its process executes a job for it.
Idle(p, a) == proc[p] = "up" /\ ~(job.p = p /\ job.a = a)

Goto(step) == job' = [job EXCEPT !.step = step]
Release    == job' = NoJob

\* validateWorkspace: the record still has the caller's id, generation and state.
Valid(l, gen, requireActive) ==
    /\ records[l].status # "unused"
    /\ records[l].gen = gen
    /\ requireActive => records[l].status = "active"

\* assertWorkspaceQuiescent and assertWorkspaceDeliverable.
Quiescent(t) == shells[t] = {}

\* Mutants: a delivery looks at one of the two only.
Deliverable_IgnoreShells(t)   == children[t] = {}
Deliverable_IgnoreChildren(t) == Quiescent(t)

Deliverable(t) == Quiescent(t) /\ children[t] = {}

\* The worktree exists, and the bound on versions allows one more change.
CanChange(t) == work[t] \in 0..(MaxEdits - 1)

\* requireWritableWorkspace, for agent a running in process p.
CanWrite(p, a, t) ==
    LET l == mem[p][a] IN
    /\ l # None
    /\ records[l].task = t
    /\ records[l].agent = a
    /\ Valid(l, p, TRUE)
    /\ records[l].linked => /\ board[t].status = "in_progress"
                            /\ board[t].owner = a
                            /\ board[t].binding = l

\* Mutant: a delivered dependency counts before it is integrated.
DepsSatisfied_Delivered(t) ==
    \A d \in board[t].deps : board[d].status \in {"ready_for_review", "completed"}

DepsSatisfied(t) == \A d \in board[t].deps : board[d].status = "completed"

Claimable(t) == board[t].status = "pending" /\ board[t].owner = None /\ DepsSatisfied(t)

\* findAvailableTask: the lowest id.
FirstAvailable(t) == Claimable(t) /\ \A s \in Tasks : Claimable(s) => t <= s

Busy(a) == \E t \in Tasks : board[t].owner = a /\ board[t].status = "in_progress"

\* Mutant: a preparation without a worktree is taken for one still under way.
Stale_OnlyWithWorktree(t) ==
    board[t].status = "preparing" /\ proc[board[t].pid] # "up" /\ work[t] # None

\* Preparations whose process is gone.
Stale(t) == board[t].status = "preparing" /\ proc[board[t].pid] # "up"

FirstStale(t) == Stale(t) /\ \A s \in Tasks : Stale(s) => t <= s

\* Mutant: a lease counts as published only once its task is attached.
Published_Attached(t) ==
    LET ptr == pointer[board[t].owner]
    IN ptr.status = "active" /\ records[ptr.id].task = t /\ ptr.linked

\* Whether an interrupted preparation had got as far as the owner's copy.
Published(t) ==
    LET ptr == pointer[board[t].owner]
    IN ptr.status = "active" /\ records[ptr.id].task = t

FreshLease(l) == /\ records[l].status = "unused"
                 /\ \A m \in Leases : m < l => records[m].status # "unused"

----------------------------------------------------------------------------
(* Processes.                                                              *)

Start(p) ==
    /\ proc[p] = "new"
    /\ \A q \in Procs : q < p => proc[q] # "new"
    /\ proc' = [proc EXCEPT ![p] = "up"]
    /\ UNCHANGED <<board, hwm, creating, records, pointer, mem, work, shells,
                   children, main, cleanup, job>>

\* Memory and locks go; files, process records and child leases stay.
Crash(p) ==
    /\ proc[p] = "up"
    /\ proc' = [proc EXCEPT ![p] = "dead"]
    /\ mem' = [mem EXCEPT ![p] = [a \in Agents |-> None]]
    /\ cleanup' = [cleanup EXCEPT ![p] = {}]
    /\ job' = IF job.p = p THEN NoJob ELSE job
    /\ creating' = IF creating.p = p THEN NoCreation ELSE creating
    /\ UNCHANGED <<board, hwm, records, pointer, work, shells, children, main>>

\* The context of one agent run ends; its binding was only in that context.
EndRun(p, a) ==
    /\ Idle(p, a)
    /\ mem[p][a] # None
    /\ p \notin children[records[mem[p][a]].task]   \* a run waits for its workers
    /\ mem' = [mem EXCEPT ![p][a] = None]
    /\ UNCHANGED <<proc, board, hwm, creating, records, pointer, work, shells,
                   children, main, cleanup, job>>

----------------------------------------------------------------------------
(* createTask: the board lock only, so it excludes claims and completions  *)
(* but not a restore.                                                      *)

\* Between integrating an artifact and completing its task it is free again.
HoldsBoard == job.step \notin {"idle", "complete", "takeRecord", "takePointer", "restoreTask"}

CreateReserve(p, deps) ==
    /\ proc[p] = "up" /\ BoardFree /\ ~HoldsBoard
    /\ hwm < MaxTasks
    /\ \A d \in deps : board[d].status # "absent"
    /\ hwm' = hwm + 1
    /\ creating' = [p |-> p, t |-> hwm + 1, deps |-> deps]
    /\ UNCHANGED <<proc, board, records, pointer, mem, work, shells, children,
                   main, cleanup, job>>

CreateSave(p) ==
    /\ proc[p] = "up" /\ creating.p = p
    /\ board' = [board EXCEPT ![creating.t] =
                    [NoTask EXCEPT !.status = "pending", !.deps = creating.deps]]
    /\ creating' = NoCreation
    /\ UNCHANGED <<proc, hwm, records, pointer, mem, work, shells, children,
                   main, cleanup, job>>

----------------------------------------------------------------------------
(* claimTaskWithBusyCheck and executeTaskClaim.                            *)

\* want = None is tryClaimNextTask, which also enforces the busy check.
ClaimBegin(p, a, want) ==
    /\ Idle(p, a) /\ LockFree /\ BoardFree
    /\ job' = [NoJob EXCEPT !.step = "recover", !.p = p, !.a = a, !.want = want]
    /\ UNCHANGED <<proc, board, hwm, creating, records, pointer, mem, work, shells,
                   children, main, cleanup>>

\* The interrupted claim had published its lease: keep the claim.
RecoverKeep(p, t) ==
    LET ptr == pointer[board[t].owner] IN
    /\ Running(p, "recover") /\ FirstStale(t)
    /\ Published(t)
    /\ IF Valid(ptr.id, ptr.gen, TRUE)
       THEN job' = [job EXCEPT !.step = "attachRecord", !.t = t, !.l = ptr.id, !.repair = TRUE]
       ELSE Release   \* throws: nothing can be claimed
    /\ UNCHANGED <<proc, board, hwm, creating, records, pointer, mem, work, shells,
                   children, main, cleanup>>

\* No lease was published: back to the board, unless the worktree has changes.
RecoverDrop(p, t) ==
    /\ Running(p, "recover") /\ FirstStale(t)
    /\ ~Published(t)
    /\ IF work[t] = None \/ (Quiescent(t) /\ work[t] = 0)
       THEN /\ board' = [board EXCEPT ![t].status = "pending", ![t].owner = None,
                                      ![t].pid = None]
            /\ UNCHANGED job
       ELSE Release /\ UNCHANGED board
    /\ UNCHANGED <<proc, hwm, creating, records, pointer, mem, work, shells,
                   children, main, cleanup>>

Target(t) == IF job.want = None THEN ~Busy(job.a) /\ FirstAvailable(t)
                                ELSE t = job.want /\ Claimable(t)

ClaimRefuse(p) ==
    /\ Running(p, "recover")
    /\ \A t \in Tasks : ~Stale(t) /\ ~Target(t)
    /\ Release
    /\ UNCHANGED <<proc, board, hwm, creating, records, pointer, mem, work, shells,
                   children, main, cleanup>>

ClaimPrepare(p, t) ==
    /\ Running(p, "recover")
    /\ \A s \in Tasks : ~Stale(s)
    /\ Target(t)
    /\ board' = [board EXCEPT ![t].status = "preparing", ![t].owner = job.a, ![t].pid = p]
    /\ job' = [job EXCEPT !.step = "worktree", !.t = t, !.repair = FALSE]
    /\ UNCHANGED <<proc, hwm, creating, records, pointer, mem, work, shells,
                   children, main, cleanup>>

\* createTaskWorktree: reuses an existing worktree, or adds one; git may fail.
ClaimWorktree(p) ==
    /\ Running(p, "worktree")
    /\ \/ /\ work' = [work EXCEPT ![job.t] = IF @ = None THEN 0 ELSE @]
          /\ Goto("record")
       \/ /\ Goto("undo")
          /\ UNCHANGED work
    /\ UNCHANGED <<proc, board, hwm, creating, records, pointer, mem, shells,
                   children, main, cleanup>>

\* registerWorkspace refuses an agent whose last lease is still active.
RegisterRefuse(p) ==
    /\ Running(p, "record")
    /\ pointer[job.a].status = "active"
    /\ Goto("undo")
    /\ UNCHANGED <<proc, board, hwm, creating, records, pointer, mem, work, shells,
                   children, main, cleanup>>

RegisterRecord(p, l) ==
    /\ Running(p, "record")
    /\ pointer[job.a].status # "active"
    /\ FreshLease(l)
    /\ records' = [records EXCEPT ![l] = [status |-> "active", task |-> job.t,
                                          agent |-> job.a, gen |-> p, linked |-> FALSE]]
    /\ job' = [job EXCEPT !.step = "pointer", !.l = l]
    /\ UNCHANGED <<proc, board, hwm, creating, pointer, mem, work, shells,
                   children, main, cleanup>>

\* The copy is written, then validated; only then is it bound to the context.
RegisterPointer(p) ==
    /\ Running(p, "pointer")
    /\ pointer' = [pointer EXCEPT ![job.a] = [status |-> "active", id |-> job.l,
                                              gen |-> p, linked |-> FALSE]]
    /\ \E git \in GitOutcomes :
          IF git = "ok" THEN /\ mem' = [mem EXCEPT ![p][job.a] = job.l]
                             /\ Goto("attachRecord")
                        ELSE /\ UNCHANGED mem
                             /\ Goto("undo")
    /\ UNCHANGED <<proc, board, hwm, creating, records, work, shells, children,
                   main, cleanup>>

\* attachWorkspaceTask: the record, then the copy.
AttachRecord(p) ==
    /\ Running(p, "attachRecord")
    /\ records' = [records EXCEPT ![job.l].linked = TRUE]
    /\ Goto("attachPointer")
    /\ UNCHANGED <<proc, board, hwm, creating, pointer, mem, work, shells,
                   children, main, cleanup>>

AttachPointer(p) ==
    /\ Running(p, "attachPointer")
    /\ pointer' = [pointer EXCEPT ![records[job.l].agent].linked = TRUE]
    /\ Goto("publish")
    /\ UNCHANGED <<proc, board, hwm, creating, records, mem, work, shells,
                   children, main, cleanup>>

\* The task file; a repaired claim goes on with the claim that found it.
Publish(p) ==
    /\ Running(p, "publish")
    /\ board' = [board EXCEPT ![job.t].status = "in_progress",
                              ![job.t].binding = job.l, ![job.t].pid = None]
    /\ IF job.repair THEN Goto("recover") ELSE Release
    /\ UNCHANGED <<proc, hwm, creating, records, pointer, mem, work, shells,
                   children, main, cleanup>>

\* The catch block: task.binding is not set yet, so no lease is finished.
ClaimUndo(p) ==
    /\ Running(p, "undo")
    /\ board' = [board EXCEPT ![job.t].status = "pending", ![job.t].owner = None,
                              ![job.t].binding = None, ![job.t].pid = None]
    /\ Release
    /\ UNCHANGED <<proc, hwm, creating, records, pointer, mem, work, shells,
                   children, main, cleanup>>

----------------------------------------------------------------------------
(* completeTask, finishWorkspace and integrateTask.                        *)

\* What completeTask requires and computes before its first write.
PlanCompletion(p, a, t) ==
    LET art == IF work[t] = None THEN board[t].art ELSE work[t]
        to  == IF art \notin {None, 0} /\ main[t] # art THEN "ready_for_review" ELSE "completed"
    IN /\ board[t].status \in {"in_progress", "ready_for_review"}
       /\ records[board[t].binding].status # "unused"
       /\ Deliverable(t)
       /\ job' = [NoJob EXCEPT !.step = "finishRecord", !.p = p, !.a = a, !.t = t,
                               !.l = board[t].binding, !.to = to, !.art = art]

\* complete_task passes the caller's identity as the owner.
CompleteBegin(p, a, t) ==
    /\ Idle(p, a) /\ LockFree /\ BoardFree
    /\ board[t].owner = a
    /\ PlanCompletion(p, a, t)
    /\ UNCHANGED <<proc, board, hwm, creating, records, pointer, mem, work, shells,
                   children, main, cleanup>>

LeaseEnd(to) == IF to = "completed" THEN "closed" ELSE "review"

\* Mutant: the copy is written first.
FinishRecord_CopyFirst(p) ==
    /\ Running(p, "finishRecord")
    /\ pointer' = IF pointer[records[job.l].agent].id = job.l
                  THEN [pointer EXCEPT ![records[job.l].agent].status = LeaseEnd(job.to)]
                  ELSE pointer
    /\ Goto("finishPointer")
    /\ UNCHANGED <<proc, board, hwm, creating, records, mem, work, shells,
                   children, main, cleanup>>

FinishRecord(p) ==
    /\ Running(p, "finishRecord")
    /\ records' = [records EXCEPT ![job.l].status = LeaseEnd(job.to)]
    /\ Goto("finishPointer")
    /\ UNCHANGED <<proc, board, hwm, creating, pointer, mem, work, shells,
                   children, main, cleanup>>

FinishPointer(p) ==
    LET r == records[job.l] IN
    /\ Running(p, "finishPointer")
    /\ pointer' = IF pointer[r.agent].id = job.l
                  THEN [pointer EXCEPT ![r.agent] = [status |-> r.status, id |-> job.l,
                                                     gen |-> r.gen, linked |-> r.linked]]
                  ELSE pointer
    /\ mem' = IF mem[p][job.a] = job.l THEN [mem EXCEPT ![p][job.a] = None] ELSE mem
    /\ Goto("commit")
    /\ UNCHANGED <<proc, board, hwm, creating, records, work, shells, children,
                   main, cleanup>>

CompleteCommit(p) ==
    /\ Running(p, "commit")
    /\ board' = [board EXCEPT ![job.t].status = job.to, ![job.t].art = job.art]
    /\ cleanup' = IF job.to = "completed" THEN [cleanup EXCEPT ![p] = @ \cup {job.t}]
                                          ELSE cleanup
    /\ Release
    /\ UNCHANGED <<proc, hwm, creating, records, pointer, mem, work, shells,
                   children, main>>

\* removeTaskWorktree, under a lock of its own: changed files are never deleted.
RemoveWorktree(p, t) ==
    /\ proc[p] = "up" /\ LockFree /\ t \in cleanup[p]
    /\ cleanup' = [cleanup EXCEPT ![p] = @ \ {t}]
    /\ work' = IF Quiescent(t) /\ work[t] = 0 THEN [work EXCEPT ![t] = None] ELSE work
    /\ UNCHANGED <<proc, board, hwm, creating, records, pointer, mem, shells,
                   children, main, job>>

\* integrateTask: the artifact first (one file transaction), then completeTask
\* under the same repository lock and without an owner.
Integrate(p, a, t) ==
    /\ a \in Leads /\ Idle(p, a) /\ LockFree /\ BoardFree
    /\ board[t].status = "ready_for_review"
    /\ main[t] \in {0, board[t].art}
    /\ main' = [main EXCEPT ![t] = board[t].art]
    /\ job' = [NoJob EXCEPT !.step = "complete", !.p = p, !.a = a, !.t = t]
    /\ UNCHANGED <<proc, board, hwm, creating, records, pointer, mem, work, shells,
                   children, cleanup>>

IntegrateComplete(p) ==
    /\ Running(p, "complete") /\ BoardFree
    /\ IF Deliverable(job.t) THEN PlanCompletion(p, job.a, job.t) ELSE Release
    /\ UNCHANGED <<proc, board, hwm, creating, records, pointer, mem, work, shells,
                   children, main, cleanup>>

----------------------------------------------------------------------------
(* restoreAgentWorkspace, at the entry of every agent loop.                *)

RestoreBegin(p, a) ==
    LET ptr == pointer[a] IN
    /\ Idle(p, a) /\ LockFree
    /\ mem[p][a] = None
    /\ ptr.status = "active"
    /\ ptr.gen # p => proc[ptr.gen] # "up" /\ Quiescent(records[ptr.id].task)
    /\ job' = [NoJob EXCEPT !.step = IF ptr.gen = p THEN "restoreTask" ELSE "takeRecord",
                            !.p = p, !.a = a, !.l = ptr.id, !.t = records[ptr.id].task]
    /\ UNCHANGED <<proc, board, hwm, creating, records, pointer, mem, work, shells,
                   children, main, cleanup>>

\* The record is overwritten from the agent's copy.
TakeRecord(p) ==
    /\ Running(p, "takeRecord")
    /\ records' = [records EXCEPT ![job.l].status = "active", ![job.l].gen = p,
                                  ![job.l].linked = pointer[job.a].linked]
    /\ Goto("takePointer")
    /\ UNCHANGED <<proc, board, hwm, creating, pointer, mem, work, shells,
                   children, main, cleanup>>

TakePointer(p) ==
    /\ Running(p, "takePointer")
    /\ pointer' = [pointer EXCEPT ![job.a].gen = p]
    /\ Goto("restoreTask")
    /\ UNCHANGED <<proc, board, hwm, creating, records, mem, work, shells,
                   children, main, cleanup>>

\* Whether the task still belongs to the lease; otherwise restore throws.
StillAssigned(t, a, l) ==
    /\ board[t].owner = a
    /\ board[t].status \in {"preparing", "in_progress"}
    /\ board[t].binding \in {None, l}

RestoreTask(p) ==
    /\ Running(p, "restoreTask")
    /\ IF pointer[job.a].linked /\ ~StillAssigned(job.t, job.a, job.l)
       THEN UNCHANGED <<board, mem>>
       ELSE /\ board' = IF pointer[job.a].linked
                        THEN [board EXCEPT ![job.t].status = "in_progress",
                                           ![job.t].binding = job.l, ![job.t].pid = None]
                        ELSE board
            /\ mem' = IF Valid(job.l, p, TRUE) THEN [mem EXCEPT ![p][job.a] = job.l] ELSE mem
    /\ Release
    /\ UNCHANGED <<proc, hwm, creating, records, pointer, work, shells, children,
                   main, cleanup>>

----------------------------------------------------------------------------
(* Work in the worktree: edits, shell commands and child workers.          *)

\* applyFileTransaction by the agent that holds the lease.
Edit(p, a, t) ==
    /\ Idle(p, a) /\ LockFree
    /\ CanWrite(p, a, t) /\ Quiescent(t)
    /\ CanChange(t)
    /\ work' = [work EXCEPT ![t] = @ + 1]
    /\ UNCHANGED <<proc, board, hwm, creating, records, pointer, mem, shells,
                   children, main, cleanup, job>>

\* registerWorkspaceProcess: under the lock; the command itself runs without it.
StartShell(p, a, t) ==
    /\ Idle(p, a) /\ LockFree
    /\ CanWrite(p, a, t)
    /\ p \notin shells[t]
    /\ shells' = [shells EXCEPT ![t] = @ \cup {p}]
    /\ UNCHANGED <<proc, board, hwm, creating, records, pointer, mem, work,
                   children, main, cleanup, job>>

ShellWrites(p, t) ==
    /\ proc[p] = "up" /\ p \in shells[t]
    /\ CanChange(t)
    /\ work' = [work EXCEPT ![t] = @ + 1]
    /\ UNCHANGED <<proc, board, hwm, creating, records, pointer, mem, shells,
                   children, main, cleanup, job>>

EndShell(p, t) ==
    /\ proc[p] = "up" /\ p \in shells[t]
    /\ shells' = [shells EXCEPT ![t] = @ \ {p}]
    /\ UNCHANGED <<proc, board, hwm, creating, records, pointer, mem, work,
                   children, main, cleanup, job>>

\* createWorkerWorkspace below the agent's worktree: a quiescent parent.
StartChild(p, a, t) ==
    /\ Idle(p, a) /\ LockFree
    /\ mem[p][a] # None /\ records[mem[p][a]].task = t
    /\ Quiescent(t)
    /\ p \notin children[t]
    /\ children' = [children EXCEPT ![t] = @ \cup {p}]
    /\ UNCHANGED <<proc, board, hwm, creating, records, pointer, mem, work, shells,
                   main, cleanup, job>>

\* spawnSubagent's last locked section: the child's lease is finished; a
\* successful child is integrated if the parent's lease is still valid.
FinishChild(p, a, t) ==
    /\ Idle(p, a) /\ LockFree /\ p \in children[t]
    /\ children' = [children EXCEPT ![t] = @ \ {p}]
    /\ \/ UNCHANGED work
       \/ /\ mem[p][a] # None /\ records[mem[p][a]].task = t
          /\ Valid(mem[p][a], p, TRUE) /\ Quiescent(t)
          /\ CanChange(t)
          /\ work' = [work EXCEPT ![t] = @ + 1]
    /\ UNCHANGED <<proc, board, hwm, creating, records, pointer, mem, shells,
                   main, cleanup, job>>

\* The user's editor does not take the lock; only a change to files that are
\* still at their base matters to the board.
UserEdit(t) ==
    /\ board[t].status # "absent" /\ main[t] = 0
    /\ main' = [main EXCEPT ![t] = None]
    /\ UNCHANGED <<proc, board, hwm, creating, records, pointer, mem, work, shells,
                   children, cleanup, job>>

UserRevert(t) ==
    /\ main[t] = None
    /\ main' = [main EXCEPT ![t] = 0]
    /\ UNCHANGED <<proc, board, hwm, creating, records, pointer, mem, work, shells,
                   children, cleanup, job>>

----------------------------------------------------------------------------
(* Next.                                                                   *)

\* The next durable write of the operation that holds the lock.
Advance(p) ==
    \/ \E t \in Tasks : RecoverKeep(p, t) \/ RecoverDrop(p, t) \/ ClaimPrepare(p, t)
    \/ ClaimRefuse(p) \/ ClaimWorktree(p) \/ RegisterRefuse(p)
    \/ \E l \in Leases : RegisterRecord(p, l)
    \/ RegisterPointer(p) \/ AttachRecord(p) \/ AttachPointer(p) \/ Publish(p)
    \/ ClaimUndo(p) \/ FinishRecord(p) \/ FinishPointer(p) \/ CompleteCommit(p)
    \/ IntegrateComplete(p) \/ TakeRecord(p) \/ TakePointer(p) \/ RestoreTask(p)
    \/ CreateSave(p)

\* What agent a, running in process p, may start.
Act(p, a) ==
    \/ \E want \in Tasks \cup {None} : ClaimBegin(p, a, want)
    \/ RestoreBegin(p, a) \/ EndRun(p, a)
    \/ \E t \in Tasks : \/ CompleteBegin(p, a, t) \/ Integrate(p, a, t)
                        \/ Edit(p, a, t) \/ StartShell(p, a, t)
                        \/ StartChild(p, a, t) \/ FinishChild(p, a, t)

Next ==
    \/ \E p \in Procs :
          \/ Start(p) \/ Crash(p) \/ Advance(p)
          \/ \E deps \in SUBSET Tasks : CreateReserve(p, deps)
          \/ \E a \in Agents : Act(p, a)
          \/ \E t \in Tasks : RemoveWorktree(p, t) \/ ShellWrites(p, t) \/ EndShell(p, t)
    \/ \E t \in Tasks : UserEdit(t) \/ UserRevert(t)

Spec == Init /\ [][Next]_vars

\* A started operation goes on while its process lives.  The last process
\* keeps running agents: every agent loop restores its workspace on entry, and
\* an idle teammate polls the board for a task for as long as it lives.
LastProc == MaxProcs

Fairness ==
    /\ \A p \in Procs : WF_vars(Start(p)) /\ WF_vars(Advance(p))
    /\ SF_vars(\E a \in Agents : ClaimBegin(LastProc, a, None))
    /\ \A a \in Agents : SF_vars(RestoreBegin(LastProc, a))

FairSpec == Spec /\ Fairness

----------------------------------------------------------------------------
(* Properties.                                                             *)

\* Every file, binding and lock has the shape its readers rely on.
TypeOK ==
    /\ proc \in [Procs -> {"new", "up", "dead"}]
    /\ board \in [Tasks -> TaskRec]
    /\ hwm \in 0..MaxTasks
    /\ creating \in Creation
    /\ records \in [Leases -> LeaseRec]
    /\ pointer \in [Agents -> PointerRec]
    /\ mem \in [Procs -> [Agents -> Leases \cup {None}]]
    /\ work \in [Tasks -> Version \cup {None}]
    /\ shells \in [Tasks -> SUBSET Procs]
    /\ children \in [Tasks -> SUBSET Procs]
    /\ main \in [Tasks -> Version \cup {None}]
    /\ cleanup \in [Procs -> SUBSET Tasks]
    /\ job \in JobRec

\* Whatever claims, restores, completions and crashes came before, at most one
\* agent in one process passes requireWritableWorkspace for a task's worktree.
ExclusiveWriter ==
    \A p, q \in Procs, a, b \in Agents, t \in Tasks :
        CanWrite(p, a, t) /\ CanWrite(q, b, t) => p = q /\ a = b

\* What is reviewed or integrated is what the worktree holds: once completeTask
\* has published a delivery, nothing changes the files and no command runs.
DeliveredFrozen ==
    \A t \in Tasks : board[t].status \in {"ready_for_review", "completed"} =>
        /\ work[t] \in {board[t].art, None}
        /\ Quiescent(t)

\* A task in progress under an active lease can be found again after a crash:
\* its owner's per-agent copy, all that a restore reads, names that lease.
LeaseReachable ==
    \A t \in Tasks :
        board[t].status = "in_progress" /\ records[board[t].binding].status = "active" =>
            LET ptr == pointer[board[t].owner]
            IN ptr.id = board[t].binding /\ ptr.status = "active"

\* The board implements the life of a task: no crash, restore or stale process
\* makes it skip a dependency, change hands, come back changed, be delivered
\* with workers below it, or be completed without its result in main.
Lifecycle ==
    INSTANCE TaskLifecycle WITH
        phase <- [t \in Tasks |->
                    CASE board[t].status = "absent" -> "absent"
                      [] board[t].status = "pending" -> "open"
                      [] board[t].status \in {"preparing", "in_progress"} -> "held"
                      [] board[t].status = "ready_for_review" -> "review"
                      [] board[t].status = "completed" -> "done"],
        holder <- [t \in Tasks |-> board[t].owner],
        blockers <- [t \in Tasks |-> board[t].deps],
        edits <- [t \in Tasks |-> IF work[t] = None THEN 0 ELSE work[t]],
        helping <- [t \in Tasks |-> shells[t] \cup children[t] # {}],
        merged <- main

ImplementsLifecycle == Lifecycle!LifecycleSpec

\* "A crash before publishing the lease must not leave an unrecoverable claim"
\* (claimTaskWithBusyCheck): a preparation ends, whoever died in the middle of
\* it or in the middle of its repair, as long as one process survives.
PreparationResolves ==
    [](proc[LastProc] # "dead") =>
        \A t \in Tasks : board[t].status = "preparing" ~> board[t].status # "preparing"

=============================================================================
