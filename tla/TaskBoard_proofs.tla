-------------------------- MODULE TaskBoard_proofs --------------------------
(***************************************************************************)
(* Proofs about TaskBoard, for any number of agents, processes, tasks and  *)
(* leases.  The inductive invariant says what the copies of a lease know   *)
(* about each other: the binding in a process (mem), the copy per agent    *)
(* (pointer), the record and the task file, and what the holder of the     *)
(* repository lock has established by the write it has reached.            *)
(*                                                                         *)
(* It is inductive whatever git answers inside registerWorkspace, and so   *)
(* is what a restore can find.  That writers exclude each other needs      *)
(* GitAnswers: when git fails there, the code gives the claim back and     *)
(* leaves the agent's copy of the lease active.                            *)
(*                                                                         *)
(* The last part is about what a delivery freezes, and that the board      *)
(* implements TaskLifecycle.  It adds what the worktrees and the commands  *)
(* and workers in them have to do with the leases: a worktree is untouched *)
(* until a lease on it has been published, which nothing takes back.       *)
(***************************************************************************)
EXTENDS TaskBoard, TLAPS

----------------------------------------------------------------------------
(* The inductive invariant.                                                *)

BoardShape ==
    \A t \in Tasks :
        /\ board[t].status \in {"absent", "pending"} =>
              board[t].owner = None /\ board[t].binding = None
        /\ board[t].status = "preparing" =>
              board[t].owner \in Agents /\ board[t].pid \in Procs /\ board[t].binding = None
        /\ board[t].status \in {"in_progress", "ready_for_review", "completed"} =>
              board[t].owner \in Agents /\ board[t].binding \in Leases

\* The number being created is the highest one, and its file is not there yet.
CreateShape ==
    /\ \A t \in Tasks : t > hwm => board[t].status = "absent"
    /\ creating.p # None => /\ creating.t = hwm /\ hwm \in Tasks
                            /\ board[hwm].status = "absent"

RecordShape ==
    \A l \in Leases : records[l].status # "unused" =>
        records[l].task \in Tasks /\ records[l].agent \in Agents /\ records[l].gen \in Procs

PointerShape ==
    \A a \in Agents : pointer[a].status # "none" =>
        /\ pointer[a].id \in Leases /\ pointer[a].gen \in Procs
        /\ records[pointer[a].id].status # "unused"
        /\ records[pointer[a].id].agent = a

MemShape ==
    \A p \in Procs, a \in Agents : mem[p][a] # None =>
        records[mem[p][a]].status # "unused" /\ records[mem[p][a]].agent = a

\* A binding that can still write is the one its agent's copy names.
MemPointer ==
    \A p \in Procs, a \in Agents :
        mem[p][a] # None /\ records[mem[p][a]].status = "active"
                         /\ records[mem[p][a]].gen = p
            => pointer[a].status = "active" /\ pointer[a].id = mem[p][a]

\* Git answers whenever a lease is being registered.  A copy written before git
\* fails stays active on a task that is given back, so what relates the copies to
\* the owners is said under this condition, and all else without it.
GitAnswers == GitOutcomes \subseteq {"ok"}

\* An agent's active copy names a task that is the agent's, under that lease.
PointerBoard ==
    GitAnswers => \A a \in Agents, t \in Tasks :
        pointer[a].status = "active" /\ records[pointer[a].id].task = t =>
            /\ board[t].owner = a
            /\ board[t].status \in {"preparing", "in_progress"}
            /\ board[t].status = "in_progress" => board[t].binding = pointer[a].id

NoPointerOn(t) ==
    GitAnswers => \A a \in Agents : pointer[a].status = "active" => records[pointer[a].id].task # t

Claiming   == {"worktree", "record", "pointer", "undo"}
Attaching  == {"attachRecord", "attachPointer", "publish"}
Finishing  == {"finishRecord", "finishPointer", "commit"}
Restoring  == {"takeRecord", "takePointer", "restoreTask"}

JobShape ==
    /\ job.step = "idle" => job = NoJob
    /\ job.step # "idle" => job.p \in Procs /\ job.a \in Agents
    /\ job.step \notin {"idle", "recover"} => job.t \in Tasks
    /\ job.step \in Attaching \cup Finishing \cup Restoring \cup {"pointer"} =>
          job.l \in Leases /\ records[job.l].status # "unused"

\* A claim that has published nothing yet.
ClaimFacts ==
    job.step \in Claiming =>
        /\ board[job.t].status = "preparing" /\ board[job.t].owner = job.a
        /\ NoPointerOn(job.t)

RegisterFacts ==
    job.step = "pointer" =>
        /\ records[job.l].status = "active" /\ records[job.l].task = job.t
        /\ records[job.l].agent = job.a /\ records[job.l].gen = job.p
        /\ pointer[job.a].status # "active"

AttachFacts ==
    job.step \in Attaching =>
        LET a == records[job.l].agent
        IN /\ records[job.l].task = job.t
           /\ board[job.t].status = "preparing" /\ board[job.t].owner = a
           /\ pointer[a].status = "active" /\ pointer[a].id = job.l

FinishFacts ==
    job.step \in Finishing =>
        /\ job.to \in {"ready_for_review", "completed"}
        /\ board[job.t].status \in {"in_progress", "ready_for_review"}
        /\ board[job.t].binding = job.l
        /\ job.step # "finishRecord" => records[job.l].status \in {"review", "closed"}
        /\ job.step = "commit" => NoPointerOn(job.t)

RestoreFacts ==
    job.step \in Restoring =>
        /\ pointer[job.a].status = "active" /\ pointer[job.a].id = job.l
        /\ records[job.l].task = job.t
        /\ mem[job.p][job.a] = None

JobFacts == ClaimFacts /\ RegisterFacts /\ AttachFacts /\ FinishFacts /\ RestoreFacts

IInv ==
    /\ TypeOK /\ BoardShape /\ CreateShape /\ RecordShape /\ PointerShape
    /\ MemShape /\ MemPointer /\ PointerBoard /\ JobShape /\ JobFacts

----------------------------------------------------------------------------
(* Lemmas about what a step leaves alone.                                  *)

\* What relates the copies of a lease depends on these six variables only.
LEMMA CopiesUnchanged ==
    ASSUME IInv, UNCHANGED <<board, hwm, creating, records, pointer, mem>>
    PROVE  /\ BoardShape' /\ CreateShape' /\ RecordShape' /\ PointerShape'
           /\ MemShape' /\ MemPointer' /\ PointerBoard'
BY DEF IInv, BoardShape, CreateShape, RecordShape, PointerShape, MemShape, MemPointer,
       PointerBoard, GitAnswers

\* The files and the running operation have their shape.
LEMMA Types ==
    ASSUME IInv
    PROVE  /\ board \in [Tasks -> TaskRec] /\ records \in [Leases -> LeaseRec]
           /\ pointer \in [Agents -> PointerRec] /\ job \in JobRec /\ creating \in Creation
           /\ hwm \in 0..MaxTasks
BY DEF IInv, TypeOK

\* Work in a worktree and the user's edits are no business of the invariant.
LEMMA Frame ==
    ASSUME IInv, TypeOK', UNCHANGED <<board, hwm, creating, records, pointer, mem, job>>
    PROVE  IInv'
<1>1. JobShape' /\ JobFacts'
  BY DEF IInv, JobShape, JobFacts, ClaimFacts, RegisterFacts, AttachFacts, FinishFacts,
         RestoreFacts, NoPointerOn, GitAnswers
<1> QED BY <1>1, CopiesUnchanged DEF IInv

\* No operation is under way once the lock is released.
LEMMA Released ==
    ASSUME Release PROVE JobShape' /\ JobFacts'
BY DEF Release, NoJob, JobShape, JobFacts, ClaimFacts, RegisterFacts, AttachFacts,
       FinishFacts, RestoreFacts, Claiming, Attaching, Finishing, Restoring

\* The lock nobody holds has the shape of any other.
LEMMA NoJobType == NoJob \in JobRec
BY DEF NoJob, JobRec, Steps, Status

----------------------------------------------------------------------------
(* Steps that only touch the worktrees and the main workspace.             *)

\* What an agent does in its worktree.
LEMMA WorkStep ==
    ASSUME IInv, NEW p \in Procs, NEW a \in Agents, NEW t \in Tasks,
           Edit(p, a, t) \/ StartShell(p, a, t) \/ StartChild(p, a, t) \/ FinishChild(p, a, t)
    PROVE  IInv'
<1>1. CanChange(t) => work[t] + 1 \in Version
  BY BoardAssumption DEF CanChange, Version
<1>2. TypeOK'
  <2>1. CASE Edit(p, a, t)
    BY <2>1, <1>1 DEF Edit, IInv, TypeOK
  <2>2. CASE StartShell(p, a, t)
    BY <2>2 DEF StartShell, IInv, TypeOK
  <2>3. CASE StartChild(p, a, t)
    BY <2>3 DEF StartChild, IInv, TypeOK
  <2>4. CASE FinishChild(p, a, t)
    BY <2>4, <1>1, ZenonT(60) DEF FinishChild, IInv, TypeOK
  <2> QED BY <2>1, <2>2, <2>3, <2>4
<1>3. UNCHANGED <<board, hwm, creating, records, pointer, mem, job>>
  BY DEF Edit, StartShell, StartChild, FinishChild
<1> QED BY <1>2, <1>3, Frame

\* Steps no agent has to be running for.
LEMMA DetachedStep ==
    ASSUME IInv, NEW p \in Procs, NEW t \in Tasks,
           RemoveWorktree(p, t) \/ ShellWrites(p, t) \/ EndShell(p, t)
    PROVE  IInv'
<1>1. CanChange(t) => work[t] + 1 \in Version
  BY BoardAssumption DEF CanChange, Version
<1>2. TypeOK'
  <2>1. CASE ShellWrites(p, t)
    BY <2>1, <1>1 DEF ShellWrites, IInv, TypeOK
  <2>2. CASE EndShell(p, t)
    BY <2>2 DEF EndShell, IInv, TypeOK
  <2>3. CASE RemoveWorktree(p, t)
    BY <2>3 DEF RemoveWorktree, IInv, TypeOK
  <2> QED BY <2>1, <2>2, <2>3
<1>3. UNCHANGED <<board, hwm, creating, records, pointer, mem, job>>
  BY DEF ShellWrites, EndShell, RemoveWorktree
<1> QED BY <1>2, <1>3, Frame

\* The user's editor.
LEMMA UserStep ==
    ASSUME IInv, NEW t \in Tasks, UserEdit(t) \/ UserRevert(t)
    PROVE  IInv'
<1>1. TypeOK'
  BY BoardAssumption DEF UserEdit, UserRevert, IInv, TypeOK, Version
<1>2. UNCHANGED <<board, hwm, creating, records, pointer, mem, job>>
  BY DEF UserEdit, UserRevert
<1> QED BY <1>1, <1>2, Frame

----------------------------------------------------------------------------
(* Processes.                                                              *)

\* A process starts.
LEMMA StartStep ==
    ASSUME IInv, NEW p \in Procs, Start(p)
    PROVE  IInv'
<1>1. TypeOK'
  BY DEF Start, IInv, TypeOK
<1>2. UNCHANGED <<board, hwm, creating, records, pointer, mem, job>>
  BY DEF Start
<1> QED BY <1>1, <1>2, Frame

\* The files stay; the bindings and the lock of the process go.
LEMMA CrashStep ==
    ASSUME IInv, NEW p \in Procs, Crash(p)
    PROVE  IInv'
<1>1. TypeOK'
  BY NoJobType DEF Crash, IInv, TypeOK, NoCreation, Creation
<1>2. BoardShape' /\ RecordShape' /\ PointerShape' /\ PointerBoard'
  BY DEF Crash, IInv, BoardShape, RecordShape, PointerShape, PointerBoard, GitAnswers
<1>3. CreateShape'
  BY DEF Crash, IInv, CreateShape, NoCreation
<1>4. MemShape' /\ MemPointer'
  BY DEF Crash, IInv, TypeOK, MemShape, MemPointer
<1>5. JobShape' /\ JobFacts'
  <2>1. CASE job' = NoJob
    BY <2>1, Released DEF Release
  <2>2. CASE job' = job
    BY <2>2 DEF Crash, IInv, TypeOK, JobShape, JobFacts, ClaimFacts, RegisterFacts,
       AttachFacts, FinishFacts, RestoreFacts, NoPointerOn, GitAnswers, Claiming, Attaching,
       Finishing, Restoring
  <2> QED BY <2>1, <2>2 DEF Crash
<1> QED BY <1>1, <1>2, <1>3, <1>4, <1>5 DEF IInv

\* An agent run ends and takes its binding with it.
LEMMA EndRunStep ==
    ASSUME IInv, NEW p \in Procs, NEW a \in Agents, EndRun(p, a)
    PROVE  IInv'
<1>1. TypeOK'
  BY DEF EndRun, IInv, TypeOK
<1>2. BoardShape' /\ CreateShape' /\ RecordShape' /\ PointerShape' /\ PointerBoard'
  BY DEF EndRun, IInv, BoardShape, CreateShape, RecordShape, PointerShape, PointerBoard, GitAnswers
<1>3. MemShape' /\ MemPointer'
  BY DEF EndRun, IInv, TypeOK, MemShape, MemPointer
<1>4. JobShape' /\ JobFacts'
  BY DEF EndRun, IInv, TypeOK, JobShape, JobFacts, ClaimFacts, RegisterFacts,
         AttachFacts, FinishFacts, RestoreFacts, NoPointerOn, GitAnswers, Restoring
<1> QED BY <1>1, <1>2, <1>3, <1>4 DEF IInv

----------------------------------------------------------------------------
(* createTask.                                                             *)

\* The new number is higher than every number in use.
LEMMA CreateReserveStep ==
    ASSUME IInv, NEW p \in Procs, NEW deps \in SUBSET Tasks, CreateReserve(p, deps)
    PROVE  IInv'
<1>1. hwm' \in 0..MaxTasks /\ hwm' \in Tasks /\ hwm' = hwm + 1
  BY BoardAssumption DEF CreateReserve, IInv, TypeOK, Tasks
<1>2. TypeOK'
  BY <1>1 DEF CreateReserve, IInv, TypeOK, Creation
<1>3. CreateShape'
  BY <1>1 DEF CreateReserve, IInv, TypeOK, CreateShape, Tasks
<1>4. /\ BoardShape' /\ RecordShape' /\ PointerShape' /\ MemShape' /\ MemPointer'
      /\ PointerBoard' /\ JobShape' /\ JobFacts'
  BY DEF CreateReserve, IInv, BoardShape, RecordShape, PointerShape, MemShape, MemPointer,
         PointerBoard, JobShape, JobFacts, ClaimFacts, RegisterFacts, AttachFacts,
         FinishFacts, RestoreFacts, NoPointerOn, GitAnswers
<1> QED BY <1>2, <1>3, <1>4 DEF IInv

\* The new file replaces none: nothing refers to a task that is absent.
LEMMA CreateSaveStep ==
    ASSUME IInv, NEW p \in Procs, CreateSave(p)
    PROVE  IInv'
<1>1. PICK n \in Tasks : n = creating.t /\ n = hwm /\ board[n].status = "absent"
  BY BoardAssumption DEF CreateSave, IInv, CreateShape, TypeOK, Procs
<1>2. board' = [board EXCEPT ![n] = [NoTask EXCEPT !.status = "pending", !.deps = creating.deps]]
  BY <1>1 DEF CreateSave
<1>3. /\ board' \in [Tasks -> TaskRec]
      /\ board'[n].status = "pending" /\ board'[n].owner = None /\ board'[n].binding = None
      /\ \A t \in Tasks : t # n => board'[t] = board[t]
  BY <1>2, Types DEF TaskRec, NoTask, Creation, Status
<1>4. TypeOK'
  BY <1>3 DEF CreateSave, IInv, TypeOK, NoCreation, Creation
<1>5. BoardShape'
  BY <1>3 DEF IInv, BoardShape
<1>6. CreateShape'
  BY <1>1, <1>3 DEF CreateSave, IInv, CreateShape, NoCreation, TypeOK, Tasks
<1>7. RecordShape' /\ PointerShape' /\ MemShape' /\ MemPointer' /\ JobShape'
  BY DEF CreateSave, IInv, RecordShape, PointerShape, MemShape, MemPointer, JobShape
<1>8. PointerBoard'
  BY <1>1, <1>3 DEF CreateSave, IInv, PointerBoard, GitAnswers, PointerShape, RecordShape
<1>9. JobFacts'
  BY <1>1, <1>3 DEF CreateSave, IInv, JobShape, JobFacts, ClaimFacts, RegisterFacts,
     AttachFacts, FinishFacts, RestoreFacts, NoPointerOn, GitAnswers, Claiming, Attaching,
     Finishing, Restoring
<1> QED BY <1>4, <1>5, <1>6, <1>7, <1>8, <1>9 DEF IInv

----------------------------------------------------------------------------
(* Claims.                                                                 *)

\* Taking the lock for a claim changes nothing else.
LEMMA ClaimBeginStep ==
    ASSUME IInv, NEW p \in Procs, NEW a \in Agents, NEW want \in Tasks \cup {None},
           ClaimBegin(p, a, want)
    PROVE  IInv'
<1>1. TypeOK'
  BY NoJobType DEF ClaimBegin, IInv, TypeOK, JobRec, Steps
<1>2. JobShape' /\ JobFacts'
  BY DEF ClaimBegin, NoJob, JobShape, JobFacts, ClaimFacts, RegisterFacts, AttachFacts,
         FinishFacts, RestoreFacts, Claiming, Attaching, Finishing, Restoring
<1> QED BY <1>1, <1>2, CopiesUnchanged DEF ClaimBegin, IInv

\* The lease a repair goes on with is the one its owner's copy names.
LEMMA RecoverKeepStep ==
    ASSUME IInv, NEW p \in Procs, NEW t \in Tasks, RecoverKeep(p, t)
    PROVE  IInv'
<1> DEFINE o == board[t].owner
           l == pointer[o].id
<1>1. /\ board[t].status = "preparing" /\ o \in Agents
      /\ pointer[o].status = "active" /\ l \in Leases
      /\ records[l].status # "unused" /\ records[l].agent = o /\ records[l].task = t
  BY DEF RecoverKeep, FirstStale, Stale, Published, IInv, BoardShape, PointerShape
<1>2. CASE job' = [job EXCEPT !.step = "attachRecord", !.t = t, !.l = l, !.repair = TRUE]
  <2>1. TypeOK'
    BY <1>1, <1>2 DEF RecoverKeep, IInv, TypeOK, JobRec, Steps
  <2>2. JobShape'
    BY <1>1, <1>2 DEF RecoverKeep, Running, IInv, TypeOK, JobRec, JobShape
  <2>3. JobFacts'
    BY <1>1, <1>2 DEF RecoverKeep, IInv, TypeOK, JobRec, JobFacts, ClaimFacts, RegisterFacts,
       AttachFacts, FinishFacts, RestoreFacts, Claiming, Attaching, Finishing, Restoring
  <2> QED BY <2>1, <2>2, <2>3, CopiesUnchanged DEF RecoverKeep, IInv
<1>3. CASE Release
  BY <1>3, Released, NoJobType, CopiesUnchanged DEF RecoverKeep, Release, IInv, TypeOK
<1> QED BY <1>2, <1>3 DEF RecoverKeep

\* A preparation without a published lease has no active copy on it.
LEMMA RecoverDropStep ==
    ASSUME IInv, NEW p \in Procs, NEW t \in Tasks, RecoverDrop(p, t)
    PROVE  IInv'
<1>1. board[t].status = "preparing" /\ board[t].binding = None /\ ~Published(t)
  BY DEF RecoverDrop, FirstStale, Stale, IInv, BoardShape
<1>2. NoPointerOn(t)
  BY <1>1 DEF Published, NoPointerOn, IInv, PointerBoard, GitAnswers
<1>3. CASE /\ board' = [board EXCEPT ![t].status = "pending", ![t].owner = None,
                                     ![t].pid = None]
           /\ UNCHANGED job
  <2> DEFINE r == [board[t] EXCEPT !.status = "pending", !.owner = None, !.pid = None]
  <2>0. board[t] \in TaskRec
    BY DEF IInv, TypeOK
  <2>1. r \in TaskRec /\ r.status = "pending" /\ r.owner = None /\ r.binding = None
    BY <1>1, <2>0 DEF TaskRec, Status
  <2>2. board' = [board EXCEPT ![t] = r]
    BY <1>3, Types DEF TaskRec
  <2> HIDE DEF r
  <2>3. /\ board' \in [Tasks -> TaskRec]
        /\ board'[t].status = "pending" /\ board'[t].owner = None /\ board'[t].binding = None
        /\ \A s \in Tasks : s # t => board'[s] = board[s]
    BY <2>1, <2>2 DEF IInv, TypeOK
  <2>4. TypeOK'
    BY <1>3, <2>3 DEF RecoverDrop, IInv, TypeOK
  <2>5. BoardShape' /\ CreateShape'
    BY <1>1, <2>3 DEF RecoverDrop, IInv, BoardShape, CreateShape
  <2>6. RecordShape' /\ PointerShape' /\ MemShape' /\ MemPointer'
    BY DEF RecoverDrop, IInv, RecordShape, PointerShape, MemShape, MemPointer
  <2>7. PointerBoard'
    BY <1>2, <2>3 DEF RecoverDrop, IInv, PointerBoard, PointerShape, RecordShape,
       NoPointerOn, GitAnswers
  <2>8. JobShape' /\ JobFacts'
    BY <1>3 DEF RecoverDrop, Running, IInv, JobShape, JobFacts, ClaimFacts, RegisterFacts,
       AttachFacts, FinishFacts, RestoreFacts, Claiming, Attaching, Finishing, Restoring
  <2> QED BY <2>4, <2>5, <2>6, <2>7, <2>8 DEF IInv
<1>4. CASE Release /\ UNCHANGED board
  BY <1>4, Released, NoJobType, CopiesUnchanged DEF RecoverDrop, Release, IInv, TypeOK
<1> QED BY <1>3, <1>4 DEF RecoverDrop

\* Nor does giving it back.
LEMMA ClaimRefuseStep ==
    ASSUME IInv, NEW p \in Procs, ClaimRefuse(p)
    PROVE  IInv'
BY Released, NoJobType, CopiesUnchanged DEF ClaimRefuse, Release, IInv, TypeOK

\* The task was pending, so no active copy is on it.
LEMMA ClaimPrepareStep ==
    ASSUME IInv, NEW p \in Procs, NEW t \in Tasks, ClaimPrepare(p, t)
    PROVE  IInv'
<1>1. board[t].status = "pending" /\ board[t].binding = None /\ job.a \in Agents
  BY DEF ClaimPrepare, Running, Target, FirstAvailable, Claimable, IInv, BoardShape, JobShape
<1>2. NoPointerOn(t)
  BY <1>1 DEF NoPointerOn, IInv, PointerBoard, GitAnswers
<1>3. /\ board' \in [Tasks -> TaskRec]
      /\ board'[t].status = "preparing" /\ board'[t].owner = job.a
      /\ board'[t].binding = None /\ board'[t].pid = p
      /\ \A s \in Tasks : s # t => board'[s] = board[s]
  <2> DEFINE r == [board[t] EXCEPT !.status = "preparing", !.owner = job.a, !.pid = p]
  <2>1. /\ r \in TaskRec /\ r.status = "preparing" /\ r.owner = job.a
        /\ r.binding = None /\ r.pid = p
    BY <1>1, Types DEF TaskRec, Status
  <2>2. board' = [board EXCEPT ![t] = r]
    BY Types DEF ClaimPrepare, TaskRec
  <2> HIDE DEF r
  <2> QED BY <2>1, <2>2 DEF IInv, TypeOK
<1>4. /\ job' \in JobRec /\ job'.step = "worktree" /\ job'.t = t
      /\ job'.p = job.p /\ job'.a = job.a
  BY Types DEF ClaimPrepare, JobRec, Steps
<1>5. TypeOK'
  BY <1>3, <1>4 DEF ClaimPrepare, IInv, TypeOK
<1>6. BoardShape' /\ CreateShape'
  BY <1>1, <1>3 DEF ClaimPrepare, IInv, BoardShape, CreateShape
<1>7. RecordShape' /\ PointerShape' /\ MemShape' /\ MemPointer'
  BY DEF ClaimPrepare, IInv, RecordShape, PointerShape, MemShape, MemPointer
<1>8. PointerBoard'
  BY <1>2, <1>3 DEF ClaimPrepare, IInv, PointerBoard, PointerShape, RecordShape,
     NoPointerOn, GitAnswers
<1>9. JobShape' /\ JobFacts'
  BY <1>2, <1>3, <1>4 DEF ClaimPrepare, Running, IInv, JobShape, JobFacts, ClaimFacts,
     RegisterFacts, AttachFacts, FinishFacts, RestoreFacts, NoPointerOn, GitAnswers, Claiming,
     Attaching, Finishing, Restoring
<1> QED BY <1>5, <1>6, <1>7, <1>8, <1>9 DEF IInv

\* The worktree, or the refusal of an agent that has an active lease: only the
\* step of the claim changes.
LEMMA ClaimWorktreeStep ==
    ASSUME IInv, NEW p \in Procs, ClaimWorktree(p) \/ RegisterRefuse(p)
    PROVE  IInv'
<1>1. PICK s \in {"record", "undo"} : job' = [job EXCEPT !.step = s]
  BY DEF ClaimWorktree, RegisterRefuse, Goto
<1>2. job' \in JobRec /\ job'.step = s /\ job' = [job EXCEPT !.step = s]
  BY <1>1, Types DEF JobRec, Steps
<1>3. TypeOK'
  BY <1>2, BoardAssumption DEF ClaimWorktree, RegisterRefuse, IInv, TypeOK, Version
<1>4. JobShape' /\ JobFacts'
  BY <1>1, <1>2 DEF ClaimWorktree, RegisterRefuse, Running, IInv, TypeOK, JobRec, JobShape,
     JobFacts, ClaimFacts, RegisterFacts, AttachFacts, FinishFacts, RestoreFacts, NoPointerOn,
     GitAnswers, Claiming, Attaching, Finishing, Restoring
<1> QED BY <1>3, <1>4, CopiesUnchanged DEF ClaimWorktree, RegisterRefuse, IInv

\* A new record: no binding and no copy names it yet.
LEMMA RegisterRecordStep ==
    ASSUME IInv, NEW p \in Procs, NEW l \in Leases, RegisterRecord(p, l)
    PROVE  IInv'
<1>1. job.t \in Tasks /\ job.a \in Agents /\ job.p = p /\ records[l].status = "unused"
  BY DEF RegisterRecord, Running, FreshLease, IInv, JobShape
<1>2. /\ records' \in [Leases -> LeaseRec]
      /\ records'[l].status = "active" /\ records'[l].task = job.t
      /\ records'[l].agent = job.a /\ records'[l].gen = p
      /\ \A m \in Leases : m # l => records'[m] = records[m]
  BY <1>1, Types DEF RegisterRecord, LeaseRec
<1>3. /\ job' \in JobRec /\ job'.step = "pointer" /\ job'.l = l
      /\ job'.p = job.p /\ job'.a = job.a /\ job'.t = job.t
  BY Types DEF RegisterRecord, JobRec, Steps
<1>4. TypeOK'
  BY <1>2, <1>3 DEF RegisterRecord, IInv, TypeOK
<1>5. BoardShape' /\ CreateShape' /\ RecordShape'
  BY <1>1, <1>2 DEF RegisterRecord, IInv, BoardShape, CreateShape, RecordShape
<1>6. PointerShape' /\ MemShape' /\ MemPointer'
  BY <1>1, <1>2 DEF RegisterRecord, IInv, TypeOK, PointerShape, MemShape, MemPointer
<1>7. PointerBoard'
  BY <1>1, <1>2 DEF RegisterRecord, IInv, PointerShape, PointerBoard, GitAnswers
<1>8. JobShape' /\ JobFacts'
  BY <1>1, <1>2, <1>3 DEF RegisterRecord, Running, IInv, JobShape, JobFacts, ClaimFacts,
     RegisterFacts, AttachFacts, FinishFacts, RestoreFacts, NoPointerOn, GitAnswers, PointerShape,
     Claiming, Attaching, Finishing, Restoring
<1> QED BY <1>4, <1>5, <1>6, <1>7, <1>8 DEF IInv

\* The copy is written; it is bound at once if git answers.
LEMMA RegisterPointerStep ==
    ASSUME IInv, NEW p \in Procs, RegisterPointer(p)
    PROVE  IInv'
<1> DEFINE a == job.a
           l == job.l
<1>1. /\ a \in Agents /\ l \in Leases /\ job.p = p /\ job.t \in Tasks
      /\ records[l].status = "active" /\ records[l].agent = a /\ records[l].task = job.t
      /\ records[l].gen = p /\ pointer[a].status # "active"
      /\ board[job.t].status = "preparing" /\ board[job.t].owner = a
  BY DEF RegisterPointer, Running, IInv, JobShape, JobFacts, ClaimFacts, RegisterFacts, Claiming
<1>2. pointer' = [pointer EXCEPT ![a] = [status |-> "active", id |-> l, gen |-> p,
                                          linked |-> FALSE]]
  BY DEF RegisterPointer
<1>3. /\ pointer' \in [Agents -> PointerRec]
      /\ pointer'[a].status = "active" /\ pointer'[a].id = l /\ pointer'[a].gen = p
      /\ \A b \in Agents : b # a => pointer'[b] = pointer[b]
  BY <1>1, <1>2, Types DEF PointerRec
<1>4. BoardShape' /\ CreateShape' /\ RecordShape'
  BY DEF RegisterPointer, IInv, BoardShape, CreateShape, RecordShape
<1>5. PointerShape'
  BY <1>1, <1>3 DEF RegisterPointer, IInv, PointerShape
<1>6. PointerBoard'
  BY <1>1, <1>3 DEF RegisterPointer, IInv, PointerBoard, GitAnswers
<1>7. CASE mem' = [mem EXCEPT ![p][a] = l] /\ Goto("attachRecord")
  <2>1. /\ mem' \in [Procs -> [Agents -> Leases \cup {None}]]
        /\ mem'[p][a] = l
        /\ \A q \in Procs, b \in Agents : q # p \/ b # a => mem'[q][b] = mem[q][b]
    BY <1>1, <1>7 DEF IInv, TypeOK
  <2>2. /\ job' \in JobRec /\ job'.step = "attachRecord" /\ job'.p = p /\ job'.a = a
        /\ job'.t = job.t /\ job'.l = l
    BY <1>1, <1>7, Types DEF Goto, JobRec, Steps
  <2>3. TypeOK'
    BY <1>3, <2>1, <2>2 DEF RegisterPointer, IInv, TypeOK
  <2>4. MemShape'
    BY <1>1, <2>1 DEF RegisterPointer, IInv, MemShape
  <2>5. MemPointer'
    BY <1>1, <1>3, <2>1 DEF RegisterPointer, IInv, MemShape, MemPointer
  <2>6. JobShape' /\ JobFacts'
    BY <1>1, <1>3, <2>2 DEF RegisterPointer, JobShape, JobFacts, ClaimFacts, RegisterFacts,
       AttachFacts, FinishFacts, RestoreFacts, Claiming, Attaching, Finishing, Restoring
  <2> QED BY <1>4, <1>5, <1>6, <2>3, <2>4, <2>5, <2>6 DEF IInv
\* Nobody is bound to a lease the agent's old copy, which had ended, named.
<1>8. CASE mem' = mem /\ Goto("undo") /\ ~GitAnswers
  <2>1. /\ job' \in JobRec /\ job'.step = "undo" /\ job'.p = p /\ job'.a = a
        /\ job'.t = job.t /\ job'.l = l
    BY <1>1, <1>8, Types DEF Goto, JobRec, Steps
  <2>2. TypeOK'
    BY <1>3, <1>8, <2>1 DEF RegisterPointer, IInv, TypeOK
  <2>3. MemShape'
    BY <1>8 DEF RegisterPointer, IInv, MemShape
  <2>4. MemPointer'
    BY <1>1, <1>3, <1>8 DEF RegisterPointer, IInv, MemShape, MemPointer
  <2>5. JobShape' /\ JobFacts'
    BY <1>1, <1>3, <1>8, <2>1 DEF RegisterPointer, JobShape, JobFacts, ClaimFacts, RegisterFacts,
       AttachFacts, FinishFacts, RestoreFacts, NoPointerOn, GitAnswers, Claiming, Attaching,
       Finishing, Restoring
  <2> QED BY <1>4, <1>5, <1>6, <2>2, <2>3, <2>4, <2>5 DEF IInv
<1> QED BY <1>7, <1>8 DEF RegisterPointer, GitAnswers

\* Linking the record to the task file keeps all else of it.
LEMMA AttachRecordStep ==
    ASSUME IInv, NEW p \in Procs, AttachRecord(p)
    PROVE  IInv'
<1>1. /\ records' \in [Leases -> LeaseRec]
      /\ \A l \in Leases : /\ records'[l].status = records[l].status
                           /\ records'[l].task = records[l].task
                           /\ records'[l].agent = records[l].agent
                           /\ records'[l].gen = records[l].gen
  <2>1. job.l \in Leases
    BY DEF AttachRecord, Running, IInv, JobShape, Attaching
  <2> DEFINE r == [records[job.l] EXCEPT !.linked = TRUE]
  <2>2. /\ r \in LeaseRec /\ r.status = records[job.l].status
        /\ r.task = records[job.l].task /\ r.agent = records[job.l].agent
        /\ r.gen = records[job.l].gen
    BY <2>1, Types DEF LeaseRec
  <2>3. records' = [records EXCEPT ![job.l] = r]
    BY <2>1 DEF AttachRecord, IInv, TypeOK
  <2> HIDE DEF r
  <2> QED BY <2>1, <2>2, <2>3 DEF IInv, TypeOK
<1>2. /\ job' \in JobRec /\ job'.step = "attachPointer" /\ job'.p = job.p /\ job'.a = job.a
      /\ job'.t = job.t /\ job'.l = job.l
  BY Types DEF AttachRecord, Goto, JobRec, Steps
<1>3. TypeOK'
  BY <1>1, <1>2 DEF AttachRecord, IInv, TypeOK
<1>4. BoardShape' /\ CreateShape' /\ RecordShape'
  BY <1>1 DEF AttachRecord, IInv, BoardShape, CreateShape, RecordShape
<1>5. PointerShape' /\ PointerBoard'
  BY <1>1 DEF AttachRecord, IInv, PointerShape, PointerBoard, GitAnswers
<1>6. MemShape' /\ MemPointer'
  BY <1>1 DEF AttachRecord, IInv, TypeOK, MemShape, MemPointer
<1>7. JobShape' /\ JobFacts'
  BY <1>1, <1>2 DEF AttachRecord, Running, IInv, JobShape, JobFacts, ClaimFacts, RegisterFacts,
     AttachFacts, FinishFacts, RestoreFacts, Claiming, Attaching, Finishing, Restoring
<1> QED BY <1>3, <1>4, <1>5, <1>6, <1>7 DEF IInv

\* Linking the copy keeps all else of it.
LEMMA AttachPointerStep ==
    ASSUME IInv, NEW p \in Procs, AttachPointer(p)
    PROVE  IInv'
<1>1. /\ pointer' \in [Agents -> PointerRec]
      /\ \A a \in Agents : /\ pointer'[a].status = pointer[a].status
                           /\ pointer'[a].id = pointer[a].id
                           /\ pointer'[a].gen = pointer[a].gen
  <2> DEFINE o == records[job.l].agent
  <2>1. o \in Agents
    BY DEF AttachPointer, Running, IInv, JobShape, RecordShape, Attaching
  <2> DEFINE r == [pointer[o] EXCEPT !.linked = TRUE]
  <2>2. /\ r \in PointerRec /\ r.status = pointer[o].status /\ r.id = pointer[o].id
        /\ r.gen = pointer[o].gen
    BY <2>1, Types DEF PointerRec
  <2>3. pointer' = [pointer EXCEPT ![o] = r]
    BY <2>1 DEF AttachPointer, IInv, TypeOK
  <2> HIDE DEF o, r
  <2> QED BY <2>1, <2>2, <2>3 DEF IInv, TypeOK
<1>2. /\ job' \in JobRec /\ job'.step = "publish" /\ job'.p = job.p /\ job'.a = job.a
      /\ job'.t = job.t /\ job'.l = job.l
  BY Types DEF AttachPointer, Goto, JobRec, Steps
<1>3. TypeOK'
  BY <1>1, <1>2 DEF AttachPointer, IInv, TypeOK
<1>4. BoardShape' /\ CreateShape' /\ RecordShape' /\ MemShape'
  BY DEF AttachPointer, IInv, BoardShape, CreateShape, RecordShape, MemShape
<1>5. PointerShape' /\ MemPointer'
  <2>1. UNCHANGED <<records, mem>>
    BY DEF AttachPointer
  <2>2. PointerShape'
    BY <1>1, <2>1 DEF IInv, PointerShape
  <2>3. MemPointer'
    BY <1>1, <2>1 DEF IInv, MemPointer
  <2> QED BY <2>2, <2>3
<1>6. PointerBoard'
  BY <1>1 DEF AttachPointer, IInv, PointerBoard, GitAnswers, PointerShape
<1>7. JobShape' /\ JobFacts'
  BY <1>1, <1>2 DEF AttachPointer, Running, IInv, RecordShape, JobShape, JobFacts, ClaimFacts,
     RegisterFacts, AttachFacts, FinishFacts, RestoreFacts, Claiming, Attaching, Finishing,
     Restoring
<1> QED BY <1>3, <1>4, <1>5, <1>6, <1>7 DEF IInv

\* The owner's copy already names the lease the task now gets.
LEMMA PublishStep ==
    ASSUME IInv, NEW p \in Procs, Publish(p)
    PROVE  IInv'
<1>1. PICK t \in Tasks, l \in Leases :
      /\ t = job.t /\ l = job.l /\ job.p \in Procs /\ job.a \in Agents
      /\ board[t].status = "preparing" /\ board[t].owner \in Agents
      /\ pointer[board[t].owner].id = l
  BY DEF Publish, Running, IInv, JobShape, BoardShape, JobFacts, AttachFacts, Attaching
<1> DEFINE r == [board[t] EXCEPT !.status = "in_progress", !.binding = l, !.pid = None]
<1>2. /\ r \in TaskRec /\ r.status = "in_progress" /\ r.binding = l
      /\ r.owner = board[t].owner
  <2>1. board[t] \in TaskRec
    BY DEF IInv, TypeOK
  <2> QED BY <2>1 DEF TaskRec, Status
<1>3. board' = [board EXCEPT ![t] = r]
  BY <1>1, Types DEF Publish, TaskRec
<1> HIDE DEF r
<1>4. /\ job' \in JobRec /\ JobShape' /\ JobFacts'
  <2>1. CASE job' = [job EXCEPT !.step = "recover"]
    BY <1>1, <2>1 DEF IInv, TypeOK, JobRec, Steps, JobShape, JobFacts, ClaimFacts,
       RegisterFacts, AttachFacts, FinishFacts, RestoreFacts, Claiming, Attaching, Finishing,
       Restoring
  <2>2. CASE Release
    BY <2>2, Released, NoJobType DEF Release
  <2> QED BY <2>1, <2>2 DEF Publish, Goto
<1>5. TypeOK'
  BY <1>1, <1>2, <1>3, <1>4 DEF Publish, IInv, TypeOK
<1>6. /\ board'[t] = r /\ \A s \in Tasks : s # t => board'[s] = board[s]
      /\ UNCHANGED <<hwm, creating, records, pointer, mem>>
  BY <1>3 DEF Publish, IInv, TypeOK
<1>7. BoardShape' /\ CreateShape'
  <2>1. BoardShape'
    BY <1>1, <1>2, <1>6 DEF IInv, BoardShape
  <2>2. CreateShape'
    BY <1>1, <1>2, <1>6 DEF IInv, CreateShape
  <2> QED BY <2>1, <2>2
<1>8. RecordShape' /\ PointerShape' /\ MemShape' /\ MemPointer'
  BY <1>6 DEF IInv, RecordShape, PointerShape, MemShape, MemPointer
<1>9. PointerBoard'
  BY <1>1, <1>2, <1>6 DEF IInv, PointerBoard, GitAnswers
<1> QED BY <1>4, <1>5, <1>7, <1>8, <1>9 DEF IInv

\* Nothing was published, so no active copy is left on the task.
LEMMA ClaimUndoStep ==
    ASSUME IInv, NEW p \in Procs, ClaimUndo(p)
    PROVE  IInv'
<1>1. PICK t \in Tasks : t = job.t /\ board[t].status = "preparing" /\ NoPointerOn(t)
  BY DEF ClaimUndo, Running, IInv, JobShape, JobFacts, ClaimFacts, Claiming
<1> DEFINE r == [board[t] EXCEPT !.status = "pending", !.owner = None, !.binding = None,
                                 !.pid = None]
<1>2. r \in TaskRec /\ r.status = "pending" /\ r.owner = None /\ r.binding = None
  <2>1. board[t] \in TaskRec
    BY DEF IInv, TypeOK
  <2> QED BY <2>1 DEF TaskRec, Status
<1>3. board' = [board EXCEPT ![t] = r]
  BY <1>1, Types DEF ClaimUndo, TaskRec
<1> HIDE DEF r
<1>4. job' \in JobRec /\ JobShape' /\ JobFacts'
  BY Released, NoJobType DEF ClaimUndo, Release
<1>5. TypeOK'
  BY <1>1, <1>2, <1>3, <1>4 DEF ClaimUndo, IInv, TypeOK
<1>6. /\ board'[t] = r /\ \A s \in Tasks : s # t => board'[s] = board[s]
      /\ UNCHANGED <<hwm, creating, records, pointer, mem>>
  BY <1>3 DEF ClaimUndo, IInv, TypeOK
<1>7. BoardShape' /\ CreateShape'
  <2>1. BoardShape'
    BY <1>1, <1>2, <1>6 DEF IInv, BoardShape
  <2>2. CreateShape'
    BY <1>1, <1>2, <1>6 DEF IInv, CreateShape
  <2> QED BY <2>1, <2>2
<1>8. RecordShape' /\ PointerShape' /\ MemShape' /\ MemPointer'
  BY <1>6 DEF IInv, RecordShape, PointerShape, MemShape, MemPointer
<1>9. PointerBoard'
  BY <1>1, <1>6 DEF IInv, PointerBoard, NoPointerOn, GitAnswers
<1> QED BY <1>4, <1>5, <1>7, <1>8, <1>9 DEF IInv

----------------------------------------------------------------------------
(* Completion and integration.                                             *)

\* What completeTask plans before its first write.
LEMMA PlanCompletionFacts ==
    ASSUME IInv, NEW p \in Procs, NEW a \in Agents, NEW t \in Tasks, PlanCompletion(p, a, t),
           UNCHANGED <<board, records>>
    PROVE  job' \in JobRec /\ JobShape' /\ JobFacts'
<1>1. PICK l \in Leases : /\ l = board[t].binding /\ records[l].status # "unused"
                          /\ board[t].status \in {"in_progress", "ready_for_review"}
  BY DEF PlanCompletion, IInv, BoardShape
<1>2. PICK to \in {"ready_for_review", "completed"}, art \in Version \cup {None} :
         job' = [NoJob EXCEPT !.step = "finishRecord", !.p = p, !.a = a, !.t = t,
                              !.l = l, !.to = to, !.art = art]
  <2>1. board[t].art \in Version \cup {None} /\ work[t] \in Version \cup {None}
    BY DEF IInv, TypeOK, TaskRec
  <2> QED BY <1>1, <2>1 DEF PlanCompletion
<1>3. /\ job' \in JobRec /\ job'.step = "finishRecord" /\ job'.p = p /\ job'.a = a
      /\ job'.t = t /\ job'.l = l /\ job'.to = to
  BY <1>2, NoJobType DEF JobRec, Steps, Status
<1>4. JobShape'
  BY <1>1, <1>3 DEF JobShape
<1>5. JobFacts'
  BY <1>1, <1>3 DEF JobFacts, ClaimFacts, RegisterFacts, AttachFacts, FinishFacts,
     RestoreFacts, Claiming, Attaching, Finishing, Restoring
<1> QED BY <1>3, <1>4, <1>5

\* completeTask up to its first write.
LEMMA CompleteBeginStep ==
    ASSUME IInv, NEW p \in Procs, NEW a \in Agents, NEW t \in Tasks, CompleteBegin(p, a, t)
    PROVE  IInv'
<1>1. job' \in JobRec /\ JobShape' /\ JobFacts'
  BY PlanCompletionFacts DEF CompleteBegin
<1>2. TypeOK'
  BY <1>1 DEF CompleteBegin, IInv, TypeOK
<1> QED BY <1>1, <1>2, CopiesUnchanged DEF CompleteBegin, IInv

\* The artifact reaches the main workspace before the task is touched.
LEMMA IntegrateStep ==
    ASSUME IInv, NEW p \in Procs, NEW a \in Agents, NEW t \in Tasks, Integrate(p, a, t)
    PROVE  IInv'
<1>1. job' \in JobRec /\ job'.step = "complete" /\ job'.p = p /\ job'.a = a /\ job'.t = t
  BY NoJobType DEF Integrate, JobRec, Steps
<1>2. board[t].art \in Version \cup {None}
  BY Types DEF TaskRec
<1>3. main' \in [Tasks -> Version \cup {None}]
  BY <1>2 DEF Integrate, IInv, TypeOK
<1>4. TypeOK'
  BY <1>1, <1>3 DEF Integrate, IInv, TypeOK
<1>5. JobShape' /\ JobFacts'
  BY <1>1 DEF JobShape, JobFacts, ClaimFacts, RegisterFacts, AttachFacts, FinishFacts,
     RestoreFacts, Claiming, Attaching, Finishing, Restoring
<1> QED BY <1>4, <1>5, CopiesUnchanged DEF Integrate, IInv

\* integrateTask goes on as completeTask, or is refused.
LEMMA IntegrateCompleteStep ==
    ASSUME IInv, NEW p \in Procs, IntegrateComplete(p)
    PROVE  IInv'
<1>1. job.t \in Tasks /\ job.a \in Agents
  BY DEF IntegrateComplete, Running, IInv, JobShape
<1>2. job' \in JobRec /\ JobShape' /\ JobFacts'
  <2>1. CASE PlanCompletion(p, job.a, job.t)
    BY <1>1, <2>1, PlanCompletionFacts DEF IntegrateComplete
  <2>2. CASE Release
    BY <2>2, Released, NoJobType DEF Release
  <2> QED BY <2>1, <2>2 DEF IntegrateComplete
<1>3. TypeOK'
  BY <1>2 DEF IntegrateComplete, IInv, TypeOK
<1> QED BY <1>2, <1>3, CopiesUnchanged DEF IntegrateComplete, IInv

\* The record ends; nobody can write under it from here on.
LEMMA FinishRecordStep ==
    ASSUME IInv, NEW p \in Procs, FinishRecord(p)
    PROVE  IInv'
<1>1. PICK l \in Leases : l = job.l /\ records[l].status # "unused"
  BY DEF FinishRecord, Running, IInv, JobShape, Finishing
<1>2. /\ records' \in [Leases -> LeaseRec]
      /\ records'[l].status \in {"review", "closed"}
      /\ \A m \in Leases : /\ m # l => records'[m] = records[m]
                           /\ records'[m].task = records[m].task
                           /\ records'[m].agent = records[m].agent
                           /\ records'[m].gen = records[m].gen
                           /\ records'[m].status = "unused" <=> records[m].status = "unused"
                           /\ records'[m].status = "active" => records[m].status = "active"
  <2> DEFINE r == [records[l] EXCEPT !.status = LeaseEnd(job.to)]
  <2>1. records[l] \in LeaseRec /\ LeaseEnd(job.to) \in {"review", "closed"}
    BY DEF IInv, TypeOK, LeaseEnd
  <2>2. /\ r \in LeaseRec /\ r.status \in {"review", "closed"}
        /\ r.task = records[l].task /\ r.agent = records[l].agent /\ r.gen = records[l].gen
    BY <2>1 DEF LeaseRec
  <2>3. records' = [records EXCEPT ![l] = r]
    BY <1>1 DEF FinishRecord, IInv, TypeOK
  <2> HIDE DEF r
  <2> QED BY <1>1, <2>2, <2>3 DEF IInv, TypeOK
<1>3. /\ job' \in JobRec /\ job'.step = "finishPointer" /\ job'.p = job.p /\ job'.a = job.a
      /\ job'.t = job.t /\ job'.l = l /\ job'.to = job.to
  BY <1>1, Types DEF FinishRecord, Goto, JobRec, Steps
<1>4. TypeOK'
  BY <1>2, <1>3 DEF FinishRecord, IInv, TypeOK
<1>5. BoardShape' /\ CreateShape' /\ RecordShape'
  BY <1>1, <1>2 DEF FinishRecord, IInv, BoardShape, CreateShape, RecordShape
<1>6. PointerShape' /\ PointerBoard'
  BY <1>2 DEF FinishRecord, IInv, PointerShape, PointerBoard, GitAnswers
<1>7. MemShape' /\ MemPointer'
  <2>1. \A q \in Procs, a \in Agents : mem[q][a] \in Leases \cup {None}
    BY DEF IInv, TypeOK
  <2> QED BY <1>2, <2>1 DEF FinishRecord, IInv, MemShape, MemPointer
<1>8. JobShape' /\ JobFacts'
  BY <1>1, <1>2, <1>3 DEF FinishRecord, Running, IInv, JobShape, JobFacts, ClaimFacts,
     RegisterFacts, AttachFacts, FinishFacts, RestoreFacts, Claiming, Attaching, Finishing,
     Restoring
<1> QED BY <1>4, <1>5, <1>6, <1>7, <1>8 DEF IInv

\* Afterwards no active copy is left on the task: it could only be the owner's,
\* which names the task's binding, the lease that has just ended.
LEMMA FinishPointerStep ==
    ASSUME IInv, NEW p \in Procs, FinishPointer(p)
    PROVE  IInv'
<1>1. PICK l \in Leases, t \in Tasks, o \in Agents :
      /\ l = job.l /\ t = job.t /\ o = records[l].agent /\ job.p = p /\ job.a \in Agents
      /\ records[l].status \in {"review", "closed"} /\ records[l].gen \in Procs
      /\ board[t].status \in {"in_progress", "ready_for_review"} /\ board[t].binding = l
  BY DEF FinishPointer, Running, IInv, JobShape, RecordShape, JobFacts, FinishFacts, Finishing
<1>2. /\ pointer' \in [Agents -> PointerRec]
      /\ pointer[o].id = l => pointer'[o].id = l /\ pointer'[o].gen \in Procs
                                                /\ pointer'[o].status \in {"review", "closed"}
      /\ \A a \in Agents : a # o \/ pointer[o].id # l => pointer'[a] = pointer[a]
  <2> DEFINE r == [status |-> records[l].status, id |-> l, gen |-> records[l].gen,
                   linked |-> records[l].linked]
  <2>1. r \in PointerRec /\ r.id = l /\ r.gen \in Procs /\ r.status \in {"review", "closed"}
    BY <1>1, Types DEF LeaseRec, PointerRec
  <2>2. pointer' = IF pointer[o].id = l THEN [pointer EXCEPT ![o] = r] ELSE pointer
    BY <1>1 DEF FinishPointer
  <2> HIDE DEF r
  <2> QED BY <2>1, <2>2 DEF IInv, TypeOK
<1>3. /\ mem' \in [Procs -> [Agents -> Leases \cup {None}]]
      /\ \A q \in Procs, a \in Agents : mem'[q][a] \in {mem[q][a], None}
  BY <1>1 DEF FinishPointer, IInv, TypeOK
<1>4. /\ job' \in JobRec /\ job'.step = "commit" /\ job'.p = p /\ job'.a = job.a
      /\ job'.t = t /\ job'.l = l /\ job'.to = job.to
  BY <1>1, Types DEF FinishPointer, Goto, JobRec, Steps
<1>5. UNCHANGED <<board, hwm, creating, records>>
  BY DEF FinishPointer
<1>6. TypeOK'
  BY <1>2, <1>3, <1>4 DEF FinishPointer, IInv, TypeOK
<1>7. BoardShape' /\ CreateShape' /\ RecordShape'
  BY <1>5 DEF IInv, BoardShape, CreateShape, RecordShape
<1>8. PointerShape'
  BY <1>1, <1>2, <1>5 DEF IInv, PointerShape
<1>9. MemShape'
  BY <1>3, <1>5 DEF IInv, MemShape
<1>10. MemPointer'
  BY <1>1, <1>2, <1>3, <1>5 DEF IInv, MemPointer
<1>11. PointerBoard'
  BY <1>1, <1>2, <1>5 DEF IInv, PointerBoard, GitAnswers
<1>12. NoPointerOn(t)'
  BY <1>1, <1>2, <1>5 DEF IInv, PointerBoard, PointerShape, NoPointerOn, GitAnswers
<1>13. JobShape'
  BY <1>1, <1>4, <1>5 DEF JobShape
<1>14. JobFacts'
  BY <1>1, <1>4, <1>5, <1>12 DEF FinishPointer, Running, IInv, JobFacts, ClaimFacts,
     RegisterFacts, AttachFacts, FinishFacts, RestoreFacts, Claiming, Attaching, Finishing,
     Restoring
<1> QED BY <1>6, <1>7, <1>8, <1>9, <1>10, <1>11, <1>13, <1>14 DEF IInv

\* The task leaves the owner when no active copy is on it any more.
LEMMA CompleteCommitStep ==
    ASSUME IInv, NEW p \in Procs, CompleteCommit(p)
    PROVE  IInv'
<1>1. PICK t \in Tasks, to \in {"ready_for_review", "completed"} :
      /\ t = job.t /\ to = job.to /\ NoPointerOn(t)
      /\ board[t].status \in {"in_progress", "ready_for_review"}
  BY DEF CompleteCommit, Running, IInv, JobShape, JobFacts, FinishFacts, Finishing
<1> DEFINE r == [board[t] EXCEPT !.status = to, !.art = job.art]
<1>2. /\ r \in TaskRec /\ r.status = to /\ r.owner = board[t].owner
      /\ r.binding = board[t].binding
  <2>1. board[t] \in TaskRec /\ job.art \in Version \cup {None}
    BY Types DEF JobRec
  <2> QED BY <2>1 DEF TaskRec, Status
<1>3. board' = [board EXCEPT ![t] = r]
  BY <1>1 DEF CompleteCommit, IInv, TypeOK
<1> HIDE DEF r
<1>4. /\ board' \in [Tasks -> TaskRec] /\ board'[t] = r
      /\ \A s \in Tasks : s # t => board'[s] = board[s]
  BY <1>2, <1>3 DEF IInv, TypeOK
<1>5. job' \in JobRec /\ JobShape' /\ JobFacts'
  BY Released, NoJobType DEF CompleteCommit, Release
<1>6. cleanup' \in [Procs -> SUBSET Tasks]
  BY <1>1 DEF CompleteCommit, IInv, TypeOK
<1>7. TypeOK'
  BY <1>4, <1>5, <1>6 DEF CompleteCommit, IInv, TypeOK
<1>8. UNCHANGED <<hwm, creating, records, pointer, mem>>
  BY DEF CompleteCommit
<1>9. BoardShape' /\ CreateShape'
  BY <1>1, <1>2, <1>4, <1>8 DEF IInv, BoardShape, CreateShape
<1>10. RecordShape' /\ PointerShape' /\ MemShape' /\ MemPointer'
  BY <1>8 DEF IInv, RecordShape, PointerShape, MemShape, MemPointer
<1>11. PointerBoard'
  BY <1>1, <1>4, <1>8 DEF IInv, PointerBoard, NoPointerOn, GitAnswers
<1> QED BY <1>5, <1>7, <1>9, <1>10, <1>11 DEF IInv

----------------------------------------------------------------------------
(* restoreAgentWorkspace.                                                  *)

\* What a restore reads under the lock.
LEMMA RestoreBeginStep ==
    ASSUME IInv, NEW p \in Procs, NEW a \in Agents, RestoreBegin(p, a)
    PROVE  IInv'
<1>1. PICK l \in Leases, t \in Tasks :
      /\ l = pointer[a].id /\ t = records[l].task
      /\ pointer[a].status = "active" /\ records[l].status # "unused" /\ mem[p][a] = None
  BY DEF RestoreBegin, IInv, PointerShape, RecordShape
<1>2. PICK s \in {"restoreTask", "takeRecord"} :
         job' = [NoJob EXCEPT !.step = s, !.p = p, !.a = a, !.l = l, !.t = t]
  BY <1>1 DEF RestoreBegin
<1>3. /\ job' \in JobRec /\ job'.step = s /\ job'.p = p /\ job'.a = a
      /\ job'.l = l /\ job'.t = t
  BY <1>2, NoJobType DEF JobRec, Steps
<1>4. UNCHANGED <<board, hwm, creating, records, pointer, mem>>
  BY DEF RestoreBegin
<1>5. TypeOK'
  BY <1>3 DEF RestoreBegin, IInv, TypeOK
<1>6. JobShape' /\ JobFacts'
  BY <1>1, <1>3, <1>4 DEF JobShape, JobFacts, ClaimFacts, RegisterFacts, AttachFacts,
     FinishFacts, RestoreFacts, Claiming, Attaching, Finishing, Restoring
<1> QED BY <1>4, <1>5, <1>6, CopiesUnchanged DEF IInv

\* The record now carries the restoring process, which has no binding yet; a
\* process that still has one no longer matches it.
LEMMA TakeRecordStep ==
    ASSUME IInv, NEW p \in Procs, TakeRecord(p)
    PROVE  IInv'
<1>1. PICK l \in Leases, a \in Agents :
      /\ l = job.l /\ a = job.a /\ job.p = p /\ job.t \in Tasks
      /\ records[l].status # "unused" /\ records[l].agent = a
      /\ pointer[a].status = "active" /\ pointer[a].id = l
      /\ mem[p][a] = None
  BY DEF TakeRecord, Running, IInv, JobShape, PointerShape, JobFacts, RestoreFacts, Restoring
<1>2. /\ records' \in [Leases -> LeaseRec]
      /\ records'[l].status = "active" /\ records'[l].gen = p
      /\ records'[l].task = records[l].task /\ records'[l].agent = a
      /\ \A m \in Leases : m # l => records'[m] = records[m]
  <2> DEFINE r == [records[l] EXCEPT !.status = "active", !.gen = p, !.linked = pointer[a].linked]
  <2>1. records[l] \in LeaseRec /\ pointer[a].linked \in BOOLEAN
    BY Types DEF PointerRec
  <2>2. /\ r \in LeaseRec /\ r.status = "active" /\ r.gen = p
        /\ r.task = records[l].task /\ r.agent = records[l].agent
    BY <2>1 DEF LeaseRec
  <2>3. records' = [records EXCEPT ![l] = r]
    BY <1>1 DEF TakeRecord, IInv, TypeOK
  <2> HIDE DEF r
  <2> QED BY <1>1, <2>2, <2>3 DEF IInv, TypeOK
<1>3. /\ job' \in JobRec /\ job'.step = "takePointer" /\ job'.p = p /\ job'.a = a
      /\ job'.t = job.t /\ job'.l = l
  <2>1. job \in JobRec /\ job' = [job EXCEPT !.step = "takePointer"]
    BY DEF TakeRecord, Goto, IInv, TypeOK
  <2> QED BY <1>1, <2>1 DEF JobRec, Steps
<1>4. UNCHANGED <<board, hwm, creating, pointer, mem>>
  BY DEF TakeRecord
<1>5. TypeOK'
  BY <1>2, <1>3 DEF TakeRecord, IInv, TypeOK
<1>6. BoardShape' /\ CreateShape' /\ RecordShape'
  BY <1>1, <1>2, <1>4 DEF IInv, BoardShape, CreateShape, RecordShape
<1>7. PointerShape' /\ PointerBoard'
  BY <1>1, <1>2, <1>4 DEF IInv, PointerShape, PointerBoard, GitAnswers
<1>8. MemShape' /\ MemPointer'
  <2>1. \A q \in Procs, b \in Agents : mem[q][b] \in Leases \cup {None}
    BY DEF IInv, TypeOK
  <2> QED BY <1>1, <1>2, <1>4, <2>1 DEF IInv, MemShape, MemPointer
<1>9. JobShape' /\ JobFacts'
  BY <1>1, <1>2, <1>3, <1>4 DEF TakeRecord, Running, IInv, JobShape, JobFacts, ClaimFacts,
     RegisterFacts, AttachFacts, FinishFacts, RestoreFacts, Claiming, Attaching, Finishing,
     Restoring
<1> QED BY <1>5, <1>6, <1>7, <1>8, <1>9 DEF IInv

\* The copy follows the record.
LEMMA TakePointerStep ==
    ASSUME IInv, NEW p \in Procs, TakePointer(p)
    PROVE  IInv'
<1>1. PICK a \in Agents : a = job.a /\ pointer[a].status = "active"
  BY DEF TakePointer, Running, IInv, JobShape, JobFacts, RestoreFacts, Restoring
<1>2. /\ pointer' \in [Agents -> PointerRec]
      /\ pointer'[a].gen = p
      /\ \A b \in Agents : /\ pointer'[b].status = pointer[b].status
                           /\ pointer'[b].id = pointer[b].id
                           /\ b # a => pointer'[b].gen = pointer[b].gen
  <2> DEFINE r == [pointer[a] EXCEPT !.gen = p]
  <2>1. pointer[a] \in PointerRec
    BY DEF IInv, TypeOK
  <2>2. /\ r \in PointerRec /\ r.gen = p /\ r.status = pointer[a].status
        /\ r.id = pointer[a].id
    BY <2>1 DEF PointerRec
  <2>3. pointer' = [pointer EXCEPT ![a] = r]
    BY <1>1 DEF TakePointer, IInv, TypeOK
  <2> HIDE DEF r
  <2> QED BY <2>2, <2>3 DEF IInv, TypeOK
<1>3. /\ job' \in JobRec /\ job'.step = "restoreTask" /\ job'.p = job.p /\ job'.a = job.a
      /\ job'.t = job.t /\ job'.l = job.l
  BY Types DEF TakePointer, Goto, JobRec, Steps
<1>4. UNCHANGED <<board, hwm, creating, records, mem>>
  BY DEF TakePointer
<1>5. TypeOK'
  BY <1>2, <1>3 DEF TakePointer, IInv, TypeOK
<1>6. BoardShape' /\ CreateShape' /\ RecordShape' /\ MemShape'
  BY <1>4 DEF IInv, BoardShape, CreateShape, RecordShape, MemShape
<1>7. PointerShape' /\ PointerBoard' /\ MemPointer'
  BY <1>2, <1>4 DEF IInv, PointerShape, PointerBoard, GitAnswers, MemPointer
<1>8. JobShape' /\ JobFacts'
  BY <1>1, <1>2, <1>3, <1>4 DEF TakePointer, Running, IInv, JobShape, JobFacts, ClaimFacts,
     RegisterFacts, AttachFacts, FinishFacts, RestoreFacts, Claiming, Attaching, Finishing,
     Restoring
<1> QED BY <1>5, <1>6, <1>7, <1>8 DEF IInv

\* The task file is written only for a lease the task still belongs to, and the
\* binding is taken only from a record that carries this process.
LEMMA RestoreTaskStep ==
    ASSUME IInv, NEW p \in Procs, RestoreTask(p)
    PROVE  IInv'
<1>1. PICK l \in Leases, a \in Agents, t \in Tasks :
      /\ l = job.l /\ a = job.a /\ t = job.t
      /\ records[l].status # "unused" /\ records[l].agent = a /\ records[l].task = t
      /\ pointer[a].status = "active" /\ pointer[a].id = l
  BY DEF RestoreTask, Running, IInv, JobShape, PointerShape, JobFacts, RestoreFacts, Restoring
<1>2. /\ job' \in JobRec /\ JobShape' /\ JobFacts'
      /\ UNCHANGED <<hwm, creating, records, pointer>>
  BY Released, NoJobType DEF RestoreTask, Release
<1>3. /\ mem' \in [Procs -> [Agents -> Leases \cup {None}]]
      /\ \A q \in Procs, b \in Agents :
            mem'[q][b] = mem[q][b] \/ (q = p /\ b = a /\ mem'[q][b] = l)
  <2>1. mem' \in {mem, [mem EXCEPT ![p][a] = l]}
    BY <1>1 DEF RestoreTask
  <2>2. mem \in [Procs -> [Agents -> Leases \cup {None}]]
    BY DEF IInv, TypeOK
  <2> QED BY <1>1, <2>1, <2>2
<1>4. /\ board' \in [Tasks -> TaskRec]
      /\ \A s \in Tasks : s # t => board'[s] = board[s]
      /\ board'[t] = board[t] \/
            /\ board[t].status \in {"preparing", "in_progress"} /\ board[t].owner = a
            /\ board'[t].status = "in_progress" /\ board'[t].owner = a
            /\ board'[t].binding = l
  <2> DEFINE r == [board[t] EXCEPT !.status = "in_progress", !.binding = l, !.pid = None]
  <2>1. CASE board' = board
    BY <2>1 DEF IInv, TypeOK
  <2>2. CASE board' = [board EXCEPT ![t] = r] /\ StillAssigned(t, a, l)
    <3>1. board[t] \in TaskRec
      BY DEF IInv, TypeOK
    <3>2. /\ r \in TaskRec /\ r.status = "in_progress" /\ r.owner = board[t].owner
          /\ r.binding = l
      BY <3>1 DEF TaskRec, Status
    <3> HIDE DEF r
    <3> QED BY <2>2, <3>2 DEF IInv, TypeOK, StillAssigned
  <2>3. board' = board \/ (board' = [board EXCEPT ![t] = r] /\ StillAssigned(t, a, l))
    <3> DEFINE written == [board EXCEPT ![t].status = "in_progress", ![t].binding = l,
                                        ![t].pid = None]
    <3>1. board' = board \/ (board' = written /\ StillAssigned(t, a, l))
      BY <1>1 DEF RestoreTask
    <3>2. written = [board EXCEPT ![t] = r]
      BY Types DEF TaskRec
    <3> HIDE DEF written, r
    <3> QED BY <3>1, <3>2
  <2> QED BY <2>1, <2>2, <2>3
<1>5. TypeOK'
  BY <1>2, <1>3, <1>4 DEF RestoreTask, IInv, TypeOK
<1>6. BoardShape' /\ CreateShape'
  BY <1>1, <1>2, <1>4 DEF IInv, BoardShape, CreateShape
<1>7. RecordShape' /\ PointerShape'
  BY <1>2 DEF IInv, RecordShape, PointerShape
<1>8. MemShape' /\ MemPointer'
  BY <1>1, <1>2, <1>3 DEF IInv, MemShape, MemPointer
<1>9. PointerBoard'
  BY <1>1, <1>2, <1>4 DEF IInv, PointerBoard, GitAnswers
<1> QED BY <1>2, <1>5, <1>6, <1>7, <1>8, <1>9 DEF IInv

----------------------------------------------------------------------------
(* The theorems.                                                           *)

\* Nothing exists at the start.
LEMMA InitIInv == Init => IInv
<1> SUFFICES ASSUME Init PROVE IInv
  OBVIOUS
<1>1. TypeOK
  BY BoardAssumption, NoJobType DEF Init, TypeOK, NoTask, TaskRec, Status, NoLease, LeaseRec,
     NoPointer, PointerRec, NoCreation, Creation, Version
<1>2. BoardShape /\ CreateShape /\ RecordShape /\ PointerShape /\ MemShape /\ MemPointer
      /\ PointerBoard
  BY DEF Init, NoTask, NoLease, NoPointer, NoCreation, BoardShape, CreateShape, RecordShape,
     PointerShape, MemShape, MemPointer, PointerBoard, GitAnswers
<1>3. JobShape /\ JobFacts
  BY DEF Init, NoJob, JobShape, JobFacts, ClaimFacts, RegisterFacts, AttachFacts, FinishFacts,
     RestoreFacts, Claiming, Attaching, Finishing, Restoring
<1> QED BY <1>1, <1>2, <1>3 DEF IInv

\* Every write of an operation that holds the lock keeps the invariant.
LEMMA AdvanceStep ==
    ASSUME IInv, NEW p \in Procs, Advance(p)
    PROVE  IInv'
BY RecoverKeepStep, RecoverDropStep, ClaimPrepareStep, ClaimRefuseStep, ClaimWorktreeStep,
   RegisterRecordStep, RegisterPointerStep, AttachRecordStep, AttachPointerStep, PublishStep,
   ClaimUndoStep, FinishRecordStep, FinishPointerStep, CompleteCommitStep,
   IntegrateCompleteStep, TakeRecordStep, TakePointerStep, RestoreTaskStep, CreateSaveStep
   DEF Advance

\* So does everything an agent may start.
LEMMA ActStep ==
    ASSUME IInv, NEW p \in Procs, NEW a \in Agents, Act(p, a)
    PROVE  IInv'
BY ClaimBeginStep, RestoreBeginStep, EndRunStep, CompleteBeginStep, IntegrateStep, WorkStep
   DEF Act

\* So does every step.
LEMMA NextIInv ==
    ASSUME IInv, [Next]_vars
    PROVE  IInv'
<1>1. CASE Next
  <2>1. CASE \E p \in Procs : Start(p) \/ Crash(p) \/ Advance(p)
    BY <2>1, StartStep, CrashStep, AdvanceStep
  <2>2. CASE \E p \in Procs, deps \in SUBSET Tasks : CreateReserve(p, deps)
    BY <2>2, CreateReserveStep
  <2>3. CASE \E p \in Procs, a \in Agents : Act(p, a)
    BY <2>3, ActStep
  <2>4. CASE \E p \in Procs, t \in Tasks : RemoveWorktree(p, t) \/ ShellWrites(p, t) \/ EndShell(p, t)
    BY <2>4, DetachedStep
  <2>5. CASE \E t \in Tasks : UserEdit(t) \/ UserRevert(t)
    BY <2>5, UserStep
  <2> QED BY <1>1, <2>1, <2>2, <2>3, <2>4, <2>5 DEF Next
<1>2. CASE UNCHANGED vars
  <2>1. TypeOK' /\ UNCHANGED <<board, hwm, creating, records, pointer, mem, job>>
    BY <1>2 DEF vars, IInv, TypeOK
  <2> QED BY <2>1, Frame
<1> QED BY <1>1, <1>2

\* Two different leases that can write would be the active copies of two
\* agents, both of which own the task.
LEMMA ExclusiveFromIInv == GitAnswers /\ IInv => ExclusiveWriter
<1> SUFFICES ASSUME GitAnswers, IInv, NEW p \in Procs, NEW q \in Procs,
                    NEW a \in Agents, NEW b \in Agents,
                    NEW t \in Tasks, CanWrite(p, a, t), CanWrite(q, b, t)
             PROVE  p = q /\ a = b
  BY DEF ExclusiveWriter
<1> DEFINE l == mem[p][a]
           m == mem[q][b]
<1>1. /\ l \in Leases /\ records[l].status = "active" /\ records[l].gen = p
      /\ records[l].task = t /\ records[l].agent = a
      /\ m \in Leases /\ records[m].status = "active" /\ records[m].gen = q
      /\ records[m].task = t /\ records[m].agent = b
  BY DEF CanWrite, Valid, IInv, TypeOK
<1>2. /\ pointer[a].status = "active" /\ pointer[a].id = l
      /\ pointer[b].status = "active" /\ pointer[b].id = m
  BY <1>1 DEF CanWrite, IInv, MemPointer
<1>3. board[t].owner = a /\ board[t].owner = b
  BY <1>1, <1>2 DEF IInv, PointerBoard, GitAnswers
<1>4. l = m
  BY <1>2, <1>3
<1> QED BY <1>1, <1>3, <1>4

\* The invariant is inductive, whatever git answers.
THEOREM Invariance == Spec => []IInv
<1>1. Init => IInv
  BY InitIInv
<1>2. IInv /\ [Next]_vars => IInv'
  BY NextIInv
<1> QED BY <1>1, <1>2, PTL DEF Spec

\* Every task file, lease, binding and lock keeps its shape, for any number of
\* agents, processes, tasks and leases.
THEOREM TypeCorrect == Spec => []TypeOK
<1>1. IInv => TypeOK
  BY DEF IInv
<1> QED BY <1>1, Invariance, PTL

\* requireWritableWorkspace lets one agent of one process into a worktree,
\* whatever claims, restores, completions and crashes came before.
THEOREM WritersAreExclusive ==
    ASSUME GitAnswers
    PROVE  Spec => []ExclusiveWriter
<1>1. IInv => ExclusiveWriter
  BY ExclusiveFromIInv
<1> QED BY <1>1, Invariance, PTL

----------------------------------------------------------------------------
(* What a restore finds, whatever git answers.                             *)

\* A task keeps the lease it was published with.
BindingFacts ==
    \A t \in Tasks : board[t].status \in {"in_progress", "ready_for_review", "completed"} =>
        LET r == records[board[t].binding]
        IN r.status # "unused" /\ r.task = t /\ r.agent = board[t].owner

LeaseFacts == BindingFacts /\ LeaseReachable

RInv == IInv /\ LeaseFacts

\* The leases, as the other tables see them.
SameLeases ==
    /\ \A a \in Agents : pointer'[a].status = pointer[a].status /\ pointer'[a].id = pointer[a].id
    /\ \A l \in Leases : /\ records'[l].status = records[l].status
                         /\ records'[l].task = records[l].task
                         /\ records'[l].agent = records[l].agent

\* What the prover needs to know of the shapes.
LEMMA Shapes ==
    ASSUME IInv
    PROVE  /\ \A t \in Tasks : /\ board[t].status = "preparing" => board[t].owner \in Agents
                               /\ board[t].status \in {"in_progress", "ready_for_review", "completed"}
                                    => board[t].owner \in Agents /\ board[t].binding \in Leases
           /\ \A a \in Agents : pointer[a].status = "active" =>
                 /\ pointer[a].id \in Leases /\ records[pointer[a].id].task \in Tasks
                 /\ records[pointer[a].id].status # "unused" /\ records[pointer[a].id].agent = a
           /\ \A p \in Procs, a \in Agents : mem[p][a] # None =>
                 /\ mem[p][a] \in Leases /\ records[mem[p][a]].task \in Tasks
                 /\ records[mem[p][a]].status # "unused" /\ records[mem[p][a]].agent = a
<1>1. \A p \in Procs, a \in Agents : mem[p][a] # None => mem[p][a] \in Leases
  BY DEF IInv, TypeOK
<1> QED BY <1>1 DEF IInv, BoardShape, PointerShape, RecordShape, MemShape

\* No task and no lease changes.
LEMMA KeepReach ==
    ASSUME RInv, SameLeases, UNCHANGED board
    PROVE  LeaseFacts'
BY Shapes DEF RInv, LeaseFacts, BindingFacts, LeaseReachable, SameLeases

LEMMA StillReach ==
    ASSUME RInv, UNCHANGED <<board, records, pointer>>
    PROVE  LeaseFacts'
<1>1. SameLeases
  BY DEF SameLeases
<1> QED BY <1>1, KeepReach

\* A task that is pending or being prepared has no lease yet.
LEMMA UnboundReach ==
    ASSUME RInv, NEW t \in Tasks, \A s \in Tasks : s # t => board'[s] = board[s],
           board'[t].status \in {"pending", "preparing"}, UNCHANGED <<records, pointer>>
    PROVE  LeaseFacts'
BY Shapes DEF RInv, LeaseFacts, BindingFacts, LeaseReachable

\* A task is recorded to be in progress under the lease its owner's copy names.
LEMMA HoldReach ==
    ASSUME RInv, NEW t \in Tasks, NEW l \in Leases, NEW o \in Agents,
           pointer[o].status = "active", pointer[o].id = l, records[l].task = t,
           \A s \in Tasks : s # t => board'[s] = board[s],
           board'[t] = board[t] \/
              (board'[t].status = "in_progress" /\ board'[t].binding = l /\ board'[t].owner = o),
           UNCHANGED <<records, pointer>>
    PROVE  LeaseFacts'
<1>1. records[l].agent = o /\ records[l].status # "unused"
  BY Shapes DEF RInv
<1> QED BY <1>1 DEF RInv, LeaseFacts, BindingFacts, LeaseReachable

\* Linking a record or a copy to the task leaves the leases as they are.
LEMMA AttachReach ==
    ASSUME RInv, NEW p \in Procs, AttachRecord(p) \/ AttachPointer(p) \/ TakePointer(p)
    PROVE  LeaseFacts'
<1>0. IInv
  BY DEF RInv
<1>1. UNCHANGED board
  BY DEF AttachRecord, AttachPointer, TakePointer
<1>2. CASE AttachRecord(p)
  <2>1. job.l \in Leases
    BY <1>0, <1>2 DEF AttachRecord, Running, IInv, JobShape, Attaching
  <2> DEFINE r == [records[job.l] EXCEPT !.linked = TRUE]
  <2>2. r.status = records[job.l].status /\ r.task = records[job.l].task
        /\ r.agent = records[job.l].agent
    <3>1. records[job.l] \in LeaseRec
      BY <1>0, <2>1, Types
    <3> QED BY <3>1 DEF LeaseRec
  <2>3. records' = [records EXCEPT ![job.l] = r] /\ pointer' = pointer
    BY <1>0, <1>2, <2>1 DEF AttachRecord, IInv, TypeOK
  <2> HIDE DEF r
  <2>4. SameLeases
    BY <1>0, <2>1, <2>2, <2>3 DEF SameLeases, IInv, TypeOK
  <2> QED BY <1>1, <2>4, KeepReach
<1>3. CASE AttachPointer(p) \/ TakePointer(p)
  <2>1. PICK a \in Agents : \/ pointer' = [pointer EXCEPT ![a].linked = TRUE]
                            \/ pointer' = [pointer EXCEPT ![a].gen = p]
    BY <1>0, <1>3 DEF AttachPointer, TakePointer, Running, IInv, JobShape, RecordShape, Attaching
  <2>2. pointer[a] \in PointerRec
    BY <1>0, Types
  <2>3. PICK r : /\ pointer' = [pointer EXCEPT ![a] = r]
                 /\ r.status = pointer[a].status /\ r.id = pointer[a].id
    <3> DEFINE r == [pointer[a] EXCEPT !.linked = TRUE]
               q == [pointer[a] EXCEPT !.gen = p]
    <3>1. /\ r.status = pointer[a].status /\ r.id = pointer[a].id
          /\ q.status = pointer[a].status /\ q.id = pointer[a].id
      BY <2>2 DEF PointerRec
    <3>2. pointer' = [pointer EXCEPT ![a] = r] \/ pointer' = [pointer EXCEPT ![a] = q]
      BY <1>0, <2>1 DEF IInv, TypeOK
    <3> HIDE DEF r, q
    <3> QED BY <3>1, <3>2
  <2>4. records' = records
    BY <1>3 DEF AttachPointer, TakePointer
  <2>5. SameLeases
    BY <1>0, <2>3, <2>4 DEF SameLeases, IInv, TypeOK
  <2> QED BY <1>1, <2>5, KeepReach
<1> QED BY <1>2, <1>3

\* The record comes back to life for the agent whose copy is still active.
LEMMA TakeRecordReach ==
    ASSUME RInv, NEW p \in Procs, TakeRecord(p)
    PROVE  LeaseFacts'
<1>0. IInv
  BY DEF RInv
<1>1. PICK l \in Leases, a \in Agents :
      /\ l = job.l /\ a = job.a
      /\ records[l].status # "unused" /\ records[l].agent = a
      /\ pointer[a].status = "active" /\ pointer[a].id = l
  BY <1>0 DEF TakeRecord, Running, IInv, JobShape, PointerShape, JobFacts, RestoreFacts, Restoring
<1> DEFINE r == [records[l] EXCEPT !.status = "active", !.gen = p, !.linked = pointer[a].linked]
<1>2. r.status = "active" /\ r.task = records[l].task /\ r.agent = a
  <2>1. records[l] \in LeaseRec
    BY <1>0, Types
  <2> QED BY <1>1, <2>1 DEF LeaseRec
<1>3. records' = [records EXCEPT ![l] = r]
  BY <1>0, <1>1 DEF TakeRecord, IInv, TypeOK
<1> HIDE DEF r
<1>4. /\ \A m \in Leases : /\ m # l => records'[m] = records[m]
                           /\ records'[m].task = records[m].task
                           /\ records'[m].agent = records[m].agent
      /\ records'[l].status = "active"
  BY <1>0, <1>1, <1>2, <1>3 DEF IInv, TypeOK
<1>5. UNCHANGED <<board, pointer>>
  BY DEF TakeRecord
<1> QED BY <1>0, <1>1, <1>4, <1>5, Shapes DEF RInv, LeaseFacts, BindingFacts, LeaseReachable

\* No task names the new record.
LEMMA RegisterRecordReach ==
    ASSUME RInv, NEW p \in Procs, NEW l \in Leases, RegisterRecord(p, l)
    PROVE  LeaseFacts'
<1>1. records[l].status = "unused" /\ \A m \in Leases : m # l => records'[m] = records[m]
  BY DEF RegisterRecord, FreshLease, RInv, IInv, TypeOK
<1>2. UNCHANGED <<board, pointer>>
  BY DEF RegisterRecord
<1> QED BY <1>1, <1>2, Shapes DEF RInv, LeaseFacts, BindingFacts, LeaseReachable

\* The copy that is overwritten had ended, so no task in progress was to be found
\* through it.
LEMMA RegisterPointerReach ==
    ASSUME RInv, NEW p \in Procs, RegisterPointer(p)
    PROVE  LeaseFacts'
<1>0. IInv
  BY DEF RInv
<1>1. PICK a \in Agents : a = job.a /\ pointer[a].status # "active"
  BY <1>0 DEF RegisterPointer, Running, IInv, JobShape, JobFacts, RegisterFacts
<1>2. \A b \in Agents : b # a => pointer'[b] = pointer[b]
  BY <1>0, <1>1 DEF RegisterPointer, IInv, TypeOK
<1>3. UNCHANGED <<board, records>>
  BY DEF RegisterPointer
<1> QED BY <1>0, <1>1, <1>2, <1>3, Shapes DEF RInv, LeaseFacts, BindingFacts, LeaseReachable

\* The record ends before the copy does.
LEMMA FinishRecordReach ==
    ASSUME RInv, NEW p \in Procs, FinishRecord(p)
    PROVE  LeaseFacts'
<1>0. IInv
  BY DEF RInv
<1>1. PICK l \in Leases : l = job.l
  BY <1>0 DEF FinishRecord, Running, IInv, JobShape, Finishing
<1> DEFINE r == [records[l] EXCEPT !.status = LeaseEnd(job.to)]
<1>2. r.status \in {"review", "closed"} /\ r.task = records[l].task /\ r.agent = records[l].agent
  <2>1. records[l] \in LeaseRec
    BY <1>0, Types
  <2> QED BY <2>1 DEF LeaseRec, LeaseEnd
<1>3. records' = [records EXCEPT ![l] = r]
  BY <1>0, <1>1 DEF FinishRecord, IInv, TypeOK
<1> HIDE DEF r
<1>4. /\ \A m \in Leases : /\ m # l => records'[m] = records[m]
                           /\ records'[m].task = records[m].task
                           /\ records'[m].agent = records[m].agent
      /\ records'[l].status \in {"review", "closed"}
  BY <1>0, <1>1, <1>2, <1>3 DEF IInv, TypeOK
<1>5. UNCHANGED <<board, pointer>>
  BY DEF FinishRecord
<1> QED BY <1>0, <1>1, <1>4, <1>5, Shapes DEF RInv, LeaseFacts, BindingFacts, LeaseReachable

LEMMA FinishPointerReach ==
    ASSUME RInv, NEW p \in Procs, FinishPointer(p)
    PROVE  LeaseFacts'
<1>0. IInv
  BY DEF RInv
<1>1. PICK l \in Leases, o \in Agents :
      l = job.l /\ o = records[l].agent /\ records[l].status \in {"review", "closed"}
  BY <1>0, Shapes DEF FinishPointer, Running, IInv, JobShape, RecordShape, JobFacts, FinishFacts,
     Finishing
<1>2. \A a \in Agents : a # o \/ pointer[o].id # l => pointer'[a] = pointer[a]
  BY <1>0, <1>1 DEF FinishPointer, IInv, TypeOK
<1>3. UNCHANGED <<board, records>>
  BY DEF FinishPointer
<1> QED BY <1>0, <1>1, <1>2, <1>3, Shapes DEF RInv, LeaseFacts, BindingFacts, LeaseReachable

\* Steps that write a task file.
LEMMA BoardReach ==
    ASSUME RInv, NEW p \in Procs, NEW t \in Tasks,
           RecoverDrop(p, t) \/ ClaimPrepare(p, t)
    PROVE  LeaseFacts'
<1>0. board \in [Tasks -> TaskRec]
  BY DEF RInv, IInv, TypeOK
<1>1. UNCHANGED <<records, pointer>>
  BY DEF RecoverDrop, ClaimPrepare
<1>2. CASE UNCHANGED board
  BY <1>1, <1>2, StillReach
<1>3. CASE board' = [board EXCEPT ![t].status = "pending", ![t].owner = None, ![t].pid = None]
  <2>1. board'[t].status = "pending" /\ \A s \in Tasks : s # t => board'[s] = board[s]
    BY <1>0, <1>3 DEF TaskRec
  <2> QED BY <1>1, <2>1, UnboundReach
<1>4. CASE ClaimPrepare(p, t)
  <2>1. board'[t].status = "preparing" /\ \A s \in Tasks : s # t => board'[s] = board[s]
    BY <1>0, <1>4 DEF ClaimPrepare, TaskRec
  <2> QED BY <1>1, <2>1, UnboundReach
<1> QED BY <1>2, <1>3, <1>4 DEF RecoverDrop

LEMMA UndoReach ==
    ASSUME RInv, NEW p \in Procs, ClaimUndo(p)
    PROVE  LeaseFacts'
<1>0. board \in [Tasks -> TaskRec]
  BY DEF RInv, IInv, TypeOK
<1>1. PICK t \in Tasks : t = job.t
  BY DEF ClaimUndo, Running, RInv, IInv, JobShape
<1>2. board'[t].status = "pending" /\ \A s \in Tasks : s # t => board'[s] = board[s]
  BY <1>0, <1>1 DEF ClaimUndo, TaskRec
<1> QED BY <1>1, <1>2, UnboundReach DEF ClaimUndo

LEMMA CreateReach ==
    ASSUME RInv, NEW p \in Procs, CreateSave(p)
    PROVE  LeaseFacts'
<1>0. board \in [Tasks -> TaskRec]
  BY DEF RInv, IInv, TypeOK
<1>1. PICK n \in Tasks : n = creating.t
  BY BoardAssumption DEF CreateSave, RInv, IInv, CreateShape, TypeOK, Procs
<1>2. board' = [board EXCEPT ![n] = [NoTask EXCEPT !.status = "pending", !.deps = creating.deps]]
  BY <1>1 DEF CreateSave
<1>3. board'[n].status = "pending" /\ \A s \in Tasks : s # n => board'[s] = board[s]
  BY <1>0, <1>2 DEF NoTask
<1> QED BY <1>3, UnboundReach DEF CreateSave

LEMMA PublishReach ==
    ASSUME RInv, NEW p \in Procs, Publish(p)
    PROVE  LeaseFacts'
<1>0. IInv /\ board \in [Tasks -> TaskRec]
  BY DEF RInv, IInv, TypeOK
<1>1. PICK t \in Tasks, l \in Leases, o \in Agents :
      /\ t = job.t /\ l = job.l /\ board[t].owner = o
      /\ pointer[o].status = "active" /\ pointer[o].id = l /\ records[l].task = t
  BY <1>0, Shapes DEF Publish, Running, IInv, JobShape, JobFacts, AttachFacts, Attaching
<1>2. UNCHANGED <<records, pointer>>
  BY DEF Publish
<1>3. /\ board'[t].status = "in_progress" /\ board'[t].binding = l /\ board'[t].owner = o
      /\ \A s \in Tasks : s # t => board'[s] = board[s]
  BY <1>0, <1>1 DEF Publish, TaskRec
<1> QED BY <1>1, <1>2, <1>3, HoldReach

\* A restore records the task to be in progress only if it is still the agent's.
LEMMA RestoreReach ==
    ASSUME RInv, NEW p \in Procs, RestoreTask(p)
    PROVE  LeaseFacts'
<1>0. IInv /\ board \in [Tasks -> TaskRec]
  BY DEF RInv, IInv, TypeOK
<1>1. PICK l \in Leases, a \in Agents, t \in Tasks :
      /\ l = job.l /\ a = job.a /\ t = job.t /\ records[l].task = t
      /\ pointer[a].status = "active" /\ pointer[a].id = l
  BY <1>0 DEF RestoreTask, Running, IInv, JobShape, JobFacts, RestoreFacts, Restoring
<1>2. UNCHANGED <<records, pointer>>
  BY DEF RestoreTask
<1>3. CASE board' = board
  BY <1>2, <1>3, StillReach
<1>4. CASE /\ StillAssigned(t, a, l)
           /\ board' = [board EXCEPT ![t].status = "in_progress", ![t].binding = l, ![t].pid = None]
  <2>1. /\ board'[t].status = "in_progress" /\ board'[t].binding = l /\ board'[t].owner = a
        /\ \A s \in Tasks : s # t => board'[s] = board[s]
    BY <1>0, <1>4 DEF StillAssigned, TaskRec
  <2> QED BY <1>1, <1>2, <2>1, HoldReach
<1> QED BY <1>1, <1>3, <1>4 DEF RestoreTask

LEMMA CommitReach ==
    ASSUME RInv, NEW p \in Procs, CompleteCommit(p)
    PROVE  LeaseFacts'
<1>0. IInv /\ board \in [Tasks -> TaskRec]
  BY DEF RInv, IInv, TypeOK
<1>1. PICK t \in Tasks, to \in {"ready_for_review", "completed"}, art \in {job.art} :
      /\ t = job.t /\ to = job.to /\ art = job.art
      /\ board[t].status \in {"in_progress", "ready_for_review"}
  BY <1>0 DEF CompleteCommit, Running, IInv, JobShape, JobFacts, FinishFacts, Finishing
<1>2. UNCHANGED <<records, pointer>>
  BY DEF CompleteCommit
<1>3. /\ board'[t].status = to /\ board'[t].owner = board[t].owner
      /\ board'[t].binding = board[t].binding
      /\ \A s \in Tasks : s # t => board'[s] = board[s]
  <2>1. board[t] \in TaskRec
    BY <1>0
  <2>2. board' = [board EXCEPT ![t] = [board[t] EXCEPT !.status = to, !.art = art]]
    BY <1>0, <1>1 DEF CompleteCommit
  <2> QED BY <1>0, <2>1, <2>2 DEF TaskRec
<1> QED BY <1>1, <1>2, <1>3 DEF RInv, LeaseFacts, BindingFacts, LeaseReachable

LEMMA AdvanceReach ==
    ASSUME RInv, NEW p \in Procs, Advance(p)
    PROVE  LeaseFacts'
<1>1. CASE (\E t \in Tasks : RecoverKeep(p, t)) \/ ClaimRefuse(p) \/ ClaimWorktree(p)
           \/ RegisterRefuse(p) \/ IntegrateComplete(p)
  <2>1. UNCHANGED <<board, records, pointer>>
    BY <1>1 DEF RecoverKeep, ClaimRefuse, ClaimWorktree, RegisterRefuse, IntegrateComplete
  <2> QED BY <2>1, StillReach
<1> QED BY <1>1, BoardReach, UndoReach, CreateReach, PublishReach, RestoreReach, CommitReach,
           AttachReach, TakeRecordReach, RegisterRecordReach, RegisterPointerReach,
           FinishRecordReach, FinishPointerReach
        DEF Advance

LEMMA ActReach ==
    ASSUME RInv, NEW p \in Procs, NEW a \in Agents, Act(p, a)
    PROVE  LeaseFacts'
<1>1. UNCHANGED <<board, records, pointer>>
  BY DEF Act, ClaimBegin, RestoreBegin, EndRun, CompleteBegin, Integrate, Edit, StartShell,
         StartChild, FinishChild
<1> QED BY <1>1, StillReach

LEMMA NextRInv ==
    ASSUME RInv, [Next]_vars
    PROVE  RInv'
<1>0. IInv'
  BY NextIInv DEF RInv
<1> SUFFICES LeaseFacts'
  BY <1>0 DEF RInv
<1>1. CASE \E p \in Procs : Advance(p)
  BY <1>1, AdvanceReach
<1>2. CASE \E p \in Procs, a \in Agents : Act(p, a)
  BY <1>2, ActReach
<1>3. CASE \/ \E p \in Procs : Start(p) \/ Crash(p)
           \/ \E p \in Procs, deps \in SUBSET Tasks : CreateReserve(p, deps)
           \/ \E p \in Procs, t \in Tasks :
                 RemoveWorktree(p, t) \/ ShellWrites(p, t) \/ EndShell(p, t)
           \/ \E t \in Tasks : UserEdit(t) \/ UserRevert(t)
           \/ UNCHANGED vars
  <2>1. UNCHANGED <<board, records, pointer>>
    BY <1>3 DEF Start, Crash, CreateReserve, RemoveWorktree, ShellWrites, EndShell, UserEdit,
                UserRevert, vars
  <2> QED BY <2>1, StillReach
<1> QED BY <1>1, <1>2, <1>3 DEF Next

LEMMA InitRInv == Init => RInv
BY InitIInv DEF Init, NoTask, RInv, LeaseFacts, BindingFacts, LeaseReachable

\* Every reachable state satisfies the invariant with these facts, whatever git answers.
THEOREM RestoreInvariance == Spec => []RInv
<1>1. Init => RInv
  BY InitRInv
<1>2. RInv /\ [Next]_vars => RInv'
  BY NextRInv
<1> QED BY <1>1, <1>2, PTL DEF Spec

\* restoreAgentWorkspace: the owner of a task in progress finds its active lease
\* again through its own copy, whatever crashed in the middle of which write, and
\* if git failed in the middle of a registration.
THEOREM LeasesAreReachable == Spec => []LeaseReachable
<1>1. RInv => LeaseReachable
  BY DEF RInv, LeaseFacts
<1> QED BY <1>1, RestoreInvariance, PTL

----------------------------------------------------------------------------
(* The wider inductive invariant.                                          *)

\* A lease on the task was published, so its worktree was handed out.
Opened(t) ==
    \/ board[t].status \in {"in_progress", "ready_for_review", "completed"}
    \/ board[t].status = "preparing" /\ Published(t)

\* Before that, nobody has been in the worktree.
Untouched ==
    \A t \in Tasks : ~Opened(t) =>
        work[t] \in {None, 0} /\ shells[t] = {} /\ children[t] = {}

\* A binding, even one that cannot write any more, is to a published lease.
MemOpened ==
    \A p \in Procs, a \in Agents, t \in Tasks :
        mem[p][a] # None /\ records[mem[p][a]].task = t => Opened(t)

\* The worktree stays until the task is completed; only then is it removed.
TreesExist ==
    /\ \A t \in Tasks : Opened(t) /\ board[t].status # "completed" => work[t] # None
    /\ \A p \in Procs : \A t \in cleanup[p] : board[t].status = "completed"

\* Dependencies exist before the task does.
CreateDeps ==
    creating.p # None => \A d \in creating.deps : board[d].status # "absent"

\* Between its plan and its commit, a delivery is still what the worktree holds.
DeliveryFacts ==
    /\ job.step \in {"record", "pointer"} => work[job.t] # None
    /\ job.step \in Finishing =>
          /\ shells[job.t] = {} /\ children[job.t] = {}
          /\ job.art = work[job.t]
          /\ job.to = "completed" => job.art = 0 \/ main[job.t] = job.art

TreeFacts == DeliveredFrozen /\ Untouched /\ TreesExist

LInv == GitAnswers /\ RInv /\ MemOpened /\ TreeFacts /\ CreateDeps /\ DeliveryFacts

----------------------------------------------------------------------------
(* What a step leaves alone.                                               *)

\* An active copy is the publication of its lease.
LEMMA ActiveOpened ==
    ASSUME GitAnswers, IInv, NEW a \in Agents, pointer[a].status = "active"
    PROVE  Opened(records[pointer[a].id].task)
<1>1. PICK t \in Tasks : t = records[pointer[a].id].task
  BY Shapes
<1>2. board[t].owner = a /\ board[t].status \in {"preparing", "in_progress"}
  BY <1>1 DEF IInv, PointerBoard
<1> QED BY <1>1, <1>2 DEF Opened, Published

\* Whoever can write in a worktree holds the task.
LEMMA WriterHolds ==
    ASSUME GitAnswers, IInv, NEW p \in Procs, NEW a \in Agents, mem[p][a] # None,
           Valid(mem[p][a], p, TRUE)
    PROVE  board[records[mem[p][a]].task].status \in {"preparing", "in_progress"}
<1>1. PICK l \in Leases, t \in Tasks : l = mem[p][a] /\ t = records[l].task
  BY Shapes
<1>2. pointer[a].status = "active" /\ pointer[a].id = l
  BY <1>1 DEF Valid, IInv, MemPointer
<1> QED BY <1>1, <1>2 DEF IInv, PointerBoard

LEMMA SameOpened ==
    ASSUME IInv, SameLeases,
           \A t \in Tasks : board'[t].status = board[t].status /\ board'[t].owner = board[t].owner
    PROVE  \A t \in Tasks : Opened(t)' <=> Opened(t)
BY Shapes DEF SameLeases, Opened, Published

\* No task and no lease changes; bindings may go.
LEMMA KeepLeases ==
    ASSUME LInv, SameLeases, UNCHANGED board,
           \A p \in Procs, a \in Agents : mem'[p][a] \in {mem[p][a], None}
    PROVE  MemOpened' /\ \A t \in Tasks : Opened(t)' <=> Opened(t)
<1>1. IInv /\ MemOpened
  BY DEF LInv, RInv
<1>2. \A t \in Tasks : Opened(t)' <=> Opened(t)
  BY <1>1, SameOpened
<1>3. MemOpened'
  <2> SUFFICES ASSUME NEW p \in Procs, NEW a \in Agents, NEW t \in Tasks,
                      mem'[p][a] # None, records'[mem'[p][a]].task = t
               PROVE  Opened(t)'
    BY DEF MemOpened
  <2>1. mem[p][a] # None /\ mem[p][a] \in Leases /\ mem'[p][a] = mem[p][a]
    BY <1>1, Shapes
  <2>2. records[mem[p][a]].task = t
    BY <2>1 DEF SameLeases
  <2>3. Opened(t)
    BY <1>1, <2>1, <2>2 DEF MemOpened
  <2> QED BY <1>2, <2>3
<1> QED BY <1>2, <1>3

\* No worktree changes.
LEMMA KeepTrees ==
    ASSUME LInv, \A t \in Tasks : Opened(t)' <=> Opened(t),
           UNCHANGED <<board, work, shells, children>>,
           \A p \in Procs : cleanup'[p] \subseteq cleanup[p]
    PROVE  TreeFacts'
<1>1. DeliveredFrozen'
  BY DEF LInv, TreeFacts, DeliveredFrozen, Quiescent
<1>2. Untouched' /\ TreesExist'
  BY DEF LInv, TreeFacts, Untouched, TreesExist
<1> QED BY <1>1, <1>2 DEF TreeFacts

\* Both, as in most steps of an operation that holds the lock.
LEMMA KeepAll ==
    ASSUME LInv, RInv', SameLeases, UNCHANGED <<board, work, shells, children>>,
           \A p \in Procs : cleanup'[p] \subseteq cleanup[p],
           \A p \in Procs, a \in Agents : mem'[p][a] \in {mem[p][a], None},
           creating' = creating \/ creating' = NoCreation, DeliveryFacts'
    PROVE  LInv'
<1>1. MemOpened' /\ TreeFacts'
  BY KeepLeases, KeepTrees
<1>2. CreateDeps'
  BY DEF LInv, CreateDeps, NoCreation
<1> QED BY <1>1, <1>2 DEF LInv

\* Nothing is about to be delivered.
LEMMA NoDelivery ==
    ASSUME job'.step \notin Finishing \cup {"record", "pointer"}
    PROVE  DeliveryFacts'
BY DEF DeliveryFacts

----------------------------------------------------------------------------
(* Steps that only take, pass on or drop the lock, or end processes.       *)

LEMMA StartLife == ASSUME LInv, RInv', NEW p \in Procs, Start(p) PROVE LInv'
<1>1. UNCHANGED <<board, hwm, creating, records, pointer, mem, work, shells, children, main,
                  cleanup, job>>
  BY DEF Start
<1>2. SameLeases /\ DeliveryFacts'
  BY <1>1 DEF SameLeases, LInv, DeliveryFacts
<1> QED BY <1>1, <1>2, KeepAll

LEMMA CrashLife == ASSUME LInv, RInv', NEW p \in Procs, Crash(p) PROVE LInv'
<1>1. UNCHANGED <<board, hwm, records, pointer, work, shells, children, main>>
      /\ job' \in {job, NoJob} /\ (creating' = creating \/ creating' = NoCreation)
  BY DEF Crash
<1>2. DeliveryFacts'
  BY <1>1 DEF LInv, DeliveryFacts, NoJob, Finishing
<1>3. /\ \A q \in Procs, a \in Agents : mem'[q][a] \in {mem[q][a], None}
      /\ \A q \in Procs : cleanup'[q] \subseteq cleanup[q]
  BY DEF Crash, LInv, RInv, IInv, TypeOK
<1>4. SameLeases
  BY <1>1 DEF SameLeases
<1> QED BY <1>1, <1>2, <1>3, <1>4, KeepAll

LEMMA EndRunLife ==
    ASSUME LInv, RInv', NEW p \in Procs, NEW a \in Agents, EndRun(p, a)
    PROVE  LInv'
<1>1. UNCHANGED <<board, hwm, creating, records, pointer, work, shells, children, main,
                  cleanup, job>>
  BY DEF EndRun
<1>2. \A q \in Procs, b \in Agents : mem'[q][b] \in {mem[q][b], None}
  BY DEF EndRun, LInv, RInv, IInv, TypeOK
<1>3. SameLeases /\ DeliveryFacts'
  BY <1>1 DEF SameLeases, LInv, DeliveryFacts
<1> QED BY <1>1, <1>2, <1>3, KeepAll

\* The job moves on; nothing else does.
LEMMA JobOnly ==
    ASSUME LInv, RInv', DeliveryFacts',
           UNCHANGED <<board, creating, records, pointer, mem, work, shells, children, cleanup>>
    PROVE  LInv'
<1>1. SameLeases
  BY DEF SameLeases
<1> QED BY <1>1, KeepAll

LEMMA ClaimBeginLife ==
    ASSUME LInv, RInv', NEW p \in Procs, NEW a \in Agents, NEW want \in Tasks \cup {None},
           ClaimBegin(p, a, want)
    PROVE  LInv'
<1>1. job'.step = "recover"
  BY DEF ClaimBegin, NoJob
<1> QED BY <1>1, NoDelivery, JobOnly DEF ClaimBegin, Finishing

LEMMA RecoverKeepLife ==
    ASSUME LInv, RInv', NEW p \in Procs, NEW t \in Tasks, RecoverKeep(p, t)
    PROVE  LInv'
<1>1. job'.step \in {"attachRecord", "idle"}
  <2> DEFINE l == pointer[board[t].owner].id
  <2>1. \/ job' = [job EXCEPT !.step = "attachRecord", !.t = t, !.l = l, !.repair = TRUE]
        \/ job' = NoJob
    BY DEF RecoverKeep, Release
  <2> HIDE DEF l
  <2>2. job \in JobRec
    BY Types DEF LInv, RInv
  <2>3. CASE job' = [job EXCEPT !.step = "attachRecord", !.t = t, !.l = l, !.repair = TRUE]
    BY <2>2, <2>3 DEF JobRec
  <2>4. CASE job' = NoJob
    BY <2>4 DEF NoJob
  <2> QED BY <2>1, <2>3, <2>4
<1> QED BY <1>1, NoDelivery, JobOnly DEF RecoverKeep, Finishing

LEMMA ClaimRefuseLife == ASSUME LInv, RInv', NEW p \in Procs, ClaimRefuse(p) PROVE LInv'
<1>1. job'.step = "idle"
  BY DEF ClaimRefuse, Release, NoJob
<1> QED BY <1>1, NoDelivery, JobOnly DEF ClaimRefuse, Finishing

LEMMA RegisterRefuseLife == ASSUME LInv, RInv', NEW p \in Procs, RegisterRefuse(p) PROVE LInv'
<1>1. job'.step = "undo"
  BY Types DEF LInv, RInv, RegisterRefuse, Goto, JobRec
<1> QED BY <1>1, NoDelivery, JobOnly DEF RegisterRefuse, Finishing

LEMMA RestoreBeginLife ==
    ASSUME LInv, RInv', NEW p \in Procs, NEW a \in Agents, RestoreBegin(p, a)
    PROVE  LInv'
<1>1. job'.step \in {"restoreTask", "takeRecord"}
  BY DEF RestoreBegin, NoJob
<1> QED BY <1>1, NoDelivery, JobOnly DEF RestoreBegin, Finishing

LEMMA IntegrateLife ==
    ASSUME LInv, RInv', NEW p \in Procs, NEW a \in Agents, NEW t \in Tasks, Integrate(p, a, t)
    PROVE  LInv'
<1>1. job'.step = "complete"
  BY DEF Integrate, NoJob
<1> QED BY <1>1, NoDelivery, JobOnly DEF Integrate, Finishing

\* completeTask plans to deliver what the worktree holds, and completes a task
\* only when that is nothing, or is in the main workspace already.
LEMMA PlanFacts ==
    ASSUME LInv, NEW p \in Procs, NEW a \in Agents, NEW t \in Tasks, PlanCompletion(p, a, t),
           UNCHANGED <<work, shells, children, main>>
    PROVE  DeliveryFacts'
<1>1. board[t].status \in {"in_progress", "ready_for_review"} /\ Deliverable(t)
  BY DEF PlanCompletion
<1>2. work[t] # None
  BY <1>1 DEF LInv, TreeFacts, TreesExist, Opened
<1> DEFINE art == work[t]
           to == IF art \notin {None, 0} /\ main[t] # art THEN "ready_for_review" ELSE "completed"
<1>3. job' = [NoJob EXCEPT !.step = "finishRecord", !.p = p, !.a = a, !.t = t,
                           !.l = board[t].binding, !.to = to, !.art = art]
  BY <1>2 DEF PlanCompletion
<1>4. /\ job'.step = "finishRecord" /\ job'.t = t /\ job'.to = to /\ job'.art = art
  BY <1>3 DEF NoJob
<1> QED BY <1>1, <1>2, <1>3, <1>4 DEF DeliveryFacts, Deliverable, Quiescent

LEMMA CompleteBeginLife ==
    ASSUME LInv, RInv', NEW p \in Procs, NEW a \in Agents, NEW t \in Tasks, CompleteBegin(p, a, t)
    PROVE  LInv'
BY PlanFacts, JobOnly DEF CompleteBegin

LEMMA IntegrateCompleteLife ==
    ASSUME LInv, RInv', NEW p \in Procs, IntegrateComplete(p)
    PROVE  LInv'
<1>1. job.t \in Tasks /\ job.a \in Agents
  BY DEF IntegrateComplete, Running, LInv, RInv, IInv, JobShape
<1>2. CASE Release
  <2>1. job'.step = "idle"
    BY <1>2 DEF Release, NoJob
  <2> QED BY <2>1, NoDelivery, JobOnly DEF IntegrateComplete, Finishing
<1>3. CASE PlanCompletion(p, job.a, job.t)
  BY <1>1, <1>3, PlanFacts, JobOnly DEF IntegrateComplete
<1> QED BY <1>2, <1>3 DEF IntegrateComplete

----------------------------------------------------------------------------
(* Steps that write a record or a copy.                                    *)

LEMMA AttachRecordLife == ASSUME LInv, RInv', NEW p \in Procs, AttachRecord(p) PROVE LInv'
<1>0. IInv
  BY DEF LInv, RInv
<1>1. job.l \in Leases
  BY <1>0 DEF AttachRecord, Running, IInv, JobShape, Attaching
<1> DEFINE r == [records[job.l] EXCEPT !.linked = TRUE]
<1>2. r.status = records[job.l].status /\ r.task = records[job.l].task
      /\ r.agent = records[job.l].agent
  <2>1. records[job.l] \in LeaseRec
    BY <1>0, <1>1, Types
  <2> QED BY <2>1 DEF LeaseRec
<1>3. records' = [records EXCEPT ![job.l] = r]
  BY <1>0, <1>1 DEF AttachRecord, IInv, TypeOK
<1> HIDE DEF r
<1>4. SameLeases
  BY <1>0, <1>1, <1>2, <1>3 DEF AttachRecord, SameLeases, IInv, TypeOK
<1>5. job'.step = "attachPointer"
  BY <1>0, Types DEF AttachRecord, Goto, JobRec
<1> QED BY <1>4, <1>5, NoDelivery, KeepAll DEF AttachRecord, Finishing

LEMMA AttachPointerLife == ASSUME LInv, RInv', NEW p \in Procs, AttachPointer(p) PROVE LInv'
<1>0. IInv
  BY DEF LInv, RInv
<1>1. PICK o \in Agents : o = records[job.l].agent
  BY <1>0 DEF AttachPointer, Running, IInv, JobShape, RecordShape, Attaching
<1> DEFINE r == [pointer[o] EXCEPT !.linked = TRUE]
<1>2. r.status = pointer[o].status /\ r.id = pointer[o].id
  <2>1. pointer[o] \in PointerRec
    BY <1>0, Types
  <2> QED BY <2>1 DEF PointerRec
<1>3. pointer' = [pointer EXCEPT ![o] = r]
  BY <1>0, <1>1 DEF AttachPointer, IInv, TypeOK
<1> HIDE DEF r
<1>4. SameLeases
  BY <1>0, <1>1, <1>2, <1>3 DEF AttachPointer, SameLeases, IInv, TypeOK
<1>5. job'.step = "publish"
  BY <1>0, Types DEF AttachPointer, Goto, JobRec
<1> QED BY <1>4, <1>5, NoDelivery, KeepAll DEF AttachPointer, Finishing

LEMMA TakePointerLife == ASSUME LInv, RInv', NEW p \in Procs, TakePointer(p) PROVE LInv'
<1>0. IInv
  BY DEF LInv, RInv
<1>1. PICK a \in Agents : a = job.a
  BY <1>0 DEF TakePointer, Running, IInv, JobShape
<1> DEFINE r == [pointer[a] EXCEPT !.gen = p]
<1>2. r.status = pointer[a].status /\ r.id = pointer[a].id
  <2>1. pointer[a] \in PointerRec
    BY <1>0, Types
  <2> QED BY <2>1 DEF PointerRec
<1>3. pointer' = [pointer EXCEPT ![a] = r]
  BY <1>0, <1>1 DEF TakePointer, IInv, TypeOK
<1> HIDE DEF r
<1>4. SameLeases
  BY <1>0, <1>1, <1>2, <1>3 DEF TakePointer, SameLeases, IInv, TypeOK
<1>5. job'.step = "restoreTask"
  BY <1>0, Types DEF TakePointer, Goto, JobRec
<1> QED BY <1>4, <1>5, NoDelivery, KeepAll DEF TakePointer, Finishing

\* The record comes back to life for the agent whose copy is still active.
LEMMA TakeRecordLife == ASSUME LInv, RInv', NEW p \in Procs, TakeRecord(p) PROVE LInv'
<1>0. IInv
  BY DEF LInv, RInv
<1>1. PICK l \in Leases, a \in Agents :
      /\ l = job.l /\ a = job.a
      /\ records[l].status # "unused" /\ records[l].agent = a
      /\ pointer[a].status = "active" /\ pointer[a].id = l
  BY <1>0 DEF TakeRecord, Running, IInv, JobShape, PointerShape, JobFacts, RestoreFacts, Restoring
<1> DEFINE r == [records[l] EXCEPT !.status = "active", !.gen = p, !.linked = pointer[a].linked]
<1>2. r.status = "active" /\ r.task = records[l].task /\ r.agent = a
  <2>1. records[l] \in LeaseRec
    BY <1>0, Types
  <2> QED BY <1>1, <2>1 DEF LeaseRec
<1>3. records' = [records EXCEPT ![l] = r]
  BY <1>0, <1>1 DEF TakeRecord, IInv, TypeOK
<1> HIDE DEF r
<1>4. /\ \A m \in Leases : /\ m # l => records'[m] = records[m]
                           /\ records'[m].task = records[m].task
                           /\ records'[m].agent = records[m].agent
      /\ records'[l].status = "active"
  BY <1>0, <1>1, <1>2, <1>3 DEF IInv, TypeOK
<1>5. UNCHANGED <<board, creating, pointer, mem, work, shells, children, cleanup>>
  BY DEF TakeRecord
<1>6. \A t \in Tasks : Opened(t)' <=> Opened(t)
  BY <1>0, <1>4, <1>5, Shapes DEF Opened, Published
<1>7. MemOpened'
  BY <1>0, <1>4, <1>5, <1>6, Shapes DEF LInv, MemOpened
<1>8. TreeFacts'
  BY <1>5, <1>6, KeepTrees
<1>9. job'.step = "takePointer"
  BY <1>0, Types DEF TakeRecord, Goto, JobRec
<1> QED BY <1>5, <1>7, <1>8, <1>9, NoDelivery DEF LInv, CreateDeps, Finishing

\* Nothing names the new record.
LEMMA RegisterRecordLife ==
    ASSUME LInv, RInv', NEW p \in Procs, NEW l \in Leases, RegisterRecord(p, l)
    PROVE  LInv'
<1>0. IInv
  BY DEF LInv, RInv
<1>1. job.step = "record" /\ records[l].status = "unused"
      /\ \A m \in Leases : m # l => records'[m] = records[m]
  BY <1>0 DEF RegisterRecord, Running, FreshLease, IInv, TypeOK
<1>2. UNCHANGED <<board, creating, pointer, mem, work, shells, children, cleanup>>
  BY DEF RegisterRecord
<1>3. \A t \in Tasks : Opened(t)' <=> Opened(t)
  BY <1>0, <1>1, <1>2, Shapes DEF Opened, Published
<1>4. MemOpened'
  BY <1>0, <1>1, <1>2, <1>3, Shapes DEF LInv, MemOpened
<1>5. TreeFacts'
  BY <1>2, <1>3, KeepTrees
<1>6. job'.step = "pointer" /\ job'.t = job.t
  BY <1>0, Types DEF RegisterRecord, JobRec
<1>7. DeliveryFacts'
  BY <1>1, <1>2, <1>6 DEF LInv, DeliveryFacts, Finishing
<1> QED BY <1>2, <1>4, <1>5, <1>7 DEF LInv, CreateDeps

\* The publication of a lease: its worktree is there.
LEMMA RegisterPointerLife ==
    ASSUME LInv, RInv', NEW p \in Procs, RegisterPointer(p)
    PROVE  LInv'
<1>0. IInv
  BY DEF LInv, RInv
<1>1. PICK a \in Agents, l \in Leases, t \in Tasks :
      /\ a = job.a /\ l = job.l /\ t = job.t /\ job.step = "pointer"
      /\ records[l].agent = a /\ records[l].task = t /\ pointer[a].status # "active"
      /\ board[t].status = "preparing" /\ board[t].owner = a
  BY <1>0 DEF RegisterPointer, Running, IInv, JobShape, JobFacts, ClaimFacts, RegisterFacts, Claiming
<1>2. /\ pointer' = [pointer EXCEPT ![a] = [status |-> "active", id |-> l, gen |-> p,
                                             linked |-> FALSE]]
      /\ mem' = [mem EXCEPT ![p][a] = l]
      /\ job' = [job EXCEPT !.step = "attachRecord"]
      /\ UNCHANGED <<board, creating, records, work, shells, children, cleanup>>
  BY <1>1 DEF RegisterPointer, Goto, LInv, GitAnswers
<1>3. /\ pointer'[a].status = "active" /\ pointer'[a].id = l
      /\ \A b \in Agents : b # a => pointer'[b] = pointer[b]
  BY <1>0, <1>2 DEF IInv, TypeOK
<1>4. \A q \in Procs, b \in Agents : mem'[q][b] = mem[q][b] \/ mem'[q][b] = l
  BY <1>0, <1>2 DEF IInv, TypeOK
<1>5. Opened(t)' /\ \A s \in Tasks : /\ Opened(s) => Opened(s)'
                                     /\ s # t => (Opened(s)' => Opened(s))
  BY <1>0, <1>1, <1>2, <1>3, Shapes DEF Opened, Published
<1>6. MemOpened'
  BY <1>0, <1>1, <1>2, <1>4, <1>5, Shapes DEF LInv, MemOpened
<1>7. work[t] # None
  BY <1>1 DEF LInv, DeliveryFacts
<1>8. DeliveredFrozen' /\ Untouched' /\ TreesExist'
  BY <1>2, <1>5, <1>7 DEF LInv, TreeFacts, DeliveredFrozen, Untouched, TreesExist, Quiescent
<1>9. job'.step = "attachRecord"
  BY <1>0, <1>2, Types DEF JobRec
<1> QED BY <1>2, <1>6, <1>8, <1>9, NoDelivery
        DEF LInv, TreeFacts, CreateDeps, Finishing

\* A worktree is added for the task being claimed, unless it has one.
LEMMA ClaimWorktreeLife == ASSUME LInv, RInv', NEW p \in Procs, ClaimWorktree(p) PROVE LInv'
<1>0. IInv
  BY DEF LInv, RInv
<1>1. PICK t \in Tasks : /\ t = job.t /\ board[t].status = "preparing" /\ NoPointerOn(t)
                         /\ board[t].owner \in Agents
  BY <1>0, Shapes DEF ClaimWorktree, Running, IInv, JobShape, JobFacts, ClaimFacts, Claiming
<1>2. UNCHANGED <<board, creating, records, pointer, mem, shells, children, cleanup>>
  BY DEF ClaimWorktree
<1>3. /\ \A s \in Tasks : work'[s] = work[s] \/ (s = t /\ work'[s] = 0)
      /\ \A s \in Tasks : work[s] # None => work'[s] # None
      /\ job'.step = "undo" \/ (job'.step = "record" /\ job'.t = t /\ work'[t] # None)
  <2>1. CASE /\ work' = [work EXCEPT ![job.t] = IF @ = None THEN 0 ELSE @]
             /\ Goto("record")
    <3>1. job'.step = "record" /\ job'.t = t
      BY <1>0, <1>1, <2>1, Types DEF Goto, JobRec
    <3>2. /\ \A s \in Tasks : s # t => work'[s] = work[s]
          /\ work'[t] = IF work[t] = None THEN 0 ELSE work[t]
      BY <1>0, <1>1, <2>1 DEF IInv, TypeOK
    <3>3. 0 # None
      BY BoardAssumption
    <3> QED BY <3>1, <3>2, <3>3
  <2>2. CASE Goto("undo") /\ UNCHANGED work
    BY <1>0, <2>2, Types DEF Goto, JobRec
  <2> QED BY <2>1, <2>2 DEF ClaimWorktree
<1>4. ~Opened(t)
  BY <1>1 DEF LInv, Opened, Published, NoPointerOn
<1>5. SameLeases
  BY <1>2 DEF SameLeases
<1>6. MemOpened' /\ \A s \in Tasks : Opened(s)' <=> Opened(s)
  BY <1>2, <1>5, KeepLeases
<1>7. DeliveredFrozen'
  BY <1>1, <1>2, <1>3 DEF LInv, TreeFacts, DeliveredFrozen, Quiescent
<1>8. Untouched' /\ TreesExist'
  BY <1>2, <1>3, <1>4, <1>6 DEF LInv, TreeFacts, Untouched, TreesExist
<1>9. DeliveryFacts'
  BY <1>3 DEF DeliveryFacts, Finishing
<1> QED BY <1>2, <1>6, <1>7, <1>8, <1>9 DEF LInv, TreeFacts, CreateDeps

\* The record ends; the delivery goes on as planned.
LEMMA FinishRecordLife == ASSUME LInv, RInv', NEW p \in Procs, FinishRecord(p) PROVE LInv'
<1>0. IInv
  BY DEF LInv, RInv
<1>1. PICK l \in Leases : l = job.l /\ job.step = "finishRecord"
  BY <1>0 DEF FinishRecord, Running, IInv, JobShape, Finishing
<1> DEFINE r == [records[l] EXCEPT !.status = LeaseEnd(job.to)]
<1>2. r.status \in {"review", "closed"} /\ r.task = records[l].task /\ r.agent = records[l].agent
  <2>1. records[l] \in LeaseRec
    BY <1>0, Types
  <2> QED BY <2>1 DEF LeaseRec, LeaseEnd
<1>3. records' = [records EXCEPT ![l] = r]
  BY <1>0, <1>1 DEF FinishRecord, IInv, TypeOK
<1> HIDE DEF r
<1>4. /\ \A m \in Leases : /\ m # l => records'[m] = records[m]
                           /\ records'[m].task = records[m].task
                           /\ records'[m].agent = records[m].agent
      /\ records'[l].status \in {"review", "closed"}
  BY <1>0, <1>1, <1>2, <1>3 DEF IInv, TypeOK
<1>5. UNCHANGED <<board, creating, pointer, mem, work, shells, children, main, cleanup>>
  BY DEF FinishRecord
<1>6. \A t \in Tasks : Opened(t)' <=> Opened(t)
  BY <1>0, <1>4, <1>5, Shapes DEF Opened, Published
<1>7. MemOpened'
  BY <1>0, <1>4, <1>5, <1>6, Shapes DEF LInv, MemOpened
<1>8. TreeFacts'
  BY <1>5, <1>6, KeepTrees
<1>9. job'.step = "finishPointer" /\ job'.t = job.t /\ job'.to = job.to /\ job'.art = job.art
  BY <1>0, Types DEF FinishRecord, Goto, JobRec
<1>10. DeliveryFacts'
  BY <1>1, <1>5, <1>9 DEF LInv, DeliveryFacts, Finishing
<1> QED BY <1>5, <1>7, <1>8, <1>10 DEF LInv, CreateDeps

\* The copy that ends is on the lease of the task being delivered, and on no
\* other task.
LEMMA FinishPointerLife == ASSUME LInv, RInv', NEW p \in Procs, FinishPointer(p) PROVE LInv'
<1>0. IInv
  BY DEF LInv, RInv
<1>1. PICK l \in Leases, t \in Tasks, o \in Agents :
      /\ l = job.l /\ t = job.t /\ o = records[l].agent /\ job.step = "finishPointer"
      /\ records[l].status \in {"review", "closed"}
      /\ board[t].status \in {"in_progress", "ready_for_review"} /\ board[t].binding = l
  BY <1>0 DEF FinishPointer, Running, IInv, JobShape, RecordShape, JobFacts, FinishFacts, Finishing
<1>2. /\ \A a \in Agents : a # o \/ pointer[o].id # l => pointer'[a] = pointer[a]
      /\ pointer[o].id = l => pointer'[o].status \in {"review", "closed"}
  BY <1>0, <1>1 DEF FinishPointer, IInv, TypeOK
<1>3. \A q \in Procs, a \in Agents : mem'[q][a] \in {mem[q][a], None}
  BY <1>0, <1>1 DEF FinishPointer, IInv, TypeOK
<1>4. UNCHANGED <<board, creating, records, work, shells, children, main, cleanup>>
  BY DEF FinishPointer
<1>5. records[l].task = t
  BY <1>1 DEF LInv, RInv, LeaseFacts, BindingFacts
<1>6. \A s \in Tasks : Opened(s)' <=> Opened(s)
  BY <1>0, <1>1, <1>2, <1>4, <1>5, Shapes DEF Opened, Published
<1>7. MemOpened'
  BY <1>0, <1>3, <1>4, <1>6, Shapes DEF LInv, MemOpened
<1>8. TreeFacts'
  BY <1>4, <1>6, KeepTrees
<1>9. job'.step = "commit" /\ job'.t = job.t /\ job'.to = job.to /\ job'.art = job.art
  BY <1>0, Types DEF FinishPointer, Goto, JobRec
<1>10. DeliveryFacts'
  BY <1>1, <1>4, <1>9 DEF LInv, DeliveryFacts, Finishing
<1> QED BY <1>4, <1>7, <1>8, <1>10 DEF LInv, CreateDeps

----------------------------------------------------------------------------
(* Steps that write a task file.                                           *)

\* A task file is written before a lease on the task is published.
LEMMA UnopenedStep ==
    ASSUME LInv, NEW t \in Tasks, ~Opened(t), NoPointerOn(t),
           \A s \in Tasks : s # t => board'[s] = board[s],
           board'[t].status \in {"pending", "preparing"},
           board'[t].status = "preparing" => board'[t].owner \in Agents,
           UNCHANGED <<records, pointer, mem, work, shells, children, cleanup>>
    PROVE  MemOpened' /\ TreeFacts' /\ \A s \in Tasks : Opened(s)' <=> Opened(s)
<1>0. IInv
  BY DEF LInv, RInv
<1>1. ~Opened(t)'
  <2> SUFFICES ASSUME board'[t].status = "preparing", Published(t)' PROVE FALSE
    BY DEF Opened
  <2> QED BY DEF LInv, Published, NoPointerOn, GitAnswers
<1>2. \A s \in Tasks : Opened(s)' <=> Opened(s)
  BY <1>1 DEF Opened, Published
<1>3. MemOpened'
  BY <1>2 DEF LInv, MemOpened
<1>4. DeliveredFrozen'
  BY DEF LInv, TreeFacts, DeliveredFrozen, Quiescent
<1>5. Untouched' /\ TreesExist'
  <2>1. board[t].status # "completed"
    BY DEF Opened
  <2>2. Untouched'
    BY <1>2 DEF LInv, TreeFacts, Untouched
  <2>3. \A s \in Tasks : board'[s].status # "completed" => board[s].status # "completed"
    BY <2>1
  <2>4. \A s \in Tasks : Opened(s)' /\ board'[s].status # "completed" => work'[s] # None
    BY <1>2, <2>3 DEF LInv, TreeFacts, TreesExist
  <2>5. \A q \in Procs : \A s \in cleanup[q] : s # t /\ s \in Tasks /\ board[s].status = "completed"
    BY <1>0, <2>1 DEF LInv, RInv, TreeFacts, TreesExist, IInv, TypeOK
  <2> QED BY <2>2, <2>4, <2>5 DEF TreesExist
<1> QED BY <1>2, <1>3, <1>4, <1>5 DEF TreeFacts

\* A preparation given back was never published.
LEMMA RecoverDropLife ==
    ASSUME LInv, RInv', NEW p \in Procs, NEW t \in Tasks, RecoverDrop(p, t)
    PROVE  LInv'
<1>0. IInv /\ board \in [Tasks -> TaskRec]
  BY DEF LInv, RInv, IInv, TypeOK
<1>1. /\ board[t].status = "preparing" /\ ~Published(t) /\ job.step = "recover"
      /\ UNCHANGED <<creating, records, pointer, mem, work, shells, children, cleanup>>
  BY DEF RecoverDrop, Running, FirstStale, Stale
<1>2. ~Opened(t) /\ NoPointerOn(t)
  BY <1>0, <1>1 DEF Opened, Published, NoPointerOn, IInv, PointerBoard
<1>3. CASE Release /\ UNCHANGED board
  <2>1. job'.step = "idle"
    BY <1>3 DEF Release, NoJob
  <2> QED BY <1>1, <1>3, <2>1, NoDelivery, JobOnly DEF Finishing
<1>4. CASE /\ board' = [board EXCEPT ![t].status = "pending", ![t].owner = None,
                                     ![t].pid = None]
           /\ UNCHANGED job
  <2>1. board'[t].status = "pending" /\ \A s \in Tasks : s # t => board'[s] = board[s]
    BY <1>0, <1>4 DEF TaskRec
  <2>2. MemOpened' /\ TreeFacts'
    BY <1>1, <1>2, <2>1, UnopenedStep
  <2>3. CreateDeps'
    BY <1>0, <1>1, <2>1 DEF LInv, RInv, CreateDeps, IInv, TypeOK, Creation
  <2> QED BY <1>1, <1>4, <2>2, <2>3, NoDelivery DEF LInv, Finishing
<1> QED BY <1>3, <1>4 DEF RecoverDrop

LEMMA ClaimPrepareLife ==
    ASSUME LInv, RInv', NEW p \in Procs, NEW t \in Tasks, ClaimPrepare(p, t)
    PROVE  LInv'
<1>0. IInv /\ board \in [Tasks -> TaskRec]
  BY DEF LInv, RInv, IInv, TypeOK
<1>1. /\ board[t].status = "pending" /\ job.a \in Agents
      /\ UNCHANGED <<creating, records, pointer, mem, work, shells, children, cleanup>>
  BY <1>0 DEF ClaimPrepare, Running, Target, FirstAvailable, Claimable, IInv, JobShape
<1>2. ~Opened(t) /\ NoPointerOn(t)
  BY <1>0, <1>1 DEF Opened, NoPointerOn, IInv, PointerBoard
<1>3. /\ board'[t].status = "preparing" /\ board'[t].owner = job.a
      /\ \A s \in Tasks : s # t => board'[s] = board[s]
  BY <1>0 DEF ClaimPrepare, TaskRec
<1>4. MemOpened' /\ TreeFacts'
  BY <1>1, <1>2, <1>3, UnopenedStep
<1>5. CreateDeps'
  BY <1>0, <1>1, <1>3 DEF LInv, RInv, CreateDeps, IInv, TypeOK, Creation
<1>6. job'.step = "worktree"
  BY <1>0, Types DEF ClaimPrepare, JobRec
<1> QED BY <1>4, <1>5, <1>6, NoDelivery DEF LInv, Finishing

LEMMA ClaimUndoLife == ASSUME LInv, RInv', NEW p \in Procs, ClaimUndo(p) PROVE LInv'
<1>0. IInv /\ board \in [Tasks -> TaskRec]
  BY DEF LInv, RInv, IInv, TypeOK
<1>1. PICK t \in Tasks : t = job.t /\ board[t].status = "preparing" /\ NoPointerOn(t)
                         /\ board[t].owner \in Agents
  BY <1>0, Shapes DEF ClaimUndo, Running, IInv, JobShape, JobFacts, ClaimFacts, Claiming
<1>2. UNCHANGED <<creating, records, pointer, mem, work, shells, children, cleanup>>
  BY DEF ClaimUndo
<1>3. ~Opened(t)
  BY <1>1 DEF LInv, Opened, Published, NoPointerOn
<1>4. board'[t].status = "pending" /\ \A s \in Tasks : s # t => board'[s] = board[s]
  BY <1>0, <1>1 DEF ClaimUndo, TaskRec
<1>5. MemOpened' /\ TreeFacts'
  BY <1>1, <1>2, <1>3, <1>4, UnopenedStep
<1>6. CreateDeps'
  BY <1>0, <1>2, <1>4 DEF LInv, RInv, CreateDeps, IInv, TypeOK, Creation
<1>7. job'.step = "idle"
  BY DEF ClaimUndo, Release, NoJob
<1> QED BY <1>5, <1>6, <1>7, NoDelivery DEF LInv, Finishing

LEMMA CreateReserveLife ==
    ASSUME LInv, RInv', NEW p \in Procs, NEW deps \in SUBSET Tasks, CreateReserve(p, deps)
    PROVE  LInv'
<1>1. UNCHANGED <<board, records, pointer, mem, work, shells, children, main, cleanup, job>>
  BY DEF CreateReserve
<1>2. SameLeases /\ DeliveryFacts'
  BY <1>1 DEF SameLeases, LInv, DeliveryFacts
<1>3. MemOpened' /\ TreeFacts'
  BY <1>1, <1>2, KeepLeases, KeepTrees
<1>4. creating'.deps = deps
  BY DEF CreateReserve
<1>5. CreateDeps'
  BY <1>1, <1>4 DEF CreateDeps, CreateReserve
<1> QED BY <1>2, <1>3, <1>5 DEF LInv

LEMMA CreateSaveLife == ASSUME LInv, RInv', NEW p \in Procs, CreateSave(p) PROVE LInv'
<1>0. IInv /\ board \in [Tasks -> TaskRec]
  BY DEF LInv, RInv, IInv, TypeOK
<1>1. PICK n \in Tasks : n = creating.t /\ n = hwm /\ board[n].status = "absent"
  BY <1>0, BoardAssumption DEF CreateSave, IInv, CreateShape, TypeOK, Procs
<1>2. UNCHANGED <<records, pointer, mem, work, shells, children, main, cleanup, job>>
  BY DEF CreateSave
<1>3. board' = [board EXCEPT ![n] = [NoTask EXCEPT !.status = "pending", !.deps = creating.deps]]
  BY <1>1 DEF CreateSave
<1>4. board'[n].status = "pending" /\ \A s \in Tasks : s # n => board'[s] = board[s]
  BY <1>0, <1>3 DEF NoTask
<1>5. ~Opened(n) /\ NoPointerOn(n)
  BY <1>0, <1>1 DEF Opened, NoPointerOn, IInv, PointerBoard
<1>6. MemOpened' /\ TreeFacts'
  BY <1>2, <1>4, <1>5, UnopenedStep
<1>7. CreateDeps'
  BY DEF CreateSave, CreateDeps, NoCreation
<1>8. DeliveryFacts'
  BY <1>2 DEF LInv, DeliveryFacts
<1> QED BY <1>6, <1>7, <1>8 DEF LInv

\* A task in preparation, or in progress, is recorded to be in progress under the
\* lease its owner's copy names; the agent may be bound to it.
LEMMA HoldStep ==
    ASSUME LInv, NEW t \in Tasks, NEW l \in Leases, NEW o \in Agents,
           board[t].status \in {"preparing", "in_progress"}, board[t].owner = o,
           pointer[o].status = "active", pointer[o].id = l, records[l].task = t,
           \A s \in Tasks : s # t => board'[s] = board[s],
           board'[t] = board[t] \/
              (board'[t].status = "in_progress" /\ board'[t].binding = l /\ board'[t].owner = o),
           \A q \in Procs, b \in Agents : mem'[q][b] = mem[q][b] \/ mem'[q][b] = l,
           UNCHANGED <<creating, records, pointer, work, shells, children, cleanup>>
    PROVE  MemOpened' /\ TreeFacts' /\ CreateDeps' /\ \A s \in Tasks : Opened(s)' <=> Opened(s)
<1>0. IInv
  BY DEF LInv, RInv
<1>1. Opened(t) /\ Opened(t)'
  BY DEF Opened, Published
<1>2. \A s \in Tasks : Opened(s)' <=> Opened(s)
  BY <1>1 DEF Opened, Published
<1>3. records[l].agent = o /\ records[l].status # "unused"
  BY <1>0, Shapes
<1>4. MemOpened'
  BY <1>1, <1>2 DEF LInv, MemOpened
<1>5. DeliveredFrozen'
  BY DEF LInv, TreeFacts, DeliveredFrozen, Quiescent
<1>6. Untouched'
  BY <1>2 DEF LInv, TreeFacts, Untouched
<1>7. TreesExist'
  <2>1. \A s \in Tasks : Opened(s)' /\ board'[s].status # "completed" => work'[s] # None
    BY <1>2 DEF LInv, TreeFacts, TreesExist
  <2>2. \A q \in Procs : \A s \in cleanup[q] : s # t /\ s \in Tasks /\ board[s].status = "completed"
    BY <1>0 DEF LInv, RInv, TreeFacts, TreesExist, IInv, TypeOK
  <2> QED BY <2>1, <2>2 DEF TreesExist
<1>8. CreateDeps'
  BY <1>0 DEF LInv, RInv, CreateDeps, IInv, TypeOK, Creation
<1> QED BY <1>2, <1>4, <1>5, <1>6, <1>7, <1>8 DEF TreeFacts

LEMMA PublishLife == ASSUME LInv, RInv', NEW p \in Procs, Publish(p) PROVE LInv'
<1>0. IInv /\ board \in [Tasks -> TaskRec]
  BY DEF LInv, RInv, IInv, TypeOK
<1>1. PICK t \in Tasks, l \in Leases, o \in Agents :
      /\ t = job.t /\ l = job.l /\ board[t].status = "preparing" /\ board[t].owner = o
      /\ pointer[o].status = "active" /\ pointer[o].id = l /\ records[l].task = t
  BY <1>0, Shapes DEF Publish, Running, IInv, JobShape, JobFacts, AttachFacts, Attaching
<1>2. UNCHANGED <<creating, records, pointer, mem, work, shells, children, cleanup>>
  BY DEF Publish
<1>3. /\ board'[t].status = "in_progress" /\ board'[t].binding = l /\ board'[t].owner = o
      /\ \A s \in Tasks : s # t => board'[s] = board[s]
  BY <1>0, <1>1 DEF Publish, TaskRec
<1>4. MemOpened' /\ TreeFacts' /\ CreateDeps'
  BY <1>1, <1>2, <1>3, HoldStep
<1>5. job'.step \in {"recover", "idle"}
  <2>1. CASE Goto("recover")
    BY <1>0, <2>1, Types DEF Goto, JobRec
  <2>2. CASE Release
    BY <2>2 DEF Release, NoJob
  <2> QED BY <2>1, <2>2 DEF Publish
<1> QED BY <1>4, <1>5, NoDelivery DEF LInv, Finishing

LEMMA RestoreTaskLife == ASSUME LInv, RInv', NEW p \in Procs, RestoreTask(p) PROVE LInv'
<1>0. IInv /\ board \in [Tasks -> TaskRec]
  BY DEF LInv, RInv, IInv, TypeOK
<1>1. PICK l \in Leases, a \in Agents, t \in Tasks :
      /\ l = job.l /\ a = job.a /\ t = job.t /\ records[l].task = t
      /\ pointer[a].status = "active" /\ pointer[a].id = l
  BY <1>0 DEF RestoreTask, Running, IInv, JobShape, JobFacts, RestoreFacts, Restoring
<1>2. board[t].owner = a /\ board[t].status \in {"preparing", "in_progress"}
  BY <1>0, <1>1 DEF LInv, IInv, PointerBoard
<1>3. UNCHANGED <<creating, records, pointer, work, shells, children, cleanup>>
  BY DEF RestoreTask
<1>4. \A q \in Procs, b \in Agents : mem'[q][b] = mem[q][b] \/ mem'[q][b] = l
  <2>1. mem' \in {mem, [mem EXCEPT ![p][a] = l]}
    BY <1>1 DEF RestoreTask
  <2> QED BY <1>0, <1>1, <2>1 DEF IInv, TypeOK
<1>5. /\ \A s \in Tasks : s # t => board'[s] = board[s]
      /\ board'[t] = board[t] \/
            (board'[t].status = "in_progress" /\ board'[t].binding = l /\ board'[t].owner = a)
  <2>1. \/ board' = board
        \/ board' = [board EXCEPT ![t].status = "in_progress", ![t].binding = l, ![t].pid = None]
    BY <1>1 DEF RestoreTask
  <2> QED BY <1>0, <1>2, <2>1 DEF TaskRec
<1>6. MemOpened' /\ TreeFacts' /\ CreateDeps'
  BY <1>1, <1>2, <1>3, <1>4, <1>5, HoldStep
<1>7. job'.step = "idle"
  BY DEF RestoreTask, Release, NoJob
<1> QED BY <1>6, <1>7, NoDelivery DEF LInv, Finishing

\* The delivery is published as it was planned.
LEMMA CompleteCommitLife == ASSUME LInv, RInv', NEW p \in Procs, CompleteCommit(p) PROVE LInv'
<1>0. IInv /\ board \in [Tasks -> TaskRec]
  BY DEF LInv, RInv, IInv, TypeOK
<1>1. PICK t \in Tasks, to \in {"ready_for_review", "completed"}, art \in {job.art} :
      /\ t = job.t /\ to = job.to /\ art = job.art /\ job.step = "commit"
      /\ board[t].status \in {"in_progress", "ready_for_review"}
  BY <1>0 DEF CompleteCommit, Running, IInv, JobShape, JobFacts, FinishFacts, Finishing
<1>2. shells[t] = {} /\ art = work[t]
  BY <1>1 DEF LInv, DeliveryFacts, Finishing
<1>3. UNCHANGED <<creating, records, pointer, mem, work, shells, children>>
  BY DEF CompleteCommit
<1>4. /\ board'[t].status = to /\ board'[t].art = art /\ board'[t].owner = board[t].owner
      /\ board'[t].binding = board[t].binding
      /\ \A s \in Tasks : s # t => board'[s] = board[s]
  <2>1. board[t] \in TaskRec
    BY <1>0
  <2>2. board' = [board EXCEPT ![t] = [board[t] EXCEPT !.status = to, !.art = art]]
    BY <1>0, <1>1 DEF CompleteCommit
  <2> QED BY <1>0, <2>1, <2>2 DEF TaskRec
<1>5. \A q \in Procs : cleanup'[q] = cleanup[q] \/ (to = "completed" /\ cleanup'[q] = cleanup[q] \cup {t})
  BY <1>0, <1>1 DEF CompleteCommit, IInv, TypeOK
<1>6. \A s \in Tasks : Opened(s)' <=> Opened(s)
  BY <1>1, <1>3, <1>4 DEF Opened, Published
<1>7. MemOpened'
  BY <1>3, <1>6 DEF LInv, MemOpened
<1>8. DeliveredFrozen'
  BY <1>1, <1>2, <1>3, <1>4 DEF LInv, TreeFacts, DeliveredFrozen, Quiescent
<1>9. Untouched'
  BY <1>3, <1>6 DEF LInv, TreeFacts, Untouched
<1>10. TreesExist'
  <2>1. \A s \in Tasks : Opened(s)' /\ board'[s].status # "completed" => work'[s] # None
    BY <1>1, <1>3, <1>4, <1>6 DEF LInv, TreeFacts, TreesExist
  <2>2. \A q \in Procs : \A s \in cleanup[q] : s # t /\ s \in Tasks /\ board[s].status = "completed"
    BY <1>0, <1>1 DEF LInv, RInv, TreeFacts, TreesExist, IInv, TypeOK
  <2> QED BY <1>4, <1>5, <2>1, <2>2 DEF TreesExist
<1>11. CreateDeps'
  BY <1>0, <1>3, <1>4 DEF LInv, RInv, CreateDeps, IInv, TypeOK, Creation
<1>12. job'.step = "idle"
  BY DEF CompleteCommit, Release, NoJob
<1> QED BY <1>7, <1>8, <1>9, <1>10, <1>11, <1>12, NoDelivery
        DEF LInv, TreeFacts, Finishing

----------------------------------------------------------------------------
(* Work in the worktrees.                                                  *)

\* Something happens in one worktree: files change only while the task is held,
\* commands start only then, and nothing happens in one not handed out.
LEMMA WorktreeStep ==
    ASSUME LInv, RInv', NEW t \in Tasks, Opened(t),
           \A s \in Tasks : s # t => /\ work'[s] = work[s] /\ shells'[s] = shells[s]
                                     /\ children'[s] = children[s],
           work'[t] = work[t] \/ (work'[t] # None /\ board[t].status \in {"preparing", "in_progress"}),
           shells'[t] \subseteq shells[t] \/ board[t].status \in {"preparing", "in_progress"},
           LockFree \/ (job.step \in Finishing => job.t # t),
           UNCHANGED <<board, creating, records, pointer, mem, main, cleanup, job>>
    PROVE  LInv'
<1>1. SameLeases
  BY DEF SameLeases
<1>2. MemOpened' /\ \A s \in Tasks : Opened(s)' <=> Opened(s)
  BY <1>1, KeepLeases
<1>3. DeliveredFrozen'
  BY DEF LInv, TreeFacts, DeliveredFrozen, Quiescent
<1>4. Untouched' /\ TreesExist'
  BY <1>2 DEF LInv, TreeFacts, Untouched, TreesExist
<1>5. CreateDeps'
  BY DEF LInv, CreateDeps
<1>6. DeliveryFacts'
  <2>2. CASE LockFree
    <3>1. job.step = "idle"
      BY <2>2 DEF LockFree, NoJob
    <3> QED BY <3>1, NoDelivery DEF Finishing
  <2>3. CASE job.step \in Finishing => job.t # t
    <3>1. job.step \in {"record", "pointer"} => job.t \in Tasks
      BY DEF LInv, RInv, IInv, JobShape
    <3>2. job.step \in Finishing => job.t \in Tasks
      BY DEF LInv, RInv, IInv, JobShape, Finishing
    <3>3. job.step \in {"record", "pointer"} => work'[job.t] # None
      BY <3>1 DEF LInv, DeliveryFacts
    <3> QED BY <2>3, <3>2, <3>3 DEF LInv, DeliveryFacts
  <2> QED BY <2>2, <2>3
<1> QED BY <1>2, <1>3, <1>4, <1>5, <1>6 DEF LInv, TreeFacts

\* What an agent that may write does in its worktree.
LEMMA WriterFacts ==
    ASSUME LInv, NEW p \in Procs, NEW a \in Agents, NEW t \in Tasks, mem[p][a] # None,
           records[mem[p][a]].task = t
    PROVE  /\ Opened(t)
           /\ Valid(mem[p][a], p, TRUE) => board[t].status \in {"preparing", "in_progress"}
BY WriterHolds DEF LInv, RInv, MemOpened

\* One more version of the files.
LEMMA NewVersion ==
    ASSUME LInv, NEW t \in Tasks, CanChange(t), work' = [work EXCEPT ![t] = @ + 1]
    PROVE  work'[t] # None /\ \A s \in Tasks : s # t => work'[s] = work[s]
<1>1. work \in [Tasks -> Version \cup {None}] /\ work[t] + 1 \in Int
  BY BoardAssumption DEF LInv, RInv, IInv, TypeOK, CanChange
<1> QED BY <1>1, BoardAssumption

LEMMA AgentWorkLife ==
    ASSUME LInv, RInv', NEW p \in Procs, NEW a \in Agents, NEW t \in Tasks,
           Edit(p, a, t) \/ StartShell(p, a, t) \/ StartChild(p, a, t) \/ FinishChild(p, a, t)
    PROVE  LInv'
<1>0. shells \in [Tasks -> SUBSET Procs] /\ children \in [Tasks -> SUBSET Procs]
  BY DEF LInv, RInv, IInv, TypeOK
<1>1. CASE Edit(p, a, t)
  <2>1. mem[p][a] # None /\ records[mem[p][a]].task = t /\ Valid(mem[p][a], p, TRUE)
    BY <1>1 DEF Edit, CanWrite
  <2>2. work'[t] # None /\ \A s \in Tasks : s # t => work'[s] = work[s]
    BY <1>1, NewVersion DEF Edit
  <2>3. Opened(t) /\ board[t].status \in {"preparing", "in_progress"}
    BY <2>1, WriterFacts
  <2>4. /\ UNCHANGED <<board, creating, records, pointer, mem, shells, children, main, cleanup, job>>
        /\ LockFree
    BY <1>1 DEF Edit
  <2> QED BY <2>2, <2>3, <2>4, WorktreeStep
<1>2. CASE StartShell(p, a, t)
  <2>1. mem[p][a] # None /\ records[mem[p][a]].task = t /\ Valid(mem[p][a], p, TRUE)
    BY <1>2 DEF StartShell, CanWrite
  <2>2. \A s \in Tasks : s # t => shells'[s] = shells[s]
    BY <1>0, <1>2 DEF StartShell
  <2> QED BY <1>2, <2>1, <2>2, WriterFacts, WorktreeStep DEF StartShell
<1>3. CASE StartChild(p, a, t)
  <2>1. mem[p][a] # None /\ records[mem[p][a]].task = t
    BY <1>3 DEF StartChild
  <2>2. \A s \in Tasks : s # t => children'[s] = children[s]
    BY <1>0, <1>3 DEF StartChild
  <2> QED BY <1>3, <2>1, <2>2, WriterFacts, WorktreeStep DEF StartChild
<1>4. CASE FinishChild(p, a, t)
  <2>1. Opened(t)
    BY <1>4 DEF FinishChild, LInv, TreeFacts, Untouched
  <2>2. \A s \in Tasks : s # t => children'[s] = children[s]
    BY <1>0, <1>4 DEF FinishChild
  <2>3. CASE UNCHANGED work
    BY <1>4, <2>1, <2>2, <2>3, WorktreeStep DEF FinishChild
  <2>4. CASE /\ mem[p][a] # None /\ records[mem[p][a]].task = t
             /\ Valid(mem[p][a], p, TRUE) /\ CanChange(t)
             /\ work' = [work EXCEPT ![t] = @ + 1]
    <3>1. work'[t] # None /\ \A s \in Tasks : s # t => work'[s] = work[s]
      BY <2>4, NewVersion
    <3>2. Opened(t) /\ board[t].status \in {"preparing", "in_progress"}
      BY <2>4, WriterFacts
    <3>3. /\ UNCHANGED <<board, creating, records, pointer, mem, shells, main, cleanup, job>>
          /\ LockFree
      BY <1>4 DEF FinishChild
    <3> QED BY <2>2, <3>1, <3>2, <3>3, WorktreeStep
  <2> QED BY <1>4, <2>3, <2>4 DEF FinishChild
<1> QED BY <1>1, <1>2, <1>3, <1>4

\* A running command keeps the task from being delivered, so it writes only
\* while the task is held.
LEMMA CommandHolds ==
    ASSUME LInv, NEW t \in Tasks, shells[t] # {}
    PROVE  /\ Opened(t) /\ board[t].status \in {"preparing", "in_progress"}
           /\ job.step \in Finishing => job.t # t
<1>1. Opened(t)
  BY DEF LInv, TreeFacts, Untouched
<1>2. board[t].status \notin {"ready_for_review", "completed"}
  BY DEF LInv, TreeFacts, DeliveredFrozen, Quiescent
<1>3. board[t].status \in {"preparing", "in_progress"}
  BY <1>1, <1>2 DEF Opened
<1>4. job.step \in Finishing => job.t # t
  BY DEF LInv, DeliveryFacts
<1> QED BY <1>1, <1>3, <1>4

LEMMA ShellWritesLife ==
    ASSUME LInv, RInv', NEW p \in Procs, NEW t \in Tasks, ShellWrites(p, t)
    PROVE  LInv'
<1>1. shells[t] # {}
  BY DEF ShellWrites
<1>2. work'[t] # None /\ \A s \in Tasks : s # t => work'[s] = work[s]
  BY NewVersion DEF ShellWrites
<1> QED BY <1>1, <1>2, CommandHolds, WorktreeStep DEF ShellWrites

LEMMA EndShellLife ==
    ASSUME LInv, RInv', NEW p \in Procs, NEW t \in Tasks, EndShell(p, t)
    PROVE  LInv'
<1>1. shells[t] # {}
  BY DEF EndShell
<1>2. \A s \in Tasks : s # t => shells'[s] = shells[s]
  BY DEF EndShell, LInv, RInv, IInv, TypeOK
<1> QED BY <1>1, <1>2, CommandHolds, WorktreeStep DEF EndShell

\* Only the worktree of a completed task is removed.
LEMMA RemoveWorktreeLife ==
    ASSUME LInv, RInv', NEW p \in Procs, NEW t \in Tasks, RemoveWorktree(p, t)
    PROVE  LInv'
<1>0. IInv
  BY DEF LInv, RInv
<1>1. board[t].status = "completed"
  BY DEF RemoveWorktree, LInv, TreeFacts, TreesExist
<1>2. UNCHANGED <<board, creating, records, pointer, mem, shells, children, main, job>>
      /\ job.step = "idle"
  BY DEF RemoveWorktree, LockFree, NoJob
<1>3. \A s \in Tasks : work'[s] = work[s] \/ (s = t /\ work'[s] = None)
  BY <1>0 DEF RemoveWorktree, IInv, TypeOK
<1>4. \A q \in Procs : cleanup'[q] \subseteq cleanup[q]
  BY <1>0 DEF RemoveWorktree, IInv, TypeOK
<1>5. SameLeases
  BY <1>2 DEF SameLeases
<1>6. MemOpened' /\ \A s \in Tasks : Opened(s)' <=> Opened(s)
  BY <1>2, <1>5, KeepLeases
<1>7. DeliveredFrozen'
  BY <1>2, <1>3 DEF LInv, TreeFacts, DeliveredFrozen, Quiescent
<1>8. Untouched' /\ TreesExist'
  BY <1>1, <1>2, <1>3, <1>4, <1>6 DEF LInv, TreeFacts, Untouched, TreesExist
<1> QED BY <1>2, <1>6, <1>7, <1>8, NoDelivery DEF LInv, TreeFacts, CreateDeps, Finishing

\* The user never touches what has been integrated.
LEMMA UserLife ==
    ASSUME LInv, RInv', NEW t \in Tasks, UserEdit(t) \/ UserRevert(t)
    PROVE  LInv'
<1>0. IInv
  BY DEF LInv, RInv
<1>1. UNCHANGED <<board, hwm, creating, records, pointer, mem, work, shells, children, cleanup, job>>
  BY DEF UserEdit, UserRevert
<1>2. /\ main[t] \in {0, None} /\ main'[t] \in {0, None}
      /\ \A s \in Tasks : s # t => main'[s] = main[s]
  BY <1>0 DEF UserEdit, UserRevert, IInv, TypeOK
<1>3. job.step \in Finishing => job.t \in Tasks /\ work[job.t] # None
  <2>1. job.step \in Finishing =>
           job.t \in Tasks /\ board[job.t].status \in {"in_progress", "ready_for_review"}
    BY <1>0 DEF IInv, JobShape, JobFacts, FinishFacts, Finishing
  <2> QED BY <2>1 DEF LInv, TreeFacts, TreesExist, Opened
<1>4. DeliveryFacts'
  BY <1>1, <1>2, <1>3 DEF LInv, DeliveryFacts
<1> QED BY <1>1, <1>4, JobOnly

----------------------------------------------------------------------------
(* The invariant.                                                          *)

LEMMA InitLInv ==
    ASSUME GitAnswers, Init
    PROVE  LInv
<1>1. RInv
  BY InitRInv
<1>2. \A t \in Tasks : ~Opened(t)
  BY DEF Init, NoTask, Opened
<1>3. MemOpened
  BY DEF Init, MemOpened
<1>4. TreeFacts
  BY <1>2 DEF Init, NoTask, TreeFacts, DeliveredFrozen, Untouched, TreesExist
<1>5. CreateDeps /\ DeliveryFacts
  BY DEF Init, NoCreation, NoJob, CreateDeps, DeliveryFacts, Finishing
<1> QED BY <1>1, <1>3, <1>4, <1>5 DEF LInv

LEMMA AdvanceLife ==
    ASSUME LInv, RInv', NEW p \in Procs, Advance(p)
    PROVE  LInv'
BY RecoverKeepLife, RecoverDropLife, ClaimPrepareLife, ClaimRefuseLife, ClaimWorktreeLife,
   RegisterRefuseLife, RegisterRecordLife, RegisterPointerLife, AttachRecordLife,
   AttachPointerLife, PublishLife, ClaimUndoLife, FinishRecordLife, FinishPointerLife,
   CompleteCommitLife, IntegrateCompleteLife, TakeRecordLife, TakePointerLife, RestoreTaskLife,
   CreateSaveLife
   DEF Advance

LEMMA ActLife ==
    ASSUME LInv, RInv', NEW p \in Procs, NEW a \in Agents, Act(p, a)
    PROVE  LInv'
BY ClaimBeginLife, RestoreBeginLife, EndRunLife, CompleteBeginLife, IntegrateLife, AgentWorkLife
   DEF Act

LEMMA NextLInv ==
    ASSUME LInv, [Next]_vars
    PROVE  LInv'
<1>0. RInv'
  BY NextRInv DEF LInv
<1>1. CASE Next
  <2>1. CASE \E p \in Procs : Start(p) \/ Crash(p) \/ Advance(p)
    BY <1>0, <2>1, StartLife, CrashLife, AdvanceLife
  <2>2. CASE \E p \in Procs, deps \in SUBSET Tasks : CreateReserve(p, deps)
    BY <1>0, <2>2, CreateReserveLife
  <2>3. CASE \E p \in Procs, a \in Agents : Act(p, a)
    BY <1>0, <2>3, ActLife
  <2>4. CASE \E p \in Procs, t \in Tasks : RemoveWorktree(p, t) \/ ShellWrites(p, t) \/ EndShell(p, t)
    BY <1>0, <2>4, RemoveWorktreeLife, ShellWritesLife, EndShellLife
  <2>5. CASE \E t \in Tasks : UserEdit(t) \/ UserRevert(t)
    BY <1>0, <2>5, UserLife
  <2> QED BY <1>1, <2>1, <2>2, <2>3, <2>4, <2>5 DEF Next
<1>2. CASE UNCHANGED vars
  <2>1. DeliveryFacts'
    BY <1>2 DEF vars, LInv, DeliveryFacts
  <2> QED BY <1>0, <1>2, <2>1, JobOnly DEF vars
<1> QED BY <1>1, <1>2

\* Every reachable state satisfies the stronger invariant.
THEOREM LifeInvariance ==
    ASSUME GitAnswers
    PROVE  Spec => []LInv
<1>1. Init => LInv
  BY InitLInv
<1>2. LInv /\ [Next]_vars => LInv'
  BY NextLInv
<1> QED BY <1>1, <1>2, PTL DEF Spec

\* completeTask: what was delivered is what the worktree holds, and nothing runs
\* in it, for ever after.
THEOREM DeliveriesAreFrozen ==
    ASSUME GitAnswers
    PROVE  Spec => []DeliveredFrozen
<1>1. LInv => DeliveredFrozen
  BY DEF LInv, TreeFacts
<1> QED BY <1>1, LifeInvariance, PTL

----------------------------------------------------------------------------
(* The board implements TaskLifecycle.                                     *)

PhaseOf(t) ==
    CASE board[t].status = "absent" -> "absent"
      [] board[t].status = "pending" -> "open"
      [] board[t].status \in {"preparing", "in_progress"} -> "held"
      [] board[t].status = "ready_for_review" -> "review"
      [] board[t].status = "completed" -> "done"

\* What Lifecycle sees of the board and the worktrees.
Phase    == [t \in Tasks |-> PhaseOf(t)]
Holder   == [t \in Tasks |-> board[t].owner]
Blockers == [t \in Tasks |-> board[t].deps]
Edits    == [t \in Tasks |-> IF work[t] = None THEN 0 ELSE work[t]]
Helping  == [t \in Tasks |-> shells[t] \cup children[t] # {}]

Views == <<Phase, Holder, Blockers, Edits, Helping, main>>

LifeStep == Lifecycle!LifecycleNext \/ UNCHANGED Views

LEMMA Phases ==
    ASSUME NEW t \in Tasks
    PROVE  /\ board[t].status = "absent" => PhaseOf(t) = "absent"
           /\ board[t].status = "pending" => PhaseOf(t) = "open"
           /\ board[t].status \in {"preparing", "in_progress"} => PhaseOf(t) = "held"
           /\ board[t].status = "ready_for_review" => PhaseOf(t) = "review"
           /\ board[t].status = "completed" => PhaseOf(t) = "done"
BY DEF PhaseOf

\* Nobody sees a step that writes neither a task file nor a worktree.
LEMMA Unseen ==
    ASSUME UNCHANGED <<board, work, shells, children, main>> PROVE LifeStep
BY DEF LifeStep, Views, Phase, PhaseOf, Holder, Blockers, Edits, Helping

\* One task file is written, and nothing else.
LEMMA OneFile ==
    ASSUME NEW t \in Tasks, \A s \in Tasks : s # t => board'[s] = board[s],
           UNCHANGED <<work, shells, children, main>>
    PROVE  /\ Phase' = [Phase EXCEPT ![t] = PhaseOf(t)']
           /\ Holder' = [Holder EXCEPT ![t] = board'[t].owner]
           /\ Blockers' = [Blockers EXCEPT ![t] = board'[t].deps]
           /\ UNCHANGED <<Edits, Helping, main>>
<1>1. \A s \in Tasks : s # t => PhaseOf(s)' = PhaseOf(s)
  BY DEF PhaseOf
<1>2. Phase' = [Phase EXCEPT ![t] = PhaseOf(t)']
  BY <1>1 DEF Phase
<1>3. Holder' = [Holder EXCEPT ![t] = board'[t].owner]
  BY DEF Holder
<1>4. Blockers' = [Blockers EXCEPT ![t] = board'[t].deps]
  BY DEF Blockers
<1> QED BY <1>2, <1>3, <1>4 DEF Edits, Helping

\* Only a worktree, or what runs in it, changes.
LEMMA OneTree ==
    ASSUME NEW t \in Tasks, UNCHANGED <<board, main>>,
           \A s \in Tasks : s # t => /\ work'[s] = work[s] /\ shells'[s] = shells[s]
                                     /\ children'[s] = children[s]
    PROVE  /\ UNCHANGED <<Phase, Holder, Blockers, main>>
           /\ \A s \in Tasks : s # t => Edits'[s] = Edits[s]
           /\ \A s \in Tasks : s # t => (Helping'[s] <=> Helping[s])
<1>1. UNCHANGED <<Phase, Holder, Blockers>>
  BY DEF Phase, PhaseOf, Holder, Blockers
<1>2. \A s \in Tasks : s # t => Edits'[s] = Edits[s]
  BY DEF Edits
<1>3. \A s \in Tasks : s # t => (Helping'[s] <=> Helping[s])
  BY DEF Helping
<1> QED BY <1>1, <1>2, <1>3

\* The task keeps what it needs.
LEMMA DepsKept ==
    ASSUME NEW t \in Tasks, board'[t].deps = board[t].deps,
           Blockers' = [Blockers EXCEPT ![t] = board'[t].deps]
    PROVE  UNCHANGED Blockers
BY DEF Blockers

LEMMA HolderKept ==
    ASSUME NEW t \in Tasks, board'[t].owner = board[t].owner,
           Holder' = [Holder EXCEPT ![t] = board'[t].owner]
    PROVE  UNCHANGED Holder
BY DEF Holder

\* createTask creates a task after everything it depends on.
LEMMA CreateSaveImplements ==
    ASSUME LInv, NEW p \in Procs, CreateSave(p) PROVE LifeStep
<1>0. IInv /\ board \in [Tasks -> TaskRec] /\ creating.deps \in SUBSET Tasks
  BY DEF LInv, RInv, IInv, TypeOK, Creation
<1>1. PICK n \in Tasks : n = creating.t /\ n = hwm /\ board[n].status = "absent"
  BY <1>0, BoardAssumption DEF CreateSave, IInv, CreateShape, TypeOK, Procs
<1>2. board' = [board EXCEPT ![n] = [NoTask EXCEPT !.status = "pending", !.deps = creating.deps]]
      /\ UNCHANGED <<work, shells, children, main>>
  BY <1>1 DEF CreateSave
<1>3. /\ board'[n].status = "pending" /\ board'[n].owner = None
      /\ board'[n].deps = creating.deps
      /\ \A s \in Tasks : s # n => board'[s] = board[s]
  BY <1>0, <1>2 DEF NoTask
<1>4. /\ Phase' = [Phase EXCEPT ![n] = PhaseOf(n)']
      /\ Holder' = [Holder EXCEPT ![n] = board'[n].owner]
      /\ Blockers' = [Blockers EXCEPT ![n] = board'[n].deps]
      /\ UNCHANGED <<Edits, Helping, main>>
  BY <1>2, <1>3, OneFile
<1>5. PhaseOf(n)' = "open" /\ Phase[n] = "absent"
  BY <1>1, <1>3, Phases DEF PhaseOf, Phase
<1>6. UNCHANGED Holder
  BY <1>0, <1>1, <1>3, <1>4, HolderKept DEF IInv, BoardShape
<1>7. creating.p # None
  BY BoardAssumption DEF CreateSave, Procs
<1>8. creating.deps \in SUBSET {d \in Tasks : Phase[d] # "absent"}
  <2>1. \A d \in creating.deps : d \in Tasks /\ board[d].status # "absent" /\ board[d].status \in Status
    BY <1>0, <1>7 DEF LInv, CreateDeps, TaskRec
  <2> QED BY <2>1, Phases DEF Phase, Status
<1>9. Lifecycle!Create(n)
  BY <1>3, <1>4, <1>5, <1>6, <1>8 DEF Lifecycle!Create, Phase, PhaseOf, Holder, Blockers, Edits, Helping
<1> QED BY <1>9 DEF LifeStep, Lifecycle!LifecycleNext

\* Whether anything runs in a worktree.
Helped(t) == shells[t] \cup children[t] # {}

\* A command or a worker starts or ends in one worktree.
LEMMA HelpStep ==
    ASSUME NEW t \in Tasks, UNCHANGED <<board, work, main>>,
           \A s \in Tasks : s # t => shells'[s] = shells[s] /\ children'[s] = children[s]
    PROVE  LifeStep
<1>1. UNCHANGED <<Phase, Holder, Blockers, Edits, main>>
  BY DEF Phase, PhaseOf, Holder, Blockers, Edits
<1>2. Helping = [s \in Tasks |-> Helped(s)] /\ Helping' = [s \in Tasks |-> Helped(s)']
  BY Zenon DEF Helping, Helped
<1>3. \A s \in Tasks : s # t => (Helped(s)' <=> Helped(s))
  BY DEF Helped
<1>4. CASE Helped(t)' <=> Helped(t)
  <2>1. \A s \in Tasks : Helped(s)' = Helped(s)
    BY <1>3, <1>4, SMT DEF Helped
  <2>2. UNCHANGED Helping
    BY <1>2, <2>1, Zenon
  <2> QED BY <1>1, <2>2 DEF LifeStep, Views
<1>5. CASE ~(Helped(t)' <=> Helped(t))
  <2>1. /\ \A s \in Tasks : s # t => Helped(s)' = Helped(s)
        /\ Helped(t)' = ~Helped(t)
    BY <1>3, <1>5, SMT DEF Helped
  <2>2. Helping' = [Helping EXCEPT ![t] = ~Helping[t]]
    <3>1. Helping' = [s \in Tasks |-> IF s = t THEN ~Helped(t) ELSE Helped(s)]
      BY <1>2, <2>1, Zenon
    <3>2. Helping[t] = Helped(t)
      BY <1>2, Zenon
    <3>3. [Helping EXCEPT ![t] = ~Helping[t]]
             = [s \in Tasks |-> IF s = t THEN ~Helped(t) ELSE Helped(s)]
      BY <1>2, <3>2, Zenon
    <3> QED BY <3>1, <3>3, Zenon
  <2>3. Lifecycle!Help(t)
    BY <1>1, <2>2, Zenon DEF Lifecycle!Help, Phase, PhaseOf, Holder, Blockers, Edits, Helping
  <2> QED BY <2>3 DEF LifeStep, Lifecycle!LifecycleNext
<1> QED BY <1>4, <1>5


\* The files of a worktree nobody is known to have changed come or go.
LEMMA TreeStill ==
    ASSUME NEW t \in Tasks, UNCHANGED <<board, shells, children, main>>,
           \A s \in Tasks : s # t => work'[s] = work[s],
           work'[t] = work[t] \/ (work[t] \in {None, 0} /\ work'[t] \in {None, 0})
    PROVE  LifeStep
<1>1. UNCHANGED <<Phase, Holder, Blockers, Helping, main>>
  BY DEF Phase, PhaseOf, Holder, Blockers, Helping
<1>2. UNCHANGED Edits
  BY DEF Edits
<1> QED BY <1>1, <1>2 DEF LifeStep, Views

\* The files of a held task reach their next version; the worker whose result
\* this is may leave with it.
LEMMA ChangeStep ==
    ASSUME LInv, NEW t \in Tasks, board[t].status \in {"preparing", "in_progress"}, CanChange(t),
           work' = [work EXCEPT ![t] = @ + 1], UNCHANGED <<board, shells, main>>,
           \A s \in Tasks : s # t => children'[s] = children[s],
           children'[t] \subseteq children[t]
    PROVE  LifeStep
<1>1. UNCHANGED <<Phase, Holder, Blockers, main>>
  BY DEF Phase, PhaseOf, Holder, Blockers
<1>2. Edits' = [Edits EXCEPT ![t] = Edits[t] + 1]
  <2>1. work \in [Tasks -> Version \cup {None}] /\ work[t] # None /\ work'[t] # None
    BY NewVersion, BoardAssumption DEF LInv, RInv, IInv, TypeOK, CanChange
  <2> QED BY <2>1 DEF Edits
<1>3. Helping' \in {Helping, [Helping EXCEPT ![t] = FALSE]}
  <2>1. Helping = [s \in Tasks |-> Helped(s)] /\ Helping' = [s \in Tasks |-> Helped(s)']
    BY Zenon DEF Helping, Helped
  <2>2. \A s \in Tasks : s # t => Helped(s)' = Helped(s)
    BY SMT DEF Helped
  <2>3. CASE Helped(t)' = Helped(t)
    BY <2>1, <2>2, <2>3, Zenon
  <2>4. CASE Helped(t)' = FALSE
    BY <2>1, <2>2, <2>4, Zenon
  <2>5. Helped(t)' = Helped(t) \/ Helped(t)' = FALSE
    BY SMT DEF Helped
  <2> QED BY <2>3, <2>4, <2>5
<1>4. Phase[t] = "held"
  BY Phases DEF Phase
<1>5. Lifecycle!Change(t)
  BY <1>1, <1>2, <1>3, <1>4, Zenon
     DEF Lifecycle!Change, Phase, PhaseOf, Holder, Blockers, Edits, Helping
<1> QED BY <1>5 DEF LifeStep, Lifecycle!LifecycleNext

\* A preparation that nobody has been given yet goes back to the board.
LEMMA GiveBackStep ==
    ASSUME LInv, NEW t \in Tasks, ~Opened(t), board[t].status = "preparing",
           board'[t].status = "pending", board'[t].owner = None, board'[t].deps = board[t].deps,
           \A s \in Tasks : s # t => board'[s] = board[s],
           UNCHANGED <<work, shells, children, main>>
    PROVE  LifeStep
<1>1. /\ Phase' = [Phase EXCEPT ![t] = PhaseOf(t)']
      /\ Holder' = [Holder EXCEPT ![t] = board'[t].owner]
      /\ Blockers' = [Blockers EXCEPT ![t] = board'[t].deps]
      /\ UNCHANGED <<Edits, Helping, main>>
  BY OneFile
<1>2. PhaseOf(t)' = "open" /\ Phase[t] = "held"
  BY Phases DEF PhaseOf, Phase
<1>3. UNCHANGED Blockers
  BY <1>1, DepsKept
<1>4. work[t] \in {None, 0} /\ shells[t] = {} /\ children[t] = {}
  BY DEF LInv, TreeFacts, Untouched
<1>5. Edits[t] = 0
  BY <1>4 DEF Edits
<1>6. ~Helping[t]
  BY <1>4 DEF Helping
<1>7. Lifecycle!GiveBack(t)
  BY <1>1, <1>2, <1>3, <1>5, <1>6
     DEF Lifecycle!GiveBack, Phase, PhaseOf, Holder, Blockers, Edits, Helping
<1> QED BY <1>7 DEF LifeStep, Lifecycle!LifecycleNext


\* An interrupted claim is undone.
LEMMA RecoverDropImplements ==
    ASSUME LInv, NEW p \in Procs, NEW t \in Tasks, RecoverDrop(p, t) PROVE LifeStep
<1>0. board \in [Tasks -> TaskRec]
  BY DEF LInv, RInv, IInv, TypeOK
<1>1. ~Opened(t) /\ board[t].status = "preparing" /\ UNCHANGED <<work, shells, children, main>>
  BY DEF RecoverDrop, FirstStale, Stale, Opened
<1>2. CASE UNCHANGED board
  BY <1>1, <1>2, Unseen
<1>3. CASE board' = [board EXCEPT ![t].status = "pending", ![t].owner = None, ![t].pid = None]
  <2>1. /\ board'[t].status = "pending" /\ board'[t].owner = None
        /\ board'[t].deps = board[t].deps
        /\ \A s \in Tasks : s # t => board'[s] = board[s]
    BY <1>0, <1>3 DEF TaskRec
  <2> QED BY <1>1, <2>1, GiveBackStep
<1> QED BY <1>2, <1>3 DEF RecoverDrop

\* So is a claim that failed half-way.
LEMMA ClaimUndoImplements ==
    ASSUME LInv, NEW p \in Procs, ClaimUndo(p) PROVE LifeStep
<1>0. IInv /\ board \in [Tasks -> TaskRec]
  BY DEF LInv, RInv, IInv, TypeOK
<1>1. PICK t \in Tasks : t = job.t /\ board[t].status = "preparing" /\ NoPointerOn(t)
                         /\ board[t].owner \in Agents
  BY <1>0, Shapes DEF ClaimUndo, Running, IInv, JobShape, JobFacts, ClaimFacts, Claiming
<1>2. ~Opened(t)
  BY <1>1 DEF LInv, Opened, Published, NoPointerOn
<1>3. /\ board'[t].status = "pending" /\ board'[t].owner = None
      /\ board'[t].deps = board[t].deps
      /\ \A s \in Tasks : s # t => board'[s] = board[s]
  BY <1>0, <1>1 DEF ClaimUndo, TaskRec
<1> QED BY <1>1, <1>2, <1>3, GiveBackStep DEF ClaimUndo

\* A claim takes a task whose dependencies are done.
LEMMA ClaimPrepareImplements ==
    ASSUME LInv, NEW p \in Procs, NEW t \in Tasks, ClaimPrepare(p, t) PROVE LifeStep
<1>0. IInv /\ board \in [Tasks -> TaskRec]
  BY DEF LInv, RInv, IInv, TypeOK
<1>1. PICK a \in Agents : a = job.a
  BY <1>0 DEF ClaimPrepare, Running, IInv, JobShape
<1>2. /\ board[t].status = "pending" /\ DepsSatisfied(t)
      /\ UNCHANGED <<work, shells, children, main>>
  BY DEF ClaimPrepare, Target, FirstAvailable, Claimable
<1>3. /\ board'[t].status = "preparing" /\ board'[t].owner = a /\ board'[t].deps = board[t].deps
      /\ \A s \in Tasks : s # t => board'[s] = board[s]
  BY <1>0, <1>1 DEF ClaimPrepare, TaskRec
<1>4. /\ Phase' = [Phase EXCEPT ![t] = PhaseOf(t)']
      /\ Holder' = [Holder EXCEPT ![t] = board'[t].owner]
      /\ Blockers' = [Blockers EXCEPT ![t] = board'[t].deps]
      /\ UNCHANGED <<Edits, Helping, main>>
  BY <1>2, <1>3, OneFile
<1>5. PhaseOf(t)' = "held" /\ Phase[t] = "open"
  BY <1>2, <1>3, Phases DEF PhaseOf, Phase
<1>6. UNCHANGED Blockers
  BY <1>3, <1>4, DepsKept
<1>7. \A d \in Blockers[t] : Phase[d] = "done"
  <2>1. \A d \in board[t].deps : d \in Tasks /\ board[d].status = "completed"
    BY <1>0, <1>2 DEF DepsSatisfied, TaskRec
  <2> QED BY <2>1, Phases DEF Blockers, Phase
<1>8. Lifecycle!Take(t, a)
  BY <1>3, <1>4, <1>5, <1>6, <1>7
     DEF Lifecycle!Take, Phase, PhaseOf, Holder, Blockers, Edits, Helping
<1> QED BY <1>8 DEF LifeStep, Lifecycle!LifecycleNext

\* A task file is written, and the task goes on being held by the same agent.
LEMMA StillHeld ==
    ASSUME NEW t \in Tasks, {board[t].status, board'[t].status} \subseteq {"preparing", "in_progress"},
           board'[t].owner = board[t].owner, board'[t].deps = board[t].deps,
           \A s \in Tasks : s # t => board'[s] = board[s],
           UNCHANGED <<work, shells, children, main>>
    PROVE  LifeStep
<1>1. /\ Phase' = [Phase EXCEPT ![t] = PhaseOf(t)']
      /\ Holder' = [Holder EXCEPT ![t] = board'[t].owner]
      /\ Blockers' = [Blockers EXCEPT ![t] = board'[t].deps]
      /\ UNCHANGED <<Edits, Helping, main>>
  BY OneFile
<1>2. PhaseOf(t)' = "held" /\ Phase[t] = "held"
  BY Phases DEF PhaseOf, Phase
<1>3. UNCHANGED Phase
  BY <1>1, <1>2 DEF Phase
<1> QED BY <1>1, <1>3, DepsKept, HolderKept DEF LifeStep, Views

LEMMA PublishImplements ==
    ASSUME LInv, NEW p \in Procs, Publish(p) PROVE LifeStep
<1>0. IInv /\ board \in [Tasks -> TaskRec]
  BY DEF LInv, RInv, IInv, TypeOK
<1>1. PICK t \in Tasks : t = job.t /\ board[t].status = "preparing"
  BY <1>0 DEF Publish, Running, IInv, JobShape, JobFacts, AttachFacts, Attaching
<1>2. /\ board'[t].status = "in_progress" /\ board'[t].owner = board[t].owner
      /\ board'[t].deps = board[t].deps
      /\ \A s \in Tasks : s # t => board'[s] = board[s]
  BY <1>0, <1>1 DEF Publish, TaskRec
<1> QED BY <1>1, <1>2, StillHeld DEF Publish

LEMMA RestoreTaskImplements ==
    ASSUME LInv, NEW p \in Procs, RestoreTask(p) PROVE LifeStep
<1>0. IInv /\ board \in [Tasks -> TaskRec]
  BY DEF LInv, RInv, IInv, TypeOK
<1>1. PICK l \in Leases, a \in Agents, t \in Tasks :
      /\ l = job.l /\ a = job.a /\ t = job.t /\ records[l].task = t
      /\ pointer[a].status = "active" /\ pointer[a].id = l
  BY <1>0 DEF RestoreTask, Running, IInv, JobShape, JobFacts, RestoreFacts, Restoring
<1>2. board[t].status \in {"preparing", "in_progress"}
  BY <1>0, <1>1 DEF LInv, IInv, PointerBoard
<1>3. CASE board' = board
  BY <1>3, Unseen DEF RestoreTask
<1>4. CASE board' = [board EXCEPT ![t].status = "in_progress", ![t].binding = l, ![t].pid = None]
  <2>1. /\ board'[t].status = "in_progress" /\ board'[t].owner = board[t].owner
        /\ board'[t].deps = board[t].deps
        /\ \A s \in Tasks : s # t => board'[s] = board[s]
    BY <1>0, <1>4 DEF TaskRec
  <2> QED BY <1>2, <2>1, StillHeld DEF RestoreTask
<1> QED BY <1>1, <1>3, <1>4 DEF RestoreTask

\* A completion delivers the task, or finishes it when what it produced is in
\* the main workspace.
LEMMA CompleteCommitImplements ==
    ASSUME LInv, NEW p \in Procs, CompleteCommit(p) PROVE LifeStep
<1>0. IInv /\ board \in [Tasks -> TaskRec]
  BY DEF LInv, RInv, IInv, TypeOK
<1>1. PICK t \in Tasks, to \in {"ready_for_review", "completed"}, art \in {job.art} :
      /\ t = job.t /\ to = job.to /\ art = job.art /\ job.step = "commit"
      /\ board[t].status \in {"in_progress", "ready_for_review"}
  BY <1>0 DEF CompleteCommit, Running, IInv, JobShape, JobFacts, FinishFacts, Finishing
<1>2. /\ shells[t] = {} /\ children[t] = {} /\ art = work[t]
      /\ to = "completed" => art = 0 \/ main[t] = art
  BY <1>1 DEF LInv, DeliveryFacts, Finishing
<1>3. work[t] # None
  BY <1>1 DEF LInv, TreeFacts, TreesExist, Opened
<1>4. UNCHANGED <<work, shells, children, main>>
  BY DEF CompleteCommit
<1>5. /\ board'[t].status = to /\ board'[t].owner = board[t].owner
      /\ board'[t].deps = board[t].deps
      /\ \A s \in Tasks : s # t => board'[s] = board[s]
  <2>1. board[t] \in TaskRec
    BY <1>0
  <2>2. board' = [board EXCEPT ![t] = [board[t] EXCEPT !.status = to, !.art = art]]
    BY <1>0, <1>1 DEF CompleteCommit
  <2> QED BY <1>0, <2>1, <2>2 DEF TaskRec
<1>6. /\ Phase' = [Phase EXCEPT ![t] = PhaseOf(t)']
      /\ Holder' = [Holder EXCEPT ![t] = board'[t].owner]
      /\ Blockers' = [Blockers EXCEPT ![t] = board'[t].deps]
      /\ UNCHANGED <<Edits, Helping, main>>
  BY <1>4, <1>5, OneFile
<1>7. UNCHANGED <<Holder, Blockers>>
  BY <1>5, <1>6, DepsKept, HolderKept
<1>8. Phase[t] \in {"held", "review"}
  BY <1>1, Phases DEF Phase
<1>9. ~Helping[t]
  BY <1>2 DEF Helping
<1>10. Edits[t] = work[t]
  BY <1>3 DEF Edits
<1>11. CASE to = "ready_for_review"
  <2>1. PhaseOf(t)' = "review"
    BY <1>5, <1>11 DEF PhaseOf
  <2>2. Lifecycle!Deliver(t)
    BY <1>6, <1>7, <1>8, <1>9, <2>1
       DEF Lifecycle!Deliver, Phase, PhaseOf, Holder, Blockers, Edits, Helping
  <2> QED BY <2>2 DEF LifeStep, Lifecycle!LifecycleNext
<1>12. CASE to = "completed"
  <2>1. PhaseOf(t)' = "done"
    BY <1>5, <1>12 DEF PhaseOf
  <2>2. Edits[t] = 0 \/ main[t] = Edits[t]
    BY <1>2, <1>10, <1>12
  <2>3. Lifecycle!Finish(t)
    BY <1>6, <1>7, <1>8, <1>9, <2>1, <2>2
       DEF Lifecycle!Finish, Phase, PhaseOf, Holder, Blockers, Edits, Helping
  <2> QED BY <2>3 DEF LifeStep, Lifecycle!LifecycleNext
<1> QED BY <1>1, <1>11, <1>12


\* Only what was delivered reaches the main workspace.
LEMMA IntegrateImplements ==
    ASSUME LInv, NEW p \in Procs, NEW a \in Agents, NEW t \in Tasks, Integrate(p, a, t)
    PROVE  LifeStep
<1>1. /\ board[t].status = "ready_for_review" /\ main[t] \in {0, board[t].art}
      /\ main' = [main EXCEPT ![t] = board[t].art]
      /\ UNCHANGED <<board, work, shells, children>>
  BY DEF Integrate
<1>2. work[t] # None /\ work[t] = board[t].art
  BY <1>1 DEF LInv, TreeFacts, TreesExist, DeliveredFrozen, Opened
<1>3. UNCHANGED <<Phase, Holder, Blockers, Edits, Helping>>
  BY <1>1 DEF Phase, PhaseOf, Holder, Blockers, Edits, Helping
<1>4. CASE main[t] = board[t].art
  <2>1. UNCHANGED main
    BY <1>1, <1>4 DEF LInv, RInv, IInv, TypeOK
  <2> QED BY <1>3, <2>1 DEF LifeStep, Views
<1>5. CASE main[t] = 0
  <2>1. Phase[t] = "review" /\ Edits[t] = board[t].art
    BY <1>1, <1>2, Phases DEF Phase, Edits
  <2>2. Lifecycle!Merge(t)
    BY <1>1, <1>3, <1>5, <2>1
       DEF Lifecycle!Merge, Phase, PhaseOf, Holder, Blockers, Edits, Helping
  <2> QED BY <2>2 DEF LifeStep, Lifecycle!LifecycleNext
<1> QED BY <1>1, <1>4, <1>5

\* The user changes the main workspace, never over what was merged.
LEMMA UserImplements ==
    ASSUME LInv, NEW t \in Tasks, UserEdit(t) \/ UserRevert(t) PROVE LifeStep
<1>1. /\ main' \in {[main EXCEPT ![t] = None], [main EXCEPT ![t] = 0]} /\ main[t] \in {0, None}
      /\ UNCHANGED <<board, work, shells, children>>
  BY DEF UserEdit, UserRevert
<1>2. UNCHANGED <<Phase, Holder, Blockers, Edits, Helping>>
  BY <1>1 DEF Phase, PhaseOf, Holder, Blockers, Edits, Helping
<1>3. Lifecycle!UserChanges(t)
  BY <1>1, <1>2
     DEF Lifecycle!UserChanges, Phase, PhaseOf, Holder, Blockers, Edits, Helping
<1> QED BY <1>3 DEF LifeStep, Lifecycle!LifecycleNext

\* git adds a worktree for a task being claimed; it starts at its base.
LEMMA ClaimWorktreeImplements ==
    ASSUME LInv, NEW p \in Procs, ClaimWorktree(p) PROVE LifeStep
<1>0. work \in [Tasks -> Version \cup {None}]
  BY DEF LInv, RInv, IInv, TypeOK
<1>1. PICK t \in Tasks : t = job.t
  BY DEF ClaimWorktree, Running, LInv, RInv, IInv, JobShape
<1>2. UNCHANGED <<board, shells, children, main>>
  BY DEF ClaimWorktree
<1>3. CASE work' = [work EXCEPT ![t] = IF @ = None THEN 0 ELSE @]
  <2>1. \A s \in Tasks : s # t => work'[s] = work[s]
    BY <1>0, <1>3
  <2>2. work'[t] = work[t] \/ (work[t] = None /\ work'[t] = 0)
    BY <1>0, <1>3
  <2> QED BY <1>2, <2>1, <2>2, TreeStill
<1>4. CASE UNCHANGED work
  BY <1>2, <1>4, Unseen
<1> QED BY <1>1, <1>3, <1>4 DEF ClaimWorktree

LEMMA RemoveWorktreeImplements ==
    ASSUME LInv, NEW p \in Procs, NEW t \in Tasks, RemoveWorktree(p, t) PROVE LifeStep
<1>1. UNCHANGED <<board, shells, children, main>>
  BY DEF RemoveWorktree
<1>2. /\ \A s \in Tasks : s # t => work'[s] = work[s]
      /\ work'[t] = work[t] \/ (work[t] = 0 /\ work'[t] = None)
  BY DEF RemoveWorktree, LInv, RInv, IInv, TypeOK
<1> QED BY <1>1, <1>2, TreeStill

\* The agent that holds the task works, itself or through commands and workers.
LEMMA AgentWorkImplements ==
    ASSUME LInv, NEW p \in Procs, NEW a \in Agents, NEW t \in Tasks,
           Edit(p, a, t) \/ StartShell(p, a, t) \/ StartChild(p, a, t) \/ FinishChild(p, a, t)
    PROVE  LifeStep
<1>0. shells \in [Tasks -> SUBSET Procs] /\ children \in [Tasks -> SUBSET Procs]
  BY DEF LInv, RInv, IInv, TypeOK
<1>1. CASE Edit(p, a, t)
  <2>1. mem[p][a] # None /\ records[mem[p][a]].task = t /\ Valid(mem[p][a], p, TRUE)
    BY <1>1 DEF Edit, CanWrite
  <2>2. board[t].status \in {"preparing", "in_progress"}
    BY <2>1, WriterFacts
  <2> QED BY <1>1, <2>2, ChangeStep DEF Edit
<1>2. CASE StartShell(p, a, t)
  <2>1. \A s \in Tasks : s # t => shells'[s] = shells[s]
    BY <1>0, <1>2 DEF StartShell
  <2> QED BY <1>2, <2>1, HelpStep DEF StartShell
<1>3. CASE StartChild(p, a, t)
  <2>1. \A s \in Tasks : s # t => children'[s] = children[s]
    BY <1>0, <1>3 DEF StartChild
  <2> QED BY <1>3, <2>1, HelpStep DEF StartChild
<1>4. CASE FinishChild(p, a, t)
  <2>1. /\ \A s \in Tasks : s # t => children'[s] = children[s]
        /\ children'[t] \subseteq children[t]
        /\ UNCHANGED <<board, shells, main>>
    BY <1>0, <1>4 DEF FinishChild
  <2>2. CASE UNCHANGED work
    BY <2>1, <2>2, HelpStep
  <2>3. CASE /\ mem[p][a] # None /\ records[mem[p][a]].task = t
             /\ Valid(mem[p][a], p, TRUE) /\ CanChange(t)
             /\ work' = [work EXCEPT ![t] = @ + 1]
    <3>1. board[t].status \in {"preparing", "in_progress"}
      BY <2>3, WriterFacts
    <3> QED BY <2>1, <2>3, <3>1, ChangeStep
  <2> QED BY <1>4, <2>2, <2>3 DEF FinishChild
<1> QED BY <1>1, <1>2, <1>3, <1>4

LEMMA CommandImplements ==
    ASSUME LInv, NEW p \in Procs, NEW t \in Tasks, ShellWrites(p, t) \/ EndShell(p, t)
    PROVE  LifeStep
<1>1. CASE ShellWrites(p, t)
  <2>1. board[t].status \in {"preparing", "in_progress"}
    BY <1>1, CommandHolds DEF ShellWrites
  <2> QED BY <1>1, <2>1, ChangeStep DEF ShellWrites
<1>2. CASE EndShell(p, t)
  <2>1. \A s \in Tasks : s # t => shells'[s] = shells[s]
    BY <1>2 DEF EndShell, LInv, RInv, IInv, TypeOK
  <2> QED BY <1>2, <2>1, HelpStep DEF EndShell
<1> QED BY <1>1, <1>2

LEMMA AdvanceImplements ==
    ASSUME LInv, NEW p \in Procs, Advance(p) PROVE LifeStep
<1>1. CASE \E t \in Tasks : RecoverKeep(p, t) \/ RecoverDrop(p, t) \/ ClaimPrepare(p, t)
  BY <1>1, RecoverDropImplements, ClaimPrepareImplements, Unseen DEF RecoverKeep
<1>2. CASE ClaimRefuse(p) \/ RegisterRefuse(p) \/ \E l \in Leases : RegisterRecord(p, l)
  <2>1. UNCHANGED <<board, work, shells, children, main>>
    BY <1>2, Zenon DEF ClaimRefuse, RegisterRefuse, RegisterRecord
  <2> QED BY <2>1, Unseen
<1>3. CASE RegisterPointer(p) \/ AttachRecord(p) \/ AttachPointer(p)
  BY <1>3, Unseen DEF RegisterPointer, AttachRecord, AttachPointer
<1>4. CASE FinishRecord(p) \/ FinishPointer(p) \/ IntegrateComplete(p)
  BY <1>4, Unseen DEF FinishRecord, FinishPointer, IntegrateComplete
<1>5. CASE TakeRecord(p) \/ TakePointer(p)
  BY <1>5, Unseen DEF TakeRecord, TakePointer
<1> QED BY <1>1, <1>2, <1>3, <1>4, <1>5, ClaimWorktreeImplements, PublishImplements,
           ClaimUndoImplements, CompleteCommitImplements, RestoreTaskImplements,
           CreateSaveImplements
        DEF Advance

LEMMA ActImplements ==
    ASSUME LInv, NEW p \in Procs, NEW a \in Agents, Act(p, a) PROVE LifeStep
<1>1. CASE RestoreBegin(p, a) \/ EndRun(p, a) \/ \E want \in Tasks \cup {None} : ClaimBegin(p, a, want)
  <2>1. UNCHANGED <<board, work, shells, children, main>>
    BY <1>1, Zenon DEF RestoreBegin, EndRun, ClaimBegin
  <2> QED BY <2>1, Unseen
<1>2. CASE \E t \in Tasks : CompleteBegin(p, a, t)
  <2>1. UNCHANGED <<board, work, shells, children, main>>
    BY <1>2, Zenon DEF CompleteBegin
  <2> QED BY <2>1, Unseen
<1> QED BY <1>1, <1>2, IntegrateImplements, AgentWorkImplements DEF Act

LEMMA NextImplements == LInv /\ [Next]_vars => LifeStep
<1> SUFFICES ASSUME LInv, [Next]_vars PROVE LifeStep
  OBVIOUS
<1>1. CASE \E p \in Procs : Start(p) \/ Crash(p) \/ \E deps \in SUBSET Tasks : CreateReserve(p, deps)
  BY <1>1, Unseen DEF Start, Crash, CreateReserve
<1>2. CASE UNCHANGED vars
  BY <1>2, Unseen DEF vars
<1> QED BY <1>1, <1>2, AdvanceImplements, ActImplements, RemoveWorktreeImplements,
           CommandImplements, UserImplements
        DEF Next

LEMMA InitImplements == Init => Lifecycle!LifecycleInit
<1> SUFFICES ASSUME Init PROVE Lifecycle!LifecycleInit
  OBVIOUS
<1>1. \A t \in Tasks : /\ board[t].status = "absent" /\ board[t].owner = None
                       /\ board[t].deps = {} /\ PhaseOf(t) = "absent"
  BY DEF Init, NoTask, PhaseOf
<1>2. Helping = [t \in Tasks |-> FALSE]
  <2>1. \A t \in Tasks : Helped(t) = FALSE
    BY SMT DEF Init, Helped
  <2>2. Helping = [t \in Tasks |-> Helped(t)]
    BY Zenon DEF Helping, Helped
  <2> QED BY <2>1, <2>2, Zenon
<1>3. /\ Phase = [t \in Tasks |-> "absent"] /\ Holder = [t \in Tasks |-> None]
      /\ Blockers = [t \in Tasks |-> {}] /\ Edits = [t \in Tasks |-> 0]
      /\ main = [t \in Tasks |-> 0]
  BY <1>1 DEF Init, Phase, Holder, Blockers, Edits
<1> QED BY <1>2, <1>3
        DEF Lifecycle!LifecycleInit, Phase, PhaseOf, Holder, Blockers, Edits, Helping

\* The board implements the life of a task, for any number of agents, processes,
\* tasks and leases: no crash, restore or stale process makes a task skip a
\* dependency, change hands, come back changed, be delivered with workers below
\* it, or be completed without its result in the main workspace.
THEOREM BoardImplementsLifecycle ==
    ASSUME GitAnswers
    PROVE  Spec => ImplementsLifecycle
<1>1. Init => Lifecycle!LifecycleInit
  BY InitImplements
<1>2. LInv /\ [Next]_vars => [Lifecycle!LifecycleNext]_(Lifecycle!lvars)
  BY NextImplements
     DEF LifeStep, Views, Lifecycle!lvars, Phase, PhaseOf, Holder, Blockers, Edits, Helping
<1> QED BY <1>1, <1>2, LifeInvariance, PTL DEF Spec, ImplementsLifecycle, Lifecycle!LifecycleSpec

=============================================================================
