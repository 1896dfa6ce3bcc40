------------------------ MODULE FileTransactions_proofs ------------------------
(***************************************************************************)
(* Proofs about FileTransactions, for any workspace, any contents and any  *)
(* number of transactions, edits and crashes.  The argument is about the   *)
(* last transaction that was planned: an undecided one bars the next plan, *)
(* and what the loops have done of it can be read off op.todo, for every   *)
(* file that nobody else has touched since.                                *)
(*                                                                         *)
(* The last part shows that a transaction is one change of AtomicChanges:  *)
(* what it has done so far is, under the mapping, not there until it is    *)
(* decided.                                                                *)
(***************************************************************************)
EXTENDS FileTransactions, TLAPS, FiniteSetTheorems, WellFoundedInduction, SequenceTheorems

----------------------------------------------------------------------------
(* The inductive invariant.                                                *)

Plans      == UNION {[S -> Entry] : S \in SUBSET Files}
JournalRec == [status: Statuses, files: Plans]
OpRec      == [step: Steps, tx: 0..MaxTx, todo: SUBSET Files]

At(j, f) == journal[j].files[f]

StateShape ==
    /\ disk \in [Files -> File]
    /\ \A f \in Files : disk[f].hash = Missing <=> disk[f].mode = None
    /\ journal \in [Txs -> JournalRec]
    /\ op \in OpRec

Applying  == {"check", "write", "chmod"}
Restoring == {"restore", "restoreMode"}

\* What the journal of the running operation says, and what its loop has to do.
OpShape ==
    op.step # "idle" =>
        /\ op.tx \in Txs /\ op.todo \subseteq DOMAIN journal[op.tx].files
        /\ op.step = "prepare" => /\ journal[op.tx].status = "planned"
                                  /\ op.todo = DOMAIN journal[op.tx].files
        /\ op.step \in Applying => journal[op.tx].status = "prepared"
        /\ op.step \in Restoring \cup {"validate"} => Unresolved(op.tx)
        /\ op.step \in {"write", "chmod", "restoreMode"} => op.todo # {}

Running(j) == op.step # "idle" /\ op.tx = j

\* No transaction was planned after it.
Latest(j) ==
    journal[j].status # "unused" /\ \A k \in Txs : k > j => journal[k].status = "unused"

\* Transactions follow each other, and whatever is under way is the last one.
Order ==
    \A j \in Txs :
        /\ journal[j].status # "unused" => \A k \in Txs : k < j => journal[k].status # "unused"
        /\ Unresolved(j) \/ Running(j) => Latest(j)

HasBefore(f, e) == disk[f].hash = e.before /\ disk[f].mode = e.beforeMode
HasAfter(f, e)  == disk[f].hash = e.after /\ disk[f].mode \in {e.afterMode, None}

\* A file of a plan while the plan is applied, and while it is taken back.
Applied(f, e) ==
    IF f \notin op.todo THEN HasAfter(f, e)
    ELSE IF op.step = "chmod" /\ f = Min(op.todo)
         THEN disk[f].hash = e.after /\ e.after # Missing
         ELSE HasBefore(f, e)

Reverted(f, e) ==
    /\ f \notin op.todo => HasBefore(f, e)
    /\ op.step = "restoreMode" /\ f = Max(op.todo) => disk[f].hash = e.before /\ e.before # Missing

\* The files of the last transaction that the user has left alone.
FileFacts ==
    \A j \in Txs : Latest(j) =>
        \A f \in DOMAIN journal[j].files \ touched :
            /\ At(j, f).before = Missing <=> At(j, f).beforeMode = None
            /\ journal[j].status # "planned" =>
                  /\ At(j, f).cp = At(j, f).before
                  /\ At(j, f).beforeMode # None => At(j, f).cpMode = At(j, f).beforeMode
            /\ journal[j].status = "committed" => HasAfter(f, At(j, f))
            /\ journal[j].status = "rolled_back" => HasBefore(f, At(j, f))
            /\ Running(j) =>
                  /\ op.step = "prepare" => HasBefore(f, At(j, f))
                  /\ op.step \in Applying => Applied(f, At(j, f))
                  /\ op.step \in Restoring => Reverted(f, At(j, f))

\* The files an operation is about to replace, whoever has changed them.
WindowFacts ==
    /\ lost \subseteq raced
    /\ op.step = "write" =>
          \/ Min(op.todo) \in raced
          \/ disk[Min(op.todo)].hash = At(op.tx, Min(op.todo)).before
    /\ op.step \in Restoring =>
          /\ \A f \in DOMAIN journal[op.tx].files : At(op.tx, f).cp = At(op.tx, f).before
          /\ \A f \in op.todo :
                f \in raced \/ disk[f].hash \in {At(op.tx, f).before, At(op.tx, f).after}

IInv == StateShape /\ OpShape /\ Order /\ FileFacts /\ WindowFacts

----------------------------------------------------------------------------
(* Lemmas.                                                                 *)

\* A set of natural numbers has a smallest element.
LEMMA Smallest ==
    ASSUME NEW T \in SUBSET Nat, T # {}
    PROVE  \E x \in T : \A y \in T : x <= y
<1> DEFINE R == {ss \in Nat \X Nat : ss[1] < ss[2]}
<1>1. IsWellFoundedOn(R, Nat)
  BY NatLessThanWellFounded DEF OpToRel
<1> HIDE DEF R
<1>2. PICK x \in T : \A y \in T : ~ (<<y, x>> \in R)
  BY <1>1, WFMin
<1>3. \A y \in T : ~(y < x)
  BY <1>2 DEF R
<1> QED BY <1>3

\* The first and the last file of a loop are among its files.
LEMMA Extremes ==
    ASSUME NEW S \in SUBSET Files, S # {}
    PROVE  Min(S) \in S /\ Max(S) \in S
<1>1. S \subseteq Nat /\ NumFiles \in Nat
  BY TransactionAssumption DEF Files
<1>2. Min(S) \in S
  BY <1>1, Smallest DEF Min
<1>3. Max(S) \in S
  <2> DEFINE T == {NumFiles - y : y \in S}
  <2>1. \A y \in S : NumFiles - y \in Nat
    BY <1>1 DEF Files
  <2>2. T \in SUBSET Nat /\ T # {}
    BY <2>1
  <2>3. PICK t \in T : \A u \in T : t <= u
    BY <2>2, Smallest
  <2>4. PICK x \in S : t = NumFiles - x
    BY <2>3
  <2>5. \A y \in S : x >= y
    <3> TAKE y \in S
    <3>1. t <= NumFiles - y
      BY <2>3
    <3> QED BY <1>1, <2>4, <3>1
  <2> QED BY <2>5 DEF Max
<1> QED BY <1>2, <1>3

\* Plans are functions on some of the files.
LEMMA PlanShape ==
    /\ \A p \in Plans : DOMAIN p \subseteq Files /\ \A f \in DOMAIN p : p[f] \in Entry
    /\ \A S \in SUBSET Files : \A p \in [S -> Entry] : p \in Plans /\ DOMAIN p = S
    /\ <<>> \in Plans
<1>1. \A S \in SUBSET Files : \A p \in [S -> Entry] : p \in Plans /\ DOMAIN p = S
  BY DEF Plans
<1>2. <<>> \in [{} -> Entry]
  OBVIOUS
<1>3. <<>> \in Plans
  BY <1>2 DEF Plans
<1>4. \A p \in Plans : DOMAIN p \subseteq Files /\ \A f \in DOMAIN p : p[f] \in Entry
  BY DEF Plans
<1> QED BY <1>1, <1>3, <1>4

\* The constants that stand for no file and no bits are none of the others.
LEMMA Outside ==
    /\ Private \in Modes /\ None \notin Modes /\ Missing \in Contents
    /\ Missing \notin UserContents \cup AgentContents /\ Gone \in File
    /\ Gone.hash = Missing /\ Gone.mode = None
BY TransactionAssumption DEF Contents, Gone, File

\* The types of the state, and of the running operation.
LEMMA Types ==
    ASSUME IInv
    PROVE  /\ \A f \in Files : disk[f] \in File /\ disk[f].hash \in Contents
                               /\ disk[f].mode \in Modes \cup {None}
           /\ \A j \in Txs : /\ journal[j] \in JournalRec /\ journal[j].files \in Plans
                             /\ journal[j].status \in Statuses
                             /\ DOMAIN journal[j].files \subseteq Files
                             /\ \A f \in DOMAIN journal[j].files : At(j, f) \in Entry
           /\ op.step \in Steps /\ op.todo \in SUBSET Files /\ op.tx \in 0..MaxTx
<1>1. \A f \in Files : disk[f] \in File /\ disk[f].hash \in Contents
                       /\ disk[f].mode \in Modes \cup {None}
  BY DEF IInv, StateShape, File
<1>2. \A j \in Txs : /\ journal[j] \in JournalRec /\ journal[j].files \in Plans
                     /\ journal[j].status \in Statuses
  BY DEF IInv, StateShape, JournalRec
<1>3. op.step \in Steps /\ op.todo \in SUBSET Files /\ op.tx \in 0..MaxTx
  BY DEF IInv, StateShape, OpRec
<1> QED BY <1>1, <1>2, <1>3, PlanShape DEF At

\* The transaction of the running operation is the last one, and undecided.
LEMMA Current ==
    ASSUME IInv, op.step # "idle", NEW t, t = op.tx
    PROVE  /\ t \in Txs /\ Latest(t) /\ Entries = journal[t].files
           /\ op.todo \subseteq DOMAIN journal[t].files
           /\ journal[t].status \in {"planned", "prepared", "conflict"}
           /\ \A j \in Txs : Latest(j) => j = t
           /\ \A f \in DOMAIN journal[t].files \ touched :
                 /\ At(t, f).before = Missing <=> At(t, f).beforeMode = None
                 /\ journal[t].status # "planned" =>
                       /\ At(t, f).cp = At(t, f).before
                       /\ At(t, f).beforeMode # None => At(t, f).cpMode = At(t, f).beforeMode
                 /\ op.step = "prepare" => HasBefore(f, At(t, f))
                 /\ op.step \in Applying => Applied(f, At(t, f))
                 /\ op.step \in Restoring => Reverted(f, At(t, f))
<1>1. t \in Txs /\ op.todo \subseteq DOMAIN journal[t].files
  BY DEF IInv, OpShape
<1>2. Latest(t)
  BY <1>1 DEF IInv, Order, Running
<1>3. journal[t].status \in {"planned", "prepared", "conflict"}
  BY <1>1, Types DEF IInv, OpShape, Steps, Applying, Restoring, Unresolved
<1>4. \A j \in Txs : Latest(j) => j = t
  BY <1>1, <1>2 DEF Latest, Txs
<1>5. Running(t)
  BY DEF Running
<1> QED BY <1>1, <1>2, <1>3, <1>4, <1>5 DEF IInv, FileFacts, Entries

\* A step of the running operation that leaves the journal alone keeps what is
\* known of the files, if it does so for the files of its own transaction.
LEMMA LoopStep ==
    ASSUME IInv, op.step # "idle", NEW t, t = op.tx, UNCHANGED <<journal, touched>>,
           op'.step = "idle" \/ (op'.tx = t /\ op'.step # "prepare"),
           \A f \in DOMAIN journal[t].files \ touched :
              /\ op'.step \in Applying => Applied(f, At(t, f))'
              /\ op'.step \in Restoring => Reverted(f, At(t, f))'
    PROVE  FileFacts' /\ Order'
<1>1. /\ t \in Txs /\ Latest(t) /\ journal[t].status \in {"planned", "prepared", "conflict"}
      /\ \A j \in Txs : Latest(j) => j = t
  BY Current
<1>2. FileFacts'
  <2> SUFFICES ASSUME NEW f \in DOMAIN journal[t].files \ touched
               PROVE  /\ At(t, f)'.before = Missing <=> At(t, f)'.beforeMode = None
                      /\ journal[t].status # "planned" =>
                            /\ At(t, f)'.cp = At(t, f)'.before
                            /\ At(t, f)'.beforeMode # None => At(t, f)'.cpMode = At(t, f)'.beforeMode
                      /\ journal[t].status # "committed" /\ journal[t].status # "rolled_back"
                      /\ Running(t)' => /\ op'.step # "prepare"
                                        /\ op'.step \in Applying => Applied(f, At(t, f))'
                                        /\ op'.step \in Restoring => Reverted(f, At(t, f))'
    BY <1>1 DEF FileFacts, Latest, HasBefore, HasAfter
  <2>1. At(t, f)' = At(t, f)
    BY DEF At
  <2> QED BY <1>1, <2>1, Current DEF Running
<1>3. Order'
  BY <1>1 DEF IInv, Order, Unresolved, Running, Latest
<1> QED BY <1>2, <1>3

\* What Goto and Done make of the running operation.
LEMMA OpSteps ==
    ASSUME IInv, NEW step \in Steps, NEW todo \in SUBSET Files
    PROVE  /\ Goto(step, todo) => /\ op' \in OpRec /\ op'.step = step /\ op'.todo = todo
                                  /\ op'.tx = op.tx
           /\ Done => op' \in OpRec /\ op'.step = "idle" /\ op'.todo = {}
<1>1. op \in OpRec
  BY DEF IInv, StateShape
<1>2. Goto(step, todo) => /\ op' \in OpRec /\ op'.step = step /\ op'.todo = todo
                          /\ op'.tx = op.tx
  BY <1>1 DEF Goto, OpRec
<1>3. Done => op' \in OpRec /\ op'.step = "idle" /\ op'.todo = {}
  BY TransactionAssumption DEF Done, NoOp, OpRec, Steps
<1> QED BY <1>2, <1>3

\* One file of the workspace is changed.
DiskChange(f, x) ==
    /\ x \in File /\ (x.hash = Missing <=> x.mode = None)
    /\ disk' = [disk EXCEPT ![f] = x]

LEMMA DiskStep ==
    ASSUME IInv, NEW f \in Files, NEW x, DiskChange(f, x)
    PROVE  /\ disk' \in [Files -> File] /\ disk'[f] = x
           /\ \A g \in Files : disk'[g].hash = Missing <=> disk'[g].mode = None
           /\ \A g \in Files : g # f => disk'[g] = disk[g]
BY DEF IInv, StateShape, DiskChange

\* The operation ends, or goes back to validate, and changes no file.
LEMMA StopStep ==
    ASSUME IInv, op.step # "idle", UNCHANGED <<disk, journal, touched, raced, lost>>,
           \/ Done
           \/ Goto("validate", op.todo) /\ op.step \in Applying
    PROVE  IInv'
<1>1. PICK t : t = op.tx
  OBVIOUS
<1>2. op' \in OpRec /\ (op'.step = "idle" \/ (op'.step = "validate" /\ op'.tx = t
                                               /\ op'.todo = op.todo))
  BY <1>1, OpSteps, Types DEF Steps
<1>3. FileFacts' /\ Order'
  BY <1>1, <1>2, LoopStep DEF Applying, Restoring
<1>4. StateShape'
  BY <1>2 DEF IInv, StateShape
<1>5. OpShape'
  BY <1>1, <1>2 DEF IInv, OpShape, Unresolved, Applying, Restoring, Done, NoOp
<1>6. WindowFacts'
  BY <1>2 DEF IInv, WindowFacts, Restoring
<1> QED BY <1>3, <1>4, <1>5, <1>6 DEF IInv

LEMMA CheckStep == ASSUME IInv, Check PROVE IInv'
<1>1. PICK t : t = op.tx
  OBVIOUS
<1>2. PICK f \in Files : f = Min(op.todo) /\ f \in op.todo
  BY Types, Extremes DEF Check
<1>3. CASE disk[f].hash = At(t, f).before
  <2>1. op.step = "check" /\ Goto("write", op.todo)
        /\ UNCHANGED <<disk, journal, touched, raced, lost>>
    BY <1>1, <1>2, <1>3 DEF Check, Entries, At
  <2>2. op' \in OpRec /\ op'.step = "write" /\ op'.todo = op.todo /\ op'.tx = t
    BY <1>1, <2>1, OpSteps, Types DEF Steps
  <2>3. FileFacts' /\ Order'
    <3>1. \A g \in DOMAIN journal[t].files \ touched : Applied(g, At(t, g))'
      BY <1>1, <2>1, <2>2, Current DEF Applied, HasAfter, HasBefore, Applying, At
    <3> QED BY <1>1, <2>1, <2>2, <3>1, LoopStep DEF Applying, Restoring
  <2>4. StateShape'
    BY <2>1, <2>2 DEF IInv, StateShape
  <2>5. OpShape'
    BY <1>1, <1>2, <2>1, <2>2 DEF IInv, OpShape, Applying, Restoring
  <2>6. WindowFacts'
    BY <1>1, <1>2, <1>3, <2>1, <2>2 DEF IInv, WindowFacts, Restoring, At
  <2> QED BY <2>3, <2>4, <2>5, <2>6 DEF IInv
<1>4. CASE disk[f].hash # At(t, f).before
  BY <1>1, <1>2, <1>4, StopStep DEF Check, Entries, At, Applying
<1> QED BY <1>3, <1>4

LEMMA WriteStep == ASSUME IInv, Write PROVE IInv'
<1>1. PICK t : t = op.tx
  OBVIOUS
<1>2. PICK f \in Files : f = Min(op.todo) /\ f \in op.todo /\ f \in DOMAIN journal[t].files
  BY <1>1, Types, Extremes, Current DEF Write, IInv, OpShape
<1>3. PICK e : e = At(t, f) /\ e \in Entry /\ Entries[f] = e
  BY <1>1, <1>2, Types, Current DEF Write, At
<1> DEFINE x == IF e.after = Missing THEN Gone ELSE Written(f, e.after)
<1>4. DiskChange(f, x) /\ x.hash = e.after
  <2>1. Written(f, e.after) \in File /\ Written(f, e.after).hash = e.after
        /\ Written(f, e.after).mode # None
    BY <1>3, Outside, Types DEF Written, File, Entry, IInv, StateShape
  <2> QED BY <1>2, <1>3, <2>1, Outside DEF Write, DiskChange
<1> HIDE DEF x
<1>5. /\ op.step = "write" /\ UNCHANGED <<journal, touched, raced>>
      /\ lost' = IF disk[f].hash \in {e.before, Missing} THEN lost ELSE lost \cup {f}
  BY <1>2, <1>3 DEF Write, LosesAt
<1>6. /\ op' \in OpRec /\ op'.tx = t
      /\ e.after = Missing => op'.step = "check" /\ op'.todo = op.todo \ {f}
      /\ e.after # Missing => op'.step = "chmod" /\ op'.todo = op.todo
  BY <1>1, <1>2, <1>3, OpSteps, Types DEF Write, Steps
<1>7. StateShape'
  BY <1>2, <1>4, <1>5, <1>6, DiskStep DEF IInv, StateShape
<1>8. OpShape'
  BY <1>1, <1>2, <1>5, <1>6 DEF IInv, OpShape, Applying, Restoring
<1>9. FileFacts' /\ Order'
  <2>1. ASSUME NEW g \in DOMAIN journal[t].files \ touched
        PROVE  Applied(g, At(t, g))'
    <3>1. At(t, g)' = At(t, g) /\ g \in Files /\ Applied(g, At(t, g))
      BY <1>1, <1>5, Current, Types DEF At, Applying
    <3>2. CASE g = f
      <4>1. disk'[g] = x /\ (e.after = Missing => x = Gone)
        BY <1>4, <3>2, DiskStep DEF x
      <4> QED BY <1>2, <1>3, <1>4, <1>6, <3>1, <3>2, <4>1, Outside DEF Applied, HasAfter
    <3>3. CASE g # f
      <4>1. disk'[g] = disk[g]
        BY <1>2, <1>4, <3>1, <3>3, DiskStep
      <4> QED BY <1>2, <1>5, <1>6, <3>1, <3>3, <4>1 DEF Applied, HasAfter, HasBefore
    <3> QED BY <3>2, <3>3
  <2> QED BY <1>1, <1>5, <1>6, <2>1, LoopStep DEF Applying, Restoring
<1>10. WindowFacts'
  <2>1. disk[f].hash = e.before \/ f \in raced
    BY <1>1, <1>2, <1>3, <1>5 DEF IInv, WindowFacts
  <2> QED BY <1>5, <1>6, <2>1 DEF IInv, WindowFacts, Restoring
<1> QED BY <1>7, <1>8, <1>9, <1>10 DEF IInv

LEMMA ChmodStep == ASSUME IInv, Chmod PROVE IInv'
<1>1. PICK t : t = op.tx
  OBVIOUS
<1>2. PICK f \in Files : f = Min(op.todo) /\ f \in op.todo /\ f \in DOMAIN journal[t].files
  BY <1>1, Types, Extremes, Current DEF Chmod, IInv, OpShape
<1>3. PICK e : e = At(t, f) /\ e \in Entry /\ Entries[f] = e
  BY <1>1, <1>2, Types, Current DEF Chmod, At
<1>4. CASE disk[f].hash = Missing
  BY <1>2, <1>4, StopStep DEF Chmod, Applying
<1>5. CASE disk[f].hash # Missing
  <2>1. PICK r : r = disk[f] /\ r \in File
    BY <1>2, Types
  <2> DEFINE x == [r EXCEPT !.mode = e.afterMode]
  <2>2. x \in File /\ x.hash = disk[f].hash /\ x.mode = e.afterMode /\ e.afterMode \in Modes
    BY <1>3, <2>1 DEF File, Entry
  <2>3. DiskChange(f, x)
    <3>1. disk' = [disk EXCEPT ![f] = x]
      BY <1>2, <1>3, <1>5, <2>1 DEF Chmod
    <3> HIDE DEF x
    <3> QED BY <1>5, <2>2, <3>1, Outside DEF DiskChange
  <2> HIDE DEF x
  <2>4. /\ op.step = "chmod" /\ UNCHANGED <<journal, touched, raced, lost>>
        /\ Goto("check", op.todo \ {f})
    BY <1>2, <1>5 DEF Chmod
  <2>5. op' \in OpRec /\ op'.tx = t /\ op'.step = "check" /\ op'.todo = op.todo \ {f}
    BY <1>1, <2>4, OpSteps, Types DEF Steps
  <2>6. StateShape'
    BY <1>2, <2>3, <2>4, <2>5, DiskStep DEF IInv, StateShape
  <2>7. OpShape'
    BY <1>1, <1>2, <2>4, <2>5 DEF IInv, OpShape, Applying, Restoring
  <2>8. FileFacts' /\ Order'
    <3>1. ASSUME NEW g \in DOMAIN journal[t].files \ touched
          PROVE  Applied(g, At(t, g))'
      <4>1. At(t, g)' = At(t, g) /\ g \in Files /\ Applied(g, At(t, g))
        BY <1>1, <2>4, Current, Types DEF At, Applying
      <4>2. CASE g = f
        BY <1>2, <1>3, <2>2, <2>3, <2>4, <2>5, <4>1, <4>2, DiskStep DEF Applied, HasAfter
      <4>3. CASE g # f
        <5>1. disk'[g] = disk[g]
          BY <1>2, <2>3, <4>1, <4>3, DiskStep
        <5> QED BY <1>2, <2>4, <2>5, <4>1, <4>3, <5>1 DEF Applied, HasAfter, HasBefore
      <4> QED BY <4>2, <4>3
    <3> QED BY <1>1, <2>4, <2>5, <3>1, LoopStep DEF Applying, Restoring
  <2>9. WindowFacts'
    BY <2>4, <2>5 DEF IInv, WindowFacts, Restoring
  <2> QED BY <2>6, <2>7, <2>8, <2>9 DEF IInv
<1> QED BY <1>4, <1>5

\* A transaction is decided, or found to be in conflict, and its operation ends.
LEMMA StatusStep ==
    ASSUME IInv, op.step \notin {"idle", "prepare"}, NEW t, t = op.tx,
           NEW s \in {"committed", "rolled_back", "conflict"},
           SetStatus(s), Done, UNCHANGED <<disk, touched, raced, lost>>,
           \A f \in DOMAIN journal[t].files \ touched :
              /\ s = "committed" => HasAfter(f, At(t, f))
              /\ s = "rolled_back" => HasBefore(f, At(t, f))
    PROVE  IInv'
<1>1. /\ t \in Txs /\ Latest(t) /\ \A j \in Txs : Latest(j) => j = t
  BY Current
<1>2. journal[t].status \in {"prepared", "conflict"}
  BY Types DEF IInv, OpShape, Applying, Restoring, Unresolved, Steps
<1>3. /\ journal' \in [Txs -> JournalRec]
      /\ journal'[t].status = s /\ journal'[t].files = journal[t].files
      /\ \A j \in Txs : j # t => journal'[j] = journal[j]
  BY <1>1 DEF IInv, StateShape, SetStatus, JournalRec, Statuses
<1>4. op' \in OpRec /\ op'.step = "idle"
  BY OpSteps, Types DEF Steps
<1>5. \A j \in Txs : journal'[j].status = "unused" <=> journal[j].status = "unused"
  BY <1>2, <1>3
<1>6. StateShape'
  BY <1>3, <1>4 DEF IInv, StateShape
<1>7. OpShape'
  BY <1>4 DEF OpShape
<1>8. Order'
  BY <1>1, <1>3, <1>4, <1>5 DEF IInv, Order, Latest, Unresolved, Running
<1>9. FileFacts'
  <2> SUFFICES ASSUME NEW f \in DOMAIN journal[t].files \ touched
               PROVE  /\ At(t, f)'.before = Missing <=> At(t, f)'.beforeMode = None
                      /\ At(t, f)'.cp = At(t, f)'.before
                      /\ At(t, f)'.beforeMode # None => At(t, f)'.cpMode = At(t, f)'.beforeMode
                      /\ s = "committed" => HasAfter(f, At(t, f))'
                      /\ s = "rolled_back" => HasBefore(f, At(t, f))'
    BY <1>1, <1>3, <1>4, <1>5 DEF FileFacts, Latest, Running
  <2>1. At(t, f)' = At(t, f)
    BY <1>3 DEF At
  <2> QED BY <1>2, <2>1, Current DEF HasAfter, HasBefore
<1>10. WindowFacts'
  BY <1>4 DEF IInv, WindowFacts, Restoring
<1> QED BY <1>6, <1>7, <1>8, <1>9, <1>10 DEF IInv

LEMMA DecideSteps == ASSUME IInv, Commit \/ RolledBack PROVE IInv'
<1>1. PICK t : t = op.tx
  OBVIOUS
<1>2. CASE Commit
  <2>1. \A f \in DOMAIN journal[t].files \ touched : HasAfter(f, At(t, f))
    BY <1>1, <1>2, Current DEF Commit, Applied, Applying
  <2> QED BY <1>1, <1>2, <2>1, StatusStep DEF Commit
<1>3. CASE RolledBack
  <2>1. \A f \in DOMAIN journal[t].files \ touched : HasBefore(f, At(t, f))
    BY <1>1, <1>3, Current DEF RolledBack, Reverted, Restoring
  <2> QED BY <1>1, <1>3, <2>1, StatusStep DEF RolledBack
<1> QED BY <1>2, <1>3

LEMMA ValidateStep == ASSUME IInv, Validate PROVE IInv'
<1>1. PICK t : t = op.tx
  OBVIOUS
<1>2. op.step = "validate" /\ UNCHANGED <<disk, touched, raced, lost>>
  BY DEF Validate
<1>3. CASE SetStatus("conflict") /\ Done
  BY <1>1, <1>2, <1>3, StatusStep
<1>4. CASE Done /\ UNCHANGED journal
  BY <1>2, <1>4, StopStep
<1>5. CASE /\ \A f \in DOMAIN Entries : Recognised(f) /\ Entries[f].cp = Entries[f].before
           /\ Goto("restore", ToRestore) /\ UNCHANGED journal
  <2>1. t \in Txs /\ Entries = journal[t].files
    BY <1>1, <1>2, Current
  <2>2. op' \in OpRec /\ op'.step = "restore" /\ op'.tx = t /\ op'.todo = DOMAIN journal[t].files
    BY <1>1, <1>5, <2>1, OpSteps, Types DEF Steps, ToRestore
  <2>3. FileFacts' /\ Order'
    <3>1. \A f \in DOMAIN journal[t].files \ touched : Reverted(f, At(t, f))'
      BY <2>2 DEF Reverted
    <3> QED BY <1>1, <1>2, <1>5, <2>2, <3>1, LoopStep DEF Applying, Restoring
  <2>4. StateShape'
    BY <1>2, <1>5, <2>2 DEF IInv, StateShape
  <2>5. OpShape'
    BY <1>1, <1>2, <1>5, <2>1, <2>2 DEF IInv, OpShape, Applying, Restoring, Unresolved
  <2>6. WindowFacts'
    BY <1>2, <1>5, <2>1, <2>2 DEF IInv, WindowFacts, Restoring, At, Recognised
  <2> QED BY <2>3, <2>4, <2>5, <2>6 DEF IInv
<1> QED BY <1>3, <1>4, <1>5 DEF Validate

LEMMA RestoreStep == ASSUME IInv, Restore PROVE IInv'
<1>1. PICK t : t = op.tx
  OBVIOUS
<1>2. PICK f \in Files : f = Max(op.todo) /\ f \in op.todo /\ f \in DOMAIN journal[t].files
  BY <1>1, Types, Extremes, Current DEF Restore
<1>3. PICK e : e = At(t, f) /\ e \in Entry /\ Entries[f] = e
  BY <1>1, <1>2, Types, Current DEF Restore, At
<1>4. e.cp = e.before
  BY <1>1, <1>2, <1>3 DEF Restore, IInv, WindowFacts, Restoring
<1> DEFINE x == IF e.cp = Missing THEN Gone ELSE Written(f, e.cp)
<1>5. DiskChange(f, x) /\ x.hash = e.before
  <2>1. Written(f, e.cp) \in File /\ Written(f, e.cp).hash = e.cp /\ Written(f, e.cp).mode # None
    BY <1>3, Outside, Types DEF Written, File, Entry, IInv, StateShape
  <2> QED BY <1>2, <1>3, <1>4, <2>1, Outside DEF Restore, DiskChange
<1> HIDE DEF x
<1>6. /\ op.step = "restore" /\ UNCHANGED <<journal, touched, raced>>
      /\ lost' = IF disk[f].hash \in {e.before, e.after} \cup {Missing} THEN lost ELSE lost \cup {f}
  BY <1>2, <1>3 DEF Restore, LosesAt
<1>7. /\ op' \in OpRec /\ op'.tx = t
      /\ e.before = Missing => op'.step = "restore" /\ op'.todo = op.todo \ {f}
      /\ e.before # Missing => op'.step = "restoreMode" /\ op'.todo = op.todo
  BY <1>1, <1>2, <1>3, <1>4, OpSteps, Types DEF Restore, Steps
<1>8. StateShape'
  BY <1>2, <1>5, <1>6, <1>7, DiskStep DEF IInv, StateShape
<1>9. OpShape'
  BY <1>1, <1>2, <1>6, <1>7 DEF IInv, OpShape, Applying, Restoring, Unresolved
<1>10. FileFacts' /\ Order'
  <2>1. ASSUME NEW g \in DOMAIN journal[t].files \ touched
        PROVE  Reverted(g, At(t, g))'
    <3>1. At(t, g)' = At(t, g) /\ g \in Files /\ Reverted(g, At(t, g))
          /\ (At(t, g).before = Missing <=> At(t, g).beforeMode = None)
      BY <1>1, <1>6, Current, Types DEF At, Restoring
    <3>2. CASE g = f
      <4>1. disk'[g] = x /\ (e.before = Missing => x = Gone)
        BY <1>2, <1>4, <1>5, <3>2, DiskStep DEF x
      <4> QED BY <1>2, <1>3, <1>5, <1>7, <3>1, <3>2, <4>1, Outside DEF Reverted, HasBefore
    <3>3. CASE g # f
      <4>1. disk'[g] = disk[g]
        BY <1>2, <1>5, <3>1, <3>3, DiskStep
      <4> QED BY <1>2, <1>6, <1>7, <3>1, <3>3, <4>1 DEF Reverted, HasBefore
    <3> QED BY <3>2, <3>3
  <2> QED BY <1>1, <1>6, <1>7, <2>1, LoopStep DEF Applying, Restoring
<1>11. WindowFacts'
  <2>1. lost' \subseteq raced'
    BY <1>1, <1>2, <1>3, <1>6 DEF IInv, WindowFacts, Restoring
  <2>2. \A g \in DOMAIN journal[t].files : At(t, g)' = At(t, g)
    BY <1>6 DEF At
  <2>3. \A g \in DOMAIN journal[t].files : At(t, g).cp = At(t, g).before
    BY <1>1, <1>6 DEF IInv, WindowFacts, Restoring
  <2>4. ASSUME NEW g \in op.todo
        PROVE  g \in raced \/ disk'[g].hash \in {At(t, g).before, At(t, g).after}
    <3>1. g \in raced \/ disk[g].hash \in {At(t, g).before, At(t, g).after}
      BY <1>1, <1>6 DEF IInv, WindowFacts, Restoring
    <3>2. disk'[f].hash = At(t, f).before
      BY <1>2, <1>3, <1>5, DiskStep
    <3>3. g # f => disk'[g] = disk[g]
      BY <1>2, <1>5, DiskStep, Types
    <3> QED BY <3>1, <3>2, <3>3
  <2>5. op.todo \subseteq DOMAIN journal[t].files
    BY <1>1, <1>6, Current
  <2> QED BY <1>6, <1>7, <2>1, <2>2, <2>3, <2>4, <2>5 DEF WindowFacts, Restoring
<1> QED BY <1>8, <1>9, <1>10, <1>11 DEF IInv

LEMMA RestoreModeStep == ASSUME IInv, RestoreMode PROVE IInv'
<1>1. PICK t : t = op.tx
  OBVIOUS
<1>2. PICK f \in Files : f = Max(op.todo) /\ f \in op.todo /\ f \in DOMAIN journal[t].files
  BY <1>1, Types, Extremes, Current DEF RestoreMode, IInv, OpShape
<1>3. PICK e : e = At(t, f) /\ e \in Entry /\ Entries[f] = e
  BY <1>1, <1>2, Types, Current DEF RestoreMode, At
<1>4. CASE disk[f].hash = Missing
  BY <1>2, <1>4, StopStep DEF RestoreMode
<1>5. CASE disk[f].hash # Missing
  <2>1. PICK r : r = disk[f] /\ r \in File
    BY <1>2, Types
  <2> DEFINE x == [r EXCEPT !.mode = e.cpMode]
  <2>2. x \in File /\ x.hash = disk[f].hash /\ x.mode = e.cpMode /\ e.cpMode \in Modes
    BY <1>3, <2>1 DEF File, Entry
  <2>3. DiskChange(f, x)
    <3>1. disk' = [disk EXCEPT ![f] = x]
      BY <1>2, <1>3, <1>5, <2>1 DEF RestoreMode
    <3> HIDE DEF x
    <3> QED BY <1>5, <2>2, <3>1, Outside DEF DiskChange
  <2> HIDE DEF x
  <2>4. /\ op.step = "restoreMode" /\ UNCHANGED <<journal, touched, raced, lost>>
        /\ Goto("restore", op.todo \ {f})
    BY <1>2, <1>5 DEF RestoreMode
  <2>5. op' \in OpRec /\ op'.tx = t /\ op'.step = "restore" /\ op'.todo = op.todo \ {f}
    BY <1>1, <2>4, OpSteps, Types DEF Steps
  <2>6. StateShape'
    BY <1>2, <2>3, <2>4, <2>5, DiskStep DEF IInv, StateShape
  <2>7. OpShape'
    BY <1>1, <1>2, <2>4, <2>5 DEF IInv, OpShape, Applying, Restoring, Unresolved
  <2>8. FileFacts' /\ Order'
    <3>1. ASSUME NEW g \in DOMAIN journal[t].files \ touched
          PROVE  Reverted(g, At(t, g))'
      <4>1. /\ At(t, g)' = At(t, g) /\ g \in Files /\ Reverted(g, At(t, g))
            /\ (At(t, g).before = Missing <=> At(t, g).beforeMode = None)
            /\ At(t, g).beforeMode # None => At(t, g).cpMode = At(t, g).beforeMode
        BY <1>1, <2>4, Current, Types DEF At, Restoring, IInv, OpShape, Unresolved
      <4>2. CASE g = f
        BY <1>2, <1>3, <2>2, <2>3, <2>4, <2>5, <4>1, <4>2, DiskStep DEF Reverted, HasBefore
      <4>3. CASE g # f
        <5>1. disk'[g] = disk[g]
          BY <1>2, <2>3, <4>1, <4>3, DiskStep
        <5> QED BY <1>2, <2>4, <2>5, <4>1, <4>3, <5>1 DEF Reverted, HasBefore
      <4> QED BY <4>2, <4>3
    <3> QED BY <1>1, <2>4, <2>5, <3>1, LoopStep DEF Applying, Restoring
  <2>9. WindowFacts'
    <3>1. \A g \in DOMAIN journal[t].files : At(t, g)' = At(t, g)
      BY <2>4 DEF At
    <3>2. \A g \in op.todo \ {f} : disk'[g] = disk[g]
      BY <1>2, <2>3, DiskStep, Types
    <3>3. op.todo \subseteq DOMAIN journal[t].files
      BY <1>1, <2>4, Current
    <3> QED BY <1>1, <2>4, <2>5, <3>1, <3>2, <3>3 DEF IInv, WindowFacts, Restoring
  <2> QED BY <2>6, <2>7, <2>8, <2>9 DEF IInv
<1> QED BY <1>4, <1>5

LEMMA RecoverStep == ASSUME IInv, NEW j \in Txs, Recover(j) PROVE IInv'
<1>1. /\ op.step = "idle" /\ Unresolved(j) /\ UNCHANGED <<disk, journal, touched, raced, lost>>
      /\ op' = [step |-> "validate", tx |-> j, todo |-> {}]
  BY DEF Recover
<1>2. op' \in OpRec /\ op'.step = "validate" /\ op'.tx = j /\ op'.todo = {}
  BY <1>1, TransactionAssumption DEF OpRec, Steps, Txs
<1>3. StateShape'
  BY <1>1, <1>2 DEF IInv, StateShape
<1>4. OpShape'
  BY <1>1, <1>2 DEF OpShape, Applying, Restoring, Unresolved
<1>5. Order'
  BY <1>1, <1>2 DEF IInv, Order, Unresolved, Running, Latest
<1>6. FileFacts'
  BY <1>1, <1>2 DEF IInv, FileFacts, Latest, Running, HasBefore, HasAfter, Applying, Restoring, At
<1>7. WindowFacts'
  BY <1>1, <1>2 DEF IInv, WindowFacts, Restoring
<1> QED BY <1>3, <1>4, <1>5, <1>6, <1>7 DEF IInv

\* A plan starts from what the files are, and nothing before it is undecided.
LEMMA PlanStep ==
    ASSUME IInv, NEW j \in Txs, NEW S \in SUBSET Files, NEW after, NEW mode, NEW expected,
           \A f \in S : after[f] \in Contents /\ mode[f] \in Modes \cup {None},
           Plan(j, S, after, mode, expected)
    PROVE  IInv'
<1> DEFINE plan == [f \in S |->
              [before |-> disk[f].hash, beforeMode |-> disk[f].mode, after |-> after[f],
               afterMode |-> AfterMode(f, mode[f]), cp |-> Missing, cpMode |-> Private]]
<1>1. /\ op.step = "idle" /\ NextTx(j) /\ \A k \in Txs : ~Unresolved(k)
      /\ journal' = [journal EXCEPT ![j] = [status |-> "planned", files |-> plan]]
      /\ op' = [step |-> "prepare", tx |-> j, todo |-> S]
      /\ touched' = {} /\ UNCHANGED <<disk, raced, lost>>
  BY DEF Plan
<1>2. \A f \in S : AfterMode(f, mode[f]) \in Modes
  <2> TAKE f \in S
  <2>1. disk[f].mode \in Modes \cup {None} /\ mode[f] \in Modes \cup {None}
    BY Types
  <2> QED BY <2>1, Outside DEF AfterMode
<1>3. plan \in [S -> Entry]
  BY <1>2, Types, Outside DEF Entry
<1>4. \A f \in S : plan[f].before = disk[f].hash /\ plan[f].beforeMode = disk[f].mode
  OBVIOUS
<1> HIDE DEF plan
<1>5. plan \in Plans /\ DOMAIN plan = S
  BY <1>3, PlanShape
<1>6. /\ journal' \in [Txs -> JournalRec]
      /\ journal'[j].status = "planned" /\ journal'[j].files = plan
      /\ \A k \in Txs : k # j => journal'[k] = journal[k]
  BY <1>1, <1>5 DEF IInv, StateShape, JournalRec, Statuses
<1>7. op' \in OpRec /\ op'.step = "prepare" /\ op'.tx = j /\ op'.todo = S
  BY <1>1, TransactionAssumption DEF OpRec, Steps, Txs
<1>8. \A k \in Txs : k > j => journal[k].status = "unused"
  BY <1>1 DEF NextTx, IInv, Order
<1>9. StateShape'
  BY <1>1, <1>6, <1>7 DEF IInv, StateShape
<1>10. OpShape'
  BY <1>5, <1>6, <1>7 DEF OpShape, Applying, Restoring
<1>11. Order'
  <2> SUFFICES ASSUME NEW k \in Txs
               PROVE  /\ journal'[k].status # "unused" =>
                            \A i \in Txs : i < k => journal'[i].status # "unused"
                      /\ Unresolved(k)' \/ Running(k)' => Latest(k)'
    BY DEF Order
  <2>1. k # j => ~Unresolved(k)' /\ ~Running(k)'
    BY <1>1, <1>6, <1>7 DEF Unresolved, Running
  <2>2. Latest(j)'
    BY <1>6, <1>8 DEF Latest, Txs
  <2>3. journal'[k].status # "unused" => \A i \in Txs : i < k => journal'[i].status # "unused"
    BY <1>1, <1>6, <1>8 DEF IInv, Order, NextTx, Txs
  <2> QED BY <2>1, <2>2, <2>3
<1>12. FileFacts'
  <2>1. \A k \in Txs : Latest(k)' => k = j
    BY <1>1, <1>6, <1>8 DEF Latest, Txs, NextTx
  <2> SUFFICES ASSUME NEW f \in S
               PROVE  /\ plan[f].before = Missing <=> plan[f].beforeMode = None
                      /\ HasBefore(f, At(j, f))'
    BY <1>1, <1>5, <1>6, <1>7, <2>1 DEF FileFacts, At, Running, Applying, Restoring
  <2>2. At(j, f)' = plan[f]
    BY <1>6 DEF At
  <2> QED BY <1>1, <1>4, <2>2 DEF HasBefore, IInv, StateShape
<1>13. WindowFacts'
  BY <1>1, <1>7 DEF IInv, WindowFacts, Restoring
<1> QED BY <1>9, <1>10, <1>11, <1>12, <1>13 DEF IInv

LEMMA BeginSteps ==
    ASSUME IInv, NEW j \in Txs,
           Begin(j) \/ \E k \in Txs, f \in Files : BeginRestore(j, k, f)
    PROVE  IInv'
<1>1. CASE Begin(j)
  <2>1. PICK S \in SUBSET Files \ {{}} :
          \E after \in [S -> AgentContents \cup (IF Deletions THEN {Missing} ELSE {})],
             mode \in [S -> ModeChoices] : Plan(j, S, after, mode, [f \in S |-> None])
    BY <1>1 DEF Begin
  <2>2. PICK after \in [S -> AgentContents \cup (IF Deletions THEN {Missing} ELSE {})],
             mode \in [S -> ModeChoices] : Plan(j, S, after, mode, [f \in S |-> None])
    BY <2>1
  <2>3. \A f \in S : after[f] \in Contents /\ mode[f] \in Modes \cup {None}
    BY TransactionAssumption DEF Contents
  <2> QED BY <2>2, <2>3, PlanStep
<1>2. ASSUME NEW k \in Txs, NEW f \in Files, BeginRestore(j, k, f)
      PROVE  IInv'
  <2>1. PICK e \in Entry :
          Plan(j, {f}, [g \in {f} |-> e.cp], [g \in {f} |-> e.cpMode], [g \in {f} |-> e.after])
    BY <1>2, Types DEF BeginRestore, At
  <2>2. e.cp \in Contents /\ e.cpMode \in Modes \cup {None}
    BY DEF Entry
  <2>3. \A g \in {f} : [h \in {f} |-> e.cp][g] \in Contents
                       /\ [h \in {f} |-> e.cpMode][g] \in Modes \cup {None}
    BY <2>2
  <2> QED BY <2>1, <2>3, PlanStep
<1> QED BY <1>1, <1>2

\* The checkpoints of files that nobody has touched are what was planned.
LEMMA PrepareStep == ASSUME IInv, Prepare PROVE IInv'
<1>1. PICK t : t = op.tx
  OBVIOUS
<1>2. /\ op.step = "prepare" /\ Goto("check", op.todo) /\ UNCHANGED <<disk, touched, raced, lost>>
      /\ t \in Txs /\ Latest(t) /\ Entries = journal[t].files
      /\ \A j \in Txs : Latest(j) => j = t
  BY <1>1, Current DEF Prepare
<1>3. PICK S \in SUBSET Files, old \in {journal[t].files} : old \in [S -> Entry]
  BY <1>2, Types DEF Plans
<1> DEFINE new == [f \in S |-> [old[f] EXCEPT !.cp = disk[f].hash,
                                   !.cpMode = IF disk[f].mode = None THEN Private
                                                                     ELSE disk[f].mode]]
<1>4. journal' = [journal EXCEPT ![t] = [status |-> "prepared", files |-> new]]
  BY <1>1, <1>2, <1>3 DEF Prepare
<1>5. \A f \in S : /\ new[f] \in Entry /\ new[f].before = old[f].before
                   /\ new[f].beforeMode = old[f].beforeMode /\ new[f].cp = disk[f].hash
                   /\ new[f].cpMode = IF disk[f].mode = None THEN Private ELSE disk[f].mode
  <2> TAKE f \in S
  <2>1. PICK e, h, m : /\ e = old[f] /\ e \in Entry /\ h = disk[f].hash /\ h \in Contents
                       /\ m = (IF disk[f].mode = None THEN Private ELSE disk[f].mode) /\ m \in Modes
    BY <1>3, Types, Outside
  <2>2. new[f] = [e EXCEPT !.cp = h, !.cpMode = m]
    BY <2>1
  <2> QED BY <2>1, <2>2 DEF Entry
<1>6. new \in [S -> Entry]
  BY <1>5
<1> HIDE DEF new
<1>7. new \in Plans /\ DOMAIN new = S
  BY <1>6, PlanShape
<1>8. /\ journal' \in [Txs -> JournalRec]
      /\ journal'[t].status = "prepared" /\ journal'[t].files = new
      /\ \A k \in Txs : k # t => journal'[k] = journal[k]
  BY <1>2, <1>4, <1>7 DEF IInv, StateShape, JournalRec, Statuses
<1>9. op' \in OpRec /\ op'.step = "check" /\ op'.tx = t /\ op'.todo = S
  BY <1>1, <1>2, <1>3, OpSteps, Types DEF Steps, IInv, OpShape
<1>10. StateShape'
  BY <1>2, <1>8, <1>9 DEF IInv, StateShape
<1>11. OpShape'
  BY <1>2, <1>7, <1>8, <1>9 DEF OpShape, Applying, Restoring
<1>12. Order'
  BY <1>2, <1>8, <1>9 DEF IInv, Order, Latest, Unresolved, Running
<1>13. FileFacts'
  <2> SUFFICES ASSUME NEW f \in S \ touched
               PROVE  /\ new[f].before = Missing <=> new[f].beforeMode = None
                      /\ new[f].cp = new[f].before
                      /\ new[f].beforeMode # None => new[f].cpMode = new[f].beforeMode
                      /\ Applied(f, At(t, f))'
    BY <1>2, <1>7, <1>8, <1>9 DEF FileFacts, At, Latest, Running, Applying, Restoring
  <2>1. At(t, f)' = new[f] /\ At(t, f) = old[f]
    BY <1>3, <1>8 DEF At
  <2>2. HasBefore(f, old[f]) /\ (old[f].before = Missing <=> old[f].beforeMode = None)
    BY <1>1, <1>2, <1>3, <2>1, Current
  <2> QED BY <1>2, <1>5, <1>9, <2>1, <2>2 DEF HasBefore, Applied
<1>14. WindowFacts'
  BY <1>2, <1>9 DEF IInv, WindowFacts, Restoring
<1> QED BY <1>10, <1>11, <1>12, <1>13, <1>14 DEF IInv

\* A file the user changes is touched, and raced if a write is waiting for it.
LEMMA UserStep ==
    ASSUME IInv, NEW f \in Files, NEW new \in {Gone} \cup [hash: UserContents, mode: Modes],
           UserEdit(f, new)
    PROVE  IInv'
<1>1. /\ UNCHANGED <<journal, op, lost>> /\ touched' = touched \cup {f}
      /\ raced' = IF f \in Window THEN raced \cup {f} ELSE raced
  BY DEF UserEdit
<1>2. DiskChange(f, new)
  BY Outside DEF UserEdit, DiskChange, File, Contents
<1>3. StateShape'
  BY <1>1, <1>2, DiskStep DEF IInv, StateShape
<1>4. OpShape' /\ Order'
  BY <1>1 DEF IInv, OpShape, Order, Unresolved, Running, Latest
<1>5. FileFacts'
  <2> SUFFICES ASSUME NEW j \in Txs, Latest(j),
                      NEW g \in DOMAIN journal[j].files \ (touched \cup {f})
               PROVE  /\ At(j, g).before = Missing <=> At(j, g).beforeMode = None
                      /\ journal[j].status # "planned" =>
                            /\ At(j, g).cp = At(j, g).before
                            /\ At(j, g).beforeMode # None => At(j, g).cpMode = At(j, g).beforeMode
                      /\ journal[j].status = "committed" => HasAfter(g, At(j, g))'
                      /\ journal[j].status = "rolled_back" => HasBefore(g, At(j, g))'
                      /\ Running(j) =>
                            /\ op.step = "prepare" => HasBefore(g, At(j, g))'
                            /\ op.step \in Applying => Applied(g, At(j, g))'
                            /\ op.step \in Restoring => Reverted(g, At(j, g))'
    BY <1>1 DEF FileFacts, Latest, Running, At
  <2>1. At(j, g)' = At(j, g) /\ disk'[g] = disk[g]
    BY <1>1, <1>2, DiskStep, Types DEF At
  <2> QED BY <1>1, <2>1 DEF IInv, FileFacts, HasAfter, HasBefore, Applied, Reverted
<1>6. WindowFacts'
  <2>1. lost' \subseteq raced'
    BY <1>1 DEF IInv, WindowFacts
  <2>2. op.step = "write" => \/ Min(op.todo) \in raced'
                             \/ disk'[Min(op.todo)].hash = At(op.tx, Min(op.todo)).before
    <3>1. CASE op.step = "write" /\ Min(op.todo) # f
      <4>1. Min(op.todo) \in Files
        BY <3>1, Extremes, Types DEF IInv, OpShape
      <4> QED BY <1>1, <1>2, <3>1, <4>1, DiskStep DEF IInv, WindowFacts
    <3>2. CASE op.step = "write" /\ Min(op.todo) = f
      BY <1>1, <3>2 DEF Window
    <3> QED BY <3>1, <3>2
  <2>3. op.step \in Restoring =>
           \A g \in op.todo :
              g \in raced' \/ disk'[g].hash \in {At(op.tx, g).before, At(op.tx, g).after}
    <3> SUFFICES ASSUME op.step \in Restoring, NEW g \in op.todo
                 PROVE  g \in raced' \/ disk'[g].hash \in {At(op.tx, g).before, At(op.tx, g).after}
      OBVIOUS
    <3>1. CASE g = f
      BY <1>1, <3>1 DEF Window, Restoring
    <3>2. CASE g # f
      BY <1>1, <1>2, <3>2, DiskStep, Types DEF IInv, WindowFacts
    <3> QED BY <3>1, <3>2
  <2> QED BY <1>1, <2>1, <2>2, <2>3 DEF IInv, WindowFacts, At
<1> QED BY <1>3, <1>4, <1>5, <1>6 DEF IInv

----------------------------------------------------------------------------
(* The theorems.                                                           *)

LEMMA InitIInv == Init => IInv
<1> SUFFICES ASSUME Init PROVE IInv
  OBVIOUS
<1>1. [hash: Initial, mode: Modes] \subseteq File
  BY TransactionAssumption DEF File, Contents
<1>2. StateShape
  <2>1. disk \in [Files -> File]
    BY <1>1, Outside DEF Init
  <2>2. \A f \in Files : disk[f].hash = Missing <=> disk[f].mode = None
    BY Outside, TransactionAssumption DEF Init
  <2>3. NoJournal \in JournalRec
    BY PlanShape DEF NoJournal, JournalRec, Statuses
  <2>4. NoOp \in OpRec
    BY TransactionAssumption DEF NoOp, OpRec, Steps
  <2> QED BY <2>1, <2>2, <2>3, <2>4 DEF Init, StateShape
<1>3. op.step = "idle" /\ \A j \in Txs : journal[j].status = "unused"
  BY DEF Init, NoOp, NoJournal
<1>4. OpShape /\ Order /\ FileFacts
  BY <1>3 DEF OpShape, Order, FileFacts, Latest, Unresolved, Running
<1>5. WindowFacts
  BY <1>3 DEF Init, WindowFacts, Restoring
<1> QED BY <1>2, <1>4, <1>5 DEF IInv

LEMMA NextIInv == IInv /\ [Next]_vars => IInv'
<1> SUFFICES ASSUME IInv, [Next]_vars PROVE IInv'
  OBVIOUS
<1>1. CASE Prepare
  BY <1>1, PrepareStep
<1>2. CASE Check
  BY <1>2, CheckStep
<1>3. CASE Write
  BY <1>3, WriteStep
<1>4. CASE Chmod
  BY <1>4, ChmodStep
<1>5. CASE Commit \/ RolledBack
  BY <1>5, DecideSteps
<1>6. CASE Validate
  BY <1>6, ValidateStep
<1>7. CASE Restore
  BY <1>7, RestoreStep
<1>8. CASE RestoreMode
  BY <1>8, RestoreModeStep
<1>9. CASE Fail
  BY <1>9, StopStep DEF Fail, Applying
<1>10. CASE Crash
  BY <1>10, StopStep DEF Crash
<1>11. ASSUME NEW j \in Txs, Begin(j) \/ Recover(j) \/ \E k \in Txs, f \in Files : BeginRestore(j, k, f)
       PROVE  IInv'
  BY <1>11, BeginSteps, RecoverStep
<1>12. ASSUME NEW f \in Files, NEW new \in {Gone} \cup [hash: UserContents, mode: Modes],
              UserEdit(f, new)
       PROVE  IInv'
  BY <1>12, UserStep
<1>13. CASE UNCHANGED vars
  <2>1. StateShape' /\ OpShape' /\ Order'
    BY <1>13 DEF vars, IInv, StateShape, OpShape, Order, Unresolved, Running, Latest
  <2>2. FileFacts' /\ WindowFacts'
    BY <1>13 DEF vars, IInv, FileFacts, WindowFacts, At, Latest, Running, HasBefore, HasAfter,
       Applied, Reverted
  <2> QED BY <2>1, <2>2 DEF IInv
<1> QED
  BY <1>1, <1>2, <1>3, <1>4, <1>5, <1>6, <1>7, <1>8, <1>9, <1>10, <1>11, <1>12, <1>13
  DEF Next, Advance

\* The invariant of file transactions.
THEOREM Invariance == Spec => []IInv
BY InitIInv, NextIInv, PTL DEF Spec

\* Files, journals and the running operation keep the shape recovery parses.
THEOREM TypeCorrect == Spec => []TypeOK
<1>1. IInv => TypeOK
  BY Types DEF IInv, StateShape, TypeOK, At
<1> QED BY <1>1, Invariance, PTL

\* Through crashes, conflicts and failed recoveries no second transaction begins
\* while one is undecided.
THEOREM OneUndecided == Spec => []AtMostOneUndecided
<1>1. IInv => AtMostOneUndecided
  BY DEF IInv, Order, Unresolved, Latest, AtMostOneUndecided, Txs
<1> QED BY <1>1, Invariance, PTL

\* A decided transaction has all of its effect or none, on every file the user
\* has left alone since it was planned.
THEOREM Atomicity == Spec => []AllOrNothing
<1>1. IInv => AllOrNothing
  <2> SUFFICES ASSUME IInv, NEW j \in Txs, j = MaxTx \/ journal[j + 1].status = "unused",
                      journal[j].status # "unused",
                      NEW f \in DOMAIN journal[j].files \ touched
               PROVE  /\ journal[j].status = "committed" => HasAfter(f, At(j, f))
                      /\ journal[j].status = "rolled_back" => HasBefore(f, At(j, f))
    BY DEF AllOrNothing, HasAfter, HasBefore, At
  <2>1. Latest(j)
    <3> SUFFICES ASSUME NEW k \in Txs, k > j, journal[k].status # "unused" PROVE FALSE
      BY DEF Latest
    <3>1. j + 1 \in Txs /\ journal[j + 1].status = "unused" /\ j + 1 <= k
      BY TransactionAssumption DEF Txs
    <3> QED BY <3>1 DEF IInv, Order, Txs
  <2> QED BY <2>1 DEF IInv, FileFacts
<1> QED BY <1>1, Invariance, PTL

\* No content is replaced by an operation that never saw it, except in the window
\* between its check of that file and its write.
THEOREM UserContentIsKept == Spec => []UserContentKept
<1>1. IInv => UserContentKept
  BY DEF IInv, WindowFacts, UserContentKept
<1> QED BY <1>1, Invariance, PTL

----------------------------------------------------------------------------
(* Transactions are atomic changes.                                        *)

ChangeStep == Changes!ChangeNext \/ UNCHANGED <<KnownFiles, PlanState, PlanAfter>>

\* The plan under way is that of the one transaction that is not decided.
UnderWay(j) == Running(j) \/ Unresolved(j)

LEMMA PlanUnderWay ==
    IInv => /\ \A j \in Txs : UnderWay(j) => Planned = journal[j].files /\ PlanState # "none"
            /\ op.step = "idle" /\ (\A j \in Txs : ~Unresolved(j)) =>
                  Planned = <<>> /\ PlanState = "none"
<1> SUFFICES ASSUME IInv
             PROVE  /\ \A j \in Txs : UnderWay(j) => Planned = journal[j].files
                                                     /\ PlanState # "none"
                    /\ op.step = "idle" /\ (\A j \in Txs : ~Unresolved(j)) =>
                          Planned = <<>> /\ PlanState = "none"
  OBVIOUS
<1>1. ASSUME NEW j \in Txs, UnderWay(j)
      PROVE  Planned = journal[j].files /\ PlanState # "none"
  <2>1. Latest(j)
    BY <1>1 DEF IInv, Order, UnderWay
  <2>2. CASE op.step # "idle"
    <3>1. j = op.tx
      BY <2>1, <2>2, Current
    <3> QED BY <2>2, <3>1 DEF Planned, Entries, PlanState
  <2>3. CASE op.step = "idle"
    <3>1. Unresolved(j)
      BY <1>1, <2>3 DEF UnderWay, Running
    <3>2. \A k \in Undecided : k = j
      BY <2>1 DEF IInv, Order, Undecided, Latest, Txs
    <3>3. j \in Undecided
      BY <3>1 DEF Undecided
    <3>4. (CHOOSE k \in Undecided : TRUE) = j
      BY <3>2, <3>3
    <3> QED BY <2>3, <3>3, <3>4 DEF Planned, PlanState
  <2> QED BY <2>2, <2>3
<1>2. ASSUME op.step = "idle", \A j \in Txs : ~Unresolved(j)
      PROVE  Planned = <<>> /\ PlanState = "none"
  BY <1>2 DEF Planned, PlanState, Undecided
<1> QED BY <1>1, <1>2

\* The same of the state after a step.
LEMMA PlanUnderWayNext ==
    IInv' => /\ \A j \in Txs : UnderWay(j)' => Planned' = journal'[j].files /\ PlanState' # "none"
             /\ op'.step = "idle" /\ (\A j \in Txs : ~Unresolved(j)') =>
                   Planned' = <<>> /\ PlanState' = "none"
<1>1. (IInv => /\ \A j \in Txs : UnderWay(j) => Planned = journal[j].files /\ PlanState # "none"
               /\ op.step = "idle" /\ (\A j \in Txs : ~Unresolved(j)) =>
                     Planned = <<>> /\ PlanState = "none")'
  BY PlanUnderWay, PTL
<1> QED BY <1>1

\* What is known of the files while the plan under way has these entries.
LEMMA Knows ==
    ASSUME NEW files, Planned = files
    PROVE  /\ DOMAIN KnownFiles = Files \ touched /\ DOMAIN PlanAfter = DOMAIN files
           /\ \A f \in Files \ touched :
                 /\ f \in DOMAIN files =>
                      KnownFiles[f] = [hash |-> files[f].before, mode |-> files[f].beforeMode]
                 /\ f \notin DOMAIN files => KnownFiles[f] = disk[f]
           /\ \A f \in DOMAIN files :
                 PlanAfter[f] = [hash |-> files[f].after,
                                 mode |-> IF files[f].after = Missing THEN None
                                          ELSE files[f].afterMode]
BY DEF KnownFiles, PlanAfter

\* A step that keeps the plan under way, and changes no file outside it, gives it
\* up at most.
LEMMA PlanKept ==
    ASSUME IInv, IInv', NEW j \in Txs, UnderWay(j), UnderWay(j)', UNCHANGED touched,
           DOMAIN journal'[j].files = DOMAIN journal[j].files,
           \A f \in DOMAIN journal[j].files :
              /\ At(j, f)'.before = At(j, f).before /\ At(j, f)'.beforeMode = At(j, f).beforeMode
              /\ At(j, f)'.after = At(j, f).after /\ At(j, f)'.afterMode = At(j, f).afterMode,
           \A f \in Files \ DOMAIN journal[j].files : disk'[f] = disk[f],
           PlanState' = PlanState \/ (PlanState = "open" /\ PlanState' = "doomed")
    PROVE  ChangeStep
<1>1. Planned = journal[j].files /\ Planned' = journal'[j].files
  BY PlanUnderWay, PlanUnderWayNext
<1>2. KnownFiles' = KnownFiles
  BY <1>1 DEF KnownFiles, At
<1>3. PlanAfter' = PlanAfter
  BY <1>1 DEF PlanAfter, At
<1>4. CASE PlanState' = PlanState
  BY <1>2, <1>3, <1>4 DEF ChangeStep
<1>5. CASE PlanState = "open" /\ PlanState' = "doomed"
  BY <1>2, <1>3, <1>5 DEF ChangeStep, Changes!ChangeNext, Changes!GiveUp
<1> QED BY <1>4, <1>5

\* The same of a step that leaves the journal alone.
LEMMA SamePlan ==
    ASSUME IInv, IInv', NEW j \in Txs, UnderWay(j), UnderWay(j)', UNCHANGED <<journal, touched>>,
           \A f \in Files \ DOMAIN journal[j].files : disk'[f] = disk[f],
           PlanState' = PlanState \/ (PlanState = "open" /\ PlanState' = "doomed")
    PROVE  ChangeStep
<1>1. \A f \in DOMAIN journal[j].files : At(j, f)' = At(j, f)
  BY DEF At
<1> QED BY <1>1, PlanKept

\* While a loop runs it is about the last transaction, and no other file.
LEMMA LoopSteps ==
    ASSUME IInv, IInv', Check \/ Write \/ Chmod \/ Fail \/ Restore \/ RestoreMode
    PROVE  ChangeStep
<1>1. PICK t : t = op.tx
  OBVIOUS
<1>2. op.step # "idle" /\ UNCHANGED <<journal, touched>>
  BY DEF Check, Write, Chmod, Fail, Restore, RestoreMode
<1>3. t \in Txs /\ Entries = journal[t].files /\ op.todo \subseteq DOMAIN journal[t].files
  BY <1>1, <1>2, Current
<1>4. UnderWay(t)
  BY <1>1, <1>2 DEF UnderWay, Running
<1>5. op.step = "restoreMode" => Unresolved(t)
  BY <1>1 DEF IInv, OpShape, Restoring
<1>6. UnderWay(t)'
  BY <1>1, <1>2, <1>5 DEF UnderWay, Running, Unresolved, Check, Write, Chmod, Fail, Restore,
     RestoreMode, Goto, Done, NoOp, IInv, StateShape, OpRec
<1>7. PlanState' = PlanState \/ (PlanState = "open" /\ PlanState' = "doomed")
  <2>1. CASE Check \/ Write \/ Chmod \/ Fail
    <3>1. op.step \in Applying /\ op'.step \in Applying \cup {"validate"}
      BY <2>1 DEF Check, Write, Chmod, Fail, Applying, Goto, IInv, StateShape, OpRec
    <3> QED BY <3>1 DEF PlanState, Applying
  <2>2. CASE Restore \/ RestoreMode
    <3>1. op.step \in Restoring /\ op'.step \in Restoring \cup {"idle"}
      <4>1. CASE Restore
        BY <4>1 DEF Restore, Restoring, Goto, IInv, StateShape, OpRec
      <4>2. CASE RestoreMode
        <5>1. op.step = "restoreMode" /\ (Done \/ \E f \in {Max(op.todo)} : Goto("restore", op.todo \ {f}))
          BY <4>2 DEF RestoreMode
        <5> QED BY <5>1, OpSteps, Types DEF Restoring, Steps
      <4> QED BY <2>2, <4>1, <4>2
    <3>2. Unresolved(t)'
      BY <1>1, <1>2, <3>1 DEF IInv, OpShape, Unresolved
    <3> QED BY <1>3, <3>1, <3>2 DEF PlanState, Restoring, Undecided
  <2> QED BY <2>1, <2>2
<1>8. \A f \in Files \ DOMAIN journal[t].files : disk'[f] = disk[f]
  <2>1. CASE Check \/ Fail
    BY <2>1 DEF Check, Fail
  <2>2. CASE Write \/ Chmod
    <3>1. op.todo # {}
      BY <2>2 DEF IInv, OpShape, Write, Chmod
    <3>2. Min(op.todo) \in DOMAIN journal[t].files
      BY <1>3, <3>1, Extremes, Types
    <3> QED BY <2>2, <3>2 DEF Write, Chmod, IInv, StateShape
  <2>3. CASE Restore \/ RestoreMode
    <3>1. op.todo # {}
      BY <2>3 DEF IInv, OpShape, Restore, RestoreMode
    <3>2. Max(op.todo) \in DOMAIN journal[t].files
      BY <1>3, <3>1, Extremes, Types
    <3> QED BY <2>3, <3>2 DEF Restore, RestoreMode, IInv, StateShape
  <2> QED BY <2>1, <2>2, <2>3
<1> QED BY <1>2, <1>3, <1>4, <1>6, <1>7, <1>8, SamePlan

\* A journal is made durable with the plan it was drawn up with, and a recovery
\* takes up the plan that was left.
LEMMA PrepareImplements == ASSUME IInv, IInv', Prepare PROVE ChangeStep
<1>1. PICK t : t = op.tx
  OBVIOUS
<1>2. /\ op.step = "prepare" /\ t \in Txs /\ Entries = journal[t].files
      /\ UNCHANGED <<disk, touched>> /\ op'.step = "check" /\ op'.tx = t
  BY <1>1, Current DEF Prepare, Goto, IInv, StateShape, OpRec
<1>3. UnderWay(t) /\ UnderWay(t)' /\ PlanState' = PlanState
  BY <1>1, <1>2 DEF UnderWay, Running, PlanState
<1>4. PICK S \in SUBSET Files, old \in {journal[t].files} : old \in [S -> Entry]
  BY <1>2, Types DEF Plans
<1>5. journal'[t].files =
        [f \in S |-> [old[f] EXCEPT !.cp = disk[f].hash,
                                    !.cpMode = IF disk[f].mode = None THEN Private
                                                                      ELSE disk[f].mode]]
  BY <1>1, <1>2, <1>4 DEF Prepare, IInv, StateShape
<1>6. DOMAIN journal'[t].files = S /\ DOMAIN journal[t].files = S
  BY <1>4, <1>5
<1>7. ASSUME NEW f \in S
      PROVE  /\ At(t, f)'.before = At(t, f).before /\ At(t, f)'.beforeMode = At(t, f).beforeMode
             /\ At(t, f)'.after = At(t, f).after /\ At(t, f)'.afterMode = At(t, f).afterMode
  <2>1. PICK e, h, m : e = old[f] /\ e \in Entry /\ h = disk[f].hash
                       /\ m = (IF disk[f].mode = None THEN Private ELSE disk[f].mode)
    BY <1>4
  <2>2. At(t, f)' = [e EXCEPT !.cp = h, !.cpMode = m] /\ At(t, f) = e
    BY <1>4, <1>5, <2>1 DEF At
  <2> QED BY <2>1, <2>2 DEF Entry
<1> QED BY <1>2, <1>3, <1>6, <1>7, PlanKept

LEMMA RecoverImplements ==
    ASSUME IInv, IInv', NEW j \in Txs, Recover(j) PROVE ChangeStep
<1>1. UnderWay(j) /\ UnderWay(j)' /\ PlanState' = PlanState /\ UNCHANGED <<disk, journal, touched>>
  BY DEF Recover, UnderWay, Unresolved, PlanState, Undecided
<1> QED BY <1>1, SamePlan

\* Validating a plan decides nothing, even when it finds a conflict.
LEMMA ValidateImplements == ASSUME IInv, IInv', Validate PROVE ChangeStep
<1>1. PICK t : t = op.tx
  OBVIOUS
<1>2. /\ op.step = "validate" /\ t \in Txs /\ Unresolved(t) /\ UnderWay(t)
      /\ UNCHANGED <<disk, touched>>
  BY <1>1, Current DEF Validate, UnderWay, Running, IInv, OpShape
<1>3. /\ op'.step \in {"restore", "idle"} /\ Unresolved(t)'
      /\ journal'[t].files = journal[t].files
  <2>1. CASE SetStatus("conflict") /\ Done
    <3>1. journal'[t].status = "conflict" /\ journal'[t].files = journal[t].files
      BY <1>1, <1>2, <2>1, Types DEF SetStatus, IInv, StateShape, JournalRec
    <3> QED BY <2>1, <3>1 DEF Done, NoOp, Unresolved
  <2>2. CASE UNCHANGED journal /\ (Done \/ Goto("restore", ToRestore))
    <3>1. ToRestore \in SUBSET Files
      BY <1>1, <1>2, Current, Types DEF ToRestore
    <3>2. op'.step \in {"restore", "idle"}
      BY <2>2, <3>1, OpSteps DEF Steps
    <3> QED BY <1>2, <2>2, <3>2 DEF Unresolved
  <2> QED BY <2>1, <2>2 DEF Validate
<1>4. UnderWay(t)' /\ PlanState' = PlanState
  BY <1>2, <1>3 DEF UnderWay, PlanState, Undecided
<1>5. \A f \in DOMAIN journal[t].files : At(t, f)' = At(t, f)
  BY <1>3 DEF At
<1> QED BY <1>2, <1>3, <1>4, <1>5, PlanKept

\* The plan under way is over when its transaction is decided, or when whoever was
\* drawing it up dies before its journal is written.
LEMMA PlanOver ==
    ASSUME IInv, IInv', op.step # "idle", op'.step = "idle", UNCHANGED <<disk, touched>>,
           NEW t, t = op.tx, ~Unresolved(t)',
           \A j \in Txs : j # t => journal'[j] = journal[j]
    PROVE  /\ PlanState' = "none" /\ PlanAfter' = <<>>
           /\ DOMAIN KnownFiles' = DOMAIN KnownFiles
           /\ \A f \in DOMAIN KnownFiles' : KnownFiles'[f] = disk[f]
<1>1. t \in Txs /\ \A j \in Txs : Latest(j) => j = t
  BY Current
<1>2. \A j \in Txs : ~Unresolved(j)'
  <2> SUFFICES ASSUME NEW j \in Txs, j # t PROVE ~Unresolved(j)'
    OBVIOUS
  <2>1. ~Unresolved(j)
    BY <1>1 DEF IInv, Order
  <2> QED BY <2>1 DEF Unresolved
<1>3. Planned' = <<>> /\ PlanState' = "none"
  BY <1>2, PlanUnderWayNext
<1>4. DOMAIN <<>> = {} /\ \A h : h = <<>> <=> h = [f \in {} |-> h[f]]
  OBVIOUS
<1>5. PlanAfter' = <<>>
  BY <1>3, <1>4 DEF PlanAfter
<1>6. DOMAIN KnownFiles' = DOMAIN KnownFiles /\ \A f \in DOMAIN KnownFiles' : KnownFiles'[f] = disk[f]
  BY <1>3, <1>4 DEF KnownFiles
<1> QED BY <1>3, <1>5, <1>6

\* Who ends a transaction with its files as they were has changed nothing.
LEMMA PlanAbandoned ==
    ASSUME IInv, IInv', op.step # "idle", op'.step = "idle", UNCHANGED <<disk, touched>>,
           NEW t, t = op.tx, ~Unresolved(t)',
           \A j \in Txs : j # t => journal'[j] = journal[j],
           \A f \in DOMAIN journal[t].files \ touched : HasBefore(f, At(t, f))
    PROVE  ChangeStep
<1>1. /\ PlanState' = "none" /\ PlanAfter' = <<>>
      /\ DOMAIN KnownFiles' = DOMAIN KnownFiles
      /\ \A f \in DOMAIN KnownFiles' : KnownFiles'[f] = disk[f]
  BY PlanOver
<1>2. t \in Txs /\ UnderWay(t)
  BY Current DEF UnderWay, Running
<1>3. PICK files : files = journal[t].files /\ Planned = files /\ PlanState # "none"
  BY <1>2, PlanUnderWay
<1>4. ASSUME NEW f \in Files \ touched
      PROVE  disk[f] = KnownFiles[f]
  <2>1. CASE f \in DOMAIN files
    <3>1. PICK r : r = disk[f] /\ r \in File
      BY Types
    <3>2. r.hash = files[f].before /\ r.mode = files[f].beforeMode
      BY <1>3, <2>1, <3>1 DEF HasBefore, At
    <3>3. r = [hash |-> files[f].before, mode |-> files[f].beforeMode]
      BY <3>1, <3>2 DEF File
    <3> QED BY <1>3, <2>1, <3>1, <3>3, Knows
  <2>2. CASE f \notin DOMAIN files
    BY <1>3, <2>2, Knows
  <2> QED BY <2>1, <2>2
<1>5. KnownFiles' = KnownFiles
  BY <1>1, <1>3, <1>4, Knows DEF KnownFiles
<1> QED BY <1>1, <1>3, <1>5 DEF ChangeStep, Changes!ChangeNext, Changes!AbandonChange, Changes!NoChange

\* A transaction that commits has changed all of its files, and one that is rolled
\* back none.
LEMMA DecideImplements == ASSUME IInv, IInv', Commit \/ RolledBack PROVE ChangeStep
<1>1. PICK t : t = op.tx
  OBVIOUS
<1>2. /\ op.step # "idle" /\ op'.step = "idle" /\ UNCHANGED <<disk, touched>>
      /\ t \in Txs /\ UnderWay(t) /\ op.todo = {}
  BY <1>1, Current DEF Commit, RolledBack, Done, NoOp, UnderWay, Running
<1>3. /\ ~Unresolved(t)' /\ \A j \in Txs : j # t => journal'[j] = journal[j]
  BY <1>1, <1>2, Types DEF Commit, RolledBack, SetStatus, Unresolved, IInv, StateShape, JournalRec
<1>4. /\ PlanState' = "none" /\ PlanAfter' = <<>>
      /\ DOMAIN KnownFiles' = DOMAIN KnownFiles
      /\ \A f \in DOMAIN KnownFiles' : KnownFiles'[f] = disk[f]
  BY <1>1, <1>2, <1>3, PlanOver
<1>5. PICK files : files = journal[t].files /\ Planned = files
  BY <1>2, PlanUnderWay
<1>6. CASE Commit
  <2>1. PlanState = "open"
    BY <1>6 DEF Commit, PlanState
  <2>2. ASSUME NEW f \in Files \ touched
        PROVE  disk[f] = IF f \in DOMAIN PlanAfter THEN PlanAfter[f] ELSE KnownFiles[f]
    <3>1. CASE f \in DOMAIN files
      <4>1. HasAfter(f, files[f])
        BY <1>1, <1>5, <1>6, <3>1, Current DEF Commit, Applied, Applying, At
      <4>2. PICK r : r = disk[f] /\ r \in File /\ (r.hash = Missing <=> r.mode = None)
        BY Types DEF IInv, StateShape
      <4>3. r.hash = files[f].after
            /\ r.mode = IF files[f].after = Missing THEN None ELSE files[f].afterMode
        BY <4>1, <4>2 DEF HasAfter
      <4>4. r = [hash |-> files[f].after,
                 mode |-> IF files[f].after = Missing THEN None ELSE files[f].afterMode]
        BY <4>2, <4>3 DEF File
      <4> QED BY <1>5, <3>1, <4>2, <4>4, Knows
    <3>2. CASE f \notin DOMAIN files
      BY <1>5, <3>2, Knows
    <3> QED BY <3>1, <3>2
  <2>3. KnownFiles' = [f \in DOMAIN KnownFiles |->
                         IF f \in DOMAIN PlanAfter THEN PlanAfter[f] ELSE KnownFiles[f]]
    BY <1>2, <1>4, <1>5, <2>2, Knows DEF KnownFiles
  <2> QED BY <1>4, <2>1, <2>3 DEF ChangeStep, Changes!ChangeNext, Changes!CommitChange, Changes!NoChange
<1>7. CASE RolledBack
  <2>1. \A f \in DOMAIN journal[t].files \ touched : HasBefore(f, At(t, f))
    BY <1>1, <1>2, <1>7, Current DEF RolledBack, Reverted, Restoring
  <2> QED BY <1>1, <1>2, <1>3, <2>1, PlanAbandoned
<1> QED BY <1>6, <1>7

\* Who dies leaves the plan to the next operation, unless it was not written yet.
LEMMA CrashImplements == ASSUME IInv, IInv', Crash PROVE ChangeStep
<1>1. PICK t : t = op.tx
  OBVIOUS
<1>2. /\ op.step # "idle" /\ op'.step = "idle" /\ UNCHANGED <<disk, journal, touched>>
      /\ t \in Txs /\ UnderWay(t)
  BY <1>1, Current DEF Crash, Done, NoOp, UnderWay, Running
<1>3. CASE op.step = "prepare"
  <2>1. ~Unresolved(t)' /\ \A f \in DOMAIN journal[t].files \ touched : HasBefore(f, At(t, f))
    BY <1>1, <1>2, <1>3, Current DEF Unresolved, IInv, OpShape
  <2> QED BY <1>1, <1>2, <2>1, PlanAbandoned
<1>4. CASE op.step # "prepare"
  <2>1. Unresolved(t) /\ Unresolved(t)'
    BY <1>1, <1>2, <1>4, Types DEF IInv, OpShape, Unresolved, Applying, Restoring, Steps
  <2>2. UnderWay(t)' /\ PlanState' = "doomed" /\ PlanState \in {"open", "doomed"}
    BY <1>2, <2>1 DEF UnderWay, PlanState, Undecided
  <2> QED BY <1>2, <2>2, SamePlan
<1> QED BY <1>3, <1>4

\* A plan is drawn up when none is under way, from what the files are.
LEMMA PlanImplements ==
    ASSUME IInv, IInv', NEW j \in Txs, NEW S \in SUBSET Files, NEW after, NEW mode, NEW expected,
           Plan(j, S, after, mode, expected)
    PROVE  ChangeStep
<1>1. /\ op.step = "idle" /\ \A k \in Txs : ~Unresolved(k)
      /\ op'.step = "prepare" /\ op'.tx = j /\ touched' = {} /\ UNCHANGED disk
  BY DEF Plan
<1>2. Planned = <<>> /\ PlanState = "none"
  BY <1>1, PlanUnderWay
<1>3. UnderWay(j)' /\ PlanState' = "open"
  BY <1>1 DEF UnderWay, Running, PlanState
<1>4. PICK files : files = journal'[j].files /\ Planned' = files
  BY <1>3, PlanUnderWayNext
<1>5. /\ DOMAIN files = S
      /\ \A f \in S : files[f].before = disk[f].hash /\ files[f].beforeMode = disk[f].mode
  <2>1. journal'[j] =
          [status |-> "planned",
           files |-> [f \in S |->
              [before |-> disk[f].hash, beforeMode |-> disk[f].mode, after |-> after[f],
               afterMode |-> AfterMode(f, mode[f]), cp |-> Missing, cpMode |-> Private]]]
    BY DEF Plan, IInv, StateShape
  <2>2. files = [f \in S |->
              [before |-> disk[f].hash, beforeMode |-> disk[f].mode, after |-> after[f],
               afterMode |-> AfterMode(f, mode[f]), cp |-> Missing, cpMode |-> Private]]
    BY <1>4, <2>1
  <2> QED BY <2>2
<1>6. \A f \in S : files[f] \in Entry
  <2>1. files \in Plans
    BY <1>4 DEF IInv, StateShape, JournalRec
  <2> QED BY <1>5, <2>1, PlanShape
<1>7. /\ DOMAIN KnownFiles = Files \ touched
      /\ \A f \in Files \ touched : KnownFiles[f] = disk[f]
  <2>1. DOMAIN <<>> = {}
    OBVIOUS
  <2> QED BY <1>2, <2>1 DEF KnownFiles
<1>8. DOMAIN KnownFiles' = Files /\ \A f \in Files : KnownFiles'[f] = disk[f]
  <2>1. ASSUME NEW f \in S
        PROVE  disk[f] = [hash |-> files[f].before, mode |-> files[f].beforeMode]
    <3>1. PICK r : r = disk[f] /\ r \in File
      BY Types
    <3>2. r = [hash |-> r.hash, mode |-> r.mode]
      BY <3>1 DEF File
    <3> QED BY <1>5, <3>1, <3>2
  <2> QED BY <1>1, <1>4, <1>5, <2>1 DEF KnownFiles
<1>9. /\ DOMAIN PlanAfter' = S
      /\ \A f \in S : PlanAfter'[f] \in File
  BY <1>4, <1>5, <1>6 DEF PlanAfter, Entry, File
<1>10. Changes!BeginChange
  BY <1>2, <1>3, <1>7, <1>8, <1>9, Types DEF Changes!BeginChange
<1> QED BY <1>10 DEF ChangeStep, Changes!ChangeNext

LEMMA BeginImplements ==
    ASSUME IInv, IInv', NEW j \in Txs,
           Begin(j) \/ \E k \in Txs, f \in Files : BeginRestore(j, k, f)
    PROVE  ChangeStep
<1>1. CASE Begin(j)
  <2>1. PICK S \in SUBSET Files \ {{}} :
          \E after \in [S -> AgentContents \cup (IF Deletions THEN {Missing} ELSE {})],
             mode \in [S -> ModeChoices] : Plan(j, S, after, mode, [f \in S |-> None])
    BY <1>1 DEF Begin
  <2> QED BY <2>1, PlanImplements
<1>2. ASSUME NEW k \in Txs, NEW f \in Files, BeginRestore(j, k, f)
      PROVE  ChangeStep
  <2>1. PICK e : Plan(j, {f}, [g \in {f} |-> e.cp], [g \in {f} |-> e.cpMode], [g \in {f} |-> e.after])
    BY <1>2 DEF BeginRestore
  <2> QED BY <2>1, PlanImplements
<1> QED BY <1>1, <1>2

\* A file the user changes is one nobody promises anything about.
LEMMA UserImplements ==
    ASSUME IInv, IInv', NEW f \in Files, NEW new, UserEdit(f, new)
    PROVE  ChangeStep
<1>1. /\ UNCHANGED <<journal, op>> /\ touched' = touched \cup {f}
      /\ \A g \in Files \ {f} : disk'[g] = disk[g]
  BY DEF UserEdit, IInv, StateShape
<1>2. PICK files : files = Planned /\ files = Planned'
  BY <1>1 DEF Planned, Entries, Undecided, Unresolved
<1>3. UNCHANGED <<PlanState, PlanAfter>>
  BY <1>1, <1>2 DEF PlanState, PlanAfter, Undecided, Unresolved
<1>4. /\ DOMAIN KnownFiles = Files \ touched /\ DOMAIN KnownFiles' = Files \ (touched \cup {f})
      /\ KnownFiles' = [g \in DOMAIN KnownFiles \ {f} |-> KnownFiles[g]]
  BY <1>1, <1>2 DEF KnownFiles
<1>5. CASE f \in touched
  <2>1. KnownFiles' = KnownFiles
    BY <1>1, <1>2, <1>5 DEF KnownFiles
  <2> QED BY <1>3, <2>1 DEF ChangeStep
<1>6. CASE f \notin touched
  <2>1. Changes!OthersChange(f)
    BY <1>3, <1>4, <1>6 DEF Changes!OthersChange
  <2> QED BY <2>1 DEF ChangeStep, Changes!ChangeNext
<1> QED BY <1>5, <1>6

LEMMA NextImplements == IInv /\ IInv' /\ [Next]_vars => ChangeStep
<1> SUFFICES ASSUME IInv, IInv', [Next]_vars PROVE ChangeStep
  OBVIOUS
<1>1. CASE Check \/ Write \/ Chmod \/ Fail \/ Restore \/ RestoreMode
  BY <1>1, LoopSteps
<1>2. CASE Prepare
  BY <1>2, PrepareImplements
<1>3. CASE Commit \/ RolledBack
  BY <1>3, DecideImplements
<1>4. CASE Validate
  BY <1>4, ValidateImplements
<1>5. CASE Crash
  BY <1>5, CrashImplements
<1>6. ASSUME NEW j \in Txs, Begin(j) \/ Recover(j) \/ \E k \in Txs, f \in Files : BeginRestore(j, k, f)
      PROVE  ChangeStep
  BY <1>6, BeginImplements, RecoverImplements
<1>7. ASSUME NEW f \in Files, NEW new \in {Gone} \cup [hash: UserContents, mode: Modes],
             UserEdit(f, new)
      PROVE  ChangeStep
  BY <1>7, UserImplements
<1>8. CASE UNCHANGED vars
  BY <1>8 DEF vars, ChangeStep, KnownFiles, PlanState, PlanAfter, Planned, Undecided, Unresolved,
     Entries
<1> QED BY <1>1, <1>2, <1>3, <1>4, <1>5, <1>6, <1>7, <1>8 DEF Next, Advance

LEMMA InitImplements == Init => Changes!ChangeInit
<1> SUFFICES ASSUME Init PROVE Changes!ChangeInit
  OBVIOUS
<1>1. IInv /\ op.step = "idle" /\ touched = {} /\ \A j \in Txs : ~Unresolved(j)
  BY InitIInv DEF Init, NoOp, NoJournal, Unresolved
<1>2. Planned = <<>> /\ PlanState = "none"
  BY <1>1, PlanUnderWay
<1>3. PlanAfter = <<>>
  <2>1. DOMAIN <<>> = {} /\ \A h : h = <<>> <=> h = [f \in {} |-> h[f]]
    OBVIOUS
  <2> QED BY <1>2, <2>1 DEF PlanAfter
<1>4. KnownFiles \in [Files -> File]
  <2>1. DOMAIN <<>> = {} /\ \A f \in Files : disk[f] \in File
    BY <1>1, Types
  <2> QED BY <1>1, <1>2, <2>1 DEF KnownFiles
<1> QED BY <1>2, <1>3, <1>4 DEF Changes!ChangeInit, Changes!NoChange

\* A transaction is one change that happens to all of its files or to none, for
\* any workspace and any number of transactions, edits and deaths: every step is
\* one of AtomicChanges under the mapping, or changes nothing that it speaks of.
THEOREM TransactionsAreAtomicChanges == Spec => ImplementsChanges
<1>1. IInv /\ IInv' /\ [Next]_vars => [Changes!ChangeNext]_(Changes!cvars)
  BY NextImplements DEF ChangeStep, Changes!cvars
<1> QED BY <1>1, InitImplements, Invariance, PTL DEF Spec, ImplementsChanges, Changes!ChangeSpec

=============================================================================
