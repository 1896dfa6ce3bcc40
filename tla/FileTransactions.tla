-------------------------- MODULE FileTransactions --------------------------
(***************************************************************************)
(* File transactions of claude-pi: src/file-transactions.ts, with          *)
(* src/atomic-write.ts and the checkpoints of src/checkpoints.ts.          *)
(*                                                                         *)
(* A transaction runs under the repository lock, so there is one operation *)
(* at a time (`op'); what it does not exclude is the user's editor and its *)
(* own death.  Every access to a workspace file is a step.  A file is its  *)
(* hash and its permission bits; a content and its hash are one value.     *)
(***************************************************************************)
EXTENDS Integers, FiniteSets, FiniteSetsExt

CONSTANTS
    NumFiles,     \* files of the workspace, in the order a plan lists them
    UserContents, \* contents the user writes
    Initial,      \* those the workspace may start with
    AgentContents,\* contents agents write
    Modes,        \* permission bits of a file
    Private,      \* 0600, what writeFileAtomic gives a new file
    ModeChoices,  \* change.mode: permission bits, or None when it is left out
    Deletions,    \* whether changes may delete a file
    MaxTx,        \* transactions ever begun
    MaxUserEdits, \* edits by the user
    MaxCrashes,   \* deaths of the process that runs an operation
    None

Missing  == "missing"
Files    == 1..NumFiles
Txs      == 1..MaxTx
Contents == UserContents \cup AgentContents \cup {Missing}

ASSUME TransactionAssumption ==
    /\ NumFiles \in Nat \ {0} /\ MaxTx \in Nat /\ MaxUserEdits \in Nat /\ MaxCrashes \in Nat
    /\ Initial \subseteq UserContents /\ Private \in Modes /\ ModeChoices \subseteq Modes \cup {None}
    /\ None \notin Modes /\ Missing \notin UserContents \cup AgentContents
    /\ Deletions \in BOOLEAN

VARIABLES
    disk,    \* the workspace files
    journal, \* .agent/transactions/<id>.json with its checkpoints
    op,      \* the operation under the repository lock
    touched, \* files the user has changed since the last transaction was planned
    raced,   \* files the user has changed between an operation's check and its write
    lost,    \* files whose content was replaced by an operation that never saw it
    edits, crashes

vars == <<disk, journal, op, touched, raced, lost, edits, crashes>>

File == [hash: Contents, mode: Modes \cup {None}]
Gone == [hash |-> Missing, mode |-> None]

\* One file of a journal: the checkpoint is what was read when it was saved.
Entry == [before: Contents, beforeMode: Modes \cup {None}, after: Contents,
          afterMode: Modes, cp: Contents, cpMode: Modes]

Statuses == {"unused", "planned", "prepared", "committed", "rolled_back", "conflict"}

NoJournal == [status |-> "unused", files |-> <<>>]

Steps == {"idle", "prepare", "check", "write", "chmod", "validate", "restore", "restoreMode"}

\* todo: the files the running loop has still to visit.
NoOp == [step |-> "idle", tx |-> 0, todo |-> {}]

Init ==
    /\ disk \in [Files -> {Gone} \cup [hash: Initial, mode: Modes]]
    /\ journal = [j \in Txs |-> NoJournal]
    /\ op = NoOp
    /\ touched = {} /\ raced = {} /\ lost = {}
    /\ edits = 0 /\ crashes = 0

----------------------------------------------------------------------------
(* Helpers.                                                                *)

\* Mutant: a recovery that met a conflict once is not tried again.
Unresolved_PreparedOnly(j) == journal[j].status = "prepared"

Unresolved(j) == journal[j].status \in {"prepared", "conflict"}

NextTx(j) == journal[j].status = "unused" /\ \A k \in Txs : k < j => journal[k].status # "unused"

Goto(step, todo) == op' = [op EXCEPT !.step = step, !.todo = todo]
Done             == op' = NoOp

Entries      == journal[op.tx].files
SetStatus(s) == journal' = [journal EXCEPT ![op.tx].status = s]

\* writeFileAtomic: a rename that keeps the bits of the file it replaces.
Written(f, content) ==
    [hash |-> content, mode |-> IF disk[f].hash = Missing THEN Private ELSE disk[f].mode]

\* change.mode ?? (beforeMode || 0o600)
AfterMode(f, mode) == CASE mode # None         -> mode
                        [] disk[f].mode # None -> disk[f].mode
                        [] OTHER               -> Private

\* The content an operation replaces was neither expected nor of its making.
LosesAt(f, known) == lost' = IF disk[f].hash \in known \cup {Missing} THEN lost ELSE lost \cup {f}

----------------------------------------------------------------------------
(* Beginning a transaction.                                                *)

\* Recovery has found nothing unresolved; the plan reads every file.  It is
\* refused when a file is not what the caller expects.
Plan(j, S, after, mode, expected) ==
    /\ op.step = "idle" /\ NextTx(j)
    /\ \A k \in Txs : ~Unresolved(k)
    /\ \A f \in S : expected[f] \in {None, disk[f].hash}
    /\ journal' = [journal EXCEPT ![j] =
          [status |-> "planned",
           files |-> [f \in S |->
              [before |-> disk[f].hash, beforeMode |-> disk[f].mode, after |-> after[f],
               afterMode |-> AfterMode(f, mode[f]), cp |-> Missing, cpMode |-> Private]]]]
    /\ op' = [step |-> "prepare", tx |-> j, todo |-> S]
    /\ touched' = {}
    /\ UNCHANGED <<disk, raced, lost, edits, crashes>>

\* An edit, a multi-file edit or an integration; one that passes its
\* expectedHash goes on like one that has none.
Begin(j) ==
    \E S \in SUBSET Files \ {{}} :
        \E after \in [S -> AgentContents \cup (IF Deletions THEN {Missing} ELSE {})],
           mode \in [S -> ModeChoices] : Plan(j, S, after, mode, [f \in S |-> None])

\* restoreFileCheckpoint: the transaction that takes a committed edit back.
BeginRestore(j, k, f) ==
    /\ journal[k].status = "committed" /\ f \in DOMAIN journal[k].files
    /\ LET e == journal[k].files[f]
       IN /\ e.cp = Missing => Deletions
          /\ Plan(j, {f}, [g \in {f} |-> e.cp], [g \in {f} |-> e.cpMode],
                  [g \in {f} |-> e.after])

\* The checkpoints read the files again, then the journal is made durable.
Prepare ==
    /\ op.step = "prepare"
    /\ journal' = [journal EXCEPT ![op.tx] =
          [status |-> "prepared",
           files |-> [f \in DOMAIN Entries |->
              [Entries[f] EXCEPT !.cp = disk[f].hash,
                                 !.cpMode = IF disk[f].mode = None THEN Private
                                                                   ELSE disk[f].mode]]]]
    /\ Goto("check", op.todo)
    /\ UNCHANGED <<disk, touched, raced, lost, edits, crashes>>

----------------------------------------------------------------------------
(* Applying the files of a plan in order.                                  *)

Check ==
    /\ op.step = "check" /\ op.todo # {}
    /\ LET f == Min(op.todo)
       IN Goto(IF disk[f].hash = Entries[f].before THEN "write" ELSE "validate", op.todo)
    /\ UNCHANGED <<disk, journal, touched, raced, lost, edits, crashes>>

Write ==
    LET f == Min(op.todo)
        e == Entries[f]
    IN /\ op.step = "write"
       /\ LosesAt(f, {e.before})
       /\ IF e.after = Missing
          THEN /\ disk' = [disk EXCEPT ![f] = Gone]
               /\ Goto("check", op.todo \ {f})
          ELSE /\ disk' = [disk EXCEPT ![f] = Written(f, e.after)]
               /\ Goto("chmod", op.todo)
       /\ UNCHANGED <<journal, touched, raced, edits, crashes>>

Chmod ==
    LET f == Min(op.todo) IN
    /\ op.step = "chmod"
    /\ IF disk[f].hash = Missing
       THEN UNCHANGED disk /\ Goto("validate", op.todo)
       ELSE /\ disk' = [disk EXCEPT ![f].mode = Entries[f].afterMode]
            /\ Goto("check", op.todo \ {f})
    /\ UNCHANGED <<journal, touched, raced, lost, edits, crashes>>

\* Any call of the loop may throw: the catch block rolls back.
Fail ==
    /\ op.step \in {"check", "write", "chmod"}
    /\ Goto("validate", op.todo)
    /\ UNCHANGED <<disk, journal, touched, raced, lost, edits, crashes>>

Commit ==
    /\ op.step = "check" /\ op.todo = {}
    /\ SetStatus("committed") /\ Done
    /\ UNCHANGED <<disk, touched, raced, lost, edits, crashes>>

----------------------------------------------------------------------------
(* Rolling back, at once or when the next operation finds the journal.     *)

Recover(j) ==
    /\ op.step = "idle" /\ Unresolved(j)
    /\ op' = [step |-> "validate", tx |-> j, todo |-> {}]
    /\ UNCHANGED <<disk, journal, touched, raced, lost, edits, crashes>>

\* Mutants: only the new version is taken for the transaction's own; bits are
\* looked at, contents are not.
Recognised_AfterOnly(f) == disk[f].hash = Entries[f].after
Recognised_AnyHash(f) ==
    disk[f].hash # Missing => disk[f].mode \in {Entries[f].beforeMode, Entries[f].afterMode}

Recognised(f) ==
    /\ disk[f].hash \in {Entries[f].before, Entries[f].after}
    /\ disk[f].hash # Missing => disk[f].mode \in {Entries[f].beforeMode, Entries[f].afterMode}

\* Mutant: only the files applied in full are taken back.
ToRestore_AppliedOnly == DOMAIN Entries \ op.todo

\* The file being written when the error came is among them.
ToRestore == DOMAIN Entries

\* The whole plan is validated first: a file that is neither version is a
\* conflict, a checkpoint of another version an error that decides nothing.
\* The files are read in one step: an edit behind the loop's back is the same
\* as one right after it.
Validate ==
    /\ op.step = "validate"
    /\ \/ /\ \A f \in DOMAIN Entries : Recognised(f) /\ Entries[f].cp = Entries[f].before
          /\ Goto("restore", ToRestore)
          /\ UNCHANGED journal
       \/ /\ \E f \in DOMAIN Entries :
                /\ ~Recognised(f)
                /\ \A g \in DOMAIN Entries : g < f => Recognised(g) /\ Entries[g].cp = Entries[g].before
          /\ SetStatus("conflict") /\ Done
       \/ /\ \E f \in DOMAIN Entries :
                /\ Entries[f].cp # Entries[f].before
                /\ \A g \in DOMAIN Entries : g < f => Entries[g].cp = Entries[g].before
                /\ \A g \in DOMAIN Entries : g <= f => Recognised(g)
          /\ Done /\ UNCHANGED journal
    /\ UNCHANGED <<disk, touched, raced, lost, edits, crashes>>

Restore ==
    LET f == Max(op.todo)
        e == Entries[f]
    IN /\ op.step = "restore" /\ op.todo # {}
       /\ LosesAt(f, {e.before, e.after})
       /\ IF e.cp = Missing
          THEN /\ disk' = [disk EXCEPT ![f] = Gone]
               /\ Goto("restore", op.todo \ {f})
          ELSE /\ disk' = [disk EXCEPT ![f] = Written(f, e.cp)]
               /\ Goto("restoreMode", op.todo)
       /\ UNCHANGED <<journal, touched, raced, edits, crashes>>

RestoreMode ==
    LET f == Max(op.todo) IN
    /\ op.step = "restoreMode"
    /\ IF disk[f].hash = Missing
       THEN UNCHANGED disk /\ Done   \* chmod throws, the journal stays as it is
       ELSE /\ disk' = [disk EXCEPT ![f].mode = Entries[f].cpMode]
            /\ Goto("restore", op.todo \ {f})
    /\ UNCHANGED <<journal, touched, raced, lost, edits, crashes>>

RolledBack ==
    /\ op.step = "restore" /\ op.todo = {}
    /\ SetStatus("rolled_back") /\ Done
    /\ UNCHANGED <<disk, touched, raced, lost, edits, crashes>>

----------------------------------------------------------------------------
(* The environment.                                                        *)

\* The process dies, or an error escapes a rollback.  A plan whose journal was
\* not written leaves nothing behind.
Crash ==
    /\ op.step # "idle" /\ crashes < MaxCrashes
    /\ crashes' = crashes + 1
    /\ Done
    /\ UNCHANGED <<disk, journal, touched, raced, lost, edits>>

\* Files between the check of their content and the write that relies on it.
Window == CASE op.step = "write" -> {Min(op.todo)}
            [] op.step \in {"restore", "restoreMode"} -> op.todo
            [] OTHER -> {}

UserEdit(f, new) ==
    /\ edits < MaxUserEdits /\ disk[f] # new
    /\ disk' = [disk EXCEPT ![f] = new]
    /\ edits' = edits + 1
    /\ touched' = touched \cup {f}
    /\ raced' = IF f \in Window THEN raced \cup {f} ELSE raced
    /\ UNCHANGED <<journal, op, lost, crashes>>

----------------------------------------------------------------------------
(* Next.                                                                   *)

\* The running operation goes on.
Advance ==
    \/ Prepare \/ Check \/ Write \/ Chmod \/ Commit
    \/ Validate \/ Restore \/ RestoreMode \/ RolledBack

Next ==
    \/ Advance \/ Fail \/ Crash
    \/ \E j \in Txs : Begin(j) \/ Recover(j)
    \/ \E j, k \in Txs, f \in Files : BeginRestore(j, k, f)
    \/ \E f \in Files, new \in {Gone} \cup [hash: UserContents, mode: Modes] : UserEdit(f, new)

Spec == Init /\ [][Next]_vars

\* An operation runs on while its process lives, and "the next loop, edit or
\* integration" comes.
FairSpec == Spec /\ WF_vars(Advance) /\ \A j \in Txs : WF_vars(Recover(j))

----------------------------------------------------------------------------
(* Properties.                                                             *)

\* Journals, files and the running operation have the shape recovery parses.
TypeOK ==
    /\ disk \in [Files -> File]
    /\ \A f \in Files : disk[f].hash = Missing <=> disk[f].mode = None
    /\ \A j \in Txs : /\ journal[j].status \in Statuses
                      /\ DOMAIN journal[j].files \subseteq Files
                      /\ \A f \in DOMAIN journal[j].files : journal[j].files[f] \in Entry
    /\ op.step \in Steps /\ op.tx \in 0..MaxTx /\ op.todo \subseteq Files

\* A pending journal blocks writes: through crashes, conflicts and failed
\* recoveries no second transaction begins while one is undecided.
AtMostOneUndecided ==
    \A j, k \in Txs : /\ journal[j].status \in {"prepared", "conflict"}
                      /\ journal[k].status \in {"prepared", "conflict"}
                      => j = k

\* A decided transaction has all of its effect or none, bits included, on every
\* file the user has left alone since it was planned.
AllOrNothing ==
    \A j \in Txs :
        (j = MaxTx \/ journal[j + 1].status = "unused") =>
            \A f \in DOMAIN journal[j].files \ touched :
                LET e == journal[j].files[f] IN
                /\ journal[j].status = "committed" =>
                      disk[f].hash = e.after /\ disk[f].mode \in {e.afterMode, None}
                /\ journal[j].status = "rolled_back" =>
                      disk[f].hash = e.before /\ disk[f].mode = e.beforeMode

\* Neither an edit nor a recovery replaces a content it has not seen, except in
\* the window between its check of that file and its write.
UserContentKept == lost \subseteq raced

\* A file that is created, by the edit or by its roll-back, gets its bits in a
\* second call when they are not the default.
TwoCalls(j) ==
    \E f \in DOMAIN journal[j].files :
        LET e == journal[j].files[f] IN
        \/ e.before = Missing /\ e.afterMode # Private
        \/ e.after = Missing /\ e.beforeMode # Private

\* Whenever the process dies, the next operations decide the transaction.
Recovers ==
    \A j \in Txs : Unresolved(j) ~> ~Unresolved(j) \/ touched # {} \/ TwoCalls(j)

----------------------------------------------------------------------------
(* What a transaction amounts to for whoever looks at the workspace:       *)
(* AtomicChanges.                                                          *)

\* The plan under way: that of the running operation, or the one a death or a
\* conflict has left undecided.
Undecided == {j \in Txs : Unresolved(j)}
Planned ==
    IF op.step # "idle" THEN Entries
    ELSE IF Undecided = {} THEN <<>>
    ELSE journal[CHOOSE j \in Undecided : TRUE].files

\* Until it is decided, its files are what they were when it was planned.
KnownFiles ==
    LET files == Planned
    IN  [f \in Files \ touched |->
            IF f \in DOMAIN files
            THEN [hash |-> files[f].before, mode |-> files[f].beforeMode]
            ELSE disk[f]]
PlanState ==
    IF op.step \in {"prepare", "check", "write", "chmod"} THEN "open"
    ELSE IF op.step # "idle" \/ Undecided # {} THEN "doomed"
    ELSE "none"
PlanAfter ==
    LET files == Planned
    IN  [f \in DOMAIN files |->
            [hash |-> files[f].after,
             mode |-> IF files[f].after = Missing THEN None ELSE files[f].afterMode]]

Changes == INSTANCE AtomicChanges WITH
    Versions <- File, known <- KnownFiles, state <- PlanState, after <- PlanAfter

\* An edit, a multi-file edit or a restore is one change that happens to all of
\* its files or to none; one that failed or whose process died is never committed;
\* none begins before the last is decided, through crashes, conflicts and failed
\* recoveries; and no file outside it changes but by the user.
ImplementsChanges == Changes!ChangeSpec

=============================================================================
