--------------------------- MODULE SessionLog_proofs ---------------------------
(***************************************************************************)
(* Proofs about SessionLog, for any number of processes, entries, moves and *)
(* crashes.  The inductive invariant says who holds the lock, what every    *)
(* instance has in memory of the file, and what the file's own cursor can   *)
(* still mean, as long as none of the known kinds of damage has happened.   *)
(***************************************************************************)
EXTENDS SessionLog, TLAPS

----------------------------------------------------------------------------
(* The inductive invariant.                                                *)

Undamaged == hurt \cap {"glued", "overwritten"} = {}

\* Nobody has a session without its file.
FileThere == \A p \in Procs : pc[p] \in InUse => file # Null

\* Whoever has created the lock and not lost it: it may rewrite the file, or is
\* about to.
Owner(p) == pc[p] = "pid" \/ Rewriter(p)

\* Unless a live process's lock was removed, an owner's lock is there.
LockFacts ==
    /\ lock # Null => lock.pid \in {Null, lock.by}
    /\ "raced" \notin hurt => \A p \in Procs : Owner(p) => lock # Null /\ lock.by = p

\* An instance that is concurrent rewrites the header of a fork only.
RewriteFacts ==
    \A p \in Procs :
        /\ pc[p] \in {"read", "replace"} /\ mem[p].concurrent => mem[p].op = "rebind"
        /\ pc[p] \notin {"read", "replace"} => mem[p].op = "none"

\* An instance's position is what its cursor says of its entries.
MemLeaf == \A p \in Procs : mem[p].leaf = LeafIn(mem[p].cursor, mem[p].entries)

\* Ids are not given out twice.
Below(entries, n) == \A i \in DOMAIN entries : entries[i].id <= n

Fresh ==
    /\ file # Null => Below(file.entries, ids)
    /\ \A p \in Procs : Below(mem[p].entries, ids)
    /\ \A p \in Procs : snap[p] # Null => Below(snap[p].entries, ids)

\* Every entry comes after its parent.
Grown(entries) ==
    \A i \in DOMAIN entries :
        entries[i].parent = Null \/ \E j \in 1..(i - 1) : entries[j].id = entries[i].parent

\* What an instance has in memory is in the file, and so is what it hangs on.
RootFacts ==
    Undamaged =>
        /\ file # Null => Grown(file.entries)
        /\ \A p \in Procs : pc[p] \in InUse =>
              Grown(mem[p].entries) /\ IdsOf(mem[p].entries) \subseteq IdsOf(file.entries)

\* There is no cursor, or it was written for at most n entries.
WrittenFor(cursor, n) ==
    cursor = NoCursor \/ (cursor.leaf # Unset /\ cursor.count \in Nat /\ cursor.count <= n)

\* A rewriter has what the file has, unless another process has added to it.
Holds(m, at, f) ==
    /\ IdsOf(f.entries) \subseteq IdsOf(m.entries) => f.entries = m.entries
    /\ Len(m.entries) <= Len(f.entries)
    /\ WrittenFor(m.cursor, Len(m.entries))
    /\ at = "open" => f.cursor = m.cursor
    /\ m.op = "append" => m.cursor = NoCursor /\ WrittenFor(f.cursor, Len(f.entries) - 1)

OwnFacts ==
    hurt = {} =>
        /\ file # Null => WrittenFor(file.cursor, Len(file.entries))
        /\ \A p \in Procs : pc[p] \in Opening =>
              file.entries = mem[p].entries /\ file.cursor = mem[p].cursor
        /\ \A p \in Procs : Rewriter(p) => Holds(mem[p], pc[p], file)

IInv ==
    /\ TypeOK /\ FileThere /\ LockFacts /\ RewriteFacts /\ MemLeaf /\ Fresh
    /\ RootFacts /\ OwnFacts

----------------------------------------------------------------------------
(* Sequences of entries.                                                   *)

\* The ids of a list of entries are ids, and its leaf is one of them.
LEMMA LeafType ==
    ASSUME NEW entries \in Seq(Entry), NEW cursor \in Cursor
    PROVE  /\ IdsOf(entries) \subseteq Ids
           /\ LeafIn(cursor, entries) \in IdsOf(entries) \cup {Null}
<1>0. DOMAIN entries = 1..Len(entries) /\ \A i \in 1..Len(entries) : entries[i] \in Entry
  OBVIOUS
<1>1. \A i \in DOMAIN entries : entries[i].id \in Ids
  BY <1>0 DEF Entry
<1>2. LastOf(entries) \in IdsOf(entries) \cup {Null}
  BY <1>0 DEF LastOf, IdsOf
<1> QED BY <1>1, <1>2 DEF LeafIn, IdsOf

\* One more entry.
LEMMA AppendFacts ==
    ASSUME NEW entries \in Seq(Entry), NEW e \in Entry
    PROVE  /\ Append(entries, e) \in Seq(Entry) /\ Len(Append(entries, e)) = Len(entries) + 1
           /\ IdsOf(Append(entries, e)) = IdsOf(entries) \cup {e.id}
           /\ LastOf(Append(entries, e)) = e.id
           /\ \A i \in 1..Len(entries) : Append(entries, e)[i] = entries[i]
           /\ Append(entries, e)[Len(entries) + 1] = e
<1>1. /\ Append(entries, e) \in Seq(Entry) /\ Len(Append(entries, e)) = Len(entries) + 1
      /\ \A i \in 1..Len(entries) : Append(entries, e)[i] = entries[i]
      /\ Append(entries, e)[Len(entries) + 1] = e
  OBVIOUS
<1>2. DOMAIN entries = 1..Len(entries) /\ DOMAIN Append(entries, e) = 1..(Len(entries) + 1)
      /\ Len(entries) \in Nat
  OBVIOUS
<1>3. IdsOf(Append(entries, e)) = IdsOf(entries) \cup {e.id}
  BY <1>1, <1>2 DEF IdsOf
<1>4. LastOf(Append(entries, e)) = e.id
  BY <1>1, <1>2 DEF LastOf
<1> QED BY <1>1, <1>3, <1>4

\* An entry added behind its parent.
LEMMA AppendGrown ==
    ASSUME NEW entries \in Seq(Entry), NEW e \in Entry, Grown(entries),
           e.parent \in IdsOf(entries) \cup {Null}
    PROVE  Grown(Append(entries, e))
<1>1. DOMAIN entries = 1..Len(entries) /\ DOMAIN Append(entries, e) = 1..(Len(entries) + 1)
      /\ Len(entries) \in Nat
  OBVIOUS
<1> SUFFICES ASSUME NEW i \in 1..(Len(entries) + 1)
             PROVE  \/ Append(entries, e)[i].parent = Null
                    \/ \E j \in 1..(i - 1) : Append(entries, e)[j].id = Append(entries, e)[i].parent
  BY <1>1 DEF Grown
<1>2. CASE i \in 1..Len(entries)
  BY <1>1, <1>2, AppendFacts DEF Grown
<1>3. CASE i = Len(entries) + 1
  BY <1>1, <1>3, AppendFacts DEF IdsOf
<1> QED BY <1>1, <1>2, <1>3

\* The first entries.
LEMMA CutFacts ==
    ASSUME NEW entries \in Seq(Entry), NEW n \in 0..Len(entries)
    PROVE  /\ SubSeq(entries, 1, n) \in Seq(Entry) /\ Len(SubSeq(entries, 1, n)) = n
           /\ \A i \in 1..n : SubSeq(entries, 1, n)[i] = entries[i]
           /\ IdsOf(SubSeq(entries, 1, n)) \subseteq IdsOf(entries)
           /\ Grown(entries) => Grown(SubSeq(entries, 1, n))
<1>1. /\ SubSeq(entries, 1, n) \in Seq(Entry) /\ Len(SubSeq(entries, 1, n)) = n
      /\ \A i \in 1..n : SubSeq(entries, 1, n)[i] = entries[i]
  OBVIOUS
<1>2. DOMAIN entries = 1..Len(entries) /\ DOMAIN SubSeq(entries, 1, n) = 1..n /\ Len(entries) \in Nat
  BY <1>1
<1>3. IdsOf(SubSeq(entries, 1, n)) \subseteq IdsOf(entries)
  BY <1>1, <1>2 DEF IdsOf
<1>4. Grown(entries) => Grown(SubSeq(entries, 1, n))
  <2> SUFFICES ASSUME Grown(entries), NEW i \in 1..n
               PROVE  \/ SubSeq(entries, 1, n)[i].parent = Null
                      \/ \E j \in 1..(i - 1) : SubSeq(entries, 1, n)[j].id = SubSeq(entries, 1, n)[i].parent
    BY <1>2 DEF Grown
  <2>1. entries[i].parent = Null \/ \E j \in 1..(i - 1) : entries[j].id = entries[i].parent
    BY <1>2 DEF Grown
  <2> QED BY <1>1, <2>1
<1> QED BY <1>1, <1>3, <1>4


----------------------------------------------------------------------------
(* Shapes.                                                                 *)

\* A step of one process.
Step(p) ==
    \/ Create(p) \/ OpenFile(p)
    \/ CreateLock(p) \/ WritePid(p) \/ Judge(p) \/ Unlink(p)
    \/ AppendEntry(p) \/ Navigate(p) \/ Rebind(p)
    \/ ReadForHeader(p) \/ ReplaceHeader(p) \/ Truncate(p)
    \/ Close(p) \/ Exit(p) \/ Crash(p) \/ CrashInAppend(p)

LEMMA NextIsStep == Next => \E p \in Procs : Step(p)
BY DEF Next, Step

LEMMA NewFileType == NewFile \in File /\ NewFile # Null
<1>1. NoCursor \in Cursor
  BY DEF NoCursor, Cursor
<1>2. NewFile \in File
  BY <1>1 DEF NewFile, File
<1> QED BY <1>2, NullAssumption

\* What opening a file puts in memory.
LEMMA LoadedFacts ==
    ASSUME NEW f \in File, NEW created \in BOOLEAN, NEW m, m = Loaded(f, created)
    PROVE  /\ m \in Session
           /\ m.entries = f.entries /\ m.cursor = f.cursor /\ m.leaf = LeafIn(f.cursor, f.entries)
           /\ m.concurrent = FALSE /\ m.op = "none"
<1>1. f.entries \in Seq(Entry) /\ f.cursor \in Cursor
  BY DEF File
<1>2. LeafOf(f) \in Ids \cup {Null} /\ LeafOf(f) = LeafIn(f.cursor, f.entries)
  BY <1>1, LeafType DEF LeafOf
<1> QED BY <1>1, <1>2 DEF Loaded, Session

\* A closed session has nothing.
LEMMA NoSessionFacts ==
    /\ NoSession \in Session /\ NoSession.entries = <<>> /\ NoSession.cursor = NoCursor
    /\ NoSession.leaf = LeafIn(NoCursor, <<>>) /\ NoSession.concurrent = FALSE
    /\ NoSession.op = "none"
<1>1. NewFile.entries = <<>> /\ NewFile.cursor = NoCursor
  BY DEF NewFile
<1> QED BY <1>1, NewFileType, LoadedFacts DEF NoSession

\* The other processes stay where they are.
LEMMA Others ==
    ASSUME TypeOK, NEW p \in Procs, Step(p)
    PROVE  /\ pc' = [q \in Procs |-> IF q = p THEN pc'[p] ELSE pc[q]]
           /\ mem' = [q \in Procs |-> IF q = p THEN mem'[p] ELSE mem[q]]
           /\ snap' = [q \in Procs |-> IF q = p THEN snap'[p] ELSE snap[q]]
<1>1. pc \in [Procs -> InUse \cup {"out", "dead"}] /\ mem \in [Procs -> Session]
      /\ snap \in [Procs -> File \cup {Null}]
  BY DEF TypeOK
<1>2. CASE Create(p) \/ OpenFile(p)
  BY <1>1, <1>2 DEF Create, OpenFile, Goto
<1>3. CASE CreateLock(p) \/ WritePid(p) \/ Judge(p) \/ Unlink(p)
  BY <1>1, <1>3 DEF CreateLock, WritePid, Judge, Unlink, GiveUp, Goto
<1>4. CASE AppendEntry(p) \/ Rebind(p)
  BY <1>1, <1>4 DEF AppendEntry, Rebind, Goto
<1>5. CASE Navigate(p) \/ Truncate(p)
  BY <1>1, <1>5 DEF Navigate, Truncate, Goto
<1>6. CASE ReadForHeader(p) \/ ReplaceHeader(p)
  BY <1>1, <1>6 DEF ReadForHeader, ReplaceHeader, Goto
<1>7. CASE Close(p) \/ Exit(p) \/ Crash(p) \/ CrashInAppend(p)
  BY <1>1, <1>7 DEF Close, Exit, Crash, CrashInAppend, Dies, Goto
<1> QED BY <1>2, <1>3, <1>4, <1>5, <1>6, <1>7 DEF Step

\* One process has changed, and what it has become is right.
LEMMA OneChanged ==
    ASSUME TypeOK, NEW p \in Procs, Step(p), pc'[p] \in InUse \cup {"out", "dead"},
           mem'[p] \in Session, snap'[p] \in File \cup {Null},
           pc'[p] \in {"out", "dead"} => mem'[p] = NoSession,
           (snap'[p] # Null) <=> (pc'[p] = "replace"),
           file' \in File \cup {Null}, lock' \in Lock \cup {Null}, ids' \in 0..MaxEntries,
           moves' \in 0..MaxMoves, hurt' \subseteq {"raced", "stale", "glued", "overwritten"}
    PROVE  TypeOK'
<1>1. /\ pc \in [Procs -> InUse \cup {"out", "dead"}] /\ mem \in [Procs -> Session]
      /\ snap \in [Procs -> File \cup {Null}]
      /\ \A q \in Procs :
            /\ pc[q] \in {"out", "dead"} => mem[q] = NoSession
            /\ (snap[q] # Null) <=> (pc[q] = "replace")
  BY DEF TypeOK
<1>2. /\ pc' = [q \in Procs |-> IF q = p THEN pc'[p] ELSE pc[q]]
      /\ mem' = [q \in Procs |-> IF q = p THEN mem'[p] ELSE mem[q]]
      /\ snap' = [q \in Procs |-> IF q = p THEN snap'[p] ELSE snap[q]]
  BY Others
<1>3. pc' \in [Procs -> InUse \cup {"out", "dead"}] /\ mem' \in [Procs -> Session]
      /\ snap' \in [Procs -> File \cup {Null}]
  BY <1>1, <1>2
<1>4. \A q \in Procs :
         /\ pc'[q] \in {"out", "dead"} => mem'[q] = NoSession
         /\ (snap'[q] # Null) <=> (pc'[q] = "replace")
  BY <1>1, <1>2, <1>3
<1>5. NoSession' = NoSession
  BY DEF NoSession
<1> QED BY <1>3, <1>4, <1>5 DEF TypeOK


----------------------------------------------------------------------------
(* What each operation does to the file and to the process that takes it.  *)

\* A session comes out of one that has the same entries.
Same(m, n) ==
    n.entries = m.entries /\ n.leaf = m.leaf /\ n.cursor = m.cursor

\* What TypeOK says of one process.
LEMMA Types ==
    ASSUME TypeOK, NEW p \in Procs
    PROVE  /\ file \in File \cup {Null} /\ lock \in Lock \cup {Null}
           /\ pc[p] \in InUse \cup {"out", "dead"} /\ mem[p] \in Session
           /\ mem[p].entries \in Seq(Entry) /\ mem[p].cursor \in Cursor
           /\ mem[p].leaf \in Ids \cup {Null} /\ mem[p].concurrent \in BOOLEAN
           /\ snap[p] \in File \cup {Null}
           /\ (snap[p] # Null) <=> (pc[p] = "replace")
           /\ pc[p] \in {"out", "dead"} => mem[p] = NoSession
           /\ ids \in 0..MaxEntries /\ moves \in 0..MaxMoves
           /\ hurt \subseteq {"raced", "stale", "glued", "overwritten"}
<1>1. mem[p] \in Session
  BY DEF TypeOK
<1> QED BY <1>1 DEF TypeOK, Session

\* Creating or opening the file: memory is what it says.
LEMMA OpenEffect ==
    ASSUME TypeOK, NEW p \in Procs, Create(p) \/ OpenFile(p)
    PROVE  /\ pc[p] = "out" /\ pc'[p] = "lock"
           /\ (file = Null /\ file' = NewFile) \/ (file # Null /\ file' = file)
           /\ file' \in File
           /\ mem'[p] \in Session /\ mem'[p].entries = file'.entries
           /\ mem'[p].cursor = file'.cursor /\ mem'[p].op = "none" /\ mem'[p].concurrent = FALSE
           /\ mem'[p].leaf = LeafIn(mem'[p].cursor, mem'[p].entries)
           /\ UNCHANGED <<moves, lock, snap, ids, hurt>>
<1>1. /\ pc \in [Procs -> InUse \cup {"out", "dead"}] /\ mem \in [Procs -> Session]
      /\ file \in File \cup {Null}
  BY DEF TypeOK
<1>2. CASE Create(p)
  <2>1. mem'[p] = Loaded(NewFile, TRUE) /\ pc'[p] = "lock"
    BY <1>1, <1>2 DEF Create, Goto
  <2> QED BY <1>2, <2>1, NewFileType, LoadedFacts, ZenonT(60) DEF Create
<1>3. CASE OpenFile(p)
  <2>1. mem'[p] = Loaded(file, FALSE) /\ pc'[p] = "lock" /\ file \in File
    BY <1>1, <1>3 DEF OpenFile, Goto
  <2> QED BY <1>3, <2>1, LoadedFacts, ZenonT(60) DEF OpenFile
<1> QED BY <1>2, <1>3

\* The lock: nothing of the file is read or written.
LEMMA LockEffect ==
    ASSUME TypeOK, NEW p \in Procs, CreateLock(p) \/ WritePid(p) \/ Judge(p) \/ Unlink(p)
    PROVE  /\ pc[p] \in Opening /\ pc'[p] \in Opening \cup {"open"}
           /\ mem'[p] \in Session /\ Same(mem[p], mem'[p]) /\ mem'[p].op = mem[p].op
           /\ hurt' \in {hurt, hurt \cup {"raced"}}
           /\ lock' \in Lock \cup {Null}
           /\ UNCHANGED <<moves, file, snap, ids>>
<1>1. /\ pc \in [Procs -> InUse \cup {"out", "dead"}] /\ mem \in [Procs -> Session]
      /\ lock \in Lock \cup {Null}
  BY DEF TypeOK
<1>2. mem[p] \in Session
  BY <1>1
<1>3. CASE CreateLock(p)
  <2>1. lock' \in Lock \cup {Null}
    BY <1>1, <1>3 DEF CreateLock, Lock
  <2> QED BY <1>1, <1>2, <1>3, <2>1 DEF CreateLock, Goto, Opening, Same
<1>4. CASE WritePid(p)
  <2>1. lock' \in Lock \cup {Null}
    BY <1>1, <1>4 DEF WritePid, Lock
  <2>2. mem'[p] = [mem[p] EXCEPT !.retried = FALSE] /\ pc'[p] = "open"
    BY <1>1, <1>4 DEF WritePid, Goto
  <2>3. mem'[p] \in Session /\ Same(mem[p], mem'[p]) /\ mem'[p].op = mem[p].op
    BY <1>2, <2>2 DEF Session, Same
  <2> QED BY <1>4, <2>1, <2>2, <2>3 DEF WritePid, Opening
<1>5. ASSUME GiveUp(p)
      PROVE  mem'[p] \in Session /\ Same(mem[p], mem'[p]) /\ mem'[p].op = mem[p].op
             /\ pc'[p] = "open"
  <2>1. mem'[p] = [mem[p] EXCEPT !.concurrent = TRUE, !.retried = FALSE] /\ pc'[p] = "open"
    BY <1>1, <1>5 DEF GiveUp, Goto
  <2> QED BY <1>2, <2>1 DEF Session, Same
<1>6. CASE Judge(p)
  <2>1. CASE Stale
    BY <1>1, <1>2, <1>6, <2>1 DEF Judge, Goto, Opening, Same
  <2>2. CASE ~Stale
    BY <1>1, <1>5, <1>6, <2>2 DEF Judge, Opening
  <2> QED BY <2>1, <2>2
<1>7. CASE Unlink(p)
  <2>1. CASE lock = Null \/ mem[p].retried
    BY <1>1, <1>5, <1>7, <2>1 DEF Unlink, Opening
  <2>2. CASE ~(lock = Null \/ mem[p].retried)
    <3>1. mem'[p] = [mem[p] EXCEPT !.retried = TRUE] /\ pc'[p] = "lock"
      BY <1>1, <1>7, <2>2 DEF Unlink, Goto
    <3>2. mem'[p] \in Session /\ Same(mem[p], mem'[p]) /\ mem'[p].op = mem[p].op
      BY <1>2, <3>1 DEF Session, Same
    <3> QED BY <1>1, <1>7, <2>2, <3>1, <3>2 DEF Unlink, Opening
  <2> QED BY <2>1, <2>2
<1> QED BY <1>3, <1>4, <1>6, <1>7

\* Leaving, in order or not: the session is gone.
LEMMA LeaveEffect ==
    ASSUME TypeOK, NEW p \in Procs, Close(p) \/ Exit(p) \/ Crash(p)
    PROVE  /\ pc[p] \in InUse /\ pc'[p] \in {"out", "dead"} /\ mem'[p] = NoSession
           /\ snap'[p] = Null /\ lock' \in {lock, Null}
           /\ UNCHANGED <<moves, file, ids, hurt>>
<1>1. /\ pc \in [Procs -> InUse \cup {"out", "dead"}] /\ mem \in [Procs -> Session]
      /\ snap \in [Procs -> File \cup {Null}] /\ ((snap[p] # Null) <=> (pc[p] = "replace"))
  BY DEF TypeOK
<1>2. CASE Close(p)
  <2>1. pc[p] = "open" /\ pc'[p] = "out" /\ mem'[p] = NoSession
    BY <1>1, <1>2 DEF Close, Goto
  <2> QED BY <1>1, <1>2, <2>1 DEF Close, InUse
<1>3. CASE Exit(p)
  <2>1. pc[p] = "open" /\ pc'[p] = "dead" /\ mem'[p] = NoSession
    BY <1>1, <1>3 DEF Exit, Goto
  <2> QED BY <1>1, <1>3, <2>1 DEF Exit, InUse
<1>4. CASE Crash(p)
  <2>1. pc[p] \in InUse /\ pc'[p] = "dead" /\ mem'[p] = NoSession /\ snap'[p] = Null
    BY <1>1, <1>4 DEF Crash, Dies, Goto
  <2> QED BY <1>1, <1>4, <2>1 DEF Crash, Dies
<1> QED BY <1>2, <1>3, <1>4

\* Between the two calls of a header rewrite.
LEMMA HeaderEffect ==
    ASSUME TypeOK, NEW p \in Procs, Rebind(p) \/ ReadForHeader(p)
    PROVE  /\ pc[p] \in {"open", "read"} /\ pc'[p] \in {"read", "replace"}
           /\ pc[p] = "open" <=> pc'[p] = "read"
           /\ pc[p] = "open" => mem'[p].op = "rebind"
           /\ pc[p] = "read" => mem'[p].op = mem[p].op
           /\ mem'[p] \in Session /\ Same(mem[p], mem'[p])
           /\ mem'[p].concurrent = mem[p].concurrent
           /\ snap'[p] = IF pc[p] = "read" THEN file ELSE snap[p]
           /\ moves' \in 0..MaxMoves
           /\ UNCHANGED <<file, lock, ids, hurt>>
<1>1. /\ pc \in [Procs -> InUse \cup {"out", "dead"}] /\ mem \in [Procs -> Session]
      /\ snap \in [Procs -> File \cup {Null}] /\ moves \in 0..MaxMoves
      /\ MaxMoves \in Nat
  BY BoundsAssumption DEF TypeOK
<1>2. CASE Rebind(p)
  <2>1. mem'[p] = [mem[p] EXCEPT !.op = "rebind"] /\ pc'[p] = "read" /\ mem[p] \in Session
    BY <1>1, <1>2 DEF Rebind, Goto
  <2>2. mem'[p] \in Session /\ Same(mem[p], mem'[p]) /\ mem'[p].op = "rebind"
        /\ mem'[p].concurrent = mem[p].concurrent
    BY <2>1 DEF Session, Same
  <2> QED BY <1>1, <1>2, <2>1, <2>2 DEF Rebind
<1>3. CASE ReadForHeader(p)
  BY <1>1, <1>3 DEF ReadForHeader, Goto, Same
<1> QED BY <1>2, <1>3


\* Navigating moves the leaf and the cursor, in memory.
LEMMA NavigateEffect ==
    ASSUME TypeOK, NEW p \in Procs, Navigate(p)
    PROVE  /\ pc[p] = "open" /\ pc'[p] = IF mem[p].concurrent THEN "open" ELSE "read"
           /\ mem'[p] \in Session /\ mem'[p].entries = mem[p].entries
           /\ mem'[p].leaf \in IdsOf(mem[p].entries) \cup {Null}
           /\ mem'[p].cursor = [leaf |-> mem'[p].leaf, count |-> Len(mem[p].entries)]
           /\ mem'[p].concurrent = mem[p].concurrent /\ mem'[p].op = mem[p].op
           /\ moves' \in 0..MaxMoves
           /\ UNCHANGED <<file, lock, snap, ids, hurt>>
<1>1. /\ pc \in [Procs -> InUse \cup {"out", "dead"}] /\ mem \in [Procs -> Session]
      /\ moves \in 0..MaxMoves /\ MaxMoves \in Nat
  BY BoundsAssumption DEF TypeOK
<1>2. PICK leaf \in IdsOf(mem[p].entries) \cup {Null} :
         mem' = [mem EXCEPT ![p] = Moved(mem[p], leaf)]
  BY DEF Navigate
<1>3. mem[p] \in Session /\ mem[p].entries \in Seq(Entry) /\ mem[p].cursor \in Cursor
  BY Types
<1>4. leaf \in Ids \cup {Null}
  BY <1>2, <1>3, LeafType
<1>5. [leaf |-> leaf, count |-> Len(mem[p].entries)] \in Cursor
  BY <1>3, <1>4 DEF Cursor
<1>6. mem'[p] = [mem[p] EXCEPT !.leaf = leaf,
                   !.cursor = [leaf |-> leaf, count |-> Len(mem[p].entries)]]
  BY <1>1, <1>2 DEF Moved
<1>7. /\ mem'[p] \in Session /\ mem'[p].entries = mem[p].entries /\ mem'[p].leaf = leaf
      /\ mem'[p].cursor = [leaf |-> leaf, count |-> Len(mem[p].entries)]
      /\ mem'[p].concurrent = mem[p].concurrent /\ mem'[p].op = mem[p].op
  BY <1>3, <1>4, <1>5, <1>6 DEF Session
<1>8. pc[p] = "open" /\ pc'[p] = IF mem[p].concurrent THEN "open" ELSE "read"
  BY <1>1 DEF Navigate, Goto, PersistsCursor
<1>9. moves' \in 0..MaxMoves /\ UNCHANGED <<file, lock, snap, ids, hurt>>
  BY <1>1 DEF Navigate
<1> QED BY <1>2, <1>7, <1>8, <1>9

\* A write of the file leaves its damage behind.
Damages(p, damage) ==
    /\ hurt \subseteq hurt' /\ damage \subseteq hurt'
    /\ hurt' \subseteq {"raced", "stale", "glued", "overwritten"}
    /\ "raced" \in hurt' => "raced" \in hurt
    /\ (\E q \in Procs \ {p} : pc[q] \in Opening) => "stale" \in hurt'

LEMMA WriteDamages ==
    ASSUME TypeOK, NEW p \in Procs, NEW new, NEW damage,
           damage \subseteq {"glued", "overwritten"}, WriteFile(p, new, damage)
    PROVE  file' = new /\ Damages(p, damage)
BY DEF TypeOK, WriteFile, Damages

\* The lines behind an append: the entries as they were, without the last one if
\* the new line was glued to it.
LEMMA UngluedFacts ==
    ASSUME NEW f \in File
    PROVE  /\ Unglued(f) \in Seq(Entry) /\ Len(Unglued(f)) <= Len(f.entries)
           /\ \A i \in 1..Len(Unglued(f)) : Unglued(f)[i] = f.entries[i]
           /\ IdsOf(Unglued(f)) \subseteq IdsOf(f.entries)
           /\ f.tail # "whole" => Unglued(f) = f.entries
<1>1. f.entries \in Seq(Entry) /\ DOMAIN f.entries = 1..Len(f.entries) /\ Len(f.entries) \in Nat
  BY DEF File
<1>2. CASE f.tail # "whole"
  BY <1>1, <1>2 DEF Unglued
<1>3. CASE f.tail = "whole" /\ Len(f.entries) = 0
  <2>1. Front(f.entries) = <<>>
    BY <1>1, <1>3 DEF Front
  <2> QED BY <1>1, <1>3, <2>1 DEF Unglued, IdsOf
<1>4. CASE f.tail = "whole" /\ Len(f.entries) # 0
  <2>1. Front(f.entries) = SubSeq(f.entries, 1, Len(f.entries) - 1)
    BY DEF Front
  <2>2. Len(f.entries) - 1 \in 0..Len(f.entries)
    BY <1>1, <1>4
  <2> QED BY <1>1, <1>4, <2>1, <2>2, CutFacts DEF Unglued
<1> QED BY <1>2, <1>3, <1>4

\* A line appended to the file, whole.
LEMMA AppendedFacts ==
    ASSUME NEW f \in File, NEW e \in Entry
    PROVE  /\ Appended(f, e) \in File /\ Appended(f, e).cursor = f.cursor
           /\ f.tail = "ended" => Appended(f, e).entries = Append(f.entries, e)
           /\ f.tail # "ended" => Appended(f, e).entries = Unglued(f)
<1>1. f.entries \in Seq(Entry) /\ f.cursor \in Cursor /\ f.tail \in {"ended", "whole", "cut"}
  BY DEF File
<1> QED BY <1>1, AppendFacts, UngluedFacts DEF Appended, File

\* An append the process did not survive.
LEMMA TornFacts ==
    ASSUME NEW f \in File, NEW e \in Entry, NEW new \in TornAppends(f, e)
    PROVE  /\ new \in File /\ new.cursor = f.cursor
           /\ new.entries = Unglued(f) \/ (f.tail = "ended" /\ new.entries = Append(f.entries, e))
<1>1. f.entries \in Seq(Entry) /\ f.cursor \in Cursor /\ f.tail \in {"ended", "whole", "cut"}
  BY DEF File
<1>2. CASE new = [f EXCEPT !.entries = Unglued(f), !.tail = "cut"]
  BY <1>1, <1>2, UngluedFacts DEF File
<1>3. CASE f.tail = "ended" /\ new = [f EXCEPT !.entries = Append(f.entries, e), !.tail = "whole"]
  BY <1>1, <1>3, AppendFacts DEF File
<1> QED BY <1>2, <1>3 DEF TornAppends

\* What an append, finished or not, does to the file.
Adds(e) ==
    /\ file' \in File /\ file'.cursor = file.cursor
    /\ \/ file'.entries = Append(file.entries, e)
       \/ file'.entries = file.entries
       \/ "glued" \in hurt' /\ file'.entries = Unglued(file)
    /\ file.tail # "ended" => "glued" \in hurt'

\* Appending: memory gets the entry, and forgets its cursor.
LEMMA AppendEffect ==
    ASSUME TypeOK, FileThere, NEW p \in Procs, AppendEntry(p)
    PROVE  /\ pc[p] = "open" /\ pc'[p] \in {"open", "read"} /\ ids' = ids + 1 /\ ids' \in Ids
           /\ file \in File
           /\ \E e \in Entry :
                 /\ e.id = ids + 1 /\ e.parent = mem[p].leaf
                 /\ mem'[p].entries = Append(mem[p].entries, e) /\ mem'[p].leaf = e.id
                 /\ Adds(e)
                 /\ file.tail = "ended" => file'.entries = Append(file.entries, e)
           /\ mem'[p] \in Session /\ mem'[p].cursor = NoCursor
           /\ mem'[p].concurrent = mem[p].concurrent
           /\ IF mem[p].cursor.leaf # Unset /\ ~mem[p].concurrent
              THEN pc'[p] = "read" /\ mem'[p].op = "append"
              ELSE pc'[p] = "open" /\ mem'[p].op = mem[p].op
           /\ Damages(p, {})
           /\ UNCHANGED <<moves, lock, snap>>
<1> DEFINE e == [id |-> ids + 1, parent |-> mem[p].leaf]
<1>1. /\ pc \in [Procs -> InUse \cup {"out", "dead"}] /\ mem \in [Procs -> Session]
  BY DEF TypeOK
<1>2. /\ mem[p] \in Session /\ mem[p].entries \in Seq(Entry) /\ mem[p].leaf \in Ids \cup {Null}
      /\ ids \in 0..MaxEntries /\ mem[p].concurrent \in BOOLEAN
  BY Types
<1>3. pc[p] = "open" /\ ids < MaxEntries /\ ids' = ids + 1
  BY DEF AppendEntry
<1>4. ids + 1 \in Ids /\ MaxEntries \in Nat
  BY <1>2, <1>3, BoundsAssumption DEF Ids
<1>5. file \in File
  <2>1. pc[p] \in InUse
    BY <1>3 DEF InUse
  <2> QED BY <2>1, Types DEF FileThere
<1>6. e \in Entry /\ e.id = ids + 1 /\ e.parent = mem[p].leaf
  BY <1>2, <1>4 DEF Entry
<1>7. WriteFile(p, Appended(file, e), Glues)
  BY DEF AppendEntry
<1>8. /\ IF mem[p].cursor.leaf # Unset /\ ~mem[p].concurrent
         THEN mem' = [mem EXCEPT ![p] = [AfterAppend(mem[p], e) EXCEPT !.op = "append"]] /\ Goto(p, "read")
         ELSE mem' = [mem EXCEPT ![p] = AfterAppend(mem[p], e)] /\ UNCHANGED pc
      /\ UNCHANGED <<moves, lock, snap>>
  BY DEF AppendEntry
<1> HIDE DEF e
<1>9. NoCursor \in Cursor
  BY DEF NoCursor, Cursor
<1>10. Append(mem[p].entries, e) \in Seq(Entry) /\ e.id \in Ids
  BY <1>2, <1>6, AppendFacts DEF Entry
<1> DEFINE a == AfterAppend(mem[p], e)
<1>11. /\ a \in Session /\ a.entries = Append(mem[p].entries, e) /\ a.leaf = e.id
       /\ a.cursor = NoCursor /\ a.concurrent = mem[p].concurrent /\ a.op = mem[p].op
  BY <1>2, <1>9, <1>10 DEF AfterAppend, Session
<1> DEFINE b == [a EXCEPT !.op = "append"]
<1>12. /\ b \in Session /\ b.entries = Append(mem[p].entries, e) /\ b.leaf = e.id
       /\ b.cursor = NoCursor /\ b.concurrent = mem[p].concurrent /\ b.op = "append"
  <2> HIDE DEF a
  <2> QED BY <1>11 DEF Session
<1>13. IF mem[p].cursor.leaf # Unset /\ ~mem[p].concurrent
       THEN mem'[p] = b /\ pc'[p] = "read" ELSE mem'[p] = a /\ pc'[p] = "open"
  BY <1>1, <1>3, <1>8 DEF Goto
<1> HIDE DEF a, b
<1>14. /\ mem'[p] \in Session /\ mem'[p].entries = Append(mem[p].entries, e)
       /\ mem'[p].leaf = e.id /\ mem'[p].cursor = NoCursor
       /\ mem'[p].concurrent = mem[p].concurrent /\ pc'[p] \in {"open", "read"}
       /\ IF mem[p].cursor.leaf # Unset /\ ~mem[p].concurrent
          THEN pc'[p] = "read" /\ mem'[p].op = "append"
          ELSE pc'[p] = "open" /\ mem'[p].op = mem[p].op
  BY <1>11, <1>12, <1>13
<1>15. file' = Appended(file, e) /\ Damages(p, Glues)
  BY <1>7, WriteDamages DEF Glues
<1>16. file.tail # "ended" => "glued" \in hurt'
  BY <1>15 DEF Damages, Glues
<1>17. Adds(e) /\ (file.tail = "ended" => file'.entries = Append(file.entries, e))
  BY <1>5, <1>6, <1>15, <1>16, AppendedFacts DEF Adds
<1>18. Damages(p, {})
  BY <1>15 DEF Damages
<1> QED BY <1>3, <1>4, <1>5, <1>6, <1>8, <1>14, <1>17, <1>18

\* Dying in an append.
LEMMA TornEffect ==
    ASSUME TypeOK, FileThere, NEW p \in Procs, CrashInAppend(p)
    PROVE  /\ pc[p] = "open" /\ pc'[p] = "dead" /\ ids' = ids + 1 /\ ids' \in Ids
           /\ file \in File /\ mem'[p] = NoSession /\ snap'[p] = Null
           /\ \E e \in Entry : e.id = ids + 1 /\ e.parent = mem[p].leaf /\ Adds(e)
           /\ Damages(p, {})
           /\ UNCHANGED <<moves, lock>>
<1> DEFINE e == [id |-> ids + 1, parent |-> mem[p].leaf]
<1>1. /\ pc \in [Procs -> InUse \cup {"out", "dead"}] /\ mem \in [Procs -> Session]
      /\ snap \in [Procs -> File \cup {Null}]
  BY DEF TypeOK
<1>2. /\ mem[p].leaf \in Ids \cup {Null} /\ ids \in 0..MaxEntries
  BY Types
<1>3. pc[p] = "open" /\ ids < MaxEntries /\ ids' = ids + 1
  BY DEF CrashInAppend
<1>4. ids + 1 \in Ids /\ MaxEntries \in Nat
  BY <1>2, <1>3, BoundsAssumption DEF Ids
<1>5. file \in File
  <2>1. pc[p] \in InUse
    BY <1>3 DEF InUse
  <2> QED BY <2>1, Types DEF FileThere
<1>6. e \in Entry /\ e.id = ids + 1 /\ e.parent = mem[p].leaf
  BY <1>2, <1>4 DEF Entry
<1>7. PICK new \in TornAppends(file, e) : WriteFile(p, new, Glues)
  BY DEF CrashInAppend
<1>8. pc'[p] = "dead" /\ mem'[p] = NoSession /\ snap'[p] = Null /\ UNCHANGED <<moves, lock>>
  BY <1>1 DEF CrashInAppend, Dies, Goto
<1> HIDE DEF e
<1>9. file' = new /\ Damages(p, Glues)
  BY <1>7, WriteDamages DEF Glues
<1>10. file.tail # "ended" => "glued" \in hurt'
  BY <1>9 DEF Damages, Glues
<1>11. Adds(e)
  BY <1>5, <1>6, <1>7, <1>9, <1>10, TornFacts, UngluedFacts DEF Adds
<1>12. Damages(p, {})
  BY <1>9 DEF Damages
<1> QED BY <1>3, <1>4, <1>5, <1>6, <1>8, <1>11, <1>12


\* Replacing the header: the file is what was read, with the cursor in memory.
LEMMA ReplaceEffect ==
    ASSUME TypeOK, NEW p \in Procs, ReplaceHeader(p)
    PROVE  /\ pc[p] = "replace" /\ pc'[p] = "open" /\ snap[p] \in File /\ snap'[p] = Null
           /\ file' \in File /\ file'.cursor = mem[p].cursor /\ file'.entries = snap[p].entries
           /\ mem'[p] \in Session /\ Same(mem[p], mem'[p]) /\ mem'[p].op = "none"
           /\ mem'[p].concurrent = mem[p].concurrent
           /\ Overwrites(p) => "overwritten" \in hurt'
           /\ Damages(p, {})
           /\ UNCHANGED <<moves, lock, ids>>
<1> DEFINE new == [snap[p] EXCEPT !.cursor = mem[p].cursor]
           damage == IF Overwrites(p) THEN {"overwritten"} ELSE {}
<1>1. /\ pc \in [Procs -> InUse \cup {"out", "dead"}] /\ mem \in [Procs -> Session]
      /\ snap \in [Procs -> File \cup {Null}]
  BY DEF TypeOK
<1>2. pc[p] = "replace" /\ pc'[p] = "open" /\ snap'[p] = Null
      /\ mem'[p] = [mem[p] EXCEPT !.op = "none"] /\ UNCHANGED <<moves, lock, ids>>
  BY <1>1 DEF ReplaceHeader, Goto
<1>3. mem[p] \in Session /\ mem[p].cursor \in Cursor /\ snap[p] \in File
  BY <1>2, Types
<1>4. WriteFile(p, new, damage) /\ damage \subseteq {"glued", "overwritten"}
  BY DEF ReplaceHeader
<1>5. new \in File /\ new.cursor = mem[p].cursor /\ new.entries = snap[p].entries
  BY <1>3 DEF File
<1>6. Overwrites(p) => damage = {"overwritten"}
  OBVIOUS
<1> HIDE DEF new, damage
<1>7. file' = new /\ Damages(p, damage)
  BY <1>4, WriteDamages
<1>8. Damages(p, {}) /\ (Overwrites(p) => "overwritten" \in hurt')
  BY <1>6, <1>7 DEF Damages
<1>9. mem'[p] \in Session /\ Same(mem[p], mem'[p]) /\ mem'[p].op = "none"
      /\ mem'[p].concurrent = mem[p].concurrent
  BY <1>2, <1>3 DEF Session, Same
<1> QED BY <1>2, <1>3, <1>5, <1>7, <1>8, <1>9

\* Truncating: memory is cut, and the file follows unless the session is concurrent.
LEMMA TruncateEffect ==
    ASSUME TypeOK, NEW p \in Procs, Truncate(p)
    PROVE  /\ pc[p] = "open" /\ pc'[p] = "open"
           /\ \E n \in 0..Len(mem[p].entries) :
                 /\ mem'[p].entries = SubSeq(mem[p].entries, 1, n)
                 /\ mem'[p].leaf = IF n = 0 THEN Null ELSE SubSeq(mem[p].entries, 1, n)[n].id
           /\ mem'[p] \in Session /\ mem'[p].cursor = NoCursor /\ mem'[p].op = mem[p].op
           /\ mem'[p].concurrent = mem[p].concurrent
           /\ mem[p].concurrent => UNCHANGED <<file, hurt>>
           /\ ~mem[p].concurrent =>
                 /\ file' \in File /\ file'.cursor = NoCursor
                 /\ file'.entries = mem'[p].entries
                 /\ Damages(p, {})
                 /\ "overwritten" \notin hurt' =>
                       /\ IdsOf(file.entries) \subseteq IdsOf(mem[p].entries)
                       /\ \A q \in Procs : q # p /\ pc[q] \in InUse =>
                             IdsOf(mem[q].entries) \cap IdsOf(mem[p].entries)
                                \subseteq IdsOf(mem'[p].entries)
           /\ moves' \in 0..MaxMoves
           /\ UNCHANGED <<lock, snap, ids>>
<1>1. /\ pc \in [Procs -> InUse \cup {"out", "dead"}] /\ mem \in [Procs -> Session]
      /\ moves \in 0..MaxMoves /\ MaxMoves \in Nat
  BY BoundsAssumption DEF TypeOK
<1>2. /\ mem[p] \in Session /\ mem[p].entries \in Seq(Entry) /\ mem[p].concurrent \in BOOLEAN
  BY Types
<1> DEFINE foreign == IdsOf(file.entries) \ IdsOf(mem[p].entries)
           held == UNION {IdsOf(mem[q].entries) : q \in {r \in Procs \ {p} : pc[r] \in InUse}}
           New(a) == [cursor |-> a.cursor, entries |-> a.entries, tail |-> "ended"]
           Damage(a) == IF foreign \cup (held \cap (IdsOf(mem[p].entries) \ IdsOf(a.entries))) # {}
                        THEN {"overwritten"} ELSE {}
<1>3. PICK n \in 0..Len(mem[p].entries) :
         /\ mem' = [mem EXCEPT ![p] = Cut(mem[p], n)]
         /\ IF mem[p].concurrent
            THEN UNCHANGED <<file, hurt>>
            ELSE WriteFile(p, New(Cut(mem[p], n)), Damage(Cut(mem[p], n)))
  BY DEF Truncate
<1> DEFINE a == Cut(mem[p], n)
<1>4. NoCursor \in Cursor
  BY DEF NoCursor, Cursor
<1>5. /\ SubSeq(mem[p].entries, 1, n) \in Seq(Entry) /\ Len(SubSeq(mem[p].entries, 1, n)) = n
      /\ n # 0 => SubSeq(mem[p].entries, 1, n)[n] \in Entry
  BY <1>2, CutFacts
<1>6. /\ a \in Session /\ a.entries = SubSeq(mem[p].entries, 1, n) /\ a.cursor = NoCursor
      /\ a.leaf = IF n = 0 THEN Null ELSE SubSeq(mem[p].entries, 1, n)[n].id
      /\ a.op = mem[p].op /\ a.concurrent = mem[p].concurrent
  BY <1>2, <1>4, <1>5 DEF Cut, Session, Entry
<1> HIDE DEF a
<1>7. mem'[p] = a
  BY <1>1, <1>3 DEF a
<1>8. pc[p] = "open" /\ pc'[p] = "open" /\ moves' \in 0..MaxMoves /\ UNCHANGED <<lock, snap, ids>>
  BY <1>1 DEF Truncate
<1>9. ASSUME ~mem[p].concurrent
      PROVE  /\ file' \in File /\ file'.cursor = NoCursor
             /\ file'.entries = mem'[p].entries
             /\ Damages(p, {})
             /\ "overwritten" \notin hurt' =>
                   /\ IdsOf(file.entries) \subseteq IdsOf(mem[p].entries)
                   /\ \A q \in Procs : q # p /\ pc[q] \in InUse =>
                         IdsOf(mem[q].entries) \cap IdsOf(mem[p].entries)
                            \subseteq IdsOf(mem'[p].entries)
  <2>1. WriteFile(p, New(a), Damage(a)) /\ Damage(a) \subseteq {"glued", "overwritten"}
    BY <1>3, <1>9 DEF a
  <2>2. New(a) \in File /\ New(a).cursor = NoCursor /\ New(a).entries = a.entries
    BY <1>4, <1>5, <1>6 DEF File
  <2>3. file' = New(a) /\ Damages(p, Damage(a))
    <3> HIDE DEF New, Damage
    <3> QED BY <2>1, WriteDamages
  <2>4. "overwritten" \notin hurt' =>
           foreign = {} /\ held \cap (IdsOf(mem[p].entries) \ IdsOf(a.entries)) = {}
    <3> HIDE DEF foreign, held
    <3> QED BY <2>3 DEF Damages
  <2>5. \A q \in Procs : q # p /\ pc[q] \in InUse => IdsOf(mem[q].entries) \subseteq held
    OBVIOUS
  <2>6. Damages(p, {})
    BY <2>3 DEF Damages
  <2>7. "overwritten" \notin hurt' =>
                   /\ IdsOf(file.entries) \subseteq IdsOf(mem[p].entries)
                   /\ \A q \in Procs : q # p /\ pc[q] \in InUse =>
                         IdsOf(mem[q].entries) \cap IdsOf(mem[p].entries)
                            \subseteq IdsOf(a.entries)
    <3>1. "overwritten" \notin hurt' => IdsOf(file.entries) \subseteq IdsOf(mem[p].entries)
      BY <2>4
    <3> HIDE DEF held, foreign
    <3> QED BY <2>4, <2>5, <3>1
  <2> HIDE DEF New
  <2> QED BY <1>7, <2>2, <2>3, <2>6, <2>7
<1> QED BY <1>3, <1>6, <1>7, <1>8, <1>9


----------------------------------------------------------------------------
(* Types and shapes are kept.                                              *)

LEMMA TypeNext ==
    ASSUME TypeOK, FileThere, NEW p \in Procs, Step(p)
    PROVE  TypeOK'
<1> USE DEF InUse, Opening
<1>1. /\ file \in File \cup {Null} /\ lock \in Lock \cup {Null}
      /\ pc[p] \in InUse \cup {"out", "dead"} /\ mem[p] \in Session /\ snap[p] \in File \cup {Null}
      /\ ((snap[p] # Null) <=> (pc[p] = "replace"))
      /\ ids \in 0..MaxEntries /\ moves \in 0..MaxMoves
      /\ hurt \subseteq {"raced", "stale", "glued", "overwritten"}
  BY Types
<1>2. NoSession \in Session
  BY NoSessionFacts
<1>3. Ids \subseteq 0..MaxEntries
  BY BoundsAssumption DEF Ids
<1>4. Null \notin File
  BY NullAssumption
<1>5. CASE Create(p) \/ OpenFile(p)
  BY <1>1, <1>5, OpenEffect, OneChanged
<1>6. CASE CreateLock(p) \/ WritePid(p) \/ Judge(p) \/ Unlink(p)
  BY <1>1, <1>6, LockEffect, OneChanged
<1>7. CASE Close(p) \/ Exit(p) \/ Crash(p)
  BY <1>1, <1>2, <1>7, LeaveEffect, OneChanged
<1>8. CASE Rebind(p) \/ ReadForHeader(p)
  <2>1. pc[p] = "read" => file # Null
    BY DEF FileThere
  <2>2. snap'[p] \in File \cup {Null} /\ ((snap'[p] # Null) <=> (pc'[p] = "replace"))
    BY <1>1, <1>4, <1>8, <2>1, HeaderEffect
  <2> QED BY <1>1, <1>8, <2>2, HeaderEffect, OneChanged
<1>9. CASE Navigate(p)
  BY <1>1, <1>9, NavigateEffect, OneChanged
<1>10. CASE AppendEntry(p)
  <2>1. file' \in File
    BY <1>10, AppendEffect DEF Adds
  <2>2. hurt' \subseteq {"raced", "stale", "glued", "overwritten"}
    BY <1>10, AppendEffect DEF Damages
  <2>3. /\ pc[p] = "open" /\ pc'[p] \in {"open", "read"} /\ ids' \in Ids
        /\ mem'[p] \in Session /\ UNCHANGED <<moves, lock, snap>>
    BY <1>10, AppendEffect
  <2> QED BY <1>1, <1>3, <2>1, <2>2, <2>3, OneChanged
<1>11. CASE CrashInAppend(p)
  <2>1. file' \in File
    BY <1>11, TornEffect DEF Adds
  <2>2. hurt' \subseteq {"raced", "stale", "glued", "overwritten"}
    BY <1>11, TornEffect DEF Damages
  <2>3. /\ pc'[p] = "dead" /\ ids' \in Ids /\ snap'[p] = Null
        /\ mem'[p] = NoSession /\ UNCHANGED <<moves, lock>>
    BY <1>11, TornEffect
  <2> QED BY <1>1, <1>2, <1>3, <2>1, <2>2, <2>3, OneChanged
<1>12. CASE ReplaceHeader(p)
  <2>1. hurt' \subseteq {"raced", "stale", "glued", "overwritten"}
    BY <1>12, ReplaceEffect DEF Damages
  <2> QED BY <1>1, <1>12, <2>1, ReplaceEffect, OneChanged
<1>13. CASE Truncate(p)
  <2>1. hurt' \subseteq {"raced", "stale", "glued", "overwritten"}
    BY <1>1, <1>13, TruncateEffect DEF Damages
  <2>2. file' \in File \cup {Null}
    BY <1>1, <1>13, TruncateEffect
  <2>3. /\ pc[p] = "open" /\ pc'[p] = "open" /\ mem'[p] \in Session /\ moves' \in 0..MaxMoves
        /\ UNCHANGED <<lock, snap, ids>>
    BY <1>13, TruncateEffect
  <2> QED BY <1>1, <2>1, <2>2, <2>3, OneChanged
<1> QED BY <1>5, <1>6, <1>7, <1>8, <1>9, <1>10, <1>11, <1>12, <1>13 DEF Step

\* A process other than the one that takes the step.
LEMMA Other ==
    ASSUME TypeOK, NEW p \in Procs, Step(p), NEW q \in Procs, q # p
    PROVE  pc'[q] = pc[q] /\ mem'[q] = mem[q] /\ snap'[q] = snap[q]
BY Others

\* The file does not go away, and only a process that is still outside creates it.
LEMMA FileNext ==
    ASSUME TypeOK, FileThere, NEW p \in Procs, Step(p)
    PROVE  /\ FileThere'
           /\ file # Null => file' # Null
           /\ file = Null => \A q \in Procs : pc[q] \notin InUse
<1> USE DEF InUse, Opening
<1>1. Null \notin File
  BY NullAssumption
<1>2. (pc[p] \in InUse /\ file' = file) \/ file' \in File
  <2>1. CASE Create(p) \/ OpenFile(p)
    BY <2>1, OpenEffect
  <2>2. CASE CreateLock(p) \/ WritePid(p) \/ Judge(p) \/ Unlink(p)
    BY <2>2, LockEffect
  <2>3. CASE Close(p) \/ Exit(p) \/ Crash(p)
    BY <2>3, LeaveEffect
  <2>4. CASE Rebind(p) \/ ReadForHeader(p)
    BY <2>4, HeaderEffect
  <2>5. CASE Navigate(p)
    BY <2>5, NavigateEffect
  <2>6. CASE AppendEntry(p)
    BY <2>6, AppendEffect DEF Adds
  <2>7. CASE CrashInAppend(p)
    BY <2>7, TornEffect DEF Adds
  <2>8. CASE ReplaceHeader(p)
    BY <2>8, ReplaceEffect
  <2>9. CASE Truncate(p)
    <3>1. mem[p].concurrent \in BOOLEAN
      BY Types
    <3> QED BY <2>9, <3>1, TruncateEffect
  <2> QED BY <2>1, <2>2, <2>3, <2>4, <2>5, <2>6, <2>7, <2>8, <2>9 DEF Step
<1>3. \A q \in Procs : q # p => pc'[q] = pc[q]
  BY Other
<1>4. file # Null => file' # Null
  BY <1>1, <1>2
<1>5. file = Null => \A q \in Procs : pc[q] \notin InUse
  BY DEF FileThere
<1>6. \A q \in Procs : pc'[q] \in InUse => file' # Null
  BY <1>1, <1>2, <1>3, <1>4 DEF FileThere
<1> QED BY <1>4, <1>5, <1>6 DEF FileThere


\* Damage is not repaired, and only the removal of a lock races.
LEMMA HurtGrows ==
    ASSUME TypeOK, FileThere, NEW p \in Procs, Step(p)
    PROVE  hurt \subseteq hurt' /\ (Unlink(p) \/ ("raced" \in hurt' => "raced" \in hurt))
<1>1. CASE Create(p) \/ OpenFile(p)
  BY <1>1, OpenEffect
<1>2. CASE CreateLock(p) \/ WritePid(p) \/ Judge(p)
  BY <1>2 DEF CreateLock, WritePid, Judge
<1>3. CASE Unlink(p)
  BY <1>3, LockEffect
<1>4. CASE Close(p) \/ Exit(p) \/ Crash(p)
  BY <1>4, LeaveEffect
<1>5. CASE Rebind(p) \/ ReadForHeader(p)
  BY <1>5, HeaderEffect
<1>6. CASE Navigate(p)
  BY <1>6, NavigateEffect
<1>7. CASE AppendEntry(p)
  BY <1>7, AppendEffect DEF Damages
<1>8. CASE CrashInAppend(p)
  BY <1>8, TornEffect DEF Damages
<1>9. CASE ReplaceHeader(p)
  BY <1>9, ReplaceEffect DEF Damages
<1>10. CASE Truncate(p)
  <2>1. mem[p].concurrent \in BOOLEAN
    BY Types
  <2> QED BY <1>10, <2>1, TruncateEffect DEF Damages
<1> QED BY <1>1, <1>2, <1>3, <1>4, <1>5, <1>6, <1>7, <1>8, <1>9, <1>10 DEF Step

\* Who is an owner stays one or stops, unless the lock was just created.
LEMMA LockNext ==
    ASSUME TypeOK, FileThere, LockFacts, NEW p \in Procs, Step(p)
    PROVE  LockFacts'
<1>1. /\ pc \in [Procs -> InUse \cup {"out", "dead"}] /\ mem \in [Procs -> Session]
      /\ lock \in Lock \cup {Null} /\ mem[p] \in Session
  BY DEF TypeOK
<1>2. \A q \in Procs : q # p => pc'[q] = pc[q] /\ mem'[q] = mem[q]
  BY Other
<1>3. \A q \in Procs : q # p => (Owner(q)' <=> Owner(q))
  BY <1>2 DEF Owner, Rewriter, Open
<1>4. "raced" \notin hurt' => "raced" \notin hurt
  BY HurtGrows
<1>5. lock # Null => lock \in Lock /\ lock.pid \in {Null, lock.by}
  BY <1>1 DEF LockFacts
<1>6. Null \notin Procs
  BY NullAssumption
<1>7. ASSUME UNCHANGED lock, Owner(p)' => Owner(p)
      PROVE  LockFacts'
  <2>1. \A q \in Procs : Owner(q)' => Owner(q)
    BY <1>3, <1>7
  <2> QED BY <1>4, <1>7, <2>1 DEF LockFacts
<1>8. CASE Create(p) \/ OpenFile(p)
  <2>1. pc'[p] = "lock" /\ UNCHANGED lock
    BY <1>8, OpenEffect
  <2> QED BY <1>7, <2>1 DEF Owner, Rewriter, Open
<1>9. CASE CreateLock(p)
  <2>1. CASE lock = Null
    <3>1. lock' = [by |-> p, pid |-> Null] /\ pc'[p] = "pid"
      BY <1>1, <1>9, <2>1 DEF CreateLock, Goto
    <3>2. lock'.pid = Null /\ lock'.by = p
      BY <3>1
    <3>3. lock' # Null
      BY <1>1, <1>9, LockEffect, <3>1, NullAssumption DEF Lock
    <3>4. "raced" \notin hurt' => \A q \in Procs : q # p => ~Owner(q)'
      BY <1>3, <1>4, <2>1 DEF LockFacts
    <3> QED BY <3>2, <3>3, <3>4 DEF LockFacts
  <2>2. CASE lock # Null
    <3>1. pc'[p] = "judge" /\ UNCHANGED lock
      BY <1>1, <1>9, <2>2 DEF CreateLock, Goto
    <3> QED BY <1>7, <3>1 DEF Owner, Rewriter, Open
  <2> QED BY <2>1, <2>2
<1>10. CASE WritePid(p)
  <2>1. Owner(p)
    BY <1>10 DEF WritePid, Owner
  <2>2. CASE lock # Null /\ lock.by = p
    <3>1. lock' = [lock EXCEPT !.pid = p] /\ lock \in Lock
      BY <1>1, <1>10, <2>2 DEF WritePid
    <3>2. lock'.by = lock.by /\ lock'.pid = p /\ lock' \in Lock
      BY <3>1 DEF Lock
    <3>3. lock' # Null
      BY <3>2, NullAssumption
    <3> QED BY <1>3, <1>4, <2>1, <2>2, <3>2, <3>3 DEF LockFacts
  <2>3. CASE ~(lock # Null /\ lock.by = p)
    <3>1. UNCHANGED lock
      BY <1>10, <2>3 DEF WritePid
    <3> QED BY <1>7, <2>1, <3>1
  <2> QED BY <2>2, <2>3
<1>11. ASSUME GiveUp(p) PROVE ~Owner(p)'
  <2>1. mem'[p] = [mem[p] EXCEPT !.concurrent = TRUE, !.retried = FALSE] /\ pc'[p] = "open"
    BY <1>1, <1>11 DEF GiveUp, Goto
  <2>2. mem'[p].concurrent = TRUE
    BY <1>1, <2>1 DEF Session
  <2> QED BY <2>1, <2>2 DEF Owner, Rewriter
<1>12. CASE Judge(p)
  <2>1. ~Owner(p)'
    <3>1. CASE Stale
      BY <1>1, <1>12, <3>1 DEF Judge, Goto, Owner, Rewriter, Open
    <3>2. CASE ~Stale
      BY <1>11, <1>12, <3>2 DEF Judge
    <3> QED BY <3>1, <3>2
  <2> QED BY <1>7, <1>12, <2>1 DEF Judge
<1>13. CASE Unlink(p)
  <2>1. ~Owner(p)'
    <3>1. CASE lock = Null \/ mem[p].retried
      BY <1>11, <1>13, <3>1 DEF Unlink
    <3>2. CASE ~(lock = Null \/ mem[p].retried)
      BY <1>1, <1>13, <3>2 DEF Unlink, Goto, Owner, Rewriter, Open
    <3> QED BY <3>1, <3>2
  <2>2. lock' = Null
    BY <1>13 DEF Unlink
  <2>3. ASSUME "raced" \notin hurt', NEW q \in Procs, q # p, Owner(q) PROVE FALSE
    <3>1. lock # Null /\ lock.by = q
      BY <1>4, <2>3 DEF LockFacts
    <3>2. Alive(q)
      BY <2>3 DEF Owner, Rewriter, Open, Alive
    <3> QED BY <1>13, <2>3, <3>1, <3>2 DEF Unlink
  <2> QED BY <1>3, <2>1, <2>2, <2>3 DEF LockFacts
<1>14. CASE AppendEntry(p)
  <2>1. pc[p] = "open" /\ pc'[p] # "pid" /\ mem'[p].concurrent = mem[p].concurrent /\ UNCHANGED lock
    BY <1>14, AppendEffect
  <2> QED BY <1>7, <2>1 DEF Owner, Rewriter, Open
<1>15. CASE Navigate(p)
  <2>1. pc[p] = "open" /\ pc'[p] # "pid" /\ mem'[p].concurrent = mem[p].concurrent /\ UNCHANGED lock
    BY <1>15, NavigateEffect
  <2> QED BY <1>7, <2>1 DEF Owner, Rewriter, Open
<1>16. CASE Rebind(p) \/ ReadForHeader(p)
  <2>1. pc[p] \in {"open", "read"} /\ pc'[p] # "pid" /\ mem'[p].concurrent = mem[p].concurrent
        /\ UNCHANGED lock
    BY <1>16, HeaderEffect
  <2> QED BY <1>7, <2>1 DEF Owner, Rewriter, Open
<1>17. CASE ReplaceHeader(p)
  <2>1. pc[p] = "replace" /\ pc'[p] # "pid" /\ mem'[p].concurrent = mem[p].concurrent
        /\ UNCHANGED lock
    BY <1>17, ReplaceEffect
  <2> QED BY <1>7, <2>1 DEF Owner, Rewriter, Open
<1>18. CASE Truncate(p)
  <2>1. pc[p] = "open" /\ pc'[p] # "pid" /\ mem'[p].concurrent = mem[p].concurrent
        /\ UNCHANGED lock
    BY <1>18, TruncateEffect
  <2> QED BY <1>7, <2>1 DEF Owner, Rewriter, Open
<1>19. CASE Close(p) \/ Exit(p) \/ Crash(p) \/ CrashInAppend(p)
  <2>1. pc'[p] \in {"out", "dead"}
    BY <1>19, LeaveEffect, TornEffect
  <2>2. ~Owner(p)'
    BY <2>1 DEF Owner, Rewriter, Open
  <2>3. CASE UNCHANGED lock
    BY <1>7, <2>2, <2>3
  <2>4. CASE lock' # lock
    <3>1. lock' = Null
      BY <1>19, <2>4, LeaveEffect, TornEffect
    <3>2. ASSUME "raced" \notin hurt', NEW q \in Procs, q # p, Owner(q) PROVE FALSE
      <4>1. lock # Null /\ lock.by = q
        BY <1>4, <3>2 DEF LockFacts
      <4>2. CASE Close(p)
        <5>1. lock.pid = p
          BY <2>4, <4>2 DEF Close
        <5> QED BY <1>5, <1>6, <3>2, <4>1, <5>1
      <4>3. CASE Exit(p)
        <5>1. ~mem[p].concurrent /\ pc[p] = "open"
          BY <2>4, <4>3 DEF Exit
        <5>2. Owner(p)
          BY <5>1 DEF Owner, Rewriter, Open
        <5> QED BY <1>4, <3>2, <4>1, <5>2 DEF LockFacts
      <4>4. CASE Crash(p) \/ CrashInAppend(p)
        BY <2>4, <4>4 DEF Crash, CrashInAppend, Dies
      <4> QED BY <1>19, <4>2, <4>3, <4>4
    <3> QED BY <1>3, <2>2, <3>1, <3>2 DEF LockFacts
  <2> QED BY <2>3, <2>4
<1> QED BY <1>8, <1>9, <1>10, <1>12, <1>13, <1>14, <1>15, <1>16, <1>17, <1>18, <1>19 DEF Step


\* Only the creator's rebinding takes a concurrent instance into a header rewrite.
LEMMA RewriteNext ==
    ASSUME TypeOK, FileThere, RewriteFacts, NEW p \in Procs, Step(p)
    PROVE  RewriteFacts'
<1> USE DEF Opening
<1> DEFINE Right(at, m) == /\ at \in {"read", "replace"} /\ m.concurrent => m.op = "rebind"
                           /\ at \notin {"read", "replace"} => m.op = "none"
<1>1. \A q \in Procs : q # p => pc'[q] = pc[q] /\ mem'[q] = mem[q]
  BY Other
<1>2. Right(pc[p], mem[p]) /\ mem[p].concurrent \in BOOLEAN
  BY Types DEF RewriteFacts
<1>3. Right(pc'[p], mem'[p])
  <2>1. CASE Create(p) \/ OpenFile(p)
    BY <2>1, OpenEffect
  <2>2. CASE CreateLock(p) \/ WritePid(p) \/ Judge(p) \/ Unlink(p)
    BY <1>2, <2>2, LockEffect
  <2>3. CASE Close(p) \/ Exit(p) \/ Crash(p)
    BY <2>3, LeaveEffect, NoSessionFacts
  <2>4. CASE Rebind(p) \/ ReadForHeader(p)
    BY <1>2, <2>4, HeaderEffect
  <2>5. CASE Navigate(p)
    BY <1>2, <2>5, NavigateEffect
  <2>6. CASE AppendEntry(p)
    BY <1>2, <2>6, AppendEffect
  <2>7. CASE CrashInAppend(p)
    BY <2>7, TornEffect, NoSessionFacts
  <2>8. CASE ReplaceHeader(p)
    BY <2>8, ReplaceEffect
  <2>9. CASE Truncate(p)
    BY <1>2, <2>9, TruncateEffect
  <2> QED BY <2>1, <2>2, <2>3, <2>4, <2>5, <2>6, <2>7, <2>8, <2>9 DEF Step
<1> QED BY <1>1, <1>3 DEF RewriteFacts

\* Without a cursor the position is the last entry.
LEMMA NoCursorLeaf ==
    ASSUME NEW entries \in Seq(Entry) PROVE LeafIn(NoCursor, entries) = LastOf(entries)
<1>1. Unset \notin IdsOf(entries) \cup {Null}
  <2>1. Unset \notin Nat /\ Unset # Null
    BY NullAssumption
  <2>2. Ids \subseteq Nat
    BY BoundsAssumption DEF Ids
  <2>3. NoCursor \in Cursor
    BY DEF NoCursor, Cursor
  <2> QED BY <2>1, <2>2, <2>3, LeafType
<1>2. NoCursor.leaf = Unset
  BY DEF NoCursor
<1> QED BY <1>1, <1>2 DEF LeafIn

LEMMA MemLeafNext ==
    ASSUME TypeOK, FileThere, MemLeaf, NEW p \in Procs, Step(p)
    PROVE  MemLeaf'
<1>1. \A q \in Procs : q # p => mem'[q] = mem[q]
  BY Other
<1>2. mem[p].leaf = LeafIn(mem[p].cursor, mem[p].entries) /\ mem[p].entries \in Seq(Entry)
  BY Types DEF MemLeaf
<1>3. mem'[p].leaf = LeafIn(mem'[p].cursor, mem'[p].entries)
  <2>1. CASE Create(p) \/ OpenFile(p)
    BY <2>1, OpenEffect
  <2>2. CASE CreateLock(p) \/ WritePid(p) \/ Judge(p) \/ Unlink(p)
    BY <1>2, <2>2, LockEffect DEF Same
  <2>3. CASE Close(p) \/ Exit(p) \/ Crash(p)
    BY <2>3, LeaveEffect, NoSessionFacts
  <2>4. CASE Rebind(p) \/ ReadForHeader(p)
    BY <1>2, <2>4, HeaderEffect DEF Same
  <2>5. CASE Navigate(p)
    <3>1. /\ mem'[p].entries = mem[p].entries
          /\ mem'[p].leaf \in IdsOf(mem[p].entries) \cup {Null}
          /\ mem'[p].cursor = [leaf |-> mem'[p].leaf, count |-> Len(mem[p].entries)]
      BY <2>5, NavigateEffect
    <3>2. mem'[p].cursor.leaf = mem'[p].leaf /\ mem'[p].cursor.count = Len(mem'[p].entries)
      BY <3>1
    <3> QED BY <3>1, <3>2 DEF LeafIn
  <2>6. CASE AppendEntry(p)
    <3>1. PICK e \in Entry : mem'[p].entries = Append(mem[p].entries, e) /\ mem'[p].leaf = e.id
      BY <2>6, AppendEffect
    <3>2. mem'[p].cursor = NoCursor
      BY <2>6, AppendEffect
    <3>3. mem'[p].entries \in Seq(Entry) /\ LastOf(mem'[p].entries) = e.id
      BY <1>2, <3>1, AppendFacts
    <3> QED BY <3>1, <3>2, <3>3, NoCursorLeaf
  <2>7. CASE CrashInAppend(p)
    BY <2>7, TornEffect, NoSessionFacts
  <2>8. CASE ReplaceHeader(p)
    BY <1>2, <2>8, ReplaceEffect DEF Same
  <2>9. CASE Truncate(p)
    <3>1. PICK n \in 0..Len(mem[p].entries) :
             /\ mem'[p].entries = SubSeq(mem[p].entries, 1, n)
             /\ mem'[p].leaf = IF n = 0 THEN Null ELSE SubSeq(mem[p].entries, 1, n)[n].id
      BY <2>9, TruncateEffect
    <3>2. mem'[p].cursor = NoCursor
      BY <2>9, TruncateEffect
    <3>3. mem'[p].entries \in Seq(Entry) /\ Len(mem'[p].entries) = n
      BY <1>2, <3>1, CutFacts
    <3>4. LastOf(mem'[p].entries) = mem'[p].leaf
      <4>1. mem'[p].entries = <<>> <=> n = 0
        BY <3>3
      <4> QED BY <3>1, <3>3, <4>1 DEF LastOf
    <3> QED BY <3>2, <3>3, <3>4, NoCursorLeaf
  <2> QED BY <2>1, <2>2, <2>3, <2>4, <2>5, <2>6, <2>7, <2>8, <2>9 DEF Step
<1> QED BY <1>1, <1>3 DEF MemLeaf

\* What has at most n ids.
LEMMA BelowFacts ==
    ASSUME NEW entries \in Seq(Entry), NEW n \in Nat, Below(entries, n)
    PROVE  /\ Below(entries, n + 1)
           /\ \A e \in Entry : e.id = n + 1 =>
                 Below(Append(entries, e), n + 1) /\ e.id \notin IdsOf(entries)
           /\ \A m \in 0..Len(entries) : Below(SubSeq(entries, 1, m), n)
<1>1. DOMAIN entries = 1..Len(entries) /\ Len(entries) \in Nat
      /\ \A i \in 1..Len(entries) : entries[i] \in Entry
  OBVIOUS
<1>2. \A i \in 1..Len(entries) : entries[i].id \in Nat
  BY <1>1, BoundsAssumption DEF Entry, Ids
<1>3. \A i \in 1..Len(entries) : entries[i].id <= n
  BY <1>1 DEF Below
<1>4. Below(entries, n + 1)
  BY <1>1, <1>2, <1>3 DEF Below
<1>5. ASSUME NEW e \in Entry, e.id = n + 1
      PROVE  Below(Append(entries, e), n + 1) /\ e.id \notin IdsOf(entries)
  <2>1. DOMAIN Append(entries, e) = 1..(Len(entries) + 1)
    BY <1>1
  <2>2. \A i \in 1..(Len(entries) + 1) :
           Append(entries, e)[i] = IF i = Len(entries) + 1 THEN e ELSE entries[i]
    BY <1>1
  <2>3. Below(Append(entries, e), n + 1)
    BY <1>1, <1>2, <1>3, <1>5, <2>1, <2>2 DEF Below
  <2>4. e.id \notin IdsOf(entries)
    BY <1>1, <1>2, <1>3, <1>5 DEF IdsOf
  <2> QED BY <2>3, <2>4
<1>6. ASSUME NEW m \in 0..Len(entries) PROVE Below(SubSeq(entries, 1, m), n)
  <2>1. /\ SubSeq(entries, 1, m) \in Seq(Entry) /\ Len(SubSeq(entries, 1, m)) = m
        /\ \A i \in 1..m : SubSeq(entries, 1, m)[i] = entries[i]
    BY CutFacts
  <2>2. DOMAIN SubSeq(entries, 1, m) = 1..m
    BY <2>1
  <2> QED BY <1>1, <1>3, <2>1, <2>2 DEF Below
<1> QED BY <1>4, <1>5, <1>6


\* What is in the file after an append, finished or not, is not above its id.
LEMMA AddsBelow ==
    ASSUME file \in File, ids \in Nat, Below(file.entries, ids), NEW e \in Entry, e.id = ids + 1,
           Adds(e)
    PROVE  Below(file'.entries, ids + 1)
<1>1. file.entries \in Seq(Entry)
  BY DEF File
<1>2. Below(Append(file.entries, e), ids + 1) /\ Below(file.entries, ids + 1)
  BY <1>1, BelowFacts
<1>3. Below(Unglued(file), ids + 1)
  <2>1. /\ Unglued(file) \in Seq(Entry) /\ Len(Unglued(file)) <= Len(file.entries)
        /\ \A i \in 1..Len(Unglued(file)) : Unglued(file)[i] = file.entries[i]
    BY UngluedFacts
  <2>2. DOMAIN Unglued(file) = 1..Len(Unglued(file)) /\ DOMAIN file.entries = 1..Len(file.entries)
        /\ Len(Unglued(file)) \in Nat /\ Len(file.entries) \in Nat
    BY <1>1, <2>1
  <2> QED BY <1>2, <2>1, <2>2 DEF Below
<1> QED BY <1>2, <1>3 DEF Adds

LEMMA FreshNext ==
    ASSUME TypeOK, FileThere, Fresh, NEW p \in Procs, Step(p)
    PROVE  Fresh'
<1>1. \A q \in Procs : q # p => mem'[q] = mem[q] /\ snap'[q] = snap[q]
  BY Other
<1>2. \A q \in Procs : /\ mem[q].entries \in Seq(Entry)
                       /\ snap[q] # Null => snap[q].entries \in Seq(Entry)
  BY Types DEF File
<1>3. /\ ids \in Nat
      /\ file # Null => file.entries \in Seq(Entry)
      /\ file \in File \cup {Null}
  BY Types, BoundsAssumption DEF File
<1> DEFINE Rest(n) ==
             \A q \in Procs : q # p =>
                /\ Below(mem[q].entries, n)
                /\ snap[q] # Null => Below(snap[q].entries, n)
<1>4. Rest(ids) /\ Rest(ids + 1)
  BY <1>2, <1>3, BelowFacts DEF Fresh
<1>5. ASSUME ids' = ids, file' # Null => Below(file'.entries, ids), Below(mem'[p].entries, ids),
             snap'[p] # Null => Below(snap'[p].entries, ids)
      PROVE  Fresh'
  BY <1>1, <1>4, <1>5 DEF Fresh
<1>6. ASSUME ids' = ids + 1, Below(file'.entries, ids + 1),
             Below(mem'[p].entries, ids + 1),
             snap'[p] # Null => Below(snap'[p].entries, ids + 1)
      PROVE  Fresh'
  BY <1>1, <1>4, <1>6 DEF Fresh
<1>7. /\ file # Null => Below(file.entries, ids)
      /\ Below(mem[p].entries, ids)
      /\ snap[p] # Null => Below(snap[p].entries, ids) /\ Below(snap[p].entries, ids + 1)
  BY <1>2, <1>3, BelowFacts DEF Fresh
<1>8. Below(NoSession.entries, ids) /\ Below(NoSession.entries, ids + 1)
  <2>1. NoSession.entries = <<>>
    BY NoSessionFacts
  <2> QED BY <2>1 DEF Below
<1> HIDE DEF Rest
<1>9. CASE Create(p) \/ OpenFile(p)
  <2>1. Below(file'.entries, ids)
    <3>1. CASE file = Null /\ file' = NewFile
      <4>1. file'.entries = <<>>
        BY <3>1 DEF NewFile
      <4> QED BY <4>1 DEF Below
    <3>2. CASE file # Null /\ file' = file
      BY <1>7, <3>2
    <3> QED BY <1>9, <3>1, <3>2, OpenEffect
  <2>2. mem'[p].entries = file'.entries /\ UNCHANGED <<ids, snap>>
    BY <1>9, OpenEffect
  <2> QED BY <1>5, <1>7, <2>1, <2>2
<1>10. CASE CreateLock(p) \/ WritePid(p) \/ Judge(p) \/ Unlink(p)
  BY <1>5, <1>7, <1>10, LockEffect DEF Same
<1>11. CASE Close(p) \/ Exit(p) \/ Crash(p)
  BY <1>5, <1>7, <1>8, <1>11, LeaveEffect
<1>12. CASE Rebind(p) \/ ReadForHeader(p)
  BY <1>5, <1>7, <1>12, HeaderEffect DEF Same
<1>13. CASE Navigate(p)
  BY <1>5, <1>7, <1>13, NavigateEffect
<1>14. CASE AppendEntry(p)
  <2>1. file \in File /\ ids' = ids + 1 /\ UNCHANGED snap
    BY <1>14, AppendEffect
  <2>2. PICK e \in Entry : e.id = ids + 1 /\ mem'[p].entries = Append(mem[p].entries, e) /\ Adds(e)
    BY <1>14, AppendEffect
  <2>3. Below(file'.entries, ids + 1)
    BY <1>3, <1>7, <2>1, <2>2, AddsBelow, NullAssumption
  <2>4. Below(mem'[p].entries, ids + 1)
    BY <1>2, <1>3, <1>7, <2>2, BelowFacts
  <2> QED BY <1>6, <1>7, <2>1, <2>3, <2>4
<1>15. CASE CrashInAppend(p)
  <2>1. file \in File /\ ids' = ids + 1 /\ snap'[p] = Null /\ mem'[p] = NoSession
    BY <1>15, TornEffect
  <2>2. PICK e \in Entry : e.id = ids + 1 /\ Adds(e)
    BY <1>15, TornEffect
  <2>3. Below(file'.entries, ids + 1)
    BY <1>3, <1>7, <2>1, <2>2, AddsBelow, NullAssumption
  <2> QED BY <1>6, <1>8, <2>1, <2>3
<1>16. CASE ReplaceHeader(p)
  <2>1. snap[p] \in File /\ file'.entries = snap[p].entries /\ mem'[p].entries = mem[p].entries
        /\ ids' = ids /\ snap'[p] = Null
    BY <1>16, ReplaceEffect DEF Same
  <2>2. Below(snap[p].entries, ids)
    BY <1>7, <2>1, NullAssumption
  <2> QED BY <1>5, <1>7, <2>1, <2>2
<1>17. CASE Truncate(p)
  <2>1. PICK n \in 0..Len(mem[p].entries) : mem'[p].entries = SubSeq(mem[p].entries, 1, n)
    BY <1>17, TruncateEffect
  <2>2. Below(mem'[p].entries, ids)
    BY <1>2, <1>3, <1>7, <2>1, BelowFacts
  <2>3. UNCHANGED file \/ file'.entries = mem'[p].entries
    <3>1. mem[p].concurrent \in BOOLEAN
      BY Types
    <3> QED BY <1>17, <3>1, TruncateEffect
  <2>4. UNCHANGED <<snap, ids>>
    BY <1>17, TruncateEffect
  <2> QED BY <1>5, <1>7, <2>2, <2>3, <2>4
<1> QED BY <1>9, <1>10, <1>11, <1>12, <1>13, <1>14, <1>15, <1>16, <1>17 DEF Step


\* An entry added behind something the file has: the file stays grown.
LEMMA AddsRooted ==
    ASSUME file \in File, Grown(file.entries), NEW e \in Entry, Adds(e), "glued" \notin hurt',
           e.parent \in IdsOf(file.entries) \cup {Null}
    PROVE  /\ Grown(file'.entries) /\ IdsOf(file.entries) \subseteq IdsOf(file'.entries)
           /\ file.tail = "ended"
<1>1. file.entries \in Seq(Entry)
  BY DEF File
<1>2. IdsOf(Append(file.entries, e)) = IdsOf(file.entries) \cup {e.id}
  BY <1>1, AppendFacts
<1>3. Grown(Append(file.entries, e))
  BY <1>1, AppendGrown
<1> QED BY <1>2, <1>3 DEF Adds

LEMMA RootNext ==
    ASSUME TypeOK, FileThere, MemLeaf, RootFacts, NEW p \in Procs, Step(p)
    PROVE  RootFacts'
<1> USE DEF Opening, InUse
<1>1. \A q \in Procs : q # p => pc'[q] = pc[q] /\ mem'[q] = mem[q]
  BY Other
<1>2. /\ file \in File \cup {Null} /\ mem[p].entries \in Seq(Entry)
      /\ mem[p].concurrent \in BOOLEAN /\ mem[p].cursor \in Cursor
  BY Types
<1>3. hurt \subseteq hurt'
  BY HurtGrows
<1> SUFFICES ASSUME Undamaged'
             PROVE  /\ file' # Null => Grown(file'.entries)
                    /\ \A q \in Procs : pc'[q] \in InUse =>
                          /\ Grown(mem'[q].entries)
                          /\ IdsOf(mem'[q].entries) \subseteq IdsOf(file'.entries)
  BY DEF RootFacts
<1>4. /\ file # Null => Grown(file.entries)
      /\ \A q \in Procs : pc[q] \in InUse =>
            Grown(mem[q].entries) /\ IdsOf(mem[q].entries) \subseteq IdsOf(file.entries)
  BY <1>3 DEF RootFacts, Undamaged
<1>5. "glued" \notin hurt' /\ "overwritten" \notin hurt'
  BY DEF Undamaged
<1>6. ASSUME file' # Null => Grown(file'.entries),
             \A q \in Procs : q # p /\ pc[q] \in InUse =>
                IdsOf(mem[q].entries) \subseteq IdsOf(file'.entries),
             pc'[p] \in InUse => /\ Grown(mem'[p].entries)
                                 /\ IdsOf(mem'[p].entries) \subseteq IdsOf(file'.entries)
      PROVE  /\ file' # Null => Grown(file'.entries)
             /\ \A q \in Procs : pc'[q] \in InUse =>
                   /\ Grown(mem'[q].entries)
                   /\ IdsOf(mem'[q].entries) \subseteq IdsOf(file'.entries)
  BY <1>1, <1>4, <1>6
<1>7. CASE Create(p) \/ OpenFile(p)
  <2>1. Grown(file'.entries)
    <3>1. CASE file = Null /\ file' = NewFile
      <4>1. file'.entries = <<>>
        BY <3>1 DEF NewFile
      <4> QED BY <4>1 DEF Grown
    <3>2. CASE file # Null /\ file' = file
      BY <1>4, <3>2
    <3> QED BY <1>7, <3>1, <3>2, OpenEffect
  <2>2. \A q \in Procs : pc[q] \in InUse => file # Null
    BY DEF FileThere
  <2>3. mem'[p].entries = file'.entries /\ (file # Null => file' = file)
    BY <1>7, OpenEffect
  <2> QED BY <1>4, <1>6, <2>1, <2>2, <2>3
<1>8. CASE CreateLock(p) \/ WritePid(p) \/ Judge(p) \/ Unlink(p)
  <2>1. mem'[p].entries = mem[p].entries /\ UNCHANGED file /\ pc[p] \in InUse
    BY <1>8, LockEffect DEF Same
  <2> QED BY <1>4, <1>6, <2>1
<1>9. CASE Close(p) \/ Exit(p) \/ Crash(p)
  <2>1. UNCHANGED file /\ pc'[p] \notin InUse
    BY <1>9, LeaveEffect
  <2> QED BY <1>4, <1>6, <2>1
<1>10. CASE Rebind(p) \/ ReadForHeader(p)
  <2>1. mem'[p].entries = mem[p].entries /\ UNCHANGED file /\ pc[p] \in InUse
    BY <1>10, HeaderEffect DEF Same
  <2> QED BY <1>4, <1>6, <2>1
<1>11. CASE Navigate(p)
  <2>1. mem'[p].entries = mem[p].entries /\ UNCHANGED file /\ pc[p] \in InUse
    BY <1>11, NavigateEffect
  <2> QED BY <1>4, <1>6, <2>1
<1>12. ASSUME NEW e \in Entry, e.parent = mem[p].leaf, Adds(e), pc[p] \in InUse
       PROVE  /\ Grown(file'.entries) /\ IdsOf(file.entries) \subseteq IdsOf(file'.entries)
              /\ file.tail = "ended" /\ e.parent \in IdsOf(mem[p].entries) \cup {Null}
  <2>1. file \in File
    BY <1>2, <1>12 DEF FileThere
  <2>2. e.parent \in IdsOf(mem[p].entries) \cup {Null}
    BY <1>2, <1>12, LeafType DEF MemLeaf
  <2>3. IdsOf(mem[p].entries) \subseteq IdsOf(file.entries) /\ Grown(file.entries)
    BY <1>4, <1>12 DEF FileThere
  <2> QED BY <1>5, <1>12, <2>1, <2>2, <2>3, AddsRooted
<1>13. CASE AppendEntry(p)
  <2>1. PICK e \in Entry : /\ e.parent = mem[p].leaf /\ Adds(e)
                           /\ mem'[p].entries = Append(mem[p].entries, e)
                           /\ file.tail = "ended" => file'.entries = Append(file.entries, e)
    BY <1>13, AppendEffect
  <2>2. pc[p] \in InUse /\ file \in File
    BY <1>13, AppendEffect
  <2>3. /\ Grown(file'.entries) /\ IdsOf(file.entries) \subseteq IdsOf(file'.entries)
        /\ file.tail = "ended" /\ e.parent \in IdsOf(mem[p].entries) \cup {Null}
    BY <1>12, <2>1, <2>2
  <2>4. Grown(mem'[p].entries)
    BY <1>2, <1>4, <2>1, <2>2, <2>3, AppendGrown
  <2>5. /\ IdsOf(mem'[p].entries) = IdsOf(mem[p].entries) \cup {e.id}
        /\ IdsOf(file'.entries) = IdsOf(file.entries) \cup {e.id}
    <3>1. file.entries \in Seq(Entry)
      BY <2>2 DEF File
    <3>2. IdsOf(Append(mem[p].entries, e)) = IdsOf(mem[p].entries) \cup {e.id}
      BY <1>2, AppendFacts
    <3>3. IdsOf(Append(file.entries, e)) = IdsOf(file.entries) \cup {e.id}
      BY <3>1, AppendFacts
    <3>4. file'.entries = Append(file.entries, e) /\ mem'[p].entries = Append(mem[p].entries, e)
      BY <2>1, <2>3
    <3> QED BY <3>2, <3>3, <3>4
  <2>6. IdsOf(mem'[p].entries) \subseteq IdsOf(file'.entries)
    BY <1>4, <2>2, <2>5
  <2> QED BY <1>4, <1>6, <2>3, <2>4, <2>6
<1>14. CASE CrashInAppend(p)
  <2>1. PICK e \in Entry : e.parent = mem[p].leaf /\ Adds(e)
    BY <1>14, TornEffect
  <2>2. pc[p] \in InUse /\ pc'[p] \notin InUse
    BY <1>14, TornEffect
  <2>3. Grown(file'.entries) /\ IdsOf(file.entries) \subseteq IdsOf(file'.entries)
    BY <1>12, <2>1, <2>2
  <2> QED BY <1>4, <1>6, <2>2, <2>3
<1>15. CASE ReplaceHeader(p)
  <2>1. ~Overwrites(p) /\ pc[p] \in InUse /\ mem'[p].entries = mem[p].entries
        /\ file'.entries = snap[p].entries
    BY <1>5, <1>15, ReplaceEffect DEF Same
  <2>2. file'.entries = file.entries
    BY <2>1 DEF Overwrites
  <2>3. Grown(file.entries)
    BY <1>4, <2>1 DEF FileThere
  <2> QED BY <1>4, <1>6, <2>1, <2>2, <2>3
<1>16. CASE Truncate(p)
  <2>1. pc[p] \in InUse
    BY <1>16, TruncateEffect
  <2>2. PICK n \in 0..Len(mem[p].entries) : mem'[p].entries = SubSeq(mem[p].entries, 1, n)
    BY <1>16, TruncateEffect
  <2>3. Grown(mem'[p].entries) /\ IdsOf(mem'[p].entries) \subseteq IdsOf(mem[p].entries)
    BY <1>2, <1>4, <2>1, <2>2, CutFacts
  <2>4. CASE mem[p].concurrent
    <3>1. UNCHANGED file
      BY <1>16, <2>4, TruncateEffect
    <3> QED BY <1>4, <1>6, <2>1, <2>3, <3>1
  <2>5. CASE ~mem[p].concurrent
    <3>1. /\ file'.entries = mem'[p].entries
          /\ IdsOf(file.entries) \subseteq IdsOf(mem[p].entries)
          /\ \A q \in Procs : q # p /\ pc[q] \in InUse =>
                IdsOf(mem[q].entries) \cap IdsOf(mem[p].entries) \subseteq IdsOf(mem'[p].entries)
      BY <1>5, <1>16, <2>5, TruncateEffect
    <3>2. \A q \in Procs : q # p /\ pc[q] \in InUse =>
                IdsOf(mem[q].entries) \subseteq IdsOf(file'.entries)
      BY <1>4, <3>1
    <3> QED BY <1>6, <2>3, <3>1, <3>2
  <2> QED BY <1>2, <2>4, <2>5
<1> QED BY <1>7, <1>8, <1>9, <1>10, <1>11, <1>13, <1>14, <1>15, <1>16 DEF Step

\* What an owner knows of the file after a step of another process.
LEMMA HoldsFrame ==
    ASSUME NEW m \in Session, NEW at, NEW f \in File, NEW g \in File, Holds(m, at, f),
           WrittenFor(f.cursor, Len(f.entries)), g.cursor = f.cursor,
           \/ g.entries = f.entries
           \/ \E e \in Entry : g.entries = Append(f.entries, e) /\ e.id \notin IdsOf(m.entries)
    PROVE  Holds(m, at, g)
<1>1. f.entries \in Seq(Entry) /\ m.entries \in Seq(Entry)
  BY DEF File, Session
<1>2. CASE g.entries = f.entries
  BY <1>2 DEF Holds
<1>3. ASSUME NEW e \in Entry, g.entries = Append(f.entries, e), e.id \notin IdsOf(m.entries)
      PROVE  Holds(m, at, g)
  <2>1. Len(g.entries) = Len(f.entries) + 1 /\ e.id \in IdsOf(g.entries)
        /\ Len(f.entries) \in Nat /\ Len(m.entries) \in Nat
    BY <1>1, <1>3, AppendFacts
  <2>2. ~(IdsOf(g.entries) \subseteq IdsOf(m.entries))
    BY <1>3, <2>1
  <2>3. WrittenFor(g.cursor, Len(g.entries) - 1)
    BY <2>1 DEF WrittenFor
  <2> QED BY <2>1, <2>2, <2>3 DEF Holds
<1> QED BY <1>2, <1>3

\* An owner that has what the file has.
LEMMA HoldsSame ==
    ASSUME NEW m \in Session, NEW at, NEW f \in File, f.entries = m.entries,
           WrittenFor(m.cursor, Len(m.entries)), at = "open" => f.cursor = m.cursor,
           m.op # "append"
    PROVE  Holds(m, at, f)
<1>1. Len(m.entries) \in Nat
  BY DEF Session
<1> QED BY <1>1 DEF Holds

\* What an owner knows stays true, and what a newcomer has read is the file.
LEMMA OwnNext ==
    ASSUME IInv, NEW p \in Procs, Step(p)
    PROVE  OwnFacts'
<1> USE DEF InUse
<1>1. TypeOK /\ FileThere /\ LockFacts /\ RewriteFacts /\ MemLeaf /\ Fresh /\ OwnFacts
  BY DEF IInv
<1>2. \A q \in Procs : q # p => pc'[q] = pc[q] /\ mem'[q] = mem[q]
  BY <1>1, Other
<1>3. /\ file \in File \cup {Null} /\ mem[p] \in Session /\ mem[p].entries \in Seq(Entry)
      /\ mem[p].concurrent \in BOOLEAN /\ mem[p].cursor \in Cursor
  BY <1>1, Types
<1>4. hurt \subseteq hurt'
  BY <1>1, HurtGrows
<1>5. \A q \in Procs : pc[q] \in InUse => file \in File
  BY <1>1, <1>3 DEF FileThere
<1>6. \A q \in Procs : Rewriter(q) => pc[q] \in InUse
  BY DEF Rewriter, Open
<1>7. ids \in Nat /\ \A q \in Procs : mem[q] \in Session /\ mem[q].entries \in Seq(Entry)
  BY <1>1, Types
<1> SUFFICES ASSUME hurt' = {}
             PROVE  /\ file' # Null => WrittenFor(file'.cursor, Len(file'.entries))
                    /\ \A q \in Procs : pc'[q] \in Opening =>
                          file'.entries = mem'[q].entries /\ file'.cursor = mem'[q].cursor
                    /\ \A q \in Procs : Rewriter(q)' => Holds(mem'[q], pc'[q], file')
  BY DEF OwnFacts
<1>8. /\ file # Null => WrittenFor(file.cursor, Len(file.entries))
      /\ \A q \in Procs : pc[q] \in Opening =>
            file.entries = mem[q].entries /\ file.cursor = mem[q].cursor
      /\ \A q \in Procs : Rewriter(q) => Holds(mem[q], pc[q], file)
      /\ hurt = {}
  BY <1>1, <1>4 DEF OwnFacts
<1>9. \A q, r \in Procs : Owner(q) /\ Owner(r) => q = r
  BY <1>1, <1>8 DEF LockFacts
<1>10. \A q \in Procs : q # p => (Rewriter(q)' <=> Rewriter(q))
  BY <1>2 DEF Rewriter, Open
\* The three parts, for the others and for the process itself.
<1>11. ASSUME file' # Null => WrittenFor(file'.cursor, Len(file'.entries)),
              \A q \in Procs : q # p /\ pc[q] \in Opening =>
                 file'.entries = mem[q].entries /\ file'.cursor = mem[q].cursor,
              \A q \in Procs : q # p /\ Rewriter(q) => Holds(mem[q], pc[q], file'),
              pc'[p] \in Opening =>
                 file'.entries = mem'[p].entries /\ file'.cursor = mem'[p].cursor,
              Rewriter(p)' => Holds(mem'[p], pc'[p], file')
       PROVE  /\ file' # Null => WrittenFor(file'.cursor, Len(file'.entries))
              /\ \A q \in Procs : pc'[q] \in Opening =>
                    file'.entries = mem'[q].entries /\ file'.cursor = mem'[q].cursor
              /\ \A q \in Procs : Rewriter(q)' => Holds(mem'[q], pc'[q], file')
  BY <1>2, <1>10, <1>11
<1>12. ASSUME UNCHANGED file,
              pc'[p] \in Opening =>
                 file.entries = mem'[p].entries /\ file.cursor = mem'[p].cursor,
              Rewriter(p)' => Holds(mem'[p], pc'[p], file)
       PROVE  /\ file' # Null => WrittenFor(file'.cursor, Len(file'.entries))
              /\ \A q \in Procs : pc'[q] \in Opening =>
                    file'.entries = mem'[q].entries /\ file'.cursor = mem'[q].cursor
              /\ \A q \in Procs : Rewriter(q)' => Holds(mem'[q], pc'[q], file')
  BY <1>8, <1>11, <1>12
<1>13. CASE Create(p) \/ OpenFile(p)
  <2>1. pc'[p] = "lock" /\ file' \in File
        /\ mem'[p].entries = file'.entries /\ mem'[p].cursor = file'.cursor
    BY <1>1, <1>13, OpenEffect
  <2>2. ~Rewriter(p)'
    BY <2>1 DEF Rewriter, Open
  <2>3. CASE file = Null /\ file' = NewFile
    <3>1. \A q \in Procs : pc[q] \notin InUse
      BY <1>1, <2>3 DEF FileThere
    <3>2. file'.cursor = NoCursor
      BY <2>3 DEF NewFile
    <3>3. WrittenFor(file'.cursor, Len(file'.entries))
      BY <3>2 DEF WrittenFor
    <3> QED BY <1>6, <1>11, <2>1, <2>2, <3>1, <3>3
  <2>4. CASE file' = file
    BY <1>12, <2>1, <2>2, <2>4
  <2> QED BY <1>1, <1>13, <2>3, <2>4, OpenEffect
<1>14. CASE CreateLock(p) \/ WritePid(p) \/ Judge(p) \/ Unlink(p)
  <2>1. /\ pc[p] \in Opening /\ mem'[p] \in Session /\ Same(mem[p], mem'[p])
        /\ mem'[p].op = mem[p].op /\ UNCHANGED file
    BY <1>1, <1>14, LockEffect
  <2>2. /\ file \in File /\ file.entries = mem'[p].entries /\ file.cursor = mem'[p].cursor
        /\ file # Null
    BY <1>1, <1>5, <1>8, <2>1 DEF Same, FileThere
  <2>3. mem'[p].op # "append"
    BY <1>1, <2>1 DEF RewriteFacts, Opening
  <2>4. Holds(mem'[p], pc'[p], file)
    BY <1>8, <2>1, <2>2, <2>3, HoldsSame
  <2> QED BY <1>12, <2>1, <2>2, <2>4
<1>15. CASE Close(p) \/ Exit(p) \/ Crash(p)
  <2>1. pc'[p] \in {"out", "dead"} /\ UNCHANGED file
    BY <1>1, <1>15, LeaveEffect
  <2> QED BY <1>12, <2>1 DEF Rewriter, Open, Opening
<1>16. CASE Rebind(p) \/ ReadForHeader(p)
  <2>1. /\ pc[p] \in {"open", "read"} /\ pc'[p] \in {"read", "replace"}
        /\ pc[p] = "open" => mem'[p].op = "rebind"
        /\ pc[p] = "read" => mem'[p].op = mem[p].op
        /\ mem'[p] \in Session /\ Same(mem[p], mem'[p])
        /\ mem'[p].concurrent = mem[p].concurrent /\ UNCHANGED file
    BY <1>1, <1>16, HeaderEffect
  <2>2. Rewriter(p)' => Rewriter(p)
    BY <2>1 DEF Rewriter, Open
  <2>3. Rewriter(p)' => Holds(mem'[p], pc'[p], file)
    BY <1>8, <2>1, <2>2 DEF Holds, Same
  <2> QED BY <1>12, <2>1, <2>3 DEF Opening
<1>17. CASE Navigate(p)
  <2>1. /\ pc[p] = "open" /\ pc'[p] = IF mem[p].concurrent THEN "open" ELSE "read"
        /\ mem'[p] \in Session /\ mem'[p].entries = mem[p].entries
        /\ mem'[p].leaf \in IdsOf(mem[p].entries) \cup {Null}
        /\ mem'[p].cursor = [leaf |-> mem'[p].leaf, count |-> Len(mem[p].entries)]
        /\ mem'[p].concurrent = mem[p].concurrent /\ mem'[p].op = mem[p].op /\ UNCHANGED file
    BY <1>1, <1>17, NavigateEffect
  <2>2. Rewriter(p)' => Rewriter(p) /\ pc'[p] = "read"
    BY <2>1 DEF Rewriter, Open
  <2>3. mem'[p].leaf # Unset
    <3>1. IdsOf(mem[p].entries) \subseteq Nat
      BY <1>3, LeafType, BoundsAssumption DEF Ids
    <3> QED BY <2>1, <3>1, NullAssumption
  <2>4. WrittenFor(mem'[p].cursor, Len(mem'[p].entries))
    <3>1. Len(mem[p].entries) \in Nat
      BY <1>3
    <3> QED BY <2>1, <2>3, <3>1 DEF WrittenFor
  <2>5. mem'[p].op # "append"
    BY <1>1, <2>1 DEF RewriteFacts
  <2>6. Rewriter(p)' => Holds(mem'[p], pc'[p], file)
    BY <1>8, <2>1, <2>2, <2>4, <2>5 DEF Holds
  <2> QED BY <1>12, <2>1, <2>6 DEF Opening
\* No write of the file beside a process that is still opening it.
<1>18. ASSUME Damages(p, {}) PROVE \A q \in Procs : q # p => pc[q] \notin Opening
  BY <1>18 DEF Damages
\* An append, finished or not.
<1>19. ASSUME pc[p] = "open", NEW e \in Entry, e.id = ids + 1, Adds(e), Damages(p, {}),
              pc'[p] \in Opening => FALSE, Rewriter(p)' => Holds(mem'[p], pc'[p], file')
       PROVE  /\ file' # Null => WrittenFor(file'.cursor, Len(file'.entries))
              /\ \A q \in Procs : pc'[q] \in Opening =>
                    file'.entries = mem'[q].entries /\ file'.cursor = mem'[q].cursor
              /\ \A q \in Procs : Rewriter(q)' => Holds(mem'[q], pc'[q], file')
  <2>1. file \in File /\ file # Null
    BY <1>1, <1>5, <1>19 DEF FileThere
  <2>2. /\ file' \in File /\ file'.cursor = file.cursor
        /\ file'.entries = Append(file.entries, e) \/ file'.entries = file.entries
    BY <1>19 DEF Adds
  <2>3. Len(file'.entries) >= Len(file.entries) /\ Len(file'.entries) \in Nat
        /\ Len(file.entries) \in Nat
    <3>1. file.entries \in Seq(Entry)
      BY <2>1 DEF File
    <3>2. Len(Append(file.entries, e)) = Len(file.entries) + 1
      BY <3>1, AppendFacts
    <3> QED BY <2>2, <3>1, <3>2
  <2>4. WrittenFor(file'.cursor, Len(file'.entries))
    BY <1>8, <2>1, <2>2, <2>3 DEF WrittenFor
  <2>5. ASSUME NEW q \in Procs, q # p, Rewriter(q) PROVE Holds(mem[q], pc[q], file')
    <3>1. Below(mem[q].entries, ids)
      BY <1>1 DEF Fresh
    <3>2. e.id \notin IdsOf(mem[q].entries)
      BY <1>7, <1>19, <3>1, BelowFacts
    <3>3. Holds(mem[q], pc[q], file) /\ mem[q] \in Session
      BY <1>7, <1>8, <2>5
    <3>4. WrittenFor(file.cursor, Len(file.entries))
      BY <1>8, <2>1
    <3> QED BY <2>1, <2>2, <3>2, <3>3, <3>4, HoldsFrame
  <2> QED BY <1>11, <1>18, <1>19, <2>4, <2>5

<1>20. CASE AppendEntry(p)
  <2>1. PICK e \in Entry : /\ e.id = ids + 1 /\ Adds(e)
                           /\ mem'[p].entries = Append(mem[p].entries, e)
                           /\ file.tail = "ended" => file'.entries = Append(file.entries, e)
    BY <1>1, <1>20, AppendEffect
  <2>2. /\ pc[p] = "open" /\ file \in File /\ mem'[p] \in Session /\ mem'[p].cursor = NoCursor
        /\ mem'[p].concurrent = mem[p].concurrent /\ Damages(p, {})
        /\ IF mem[p].cursor.leaf # Unset /\ ~mem[p].concurrent
           THEN pc'[p] = "read" /\ mem'[p].op = "append"
           ELSE pc'[p] = "open" /\ mem'[p].op = mem[p].op
    BY <1>1, <1>20, AppendEffect
  <2>3. file'.entries = Append(file.entries, e) /\ file'.cursor = file.cursor /\ file' \in File
    BY <2>1 DEF Adds
  <2>4. ASSUME Rewriter(p)' PROVE Holds(mem'[p], pc'[p], file')
    <3>1. Rewriter(p) /\ ~mem[p].concurrent
      BY <2>2, <2>4 DEF Rewriter, Open
    <3>2. Holds(mem[p], pc[p], file)
      BY <1>8, <3>1
    <3>3. file.entries \in Seq(Entry) /\ file # Null
      BY <1>1, <2>2 DEF File, FileThere
    <3>4. e.id \notin IdsOf(file.entries)
      <4>1. Below(file.entries, ids)
        BY <1>1, <3>3 DEF Fresh
      <4> QED BY <1>7, <2>1, <3>3, <4>1, BelowFacts
    <3>5. /\ IdsOf(Append(file.entries, e)) = IdsOf(file.entries) \cup {e.id}
          /\ Len(Append(file.entries, e)) = Len(file.entries) + 1
      BY <3>3, AppendFacts
    <3>6. /\ IdsOf(Append(mem[p].entries, e)) = IdsOf(mem[p].entries) \cup {e.id}
          /\ Len(Append(mem[p].entries, e)) = Len(mem[p].entries) + 1
      BY <1>3, AppendFacts
    <3>7. Len(mem[p].entries) \in Nat /\ Len(file.entries) \in Nat
      BY <1>3, <3>3
    <3>8. IdsOf(file'.entries) \subseteq IdsOf(mem'[p].entries) => file'.entries = mem'[p].entries
      <4>1. IdsOf(file.entries) \subseteq IdsOf(mem[p].entries) => file.entries = mem[p].entries
        BY <3>2 DEF Holds
      <4>2. IdsOf(file'.entries) = IdsOf(file.entries) \cup {e.id}
        BY <2>3, <3>5
      <4>3. IdsOf(mem'[p].entries) = IdsOf(mem[p].entries) \cup {e.id}
        BY <2>1, <3>6
      <4>4. IdsOf(file'.entries) \subseteq IdsOf(mem'[p].entries)
               => IdsOf(file.entries) \subseteq IdsOf(mem[p].entries)
        BY <3>4, <4>2, <4>3
      <4> QED BY <2>1, <2>3, <4>1, <4>4
    <3>9. Len(mem'[p].entries) <= Len(file'.entries) /\ Len(file'.entries) - 1 = Len(file.entries)
      <4>1. Len(mem[p].entries) <= Len(file.entries)
        BY <3>2 DEF Holds
      <4>2. Len(mem'[p].entries) = Len(mem[p].entries) + 1
        BY <2>1, <3>6
      <4>3. Len(file'.entries) = Len(file.entries) + 1
        BY <2>3, <3>5
      <4> QED BY <3>7, <4>1, <4>2, <4>3
    <3>10. WrittenFor(file'.cursor, Len(file'.entries) - 1)
      BY <1>8, <2>3, <3>3, <3>9
    <3>11. pc'[p] = "open" => file'.cursor = mem'[p].cursor /\ mem'[p].op # "append"
      <4>1. ASSUME pc'[p] = "open" PROVE file.cursor = NoCursor /\ mem'[p].op = mem[p].op
        <5>1. mem[p].cursor.leaf = Unset /\ mem'[p].op = mem[p].op
          BY <2>2, <3>1, <4>1
        <5>2. mem[p].cursor = NoCursor
          BY <3>2, <5>1 DEF Holds, WrittenFor
        <5> QED BY <2>2, <3>2, <5>1, <5>2 DEF Holds
      <4>2. mem[p].op = "none"
        BY <1>1, <2>2 DEF RewriteFacts
      <4> QED BY <2>2, <2>3, <4>1, <4>2
    <3>12. WrittenFor(mem'[p].cursor, Len(mem'[p].entries))
      BY <2>2 DEF WrittenFor
    <3> QED BY <2>2, <3>8, <3>9, <3>10, <3>11, <3>12 DEF Holds
  <2>5. pc'[p] \notin Opening
    BY <2>2 DEF Opening
  <2> QED BY <1>19, <2>1, <2>2, <2>4, <2>5
<1>21. CASE CrashInAppend(p)
  <2>1. PICK e \in Entry : e.id = ids + 1 /\ Adds(e)
    BY <1>1, <1>21, TornEffect
  <2>2. pc[p] = "open" /\ pc'[p] = "dead" /\ Damages(p, {})
    BY <1>1, <1>21, TornEffect
  <2>3. ~Rewriter(p)' /\ pc'[p] \notin Opening
    BY <2>2 DEF Rewriter, Open, Opening
  <2> QED BY <1>19, <2>1, <2>2, <2>3
<1>22. CASE ReplaceHeader(p)
  <2>1. /\ pc[p] = "replace" /\ pc'[p] = "open" /\ file' \in File
        /\ file'.cursor = mem[p].cursor /\ file'.entries = snap[p].entries
        /\ mem'[p] \in Session /\ Same(mem[p], mem'[p]) /\ mem'[p].op = "none"
        /\ ~Overwrites(p) /\ Damages(p, {})
    BY <1>1, <1>22, ReplaceEffect
  <2>2. file = snap[p] /\ ~mem[p].concurrent
    BY <2>1 DEF Overwrites
  <2>3. Rewriter(p)
    BY <2>1, <2>2 DEF Rewriter, Open
  <2>4. Holds(mem[p], pc[p], file) /\ file \in File
    BY <1>5, <1>6, <1>8, <2>3
  <2>5. /\ Len(mem[p].entries) \in Nat /\ Len(file.entries) \in Nat
        /\ Len(mem[p].entries) <= Len(file.entries)
    BY <1>3, <2>4 DEF Holds, File
  <2>6. WrittenFor(file'.cursor, Len(file'.entries))
    BY <2>1, <2>2, <2>4, <2>5 DEF Holds, WrittenFor
  <2>7. Holds(mem'[p], pc'[p], file')
    BY <2>1, <2>2, <2>4 DEF Holds, Same
  <2>8. \A q \in Procs : Rewriter(q) => q = p
    BY <1>9, <2>3 DEF Owner
  <2>9. \A q \in Procs : q # p => pc[q] \notin Opening
    BY <1>18, <2>1
  <2>10. pc'[p] \notin Opening
    BY <2>1 DEF Opening
  <2> QED BY <1>11, <2>6, <2>7, <2>8, <2>9, <2>10
<1>23. CASE Truncate(p)
  <2>1. /\ pc[p] = "open" /\ pc'[p] = "open" /\ mem'[p] \in Session
        /\ mem'[p].cursor = NoCursor /\ mem'[p].op = mem[p].op
        /\ mem'[p].concurrent = mem[p].concurrent
        /\ mem[p].concurrent => UNCHANGED file
        /\ ~mem[p].concurrent =>
              /\ file' \in File /\ file'.cursor = NoCursor
              /\ file'.entries = mem'[p].entries /\ Damages(p, {})
    BY <1>1, <1>23, TruncateEffect
  <2>2. pc'[p] \notin Opening
    BY <2>1 DEF Opening
  <2>3. CASE mem[p].concurrent
    <3>1. ~Rewriter(p)'
      BY <2>1, <2>3 DEF Rewriter
    <3> QED BY <1>12, <2>1, <2>2, <2>3, <3>1
  <2>4. CASE ~mem[p].concurrent
    <3>1. Rewriter(p)
      BY <2>1, <2>4 DEF Rewriter, Open
    <3>2. \A q \in Procs : Rewriter(q) => q = p
      BY <1>9, <3>1 DEF Owner
    <3>3. \A q \in Procs : q # p => pc[q] \notin Opening
      BY <1>18, <2>1, <2>4
    <3>4. WrittenFor(file'.cursor, Len(file'.entries)) /\ WrittenFor(mem'[p].cursor, Len(mem'[p].entries))
      BY <2>1, <2>4 DEF WrittenFor
    <3>5. mem'[p].op # "append"
      BY <1>1, <2>1 DEF RewriteFacts
    <3>6. Holds(mem'[p], pc'[p], file')
      BY <2>1, <2>4, <3>4, <3>5, HoldsSame
    <3> QED BY <1>11, <2>2, <3>2, <3>3, <3>4, <3>6
  <2> QED BY <1>3, <2>3, <2>4
<1> QED BY <1>13, <1>14, <1>15, <1>16, <1>17, <1>20, <1>21, <1>22, <1>23 DEF Step

----------------------------------------------------------------------------
(* The theorems.                                                           *)

LEMMA InitIInv == Init => IInv
<1> SUFFICES ASSUME Init PROVE IInv
  OBVIOUS
<1> USE DEF Init
<1>1. NoSession \in Session /\ NoSession.entries = <<>> /\ NoSession.cursor = NoCursor
      /\ NoSession.leaf = LeafIn(NoCursor, <<>>) /\ NoSession.op = "none"
  BY NoSessionFacts
<1>2. TypeOK
  <2>1. 0 \in 0..MaxEntries /\ 0 \in 0..MaxMoves
    BY BoundsAssumption
  <2> QED BY <1>1, <2>1 DEF TypeOK
<1>3. FileThere /\ RewriteFacts /\ MemLeaf
  BY <1>1 DEF FileThere, RewriteFacts, MemLeaf, InUse, Opening
<1>4. LockFacts
  BY DEF LockFacts, Owner, Rewriter, Open
<1>5. Fresh
  BY <1>1 DEF Fresh, Below
<1>6. RootFacts
  BY DEF RootFacts, InUse, Opening
<1>7. OwnFacts
  BY DEF OwnFacts, Opening, Rewriter, Open
<1> QED BY <1>2, <1>3, <1>4, <1>5, <1>6, <1>7 DEF IInv

LEMMA NextIInv == IInv /\ [Next]_vars => IInv'
<1> SUFFICES ASSUME IInv, [Next]_vars PROVE IInv'
  OBVIOUS
<1>1. TypeOK /\ FileThere /\ LockFacts /\ RewriteFacts /\ MemLeaf /\ Fresh /\ RootFacts /\ OwnFacts
  BY DEF IInv
<1>2. CASE Next
  <2>1. PICK p \in Procs : Step(p)
    BY <1>2, NextIsStep
  <2> QED BY <1>1, <2>1, TypeNext, FileNext, LockNext, RewriteNext, MemLeafNext, FreshNext,
             RootNext, OwnNext DEF IInv
<1>3. CASE UNCHANGED vars
  <2>1. UNCHANGED <<file, lock, pc, mem, snap, ids, moves, hurt>>
    BY <1>3 DEF vars
  <2>2. TypeOK' /\ FileThere' /\ RewriteFacts' /\ MemLeaf'
    BY <1>1, <2>1 DEF TypeOK, FileThere, RewriteFacts, MemLeaf
  <2>3. LockFacts'
    BY <1>1, <2>1 DEF LockFacts, Owner, Rewriter, Open
  <2>4. Fresh' /\ RootFacts'
    BY <1>1, <2>1 DEF Fresh, RootFacts, Undamaged
  <2>5. OwnFacts'
    BY <1>1, <2>1 DEF OwnFacts, Rewriter, Open
  <2> QED BY <2>2, <2>3, <2>4, <2>5 DEF IInv
<1> QED BY <1>2, <1>3

\* The inductive invariant holds in every reachable state, for any number of
\* processes that open, use, leave and lose the log.
THEOREM Invariance == Spec => []IInv
BY InitIInv, NextIInv, PTL DEF Spec

\* Files, locks and sessions keep their types.
THEOREM TypeCorrect == Spec => []TypeOK
<1>1. IInv => TypeOK
  BY DEF IInv
<1> QED BY <1>1, Invariance, PTL

\* At most one instance believes that it may replace the file, unless the lock of a
\* live process was removed as a stale one (tryAcquireLock).
THEOREM OneRewriterHolds == Spec => []OneRewriter
<1>1. IInv => OneRewriter
  BY DEF IInv, LockFacts, OneRewriter, Owner
<1> QED BY <1>1, Invariance, PTL

\* Reopening the file gives back what its owner holds, the position included, also
\* between an append and the removal of the cursor that is no longer true
\* (appendRawEntry, persistCursor, open).
THEOREM LogIsResumable == Spec => []Resumable
<1>1. IInv => Resumable
  <2> SUFFICES ASSUME IInv, NEW p \in Procs, Rewriter(p), hurt = {},
                      IdsOf(file.entries) \subseteq IdsOf(mem[p].entries),
                      pc[p] = "open" \/ mem[p].op = "append"
               PROVE  file.entries = mem[p].entries /\ LeafOf(file) = mem[p].leaf
    BY DEF Resumable
  <2>1. Holds(mem[p], pc[p], file)
    BY DEF IInv, OwnFacts
  <2>2. file.entries = mem[p].entries
    BY <2>1 DEF Holds
  <2>3. mem[p].leaf = LeafIn(mem[p].cursor, mem[p].entries) /\ mem[p].entries \in Seq(Entry)
    BY Types DEF IInv, MemLeaf
  <2>4. CASE mem[p].op = "append"
    <3>1. mem[p].cursor = NoCursor /\ WrittenFor(file.cursor, Len(file.entries) - 1)
      BY <2>1, <2>4 DEF Holds
    <3>2. mem[p].leaf = LastOf(mem[p].entries)
      BY <2>3, <3>1, NoCursorLeaf
    <3>3. Len(mem[p].entries) \in Nat
      BY <2>3
    <3>4. LeafIn(file.cursor, mem[p].entries) = LastOf(mem[p].entries)
      <4>1. CASE file.cursor = NoCursor
        BY <2>3, <4>1, NoCursorLeaf
      <4>2. CASE file.cursor # NoCursor
        <5>1. file.cursor.count \in Nat /\ file.cursor.count <= Len(mem[p].entries) - 1
          BY <2>2, <3>1, <4>2 DEF WrittenFor
        <5>2. file.cursor.count \notin {Unset, Len(mem[p].entries)}
          BY <3>3, <5>1, NullAssumption
        <5> QED BY <5>2 DEF LeafIn
      <4> QED BY <4>1, <4>2
    <3> QED BY <2>2, <3>2, <3>4 DEF LeafOf
  <2>5. CASE pc[p] = "open"
    BY <2>1, <2>2, <2>3, <2>5 DEF Holds, LeafOf
  <2> QED BY <2>2, <2>4, <2>5
<1> QED BY <1>1, Invariance, PTL

\* No entry of the file names a parent that is not there, unless a line was glued to a
\* torn one or a rewrite went over what another process had written.
THEOREM HistoryStaysRooted == Spec => []RootedUnlessDamaged
<1>1. IInv => RootedUnlessDamaged
  <2> SUFFICES ASSUME IInv, Undamaged, file # Null, NEW e \in ToSet(file.entries)
               PROVE  e.parent \in IdsOf(file.entries) \cup {Null}
    BY DEF RootedUnlessDamaged, FileRooted, Undamaged
  <2>1. Grown(file.entries) /\ file.entries \in Seq(Entry)
    BY DEF IInv, RootFacts, TypeOK, File
  <2>2. PICK i \in DOMAIN file.entries : e = file.entries[i]
    BY DEF ToSet
  <2>3. DOMAIN file.entries = 1..Len(file.entries) /\ Len(file.entries) \in Nat
    BY <2>1
  <2> QED BY <2>1, <2>2, <2>3 DEF Grown, IdsOf
<1> QED BY <1>1, Invariance, PTL

\* What is in front is a prefix.
LEMMA PrefixFacts ==
    ASSUME NEW entries \in Seq(Entry)
    PROVE  /\ IsPrefix(entries, entries)
           /\ \A e \in Entry : IsPrefix(entries, Append(entries, e))
<1>1. IsPrefix(entries, entries)
  BY DEF IsPrefix
<1>2. ASSUME NEW e \in Entry PROVE IsPrefix(entries, Append(entries, e))
  <2>1. Len(entries) <= Len(Append(entries, e)) /\ Len(entries) \in Nat
    BY AppendFacts
  <2>2. SubSeq(Append(entries, e), 1, Len(entries)) = SubSeq(entries, 1, Len(entries))
    OBVIOUS
  <2> QED BY <2>1, <2>2 DEF IsPrefix
<1> QED BY <1>1, <1>2

\* A concurrent instance only ever adds to the file, the header of a fork apart
\* ("rewriting would wipe the other process's additions").
THEOREM ConcurrentKeeps == Spec => ConcurrentKeepsFile
<1>1. IInv /\ [Next]_vars =>
         \A p \in Procs :
            (/\ Acts(p) /\ Open(p) /\ mem[p].concurrent /\ mem[p].op # "rebind"
             /\ file.tail = "ended")
              => IsPrefix(file.entries, file'.entries)
  <2> SUFFICES ASSUME IInv, [Next]_vars, NEW p \in Procs, Acts(p), Open(p), mem[p].concurrent,
                      mem[p].op # "rebind", file.tail = "ended"
               PROVE  IsPrefix(file.entries, file'.entries)
    OBVIOUS
  <2>1. TypeOK /\ FileThere /\ RewriteFacts
    BY DEF IInv
  <2>2. PICK q \in Procs : Step(q)
    BY NextIsStep DEF Acts, vars
  <2>3. q = p
    BY <2>1, <2>2, Other DEF Acts
  <2>4. file \in File /\ file.entries \in Seq(Entry)
    BY <2>1, Types DEF Open, InUse, FileThere, File
  <2>5. pc[p] \in {"open", "read", "replace"} /\ pc[p] # "read" /\ pc[p] # "replace"
    BY <2>1 DEF Open, RewriteFacts
  <2>6. IsPrefix(file.entries, file.entries)
        /\ \A e \in Entry : IsPrefix(file.entries, Append(file.entries, e))
    BY <2>4, PrefixFacts
  <2>7. ASSUME NEW e \in Entry, Adds(e) PROVE IsPrefix(file.entries, file'.entries)
    BY <2>4, <2>6, <2>7, UngluedFacts DEF Adds
  <2>8. CASE AppendEntry(p) \/ CrashInAppend(p)
    BY <2>1, <2>7, <2>8, AppendEffect, TornEffect
  <2>9. CASE Navigate(p) \/ Rebind(p) \/ ReadForHeader(p) \/ Truncate(p)
    <3>1. UNCHANGED file
      BY <2>1, <2>9, NavigateEffect, HeaderEffect, TruncateEffect
    <3> QED BY <2>6, <3>1
  <2>10. CASE Close(p) \/ Exit(p) \/ Crash(p)
    <3>1. UNCHANGED file
      BY <2>1, <2>10, LeaveEffect
    <3> QED BY <2>6, <3>1
  <2>11. ~(Create(p) \/ OpenFile(p) \/ CreateLock(p) \/ WritePid(p) \/ Judge(p) \/ Unlink(p)
           \/ ReplaceHeader(p))
    BY <2>5 DEF Create, OpenFile, CreateLock, WritePid, Judge, Unlink, ReplaceHeader
  <2> QED BY <2>2, <2>3, <2>8, <2>9, <2>10, <2>11 DEF Step
<1> QED BY <1>1, Invariance, PTL DEF Spec, ConcurrentKeepsFile

=============================================================================
