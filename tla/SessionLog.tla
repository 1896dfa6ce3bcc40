----------------------------- MODULE SessionLog -----------------------------
(***************************************************************************)
(* One session file, session-manager.ts, and the processes that open it:    *)
(* an append-only log of entries under a header line that is rewritten in   *)
(* place, guarded by a lock file that only marks later openers concurrent.  *)
(*                                                                          *)
(* Everything between two file-system calls is synchronous in one process,  *)
(* so a step is one call: the read of the file, the exclusive creation of   *)
(* the lock, its pid, the test of a stale lock, its removal, one append,    *)
(* the read and the replacement of a header rewrite.  A process may die     *)
(* before every step, and in the middle of an append.                       *)
(***************************************************************************)
EXTENDS Naturals, Sequences, FiniteSets, SequencesExt

CONSTANTS
  Procs,       \* the processes (claude-pi instances)
  Null,        \* null: no parent, no leaf, no lock, no file
  Unset,       \* an undefined property of the header
  MaxEntries,  \* bound: entries ever appended
  MaxMoves,    \* bound: navigations, truncations and header rewrites
  MaxCrashes   \* bound: processes that die

ASSUME BoundsAssumption ==
  MaxEntries \in Nat \ {0} /\ {MaxMoves, MaxCrashes} \subseteq Nat

Ids == 1..MaxEntries
Entry == [id : Ids, parent : Ids \cup {Null}]
Cursor == [leaf : Ids \cup {Null, Unset}, count : Nat \cup {Unset}]

(* The lines that parse; a reader skips every other line, so only the last   *)
(* one matters: an append that was interrupted leaves an entry without its   *)
(* line terminator (whole) or a piece of a line (cut) at the end.            *)
File == [cursor : Cursor, entries : Seq(Entry), tail : {"ended", "whole", "cut"}]
Lock == [by : Procs, pid : Procs \cup {Null}]
Session == [entries : Seq(Entry), leaf : Ids \cup {Null}, cursor : Cursor,
            concurrent : BOOLEAN, created : BOOLEAN, retried : BOOLEAN,
            op : {"none", "append", "rebind"}]

(* null and undefined are nothing else.                                      *)
ASSUME NullAssumption ==
  /\ Null # Unset /\ {Null, Unset} \cap (Procs \cup Nat) = {}
  /\ Null \notin Lock /\ Null \notin File

VARIABLES
  file,      \* the header's cursor, the entries, and how the file ends
  lock,      \* the .lock file: its creator, and the pid written into it
  pc,        \* where each process stands
  mem,       \* the SessionManager each process holds
  snap,      \* what rewriteHeader has read
  ids,       \* the number of ids given out (genId)
  moves,     \* the number of moves made
  hurt       \* ghost: damage so far

vars == <<file, lock, pc, mem, snap, ids, moves, hurt>>

(* SessionHeader: no cursor until the user navigates.                       *)
NoCursor == [leaf |-> Unset, count |-> Unset]
NewFile == [cursor |-> NoCursor, entries |-> <<>>, tail |-> "ended"]

Opening == {"lock", "pid", "judge", "unlink"}
InUse == Opening \cup {"open", "read", "replace"}
Alive(p) == pc[p] # "dead"
Open(p) == pc[p] \in {"open", "read", "replace"}
(* An instance that may replace the whole file.                             *)
Rewriter(p) == Open(p) /\ ~mem[p].concurrent

-----------------------------------------------------------------------------
(* What a reader finds.                                                      *)

IdsOf(entries) == {entries[i].id : i \in DOMAIN entries}
LastOf(entries) == IF entries = <<>> THEN Null ELSE entries[Len(entries)].id

(* open: the leaf is the last entry, unless the header's cursor was written  *)
(* for exactly this many entries.                                            *)
LeafOf_AnyCount(f) ==
  IF f.cursor.leaf \in IdsOf(f.entries) \cup {Null} THEN f.cursor.leaf ELSE LastOf(f.entries)

LeafIn(cursor, entries) ==
  IF cursor.count \in {Unset, Len(entries)} /\ cursor.leaf \in IdsOf(entries) \cup {Null}
  THEN cursor.leaf ELSE LastOf(entries)

LeafOf(f) == LeafIn(f.cursor, f.entries)

Loaded(f, created) ==
  [entries |-> f.entries, leaf |-> LeafOf(f), cursor |-> f.cursor,
   concurrent |-> FALSE, created |-> created, retried |-> FALSE, op |-> "none"]

NoSession == Loaded(NewFile, FALSE)

-----------------------------------------------------------------------------
(* Opening: create or open, then tryAcquireLock.                             *)

Init ==
  /\ file = Null
  /\ lock = Null
  /\ pc = [p \in Procs |-> "out"]
  /\ mem = [p \in Procs |-> NoSession]
  /\ snap = [p \in Procs |-> Null]
  /\ ids = 0 /\ moves = 0
  /\ hurt = {}

Goto(p, place) == pc' = [pc EXCEPT ![p] = place]

(* SessionManager.create: the header line, nothing else.                     *)
Create(p) ==
  /\ pc[p] = "out" /\ file = Null
  /\ file' = NewFile
  /\ mem' = [mem EXCEPT ![p] = Loaded(NewFile, TRUE)]
  /\ Goto(p, "lock")
  /\ UNCHANGED <<moves, lock, snap, ids, hurt>>

(* SessionManager.open reads the file before it asks for the lock.           *)
OpenFile(p) ==
  /\ pc[p] = "out" /\ file # Null
  /\ mem' = [mem EXCEPT ![p] = Loaded(file, FALSE)]
  /\ Goto(p, "lock")
  /\ UNCHANGED <<moves, file, lock, snap, ids, hurt>>

GiveUp_Owner(p) ==
  /\ mem' = [mem EXCEPT ![p].retried = FALSE]
  /\ Goto(p, "open")

(* The lock is not ours: the session stays usable, marked concurrent.        *)
GiveUp(p) ==
  /\ mem' = [mem EXCEPT ![p].concurrent = TRUE, ![p].retried = FALSE]
  /\ Goto(p, "open")

(* openSync(lockPath, "wx"): the lock exists before the pid is in it.        *)
CreateLock(p) ==
  /\ pc[p] = "lock"
  /\ IF lock = Null
     THEN lock' = [by |-> p, pid |-> Null] /\ Goto(p, "pid")
     ELSE UNCHANGED lock /\ Goto(p, "judge")
  /\ UNCHANGED <<moves, file, mem, snap, ids, hurt>>

(* writeSync goes to the file that was created, unlinked or not.             *)
WritePid(p) ==
  /\ pc[p] = "pid"
  /\ lock' = IF lock # Null /\ lock.by = p THEN [lock EXCEPT !.pid = p] ELSE lock
  /\ Goto(p, "open")
  /\ mem' = [mem EXCEPT ![p].retried = FALSE]
  /\ UNCHANGED <<moves, file, snap, ids, hurt>>

(* isStaleLock: only a lock whose pid is written and dead is stale.          *)
Stale == lock # Null /\ lock.pid # Null /\ ~Alive(lock.pid)

Judge(p) ==
  /\ pc[p] = "judge"
  /\ IF Stale THEN Goto(p, "unlink") /\ UNCHANGED mem ELSE GiveUp(p)
  /\ UNCHANGED <<moves, file, lock, snap, ids, hurt>>

(* The stale lock is removed by name, whichever lock has the name by now;    *)
(* there is one retry.                                                       *)
Unlink(p) ==
  /\ pc[p] = "unlink"
  /\ lock' = Null
  /\ IF lock = Null \/ mem[p].retried
     THEN GiveUp(p)
     ELSE Goto(p, "lock") /\ mem' = [mem EXCEPT ![p].retried = TRUE]
  /\ hurt' = IF lock # Null /\ Alive(lock.by) THEN hurt \cup {"raced"} ELSE hurt
  /\ UNCHANGED <<moves, file, snap, ids>>

-----------------------------------------------------------------------------
(* The lines of the file.                                                    *)

(* appendFileSync behind an unterminated line: both become one line that no   *)
(* reader can parse.                                                         *)
Unglued(f) == IF f.tail = "whole" THEN Front(f.entries) ELSE f.entries

Appended(f, e) ==
  [f EXCEPT !.entries = IF f.tail = "ended" THEN Append(f.entries, e) ELSE Unglued(f),
            !.tail = "ended"]

(* An append the process does not survive: nothing but the terminator is     *)
(* missing, or the line is cut.                                              *)
TornAppends(f, e) ==
  {[f EXCEPT !.entries = Unglued(f), !.tail = "cut"]} \cup
  (IF f.tail = "ended" THEN {[f EXCEPT !.entries = Append(f.entries, e), !.tail = "whole"]} ELSE {})

Glues == IF file.tail = "ended" THEN {} ELSE {"glued"}

(* Every write of the file; one beside a process that has read it and waits  *)
(* for the lock leaves that process with an old copy.                        *)
WriteFile(p, new, damage) ==
  /\ file' = new
  /\ hurt' = hurt \cup damage \cup
        (IF \E q \in Procs \ {p} : pc[q] \in Opening THEN {"stale"} ELSE {})

(* A header rewrite that undoes what another process has written: the file   *)
(* has changed since it was read, or the header belongs to the lock's owner. *)
Overwrites(p) == file # snap[p] \/ mem[p].concurrent

-----------------------------------------------------------------------------
(* The operations of an open session.                                        *)

(* appendRawEntry: memory first, then the line; a cursor is dropped from the *)
(* header, and from the file unless the session is concurrent.               *)
AfterAppend(m, e) ==
  [m EXCEPT !.entries = Append(m.entries, e), !.leaf = e.id, !.cursor = NoCursor]

AppendEntry(p) ==
  LET e == [id |-> ids + 1, parent |-> mem[p].leaf] IN
  /\ pc[p] = "open" /\ ids < MaxEntries
  /\ ids' = ids + 1
  /\ IF mem[p].cursor.leaf # Unset /\ ~mem[p].concurrent
     THEN mem' = [mem EXCEPT ![p] = [AfterAppend(mem[p], e) EXCEPT !.op = "append"]] /\ Goto(p, "read")
     ELSE mem' = [mem EXCEPT ![p] = AfterAppend(mem[p], e)] /\ UNCHANGED pc
  /\ WriteFile(p, Appended(file, e), Glues)
  /\ UNCHANGED <<moves, lock, snap>>

(* branch and resetLeaf: the leaf moves and persistCursor records it with    *)
(* the number of entries it was chosen among.                                *)
Moved(m, leaf) ==
  [m EXCEPT !.leaf = leaf, !.cursor = [leaf |-> leaf, count |-> Len(m.entries)]]

PersistsCursor_Always(p) == TRUE

PersistsCursor(p) == ~mem[p].concurrent
Navigate(p) ==
  /\ pc[p] = "open" /\ moves < MaxMoves /\ moves' = moves + 1
  /\ \E leaf \in IdsOf(mem[p].entries) \cup {Null} :
       mem' = [mem EXCEPT ![p] = Moved(mem[p], leaf)]
  /\ Goto(p, IF PersistsCursor(p) THEN "read" ELSE "open")
  /\ UNCHANGED <<file, lock, snap, ids, hurt>>

(* setParentSession and bindWorkspace: the creator of a fork rewrites its    *)
(* header, concurrent or not.                                                *)
Rebind(p) ==
  /\ pc[p] = "open" /\ moves < MaxMoves /\ moves' = moves + 1 /\ mem[p].created
  /\ mem' = [mem EXCEPT ![p].op = "rebind"]
  /\ Goto(p, "read")
  /\ UNCHANGED <<file, lock, snap, ids, hurt>>

(* rewriteHeader: the file is read, and replaced by what was read under the  *)
(* new first line.                                                           *)
ReadForHeader(p) ==
  /\ pc[p] = "read"
  /\ snap' = [snap EXCEPT ![p] = file]
  /\ Goto(p, "replace")
  /\ UNCHANGED <<moves, file, lock, mem, ids, hurt>>

ReplaceHeader(p) ==
  LET new == [snap[p] EXCEPT !.cursor = mem[p].cursor] IN
  /\ pc[p] = "replace"
  /\ WriteFile(p, new, IF Overwrites(p) THEN {"overwritten"} ELSE {})
  /\ snap' = [snap EXCEPT ![p] = Null]
  /\ mem' = [mem EXCEPT ![p].op = "none"]
  /\ Goto(p, "open")
  /\ UNCHANGED <<moves, lock, ids>>

(* truncateTo: memory is cut behind the entry; the file is written anew from *)
(* memory, unless the session is concurrent.                                 *)
Cut_KeepsLeaf(m, n) ==
  [m EXCEPT !.entries = SubSeq(m.entries, 1, n), !.cursor = NoCursor]

Cut(m, n) ==
  LET kept == SubSeq(m.entries, 1, n) IN
  [m EXCEPT !.entries = kept, !.cursor = NoCursor,
            !.leaf = IF n = 0 THEN Null ELSE kept[n].id]

Truncate(p) ==
  /\ pc[p] = "open" /\ moves < MaxMoves /\ moves' = moves + 1
  /\ \E n \in 0..Len(mem[p].entries) :
       LET after == Cut(mem[p], n)
           new == [cursor |-> after.cursor, entries |-> after.entries, tail |-> "ended"]
           foreign == IdsOf(file.entries) \ IdsOf(mem[p].entries)
           held == UNION {IdsOf(mem[q].entries) : q \in {r \in Procs \ {p} : pc[r] \in InUse}}
           dropped == IdsOf(mem[p].entries) \ IdsOf(after.entries)
       IN
       /\ mem' = [mem EXCEPT ![p] = after]
       /\ IF mem[p].concurrent
          THEN UNCHANGED <<file, hurt>>
          ELSE WriteFile(p, new, IF foreign \cup (held \cap dropped) # {}
                                 THEN {"overwritten"} ELSE {})
  /\ UNCHANGED <<lock, pc, snap, ids>>

(* close releases the lock it holds; the process may open again.             *)
Close(p) ==
  /\ pc[p] = "open"
  /\ lock' = IF ~mem[p].concurrent /\ lock # Null /\ lock.pid = p THEN Null ELSE lock
  /\ mem' = [mem EXCEPT ![p] = NoSession]
  /\ Goto(p, "out")
  /\ UNCHANGED <<moves, file, snap, ids, hurt>>

(* The exit handler removes every lock the process took, by name.            *)
Exit(p) ==
  /\ pc[p] = "open"
  /\ lock' = IF mem[p].concurrent THEN lock ELSE Null
  /\ mem' = [mem EXCEPT ![p] = NoSession]
  /\ Goto(p, "dead")
  /\ UNCHANGED <<moves, file, snap, ids, hurt>>

-----------------------------------------------------------------------------
(* Crashes.                                                                  *)

Dead == {p \in Procs : pc[p] = "dead"}

Dies(p) ==
  /\ pc[p] \in InUse /\ Cardinality(Dead) < MaxCrashes
  /\ Goto(p, "dead")
  /\ mem' = [mem EXCEPT ![p] = NoSession]
  /\ snap' = [snap EXCEPT ![p] = Null]
  /\ UNCHANGED <<lock, moves>>

Crash(p) == Dies(p) /\ UNCHANGED <<file, ids, hurt>>

CrashInAppend(p) ==
  /\ pc[p] = "open" /\ ids < MaxEntries /\ Dies(p)
  /\ ids' = ids + 1
  /\ \E new \in TornAppends(file, [id |-> ids + 1, parent |-> mem[p].leaf]) :
       WriteFile(p, new, Glues)

Next ==
  \E p \in Procs :
    \/ Create(p) \/ OpenFile(p)
    \/ CreateLock(p) \/ WritePid(p) \/ Judge(p) \/ Unlink(p)
    \/ AppendEntry(p) \/ Navigate(p) \/ Rebind(p)
    \/ ReadForHeader(p) \/ ReplaceHeader(p) \/ Truncate(p)
    \/ Close(p) \/ Exit(p) \/ Crash(p) \/ CrashInAppend(p)

Spec == Init /\ [][Next]_vars

-----------------------------------------------------------------------------
(* Properties.                                                               *)

(* Files, locks and sessions have their types; a session is empty while it   *)
(* is closed, and rewriteHeader holds a copy only between its two calls.      *)
TypeOK ==
  /\ file \in File \cup {Null}
  /\ lock \in Lock \cup {Null}
  /\ pc \in [Procs -> InUse \cup {"out", "dead"}]
  /\ mem \in [Procs -> Session]
  /\ snap \in [Procs -> File \cup {Null}]
  /\ \A p \in Procs :
       /\ pc[p] \in {"out", "dead"} => mem[p] = NoSession
       /\ (snap[p] # Null) <=> (pc[p] = "replace")
  /\ ids \in 0..MaxEntries /\ moves \in 0..MaxMoves
  /\ hurt \subseteq {"raced", "stale", "glued", "overwritten"}

(* At most one instance believes it may replace the file, so the rewrites of *)
(* two instances never meet (the lock, session-manager.ts:135-199): the only *)
(* way to two is a process that removes a lock a live process has just put   *)
(* in the place of the stale one.                                            *)
OneRewriter ==
  "raced" \notin hurt =>
    \A p, q \in Procs : Rewriter(p) /\ Rewriter(q) => p = q

(* What the instance that owns the log holds is what reopening the file      *)
(* would give back, the position in the tree included, unless another        *)
(* process has added to it, at every point where it could die after an       *)
(* operation: also between the append that leaves an earlier position and    *)
(* the removal of the stored cursor (appendRawEntry, truncateTo,             *)
(* persistCursor against open).                                              *)
Resumable ==
  \A p \in Procs :
    (/\ Rewriter(p) /\ hurt = {}
     /\ IdsOf(file.entries) \subseteq IdsOf(mem[p].entries)
     /\ pc[p] = "open" \/ mem[p].op = "append")
      => /\ file.entries = mem[p].entries
         /\ LeafOf(file) = mem[p].leaf

(* Nothing cuts the history of an entry off: whatever is in the file names a *)
(* parent that is in the file, so getBranch reaches the root.  The two ways  *)
(* to lose it are a line glued to a torn one and a rewrite over entries      *)
(* another process has appended or still builds on.                          *)
FileRooted ==
  file # Null =>
    \A e \in ToSet(file.entries) : e.parent \in IdsOf(file.entries) \cup {Null}

RootedUnlessDamaged == hurt \cap {"glued", "overwritten"} = {} => FileRooted

(* An instance that found the log in use takes nothing from the file: it     *)
(* appends, and rolls back or navigates in memory only ("rewriting would     *)
(* wipe the other process's additions", session-manager.ts:633).  The header *)
(* of a fork is the one rewrite without that test.                           *)
Acts(p) == pc[p] # pc'[p] \/ mem[p] # mem'[p]

ConcurrentKeepsFile ==
  [][\A p \in Procs :
       (/\ Acts(p) /\ Open(p) /\ mem[p].concurrent /\ mem[p].op # "rebind"
        /\ file.tail = "ended")
         => IsPrefix(file.entries, file'.entries)]_vars
=============================================================================
