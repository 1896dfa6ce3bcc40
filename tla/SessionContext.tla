--------------------------- MODULE SessionContext ---------------------------
(***************************************************************************)
(* What a session makes of its entries, session-manager.ts: the branch that *)
(* leads to a leaf, the tree as /tree lists it, the messages the model is    *)
(* given, and the clean-up of tool calls that were never answered.          *)
(*                                                                          *)
(* These are functions of the entries; no process and no file is involved.   *)
(***************************************************************************)
EXTENDS Naturals, Sequences, FiniteSets, SequencesExt

(* A message: its role, the ids of its tool calls or the id it answers, the   *)
(* tokens it counts for, and the log entries whose content it stands for: its *)
(* own, or all that a summary was made from.                                 *)
Spoken(role, calls, answers, ids) ==
  [role |-> role, calls |-> calls, answers |-> answers, ids |-> ids,
   tokens |-> IF role = "tool" THEN 2 ELSE 1, summary |-> FALSE]

Summary(ids) == [Spoken("user", {}, 0, ids) EXCEPT !.summary = TRUE]

IdsStoodFor(msgs) == UNION {m.ids : m \in ToSet(msgs)}

(* The protocol of the model: an assistant message with tool calls is        *)
(* followed by one result for each of them, and results come nowhere else.   *)
Never == {0}  \* wanted for ever: no call has the id 0
StillWanted(wanted, m) ==
  CASE m.role = "tool" -> IF m.answers \in wanted \ Never THEN wanted \ {m.answers} ELSE Never
    [] m.role # "tool" -> IF wanted = {} THEN m.calls ELSE Never

WantedAfter(msgs) ==
  LET wanted[n \in 0..Len(msgs)] ==
        IF n = 0 THEN {} ELSE StillWanted(wanted[n - 1], msgs[n])
  IN wanted[Len(msgs)]

WellPaired(msgs) == WantedAfter(msgs) = {}

-----------------------------------------------------------------------------
(* closeOpenTurns.                                                           *)

Fresh == [out |-> <<>>, expected |-> {}, from |-> 0, done |-> FALSE]

(* The turn that was open is replaced by a text that says so.                *)
Marker(ids) == Spoken("assistant", {}, 0, ids)
Retracted(s) ==
  [out |-> Append(SubSeq(s.out, 1, s.from - 1),
                  Marker(IdsStoodFor(SubSeq(s.out, s.from, Len(s.out))))),
   expected |-> {}, from |-> 0, done |-> FALSE]

Stopped(s) == [s EXCEPT !.done = TRUE]

(* A result without a call, or for a call that is not open, ends the list.   *)
TakeResult(s, m) ==
  CASE s.from = 0 -> Stopped([s EXCEPT !.out = Append(@, Marker({}))])
    [] s.from # 0 /\ m.answers \notin s.expected -> Stopped(Retracted(s))
    [] OTHER ->
         LET left == s.expected \ {m.answers} IN
         [s EXCEPT !.out = Append(@, m), !.expected = left,
                   !.from = IF left = {} THEN 0 ELSE @]

TakeOther(s, m) ==
  [s EXCEPT !.out = Append(@, m), !.expected = m.calls,
            !.from = IF m.calls = {} THEN 0 ELSE Len(s.out) + 1]

TakeMessage_Final(s, m) ==
  CASE s.done -> s
    [] ~s.done /\ m.role = "tool" -> TakeResult(s, m)
    [] OTHER -> IF s.from # 0 THEN Stopped(Retracted(s)) ELSE TakeOther(s, m)

TakeMessage_Open(s, m) ==
  CASE s.done -> s
    [] ~s.done /\ m.role = "tool" -> TakeResult(s, m)
    [] OTHER -> TakeOther(s, m)

(* Anything but a result closes an open turn; only a user message goes on.   *)
TakeMessage(s, m) ==
  CASE s.done -> s
    [] ~s.done /\ m.role = "tool" -> TakeResult(s, m)
    [] OTHER ->
         LET closed == IF s.from = 0 THEN s ELSE Retracted(s) IN
         IF s.from # 0 /\ m.role # "user" THEN Stopped(closed) ELSE TakeOther(closed, m)

Taken(msgs) ==
  LET state[n \in 0..Len(msgs)] ==
        IF n = 0 THEN Fresh ELSE TakeMessage(state[n - 1], msgs[n])
  IN state[Len(msgs)]

closeOpenTurns(msgs) ==
  LET s == Taken(msgs) IN IF s.from = 0 \/ s.done THEN s.out ELSE Retracted(s).out

-----------------------------------------------------------------------------
(* The tree.                                                                 *)

NoParent == 0

EntryOf(entries, id) == CHOOSE e \in ToSet(entries) : e.id = id
IdsIn(entries) == {e.id : e \in ToSet(entries)}

(* getBranch: from the entry back along the parents, as far as they exist;   *)
(* a parent is in the log before its children, so there are no more steps    *)
(* than entries, and the first id of all is no entry's.                      *)
Ancestry(entries, leaf) ==
  LET back[n \in 0..Len(entries)] ==
        IF n = 0 THEN <<leaf>>
        ELSE LET path == back[n - 1] IN
             IF path[1] \in IdsIn(entries)
             THEN <<EntryOf(entries, path[1]).parent>> \o path ELSE path
  IN back[Len(entries)]

getBranch(entries, leaf) ==
  LET ids == Tail(Ancestry(entries, leaf))
  IN [i \in DOMAIN ids |-> EntryOf(entries, ids[i])]

(* The elements of a list that are in a set, in the list's order.            *)
Among(list, S) ==
  LET found[n \in 0..Len(list)] ==
        IF n = 0 THEN <<>>
        ELSE IF list[n] \in S THEN Append(found[n - 1], list[n]) ELSE found[n - 1]
  IN found[Len(list)]

Children(entries, id) == Among(entries, {e \in ToSet(entries) : e.parent = id})

(* getTreeEntries: a stack of what is still to be listed, last child first.  *)
Listed(entry, depth) == [entry |-> entry, depth |-> depth]
Pushed_Behind(stack, children, depth) ==
  stack \o [i \in DOMAIN children |-> Listed(children[i], depth)]

Pushed(stack, children, depth) ==
  [i \in DOMAIN children |-> Listed(children[i], depth)] \o stack

Popped(entries, s) ==
  LET top == s.stack[1] IN
  IF top.entry.id \in {x.entry.id : x \in ToSet(s.out)}
  THEN [s EXCEPT !.stack = Tail(@)]
  ELSE [stack |-> Pushed(Tail(s.stack), Children(entries, top.entry.id), top.depth + 1),
        out |-> Append(s.out, top)]

getTreeEntries(entries) ==
  LET start == [stack |-> Pushed(<<>>, Children(entries, NoParent), 0), out |-> <<>>]
      walk[n \in 0..Len(entries)] ==
        IF n = 0 THEN start
        ELSE IF walk[n - 1].stack = <<>> THEN walk[n - 1] ELSE Popped(entries, walk[n - 1])
  IN walk[Len(entries)].out

-----------------------------------------------------------------------------
(* The context of the model.                                                 *)

(* A compaction with its retained tail stands for everything before it.  An   *)
(* entry's tail is a set of at most one list.                                *)
IsCheckpoint(e) == e.kind = "compaction" /\ e.tail # {}

buildContextEntries(entries, leaf) ==
  LET branch == getBranch(entries, leaf)
      marks == {i \in DOMAIN branch : IsCheckpoint(branch[i])}
      from == IF marks = {} THEN 1 ELSE CHOOSE i \in marks : \A j \in marks : j <= i
  IN SubSeq(branch, from, Len(branch))

Contribution(e) ==
  CASE e.kind = "compaction" -> <<e.message>> \o (IF e.tail = {} THEN <<>> ELSE CHOOSE t \in e.tail : TRUE)
    [] e.kind \in {"message", "branch_summary"} -> <<e.message>>
    [] OTHER -> <<>>

(* The last setting of a kind on a list of entries; 0 when there is none.    *)
LastSetting(entries, kind) ==
  FoldLeft(LAMBDA found, e : IF e.kind = kind THEN e.id ELSE found, 0, entries)

SettingsFrom_Checkpoint(entries, leaf) == buildContextEntries(entries, leaf)

(* The settings are not part of what a compaction replaces: they are taken   *)
(* from the whole branch.                                                    *)
SettingsFrom(entries, leaf) == getBranch(entries, leaf)

MessagesOf(branch) ==
  LET said[n \in 0..Len(branch)] ==
        IF n = 0 THEN <<>> ELSE said[n - 1] \o Contribution(branch[n])
  IN said[Len(branch)]

buildSessionContext(entries, leaf) ==
  [messages |-> closeOpenTurns(MessagesOf(buildContextEntries(entries, leaf))),
   model |-> LastSetting(SettingsFrom(entries, leaf), "model_change")]

(* createBranchedSession: a new log with a copy of one branch, up to the     *)
(* entry or to the one before it.                                            *)
createBranchedSession(entries, selected, position) ==
  LET target == IF position = "before" THEN EntryOf(entries, selected).parent ELSE selected
  IN IF target = NoParent THEN <<>> ELSE getBranch(entries, target)

LeafAfterOpen(entries) == IF entries = <<>> THEN NoParent ELSE Last(entries).id

=============================================================================
