---------------------------- MODULE Conversation ----------------------------
(***************************************************************************)
(* One session as the front end and the agent loop use it: tui/app.ts        *)
(* (handleSubmit), query-pipeline.ts, agent-loop.ts, compact.ts and           *)
(* tui/session-commands.ts over the tree of session-manager.ts.              *)
(*                                                                          *)
(* A turn keeps the messages in memory beside the log; between turns only    *)
(* the log exists.  Notes (thinking level, model, sub-agent records) enter    *)
(* the log at any time, also while a summary is being made.                  *)
(*                                                                          *)
(* The names TalkInit, TalkNext, TalkSpec and talkVars leave Spec to          *)
(* AgentTurn: AgentTurn_proofs extends both.                                 *)
(***************************************************************************)
EXTENDS Compaction

CONSTANTS
  Window,      \* the context window, in the units of Spoken
  Keep,        \* retainedTailBudget
  MaxEntries,  \* bound: entries of the log
  MaxNotes,    \* bound: notes
  MaxJumps     \* bound: navigations and forks

ASSUME ConversationAssumption ==
  {Window, Keep, MaxEntries} \subseteq Nat \ {0} /\ {MaxNotes, MaxJumps} \subseteq Nat

VARIABLES
  entries,  \* the log, in the order of its lines
  leaf,     \* the position in the tree
  live,     \* the messages of the turn or of the command
  turn,     \* where the turn or the command stands
  open,     \* the tool calls of the turn that still run
  base,     \* the leaf compactContext has seen, while it waits
  notes, jumps

talkVars == <<entries, leaf, live, turn, open, base, notes, jumps>>

Busy == turn # "idle"
Id == IF entries = <<>> THEN 1 ELSE Last(entries).id + 1  \* ids grow along the log
Branch == getBranch(entries, leaf)
Context == buildSessionContext(entries, leaf).messages

TalkInit ==
  /\ entries = <<>> /\ leaf = NoParent
  /\ live = <<>> /\ turn = "idle" /\ open = {}
  /\ base = NoParent
  /\ notes = 0 /\ jumps = 0

-----------------------------------------------------------------------------
(* The log.                                                                  *)

Note == Spoken("user", {}, 0, {})
Entry(kind, message, tail, usage) ==
  [id |-> Id, parent |-> leaf, kind |-> kind, message |-> message, tail |-> tail,
   usage |-> usage]

Room == Len(entries) < MaxEntries

Log(e) == entries' = Append(entries, e) /\ leaf' = e.id

(* The turn or command goes on at a place with these messages; they are gone *)
(* with it.                                                                  *)
Goto(place, msgs) == turn' = place /\ live' = IF place = "idle" THEN <<>> ELSE msgs

(* appendMessage, and the same message in memory.                            *)
Speak(role, calls, answers, usage, places) ==
  LET m == Spoken(role, calls, answers, {Id}) IN
  /\ Room /\ Log(Entry("message", m, {}, usage))
  /\ \E place \in places : Goto(place, Append(live, m))

-----------------------------------------------------------------------------
(* A turn.                                                                   *)

(* handleSubmit refuses while something runs; runQuery logs the message and   *)
(* starts from what the log gives.                                           *)
Submit ==
  LET m == Spoken("user", {}, 0, {Id}) IN
  /\ ~Busy /\ Room
  /\ Log(Entry("message", m, {}, FALSE))
  /\ Goto("head", buildSessionContext(entries', leaf').messages)
  /\ UNCHANGED <<open, base, notes, jumps>>

OverThreshold == TokensOf(live) > compactionThreshold(0, Window)

(* maybeCompact up to the await of the summary.                              *)
MaybeCompact ==
  /\ turn = "head"
  /\ IF hasValidPostCompactionUsage(Branch) # "no" /\ OverThreshold /\ CanCompact(live)
     THEN turn' = "auto" /\ base' = leaf
     ELSE turn' = "ask" /\ UNCHANGED base
  /\ UNCHANGED <<entries, leaf, live, open, notes, jumps>>

Checkpoint ==
  Entry("compaction", SummaryOf(Branch, live, Keep), {RetainedTail(live, Keep)}, FALSE)

Resumes == IF turn = "auto" THEN "ask" ELSE "idle"

(* The summary is there: it is used only on the leaf it was made for.        *)
EndCompaction ==
  /\ turn \in {"auto", "command"} /\ Room
  /\ IF leaf = base
     THEN Log(Checkpoint) /\ Goto(Resumes, buildSessionContext(entries', leaf').messages)
     ELSE UNCHANGED <<entries, leaf>> /\ Goto(Resumes, live)
  /\ base' = NoParent
  /\ UNCHANGED <<open, notes, jumps>>

FailCompaction ==
  /\ turn \in {"auto", "command"}
  /\ Goto(Resumes, live)
  /\ base' = NoParent
  /\ UNCHANGED <<entries, leaf, open, notes, jumps>>

(* reactiveCompact: the model has refused the context as too long.           *)
Overflow ==
  /\ turn = "ask" /\ Room /\ CanCompact(live)
  /\ Log(Checkpoint)
  /\ Goto("head", buildSessionContext(entries', leaf').messages)
  /\ UNCHANGED <<open, base, notes, jumps>>

(* The answer: with tool calls, or the last of the turn.                     *)
TakeAnswer ==
  /\ turn = "ask"
  /\ \E calls \in {{}, {1, 2}} : \E usage \in BOOLEAN :
       /\ Speak("assistant", calls, 0, usage, {IF calls = {} THEN "idle" ELSE "tools"})
       /\ open' = calls
  /\ UNCHANGED <<base, notes, jumps>>

(* Escape while the model answers: nothing is logged.                        *)
Escape ==
  /\ turn = "ask"
  /\ Goto("idle", <<>>)
  /\ UNCHANGED <<entries, leaf, open, base, notes, jumps>>

(* A tool has returned, or was cancelled by Escape: its result is logged      *)
(* either way, in the order of the calls.                                    *)
Result ==
  /\ turn = "tools"
  /\ Speak("tool", {}, Min(open), FALSE,
           IF Cardinality(open) > 1 THEN {"tools"} ELSE {"head", "idle"})
  /\ open' = open \ {Min(open)}
  /\ UNCHANGED <<base, notes, jumps>>

(* Shift+Tab, a model picked, a sub-agent's record: the leaf moves under      *)
(* whatever runs.                                                            *)
TakeNote ==
  /\ Room /\ notes < MaxNotes
  /\ Log(Entry("model_change", Note, {}, FALSE))
  /\ notes' = notes + 1
  /\ UNCHANGED <<live, turn, open, base, jumps>>

-----------------------------------------------------------------------------
(* Commands; they too keep the front end busy.                               *)

(* /compact, whatever the size.                                              *)
Compact ==
  /\ ~Busy /\ CanCompact(Context)
  /\ Goto("command", Context)
  /\ base' = leaf
  /\ UNCHANGED <<entries, leaf, open, notes, jumps>>

Jump == ~Busy /\ jumps < MaxJumps /\ jumps' = jumps + 1

BeforeOrAt(id, position) == IF position = "before" THEN EntryOf(entries, id).parent ELSE id

(* /tree, with or without a summary of the branch that is left.              *)
Navigate ==
  /\ Jump
  /\ \E id \in IdsIn(entries) : \E position \in {"before", "after"} :
       LET target == BeforeOrAt(id, position)
           abandoned == {e.id : e \in ToSet(Branch)} \ {e.id : e \in ToSet(getBranch(entries, target))}
       IN \/ leaf' = target /\ UNCHANGED entries
          \/ /\ Room /\ abandoned # {}
             /\ leaf' = Id
             /\ entries' = Append(entries, [Entry("branch_summary", Spoken("user", {}, 0, {Id}), {}, FALSE)
                                              EXCEPT !.parent = target])
  /\ UNCHANGED <<live, turn, open, base, notes>>

(* /fork and /clone: the copy of a branch becomes the session.               *)
Fork ==
  /\ Jump
  /\ \E id \in IdsIn(entries) : \E position \in {"before", "after"} :
       /\ entries' = createBranchedSession(entries, id, position)
       /\ leaf' = LeafAfterOpen(entries')
  /\ UNCHANGED <<live, turn, open, base, notes>>

(* The process ends in the middle of anything and the session is resumed.    *)
Restart ==
  /\ Busy
  /\ Goto("idle", <<>>) /\ open' = {} /\ base' = NoParent
  /\ UNCHANGED <<entries, leaf, notes, jumps>>

TalkNext ==
  \/ Submit \/ MaybeCompact \/ EndCompaction \/ FailCompaction \/ Overflow \/ TakeAnswer \/ Escape
  \/ Result \/ TakeNote \/ Compact \/ Navigate \/ Fork \/ Restart

TalkSpec == TalkInit /\ [][TalkNext]_talkVars

-----------------------------------------------------------------------------
(* Properties.                                                               *)

(* The messages in memory of a turn are those a resume would build from the   *)
(* log at that moment, so what the model has seen is what it will be shown    *)
(* again: after navigations into the middle of a tool turn, after            *)
(* compactions and with notes in between (agent-loop.ts:44, compact.ts:585).  *)
LiveIsTheLog == turn \in {"head", "auto", "ask"} => live = Context

(* Every message of a request is answered in order: no tool call without its *)
(* results, no result without its call, wherever the session was left,       *)
(* resumed, cut or compacted (session-manager.ts:229-303, compact.ts:181).    *)
RequestsPaired == turn = "ask" => WellPaired(live)

(* Nothing that was said on the branch is lost: it is in the request word     *)
(* for word or stands behind a summary or an interruption mark, once, and in *)
(* the order it was said (compact.ts:193-273, 516-596).                       *)
SaidOn(branch) == {e.id : e \in {x \in ToSet(branch) : x.kind \in {"message", "branch_summary"}}}

NothingForgotten ==
  turn = "ask" =>
    /\ SaidOn(Branch) \subseteq IdsStoodFor(live)
    /\ \A i, j \in DOMAIN live : i < j => \A a \in live[i].ids, b \in live[j].ids : a < b

(* /tree lists every entry of every branch once and in the order of reading: *)
(* an entry is followed by its first child, one level deeper, and a subtree  *)
(* is finished before the next begins (getTreeEntries).                      *)
TreeIsComplete ==
  ~Busy =>
  LET list == getTreeEntries(entries)
      above(i) == getBranch(entries, list[i].entry.id)
  IN /\ Len(list) = Len(entries) /\ {x.entry : x \in ToSet(list)} = ToSet(entries)
     /\ \A i \in DOMAIN list :
          /\ list[i].depth = Len(above(i)) - 1
          /\ i > 1 /\ list[i].depth > 0 =>
               list[i].entry.parent \in {e.id : e \in ToSet(above(i - 1))}
     /\ \A i, j \in DOMAIN list :
          i < j /\ list[i].entry.parent = list[j].entry.parent
            => list[i].entry.id < list[j].entry.id

(* A fork continues with the conversation and the settings of the node it    *)
(* was made from, compacted or not, and a setting survives the compaction of  *)
(* the branch that made it (createBranchedSession, buildSessionContext).      *)
ForkKeepsContext ==
  ~Busy /\ leaf # NoParent =>
    LET copy == createBranchedSession(entries, leaf, "after")
        context == buildSessionContext(entries, leaf)
    IN /\ buildSessionContext(copy, LeafAfterOpen(copy)) = context
       /\ context.model = LastSetting(Branch, "model_change")

(* Whatever part of the branch a compaction keeps: it takes something out,   *)
(* and the piece it keeps, the piece it summarises and the turn it splits     *)
(* are complete tool turns (compact.ts:193-273); and the request for the      *)
(* summary fits into its part of the window and still begins with what the    *)
(* user asked for first (buildSummaryPrompt).                                *)
CompactionIsSafe ==
  turn = "ask" =>
    /\ CanCompact(live) => \A budget \in 0..(Keep + 2) :
         LET p == prepareCompaction(Uncompacted(live), budget) IN
         /\ p.tail # Uncompacted(live)
         /\ WellPaired(p.tail) /\ WellPaired(p.summarized) /\ WellPaired(p.prefix)
    /\ \A cap \in 3..(Window + 2) :
         LET input == SummaryInput(live, cap) IN
         /\ TokensOf(input) <= cap
         /\ \A i \in DOMAIN live :
              live[i].role = "user" /\ (\A j \in 1..(i - 1) : live[j].role # "user")
                => live[i].ids \in {m.ids : m \in ToSet(input)}
=============================================================================
