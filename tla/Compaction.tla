----------------------------- MODULE Compaction -----------------------------
(***************************************************************************)
(* How a conversation is compacted, compact.ts: the cut, the two summaries,  *)
(* and what the model is given afterwards; the thresholds.                   *)
(*                                                                          *)
(* The conversation has no system message here: compactContext takes those   *)
(* out first and puts them back in front.                                    *)
(***************************************************************************)
EXTENDS Integers, SessionContext, FiniteSetsExt

TokensOf(msgs) ==
  LET sum[n \in 0..Len(msgs)] == IF n = 0 THEN 0 ELSE sum[n - 1] + msgs[n].tokens
  IN sum[Len(msgs)]

-----------------------------------------------------------------------------
(* findCompactionCutPoint: refused unless every call is answered in place.   *)

Cuttable(msgs) == WellPaired(msgs)

CutPoints_All(msgs) == DOMAIN msgs

CutPoints(msgs) == {i \in DOMAIN msgs : msgs[i].role # "tool"}

(* The message at which the tail, counted from the end, reaches its budget;  *)
(* 0 when the whole conversation stays below it.                             *)
Reached(msgs, budget) ==
  LET at == {i \in DOMAIN msgs :
               TokensOf(SubSeq(msgs, i, Len(msgs))) >= (IF budget < 1 THEN 1 ELSE budget)}
  IN IF at = {} THEN 0 ELSE Max(at)

LastUserUpTo(msgs, n) ==
  LET at == {i \in 1..n : msgs[i].role = "user"} IN IF at = {} THEN 0 ELSE Max(at)

(* The first safe cut from there on; the first of all when there is none.    *)
FirstKept(msgs, budget) ==
  LET reached == Reached(msgs, budget)
      later == {i \in CutPoints(msgs) : i >= reached}
  IN IF reached = 0 \/ later = {} THEN Min(CutPoints(msgs)) ELSE Min(later)

(* A cut inside a turn: the turn's user message, or 0.                       *)
TurnStart(msgs, kept) ==
  IF kept > Len(msgs) THEN 0
  ELSE IF msgs[kept].role = "user" THEN 0 ELSE LastUserUpTo(msgs, kept)

(* prepareCompaction: a cut that would keep everything is moved to the last  *)
(* user message, or the first assistant message, or behind the end.          *)
Forced(msgs) ==
  LET user == LastUserUpTo(msgs, Len(msgs))
      assistants == {i \in 2..Len(msgs) : msgs[i].role = "assistant"}
  IN CASE user > 1 -> user
       [] user <= 1 /\ assistants # {} -> Min(assistants)
       [] OTHER -> Len(msgs) + 1

ForcedTurnStart(msgs, kept) ==
  IF kept <= Len(msgs) /\ msgs[kept].role = "assistant" THEN LastUserUpTo(msgs, kept - 1) ELSE 0

(* Three pieces: what the history summary gets, what the summary of the      *)
(* split turn gets, and what is kept word for word.                          *)
Prepared(msgs, kept, turn) ==
  [summarized |-> SubSeq(msgs, 1, (IF turn > 0 THEN turn ELSE kept) - 1),
   prefix |-> IF turn > 0 THEN SubSeq(msgs, turn, kept - 1) ELSE <<>>,
   tail |-> SubSeq(msgs, kept, Len(msgs))]

prepareCompaction(msgs, budget) ==
  LET kept == FirstKept(msgs, budget) IN
  IF kept = 1
  THEN Prepared(msgs, Forced(msgs), ForcedTurnStart(msgs, Forced(msgs)))
  ELSE Prepared(msgs, kept, TurnStart(msgs, kept))

-----------------------------------------------------------------------------
(* compactContext.  A conversation that begins with the summary of an earlier *)
(* compaction is compacted without it; the new summary is made from the old   *)
(* one (the branch's last) and what is cut off.                              *)

Inline(msgs) == msgs # <<>> /\ msgs[1].summary
Uncompacted(msgs) == IF Inline(msgs) THEN Tail(msgs) ELSE msgs

Marks(branch) == {i \in DOMAIN branch : branch[i].kind = "compaction"}

previousSummary(branch, msgs) ==
  IF Marks(branch) # {} THEN branch[Max(Marks(branch))].message.ids
  ELSE IF Inline(msgs) THEN msgs[1].ids ELSE {}

SummaryOf_Anew(branch, msgs, budget) ==
  LET p == prepareCompaction(Uncompacted(msgs), budget)
      history == IF p.summarized = <<>> THEN previousSummary(branch, msgs)
                 ELSE IdsStoodFor(p.summarized)
  IN Summary(history \cup IdsStoodFor(p.prefix))

SummaryOf(branch, msgs, budget) ==
  LET p == prepareCompaction(Uncompacted(msgs), budget) IN
  Summary(previousSummary(branch, msgs) \cup IdsStoodFor(p.summarized) \cup IdsStoodFor(p.prefix))

RetainedTail(msgs, budget) == prepareCompaction(Uncompacted(msgs), budget).tail

(* Refused (it throws) unless the calls are answered; nothing to do without   *)
(* messages.                                                                 *)
CanCompact(msgs) == Uncompacted(msgs) # <<>> /\ Cuttable(Uncompacted(msgs))

(* buildSummaryPrompt: what a summary request is given of too long a list:    *)
(* the first user message, cut to a third, and the last messages that fit.   *)
Pinned(msgs, cap) ==
  LET users == {i \in DOMAIN msgs : msgs[i].role = "user"} IN
  IF users = {} THEN <<>>
  ELSE <<[msgs[Min(users)] EXCEPT !.tokens = IF @ < cap \div 3 THEN @ ELSE cap \div 3]>>

SummaryInput(msgs, cap) ==
  LET pin == Pinned(msgs, cap)
      rest == Among(msgs, {m \in ToSet(msgs) : pin = <<>> \/ m.ids # pin[1].ids})
      fits == {n \in 0..Len(rest) :
                 TokensOf(pin) + TokensOf(SubSeq(rest, Len(rest) - n + 1, Len(rest))) <= cap}
  IN IF TokensOf(msgs) <= cap THEN msgs
     ELSE pin \o SubSeq(rest, Len(rest) - Max(fits) + 1, Len(rest))

-----------------------------------------------------------------------------
(* The thresholds (maxOutputReserve, summaryOutputBudget, summarizeInputCap,  *)
(* getCompactionThreshold), in percent of a window; the model's own limit    *)
(* is 0 when it is unknown.                                                  *)

Escalated == 64000     \* ESCALATED_MAX_TOKENS
ReservePercent == 16   \* COMPACTION_RATIOS
SummaryPercent == 10
CompactPercent == 92

AtLeastOne(n) == IF n < 1 THEN 1 ELSE n
Least(a, b) == IF a < b THEN a ELSE b
Rounded(n, percent) == (n * percent + 50) \div 100

maxOutputReserve(limit, window) ==
  IF limit > 0 THEN AtLeastOne(Least(Least(limit, Escalated), window \div 2))
               ELSE AtLeastOne(Least(Rounded(window, ReservePercent), window))

summaryOutputBudget(limit, window) ==
  LET wanted == Rounded(window, SummaryPercent)
      capped == IF limit > 0 THEN Least(wanted, limit) ELSE wanted
  IN AtLeastOne(Least(capped, Escalated))

summarizeInputCap(limit, window) == AtLeastOne(window - summaryOutputBudget(limit, window))

compactionThreshold(limit, window) ==
  AtLeastOne(Rounded(window - maxOutputReserve(limit, window), CompactPercent))

-----------------------------------------------------------------------------
(* The gate of the automatic compaction (maybeCompact): after a compaction it *)
(* waits for an answer whose usage is known.                                 *)
hasValidPostCompactionUsage(branch) ==
  IF Marks(branch) = {} THEN "none"
  ELSE IF \E i \in DOMAIN branch : i > Max(Marks(branch)) /\ branch[i].usage
       THEN "yes" ELSE "no"

=============================================================================
