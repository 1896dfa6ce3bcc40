--------------------------- MODULE MCConversation ---------------------------
EXTENDS Conversation
CONSTANT NOISE_FLOOR_TOKENS
Stats == INSTANCE Usage

-----------------------------------------------------------------------------
(* Branches of up to three entries: a request, answers with and without      *)
(* usage, a summary.                                                         *)

U(fresh, read, write) ==
  [input |-> fresh, output |-> 1, cacheRead |-> read, cacheWrite |-> write, cost |-> fresh]
Used == {U(0, 0, 0), U(3, 0, 0), U(1, 2, 0), U(1, 0, 2)}
E(type, role, usage) == [type |-> type, role |-> role, usage |-> usage, at |-> 0]
Entries ==
  {E("message", "user", <<>>), E("message", "assistant", <<>>), E("custom", "", <<>>)} \union
  {E("message", "assistant", <<u>>) : u \in Used} \union
  {E(type, "", <<u>>) : type \in {"compaction", "branch_summary"}, u \in {U(3, 0, 0), U(1, 2, 0)}}
Branches == SeqOf(Entries, 3)

(* What a branch cost is what its parts cost, and a summary is paid for.     *)
ASSUME TotalsAddUp ==
  \A a \in Branches, e \in Entries :
    Stats!computeUsageTotals(Append(a, e)) =
      IF e.usage = <<>> THEN Stats!computeUsageTotals(a)
      ELSE Stats!addUsage(Stats!computeUsageTotals(a), e.usage[1])

(* Of what an answer sends, at most what the request before it sent since    *)
(* the last summary is a miss; a provider without a cache misses nothing;    *)
(* the branch's misses are its answers', each asked before it was appended.  *)
ASSUME MissesAreRepeats ==
  \A a \in Branches, u \in Used :
    LET answer == E("message", "assistant", <<u>>)
        miss == Stats!detectCacheMiss(a, u, 0)
        cut == {i \in DOMAIN a : a[i].type \in {"compaction", "branch_summary"}}
        since == {i \in DOMAIN a : /\ a[i].type = "message" /\ a[i].usage # <<>>
                                   /\ \A j \in cut : j < i}
    IN  /\ Stats!scan(Append(a, answer)).misses = Stats!scan(a).misses \o miss
        /\ miss # <<>> =>
             /\ \E i \in since : miss[1].missedTokens <= Stats!promptTokensOf(a[i].usage[1])
             /\ miss[1].missedTokens <= u.input + u.cacheWrite
             /\ \E v \in {u} \union {a[i].usage[1] : i \in since} : Stats!CacheTokens(v) > 0

(* The rate is one of the branch, and the fill is unknown from a compaction  *)
(* to the answer after it, which is when the automatic compaction waits.     *)
ASSUME RatesAreRates ==
  \A a \in Branches :
    LET rate == Stats!latestCacheHitRate(a)
        marks == [i \in DOMAIN a |-> [kind |-> a[i].type, usage |-> Stats!IsAnswer(a[i]) /\
                                                                  a[i].usage # <<>>]]
        since == hasValidPostCompactionUsage(marks)
    IN  /\ rate # <<>> => rate[1] \in 0 .. rate[2] /\ rate[2] > 0
        /\ (Stats!computeContextUsage(since, 1, 1) = <<Stats!Unknown>>) <=> since = "no"

-----------------------------------------------------------------------------
(* For every window and model limit a request fits: the conversation that    *)
(* does not trigger a compaction leaves the room its answer may take, the    *)
(* summary request leaves room for the summary, and the threshold leaves at  *)
(* least a conversation to work with, so that not every turn compacts        *)
(* (compact.ts:72-150).                                                      *)
ASSUME ThresholdsFit ==
  \A window \in 2..60 : \A limit \in 0..60 :
    /\ compactionThreshold(limit, window) + maxOutputReserve(limit, window) <= window
    /\ summarizeInputCap(limit, window) + summaryOutputBudget(limit, window) <= window
    /\ window >= 4 => compactionThreshold(limit, window) > 1
=============================================================================
