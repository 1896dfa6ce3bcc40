------------------------------- MODULE Usage -------------------------------
(***************************************************************************)
(* What a conversation has cost and whether the prompt cache was hit:      *)
(* src/usage-stats.ts and src/cache-stats.ts, which count over the entries *)
(* of a branch every time they are asked.                                  *)
(*                                                                         *)
(* An entry has a type, a role, its usage (<<>> when it has none) and the  *)
(* time it was written.  The price of a miss is left out.                  *)
(***************************************************************************)
EXTENDS Integers, SequencesExt, FiniteSetsExt

CONSTANT NOISE_FLOOR_TOKENS \* what a miss has to exceed

emptyTotals == [input |-> 0, output |-> 0, cacheRead |-> 0, cacheWrite |-> 0, cost |-> 0]
addUsage(totals, usage) == [k \in DOMAIN totals |-> totals[k] + usage[k]]

IsAnswer(entry) == entry.type = "message" /\ entry.role = "assistant"
usageOf(entry) ==
  IF IsAnswer(entry) \/ entry.type \in {"compaction", "branch_summary"}
  THEN entry.usage ELSE <<>>

computeUsageTotals(entries) ==
  FoldLeft(LAMBDA totals, entry :
             IF usageOf(entry) = <<>> THEN totals ELSE addUsage(totals, usageOf(entry)[1]),
           emptyTotals, entries)

promptTokensOf(usage) == usage.input + usage.cacheRead + usage.cacheWrite
CacheTokens(usage) == usage.cacheRead + usage.cacheWrite

(* Tokens read from the cache, of tokens sent: the last request that counts. *)
latestCacheHitRate(entries) ==
  LET rated == {i \in DOMAIN entries : /\ usageOf(entries[i]) # <<>>
                                       /\ promptTokensOf(usageOf(entries[i])[1]) > 0}
      last == usageOf(entries[Max(rated)])[1]
  IN  IF rated = {} THEN <<>> ELSE <<last.cacheRead, promptTokensOf(last)>>

(* The fill of the window; unknown from a compaction to the next answer.     *)
Unknown == -1
computeContextUsage(sinceCompaction, tokens, contextWindow) ==
  IF contextWindow <= 0 THEN <<>>
  ELSE IF sinceCompaction = "no" THEN <<Unknown>>
  ELSE <<(tokens * 100) \div contextWindow>>

-----------------------------------------------------------------------------
(* Cache misses: tokens of the last prompt that were sent and paid again.    *)

NoRequest == [promptTokens |-> 0, timestamp |-> 0, reportedCache |-> FALSE]

asPreviousRequest(entry, reportedCache) ==
  LET usage == entry.usage[1]
  IN  IF entry.usage = <<>> \/ promptTokensOf(usage) = 0 THEN NoRequest
      ELSE [promptTokens |-> promptTokensOf(usage), timestamp |-> entry.at,
            reportedCache |-> reportedCache \/ CacheTokens(usage) > 0]

(* Nothing is missed by the first request, nor by a provider that has never  *)
(* reported a cache.                                                         *)
detectCacheMissCore(prev, usage, at) ==
  LET missed == Min({prev.promptTokens, promptTokensOf(usage)}) - usage.cacheRead
      counted == /\ prev # NoRequest /\ promptTokensOf(usage) > 0
                 /\ CacheTokens(usage) > 0 \/ prev.reportedCache
  IN  IF counted /\ missed > NOISE_FLOOR_TOKENS
      THEN <<[missedTokens |-> missed, idle |-> Max({0, at - prev.timestamp})]>>
      ELSE <<>>

(* A summary cuts the context: what follows is a first request.              *)
ScanStep(s, entry) ==
  LET miss == detectCacheMissCore(s.prev, entry.usage[1], entry.at)
      next == asPreviousRequest(entry, s.prev.reportedCache)
  IN  IF entry.type \in {"compaction", "branch_summary"} THEN [s EXCEPT !.prev = NoRequest]
      ELSE IF ~IsAnswer(entry) THEN s
      ELSE [prev |-> IF next = NoRequest THEN s.prev ELSE next,
            misses |-> IF entry.usage = <<>> THEN s.misses ELSE s.misses \o miss]

scan(entries) == FoldLeft(ScanStep, [prev |-> NoRequest, misses |-> <<>>], entries)

(* The miss of an answer that is not in the branch yet.                      *)
detectCacheMiss(entries, usage, at) == detectCacheMissCore(scan(entries).prev, usage, at)
=============================================================================
