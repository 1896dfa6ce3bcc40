----------------------------- MODULE AgentTurn ------------------------------
(***************************************************************************)
(* The turns of agents that share one task budget: agent-loop.ts,           *)
(* error-recovery.ts, client.ts, task-budget.ts and request-deadline.ts.    *)
(*                                                                          *)
(* A run starts with a user message and alternates between one request to   *)
(* the model and the tool calls of its answer, until the model answers      *)
(* without a tool call, the turn limit is reached, the run is interrupted    *)
(* or the budget is used up.  Agents started by a tool call of the root      *)
(* inherit its budget through the async context and run beside it.  A step   *)
(* is the synchronous code between two awaits.                               *)
(*                                                                          *)
(* A message is its role and the number of tool calls it carries.  A run has *)
(* the list it sends to the model and the one its session log keeps.         *)
(***************************************************************************)
EXTENDS Integers, Sequences, FiniteSets

CONSTANTS
  Agents,           \* the root and the agents that inherit its budget
  Root,             \* the agent whose run created the budget
  MaxTurn,          \* options.maxTurn
  MaxRetries,       \* settings.retry.maxRetries
  MaxContinuations, \* MAX_RECOVERY_RETRIES
  Requests,         \* limits.requests
  Tools,            \* limits.tools
  Tokens,           \* limits.tokens, in units
  Reserve,          \* the units one request reserves
  Concurrency,      \* limits.concurrency
  MaxNotices        \* bound: notifications of background tasks and teammates

ASSUME LimitsAssumption ==
  /\ IsFiniteSet(Agents) /\ Root \in Agents
  /\ {MaxTurn, Requests, Tools, Tokens, Reserve, Concurrency} \subseteq Nat \ {0}
  /\ {MaxRetries, MaxContinuations, MaxNotices} \subseteq Nat

VARIABLES
  run,      \* the run of each agent
  usage,    \* TaskBudget.usage and the reservations
  abort,    \* the first reason a signal was aborted for
  notices   \* notifications waiting for the root, and their number so far

vars == <<run, usage, abort, notices>>

-----------------------------------------------------------------------------
(* Messages.                                                                 *)

Message == [role : {"user", "assistant", "tool"}, calls : Nat]

User == [role |-> "user", calls |-> 0]
Answer(calls) == [role |-> "assistant", calls |-> calls]
ToolResult == [role |-> "tool", calls |-> 0]

Times(n, m) == [i \in 1..n |-> m]

(* A list the protocol allows: right behind an answer with tool calls come   *)
(* their results, and a result stands nowhere else.                          *)
Paired(msgs) ==
  \A i \in DOMAIN msgs :
    /\ \A k \in 1..msgs[i].calls : i + k \in DOMAIN msgs /\ msgs[i + k].role = "tool"
    /\ msgs[i].role = "tool" => \E j \in 1..(i - 1) : i <= j + msgs[j].calls

-----------------------------------------------------------------------------
(* The budget (task-budget.ts).                                              *)

(* The agents with a request under way: for an answer or for a summary.      *)
Asked == {"wait", "summary", "splitSummary"}
Waiting == {a \in Agents : run[a].pc \in Asked}
Aborted == abort # "none"

(* controller.abort keeps the reason it was first aborted with.              *)
AbortWith(reason) == abort' = IF Aborted THEN abort ELSE reason

Usage ==
  [requests : 0..Requests, tools : 0..Tools, tokens : Nat, active : Nat, reserved : Nat]

NewUsage == [requests |-> 0, tools |-> 0, tokens |-> 0, active |-> 0, reserved |-> 0]

OverLimit_AtOnce ==
  \/ usage.requests >= Requests
  \/ usage.active >= Concurrency
  \/ usage.tokens + Reserve > Tokens

(* reserveRequest refuses what could overrun a limit, counting what the      *)
(* requests under way may still use.                                         *)
OverLimit ==
  \/ usage.requests >= Requests
  \/ usage.active >= Concurrency
  \/ usage.tokens + usage.reserved + Reserve > Tokens

Reserved(u) ==
  [u EXCEPT !.requests = @ + 1, !.active = @ + 1, !.reserved = @ + Reserve]

(* settle: a request that reports no usage is charged what it had reserved.  *)
Settled(u, used) ==
  [u EXCEPT !.active = @ - 1, !.reserved = @ - Reserve,
            !.tokens = @ + (IF used = 0 THEN Reserve ELSE used)]

-----------------------------------------------------------------------------
(* The ends of a run.                                                        *)

Notices == {n \in [pending : 0..MaxNotices, sent : 0..MaxNotices] : n.pending <= n.sent}
Statuses == {"success", "cancelled", "budget_exceeded", "timeout", "error"}

Run ==
  [pc : {"idle", "head", "compact", "split", "ask", "tools", "tool", "stop", "done"} \cup Asked,
   turn : 0..MaxTurn, msgs : Seq(Message), log : Seq(Message), calls : Nat,
   attempt : 0..MaxRetries, escalated : BOOLEAN, continued : 0..MaxContinuations,
   compacted : BOOLEAN, reason : {"auto", "reactive"}, ends : Seq(Statuses)]

NewRun ==
  [pc |-> "head", turn |-> 0, msgs |-> <<User>>, log |-> <<User>>, calls |-> 0, attempt |-> 0,
   escalated |-> FALSE, continued |-> 0, compacted |-> FALSE, reason |-> "auto",
   ends |-> <<>>]

Idle == [NewRun EXCEPT !.pc = "idle", !.msgs = <<>>, !.log = <<>>]

Init ==
  /\ run = [a \in Agents |-> IF a = Root THEN NewRun ELSE Idle]
  /\ usage = NewUsage
  /\ abort = "none"
  /\ notices = [pending |-> 0, sent |-> 0]

(* Messages for the model and the log, and one that only the model gets.     *)
SayAll(r, added) == [r EXCEPT !.msgs = r.msgs \o added, !.log = r.log \o added]
Say(r, m) == SayAll(r, <<m>>)
Prompt(r, m) == [r EXCEPT !.msgs = Append(r.msgs, m)]

(* finish and the handler of agentLoop: the session gets one run_end entry.  *)
Finish(r, status) == [r EXCEPT !.pc = "done", !.ends = Append(r.ends, status)]

InterruptStatus == IF abort = "budget" THEN "budget_exceeded" ELSE "cancelled"

(* An error that the session shows as the last message of the run.           *)
Failed(r, status) == Finish(Say(r, Answer(0)), status)

(* The next turn of the loop.                                                *)
NextTurn(r) == [r EXCEPT !.pc = "head", !.turn = @ + 1, !.attempt = 0]

Become(a, r) == run' = [run EXCEPT ![a] = r]

-----------------------------------------------------------------------------
(* agentLoopInner.                                                           *)

(* The head of a turn: stop when interrupted, take the notifications that    *)
(* are there (only the root's profile does), then look at the context size.  *)
StartTurn(a) ==
  LET r == run[a]
      told == IF a = Root THEN notices.pending ELSE 0
  IN
  /\ r.pc = "head" /\ r.turn < MaxTurn
  /\ IF Aborted
     THEN Become(a, Finish(r, InterruptStatus)) /\ UNCHANGED notices
     ELSE /\ Become(a, [SayAll(r, Times(told, User)) EXCEPT !.pc = "compact"])
          /\ notices' = [notices EXCEPT !.pending = @ - told]
  /\ UNCHANGED <<usage, abort>>

(* The turn limit: an interactive run says so.                               *)
TurnLimit(a) ==
  LET r == run[a] IN
  /\ r.pc = "head" /\ r.turn = MaxTurn
  /\ Become(a, Finish(IF a = Root THEN Say(r, Answer(0)) ELSE r, "budget_exceeded"))
  /\ UNCHANGED <<usage, abort, notices>>

(* compactContext puts a summary and the last turns in the place of the      *)
(* messages and records both in the session.  When it fails, the turn goes   *)
(* on with what there was (maybeCompact) or is over (an overflow).           *)
CompactedRun(r) ==
  LET c == [r EXCEPT !.msgs = <<User>>, !.log = <<User>>, !.reason = "auto"] IN
  IF r.reason = "auto" THEN [c EXCEPT !.pc = "ask"] ELSE NextTurn(c)

NotCompacted(r) ==
  IF r.reason = "auto" THEN [r EXCEPT !.pc = "ask"]
  ELSE IF abort' = "none" THEN Failed(r, "error")
  ELSE Finish(r, IF abort' = "budget" THEN "budget_exceeded" ELSE "cancelled")

(* No request is made: the context is small, calls are unpaired, the summary *)
(* does not fit its window, or one of the same input is in the session.      *)
NoSummary(a) ==
  LET r == run[a] IN
  /\ r.pc = "compact"
  /\ UNCHANGED <<usage, abort, notices>>
  /\ \/ Become(a, NotCompacted(r))
     \/ Paired(r.msgs) /\ ~Aborted /\ Become(a, CompactedRun(r))

(* completeTextWithUsage up to its await, for the history or the split turn. *)
AskSummary(a) ==
  LET r == run[a] IN
  /\ r.pc \in {"compact", "split"} /\ Paired(r.msgs)
  /\ IF Aborted \/ OverLimit
     THEN AbortWith("budget") /\ Become(a, NotCompacted(r)) /\ UNCHANGED usage
     ELSE /\ Become(a, [r EXCEPT !.pc = IF @ = "compact" THEN "summary" ELSE "splitSummary"])
          /\ usage' = Reserved(usage)
          /\ UNCHANGED abort
  /\ UNCHANGED notices

(* sendMessages up to its await: the reservation.  A budget that refuses     *)
(* aborts every run that shares it; the refused run ends like an             *)
(* interrupted one, without a message.                                       *)
Ask(a) ==
  LET r == run[a] IN
  /\ r.pc = "ask"
  /\ IF Aborted \/ OverLimit
     THEN /\ AbortWith("budget")
          /\ Become(a, Finish(r, IF abort = "user" THEN "cancelled" ELSE "budget_exceeded"))
          /\ UNCHANGED usage
     ELSE /\ Become(a, [r EXCEPT !.pc = "wait"])
          /\ usage' = Reserved(usage)
          /\ UNCHANGED abort
  /\ UNCHANGED notices

(* The request ends: its reservation is settled on every path, and an        *)
(* overrun that only the provider knew of exhausts the budget.               *)
Settle(used) ==
  /\ usage' = Settled(usage, used)
  /\ IF usage'.tokens > Tokens THEN AbortWith("budget") ELSE UNCHANGED abort

(* A summary is there, or has failed; a split turn has a second one.         *)
EndSummary(a) ==
  LET r == run[a] IN
  /\ r.pc \in {"summary", "splitSummary"}
  /\ \E used \in 0..(Reserve + 1) : Settle(used)
  /\ \/ Become(a, NotCompacted(r))
     \/ abort' = "none" /\ Become(a, CompactedRun(r))
     \/ abort' = "none" /\ r.pc = "summary" /\ Become(a, [r EXCEPT !.pc = "split"])
  /\ UNCHANGED notices

(* The answer or failure of the model.                                       *)
WithTools(r, n) == [Say(r, Answer(n)) EXCEPT !.pc = "tools", !.calls = n]
Final(a, r) ==
  IF a = Root THEN [Say(r, Answer(0)) EXCEPT !.pc = "stop"]
              ELSE Finish(Say(r, Answer(0)), "success")
Empty(a, r) == IF a = Root THEN [r EXCEPT !.pc = "stop"] ELSE Finish(r, "error")

(* A truncated answer: once with a larger limit, then a few continuations;   *)
(* only the list in memory gets the partial answer and the prompt.           *)
Truncated(r, calls) ==
  LET partial == Prompt(r, Answer(calls)) IN
  CASE ~r.escalated -> NextTurn([r EXCEPT !.escalated = TRUE])
    [] r.escalated /\ r.continued < MaxContinuations ->
         NextTurn([Prompt(partial, User) EXCEPT !.continued = @ + 1])
    [] OTHER -> Finish(partial, "error")

(* Context overflow: one compaction outside the thresholds.                  *)
Overflown(r) ==
  IF r.compacted THEN Failed(r, "error")
  ELSE [r EXCEPT !.compacted = TRUE, !.reason = "reactive", !.pc = "compact"]

(* retryAssistantCall (pi-ai) repeats the request after a transport error.   *)
Transport(r) ==
  IF r.attempt < MaxRetries THEN [r EXCEPT !.pc = "ask", !.attempt = @ + 1]
                            ELSE Failed(r, "error")

Outcomes(a, r) ==
  {WithTools(r, n) : n \in 1..2} \cup {Final(a, r), Empty(a, r)}
  \cup {Truncated(r, n) : n \in 0..1} \cup {Overflown(r)}
  \cup {Transport(r), Failed(r, "timeout"), Failed(r, "error")}

(* A signal aborted before the stream ended throws, and no message is kept.  *)
Respond(a) ==
  /\ run[a].pc = "wait"
  /\ \E used \in 0..(Reserve + 1) : Settle(used)
  /\ IF abort' # "none"
     THEN Become(a, Finish(run[a], IF abort' = "budget" THEN "budget_exceeded" ELSE "cancelled"))
     ELSE \E r \in Outcomes(a, run[a]) : Become(a, r)
  /\ UNCHANGED notices

-----------------------------------------------------------------------------
(* Tool calls.                                                               *)

CancelRest_Nothing(r, status) == Finish([r EXCEPT !.calls = 0], status)

CancelRest_NoReturn(r, status) == r

(* Once interrupted, what is left of the calls gets a result that says so.   *)
CancelRest(r, status) ==
  Finish([SayAll(r, Times(r.calls, ToolResult)) EXCEPT !.calls = 0], status)

(* A call is looked at: interrupted runs stop here; useTool charges it, or   *)
(* exhausts the budget and the call fails with that.  A call with arguments  *)
(* that are no object fails before it is charged.                            *)
StartTool(a) ==
  LET r == run[a] IN
  /\ r.pc = "tools" /\ r.calls > 0
  /\ IF Aborted
     THEN Become(a, CancelRest(r, InterruptStatus)) /\ UNCHANGED <<usage, abort>>
     ELSE IF usage.tools >= Tools
     THEN /\ AbortWith("budget")
          /\ Become(a, [Say(r, ToolResult) EXCEPT !.calls = @ - 1])
          /\ UNCHANGED usage
     ELSE \/ /\ Become(a, [r EXCEPT !.pc = "tool"])
             /\ usage' = [usage EXCEPT !.tools = @ + 1]
             /\ UNCHANGED abort
          \/ /\ Become(a, [Say(r, ToolResult) EXCEPT !.calls = @ - 1])
             /\ UNCHANGED <<usage, abort>>
  /\ UNCHANGED notices

(* A tool that returns, with whatever status, adds its result.               *)
EndTool(a) ==
  LET r == run[a] IN
  /\ r.pc = "tool"
  /\ Become(a, [Say(r, ToolResult) EXCEPT !.pc = "tools", !.calls = @ - 1])
  /\ UNCHANGED <<usage, abort, notices>>

(* The root's tool starts another agent, in its own async context.           *)
Spawn(a) ==
  /\ run[Root].pc = "tool" /\ run[a].pc = "idle"
  /\ Become(a, NewRun)
  /\ UNCHANGED <<usage, abort, notices>>

ToolsDone(a) ==
  /\ run[a].pc = "tools" /\ run[a].calls = 0
  /\ Become(a, NextTurn(run[a]))
  /\ UNCHANGED <<usage, abort, notices>>

(* The Stop hooks, then the budget again: its check throws what the signal   *)
(* was aborted with.  A hook may insist on another turn.                     *)
Stop(a) ==
  LET r == run[a] IN
  /\ r.pc = "stop"
  /\ IF Aborted
     THEN Become(a, Finish(r, InterruptStatus))
     ELSE \/ Become(a, Finish(r, "success"))
          \/ Become(a, NextTurn(Say(r, User)))
  /\ UNCHANGED <<usage, abort, notices>>

-----------------------------------------------------------------------------
(* The environment: Escape, the duration timer, notifications.               *)

Running == \E a \in Agents : run[a].pc \notin {"idle", "done"}

Interrupt ==
  /\ run[Root].pc # "done" /\ abort = "none"
  /\ abort' = "user"
  /\ UNCHANGED <<run, usage, notices>>

(* The timer, until the root's run disposes of it, and check() by the clock. *)
DurationExceeded ==
  /\ abort = "none"
  /\ \/ run[Root].pc # "done"
     \/ \E a \in Agents : run[a].pc \in {"head", "compact", "split", "ask", "tools", "stop"}
  /\ abort' = "budget"
  /\ UNCHANGED <<run, usage, notices>>

Notify ==
  /\ notices.sent < MaxNotices /\ Running
  /\ notices' = [pending |-> notices.pending + 1, sent |-> notices.sent + 1]
  /\ UNCHANGED <<run, usage, abort>>

Step(a) ==
  \/ StartTurn(a) \/ TurnLimit(a) \/ NoSummary(a) \/ AskSummary(a) \/ EndSummary(a) \/ Ask(a) \/ Respond(a)
  \/ StartTool(a) \/ EndTool(a) \/ ToolsDone(a) \/ Stop(a)

Next ==
  \/ \E a \in Agents : Step(a) \/ Spawn(a)
  \/ Interrupt \/ DurationExceeded \/ Notify

(* Every run makes progress: the deadline of a request (request-deadline.ts) *)
(* and the timeouts of tools and hooks end every wait.                       *)
Spec == Init /\ [][Next]_vars /\ \A a \in Agents : WF_vars(Step(a))

-----------------------------------------------------------------------------
(* Properties.                                                               *)

(* Every run is one; the budget's books: what is reserved belongs to the     *)
(* requests under way, and no counter passes its limit.                      *)
TypeOK ==
  /\ run \in [Agents -> Run]
  /\ abort \in {"none", "user", "budget"}
  /\ usage \in Usage
  /\ usage.active = Cardinality(Waiting) /\ usage.active <= Concurrency
  /\ usage.reserved = Reserve * usage.active
  /\ notices \in Notices

(* However the reservations and settlements of agents running beside each    *)
(* other interleave, the budget is passed only by what the provider charged  *)
(* beyond its reservation, here one unit for each request that has ended;    *)
(* then every run is told to stop (task-budget.ts:46-57).                    *)
WithinBudget ==
  /\ usage.tokens + usage.reserved <= Tokens + (usage.requests - usage.active)
  /\ usage.tokens > Tokens => Aborted

(* What a later start of the session reads back is a list of messages the    *)
(* protocol allows: every tool call of a run that has ended has its result,  *)
(* interrupted between two tools or not (agent-loop.ts:290-301).              *)
EndsPaired ==
  \A a \in Agents : run[a].pc = "done" => Paired(run[a].log)

(* Every run that has started ends.                                          *)
RunsEnd == \A a \in Agents : run[a].pc # "idle" ~> run[a].pc = "done"
=============================================================================
