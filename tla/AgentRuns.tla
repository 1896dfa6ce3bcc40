----------------------------- MODULE AgentRuns -----------------------------
(***************************************************************************)
(* The agents a process has run: the registry (agent-registry.ts), the event  *)
(* channel that feeds it (ui-events.ts), the panel that shows it              *)
(* (tui/messages/agent-panel.ts), who an agent is (teammates/context.ts,      *)
(* agent-profile.ts, loop-options.ts), and how a one-shot agent is started     *)
(* and ended (spawnSubagent in tools/agent-tools.ts).                         *)
(*                                                                          *)
(* Everything here happens between two awaits, so it is given as functions    *)
(* from the state before to the state after.  Runs are kept in the order      *)
(* they started.                                                             *)
(***************************************************************************)
EXTENDS SequencesExt

CONSTANTS
  MAX_AGENT_RUNS, \* runs the registry keeps
  ROWS, EXPANDED  \* rows of the folded and of the unfolded panel

Unset == "unset"

-----------------------------------------------------------------------------
(* The registry.                                                             *)

emptyAgentUsage == [input |-> 0, output |-> 0, cacheRead |-> 0, cacheWrite |-> 0, cost |-> 0]
AddUsage(u, v) == [k \in DOMAIN u |-> u[k] + v[k]]

NewRun(id, role) ==
  [id |-> id, role |-> role, status |-> "running", phase |-> Unset, turns |-> 0,
   toolCalls |-> 0, usage |-> emptyAgentUsage, result |-> Unset, reason |-> Unset]

Known(known, id) == \E i \in DOMAIN known : known[i].id = id
Without(known, id) == SelectSeq(known, LAMBDA r : r.id # id)

(* Beyond the limit the oldest run that has ended goes, else the oldest; the *)
(* new run never does.                                                       *)
startAgentRun(known, id, role) ==
  LET all == Append(Without(known, id), NewRun(id, role))
      ended == SelectSeq(all, LAMBDA r : r.status # "running")
      victim == IF ended # <<>> THEN ended[1] ELSE all[1]
  IN  IF Len(all) > MAX_AGENT_RUNS /\ victim.id # id THEN Without(all, victim.id) ELSE all

(* A run that is no longer known is not updated.                             *)
updateAgentRun(known, id, patch) ==
  [i \in DOMAIN known |-> IF known[i].id = id THEN patch @@ known[i] ELSE known[i]]

Given(outcome) == [k \in {k \in DOMAIN outcome : outcome[k] # Unset} |-> outcome[k]]
finishAgentRun(known, id, outcome) ==
  updateAgentRun(known, id, [phase |-> Unset] @@ Given(outcome))

listAgentRuns(known) ==
  SubSeq(known, IF Len(known) > MAX_AGENT_RUNS THEN Len(known) - MAX_AGENT_RUNS + 1 ELSE 1,
         Len(known))

aggregateAgentUsage(known) ==
  [usage |-> FoldLeft(LAMBDA u, r : AddUsage(u, r.usage), emptyAgentUsage, known),
   count |-> Len(known),
   running |-> Len(SelectSeq(known, LAMBDA r : r.status = "running"))]

(* A short id finds a run when it stands for one only; matching: the ids that *)
(* begin with it.                                                            *)
findAgentRunByPrefix(known, matching) ==
  LET found == SelectSeq(listAgentRuns(known), LAMBDA r : r.id \in matching)
  IN  IF Len(found) = 1 THEN found[1].id ELSE Unset

(* A teammate spawned again keeps the record of its earlier runs.            *)
RunKey(known, name) ==
  <<name, CHOOSE n \in 1 .. Len(known) + 1 :
            /\ ~Known(known, <<name, n>>)
            /\ \A k \in 1 .. n - 1 : Known(known, <<name, k>>)>>

-----------------------------------------------------------------------------
(* The panel.                                                                *)

Panel(known, expanded) ==
  LET listed == listAgentRuns(known)
      Count(status) == Len(SelectSeq(listed, LAMBDA r : r.status = status))
      limit == IF expanded THEN EXPANDED ELSE ROWS
      first == IF Len(listed) > limit THEN Len(listed) - limit + 1 ELSE 1
  IN  [running |-> Count("running"), done |-> Count("done"), failed |-> Count("failed"),
       rows |-> [i \in 1 .. Len(listed) - first + 1 |-> listed[first + i - 1].id],
       more |-> first - 1]

-----------------------------------------------------------------------------
(* The event channel: handlers by kind of event.                             *)

Kinds == {"stream", "tool", "turnEnd", "notice"}
NoListeners == [k \in Kinds |-> {}]
On(listeners, kind, handler) == [listeners EXCEPT ![kind] = @ \union {handler}]
Off(listeners, kind, handler) == [listeners EXCEPT ![kind] = @ \ {handler}]
Emitted(listeners, kind) == listeners[kind]

(* A line of diagnosis goes to the interface that listens, else to the       *)
(* console.                                                                  *)
emitNoticeOrLog(listeners) ==
  IF listeners["notice"] = {} THEN {"console"} ELSE Emitted(listeners, "notice")

(* What an agent's own channel does to its run.                              *)
Observed(known, id, event, usage) ==
  [i \in DOMAIN known |->
     CASE known[i].id = id /\ event = "turnEnd" ->
            [known[i] EXCEPT !.turns = @ + 1, !.usage = AddUsage(@, usage)]
       [] known[i].id = id /\ event = "tool" -> [known[i] EXCEPT !.toolCalls = @ + 1]
       [] OTHER -> known[i]]

(* A teammate works, reports and idles; the report stays when it ends.       *)
Phase(known, id, phase) == updateAgentRun(known, id, [phase |-> phase])
Reported(known, id, final) == updateAgentRun(known, id, [result |-> final])
TeammateEnded(known, id, reason) ==
  LET reported == \E i \in DOMAIN known : known[i].id = id /\ known[i].result # Unset
  IN  finishAgentRun(known, id, [status |-> "done", reason |-> reason,
                                 result |-> IF reported THEN Unset ELSE reason])

-----------------------------------------------------------------------------
(* Who the agent is.                                                         *)

PIPELINE_ROLES == {"scout", "planner", "worker", "reviewer", "verifier"}

createAgentContext(init) ==
  [teamName |-> init.teamName, agentId |-> init.agentId, role |-> init.role]

Nobody == createAgentContext([teamName |-> Unset, agentId |-> Unset, role |-> Unset])

(* The context of the running coroutine, else the lead's of the process.     *)
getAgentContext(store, lead) ==
  IF store # Nobody THEN store
  ELSE IF lead # Nobody THEN lead
  ELSE createAgentContext([teamName |-> Unset, agentId |-> Unset, role |-> "lead"])

(* A lead that joins a team in the middle of a turn joins it at once and     *)
(* stays who it was.                                                         *)
setAgentContext(store, lead, new) ==
  [lead |-> new,
   store |-> IF store.role = "lead"
             THEN [new EXCEPT !.agentId = IF store.agentId # Unset THEN store.agentId ELSE @]
             ELSE store]

(* What a turn may set for itself; everything else follows from the role.    *)
Option(given, default) == IF given = Unset THEN default ELSE given
LoopOptions(role, profile, turn) ==
  [role |-> role,
   face |-> IF role \in {"lead", "teammate"} THEN "full" ELSE "subagent",
   quietOutput |-> Option(turn.quietOutput, profile.quietOutput),
   prefix |-> turn.cachePrefix, routing |-> turn.routingSessionId]

-----------------------------------------------------------------------------
(* One-shot agents.                                                          *)

OwnsWorkspace(role) == role \in {"worker", "subagent"}
MaxTurnsOf(role) == IF role \in {"scout", "planner"} THEN 15 ELSE 30

(* With a session the parent's requests are continued: the same prompt, the  *)
(* same tools and the same cache, the brief behind them.                     *)
Launch(role, parent) ==
  LET forked == parent.session # Unset
  IN  [workspace |-> IF OwnsWorkspace(role) THEN "own" ELSE "parent's",
       messages |-> IF forked THEN <<"history", "brief and task">> ELSE <<"brief", "task">>,
       options |-> LoopOptions(role, [quietOutput |-> TRUE],
                     [quietOutput |-> Unset,
                      cachePrefix |-> IF forked THEN parent.role ELSE Unset,
                      routingSessionId |-> IF forked THEN parent.session ELSE Unset])]

(* How it ends.  Its changes are kept for review, and integrated when it     *)
(* succeeded; what the integration throws fails the run.                     *)
Succeeded(result) == result.status = "success" /\ result.final # Unset
Ending(role, result, integrates) ==
  LET own == OwnsWorkspace(role)
      well == Succeeded(result) /\ (own => integrates)
  IN  [run |-> [status |-> IF well THEN "done" ELSE "failed",
                result |-> IF well THEN result.final ELSE Unset,
                reason |-> IF well THEN Unset ELSE result.status],
       workspace |-> IF ~own THEN "none" ELSE IF well THEN "closed" ELSE "review",
       answer |-> IF well THEN result.final ELSE "error"]
=============================================================================
