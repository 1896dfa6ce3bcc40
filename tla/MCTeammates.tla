---------------------------- MODULE MCTeammates ----------------------------
EXTENDS Teammates, AgentRuns

-----------------------------------------------------------------------------
(* The registry after any few agents have started, worked and ended.         *)

Use == [emptyAgentUsage EXCEPT !.cost = 1]
Happen(known, event) ==
  CASE event[1] = "start" -> startAgentRun(known, event[2], "scout")
    [] event[1] = "turn"  -> Observed(known, event[2], "turnEnd", Use)
    [] event[1] = "end"   -> finishAgentRun(known, event[2],
                               [status |-> "done", result |-> "text", reason |-> Unset])
Ids == {"a", "b", "c"}
Events == ({"start", "end"} \X Ids) \union {<<"turn", "a">>}
Histories == UNION {[1 .. n -> Events] : n \in 0 .. 5}
After(h) == FoldLeft(Happen, <<>>, h)

(* The registry keeps within its limit, never forgets a running agent while  *)
(* it could forget one that has ended, and the panel and the totals say of   *)
(* the agents it knows what is true of them.                                 *)
ASSUME RegistryIsTrue ==
  \A h \in Histories :
    LET known == After(h)
        panel == Panel(known, FALSE)
        total == aggregateAgentUsage(known)
    IN  /\ Len(known) <= MAX_AGENT_RUNS
        /\ panel.running + panel.done + panel.failed = Len(known)
        /\ panel.running = total.running /\ total.count = Len(known)
        /\ Len(panel.rows) + panel.more = Len(known)
        /\ Len(Panel(known, TRUE).rows) <= EXPANDED
        /\ \A i, j \in DOMAIN known : known[i].id = known[j].id => i = j
        /\ findAgentRunByPrefix(known, {"a", "b"}) # Unset =>
             ~(Known(known, "a") /\ Known(known, "b"))

ASSUME ForgetsTheEndedFirst ==
  \A h \in Histories : \A id \in Ids :
    LET before == After(h)
        after == startAgentRun(before, id, "scout")
        gone == {before[i] : i \in {i \in DOMAIN before : ~Known(after, before[i].id)}}
    IN  /\ Known(after, id)
        /\ (\E r \in gone : r.status = "running") =>
             \A i \in DOMAIN before : before[i].status = "running"

(* A teammate that is spawned again does not replace its earlier record; its *)
(* report outlives its end.                                                  *)
ASSUME EarlierRunsStay ==
  LET one == Reported(Phase(startAgentRun(<<>>, <<"n", 1>>, "teammate"), <<"n", 1>>, "working"),
                      <<"n", 1>>, "report")
      ended == TeammateEnded(one, <<"n", 1>>, "idle too long")
  IN  /\ RunKey(<<>>, "n") = <<"n", 1>> /\ RunKey(ended, "n") = <<"n", 2>>
      /\ ended[1].result = "report" /\ ended[1].status = "done" /\ ended[1].phase = Unset
      /\ TeammateEnded(startAgentRun(<<>>, <<"n", 1>>, "teammate"), <<"n", 1>>, "idle too long")[1]
           .result = "idle too long"

(* A line of diagnosis is shown once the interface listens, and printed      *)
(* otherwise.                                                                *)
ASSUME NoticesAreSeen ==
  LET heard == On(NoListeners, "notice", "chat")
  IN  /\ emitNoticeOrLog(NoListeners) = {"console"}
      /\ emitNoticeOrLog(heard) = {"chat"}
      /\ emitNoticeOrLog(Off(heard, "notice", "chat")) = {"console"}
      /\ emitNoticeOrLog(On(NoListeners, "stream", "chat")) = {"console"}

(* A lead that creates a team in its turn is in it at once, under the        *)
(* identity of its session; a teammate's own context is left alone.          *)
Contexts == [teamName : {Unset, "red"}, agentId : {Unset, "s1"}, role : {"lead", "teammate"}]
ASSUME TeamsAreJoinedAtOnce ==
  \A store \in Contexts \union {Nobody}, new \in [teamName : {"blue"}, agentId : {Unset}, role : {"lead"}] :
    LET set == setAgentContext(store, Nobody, new)
    IN  /\ store.role # "teammate" =>
             getAgentContext(set.store, set.lead).teamName = "blue"
        /\ store.role = "lead" => set.store.agentId = store.agentId
        /\ store.role = "teammate" => set.store = store

(* Only a success with a text is an answer, and only then the files of an    *)
(* agent with a workspace of its own are closed; a fork asks with the        *)
(* parent's prefix and acts with its own role.                               *)
ASSUME OneShotsEndOnce ==
  \A role \in PIPELINE_ROLES \union {"subagent"}, integrates \in BOOLEAN,
     result \in [status : {"success", "cancelled", "timeout"}, final : {Unset, "text"}] :
    LET end == Ending(role, result, integrates)
        launch == Launch(role, [role |-> "lead", session |-> "s1"])
    IN  /\ end.answer # "error" => Succeeded(result)
        /\ end.workspace = "closed" => end.run.status = "done" /\ integrates
        /\ OwnsWorkspace(role) <=> end.workspace # "none"
        /\ launch.options.prefix = "lead" /\ launch.options.role = role
        /\ launch.options.face = "subagent" /\ launch.options.routing = "s1"
        /\ Launch(role, [role |-> "lead", session |-> Unset]).options.prefix = Unset /\ MaxTurnsOf(role) \in {15, 30}
=============================================================================
