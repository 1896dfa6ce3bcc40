------------------------------ MODULE ToolGate ------------------------------
(***************************************************************************)
(* The gate every tool call passes before it runs: executeToolCallResult    *)
(* (tools/runtime.ts), the permission rules (permission.ts), their bubbling  *)
(* (permission-sync.ts) and the rule that sends a command to the background  *)
(* (background-task.ts).  Everything here is a function of the call and of    *)
(* who makes it; the waiting is in FrontEnd.                                  *)
(*                                                                          *)
(* A call is [tool, server, args, facts]: server tells whether the name is a  *)
(* built-in, a local alias or a remote MCP name, args is a function from the  *)
(* parameters given to the sort of value given, and facts holds what the      *)
(* text of the command or path would match.                                   *)
(***************************************************************************)
EXTENDS Naturals, Sequences, FiniteSets

McpAdmin == {"connect_mcp", "disconnect_mcp", "restart_mcp", "list_mcp_servers"}

-----------------------------------------------------------------------------
(* Who may use which tool.                                                   *)

ReadTools == {"read_file", "grep", "glob", "repository_info", "symbol_search"}

ROLE_TOOL_ALLOWLIST ==
  [scout    |-> ReadTools \union {"run_bash"},
   planner  |-> ReadTools,
   worker   |-> ReadTools \union {"edit_file", "write_file", "apply_patch",
                                  "restore_checkpoint", "run_bash", "todo_write",
                                  "run_verification"},
   reviewer |-> ReadTools \union {"run_bash"},
   verifier |-> ReadTools \union {"run_bash", "run_verification"}]

SUBAGENT_EXCLUDED ==
  McpAdmin \union
  {"todo_write", "subagent_task", "delegate", "create_task", "claim_task",
   "complete_task", "spawn_teammate", "create_team", "send_message",
   "list_teammates", "shutdown_teammate", "review_plan", "kill_bg_task"}

isToolAllowedForRole(role, call) ==
  IF call.tool \in McpAdmin THEN role = "lead"
  ELSE \/ role \in {"lead", "teammate"}
       \/ /\ call.server # "remote"
          /\ role = "subagent" => call.tool \notin SUBAGENT_EXCLUDED
          /\ role \in DOMAIN ROLE_TOOL_ALLOWLIST =>
               call.tool \in ROLE_TOOL_ALLOWLIST[role]

(* What the loop of a role does beside its calls: teammates and leads take   *)
(* notifications, only the lead the team's; only the lead keeps a memory.    *)
Profile(role) ==
  [injectLeadNotifications |-> role = "lead",
   injectBackgroundNotifications |-> role \in {"lead", "teammate"},
   enableMemory |-> role = "lead",
   enableBackground |-> role \in {"lead", "teammate", "worker"}]

(* The pipeline preset: the lead routes and leaves the work to other roles.  *)
PIPELINE_LEAD_FORBIDDEN ==
  {"write_file", "edit_file", "apply_patch", "restore_checkpoint", "run_bash",
   "run_verification"}

isToolBlockedByPreset(role, call, teamMode) ==
  role = "lead" /\ teamMode = "pipeline" /\ call.tool \in PIPELINE_LEAD_FORBIDDEN

-----------------------------------------------------------------------------
(* Arguments: sorts of values, and a schema                                  *)
(* [required, closed, type, nullable].                                       *)

Sorts == [string  |-> {"text", "outside"},
          integer |-> {"int"},
          number  |-> {"int", "float"},
          boolean |-> {"true", "false"},
          array   |-> {"list"}]

(* A null stands for an omitted parameter that is optional and not nullable. *)
Normalised(args, schema) ==
  [k \in {k \in DOMAIN args :
            ~ /\ args[k] = "null"
              /\ k \in DOMAIN schema.type
              /\ k \notin schema.required
              /\ k \notin schema.nullable} |-> args[k]]

(* The first complaint of validateArgs, or none.                             *)
validateArgs(args, schema) ==
  LET mistyped == {k \in DOMAIN args \intersect DOMAIN schema.type :
                     args[k] \notin Sorts[schema.type[k]]
                       /\ ~(k \in schema.nullable /\ args[k] = "null")}
  IN  CASE ~(schema.required \subseteq DOMAIN args) -> "missing"
        [] schema.required \subseteq DOMAIN args
             /\ schema.closed /\ ~(DOMAIN args \subseteq DOMAIN schema.type)
             -> "unexpected"
        [] schema.required \subseteq DOMAIN args
             /\ (schema.closed => DOMAIN args \subseteq DOMAIN schema.type)
             -> IF mistyped # {} THEN "type"
                ELSE IF "path" \in DOMAIN schema.type \intersect DOMAIN args
                          /\ args["path"] = "outside"
                     THEN "path"
                     ELSE "none"

-----------------------------------------------------------------------------
(* The permission rules.                                                     *)

(* A pattern of the deny list counts unless a longer path goes on after it.  *)
checkDenyList(call) == "denied" \in call.facts

checkRules(call) ==
  \/ call.tool \in {"write_file", "edit_file"} /\ "path" \in DOMAIN call.args
       /\ call.args["path"] = "outside"
  \/ call.tool = "run_bash" /\ "destructive" \in call.facts
  \/ call.tool = "read_file" /\ "sensitive" \in call.facts

(* Where a matching rule is asked: a teammate writes to the lead's inbox,    *)
(* every other role asks the user of this process directly.                  *)
AskedThrough(role) == IF role = "teammate" THEN "mailbox" ELSE "user"

-----------------------------------------------------------------------------
(* The refusals in the order the code finds them.                            *)

CONSTANTS
  Schemas,     \* the schema of every tool that exists
  TeamMode     \* getTeamMode(): free or pipeline

Complaints(role, call) ==
  <<[of |-> "role",   holds |-> ~isToolAllowedForRole(role, call)],
    [of |-> "preset", holds |-> isToolBlockedByPreset(role, call, TeamMode)],
    [of |-> "unknown", holds |-> call.tool \notin DOMAIN Schemas],
    [of |-> "arguments",
     holds |-> call.tool \in DOMAIN Schemas /\
               validateArgs(Normalised(call.args, Schemas[call.tool]),
                            Schemas[call.tool]) # "none"],
    [of |-> "deny list", holds |-> call.tool = "run_bash" /\ checkDenyList(call)]>>

Refused(role, call) == \E i \in 1..5 : Complaints(role, call)[i].holds

shouldRunBackground(call) ==
  IF "run_in_background" \in DOMAIN call.args
  THEN call.args["run_in_background"] = "true"
  ELSE call.tool = "run_bash" /\ "slow" \in call.facts

=============================================================================
