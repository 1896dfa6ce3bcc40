---------------------------- MODULE BuiltinTools ----------------------------
(***************************************************************************)
(* The built-in tools (tools/*.ts): what parameters each declares, how the    *)
(* declaration is made strict for the model (schema-strict.ts), which tools   *)
(* a role is offered (getOpenaiTools), and what a tool decides before it      *)
(* hands over to the component that does the work.                            *)
(*                                                                          *)
(* A schema is [required, closed, type, nullable] as in ToolGate; an          *)
(* enumeration is a string.                                                   *)
(***************************************************************************)
EXTENDS ToolGate, TLC

Tool(required, type) ==
  [required |-> required, closed |-> TRUE, nullable |-> {}, type |-> type]
NoParameters == <<>>

-----------------------------------------------------------------------------
(* The declarations, file by file.                                           *)

edit == [path |-> "string", old_text |-> "string", new_text |-> "string",
         expected_hash |-> "string"]

FileTools ==
  [read_file   |-> Tool({"path"}, [path |-> "string", offset |-> "integer", limit |-> "integer"]),
   write_file  |-> Tool({"path", "content"},
                        [path |-> "string", content |-> "string", expected_hash |-> "string"]),
   edit_file   |-> Tool({"path", "old_text", "new_text"}, edit),
   apply_patch |-> Tool({"edits"}, [edits |-> "array"]),
   restore_checkpoint |-> Tool({"id"}, [id |-> "string"])]

SearchTools ==
  [glob |-> Tool({"pattern"}, [pattern |-> "string"]),
   grep |-> Tool({"pattern"},
                 [pattern |-> "string", path |-> "string", glob |-> "string",
                  ignore_case |-> "boolean", literal |-> "boolean", limit |-> "integer"]),
   repository_info |-> Tool({}, NoParameters),
   symbol_search   |-> Tool({"symbol", "kind"}, [symbol |-> "string", kind |-> "string"])]

ProcessTools ==
  [run_bash |-> Tool({"command", "run_in_background"},
                     [command |-> "string", run_in_background |-> "boolean",
                      timeout_ms |-> "integer"]),
   run_verification |-> Tool({"command", "requirement"},
                             [command |-> "string", requirement |-> "string",
                              timeout_ms |-> "integer"]),
   background_job |-> Tool({"action"},
                           [action |-> "string", job_id |-> "string", wait_ms |-> "integer"])]

TodoTools  == [todo_write |-> Tool({"todos"}, [todos |-> "array"])]
SkillTools == [load_skill |-> Tool({"name"}, [name |-> "string"])]

OfTask == Tool({"task_id"}, [task_id |-> "string"])
BoardTools ==
  [create_task |-> Tool({"subject", "description", "blockedBy"},
                        [subject |-> "string", description |-> "string", blockedBy |-> "array"]),
   list_tasks  |-> Tool({"status_filter"}, [status_filter |-> "string"]),
   get_task    |-> OfTask, claim_task |-> OfTask, complete_task |-> OfTask,
   integrate_task |-> OfTask]

DelegationTools ==
  [subagent_task |-> Tool({"description"}, [description |-> "string", role |-> "string"]),
   delegate |-> Tool({"role", "task"},
                     [role |-> "string", task |-> "string", context |-> "string"])]

TeamTools ==
  [create_team    |-> Tool({"name"}, [name |-> "string"]),
   spawn_teammate |-> Tool({"name", "role", "prompt", "team_name", "agent_type"},
                           [name |-> "string", role |-> "string", prompt |-> "string",
                            team_name |-> "string", agent_type |-> "string"]),
   send_message   |-> Tool({"to", "message", "summary", "message_type", "task_id", "subject",
                            "plan_file_path"},
                           [to |-> "string", message |-> "string", summary |-> "string",
                            message_type |-> "string", task_id |-> "string",
                            subject |-> "string", plan_file_path |-> "string"]),
   list_teammates |-> Tool({"team_name"}, [team_name |-> "string"]),
   shutdown_teammate |-> Tool({"name", "team_name"}, [name |-> "string", team_name |-> "string"])]

OfServer == Tool({"name"}, [name |-> "string"])
McpTools ==
  [connect_mcp |-> OfServer, disconnect_mcp |-> OfServer, restart_mcp |-> OfServer,
   list_mcp_servers |-> Tool({}, NoParameters)]

BUILTIN_TOOLS ==
  FileTools @@ SearchTools @@ ProcessTools @@ TodoTools @@ SkillTools @@ BoardTools
    @@ DelegationTools @@ TeamTools @@ McpTools

-----------------------------------------------------------------------------
(* What the model is shown.                                                  *)

(* Every declared parameter becomes required; a schema stays open only when  *)
(* it says so.                                                               *)
sanitizeSchemaForStrict(schema) == [schema EXCEPT !.required = DOMAIN schema.type]

(* A tool that is there under a server's name, else a built-in.              *)
getToolParameters(name, registered) ==
  IF name \in DOMAIN registered THEN registered[name].schema ELSE BUILTIN_TOOLS[name]

Roles == {"lead", "teammate", "subagent"} \union DOMAIN ROLE_TOOL_ALLOWLIST

(* The built-ins of the role and the servers' tools: a one-shot agent sees   *)
(* only those of the local server.                                           *)
getOpenaiTools(role, registered) ==
  LET builtin == {name \in DOMAIN BUILTIN_TOOLS :
                    isToolAllowedForRole(role, [tool |-> name, server |-> "builtin"])}
      ofServers == {name \in DOMAIN registered :
                      role \in {"lead", "teammate"} \/ registered[name].server = "local"}
  IN  [name \in builtin \union ofServers |->
         sanitizeSchemaForStrict(getToolParameters(name, registered))]

-----------------------------------------------------------------------------
(* What the tools decide.                                                    *)

(* A test or a build, named by its first words: nothing that a shell would   *)
(* interpret, and no program that could be anything else.                    *)
VerificationCommands ==
  {<<"node", "--test">>}
    \union ({"npm", "pnpm", "yarn"} \X {"test"})
    \union {<<p, "run", s>> : p \in {"npm", "pnpm", "yarn"},
                              s \in {"test", "check", "typecheck", "lint", "build"}}
    \union {<<p, "-m", s>> : p \in {"python", "python3"}, s \in {"pytest", "unittest"}}
    \union ({"cargo"} \X {"test", "check", "build"})
    \union ({"go"} \X {"test", "vet", "build"})
    \union {<<"npx", "--no-install", s>> : s \in {"vitest", "tsc", "jest", "eslint"}}

Verifies(words, plain) == plain /\ \E c \in VerificationCommands :
  Len(words) >= Len(c) /\ SubSeq(words, 1, Len(c)) = c

(* Who verifies in a sandbox, and who holds the repository meanwhile.        *)
Sandboxed(role, bound, readonly) == role = "verifier" \/ readonly \/ bound
HoldsRepository(bound) == ~bound

(* The progress board: the tasks, when there are any, replace whatever the   *)
(* model wrote.                                                              *)
TodoStatus(status) ==
  IF status \in {"ready_for_review", "preparing"} THEN "in_progress" ELSE status
syncTodoFromTasks(todos, tasks) ==
  IF tasks = <<>> THEN todos
  ELSE [i \in DOMAIN tasks |-> [content |-> tasks[i].id, status |-> TodoStatus(tasks[i].status)]]

execTodoWrite(todos, tasks, written) ==
  IF written = <<>> THEN syncTodoFromTasks(todos, tasks)
  ELSE IF \E i \in DOMAIN written :
            written[i].status \notin {"pending", "in_progress", "completed"}
       THEN todos ELSE written

(* The board tools that change a task bring the progress board up to date,   *)
(* whether they succeed or not.                                              *)
ExecBoardTool(name, todos, tasks) ==
  IF name \in {"create_task", "claim_task", "complete_task"}
  THEN syncTodoFromTasks(todos, tasks) ELSE todos

runListTasks(tasks, filter) ==
  SelectSeq(tasks, LAMBDA t : filter = "all" \/ t.status = filter)

(* A wait for jobs goes on while one of them runs, the time is not over and  *)
(* the turn has not been aborted.                                            *)
JobsShown(known, id) == {j \in known : id = "" \/ j.id = id}
JobWaitGoesOn(action, known, id, timeLeft, aborted) ==
  /\ ~aborted /\ action # "list" /\ timeLeft
  /\ \E j \in JobsShown(known, id) : j.status = "running"

(* One-shot agents: delegate names a specialist, subagent_task may.          *)
OneShotRole(call, role) ==
  IF call = "delegate" \/ role # "" THEN role ELSE "subagent"

(* Teams: a blank name stands for the caller's own team, and only listing    *)
(* teammates works without one.                                              *)
TeamOf(given, own) == IF given = "" THEN own ELSE given
ExecTeamTool(name, given, own, messageType) ==
  CASE name = "list_teammates" -> "listed"
    [] name = "send_message" /\ own = "" -> "no team"
    [] name = "send_message" /\ own # "" ->
         IF messageType = "plain" THEN "sent" ELSE "not supported"
    [] name \in {"spawn_teammate", "shutdown_teammate"} ->
         IF TeamOf(given, own) = "" THEN "no team" ELSE "asked"

=============================================================================
