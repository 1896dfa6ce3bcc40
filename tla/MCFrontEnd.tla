----------------------------- MODULE MCFrontEnd -----------------------------
EXTENDS FrontEnd, BuiltinTools
Prefs == INSTANCE Settings

MCSchemas == BUILTIN_TOOLS

Call(tool, args, facts) == [tool |-> tool, server |-> "builtin", args |-> args, facts |-> facts]

(* A command that is asked for and sent to the background, one that runs in  *)
(* the foreground, one that leaves out what the schema requires, a file that  *)
(* is read and one that is written, a delegation and a look at the jobs.      *)
MCCalls ==
  {Call("read_file", [path |-> "text"], {}),
   Call("write_file", [path |-> "text", content |-> "text"], {}),
   Call("run_bash", [command |-> "text", run_in_background |-> "false"], {"slow", "destructive"}),
   Call("run_bash", [command |-> "text", run_in_background |-> "true", timeout_ms |-> "null"],
        {"slow"}),
   Call("run_bash", [command |-> "text"], {"slow"}),
   Call("delegate", [role |-> "text", task |-> "text"], {}),
   Call("background_job", [action |-> "text"], {})}

-----------------------------------------------------------------------------
(* Every call with at most one parameter of each kind, against a schema with *)
(* a required, an optional and an optional nullable parameter.               *)

Schema == [required |-> {"path"}, closed |-> TRUE, nullable |-> {"limit"},
           type |-> [path |-> "string", limit |-> "integer", all |-> "boolean"]]
Values == {"text", "outside", "int", "true", "null"}
ArgumentSets == UNION {[K -> Values] : K \in SUBSET {"path", "limit", "all", "extra"}}

(* What the gate lets through: a path inside, the other parameters absent,   *)
(* null or of their sort, nothing that the schema does not name.             *)
Acceptable(args) ==
  /\ "path" \in DOMAIN args /\ args["path"] = "text"
  /\ "limit" \in DOMAIN args => args["limit"] \in {"int", "null"}
  /\ "all" \in DOMAIN args => args["all"] \in {"true", "null"}
  /\ "extra" \notin DOMAIN args

ASSUME ArgumentsAgree ==
  \A args \in ArgumentSets :
    Acceptable(args) <=> validateArgs(Normalised(args, Schema), Schema) = "none"

(* Whoever is not the lead never reaches a server's own tools or their       *)
(* administration; roles that may not write have no tool that writes a file. *)
(* Only a teammate's questions go through the lead's mailbox.                *)
ASSUME RolesAreApart ==
  \A role \in {"scout", "planner", "worker", "reviewer", "verifier", "subagent"} :
    /\ \A tool \in McpAdmin \union {"other"} :
         ~isToolAllowedForRole(role, [tool |-> tool, server |-> "remote"])
    /\ AskedThrough(role) = "user" /\ AskedThrough("teammate") = "mailbox"
    /\ role \in {"scout", "planner", "reviewer", "verifier"} =>
         \A tool \in {"write_file", "edit_file", "apply_patch", "restore_checkpoint"} :
           ~isToolAllowedForRole(role, [tool |-> tool, server |-> "builtin"])

-----------------------------------------------------------------------------
(* The catalogue.                                                            *)

(* The allow lists and the preset name tools that exist.                     *)
ASSUME ListsNameTools ==
  /\ \A role \in DOMAIN ROLE_TOOL_ALLOWLIST : ROLE_TOOL_ALLOWLIST[role] \subseteq DOMAIN BUILTIN_TOOLS
  /\ PIPELINE_LEAD_FORBIDDEN \subseteq DOMAIN BUILTIN_TOOLS

(* A call that follows the strict schema the model was given passes the      *)
(* validation against the declared one, and so does the call that says null  *)
(* for each parameter that may be left out.                                  *)
Sample == [string |-> "text", integer |-> "int", boolean |-> "true", array |-> "list"]
ASSUME StrictCallsPass ==
  \A name \in DOMAIN BUILTIN_TOOLS :
    LET schema == BUILTIN_TOOLS[name]
        strict == sanitizeSchemaForStrict(schema)
        full == [k \in strict.required |-> Sample[schema.type[k]]]
        nulls == [k \in strict.required |-> IF k \in schema.required THEN full[k] ELSE "null"]
    IN  \A args \in {full, nulls} : validateArgs(Normalised(args, schema), schema) = "none"

(* What a role is offered it may use; only a local server's alias of a tool  *)
(* may be offered and refused.                                               *)
Registered ==
  [local_read |-> [server |-> "local", schema |-> BUILTIN_TOOLS["read_file"]],
   remote_ask |-> [server |-> "remote", schema |-> BUILTIN_TOOLS["glob"]]]
ASSUME OfferedAreAllowed ==
  \A role \in Roles : \A name \in DOMAIN getOpenaiTools(role, Registered) :
    name = "local_read" \/
    isToolAllowedForRole(role, [tool |-> name, server |-> IF name \in DOMAIN Registered
                                                        THEN "remote" ELSE "builtin"])

(* Whatever the model wrote on the progress board, the next change of a task *)
(* shows the tasks, each as pending, in progress or completed.               *)
Statuses == {"pending", "preparing", "in_progress", "ready_for_review", "completed"}
SomeTasks == UNION {[1 .. n -> [id : {"t1", "t2"}, status : Statuses]] : n \in 0 .. 2}
SomeTodos == UNION {[1 .. n -> [content : {"x"}, status : {"pending", "done"}]] : n \in 0 .. 2}
ASSUME TodosFollowTheBoard ==
  \A tasks \in SomeTasks, written \in SomeTodos :
    LET before == execTodoWrite(<<>>, tasks, written)
        after == ExecBoardTool("complete_task", before, tasks)
    IN  /\ \A i \in DOMAIN after : after[i].status \in {"pending", "in_progress", "completed"}
        /\ tasks # <<>> => Len(after) = Len(tasks) /\ \A i \in DOMAIN tasks :
              after[i].content = tasks[i].id
        /\ tasks # <<>> => runListTasks(tasks, "completed") =
              SelectSeq(tasks, LAMBDA t : after[CHOOSE i \in DOMAIN tasks : tasks[i] = t].status
                                            = "completed")

(* A verification is a test or a build and nothing else.                     *)
ASSUME VerifiesIsNarrow ==
  /\ Verifies(<<"npm", "run", "test", "x">>, TRUE) /\ Verifies(<<"go", "vet">>, TRUE)
  /\ ~Verifies(<<"npm", "run", "deploy">>, TRUE) /\ ~Verifies(<<"npx", "tsc">>, TRUE)
  /\ ~Verifies(<<"npm", "test">>, FALSE) /\ ~Verifies(<<"node">>, TRUE)

(* A wait for jobs is over once nothing it looks at runs, and a wait that    *)
(* goes on is of a job that is shown.                                        *)
Jobs2 == {[id |-> i, status |-> s] : i \in {"a", "b"}, s \in {"running", "completed"}}
ASSUME JobWaitsEnd ==
  \A known \in SUBSET Jobs2, id \in {"", "a"} :
    JobWaitGoesOn("status", known, id, TRUE, FALSE) <=>
      \E j \in known : j.status = "running" /\ (id = "a" => j.id = "a")

(* A message needs the sender's team; whoever names a team can ask it.       *)
ASSUME TeamsAreNamed ==
  \A given, own \in {"", "red"}, type \in {"plain", "plan_approval"} :
    /\ ExecTeamTool("send_message", given, own, type) = "sent" <=> own # "" /\ type = "plain"
    /\ ExecTeamTool("spawn_teammate", given, own, type) = "asked" <=> given # "" \/ own # ""
    /\ OneShotRole("delegate", "scout") = "scout" /\ OneShotRole("subagent_task", "") = "subagent"
    /\ TodoStatus("preparing") = "in_progress"
    /\ Sandboxed("verifier", FALSE, FALSE) /\ ~HoldsRepository(TRUE)

-----------------------------------------------------------------------------
(* The settings, in files with any of three sections.                        *)

Sections == [flag : {"true", "false", "pipeline"}, numbers : {[maxRetries |-> 5], [other |-> 1]}]
SettingsFiles == UNION {[K -> Sections] : K \in SUBSET {"retry", "memory", "plugin"}}

(* What the page writes is what is read from then on, all else as before,    *)
(* and it never takes out what it does not know.                             *)
ASSUME WrittenIsRead ==
  \A file \in SettingsFiles, key \in {"retry", "memory", "compaction"}, on \in BOOLEAN :
    LET before == Prefs!parse(file)
        written == Prefs!Toggle(before, file, key, on)
        after == Prefs!readPiSettings(<<>>, written)
    IN  /\ after[key] = IF key \in DOMAIN before
                        THEN [before[key] EXCEPT !.flag = IF on THEN "true" ELSE "false"]
                        ELSE [Prefs!NoFields EXCEPT !.flag = IF on THEN "true" ELSE "false"]
        /\ \A k \in DOMAIN before \ {key} : after[k] = before[k]
        /\ \A k \in DOMAIN file \ {key} : written[k] = file[k]
        /\ Prefs!isMemoryEnabled(after) = IF key = "memory" THEN on ELSE Prefs!isMemoryEnabled(before)
        /\ \A mode \in {"free", "pipeline"} :
             Prefs!getTeamMode(Prefs!parse(Prefs!setTeamMode(file, mode))) = mode

(* A migration never replaces a file, and what it could copy is not needed   *)
(* again.                                                                    *)
ConfigDirs == UNION {[K -> {"old", "new"}] : K \in SUBSET Prefs!MIGRATABLE_FILES}
ASSUME MigrationAddsOnly ==
  \A from, to \in ConfigDirs, failing \in SUBSET {"auth.json"} :
    LET after == Prefs!migrateFromPi(from, to, failing)
    IN  /\ \A f \in DOMAIN to : after[f] = to[f]
        /\ \A f \in DOMAIN after \ DOMAIN to : after[f] = from[f]
        /\ Prefs!migrateNeeded(from, after) <=>
             \E f \in failing : f \in DOMAIN from /\ f \notin DOMAIN to
=============================================================================
