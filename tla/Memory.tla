------------------------------- MODULE Memory -------------------------------
(***************************************************************************)
(* Long-term memory: the files under .agent/memory with MEMORY.md as their    *)
(* index (memory.ts), the snapshot of them that is frozen for a session       *)
(* (memory-scope.ts), and the system prompt that carries the snapshot         *)
(* (prompt.ts).                                                              *)
(*                                                                          *)
(* One process: the lead of the current session and a teammate, whose loop    *)
(* has no session of its own.  The scope that a request reads is a variable   *)
(* of the process.  Stop hooks run on after the turn that started them.       *)
(***************************************************************************)
EXTENDS Naturals, Sequences, FiniteSets

CONSTANTS
  Names,       \* the names a model gives to memories
  Slug(_),     \* the file a name is written to: lower case, no blank, no slash
  Sessions,    \* identities of sessions
  Threshold,   \* CONSOLIDATE_THRESHOLD
  MaxItems,    \* how many memories a retrieval selects
  MaxVersions, \* bound: memories written
  MaxRequests  \* bound: requests an actor makes

Actors == {"lead", "teammate"}
Files == {Slug(n) : n \in Names}

VARIABLES
  interactive, \* the TUI refreshes snapshots, the REPL runs the Stop hook
  enabled,     \* settings.memory.enabled
  files,       \* slug -> [name, version], for the files that exist
  index,       \* the memories MEMORY.md lists
  versions,    \* memories written so far
  session,     \* the session of the lead
  processScopeId,
  snapshots,   \* scope -> [index, injected], for the scopes that have one
  loops,       \* actor -> [pc, read, requests]
  hook,        \* the Stop hook: [pc, catalog]
  refresh,     \* what a /memory-refresh under way has read, or Nothing
  used         \* the system prompts the requests of the lead's session were made with

vars == <<interactive, enabled, files, index, versions, session, processScopeId, snapshots,
          loops, hook, refresh, used>>

(* What a retrieval reads before it asks the model: the index and the files. *)
Nothing == [index |-> {}, catalog |-> {}, asked |-> FALSE]
Ephemeral == "ephemeral"

(* Restriction and extension of functions.                                   *)
With(f, k, v) == [x \in DOMAIN f \union {k} |-> IF x = k THEN v ELSE f[x]]
Contents(f) == {f[s] : s \in DOMAIN f}

Init ==
  /\ interactive \in BOOLEAN /\ enabled = TRUE
  /\ files = [s \in {} |-> <<>>] /\ index = {} /\ versions = 0
  /\ session \in Sessions
  /\ processScopeId = Ephemeral /\ snapshots = [s \in {} |-> <<>>]
  /\ loops = [a \in Actors |-> [pc |-> "off", read |-> Nothing, requests |-> 0]]
  /\ hook = [pc |-> "off", catalog |-> {}]
  /\ refresh = Nothing /\ used = {}

-----------------------------------------------------------------------------
(* The store.                                                                *)

(* One file per slug: names with the same slug replace each other.           *)
writeMemoryFile(fs, memory) == With(fs, Slug(memory.name), memory)

(* Files whose index line has a description; MEMORY.md itself is not one.    *)
rebuildIndex(fs) == Contents(fs)

listMemoryFiles == Contents(files)

(* The model picks, or the words of the last three user messages do: at most *)
(* MaxItems of the files that were listed, perhaps none.                     *)
selectRelevantMemories(catalog) == {S \in SUBSET catalog : Cardinality(S) <= MaxItems}

(* The texts are read when the selection is known: a file that is gone by    *)
(* then is left out, one that was written again is read as it is.            *)
loadMemories(selected) == {files[s] : s \in selected \intersect DOMAIN files}

-----------------------------------------------------------------------------
(* Snapshots.                                                                *)

(* resolveRoutingSessionId: a loop without a session uses the process's own  *)
(* identity.                                                                 *)
RoutingId(a) == IF a = "lead" THEN session ELSE "process"

EMPTY == [index |-> {}, injected |-> {}]

(* Without a snapshot the index alone, and nothing is stored.                *)
peekMemorySnapshot ==
  IF processScopeId \in DOMAIN snapshots THEN snapshots[processScopeId]
  ELSE IF ~enabled THEN EMPTY ELSE [index |-> index, injected |-> {}]

(* A retrieval begins in the scope of the caller; memory switched off ends it *)
(* with an empty snapshot.                                                   *)
Reading == [index |-> index, catalog |-> DOMAIN files, asked |-> TRUE]
Begin(scope) ==
  /\ processScopeId' = scope
  /\ snapshots' = IF enabled THEN snapshots ELSE With(snapshots, scope, EMPTY)

(* Its answer is stored for whatever scope the process is in by then.        *)
Store(read) ==
  \E selected \in selectRelevantMemories(read.catalog) :
    snapshots' = With(snapshots, processScopeId,
                      [index |-> read.index, injected |-> loadMemories(selected)])

(* An agent's loop begins: it binds the scope of the process, and unless the *)
(* scope has a snapshot it reads the index and asks a model what is relevant. *)
primeMemorySnapshot(a) ==
  /\ loops[a].pc = "off" /\ loops[a].requests < MaxRequests
  /\ IF RoutingId(a) \in DOMAIN snapshots
     THEN processScopeId' = RoutingId(a) /\ UNCHANGED snapshots
     ELSE Begin(RoutingId(a))
  /\ loops' = [loops EXCEPT
       ![a].pc = IF RoutingId(a) \in DOMAIN snapshots \/ ~enabled THEN "asking" ELSE "priming",
       ![a].read = Reading]
  /\ UNCHANGED <<interactive, enabled, files, index, versions, session, hook, refresh, used>>

Primed(a) ==
  /\ loops[a].pc = "priming"
  /\ Store(loops[a].read)
  /\ loops' = [loops EXCEPT ![a].pc = "asking", ![a].read = Nothing]
  /\ UNCHANGED <<interactive, enabled, files, index, versions, session, processScopeId, hook,
                 refresh, used>>

(* The system prompt, section by section.  A specialist gets its role and    *)
(* neither the tasks, the team, MCP nor the memories; those who only read    *)
(* are not told how to verify.                                               *)
assembleSystemPrompt(context, isSubagent, role) ==
  LET specialist == isSubagent \/ role \notin {"lead", "teammate"}
      When(c, section) == IF c THEN <<section>> ELSE <<>>
  IN  <<IF role \notin {"lead", "teammate"} THEN role ELSE IF isSubagent THEN "subagent"
        ELSE "agent">>
      \o <<"guidance">>
      \o When(role \notin {"scout", "reviewer", "planner"}, "verification")
      \o When(context.instructions, "instructions")
      \o When(~specialist, "planning") \o When(~specialist, "background")
      \o When(~specialist, IF context.pipeline THEN "pipeline" ELSE "teams")
      \o When(~specialist, "mcp")
      \o When(~specialist /\ context.servers, "servers")
      \o When(context.skills, "skills")
      \o When(~specialist, "memory")

(* What a request is made with: the repository's own settings, and the       *)
(* memories of the snapshot of the moment.                                   *)
updateContext == [instructions |-> TRUE, pipeline |-> FALSE, servers |-> FALSE, skills |-> TRUE]
buildFrozenMemoryText == peekMemorySnapshot
Prompt(role) ==
  LET sections == assembleSystemPrompt(updateContext, FALSE, role)
  IN  [sections |-> sections,
       memories |-> IF "memory" \in {sections[i] : i \in 1 .. Len(sections)}
                    THEN buildFrozenMemoryText ELSE EMPTY]

(* A request of either carries its prompt; the lead's are compared.          *)
Request(a) ==
  /\ loops[a].pc = "asking" /\ loops[a].requests < MaxRequests
  /\ loops' = [loops EXCEPT ![a].requests = @ + 1]
  /\ used' = IF a = "lead" THEN used \union {Prompt(a)} ELSE used
  /\ UNCHANGED <<interactive, enabled, files, index, versions, session, processScopeId,
                 snapshots, hook, refresh>>

(* The turn ends; outside the TUI the lead's Stop hook goes on by itself.    *)
EndTurn(a) ==
  /\ loops[a].pc = "asking"
  /\ loops' = [loops EXCEPT ![a].pc = "off"]
  /\ IF a = "lead" /\ ~interactive /\ enabled
        /\ hook.pc = "off"                    \* bound: one hook at a time
     THEN hook' = [pc |-> "extracting", catalog |-> {}]
     ELSE UNCHANGED hook
  /\ UNCHANGED <<interactive, enabled, files, index, versions, session, processScopeId, snapshots,
                 refresh, used>>

(* /memory-refresh: the same as priming, though the scope has a snapshot.    *)
refreshMemorySnapshot ==
  /\ interactive /\ enabled /\ loops["lead"].pc = "off" /\ refresh = Nothing
  /\ Begin(session) /\ refresh' = Reading
  /\ UNCHANGED <<interactive, enabled, files, index, versions, session, loops, hook, used>>

Refreshed ==
  /\ refresh # Nothing /\ Store(refresh)
  /\ refresh' = Nothing /\ used' = {}
  /\ UNCHANGED <<interactive, enabled, files, index, versions, session, processScopeId, loops,
                 hook>>

(* /settings: a snapshot that is there stays.                                *)
ToggleMemory ==
  /\ interactive /\ loops["lead"].pc = "off" /\ enabled' = ~enabled
  /\ UNCHANGED <<interactive, files, index, versions, session, processScopeId, snapshots, loops,
                 hook, refresh, used>>

(* /new: another session, with a scope of its own.                           *)
NewSession ==
  /\ loops["lead"].pc = "off" /\ refresh = Nothing
  /\ session' \in Sessions \ (DOMAIN snapshots \union {session})
  /\ used' = {}
  /\ UNCHANGED <<interactive, enabled, files, index, versions, processScopeId, snapshots, loops,
                 hook, refresh>>

-----------------------------------------------------------------------------
(* The Stop hook.                                                            *)

(* extractMemories: the model returns memories, each is written and indexed. *)
extractMemories ==
  /\ hook.pc = "extracting"
  /\ \/ UNCHANGED <<files, index, versions>>
     \/ /\ versions < MaxVersions /\ versions' = versions + 1
        /\ \E n \in Names :
             files' = writeMemoryFile(files, [name |-> n, version |-> versions + 1])
        /\ index' = rebuildIndex(files')
  /\ hook' = [pc |-> "listing", catalog |-> {}]
  /\ UNCHANGED <<interactive, enabled, session, processScopeId, snapshots, loops, refresh, used>>

(* consolidateMemories: from the threshold on the model is given them all.   *)
consolidateMemories ==
  /\ hook.pc = "listing"
  /\ hook' = IF Cardinality(listMemoryFiles) < Threshold
             THEN [pc |-> "off", catalog |-> {}]
             ELSE [pc |-> "consolidating", catalog |-> listMemoryFiles]
  /\ UNCHANGED <<interactive, enabled, files, index, versions, session, processScopeId, snapshots,
                 loops, refresh, used>>

(* The answer replaces every file there is by then.  The index is rebuilt    *)
(* with each file written, so an empty answer leaves the old one.            *)
Consolidated ==
  /\ hook.pc = "consolidating"
  /\ \/ UNCHANGED <<files, index>>                      \* no answer, or no JSON
     \/ \E kept \in SUBSET hook.catalog :
          /\ files' = [s \in {Slug(m.name) : m \in kept} |->
                         CHOOSE m \in kept : Slug(m.name) = s]
          /\ index' = IF kept = {} THEN index ELSE rebuildIndex(files')
  /\ hook' = [pc |-> "off", catalog |-> {}]
  /\ UNCHANGED <<interactive, enabled, versions, session, processScopeId, snapshots, loops,
                 refresh, used>>

-----------------------------------------------------------------------------

Next ==
  \/ \E a \in Actors : primeMemorySnapshot(a) \/ Primed(a) \/ Request(a) \/ EndTurn(a)
  \/ refreshMemorySnapshot \/ Refreshed \/ ToggleMemory \/ NewSession
  \/ extractMemories \/ consolidateMemories \/ Consolidated

Spec == Init /\ [][Next]_vars

-----------------------------------------------------------------------------
(* All requests of a session carry the snapshot frozen when it began, unless *)
(* the user refreshes it (memory-scope.ts 4-6).                              *)
SessionKeepsItsSnapshot == Cardinality(used) <= 1

=============================================================================
