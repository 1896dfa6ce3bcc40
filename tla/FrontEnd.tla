------------------------------ MODULE FrontEnd ------------------------------
(***************************************************************************)
(* The terminal in front of the tool calls: the editor and the keys of       *)
(* TuiApp (tui/app.ts), the turn's abort controller (tui/turn-controller.ts), *)
(* slash commands, the login dialog that borrows the editor (tui/login.ts),   *)
(* overlays, and the REPL of cli.ts, which has none of them.                  *)
(*                                                                          *)
(* Keys: the application's listener comes first and consumes Esc while busy,  *)
(* so an overlay sees Esc only when the application is idle; every other key  *)
(* goes to the overlay opened first, and to the editor when there is none.    *)
(***************************************************************************)
EXTENDS ToolCalls

CONSTANTS
  MaxCommands, \* bound: slash commands submitted
  MaxPrompts   \* bound: dialogs the commands open

VARIABLES
  ui,          \* [busy, doing, ctl, login, submit, saved, prompt, models, running]
  commands,    \* slash commands submitted
  prompts,     \* dialogs opened by commands
  escaped      \* the turns during which Esc was pressed

uiVars == <<ui, commands, prompts, escaped>>
vars == <<toolVars, uiVars>>

Ui == [busy : BOOLEAN, ctl : Nat, login : {"off", "on", "cancelled"},
       doing : {"nothing", "query", "command", "choosing", "login", "loggedIn"},
       submit : {"handler", "prompt"}, saved : {None, "handler", "prompt"},
       prompt : BOOLEAN, models : BOOLEAN, running : BOOLEAN]

AtRest ==
  [busy |-> FALSE, doing |-> "nothing", ctl |-> NoTurn, login |-> "off",
   submit |-> "handler", saved |-> None, prompt |-> FALSE,
   models |-> FALSE, running |-> TRUE]

Init ==
  /\ ToolInit
  /\ ui = AtRest
  /\ commands = 0 /\ prompts = 0 /\ escaped = {}

-----------------------------------------------------------------------------
(* The editor's onSubmit and the dialog that borrows it.                     *)

finishLoginPrompt(u) ==
  [u EXCEPT !.prompt = FALSE,
            !.submit = IF u.saved # None THEN u.saved ELSE @,
            !.saved = None]

promptForInput(u) ==
  LET v == IF u.prompt THEN finishLoginPrompt(u) ELSE u
  IN  [v EXCEPT !.prompt = TRUE, !.saved = v.submit, !.submit = "prompt"]

endLoginMode_Open(u) == [u EXCEPT !.login = "off"]
endLoginMode(u) == finishLoginPrompt([u EXCEPT !.login = "off"])

(* The controller: beginTurn aborts the turn before, endTurn forgets it.     *)
BeginAborts == IF ui.ctl = NoTurn THEN {} ELSE {ui.ctl}

Abort(turns) ==
  /\ aborted' = aborted \union turns
  /\ jobs' = IF turns = {} THEN jobs ELSE StopJobs(CHOOSE t \in turns : TRUE)

endTurn_Keeps(u) == u
endTurn(u) == [u EXCEPT !.ctl = NoTurn]

Editing == ui.running /\ dialogs = <<>> /\ ui.submit = "handler"

-----------------------------------------------------------------------------
(* Submitting.                                                               *)

(* A query; a submission while busy is dropped.  The REPL reads the next     *)
(* line when the turn is over, and has no controller.                        *)
SubmitQuery ==
  /\ Editing /\ ~ui.busy /\ turn < MaxTurns
  /\ turn' = turn + 1
  /\ ui' = [ui EXCEPT !.busy = TRUE, !.doing = "query",
                      !.ctl = IF interactive THEN turn + 1 ELSE NoTurn]
  /\ BeginLead(turn + 1) /\ Abort(BeginAborts)
  /\ UNCHANGED <<interactive, workspace, dialogs, notes, heard, commands, prompts, escaped>>

(* The lead's loop has ended.                                                *)
TurnOver ==
  /\ ui.running /\ ui.doing = "query" /\ agents["lead"].stage = "off"
  /\ ui' = [endTurn(ui) EXCEPT !.busy = FALSE, !.doing = "nothing"]
  /\ UNCHANGED <<toolVars, commands, prompts, escaped>>

SubmitCommand ==
  /\ interactive /\ Editing /\ ~ui.busy /\ commands < MaxCommands
  /\ commands' = commands + 1
  /\ ui' = [ui EXCEPT !.busy = TRUE, !.doing = "command"]
  /\ UNCHANGED <<toolVars, prompts, escaped>>

(* A command opens a selector (a tree node, a session, a provider).          *)
CommandSelects ==
  /\ ui.running /\ ui.doing = "command" /\ prompts < MaxPrompts
  /\ ui' = [ui EXCEPT !.doing = "choosing"]
  /\ dialogs' = Append(dialogs, "command") /\ prompts' = prompts + 1
  /\ UNCHANGED <<interactive, turn, aborted, agents, jobs, lock, workspace, notes,
                 heard, commands, escaped>>

CommandEnds ==
  /\ ui.running /\ ui.doing \in {"command", "loggedIn"}
  /\ ui' = [ui EXCEPT !.busy = FALSE, !.doing = "nothing"]
  /\ UNCHANGED <<toolVars, commands, prompts, escaped>>

-----------------------------------------------------------------------------
(* /login.                                                                   *)

beginLoginMode ==
  /\ ui.running /\ ui.doing = "command"
  /\ ui' = [ui EXCEPT !.doing = "login", !.login = "on"]
  /\ UNCHANGED <<toolVars, commands, prompts, escaped>>

(* The provider's flow asks for a text, or lets the user select; it may ask  *)
(* again before the first question is answered.                              *)
LoginPrompts ==
  /\ ui.running /\ ui.doing = "login" /\ prompts < MaxPrompts
  /\ prompts' = prompts + 1
  /\ \/ ui' = promptForInput(ui) /\ UNCHANGED dialogs
     \/ dialogs' = Append(dialogs, "login") /\ UNCHANGED ui
  /\ UNCHANGED <<interactive, turn, aborted, agents, jobs, lock, workspace, notes,
                 heard, commands, escaped>>

(* The flow returns or throws, with questions still open or not.             *)
LoginEnds ==
  /\ ui.running /\ ui.doing = "login"
  /\ ui' = [endLoginMode(ui) EXCEPT !.doing = "loggedIn"]
  /\ UNCHANGED <<toolVars, commands, prompts, escaped>>

EnterValue ==
  /\ ui.running /\ dialogs = <<>> /\ ui.submit = "prompt"
  /\ ui' = finishLoginPrompt(ui)
  /\ UNCHANGED <<toolVars, commands, prompts, escaped>>

-----------------------------------------------------------------------------
(* Keys.                                                                     *)

(* Whoever opened the overlay gets its answer.                               *)
Answer(allowed) ==
  /\ dialogs # <<>> /\ dialogs' = Tail(dialogs)
  /\ IF Head(dialogs) \in Agents
     THEN Answered(Head(dialogs), allowed) /\ UNCHANGED ui
     ELSE /\ UNCHANGED agents
          /\ ui' = IF Head(dialogs) = "command"
                   THEN [ui EXCEPT !.doing = "command"] ELSE ui

PressEnter ==
  /\ ui.running /\ \E allowed \in BOOLEAN : Answer(allowed)
  /\ UNCHANGED <<interactive, turn, aborted, jobs, lock, workspace, notes, heard,
                 commands, prompts, escaped>>

(* Esc: the login first, then the turn; an idle application passes it on.    *)
EscCancelsLogin ==
  /\ ui.login # "off"
  /\ ui' = [finishLoginPrompt(ui) EXCEPT !.login = "cancelled"]
  /\ UNCHANGED <<toolVars, escaped>>

EscInterrupts ==
  /\ ui.login = "off" /\ ui.busy /\ ui.ctl # NoTurn
  /\ aborted' = aborted \union {ui.ctl}
  /\ jobs' = StopJobs(ui.ctl) /\ agents' = StopAgents(ui.ctl)
  /\ escaped' = IF ui.doing = "query" THEN escaped \union {turn} ELSE escaped
  /\ UNCHANGED <<interactive, turn, lock, workspace, dialogs, notes, heard, ui>>

EscToOverlay ==
  /\ ui.login = "off" /\ ~ui.busy /\ Answer(FALSE)
  /\ UNCHANGED <<interactive, turn, aborted, jobs, lock, workspace, notes, heard, escaped>>

PressEsc ==
  /\ interactive /\ ui.running
  /\ EscCancelsLogin \/ EscInterrupts \/ EscToOverlay
  /\ UNCHANGED <<commands, prompts>>

(* Ctrl+L looks whether the application is busy, then loads the models.      *)
CtrlL ==
  /\ interactive /\ ui.running /\ ~ui.busy /\ ~ui.models
  /\ ui' = [ui EXCEPT !.models = TRUE]
  /\ UNCHANGED <<toolVars, commands, prompts, escaped>>

ModelsLoaded ==
  /\ ui.running /\ ui.models
  /\ ui' = [ui EXCEPT !.models = FALSE]
  /\ "models" \notin {dialogs[i] : i \in DOMAIN dialogs}   \* bound: one list at a time
  /\ \/ dialogs' = Append(dialogs, "models") \/ UNCHANGED dialogs
  /\ UNCHANGED <<interactive, turn, aborted, agents, jobs, lock, workspace, notes,
                 heard, commands, prompts, escaped>>

(* Ctrl+D on an empty line, at any time: the process ends, and with it all   *)
(* that is kept in memory.                                                   *)
exitApp ==
  /\ ui.running /\ ui' = [AtRest EXCEPT !.running = FALSE]
  /\ agents' = [a \in Agents |-> Idle] /\ jobs' = NoJobs
  /\ aborted' = {} /\ turn' = NoTurn /\ lock' = <<>> /\ dialogs' = <<>>
  /\ notes' = {} /\ heard' = {} /\ escaped' = {}
  /\ UNCHANGED <<interactive, workspace, commands, prompts>>

-----------------------------------------------------------------------------

Tools(A) == ui.running /\ A /\ UNCHANGED uiVars

Next ==
  \/ Tools(ToolNext)
  \/ SubmitQuery \/ TurnOver \/ SubmitCommand \/ CommandSelects \/ CommandEnds
  \/ beginLoginMode \/ LoginPrompts \/ LoginEnds \/ EnterValue
  \/ PressEnter \/ PressEsc \/ CtrlL \/ ModelsLoaded \/ exitApp

(* The user answers what is asked, commands and login flows end (by their    *)
(* timeouts if nothing else), processes exit or are killed, and the event    *)
(* loop runs every continuation.  Nobody need type anything.                 *)
Fairness ==
  /\ \A a \in Agents : WF_vars(Tools(AgentNext(a)))
  /\ WF_vars(Tools(Delegates)) /\ WF_vars(Tools(WorkerCancelled)) /\ WF_vars(Tools(LockNext))
  /\ \A j \in Jobs : WF_vars(Tools(JobExits(j))) /\ WF_vars(Tools(JobReports(j)))
  /\ WF_vars(TurnOver) /\ WF_vars(CommandEnds) /\ WF_vars(LoginEnds) /\ WF_vars(PressEnter)

Spec == Init /\ [][Next]_vars /\ Fairness

-----------------------------------------------------------------------------
(* The state.                                                                *)
TypeOK ==
  /\ ToolTypeOK
  /\ ui \in Ui
  /\ commands \in Nat /\ prompts \in Nat
  /\ escaped \subseteq 1..turn

(* Nothing runs on after it was stopped: neither a command whose turn was    *)
(* interrupted or whose job was killed, however long it had waited for the   *)
(* lock in between (process-runner.ts), nor a command of a worker in a       *)
(* workspace that was given to review (workspaces.ts 92, 181).               *)
NothingRunsOn ==
  /\ \A a \in Agents : agents[a].stage = "running" => agents[a].turn \notin aborted
  /\ \A j \in Jobs :
       /\ jobs[j].st = "running" => ~Signalled(j)
       /\ jobs[j].st \in {"running", "stopping"} /\ jobs[j].by = "worker"
            => workspace # "review"

(* Only Esc pressed during a turn aborts it: not the next turn, not Esc      *)
(* during a slash command (turn-controller.ts).                              *)
OnlyEscAborts == aborted \subseteq escaped

(* Outside a login the Enter key reaches the application's own handler,      *)
(* however many questions the login left unanswered (app.ts 404-459).        *)
SubmitReachesHandler ==
  ui.login = "off" => ui.submit = "handler" /\ ui.saved = None /\ ~ui.prompt

(* Every background job that was started is reported, whoever held the lock  *)
(* and however it ended (background-task.ts startBackgroundTask).            *)
JobsReported ==
  \A j \in Jobs :
    jobs[j].st # None ~> (<<"later", j>> \in notes \union heard \/ ~ui.running)

(* A turn or command always gives the editor back (app.ts handleSubmit),     *)
(* though dialogs queue up behind one another and calls behind the lock.     *)
TurnEnds == ui.busy ~> (~ui.busy \/ ~ui.running)

=============================================================================
