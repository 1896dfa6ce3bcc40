------------------------------- MODULE McpHub -------------------------------
(***************************************************************************)
(* The hub's supervision of one MCP server: src/mcp/hub.ts and             *)
(* src/mcp/stdio-transport.ts.                                             *)
(*                                                                         *)
(* Every connectStdio makes a new ServerState, here a slot; the hub's map  *)
(* holds the current one, but calls, starts, timers and process groups of  *)
(* earlier ones may still be under way.  An action is the code between two *)
(* awaits.  Servers of different names share only limits, so there is one  *)
(* name.  Messages, limits on bytes and rates, and diagnostics are left    *)
(* out: a frame is good, or it is fatal to the connection.                 *)
(***************************************************************************)
EXTENDS Integers, FiniteSets

CONSTANTS
    MaxSlots,    \* ServerStates the name goes through
    Connects,    \* calls of connectStdio under way at once
    Calls,       \* tool calls
    Threshold,   \* limits.failureThreshold
    MaxRestarts, \* limits.maxRestarts
    MaxInFlight  \* limits.maxConcurrentRequests

Slots == 1..MaxSlots
Gens  == 0..MaxRestarts + 1

ASSUME HubAssumption ==
    /\ MaxSlots \in Nat \ {0} /\ Threshold \in Nat \ {0}
    /\ MaxRestarts \in Nat /\ MaxInFlight \in Nat \ {0}

VARIABLES
    current,  \* slot in the hub's map, 0 when there is none
    server,   \* the ServerStates
    connect,  \* the calls of connectStdio
    call,     \* the calls of callPrefixedTool
    stopping

vars == <<current, server, connect, call, stopping>>

(* pipe: ManagedStdioTransport, "eof" and "term" while close waits; group:    *)
(* its process group, "orphans" once only descendants are left.               *)
ServerRec == [
    phase    : {"none", "connecting", "ready", "open", "closed"},
    start    : {"none", "wait", "handshake", "listed"},  \* performStart
    gen      : Gens,
    failures : 0..Threshold,
    restarts : 0..MaxRestarts,
    timer    : BOOLEAN,   \* restartTimer
    cooling  : BOOLEAN,   \* Date.now() < openUntil
    aborted  : BOOLEAN,   \* the signal of the call that connected
    pipe     : {"none", "open", "eof", "term", "closed"},
    group    : {"none", "whole", "orphans", "dead"}]

Fresh == [phase |-> "none", start |-> "none", gen |-> 0, failures |-> 0,
          restarts |-> 0, timer |-> FALSE, cooling |-> FALSE, aborted |-> FALSE,
          pipe |-> "none", group |-> "none"]

ConnectRec == [pc: {"idle", "wait"}, previous: 0..MaxSlots]
CallRec    == [pc: {"idle", "sent", "answered", "failed", "ok", "error"},
               slot: 0..MaxSlots, gen: Gens]

Init ==
    /\ current = 0 /\ stopping = FALSE
    /\ server = [s \in Slots |-> Fresh]
    /\ connect = [o \in Connects |-> [pc |-> "idle", previous |-> 0]]
    /\ call = [c \in Calls |-> [pc |-> "idle", slot |-> 0, gen |-> 0]]

----------------------------------------------------------------------------
(* Pieces of the code, as functions of a ServerState.                      *)

\* close: the first call starts it, later ones share its promise.
Closing(r) == [r EXCEPT !.pipe = IF @ = "open" THEN "eof" ELSE @]

Closed(r) == r.pipe \in {"none", "closed"}

\* trip; failures are counted in phase "ready" only, so they are dropped here.
Tripped(r) ==
    IF r.phase \in {"closed", "open"} \/ stopping THEN r
    ELSE [Closing(r) EXCEPT !.phase = "open", !.cooling = TRUE, !.failures = 0,
                            !.timer = r.restarts < MaxRestarts]

\* openUntil and failures are not read any more.
Retired(r) == [r EXCEPT !.phase = "closed", !.timer = FALSE, !.cooling = FALSE, !.failures = 0]

\* Mutant: the transport is left to itself.
Ended_Transport(r) == Retired(r)

\* What disconnect and shutdown do to a server.
Ended(r) == Closing(Retired(r))

\* The catch block of performStart.
StartFailed(r) ==
    [Closing(Tripped(IF r.aborted THEN Retired(r) ELSE r)) EXCEPT !.start = "none"]

Set(s, r) == server' = [server EXCEPT ![s] = r]

----------------------------------------------------------------------------
(* Connecting.                                                             *)

Connectable(s) ==
    s # 0 => /\ server[s].phase \notin {"ready", "connecting"}
             /\ ~(server[s].phase = "open" /\ server[s].cooling)

NextSlot == Cardinality({s \in Slots : server[s].phase # "none"}) + 1

\* connectStdio until it waits for the previous connection.
ConnectBegin(o) ==
    /\ connect[o].pc = "idle" /\ ~stopping /\ Connectable(current) /\ NextSlot \in Slots
    /\ connect' = [connect EXCEPT ![o] =
           [pc |-> "wait", previous |-> current]]
    /\ UNCHANGED <<current, server, call, stopping>>

\* previous.closing has settled.
CleanedUp(o) ==
    connect[o].pc = "wait" /\ (connect[o].previous # 0 => Closed(server[connect[o].previous]))

\* Who waited first for that promise, goes on first: a restart of the previous
\* server asks for it after the timer, when a connect would have been refused.
Overtaken(s) == \E o \in Connects : connect[o].previous = s /\ CleanedUp(o)

\* Mutant: nobody looks whether another connect came first.
Unchanged_Phase(o) == ~stopping

Unchanged(o) ==
    LET p == connect[o].previous
    IN current = p /\ ~stopping /\ (p # 0 => server[p].phase \notin {"connecting", "ready"})

ConnectReserve(o) ==
    /\ CleanedUp(o)
    /\ connect' = [connect EXCEPT ![o] = [pc |-> "idle", previous |-> 0]]
    /\ IF Unchanged(o) /\ NextSlot \in Slots
       THEN LET p == connect[o].previous
            IN /\ current' = NextSlot
               /\ server' = [s \in Slots |->
                     IF s = NextSlot THEN [Fresh EXCEPT !.phase = "connecting", !.start = "wait"]
                     ELSE IF s = p THEN Retired(server[s])
                     ELSE server[s]]
       ELSE UNCHANGED <<current, server>>
    /\ UNCHANGED <<call, stopping>>

GivenUp(s) == stopping \/ server[s].phase = "closed" \/ server[s].aborted

\* performStart, once the last transport of this server is closed: the process
\* is spawned, or the start is given up.
StartProcess(s) ==
    /\ server[s].start = "wait" /\ Closed(server[s]) /\ ~Overtaken(s)
    /\ IF GivenUp(s)
       THEN Set(s, [server[s] EXCEPT !.start = "none"])
       ELSE Set(s, [server[s] EXCEPT !.phase = "connecting", !.start = "handshake",
                        !.gen = @ + 1, !.failures = 0, !.pipe = "open", !.group = "whole"])
    /\ UNCHANGED <<current, connect, call, stopping>>

\* The answer to listTools has come.
Listed(s) ==
    /\ server[s].start = "handshake" /\ server[s].pipe = "open"
    /\ Set(s, [server[s] EXCEPT !.start = "listed"])
    /\ UNCHANGED <<current, connect, call, stopping>>

StillConnecting(s) ==
    server[s].phase = "connecting" /\ ~server[s].aborted /\ ~stopping

StartReady(s) ==
    /\ server[s].start = "listed"
    /\ Set(s, IF StillConnecting(s)
              THEN [server[s] EXCEPT !.phase = "ready", !.start = "none"]
              ELSE StartFailed(server[s]))
    /\ UNCHANGED <<current, connect, call, stopping>>

\* The handshake fails, or the tools break a limit.
StartFails(s) ==
    /\ server[s].start \in {"handshake", "listed"}
    /\ Set(s, StartFailed(server[s]))
    /\ UNCHANGED <<current, connect, call, stopping>>

\* The user's signal belongs to the first start of a server.
Abort(s) ==
    /\ server[s].start # "none" /\ server[s].restarts = 0 /\ ~server[s].aborted
    /\ Set(s, Closing([server[s] EXCEPT !.aborted = TRUE]))
    /\ UNCHANGED <<current, connect, call, stopping>>

----------------------------------------------------------------------------
(* The process.                                                            *)

\* The exit of the child closes the transport, and onclose trips the circuit;
\* its descendants may live on.
ProcessExit(s) ==
    /\ server[s].group = "whole"
    /\ \E g \in {"orphans", "dead"} :
          Set(s, IF server[s].pipe = "open"
                 THEN [Closing(Tripped(server[s])) EXCEPT !.group = g]
                 ELSE [server[s] EXCEPT !.group = g])
    /\ UNCHANGED <<current, connect, call, stopping>>

OrphansExit(s) ==
    /\ server[s].group = "orphans"
    /\ Set(s, [server[s] EXCEPT !.group = "dead"])
    /\ UNCHANGED <<current, connect, call, stopping>>

\* A frame, a rate or an error of the pipes that is fatal, or the deadline of the
\* start: the circuit is tripped; the handshake is then rejected (StartFails).
FatalError(s) ==
    /\ server[s].pipe = "open"
    /\ Set(s, Closing(Tripped(server[s])))
    /\ UNCHANGED <<current, connect, call, stopping>>

\* close: stdin has ended and the grace is over, so SIGTERM is sent ...
Terminate(s) ==
    /\ server[s].pipe = "eof"
    /\ Set(s, [server[s] EXCEPT !.pipe = "term"])
    /\ UNCHANGED <<current, connect, call, stopping>>

\* Mutant: nothing is sent to the group of a child that has exited.
Killed_LeaderOnly(s) == IF server[s].group = "whole" THEN "dead" ELSE server[s].group

Killed(s) == "dead"

\* ... and SIGKILL, to the whole group.
Kill(s) ==
    /\ server[s].pipe = "term"
    /\ Set(s, [server[s] EXCEPT !.pipe = "closed", !.group = Killed(s)])
    /\ UNCHANGED <<current, connect, call, stopping>>

----------------------------------------------------------------------------
(* The circuit.                                                            *)

Cooled(s) ==
    /\ server[s].cooling
    /\ Set(s, [server[s] EXCEPT !.cooling = FALSE])
    /\ UNCHANGED <<current, connect, call, stopping>>

\* Callbacks and settled promises run before a timer.
Settled(s) ==
    /\ ~Overtaken(s)
    /\ ~(server[s].start \in {"handshake", "listed"} /\ server[s].pipe # "open")
    /\ \A c \in Calls : call[c].slot = s => call[c].pc \notin {"answered", "failed"}

\* The restart timer; the configuration or its trust may have changed.
RestartTimer(s) ==
    /\ server[s].timer /\ ~server[s].cooling /\ Settled(s)
    /\ \/ Set(s, [server[s] EXCEPT !.timer = FALSE])
       \/ /\ ~stopping /\ server[s].phase = "open"
          /\ Set(s, [server[s] EXCEPT !.timer = FALSE, !.restarts = @ + 1,
                                      !.phase = "connecting", !.start = "wait"])
    /\ UNCHANGED <<current, connect, call, stopping>>

----------------------------------------------------------------------------
(* Calls.                                                                  *)

InFlight(s) == {c \in Calls : call[c].slot = s /\ call[c].pc \in {"sent", "answered", "failed"}}

Over(c, result) == call' = [call EXCEPT ![c] = [pc |-> result, slot |-> 0, gen |-> 0]]

CallSend(c) ==
    /\ call[c].pc = "idle" /\ current # 0
    /\ server[current].phase = "ready" /\ Cardinality(InFlight(current)) < MaxInFlight
    /\ call' = [call EXCEPT ![c] = [pc |-> "sent", slot |-> current, gen |-> server[current].gen]]
    /\ UNCHANGED <<current, server, connect, stopping>>

\* The promise of the request settles; a closed connection, a deadline and the
\* user's signal reject it.
CallSettle(c) ==
    /\ call[c].pc = "sent"
    /\ \/ server[call[c].slot].pipe = "open" /\ call' = [call EXCEPT ![c].pc = "answered"]
       \/ call' = [call EXCEPT ![c].pc = "failed"]
    /\ UNCHANGED <<current, server, connect, stopping>>

\* Mutant: the state of the connection is not looked at again.
OwnConnection_Any(c) == call[c].pc # "idle"

\* The connection is still the one the call was sent on.
OwnConnection(c) ==
    server[call[c].slot].gen = call[c].gen /\ server[call[c].slot].phase = "ready"

\* A failure of this connection counts, and may trip the circuit.
Failed(c) ==
    LET r == server[call[c].slot]
        counted == [r EXCEPT !.failures = @ + 1]
    IN IF ~OwnConnection(c) THEN r
       ELSE IF counted.failures >= Threshold THEN Tripped(counted) ELSE counted

\* A success resets the failures; one of an old connection is an error.
CallReturn(c) ==
    /\ call[c].pc = "answered"
    /\ IF OwnConnection(c)
       THEN /\ Over(c, "ok")
            /\ Set(call[c].slot, [server[call[c].slot] EXCEPT !.failures = 0])
       ELSE /\ Over(c, "error")
            /\ Set(call[c].slot, Failed(c))
    /\ UNCHANGED <<current, connect, stopping>>

\* A cancelled call is not a failure of the server.
CallFail(c) ==
    /\ call[c].pc = "failed"
    /\ Over(c, "error")
    /\ Set(call[c].slot, Failed(c)) \/ UNCHANGED server
    /\ UNCHANGED <<current, connect, stopping>>

----------------------------------------------------------------------------
(* Ending.                                                                 *)

\* disconnect; restartConfigured is a disconnect followed by a connect.
Disconnect ==
    /\ current # 0 /\ ~stopping
    /\ Set(current, Ended(server[current]))
    /\ UNCHANGED <<current, connect, call, stopping>>

\* shutdown, of the servers in the map.
Shutdown ==
    /\ ~stopping
    /\ stopping' = TRUE
    /\ IF current = 0 THEN UNCHANGED server ELSE Set(current, Ended(server[current]))
    /\ UNCHANGED <<current, connect, call>>

\* What shutdown waits for, and the process exits after.
ShutdownOver ==
    stopping /\ (current # 0 => Closed(server[current]) /\ server[current].start = "none")

Proceed(s) ==
    \/ StartProcess(s) \/ Listed(s) \/ StartReady(s) \/ StartFails(s)
    \/ Terminate(s) \/ Kill(s) \/ Cooled(s) \/ RestartTimer(s)

Next ==
    \/ \E o \in Connects : ConnectBegin(o) \/ ConnectReserve(o)
    \/ \E s \in Slots : Proceed(s) \/ Abort(s) \/ ProcessExit(s) \/ OrphansExit(s) \/ FatalError(s)
    \/ \E c \in Calls : CallSend(c) \/ CallSettle(c) \/ CallReturn(c) \/ CallFail(c)
    \/ Disconnect \/ Shutdown

Spec == Init /\ [][Next]_vars

\* Timers fire, signals are sent after their grace, and promises settle.
FairSpec ==
    /\ Spec
    /\ \A o \in Connects : WF_vars(ConnectReserve(o))
    /\ \A s \in Slots : /\ WF_vars(StartProcess(s)) /\ WF_vars(StartReady(s) \/ StartFails(s))
                        /\ WF_vars(Terminate(s) \/ Kill(s))

----------------------------------------------------------------------------
(* Properties.                                                             *)

\* Records keep their shape, and counters their limits.
TypeOK ==
    /\ current \in 0..MaxSlots /\ stopping \in BOOLEAN
    /\ server \in [Slots -> ServerRec]
    /\ connect \in [Connects -> ConnectRec]
    /\ call \in [Calls -> CallRec]

\* mcp-resilience.md: concurrent requests for one name never start its process
\* twice; a process is spawned when no other of the name lives or still closes.
OneProcess ==
    \A s, t \in Slots :
        server[s].pipe = "open" /\ server[t].group \in {"whole", "orphans"} => s = t

\* Once shutdown is over the process exits: no process group is left behind.
NothingLeft == ShutdownOver => \A s \in Slots : server[s].group \in {"none", "dead"}

\* shutdown ends, and nothing is started after it.
ShutdownEnds == stopping ~> []ShutdownOver

\* Whether the tools of the server are registered.
Offered == current # 0 /\ server[current].phase = "ready"

CallStatus(c) ==
    IF call[c].pc \in {"sent", "answered", "failed"}
    THEN IF OwnConnection(c) THEN "sent" ELSE "orphan"
    ELSE call[c].pc

Connection == INSTANCE McpConnection WITH
    up <- Offered, status <- [c \in Calls |-> CallStatus(c)], retired <- stopping

\* Calls of tripped, replaced and restarted connections end as errors, and tools
\* are offered exactly while the current connection is up.
ImplementsConnection == Connection!ConnectionSpec
=============================================================================
