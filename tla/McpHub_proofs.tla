----------------------------- MODULE McpHub_proofs -----------------------------
(***************************************************************************)
(* Proofs about McpHub, for any limits, calls and callers of connectStdio. *)
(* Only the server in the hub's map may have a connection that is not      *)
(* closed: the earlier ones are retired for good.  What a call compares    *)
(* when it returns (generation and phase) therefore says whether its own   *)
(* connection is still the one whose tools are offered.                    *)
(***************************************************************************)
EXTENDS McpHub, TLAPS, FiniteSetTheorems

----------------------------------------------------------------------------
(* The inductive invariant.                                                *)

Starting == {"handshake", "listed"}

\* The fields of one ServerState.  A process group exists as long as its
\* transport is not closed; a start belongs to one generation.
StateShape(r) ==
    /\ r.pipe = "none" <=> r.group = "none"
    /\ r.pipe = "closed" => r.group = "dead"
    /\ r.phase = "ready" => r.start = "none"
    /\ r.gen <= r.restarts + 1
    /\ r.start = "wait" => r.gen <= r.restarts
    /\ r.timer => r.restarts < MaxRestarts
    /\ r.failures < Threshold

\* Slots are used in order; the hub's map holds the last one, and the others
\* are retired and closed.
SlotShape ==
    \A s \in Slots :
        /\ StateShape(server[s])
        /\ s > current => server[s] = Fresh
        /\ s = current => server[s].phase # "none"
        /\ s < current => server[s].phase = "closed" /\ Closed(server[s])
        /\ stopping => server[s].phase \in {"none", "closed"}

Flying(c) == call[c].pc \in {"sent", "answered", "failed"}

\* A call belongs to a generation that was ready; a later start has another.
CallShape ==
    \A c \in Calls : Flying(c) =>
        /\ call[c].slot \in 1..current
        /\ call[c].gen <= server[call[c].slot].gen
        /\ server[call[c].slot].start \in Starting => call[c].gen < server[call[c].slot].gen

IInv == TypeOK /\ SlotShape /\ CallShape

----------------------------------------------------------------------------
(* Steps that change one ServerState.                                      *)

\* What such a step may do: a retired server stays retired and closed, a
\* generation is not used twice, and only a start makes a server ready.
Evolves(s, x) ==
    /\ x \in ServerRec /\ StateShape(x) /\ x.phase # "none"
    /\ server[s].phase = "closed" => x.phase = "closed" /\ (Closed(server[s]) => Closed(x))
    /\ x.gen >= server[s].gen
    /\ x.start \in Starting => x.gen > server[s].gen \/ server[s].start \in Starting
    /\ x.phase = "ready" =>
          /\ x.gen = server[s].gen
          /\ server[s].phase = "ready" \/ (server[s].start = "listed" /\ ~stopping)

\* The types of the state.
LEMMA Types ==
    ASSUME IInv
    PROVE  /\ current \in 0..MaxSlots /\ stopping \in BOOLEAN
           /\ server \in [Slots -> ServerRec] /\ call \in [Calls -> CallRec]
           /\ connect \in [Connects -> ConnectRec] /\ 1..current \subseteq Slots
BY HubAssumption DEF IInv, TypeOK, Slots

\* Calls under way stay what they are, or end.
CallsKept ==
    /\ call' \in [Calls -> CallRec]
    /\ \A c \in Calls : Flying(c)' =>
          Flying(c) /\ call'[c].slot = call[c].slot /\ call'[c].gen = call[c].gen

\* Such a step keeps the invariant, also when calls end with it, and when it is
\* the one that ends the hub.
LEMMA SlotStep ==
    ASSUME IInv, NEW s \in 1..current, NEW x, Evolves(s, x), Set(s, x), CallsKept,
           stopping' = stopping \/ (stopping' = TRUE /\ s = current /\ x.phase = "closed"),
           UNCHANGED <<current, connect>>
    PROVE  IInv'
<1>1. s \in Slots /\ current \in Nat /\ server \in [Slots -> ServerRec]
  BY Types
<1>2. /\ server' \in [Slots -> ServerRec] /\ server'[s] = x
      /\ \A t \in Slots : t # s => server'[t] = server[t]
  BY <1>1 DEF Set, Evolves
<1>3. TypeOK'
  BY <1>2 DEF IInv, TypeOK, CallsKept
<1>4. SlotShape'
  <2>1. SUFFICES ASSUME NEW t \in Slots
                 PROVE  /\ StateShape(server'[t])
                        /\ t > current => server'[t] = Fresh
                        /\ t = current => server'[t].phase # "none"
                        /\ t < current => server'[t].phase = "closed" /\ Closed(server'[t])
                        /\ stopping' => server'[t].phase \in {"none", "closed"}
    BY DEF SlotShape, StateShape, Closed, Fresh
  <2>2. Fresh.phase = "none"
    BY DEF Fresh
  <2>3. t < current \/ t = current \/ t > current
    BY <1>1 DEF Slots
  <2>4. CASE t = s
    BY <1>1, <1>2, <2>4 DEF IInv, SlotShape, Evolves, Slots
  <2>5. CASE t # s
    BY <1>1, <1>2, <2>2, <2>3, <2>5 DEF IInv, SlotShape, Slots
  <2> QED BY <2>4, <2>5
<1>5. CallShape'
  <2> SUFFICES ASSUME NEW c \in Calls, Flying(c)
               PROVE  /\ call[c].gen <= server'[call[c].slot].gen
                      /\ server'[call[c].slot].start \in Starting
                            => call[c].gen < server'[call[c].slot].gen
    BY DEF IInv, CallShape, CallsKept
  <2>1. /\ call[c].slot \in Slots /\ call[c].gen <= server[call[c].slot].gen
        /\ server[call[c].slot].start \in Starting => call[c].gen < server[call[c].slot].gen
    BY Types DEF IInv, CallShape
  <2>2. CASE call[c].slot = s
    <3>1. call[c].gen \in Int /\ server[s].gen \in Int /\ x.gen \in Int
      BY <1>1, Types, HubAssumption DEF CallRec, ServerRec, Gens, Evolves
    <3> QED BY <1>2, <2>1, <2>2, <3>1 DEF Evolves
  <2>3. CASE call[c].slot # s
    BY <1>2, <2>1, <2>3
  <2> QED BY <2>2, <2>3
<1> QED BY <1>3, <1>4, <1>5 DEF IInv

\* Only a slot that was reserved has anything under way.
LEMMA InUse ==
    ASSUME IInv, NEW s \in Slots, server[s] # Fresh
    PROVE  /\ s \in 1..current /\ Evolves(s, server[s])
           /\ stopping => server[s].phase = "closed"
<1>1. s \in 1..current /\ server[s] \in ServerRec /\ current \in 0..MaxSlots
  BY Types, HubAssumption DEF IInv, SlotShape, Slots
<1>2. StateShape(server[s]) /\ server[s].phase # "none" /\ server[s].gen \in Int
  BY <1>1 DEF IInv, SlotShape, ServerRec, Gens
<1> QED BY <1>1, <1>2 DEF IInv, SlotShape, Evolves, StateShape, Starting

\* What the pieces of the code make of a ServerState is such a step as well.
LEMMA Pieces ==
    ASSUME IInv, NEW s \in Slots, NEW r, Evolves(s, r)
    PROVE  /\ Evolves(s, Closing(r)) /\ Closing(r).pipe # "open"
           /\ Evolves(s, Tripped(r))
           /\ Evolves(s, Retired(r)) /\ Retired(r).phase = "closed"
           /\ Evolves(s, [r EXCEPT !.start = "none"])
           /\ Evolves(s, [r EXCEPT !.failures = 0])
<1>1. r \in ServerRec /\ 0 \in 0..Threshold /\ 0 < Threshold
  BY HubAssumption DEF Evolves
<1>2. ASSUME NEW q, Evolves(s, q)
      PROVE  Evolves(s, Closing(q)) /\ Closing(q).pipe # "open"
  <2>1. q \in ServerRec
    BY <1>2 DEF Evolves
  <2> QED BY <1>2, <2>1 DEF Evolves, Closing, StateShape, ServerRec, Closed
<1>3. Evolves(s, Tripped(r))
  <2> DEFINE x == [Closing(r) EXCEPT !.phase = "open", !.cooling = TRUE, !.failures = 0,
                                     !.timer = r.restarts < MaxRestarts]
  <2>1. CASE Tripped(r) = r
    BY <2>1
  <2>2. CASE Tripped(r) = x /\ r.phase # "closed"
    <3>1. Closing(r) \in ServerRec /\ Evolves(s, Closing(r)) /\ Closing(r).restarts = r.restarts
      BY <1>1, <1>2 DEF Evolves, Closing, ServerRec
    <3>2. (r.restarts < MaxRestarts) \in BOOLEAN
      OBVIOUS
    <3>3. /\ x \in ServerRec /\ x.phase = "open" /\ x.failures = 0
          /\ x.timer = (r.restarts < MaxRestarts) /\ x.restarts = r.restarts
          /\ x.pipe = Closing(r).pipe /\ x.group = Closing(r).group
          /\ x.start = Closing(r).start /\ x.gen = Closing(r).gen
      <4> HIDE DEF Closing
      <4> QED BY <1>1, <3>1, <3>2 DEF ServerRec
    <3> HIDE DEF x
    <3>4. server[s].phase # "closed"
      BY <2>2 DEF Evolves
    <3>5. StateShape(x)
      BY <1>1, <3>1, <3>3 DEF StateShape, Evolves
    <3> QED BY <2>2, <3>1, <3>3, <3>4, <3>5 DEF Evolves
  <2> QED BY <2>1, <2>2 DEF Tripped
<1>4. Evolves(s, Retired(r)) /\ Retired(r).phase = "closed"
  <2> DEFINE x == Retired(r)
  <2>1. /\ x \in ServerRec /\ x.phase = "closed" /\ x.failures = 0 /\ x.timer = FALSE
        /\ x.restarts = r.restarts /\ x.pipe = r.pipe /\ x.group = r.group
        /\ x.start = r.start /\ x.gen = r.gen
    BY <1>1 DEF Retired, ServerRec
  <2> HIDE DEF x
  <2>2. StateShape(x)
    BY <1>1, <2>1 DEF StateShape, Evolves
  <2>3. Evolves(s, x)
    BY <2>1, <2>2 DEF Evolves, Closed
  <2> QED BY <2>1, <2>3 DEF x
<1>5. Evolves(s, [r EXCEPT !.start = "none"])
  BY <1>1 DEF Evolves, StateShape, ServerRec, Closed, Starting
<1>6. Evolves(s, [r EXCEPT !.failures = 0])
  BY <1>1 DEF Evolves, StateShape, ServerRec, Closed
<1> QED BY <1>2, <1>3, <1>4, <1>5, <1>6

\* A slot under way is not Fresh.
LEMMA NotFresh ==
    ASSUME NEW s \in Slots,
           \/ server[s].start # "none" \/ server[s].pipe # "none" \/ server[s].group # "none"
           \/ server[s].timer = TRUE \/ server[s].cooling = TRUE
    PROVE  server[s] # Fresh
BY DEF Fresh

SlotAction(s) ==
    Proceed(s) \/ Abort(s) \/ ProcessExit(s) \/ OrphansExit(s) \/ FatalError(s)

\* Every action of one server is such a step.
LEMMA SlotActions ==
    ASSUME IInv, NEW s \in Slots, SlotAction(s)
    PROVE  /\ s \in 1..current /\ UNCHANGED <<current, connect, call, stopping>>
           /\ \E x : Evolves(s, x) /\ Set(s, x)
<1> PICK r : r = server[s]
  OBVIOUS
<1>1. /\ UNCHANGED <<current, connect, call, stopping>>
      /\ server[s] # Fresh
  BY NotFresh, Zenon DEF SlotAction, Proceed, StartProcess, Listed, StartReady, StartFails, Terminate, Kill,
     Cooled, RestartTimer, Abort, ProcessExit, OrphansExit, FatalError
<1>2. /\ s \in 1..current /\ Evolves(s, r) /\ r \in ServerRec /\ StateShape(r)
      /\ stopping => r.phase = "closed"
  BY <1>1, InUse DEF Evolves
<1> SUFFICES \E x : Evolves(s, x) /\ Set(s, x)
  BY <1>1, <1>2
<1>3. Evolves(s, StartFailed(r))
  <2> DEFINE a == IF r.aborted THEN Retired(r) ELSE r
  <2>1. Evolves(s, a)
    BY <1>2, Pieces
  <2>2. Evolves(s, Tripped(a))
    BY <2>1, Pieces
  <2>3. Evolves(s, Closing(Tripped(a)))
    BY <2>2, Pieces
  <2>4. Evolves(s, [Closing(Tripped(a)) EXCEPT !.start = "none"])
    BY <2>3, Pieces
  <2> QED BY <2>4 DEF StartFailed
<1>4. CASE StartProcess(s)
  <2>1. CASE GivenUp(s)
    BY <1>2, <1>4, <2>1, Pieces DEF StartProcess
  <2>2. CASE ~GivenUp(s)
    <3> DEFINE x == [r EXCEPT !.phase = "connecting", !.start = "handshake",
                       !.gen = @ + 1, !.failures = 0, !.pipe = "open", !.group = "whole"]
    <3>1. r.gen \in Gens /\ r.gen + 1 \in Gens /\ r.gen + 1 <= r.restarts + 1 /\ r.gen + 1 > r.gen
      BY <1>2, <1>4, HubAssumption DEF StartProcess, StateShape, ServerRec, Gens
    <3>2. /\ x \in ServerRec /\ x.phase = "connecting" /\ x.start = "handshake"
          /\ x.gen = r.gen + 1 /\ x.failures = 0 /\ x.pipe = "open" /\ x.group = "whole"
          /\ x.restarts = r.restarts /\ x.timer = r.timer
      <4>1. r \in ServerRec /\ 0 \in 0..Threshold
        BY <1>2, HubAssumption
      <4> QED BY <3>1, <4>1, ZenonT(60) DEF ServerRec
    <3>3. Set(s, x) /\ r.phase # "closed"
      <4> HIDE DEF Set
      <4> QED BY <1>4, <2>2 DEF StartProcess, GivenUp
    <3> HIDE DEF x
    <3>4. Evolves(s, x)
      BY <1>2, <3>1, <3>2, <3>3, HubAssumption DEF Evolves, StateShape, ServerRec, Gens
    <3> QED BY <3>3, <3>4
  <2> QED BY <2>1, <2>2
<1>5. CASE Listed(s)
  <2> DEFINE x == [r EXCEPT !.start = "listed"]
  <2>1. Set(s, x) /\ r.start = "handshake"
    BY <1>5 DEF Listed
  <2>2. Evolves(s, x)
    BY <1>2, <2>1 DEF Evolves, StateShape, ServerRec, Closed, Starting
  <2> QED BY <2>1, <2>2
<1>6. CASE StartReady(s)
  <2>1. CASE StillConnecting(s)
    <3> DEFINE x == [r EXCEPT !.phase = "ready", !.start = "none"]
    <3>1. Set(s, x) /\ r.start = "listed" /\ r.phase = "connecting" /\ ~stopping
      BY <1>6, <2>1 DEF StartReady, StillConnecting
    <3>2. Evolves(s, x)
      BY <1>2, <3>1 DEF Evolves, StateShape, ServerRec, Closed, Starting
    <3> QED BY <3>1, <3>2
  <2> QED BY <1>3, <1>6, <2>1 DEF StartReady
<1>7. CASE StartFails(s)
  BY <1>3, <1>7 DEF StartFails
<1>8. CASE Terminate(s)
  <2> DEFINE x == [r EXCEPT !.pipe = "term"]
  <2>1. Set(s, x) /\ r.pipe = "eof"
    BY <1>8 DEF Terminate
  <2>2. Evolves(s, x)
    BY <1>2, <2>1 DEF Evolves, StateShape, ServerRec, Closed
  <2> QED BY <2>1, <2>2
<1>9. CASE Kill(s)
  <2> DEFINE x == [r EXCEPT !.pipe = "closed", !.group = "dead"]
  <2>1. Set(s, x) /\ r.pipe = "term"
    BY <1>9 DEF Kill, Killed
  <2>2. Evolves(s, x)
    BY <1>2, <2>1 DEF Evolves, StateShape, ServerRec, Closed
  <2> QED BY <2>1, <2>2
<1>10. CASE Cooled(s)
  <2> DEFINE x == [r EXCEPT !.cooling = FALSE]
  <2>1. Set(s, x)
    BY <1>10 DEF Cooled
  <2>2. Evolves(s, x)
    BY <1>2 DEF Evolves, StateShape, ServerRec, Closed
  <2> QED BY <2>1, <2>2
<1>11. CASE RestartTimer(s)
  <2> DEFINE x == [r EXCEPT !.timer = FALSE]
             y == [r EXCEPT !.timer = FALSE, !.restarts = @ + 1,
                            !.phase = "connecting", !.start = "wait"]
  <2>1. Evolves(s, x)
    BY <1>2 DEF Evolves, StateShape, ServerRec, Closed
  <2>2. CASE Set(s, x)
    BY <2>1, <2>2
  <2>3. CASE Set(s, y) /\ r.phase = "open" /\ r.timer
    <3>1. /\ r.restarts \in Nat /\ r.restarts + 1 \in 0..MaxRestarts /\ r.gen \in Nat
          /\ r.gen <= r.restarts + 1
      BY <1>2, <2>3, HubAssumption DEF StateShape, ServerRec, Gens
    <3>2. /\ y \in ServerRec /\ y.phase = "connecting" /\ y.start = "wait" /\ y.gen = r.gen
          /\ y.restarts = r.restarts + 1 /\ y.timer = FALSE /\ y.failures = r.failures
          /\ y.pipe = r.pipe /\ y.group = r.group
      BY <1>2, <3>1, ZenonT(60) DEF ServerRec
    <3> HIDE DEF y
    <3>3. Evolves(s, y)
      BY <1>2, <2>3, <3>1, <3>2 DEF Evolves, StateShape, Starting
    <3> QED BY <2>3, <3>3
  <2> QED BY <1>11, <2>2, <2>3 DEF RestartTimer
<1>12. CASE Abort(s)
  <2> DEFINE x == [r EXCEPT !.aborted = TRUE]
  <2>1. Evolves(s, x)
    BY <1>2 DEF Evolves, StateShape, ServerRec, Closed
  <2>2. Set(s, Closing(x))
    BY <1>12 DEF Abort
  <2> HIDE DEF x
  <2> QED BY <2>1, <2>2, Pieces
<1>13. CASE ProcessExit(s)
  <2> PICK g \in {"orphans", "dead"} :
          Set(s, IF r.pipe = "open" THEN [Closing(Tripped(r)) EXCEPT !.group = g]
                                    ELSE [r EXCEPT !.group = g])
    BY <1>13 DEF ProcessExit
  <2> DEFINE q == IF r.pipe = "open" THEN Closing(Tripped(r)) ELSE r
             x == [q EXCEPT !.group = g]
  <2>1. r.group = "whole"
    BY <1>13 DEF ProcessExit
  <2>2. Evolves(s, Tripped(r)) /\ Tripped(r).pipe # "none"
    BY <1>2, <2>1, Pieces DEF Tripped, Closing, StateShape, ServerRec
  <2>3. Evolves(s, q) /\ q.pipe # "none" /\ q.pipe # "closed"
    <3> DEFINE y == Tripped(r)
    <3> HIDE DEF y
    <3>1. r.pipe = "open" => y.pipe # "closed"
      BY <1>2 DEF Tripped, Closing, ServerRec, y
    <3>2. y \in ServerRec /\ (r.pipe # "none" /\ r.pipe # "closed" <=> r.pipe \in {"open", "eof", "term"})
      BY <1>2, <2>2 DEF Evolves, ServerRec, y
    <3>3. Closing(y).pipe = IF y.pipe = "open" THEN "eof" ELSE y.pipe
      BY <3>2 DEF Closing, ServerRec
    <3>4. Evolves(s, Closing(y)) /\ y.pipe # "none"
      BY <2>2, Pieces DEF y
    <3>5. r.pipe # "none" /\ r.pipe # "closed"
      BY <1>2, <2>1 DEF StateShape
    <3> QED BY <1>2, <3>1, <3>3, <3>4, <3>5 DEF y
  <2>5. Set(s, x)
    OBVIOUS
  <2> HIDE DEF q
  <2>4. Evolves(s, x)
    BY <2>3 DEF Evolves, StateShape, ServerRec, Closed
  <2> HIDE DEF x
  <2> QED BY <2>4, <2>5
<1>14. CASE OrphansExit(s)
  <2> DEFINE x == [r EXCEPT !.group = "dead"]
  <2>1. Set(s, x) /\ r.group = "orphans"
    BY <1>14 DEF OrphansExit
  <2>2. Evolves(s, x)
    BY <1>2, <2>1 DEF Evolves, StateShape, ServerRec, Closed
  <2> QED BY <2>1, <2>2
<1>15. CASE FatalError(s)
  <2>1. Evolves(s, Tripped(r))
    BY <1>2, Pieces
  <2> QED BY <1>15, <2>1, Pieces DEF FatalError
<1> QED
  BY <1>1, <1>2, <1>4, <1>5, <1>6, <1>7, <1>8, <1>9, <1>10, <1>11, <1>12, <1>13, <1>14, <1>15
  DEF SlotAction, Proceed

----------------------------------------------------------------------------
(* The other actions.                                                      *)

\* The next slot is the one after the server in the hub's map.
LEMMA Reserved == ASSUME IInv PROVE NextSlot = current + 1
<1>1. current \in Nat /\ 1..current \subseteq Slots
  BY Types
<1>2. \A s \in Slots : server[s].phase # "none" <=> s <= current
  BY <1>1, Types DEF IInv, SlotShape, Fresh, Slots
<1>3. {s \in Slots : server[s].phase # "none"} = 1..current
  BY <1>1, <1>2 DEF Slots
<1>4. Cardinality(1..current) = current
  BY <1>1, FS_Interval
<1> QED BY <1>3, <1>4 DEF NextSlot

\* A new server takes the place of one that is down and closed.
LEMMA ReserveStep ==
    ASSUME IInv, NEW o \in Connects, ConnectReserve(o)
    PROVE  IInv'
<1>0. connect' \in [Connects -> ConnectRec]
  <2>1. [pc |-> "idle", previous |-> 0] \in ConnectRec
    BY HubAssumption DEF ConnectRec
  <2> QED BY <2>1, Types DEF ConnectReserve
<1>1. CASE UNCHANGED <<current, server>>
  BY <1>0, <1>1 DEF ConnectReserve, IInv, TypeOK, SlotShape, CallShape, Flying, StateShape, Closed
<1>2. CASE Unchanged(o) /\ NextSlot \in Slots
  <2> DEFINE n == [Fresh EXCEPT !.phase = "connecting", !.start = "wait"]
             u == Retired(server[current])
  <2>1. current \in Nat /\ current + 1 \in Slots /\ ~stopping /\ connect[o].previous = current
    BY <1>2, Reserved, Types DEF Unchanged
  <2>2. /\ current' = current + 1 /\ UNCHANGED <<call, stopping>>
        /\ server' = [s \in Slots |-> IF s = current + 1 THEN n
                                      ELSE IF s = current THEN u ELSE server[s]]
    BY <1>2, <2>1, Reserved DEF ConnectReserve
  <2>3. n \in ServerRec /\ n.phase = "connecting" /\ StateShape(n)
    <3>1. /\ 0 \in Gens /\ 0 \in 0..Threshold /\ 0 \in 0..MaxRestarts /\ 0 < Threshold
          /\ 0 <= 0 + 1 /\ 0 <= 0
      BY HubAssumption DEF Gens
    <3>2. Fresh \in ServerRec
      BY <3>1 DEF Fresh, ServerRec
    <3>3. n \in ServerRec /\ n.phase = "connecting" /\ n.start = "wait"
          /\ n.gen = Fresh.gen /\ n.failures = Fresh.failures /\ n.restarts = Fresh.restarts
          /\ n.timer = Fresh.timer /\ n.pipe = Fresh.pipe /\ n.group = Fresh.group
      BY <3>2 DEF ServerRec
    <3>4. n.gen = 0 /\ n.failures = 0 /\ n.restarts = 0 /\ n.timer = FALSE
          /\ n.pipe = "none" /\ n.group = "none"
      <4> HIDE DEF n
      <4> QED BY <3>3 DEF Fresh
    <3> HIDE DEF n
    <3> QED BY <3>1, <3>3, <3>4 DEF StateShape
  <2>4. current # 0 => /\ u \in ServerRec /\ u.phase = "closed" /\ StateShape(u) /\ Closed(u)
                       /\ u.start = server[current].start /\ u.gen = server[current].gen
    <3> SUFFICES ASSUME current # 0
                 PROVE  /\ u \in ServerRec /\ u.phase = "closed" /\ StateShape(u) /\ Closed(u)
                        /\ u.start = server[current].start /\ u.gen = server[current].gen
      OBVIOUS
    <3>1. current \in Slots /\ Closed(server[current]) /\ server[current] # Fresh
      BY <2>1, Types DEF ConnectReserve, CleanedUp, IInv, SlotShape, Fresh, Slots
    <3>2. Evolves(current, u) /\ u.phase = "closed"
      <4>1. PICK k \in Slots, r \in {server[current]} : k = current
        BY <3>1
      <4>2. Evolves(k, r)
        BY <3>1, <4>1, InUse
      <4>3. Evolves(k, Retired(r)) /\ Retired(r).phase = "closed"
        BY <4>2, Pieces
      <4> QED BY <4>1, <4>3
    <3>3. u.pipe = server[current].pipe /\ u.start = server[current].start
          /\ u.gen = server[current].gen
      BY <3>1, Types DEF Retired, ServerRec
    <3> QED BY <3>1, <3>2, <3>3 DEF Evolves, Closed
  <2> HIDE DEF n, u
  <2>5. TypeOK'
    BY <1>0, <2>1, <2>2, <2>3, <2>4, HubAssumption, Types DEF IInv, TypeOK, Slots
  <2>6. SlotShape'
    <3> SUFFICES ASSUME NEW t \in Slots
                 PROVE  /\ StateShape(server'[t])
                        /\ t > current + 1 => server'[t] = Fresh
                        /\ t = current + 1 => server'[t].phase # "none"
                        /\ t < current + 1 => server'[t].phase = "closed" /\ Closed(server'[t])
      BY <2>1, <2>2 DEF SlotShape, StateShape, Closed, Fresh
    <3> QED BY <2>1, <2>2, <2>3, <2>4 DEF IInv, SlotShape, Slots
  <2>7. CallShape'
    <3> SUFFICES ASSUME NEW c \in Calls, Flying(c)
                 PROVE  /\ call[c].slot \in 1..current + 1
                        /\ call[c].gen <= server'[call[c].slot].gen
                        /\ server'[call[c].slot].start \in Starting
                              => call[c].gen < server'[call[c].slot].gen
      BY <2>2 DEF CallShape, Flying
    <3>1. /\ call[c].slot \in 1..current /\ call[c].slot \in Slots
          /\ call[c].gen <= server[call[c].slot].gen
          /\ server[call[c].slot].start \in Starting => call[c].gen < server[call[c].slot].gen
      BY Types DEF IInv, CallShape
    <3>2. /\ server'[call[c].slot].start = server[call[c].slot].start
          /\ server'[call[c].slot].gen = server[call[c].slot].gen
      BY <2>1, <2>2, <2>4, <3>1
    <3> QED BY <2>1, <3>1, <3>2
  <2> QED BY <2>5, <2>6, <2>7 DEF IInv
<1> QED BY <1>1, <1>2 DEF ConnectReserve

\* A call that ends is not under way any more, and the others stay.
LEMMA CallOver ==
    ASSUME IInv, NEW c \in Calls, NEW result \in {"ok", "error"}, Over(c, result)
    PROVE  CallsKept
<1>1. [pc |-> result, slot |-> 0, gen |-> 0] \in CallRec
  BY HubAssumption DEF CallRec, Gens
<1> QED BY <1>1, Types DEF Over, CallsKept, Flying

\* A call under way is on a slot in use.
LEMMA CallSlot ==
    ASSUME IInv, NEW c \in Calls, Flying(c)
    PROVE  /\ call[c].slot \in 1..current /\ call[c].slot \in Slots
           /\ server[call[c].slot] # Fresh /\ Evolves(call[c].slot, server[call[c].slot])
           /\ server[call[c].slot] \in ServerRec
<1>1. call[c].slot \in 1..current /\ call[c].slot \in Slots
  BY Types DEF IInv, CallShape
<1>2. server[call[c].slot].phase # "none"
  BY <1>1, Types DEF IInv, SlotShape, Fresh, Slots
<1>3. server[call[c].slot] # Fresh
  BY <1>2 DEF Fresh
<1> QED BY <1>1, <1>3, InUse, Types

\* What a failed call does to its server is such a step.
LEMMA FailedEvolves ==
    ASSUME IInv, NEW c \in Calls, Flying(c)
    PROVE  Evolves(call[c].slot, Failed(c))
<1>1. PICK s \in Slots, r \in {server[call[c].slot]} : s = call[c].slot
  BY CallSlot
<1>2. Evolves(s, r) /\ r \in ServerRec /\ r.failures < Threshold
  BY <1>1, CallSlot DEF Evolves, StateShape
<1> DEFINE counted == [r EXCEPT !.failures = @ + 1]
<1>3. /\ counted \in ServerRec /\ counted.failures = r.failures + 1
      /\ counted.phase = r.phase /\ counted.restarts = r.restarts
  BY <1>2, HubAssumption DEF ServerRec
<1>4. CASE OwnConnection(c) /\ counted.failures >= Threshold
  <2>1. Tripped(counted) = Tripped(r)
    <3>1. r.phase = "ready" /\ ~stopping
      BY <1>1, <1>4 DEF OwnConnection, IInv, SlotShape
    <3>2. 0 \in 0..Threshold
      BY HubAssumption
    <3>3. [Closing(counted) EXCEPT !.phase = "open", !.cooling = TRUE, !.failures = 0,
                                   !.timer = counted.restarts < MaxRestarts]
            = [Closing(r) EXCEPT !.phase = "open", !.cooling = TRUE, !.failures = 0,
                                 !.timer = r.restarts < MaxRestarts]
      BY <1>2, <1>3, <3>2 DEF Closing, ServerRec
    <3> QED BY <1>3, <3>1, <3>3 DEF Tripped
  <2>2. Evolves(s, Tripped(r))
    BY <1>2, Pieces
  <2> QED BY <1>1, <1>4, <2>1, <2>2 DEF Failed
<1>5. CASE OwnConnection(c) /\ ~(counted.failures >= Threshold)
  <2>1. counted.failures < Threshold
    BY <1>2, <1>3, <1>5, HubAssumption DEF ServerRec
  <2>2. Evolves(s, counted)
    <3>1. /\ counted.pipe = r.pipe /\ counted.group = r.group /\ counted.start = r.start
          /\ counted.gen = r.gen /\ counted.timer = r.timer
      BY <1>2 DEF ServerRec
    <3> HIDE DEF counted
    <3>2. StateShape(counted)
      BY <1>2, <1>3, <2>1, <3>1 DEF Evolves, StateShape
    <3> QED BY <1>2, <1>3, <3>1, <3>2 DEF Evolves, Closed
  <2> QED BY <1>1, <1>5, <2>2 DEF Failed
<1>6. CASE ~OwnConnection(c)
  BY <1>1, <1>2, <1>6 DEF Failed
<1> QED BY <1>4, <1>5, <1>6

\* The actions of calls.
LEMMA CallSteps ==
    ASSUME IInv, NEW c \in Calls, CallSend(c) \/ CallSettle(c) \/ CallReturn(c) \/ CallFail(c)
    PROVE  IInv'
<1>1. ASSUME CallsKept, UNCHANGED <<current, server, connect, stopping>>
      PROVE  IInv'
  BY <1>1 DEF CallsKept, IInv, TypeOK, SlotShape, CallShape, StateShape, Closed, Flying
<1>2. CASE CallSend(c)
  <2>1. current \in 1..current /\ current \in Slots /\ server[current].phase = "ready"
    BY <1>2, Types DEF CallSend, Slots
  <2>2. server[current].start = "none" /\ server[current].gen \in Gens
    BY <2>1, Types DEF IInv, SlotShape, StateShape, ServerRec
  <2> DEFINE x == [pc |-> "sent", slot |-> current, gen |-> server[current].gen]
  <2>3. x \in CallRec /\ x.slot = current /\ x.gen = server[current].gen
    BY <2>2, Types DEF CallRec
  <2>4. call' = [call EXCEPT ![c] = x] /\ UNCHANGED <<current, server, connect, stopping>>
    BY <1>2 DEF CallSend
  <2> HIDE DEF x
  <2>5. TypeOK' /\ SlotShape'
    BY <2>3, <2>4 DEF IInv, TypeOK, SlotShape, StateShape, Closed
  <2>6. CallShape'
    <3> SUFFICES ASSUME NEW d \in Calls, Flying(d)'
                 PROVE  /\ call'[d].slot \in 1..current
                        /\ call'[d].gen <= server[call'[d].slot].gen
                        /\ server[call'[d].slot].start \in Starting
                              => call'[d].gen < server[call'[d].slot].gen
      BY <2>4 DEF CallShape
    <3>1. CASE d = c
      BY <2>1, <2>2, <2>3, <2>4, <3>1, Types, HubAssumption DEF Starting, Gens
    <3>2. CASE d # c
      BY <2>4, <3>2, Types DEF IInv, CallShape, Flying
    <3> QED BY <3>1, <3>2
  <2> QED BY <2>5, <2>6 DEF IInv
<1>3. CASE CallSettle(c)
  <2>1. PICK pc \in {"answered", "failed"} : call' = [call EXCEPT ![c].pc = pc]
    BY <1>3 DEF CallSettle
  <2> DEFINE x == [call[c] EXCEPT !.pc = pc]
  <2>2. x \in CallRec /\ x.slot = call[c].slot /\ x.gen = call[c].gen
    BY Types DEF CallRec
  <2>3. call' = [call EXCEPT ![c] = x] /\ Flying(c)
    BY <1>3, <2>1, Types DEF CallSettle, Flying
  <2> HIDE DEF x
  <2>4. CallsKept
    BY <2>2, <2>3, Types DEF CallsKept, Flying
  <2> QED BY <1>1, <1>3, <2>4 DEF CallSettle
<1>4. ASSUME Flying(c), CallsKept, UNCHANGED <<current, connect, stopping>>,
             \/ UNCHANGED server
             \/ Set(call[c].slot, Failed(c))
             \/ Set(call[c].slot, [server[call[c].slot] EXCEPT !.failures = 0])
      PROVE  IInv'
  <2>1. PICK s \in 1..current, r \in {server[call[c].slot]} :
            /\ s = call[c].slot /\ s \in Slots /\ Evolves(s, r)
    BY <1>4, CallSlot
  <2>2. Evolves(s, Failed(c)) /\ Evolves(s, [r EXCEPT !.failures = 0])
    BY <1>4, <2>1, FailedEvolves, Pieces
  <2>3. CASE UNCHANGED server
    BY <1>1, <1>4, <2>3
  <2>4. CASE Set(s, Failed(c))
    BY <1>4, <2>2, <2>4, SlotStep
  <2>5. CASE Set(s, [r EXCEPT !.failures = 0])
    BY <1>4, <2>2, <2>5, SlotStep
  <2> QED BY <1>4, <2>1, <2>3, <2>4, <2>5
<1>5. CASE CallReturn(c)
  <2>1. Flying(c) /\ CallsKept
    BY <1>5, CallOver DEF CallReturn, Flying
  <2> QED BY <1>4, <1>5, <2>1 DEF CallReturn
<1>6. CASE CallFail(c)
  <2>1. Flying(c) /\ CallsKept
    BY <1>6, CallOver DEF CallFail, Flying
  <2> QED BY <1>4, <1>6, <2>1 DEF CallFail
<1> QED BY <1>2, <1>3, <1>5, <1>6

\* The current server is ended, by disconnect or by shutdown.
LEMMA EndSteps ==
    ASSUME IInv, Disconnect \/ Shutdown
    PROVE  IInv'
<1>1. CASE current = 0
  <2>1. stopping' = TRUE /\ UNCHANGED <<current, server, connect, call>>
    BY <1>1 DEF Disconnect, Shutdown
  <2>2. \A s \in Slots : server[s].phase = "none"
    BY <1>1 DEF IInv, SlotShape, Slots, Fresh
  <2> QED
    BY <1>1, <2>1, <2>2 DEF IInv, TypeOK, SlotShape, CallShape, Flying, StateShape, Closed
<1>2. CASE current # 0
  <2>1. PICK s \in Slots, r \in {server[current]} : s = current
    BY <1>2, Types DEF Slots
  <2>2. server[s] # Fresh
    BY <2>1 DEF IInv, SlotShape, Fresh
  <2>3. s \in 1..current /\ Evolves(s, r)
    BY <2>1, <2>2, InUse
  <2>4. Evolves(s, Retired(r)) /\ Retired(r).phase = "closed"
    BY <2>3, Pieces
  <2>5. Evolves(s, Ended(r))
    BY <2>4, Pieces DEF Ended
  <2>6. Ended(r).phase = "closed"
    BY <2>4 DEF Ended, Closing, Evolves, ServerRec
  <2>7. Set(s, Ended(r)) /\ (stopping' = stopping \/ stopping' = TRUE)
        /\ UNCHANGED <<current, connect, call>>
    BY <1>2, <2>1 DEF Disconnect, Shutdown
  <2>8. CallsKept
    BY <2>7, Types DEF CallsKept, Flying
  <2> QED BY <2>1, <2>3, <2>5, <2>6, <2>7, <2>8, SlotStep
<1> QED BY <1>1, <1>2

----------------------------------------------------------------------------
(* The theorems.                                                           *)

LEMMA InitIInv == Init => IInv
<1> SUFFICES ASSUME Init PROVE IInv
  OBVIOUS
<1>1. /\ 0 \in Gens /\ 0 \in 0..Threshold /\ 0 \in 0..MaxRestarts /\ 0 \in 0..MaxSlots
      /\ 0 < Threshold
  BY HubAssumption DEF Gens
<1>2. Fresh \in ServerRec /\ StateShape(Fresh) /\ Fresh.phase = "none"
  BY <1>1 DEF Fresh, ServerRec, StateShape
<1>3. TypeOK
  BY <1>1, <1>2 DEF Init, TypeOK, ConnectRec, CallRec
<1>4. SlotShape
  BY <1>2 DEF Init, SlotShape, Slots
<1>5. CallShape
  BY DEF Init, CallShape, Flying
<1> QED BY <1>3, <1>4, <1>5 DEF IInv

LEMMA NextIInv == IInv /\ [Next]_vars => IInv'
<1> SUFFICES ASSUME IInv, [Next]_vars PROVE IInv'
  OBVIOUS
<1>1. ASSUME NEW o \in Connects, ConnectBegin(o)
      PROVE  IInv'
  <2>1. connect' \in [Connects -> ConnectRec]
    <3>1. [pc |-> "wait", previous |-> current] \in ConnectRec
      BY Types DEF ConnectRec
    <3> QED BY <1>1, <3>1, Types DEF ConnectBegin
  <2> QED
    BY <1>1, <2>1
    DEF ConnectBegin, IInv, TypeOK, SlotShape, CallShape, Flying, StateShape, Closed
<1>2. ASSUME NEW o \in Connects, ConnectReserve(o)
      PROVE  IInv'
  BY <1>2, ReserveStep
<1>3. ASSUME NEW s \in Slots, SlotAction(s)
      PROVE  IInv'
  <2>1. /\ s \in 1..current /\ UNCHANGED <<current, connect, call, stopping>>
        /\ \E x : Evolves(s, x) /\ Set(s, x)
    BY <1>3, SlotActions
  <2>2. PICK x : Evolves(s, x) /\ Set(s, x)
    BY <2>1
  <2>3. CallsKept
    BY <2>1, Types DEF CallsKept, Flying
  <2> QED BY <2>1, <2>2, <2>3, SlotStep
<1>4. ASSUME NEW c \in Calls, CallSend(c) \/ CallSettle(c) \/ CallReturn(c) \/ CallFail(c)
      PROVE  IInv'
  BY <1>4, CallSteps
<1>5. CASE Disconnect \/ Shutdown
  BY <1>5, EndSteps
<1>6. CASE UNCHANGED vars
  BY <1>6 DEF vars, IInv, TypeOK, SlotShape, CallShape, Flying, StateShape, Closed
<1> QED BY <1>1, <1>2, <1>3, <1>4, <1>5, <1>6 DEF Next, SlotAction

\* The invariant of the hub.
THEOREM Invariance == Spec => []IInv
BY InitIInv, NextIInv, PTL DEF Spec

\* The records of the hub keep their types, and its counters their limits.
THEOREM TypeCorrect == Spec => []TypeOK
<1>1. IInv => TypeOK
  BY DEF IInv
<1> QED BY <1>1, Invariance, PTL

\* Whatever connects, restarts, signals and exits do, while one process group of
\* the server exists no other connection of its name is open.
THEOREM OneProcessHolds == Spec => []OneProcess
<1>1. IInv => OneProcess
  <2> SUFFICES ASSUME IInv, NEW s \in Slots, NEW t \in Slots,
                      server[s].pipe = "open", server[t].group \in {"whole", "orphans"}
               PROVE  s = t
    BY DEF OneProcess
  <2>1. ~Closed(server[s]) /\ s <= current
    BY Types, HubAssumption DEF Closed, IInv, SlotShape, Fresh, Slots
  <2>2. ~Closed(server[t]) /\ t <= current
    BY Types, HubAssumption DEF Closed, IInv, SlotShape, StateShape, Fresh, Slots
  <2> QED BY <2>1, <2>2, Types DEF IInv, SlotShape, Slots
<1> QED BY <1>1, Invariance, PTL

\* When shutdown returns, no process of any server the name ever had is left.
THEOREM NothingIsLeft == Spec => []NothingLeft
<1>1. IInv => NothingLeft
  <2> SUFFICES ASSUME IInv, ShutdownOver, NEW s \in Slots
               PROVE  server[s].group \in {"none", "dead"}
    BY DEF NothingLeft
  <2>1. Closed(server[s])
    BY Types DEF ShutdownOver, IInv, SlotShape, Closed, Fresh, Slots
  <2> QED BY <2>1 DEF IInv, SlotShape, StateShape, Closed
<1> QED BY <1>1, Invariance, PTL

----------------------------------------------------------------------------
(* The hub implements McpConnection.                                       *)

Status == [c \in Calls |-> CallStatus(c)]

\* A call can still succeed only on the connection that is offered.
LEMMA OwnIsOffered ==
    ASSUME IInv, NEW c \in Calls, Flying(c)
    PROVE  OwnConnection(c) => call[c].slot = current /\ Offered
<1> SUFFICES ASSUME OwnConnection(c) PROVE call[c].slot = current /\ Offered
  OBVIOUS
<1>1. call[c].slot \in 1..current /\ call[c].slot \in Slots
  BY CallSlot
<1>2. server[call[c].slot].phase = "ready"
  BY DEF OwnConnection
<1>3. ~(call[c].slot < current)
  BY <1>1, <1>2 DEF IInv, SlotShape
<1>4. call[c].slot = current
  BY <1>1, <1>3, Types
<1> QED BY <1>1, <1>2, <1>4 DEF Offered, Slots

\* A step that changes one server makes the tools come up or go down, with what
\* was sent, or shows nothing.
LEMMA SlotRefines ==
    ASSUME IInv, IInv', NEW s \in 1..current, NEW x, Evolves(s, x), Set(s, x),
           UNCHANGED <<current, call>>, stopping' = stopping \/ stopping' = TRUE
    PROVE  Connection!ConnectionNext \/ UNCHANGED <<Offered, Status, stopping>>
<1>1. s \in Slots /\ server \in [Slots -> ServerRec] /\ current # 0 /\ current \in Slots
  BY Types
<1>2. server'[s] = x /\ \A t \in Slots : t # s => server'[t] = server[t]
  BY <1>1 DEF Set
<1>3. /\ x.gen = server[s].gen \/ x.phase # "ready"
      /\ x.phase = "ready" => server[s].phase = "ready" \/ (server[s].start = "listed" /\ ~stopping)
  BY DEF Evolves
<1>4. s # current => server[s].phase = "closed" /\ x.phase = "closed"
  BY <1>1, Types DEF IInv, SlotShape, Evolves, Slots
<1>5. stopping' => server'[current].phase # "ready"
  BY <1>1, Types DEF IInv, SlotShape, Slots
<1>6. \A c \in Calls : Flying(c) =>
         /\ call[c].slot \in Slots
         /\ OwnConnection(c) => call[c].slot = current /\ Offered
         /\ server[call[c].slot].start \in Starting => call[c].gen # server[call[c].slot].gen
  <2> SUFFICES ASSUME NEW c \in Calls, Flying(c)
               PROVE  /\ call[c].slot \in Slots
                      /\ OwnConnection(c) => call[c].slot = current /\ Offered
                      /\ server[call[c].slot].start \in Starting
                            => call[c].gen # server[call[c].slot].gen
    OBVIOUS
  <2>1. call[c].slot \in Slots /\ server[call[c].slot].gen \in Int /\ call[c].gen \in Int
    BY CallSlot, Types DEF ServerRec, CallRec, Gens
  <2> QED BY <2>1, OwnIsOffered DEF IInv, CallShape
<1>7. Offered' <=> server'[current].phase = "ready"
  BY <1>1 DEF Offered
<1>8. \A c \in Calls :
         CallStatus(c)' = IF Flying(c)
                          THEN IF server'[call[c].slot].gen = call[c].gen
                                  /\ server'[call[c].slot].phase = "ready"
                               THEN "sent" ELSE "orphan"
                          ELSE call[c].pc
  BY DEF CallStatus, OwnConnection, Flying
<1>9. \A c \in Calls :
         CallStatus(c) = IF Flying(c) THEN IF OwnConnection(c) THEN "sent" ELSE "orphan"
                         ELSE call[c].pc
  BY DEF CallStatus, Flying
<1>10. CASE Offered /\ ~Offered'
  <2>1. \A c \in Calls : CallStatus(c)' = IF CallStatus(c) = "sent" THEN "orphan" ELSE CallStatus(c)
    <3> SUFFICES ASSUME NEW c \in Calls
                 PROVE  CallStatus(c)' = IF CallStatus(c) = "sent" THEN "orphan" ELSE CallStatus(c)
      OBVIOUS
    <3>1. Flying(c) => ~(server'[call[c].slot].gen = call[c].gen
                          /\ server'[call[c].slot].phase = "ready")
      BY <1>2, <1>3, <1>4, <1>6, <1>7, <1>10 DEF OwnConnection
    <3>2. ~Flying(c) => call[c].pc # "sent"
      BY DEF Flying
    <3> QED BY <1>8, <1>9, <3>1, <3>2
  <2>2. Status' = [c \in Calls |-> IF Status[c] = "sent" THEN "orphan" ELSE Status[c]]
    BY <2>1 DEF Status
  <2>3. Connection!GoesDown
    <3>1. Offered' = FALSE /\ stopping' \in {stopping, TRUE}
      BY <1>10 DEF Offered
    <3>2. Status' = Connection!Orphaned
      BY <2>2 DEF Connection!Orphaned, Status
    <3> QED BY <1>10, <3>1, <3>2, Zenon DEF Connection!GoesDown, Status
  <2> QED BY <2>3 DEF Connection!ConnectionNext
<1>11. CASE Offered' <=> Offered
  <2>1. \A c \in Calls : CallStatus(c)' = CallStatus(c)
    <3> SUFFICES ASSUME NEW c \in Calls PROVE CallStatus(c)' = CallStatus(c)
      OBVIOUS
    <3>1. Flying(c) => ((server'[call[c].slot].gen = call[c].gen
                          /\ server'[call[c].slot].phase = "ready") <=> OwnConnection(c))
      BY <1>1, <1>2, <1>3, <1>4, <1>6, <1>7, <1>11 DEF OwnConnection, Offered
    <3> QED BY <1>8, <1>9, <3>1
  <2>2. UNCHANGED Status
    BY <2>1 DEF Status
  <2>3. CASE stopping' = stopping
    BY <1>11, <2>2, <2>3 DEF Offered
  <2>4. CASE stopping' = TRUE
    <3>1. Connection!Retire
      BY <1>11, <2>2, <2>4 DEF Connection!Retire, Status, Offered
    <3> QED BY <3>1 DEF Connection!ConnectionNext
  <2> QED BY <2>3, <2>4
<1>12. CASE ~Offered /\ Offered'
  <2>1. s = current /\ server[s].start = "listed" /\ ~stopping /\ ~stopping'
    BY <1>1, <1>2, <1>3, <1>4, <1>5, <1>7, <1>12 DEF Offered
  <2>2. \A c \in Calls : CallStatus(c)' = CallStatus(c)
    <3> SUFFICES ASSUME NEW c \in Calls PROVE CallStatus(c)' = CallStatus(c)
      OBVIOUS
    <3>1. Flying(c) => ~OwnConnection(c)
      BY <1>6, <1>12
    <3>2. Flying(c) => ~(server'[call[c].slot].gen = call[c].gen
                          /\ server'[call[c].slot].phase = "ready")
      BY <1>2, <1>3, <1>6, <2>1, <3>1 DEF OwnConnection, Starting
    <3> QED BY <1>8, <1>9, <3>1, <3>2
  <2>3. Connection!ComesUp
    BY <1>12, <2>1, <2>2, Types DEF Connection!ComesUp, Status
  <2> QED BY <2>3 DEF Connection!ConnectionNext
<1> QED BY <1>10, <1>11, <1>12

\* A new server is not up yet, and the one it replaces was not.
LEMMA ReserveRefines ==
    ASSUME IInv, IInv', NEW o \in Connects, ConnectReserve(o)
    PROVE  UNCHANGED <<Offered, Status, stopping>>
<1>1. CASE UNCHANGED <<current, server>>
  BY <1>1 DEF ConnectReserve, Offered, Status, CallStatus, OwnConnection
<1>2. CASE Unchanged(o) /\ NextSlot \in Slots
  <2>1. /\ current' = current + 1 /\ UNCHANGED <<call, stopping>>
        /\ current \in Nat /\ current + 1 \in Slots
    BY <1>2, Reserved, Types DEF ConnectReserve
  <2>2. ~Offered
    BY <1>2 DEF Unchanged, Offered
  <2>3. server'[current + 1].phase = "connecting"
    <3>1. server'[current + 1] = [Fresh EXCEPT !.phase = "connecting", !.start = "wait"]
      BY <1>2, <2>1, Reserved DEF ConnectReserve
    <3> QED BY <3>1 DEF Fresh
  <2>4. ~Offered'
    BY <2>1, <2>3 DEF Offered
  <2>5. \A c \in Calls : CallStatus(c)' = CallStatus(c)
    <3> SUFFICES ASSUME NEW c \in Calls, Flying(c)
                 PROVE  ~OwnConnection(c) /\ ~OwnConnection(c)'
      BY <2>1 DEF CallStatus, Flying
    <3>1. ~OwnConnection(c)
      BY <2>2, OwnIsOffered
    <3>2. call[c].slot \in Slots /\ call[c].slot < current + 1
      BY <2>1, CallSlot DEF Slots
    <3>3. server'[call[c].slot].phase = "closed"
      BY <2>1, <3>2 DEF IInv, SlotShape
    <3> QED BY <2>1, <3>1, <3>3 DEF OwnConnection
  <2> QED BY <2>1, <2>2, <2>4, <2>5 DEF Status, Offered
<1> QED BY <1>1, <1>2 DEF ConnectReserve

\* Calls are sent and end as McpConnection says; one that fails may be the one
\* that takes the connection down.
LEMMA CallRefines ==
    ASSUME IInv, IInv', NEW c \in Calls,
           CallSend(c) \/ CallSettle(c) \/ CallReturn(c) \/ CallFail(c)
    PROVE  Connection!ConnectionNext \/ UNCHANGED <<Offered, Status, stopping>>
<1>0. call \in [Calls -> CallRec] /\ server \in [Slots -> ServerRec]
  BY Types
<1>1. CASE CallSend(c)
  <2>1. Offered /\ UNCHANGED <<Offered, stopping>> /\ CallStatus(c) = "idle"
    BY <1>1 DEF CallSend, Offered, CallStatus
  <2>2. CallStatus(c)' = "sent"
    BY <1>0, <1>1 DEF CallSend, CallStatus, OwnConnection
  <2>3. \A d \in Calls : d # c => CallStatus(d)' = CallStatus(d)
    BY <1>0, <1>1 DEF CallSend, CallStatus, OwnConnection
  <2>4. Status' = [Status EXCEPT ![c] = "sent"]
    BY <2>2, <2>3 DEF Status
  <2>5. Connection!Send(c)
    BY <2>1, <2>4 DEF Connection!Send, Status
  <2> QED BY <2>5 DEF Connection!ConnectionNext
<1>2. CASE CallSettle(c)
  <2>1. PICK pc \in {"answered", "failed"} : call' = [call EXCEPT ![c].pc = pc]
    BY <1>2 DEF CallSettle
  <2>2. UNCHANGED <<current, server, stopping>> /\ call[c].pc = "sent"
    BY <1>2 DEF CallSettle
  <2>3. /\ call'[c].pc = pc /\ call'[c].slot = call[c].slot /\ call'[c].gen = call[c].gen
        /\ \A d \in Calls : d # c => call'[d] = call[d]
    BY <1>0, <2>1 DEF CallRec
  <2>4. \A d \in Calls : CallStatus(d)' = CallStatus(d)
    BY <2>2, <2>3 DEF CallStatus, OwnConnection
  <2> QED BY <2>2, <2>4 DEF Status, Offered
<1>3. ASSUME Flying(c), NEW result \in {"ok", "error"}, Over(c, result),
             UNCHANGED <<current, stopping>>
      PROVE  /\ CallStatus(c) = IF OwnConnection(c) THEN "sent" ELSE "orphan"
             /\ CallStatus(c)' = result
             /\ \A d \in Calls : d # c => call'[d] = call[d]
  BY <1>0, <1>3 DEF CallStatus, Over, Flying
<1>4. ASSUME Flying(c), NEW result \in {"ok", "error"}, Over(c, result),
             UNCHANGED <<current, stopping>>,
             NEW s \in Slots, s = call[c].slot, NEW x, UNCHANGED server \/ Set(s, x),
             x.phase = server[s].phase /\ x.gen = server[s].gen
      PROVE  UNCHANGED Offered /\ Status' = [Status EXCEPT ![c] = result]
  <2>1. \A t \in Slots : server'[t].phase = server[t].phase /\ server'[t].gen = server[t].gen
    BY <1>0, <1>4 DEF Set
  <2>2. UNCHANGED Offered
    BY <1>4, <2>1, Types DEF Offered, Slots
  <2>3. \A d \in Calls : d # c => CallStatus(d)' = CallStatus(d)
    <3> SUFFICES ASSUME NEW d \in Calls, d # c PROVE CallStatus(d)' = CallStatus(d)
      OBVIOUS
    <3>1. call'[d] = call[d]
      BY <1>3, <1>4
    <3>2. CASE Flying(d)
      BY <2>1, <3>1, <3>2, CallSlot DEF CallStatus, OwnConnection
    <3>3. CASE ~Flying(d)
      BY <3>1, <3>3 DEF CallStatus, Flying
    <3> QED BY <3>2, <3>3
  <2>4. CallStatus(c)' = result
    BY <1>3, <1>4
  <2> QED BY <2>2, <2>3, <2>4 DEF Status
<1>5. ASSUME Flying(c), Over(c, "error"), UNCHANGED <<current, stopping>>,
             UNCHANGED server \/ Set(call[c].slot, Failed(c))
      PROVE  Connection!Fail(c)
  <2>1. PICK s \in Slots, x \in {Failed(c)} : s = call[c].slot /\ Evolves(s, x)
    BY <1>5, CallSlot, FailedEvolves
  <2>2. Status[c] \in {"sent", "orphan"}
    BY <1>3, <1>5 DEF Status
  <2>3. CASE UNCHANGED server \/ (x.phase = server[s].phase /\ x.gen = server[s].gen)
    <3>1. PICK y : (UNCHANGED server \/ Set(s, y)) /\ y.phase = server[s].phase /\ y.gen = server[s].gen
      BY <1>5, <2>1, <2>3
    <3>2. UNCHANGED Offered /\ Status' = [Status EXCEPT ![c] = "error"]
      BY <1>4, <1>5, <2>1, <3>1
    <3> QED BY <1>5, <2>2, <3>2 DEF Connection!Fail, Status
  <2>4. CASE Set(s, x) /\ ~(x.phase = server[s].phase /\ x.gen = server[s].gen)
    <3>1. OwnConnection(c)
      BY <2>1, <2>4 DEF Failed
    <3>2. s = current /\ Offered /\ server[s].phase = "ready"
      BY <1>5, <2>1, <3>1, OwnIsOffered DEF Offered
    <3>3. x.phase # "ready"
      BY <2>1, <2>4, <3>2 DEF Evolves
    <3>4. server'[s] = x /\ \A t \in Slots : t # s => server'[t] = server[t]
      BY <1>0, <2>4 DEF Set
    <3>5. Offered' = FALSE
      BY <1>5, <3>2, <3>3, <3>4 DEF Offered
    <3>6. \A d \in Calls : d # c =>
             CallStatus(d)' = IF CallStatus(d) = "sent" THEN "orphan" ELSE CallStatus(d)
      <4> SUFFICES ASSUME NEW d \in Calls, d # c
                   PROVE  CallStatus(d)' = IF CallStatus(d) = "sent" THEN "orphan" ELSE CallStatus(d)
        OBVIOUS
      <4>1. call'[d] = call[d]
        BY <1>3, <1>5
      <4>2. CASE Flying(d)
        <5>1. OwnConnection(d) => call[d].slot = s
          BY <3>2, <4>2, OwnIsOffered
        <5>2. ~OwnConnection(d)'
          BY <3>3, <3>4, <4>1, <4>2, <5>1, CallSlot DEF OwnConnection
        <5> QED BY <4>1, <4>2, <5>2 DEF CallStatus, Flying
      <4>3. CASE ~Flying(d)
        BY <4>1, <4>3 DEF CallStatus, Flying
      <4> QED BY <4>2, <4>3
    <3>7. CallStatus(c)' = "error"
      BY <1>3, <1>5
    <3>8. Status' = [Connection!Orphaned EXCEPT ![c] = "error"]
      BY <3>6, <3>7 DEF Status, Connection!Orphaned
    <3> QED BY <1>5, <2>2, <3>2, <3>5, <3>8, Zenon DEF Connection!Fail, Status
  <2> QED BY <1>5, <2>1, <2>3, <2>4
<1>6. CASE CallReturn(c)
  <2>1. Flying(c) /\ UNCHANGED <<current, stopping>>
    BY <1>6 DEF CallReturn, Flying
  <2>2. CASE OwnConnection(c)
    <3>1. PICK s \in Slots, r \in {server[call[c].slot]} : s = call[c].slot /\ r \in ServerRec
      BY <1>0, <2>1, CallSlot
    <3> DEFINE x == [r EXCEPT !.failures = 0]
    <3>2. x.phase = server[s].phase /\ x.gen = server[s].gen
      BY <3>1 DEF ServerRec
    <3>3. Over(c, "ok") /\ Set(s, x)
      BY <1>6, <2>2, <3>1 DEF CallReturn
    <3> HIDE DEF x
    <3>4. UNCHANGED Offered /\ Status' = [Status EXCEPT ![c] = "ok"]
      BY <1>4, <2>1, <3>1, <3>2, <3>3
    <3>5. Status[c] = "sent"
      BY <1>3, <2>1, <2>2, <3>3 DEF Status
    <3>6. Connection!Succeed(c)
      BY <2>1, <3>4, <3>5 DEF Connection!Succeed, Status
    <3> QED BY <3>6 DEF Connection!ConnectionNext
  <2>3. CASE ~OwnConnection(c)
    BY <1>5, <1>6, <2>1, <2>3 DEF CallReturn, Connection!ConnectionNext
  <2> QED BY <2>2, <2>3
<1>7. CASE CallFail(c)
  <2>1. Flying(c) /\ UNCHANGED <<current, stopping>>
    BY <1>7 DEF CallFail, Flying
  <2> QED BY <1>5, <1>7, <2>1 DEF CallFail, Connection!ConnectionNext
<1> QED BY <1>1, <1>2, <1>6, <1>7

\* disconnect and shutdown take the tools away, and what was sent with them.
LEMMA EndRefines ==
    ASSUME IInv, IInv', Disconnect \/ Shutdown
    PROVE  Connection!ConnectionNext \/ UNCHANGED <<Offered, Status, stopping>>
<1>1. CASE current = 0
  <2>1. stopping' = TRUE /\ UNCHANGED <<current, server, call>>
    BY <1>1 DEF Disconnect, Shutdown
  <2>2. Connection!Retire
    BY <2>1 DEF Connection!Retire, Offered, CallStatus, OwnConnection
  <2> QED BY <2>2 DEF Connection!ConnectionNext
<1>2. CASE current # 0
  <2>1. PICK s \in Slots, r \in {server[current]} : s = current
    BY <1>2, Types DEF Slots
  <2>2. server[s] # Fresh
    BY <2>1 DEF IInv, SlotShape, Fresh
  <2>3. s \in 1..current /\ Evolves(s, r)
    BY <2>1, <2>2, InUse
  <2>4. Evolves(s, Ended(r))
    BY <2>3, Pieces DEF Ended
  <2>5. /\ Set(s, Ended(r)) /\ UNCHANGED <<current, call>>
        /\ stopping' = stopping \/ stopping' = TRUE
    BY <1>2, <2>1 DEF Disconnect, Shutdown
  <2> QED BY <2>3, <2>4, <2>5, SlotRefines
<1> QED BY <1>1, <1>2

\* Every step of the hub is a step of McpConnection, or shows nothing.
LEMMA NextRefines ==
    ASSUME IInv, IInv', [Next]_vars
    PROVE  Connection!ConnectionNext \/ UNCHANGED <<Offered, Status, stopping>>
<1>1. ASSUME NEW o \in Connects, ConnectBegin(o) \/ ConnectReserve(o)
      PROVE  UNCHANGED <<Offered, Status, stopping>>
  <2>1. CASE ConnectBegin(o)
    BY <2>1 DEF ConnectBegin, Offered, Status, CallStatus, OwnConnection
  <2> QED BY <1>1, <2>1, ReserveRefines
<1>2. ASSUME NEW s \in Slots, SlotAction(s)
      PROVE  Connection!ConnectionNext \/ UNCHANGED <<Offered, Status, stopping>>
  <2>1. /\ s \in 1..current /\ UNCHANGED <<current, connect, call, stopping>>
        /\ \E x : Evolves(s, x) /\ Set(s, x)
    BY <1>2, SlotActions
  <2>2. PICK x : Evolves(s, x) /\ Set(s, x)
    BY <2>1
  <2> QED BY <2>1, <2>2, SlotRefines
<1>3. ASSUME NEW c \in Calls, CallSend(c) \/ CallSettle(c) \/ CallReturn(c) \/ CallFail(c)
      PROVE  Connection!ConnectionNext \/ UNCHANGED <<Offered, Status, stopping>>
  BY <1>3, CallRefines
<1>4. CASE Disconnect \/ Shutdown
  BY <1>4, EndRefines
<1>5. CASE UNCHANGED vars
  BY <1>5 DEF vars, Offered, Status, CallStatus, OwnConnection
<1> QED BY <1>1, <1>2, <1>3, <1>4, <1>5 DEF Next, SlotAction

\* Tools are offered exactly while the current connection is up; a call succeeds
\* only on the connection it was sent on, and nothing comes up after a shutdown.
THEOREM HubImplementsConnection == Spec => ImplementsConnection
<1>1. Init => Connection!ConnectionInit
  BY DEF Init, Connection!ConnectionInit, Offered, CallStatus
<1>2. IInv /\ IInv' /\ [Next]_vars => [Connection!ConnectionNext]_(Connection!cvars)
  BY NextRefines DEF Connection!cvars, Status
<1> QED
  BY <1>1, <1>2, Invariance, PTL DEF Spec, ImplementsConnection, Connection!ConnectionSpec

=============================================================================
