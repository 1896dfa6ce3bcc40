---------------------------- MODULE McpConnection ----------------------------
(***************************************************************************)
(* What the hub promises the users of one MCP server, without processes,   *)
(* circuits, timers or generations: tools are offered while a connection   *)
(* is up, a call succeeds only if the connection it was sent on has been   *)
(* up ever since, and nothing comes up after the hub has been shut down.   *)
(* McpHub implements this (McpHub!Connection).                             *)
(***************************************************************************)
CONSTANT Calls

VARIABLES
    up,      \* whether the server's tools are offered
    status,  \* of each call: "idle", "sent", "orphan", "ok", "error"
    retired  \* the hub was shut down

cvars == <<up, status, retired>>

ConnectionInit ==
    /\ up = FALSE /\ retired = FALSE
    /\ status = [c \in Calls |-> "idle"]

ComesUp ==
    /\ ~up /\ ~retired
    /\ up' = TRUE
    /\ UNCHANGED <<status, retired>>

\* Whatever was sent on the connection can no longer succeed.
Orphaned == [c \in Calls |-> IF status[c] = "sent" THEN "orphan" ELSE status[c]]

GoesDown ==
    /\ up
    /\ up' = FALSE /\ status' = Orphaned
    /\ retired' \in {retired, TRUE}

Retire ==
    /\ retired' = TRUE
    /\ UNCHANGED <<up, status>>

Send(c) ==
    /\ up /\ status[c] = "idle"
    /\ status' = [status EXCEPT ![c] = "sent"]
    /\ UNCHANGED <<up, retired>>

Succeed(c) ==
    /\ status[c] = "sent"
    /\ status' = [status EXCEPT ![c] = "ok"]
    /\ UNCHANGED <<up, retired>>

\* A failing call may be the one that takes the connection down.
Fail(c) ==
    /\ status[c] \in {"sent", "orphan"}
    /\ \/ status' = [status EXCEPT ![c] = "error"] /\ UNCHANGED <<up, retired>>
       \/ /\ up /\ up' = FALSE
          /\ status' = [Orphaned EXCEPT ![c] = "error"]
          /\ UNCHANGED retired

ConnectionNext ==
    \/ ComesUp \/ GoesDown \/ Retire
    \/ \E c \in Calls : Send(c) \/ Succeed(c) \/ Fail(c)

ConnectionSpec == ConnectionInit /\ [][ConnectionNext]_cvars
=============================================================================
