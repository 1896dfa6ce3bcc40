------------------------------ MODULE MCMcpHub ------------------------------
EXTENDS McpHub, McpSettings

-----------------------------------------------------------------------------
(* Whatever the configuration asks for, a server has all limits, inside      *)
(* their bounds, and the ones the configuration does not name are the        *)
(* defaults, which are inside as well.                                       *)
Asked(keys) == [keys -> {0, 1, 127, 128, 600, 1073741824}]
ASSUME LimitsAreBounded ==
  /\ resolveMcpLimits([key \in {} |-> 0]) = DEFAULT_MCP_LIMITS
  /\ \A a, b \in Keys : \A raw \in Asked({a, b}) :
       LET limits == resolveMcpLimits(raw)
       IN  limits # Refusal =>
             /\ \A key \in Keys : limits[key] \in 0 .. Ceiling[key]
             /\ \A key \in Keys \ {"maxRestarts"} : limits[key] > 0
             /\ limits.maxToolOutputBytes >= 128
             /\ \A key \in Keys \ {a, b} : limits[key] = DEFAULT_MCP_LIMITS[key]

(* The hub's own constants are limits a configuration may ask for.           *)
ASSUME HubIsConfigurable ==
  resolveMcpLimits([failureThreshold |-> Threshold, maxRestarts |-> MaxRestarts,
                    maxConcurrentRequests |-> MaxInFlight]) # Refusal

(* A file is taken as a whole: one server that is refused refuses the others.*)
Server(flag, limit) ==
  [command |-> "c", auto_connect |-> flag, limits |-> [maxTools |-> limit]]
ASSUME OneRefusalRefusesAll ==
  \A f, g \in {"true", "false", "yes"}, m, n \in {0, 1, 513} :
    LET loaded == loadMcpConfig(<<Server(f, m), Server(g, n)>>)
    IN  IF "yes" \in {f, g} \/ {m, n} # {1} THEN loaded = Refusal
        ELSE loaded.servers[1].autoConnect = (f = "true") /\
             loaded.servers[2].autoConnect = (g = "true")

-----------------------------------------------------------------------------
(* JSON values with their depth and their tokens, counted on the value: a    *)
(* literal, a string with any characters in it, a list of up to two values.  *)

Inside == {<<>>, <<"open">>, <<"backslash", "quote">>, <<"backslash", "backslash">>,
           <<"close", "separator">>}
Atoms == {[text |-> <<"other">>, depth |-> 0, tokens |-> 0]} \union
         {[text |-> <<"quote">> \o s \o <<"quote">>, depth |-> 0, tokens |-> 1] : s \in Inside}
Lists(values) ==
  {[text |-> <<"open">> \o v.text \o <<"close">>, depth |-> v.depth + 1,
    tokens |-> v.tokens + 1] : v \in values} \union
  {[text |-> <<"open">> \o v.text \o <<"separator">> \o w.text \o <<"close">>,
    depth |-> (IF v.depth > w.depth THEN v.depth ELSE w.depth) + 1,
    tokens |-> v.tokens + w.tokens + 2] : v, w \in values}

(* The measure of the characters is the measure of the value: quoted         *)
(* delimiters and escaped quotes do not count.                               *)
ASSUME MeasureIsOfTheValue ==
  \A v \in Atoms \union Lists(Atoms \union Lists(Atoms)) :
    /\ checkJsonComplexity(v.text, v.depth, v.tokens)
    /\ v.depth > 0 => ~checkJsonComplexity(v.text, v.depth - 1, v.tokens)
    /\ v.tokens > 0 => ~checkJsonComplexity(v.text, v.depth, v.tokens - 1)

(* Whatever a server answers, what is sent on is within the limit, marker    *)
(* and quoting included; what is cut says so, and what fits is sent whole.   *)
Blocks == [n : {0, 1, 15, 16, 32, 63, 64, 200}, width : 1 .. 4]
ASSUME ResultsFit ==
  \A a, b \in Blocks, isError \in BOOLEAN, cap \in {128, 129, 300, 1000} :
    LET sent == formatCallResult(<<a, b>>, isError, cap)
    IN  /\ sent.bytes <= cap
        /\ ~sent.truncated => sent.parts = SelectSeq(<<a, b>>, LAMBDA t : t.n > 0)
        /\ Bytes(a) + Bytes(b) + 2 < Room(isError, cap) => ~sent.truncated
=============================================================================
