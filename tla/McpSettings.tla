---------------------------- MODULE McpSettings ----------------------------
(***************************************************************************)
(* The limits of an MCP server and what is measured against them:          *)
(* src/mcp/limits.ts, src/mcp/config.ts and formatCallResult of            *)
(* src/mcp/hub.ts.  The supervision of the server is McpHub's.             *)
(***************************************************************************)
EXTENDS Integers, SequencesExt

Refusal == [refused |-> TRUE]

DEFAULT_MCP_LIMITS ==
  [startupTimeoutMs |-> 30000, requestTimeoutMs |-> 60000, shutdownGraceMs |-> 500,
   failureThreshold |-> 3, cooldownMs |-> 30000, maxRestarts |-> 2,
   maxConcurrentRequests |-> 4, maxFrameBytes |-> 1048576, maxJsonDepth |-> 64,
   maxJsonTokens |-> 50000, maxMessagesPerSecond |-> 200,
   maxStdoutBytesPerSecond |-> 4194304, maxStderrBytesPerSecond |-> 4194304,
   maxProtocolErrors |-> 3, stderrTailBytes |-> 16384, maxToolOutputBytes |-> 65536,
   maxTools |-> 128, maxToolMetadataBytes |-> 262144]

Keys == DOMAIN DEFAULT_MCP_LIMITS

Ceiling ==
  [startupTimeoutMs |-> 120000, requestTimeoutMs |-> 300000, shutdownGraceMs |-> 2000,
   failureThreshold |-> 10, cooldownMs |-> 3600000, maxRestarts |-> 10,
   maxConcurrentRequests |-> 32, maxFrameBytes |-> 10485760, maxJsonDepth |-> 128,
   maxJsonTokens |-> 100000, maxMessagesPerSecond |-> 10000,
   maxStdoutBytesPerSecond |-> 67108864, maxStderrBytesPerSecond |-> 67108864,
   maxProtocolErrors |-> 100, stderrTailBytes |-> 262144, maxToolOutputBytes |-> 1048576,
   maxTools |-> 512, maxToolMetadataBytes |-> 524288]

Least(key) ==
  CASE key = "maxRestarts" -> 0
    [] key = "maxToolOutputBytes" -> 128
    [] OTHER -> 1

(* raw: what the configuration names, a number each.  A key nobody knows, or *)
(* a number outside its bounds, refuses the whole configuration.             *)
resolveMcpLimits(raw) ==
  IF DOMAIN raw \subseteq Keys /\ \A key \in DOMAIN raw : raw[key] \in Least(key) .. Ceiling[key]
  THEN [key \in Keys |-> IF key \in DOMAIN raw THEN raw[key] ELSE DEFAULT_MCP_LIMITS[key]]
  ELSE Refusal

(* A server is refused with its limits, and one refusal refuses the file:    *)
(* none of its servers is known then.  The fields that only have to have     *)
(* their type (args, env, cwd) are left out.                                 *)
Flag(raw, key) == key \in DOMAIN raw /\ raw[key] = "true"
LimitsOf(raw) ==
  resolveMcpLimits(IF "limits" \in DOMAIN raw THEN raw.limits ELSE [key \in {} |-> 0])
parseServer(raw) ==
  IF \/ "command" \notin DOMAIN raw
     \/ LimitsOf(raw) = Refusal
     \/ \E key \in {"autoConnect", "auto_connect", "autoRestart"} \intersect DOMAIN raw :
          raw[key] \notin {"true", "false"}
  THEN Refusal
  ELSE [limits |-> LimitsOf(raw),
        autoConnect |-> IF "autoConnect" \in DOMAIN raw THEN Flag(raw, "autoConnect")
                        ELSE Flag(raw, "auto_connect"),
        autoRestart |-> Flag(raw, "autoRestart")]

MaxServers == 16
loadMcpConfig(servers) ==
  IF Len(servers) > MaxServers \/ \E i \in DOMAIN servers : parseServer(servers[i]) = Refusal
  THEN Refusal
  ELSE [servers |-> [i \in DOMAIN servers |-> parseServer(servers[i])]]

-----------------------------------------------------------------------------
(* Before a text is parsed it is measured: how deep it nests and how many    *)
(* tokens it has.  A text is a sequence of the kinds of its characters.      *)

Measured(m, kind) ==
  IF m.quoted THEN
    [m EXCEPT !.escaped = ~m.escaped /\ kind = "backslash",
              !.quoted = m.escaped \/ kind # "quote"]
  ELSE [m EXCEPT !.quoted = kind = "quote",
                 !.depth = @ + (IF kind = "open" THEN 1 ELSE IF kind = "close" THEN -1 ELSE 0),
                 !.tokens = IF kind \in {"quote", "open", "separator"} THEN @ + 1 ELSE @]

checkJsonComplexity(text, depth, tokens) ==
  LET start == [depth |-> 0, tokens |-> 0, quoted |-> FALSE, escaped |-> FALSE, within |-> TRUE]
      Next(m, kind) ==
        LET n == Measured(m, kind)
        IN  [n EXCEPT !.within = @ /\ n.depth <= depth /\ n.tokens <= tokens]
  IN  FoldLeft(Next, start, text).within

-----------------------------------------------------------------------------
(* The result of a call.  A text is n characters of width bytes each.        *)

Bytes(text) == text.n * text.width
limitUtf8(text, bytes) ==
  IF Bytes(text) <= bytes THEN text ELSE [text EXCEPT !.n = bytes \div text.width]

Marker == 37   \* the line that says that the rest is missing
Wrapper == 31  \* the JSON around the message of an error

(* The text blocks, one per line, until the room is used up.                 *)
Kept(blocks, room) ==
  LET Take(s, block) ==
        LET kept == limitUtf8(block, IF s.remaining > 0 THEN s.remaining - 1 ELSE 0)
            left == s.remaining - Bytes(kept) - 1
        IN  IF s.truncated \/ block.n = 0 THEN s
            ELSE [parts |-> Append(s.parts, kept), remaining |-> left,
                  truncated |-> kept.n < block.n \/ left <= 0]
  IN  FoldLeft(Take, [parts |-> <<>>, remaining |-> room, truncated |-> FALSE], blocks)

Room(isError, cap) ==
  IF isError THEN (IF cap > 256 THEN (cap - 256) \div 2 ELSE 0)
  ELSE IF cap > 64 THEN cap - 64 ELSE 0

(* What is sent on, in bytes: an error is quoted, at worst every byte twice. *)
formatCallResult(blocks, isError, cap) ==
  LET kept == Kept(blocks, Room(isError, cap))
      lines == FoldLeft(LAMBDA sum, part : sum + Bytes(part) + 1, -1, kept.parts)
      text == (IF lines < 0 THEN 0 ELSE lines) + (IF kept.truncated THEN Marker ELSE 0)
  IN  [parts |-> kept.parts, truncated |-> kept.truncated,
       bytes |-> IF isError THEN 2 * text + Wrapper ELSE text]
=============================================================================
