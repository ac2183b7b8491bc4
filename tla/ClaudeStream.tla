----------------------------- MODULE ClaudeStream ----------------------------
(***************************************************************************)
(* provider/anthropic-claudecode: the lines the claude process writes for  *)
(* one query, decoded by codec/decode_stream.go inside the iterator of     *)
(* llm.go (decodeEvents).  A query may take several messages: the process  *)
(* runs its tools and goes on by itself.  Message n has id n, a tool call  *)
(* the index of its item.                                                  *)
(***************************************************************************)
EXTENDS ModelStream

CONSTANTS MaxMessages   (* bound: messages of a query                      *)

VARIABLES
  messages,    (* how many messages were started                           *)
  inMessage,   (* ... and whether the last one is still open               *)
  stopped,     (* its message_delta was sent                               *)
  tracked      (* how often the token tracker was told of this query       *)

claudeVars == <<messages, inMessage, stopped, tracked>>

QueryUsage == 1

ClaudeTypeOK ==
  /\ messages \in 0..MaxMessages
  /\ {inMessage, stopped} \subseteq BOOLEAN
  /\ tracked \in 0..1

ClaudeInit ==
  /\ messages = 0
  /\ inMessage = FALSE
  /\ stopped = FALSE
  /\ tracked = 0

InMessage == Reading("claude") /\ inMessage

-----------------------------------------------------------------------------
(* The stream_event lines, in the order the Anthropic API sends them. *)

decodeMessageStart ==
  /\ Reading("claude") /\ ~inMessage /\ messages < MaxMessages
  /\ messages' = messages + 1
  /\ inMessage' = TRUE
  /\ stopped' = FALSE
  /\ AddEvent(Metadata(messages + 1))
  /\ Continue
  /\ UNCHANGED tracked

(* The input of a tool call starts as "{}", fragment 0 of its item. *)
decodeContentBlockStart(kind) ==
  /\ InMessage /\ ~stopped
  /\ kind = "tool" => AllClosed
  /\ OpenItem(kind)
  /\ \/ /\ kind = "tool"
        /\ LET index == Len(items) + 1 IN AddEvent(ToolCall(index, << <<index, 0>> >>))
     \/ kind # "tool" /\ Silent
  /\ UNCHANGED claudeVars

(* A tool call delta does not say of which call it is. *)
decodeContentBlockDelta(i) ==
  /\ InMessage
  /\ SendFragment(i)
  /\ \/ items[i].kind = "text" /\ AddEvent(TextDelta(Fragment(i)))
     \/ items[i].kind = "tool" /\ AddEvent(ToolCallDelta(NoID, Fragment(i)))
     \/ items[i].kind = "thinking" /\ Silent
  /\ UNCHANGED claudeVars

ContentBlockStop(i) ==
  /\ InMessage
  /\ CloseItem(i)
  /\ Silent
  /\ UNCHANGED claudeVars

decodeStreamFinishReason(reason) ==
  CASE reason \in {"end_turn", "stop_sequence"} -> "stop"
    [] reason = "tool_use" -> "tool-calls"
    [] reason = "max_tokens" -> "length"
    [] OTHER -> "unknown"

decodeMessageDelta ==
  /\ InMessage /\ ~stopped /\ AllClosed
  /\ \E reason \in {"end_turn", "tool_use", "max_tokens"} :
       AddEvent(Finish(decodeStreamFinishReason(reason), QueryUsage))
  /\ stopped' = TRUE
  /\ Continue
  /\ UNCHANGED <<messages, inMessage, tracked>>

MessageStop ==
  /\ InMessage /\ stopped
  /\ inMessage' = FALSE
  /\ Silent /\ Continue
  /\ UNCHANGED <<messages, stopped, tracked>>

-----------------------------------------------------------------------------
(* The other lines. *)

(* The result line ends the query, whoever listens: it is tracked first. *)
ResultSuccess ==
  /\ Reading("claude") /\ ~inMessage /\ messages > 0
  /\ tracked' = tracked + 1
  /\ AddEvent(Finish("stop", QueryUsage))
  /\ Move("over", {})
  /\ UNCHANGED <<messages, inMessage, stopped>>

ResultError ==
  /\ Reading("claude")
  /\ AddEvent(Error)
  /\ Move("over", {"event"})
  /\ UNCHANGED claudeVars

(* A line that cannot be parsed: the iterator goes on. *)
ParseError ==
  /\ Reading("claude")
  /\ AddEvent(Error)
  /\ Move("reading", {"broken"})
  /\ UNCHANGED claudeVars

(* The scanner fails: a read error, or a line that is too long. *)
ScannerErr ==
  /\ Reading("claude")
  /\ AddEvent(Error)
  /\ Move("over", {"broken"})
  /\ UNCHANGED claudeVars

(* The process is gone without a result: the stream just ends. *)
StdoutEOF ==
  /\ Reading("claude")
  /\ Silent
  /\ Move("over", {})
  /\ UNCHANGED claudeVars

ClaudeNext ==
  \/ decodeMessageStart
  \/ \E kind \in {"text", "tool", "thinking"} : decodeContentBlockStart(kind)
  \/ \E i \in DOMAIN items : decodeContentBlockDelta(i) \/ ContentBlockStop(i)
  \/ decodeMessageDelta
  \/ MessageStop
  \/ ResultSuccess
  \/ ResultError
  \/ ParseError
  \/ ScannerErr
  \/ StdoutEOF
=============================================================================
