----------------------------- MODULE OpenAIStream ----------------------------
(***************************************************************************)
(* provider/openai/internal/codec/decode_stream.go: the stream decoder of  *)
(* the OpenAI Responses API, feeding a ResponseBuilder; and, for the       *)
(* comparison, what decode.go makes of the same response when it is not    *)
(* streamed.  An output item is named by its output index, a tool call by  *)
(* the index of its item, and "source-n" is n + 1.                         *)
(***************************************************************************)
EXTENDS ModelStream

CONSTANTS MaxSources   (* bound: annotations of a response                 *)

VARIABLES
  created,            (* response.created was read: d.responseID           *)
  ongoingToolCalls,   (* output index to tool call id                      *)
  hasToolCalls,
  incompleteReason,
  annotationCounter,
  totalTokens,
  served,             (* how the server ended the response: its status,    *)
  details,            (* ... its IncompleteDetails.Reason                  *)
  billed              (* ... and its usage, 0 when it is omitted           *)

openAIVars == <<created, ongoingToolCalls, hasToolCalls, incompleteReason, annotationCounter,
                totalTokens, served, details, billed>>

OpenAIResponse == 1                  (* the id of the response              *)
ServerUsage == 1                     (* what it cost                       *)
NoDetails == ""
IncompleteReasons == {"max_output_tokens", "content_filter", "other"}

OpenAITypeOK ==
  /\ created \in BOOLEAN
  /\ ongoingToolCalls \in [DOMAIN ongoingToolCalls -> IDs]
  /\ DOMAIN ongoingToolCalls \subseteq DOMAIN items
  /\ hasToolCalls \in BOOLEAN
  /\ {incompleteReason, details} \subseteq IncompleteReasons \cup {NoDetails}
  /\ annotationCounter \in 0..MaxSources
  /\ {totalTokens, billed} \subseteq {0, ServerUsage}
  /\ served \in {"no", "completed", "incomplete", "failed"}

OpenAIInit ==
  /\ created = FALSE
  /\ ongoingToolCalls = [i \in {} |-> NoID]
  /\ hasToolCalls = FALSE
  /\ incompleteReason = NoDetails
  /\ annotationCounter = 0
  /\ totalTokens = 0 /\ billed = 0
  /\ served = "no"
  /\ details = NoDetails

Serving == Reading("openai") /\ created /\ served = "no"

-----------------------------------------------------------------------------
(* One action per event the decoder knows. *)

decodeResponseCreated ==
  /\ Reading("openai") /\ ~created
  /\ created' = TRUE
  /\ AddEvent(Metadata(OpenAIResponse))
  /\ Continue
  /\ UNCHANGED <<ongoingToolCalls, hasToolCalls, incompleteReason, annotationCounter, totalTokens,
                 served, details, billed>>

decodeTextDelta(i) ==
  /\ Serving /\ items[i].kind = "text"
  /\ SendFragment(i)
  /\ AddEvent(TextDelta(Fragment(i)))
  /\ UNCHANGED openAIVars

decodeReasoningSummaryTextDelta(i) ==
  /\ Serving /\ items[i].kind = "reasoning"
  /\ SendFragment(i)
  /\ AddEvent(Reasoning(Fragment(i)))
  /\ UNCHANGED openAIVars

(* A slip: the decoder remembers one call, the last one that started. *)
decodeOutputItemAdded_Current(kind) ==
  /\ Serving
  /\ OpenItem(kind)
  /\ LET index == Len(items) + 1 IN
     \/ /\ kind = "tool"
        /\ ongoingToolCalls' = [i \in DOMAIN ongoingToolCalls \cup {index} |-> index]
        /\ hasToolCalls' = TRUE
        /\ AddEvent(ToolCallDelta(index, <<>>))
     \/ /\ kind # "tool"
        /\ Silent
        /\ UNCHANGED <<ongoingToolCalls, hasToolCalls>>
  /\ UNCHANGED <<created, incompleteReason, annotationCounter, totalTokens, served, details,
                 billed>>

(* Only a function call leaves a trace.  The event carries the arguments   *)
(* the item has: none, for the server sends them as deltas.                *)
decodeOutputItemAdded(kind) ==
  /\ Serving
  /\ OpenItem(kind)
  /\ LET index == Len(items) + 1 IN
     \/ /\ kind = "tool"
        /\ ongoingToolCalls' =
             [i \in DOMAIN ongoingToolCalls \cup {index} |->
                IF i = index THEN index ELSE ongoingToolCalls[i]]
        /\ hasToolCalls' = TRUE
        /\ AddEvent(ToolCallDelta(index, <<>>))
     \/ /\ kind # "tool"
        /\ Silent
        /\ UNCHANGED <<ongoingToolCalls, hasToolCalls>>
  /\ UNCHANGED <<created, incompleteReason, annotationCounter, totalTokens, served, details,
                 billed>>

decodeFunctionCallArgumentsDelta(i) ==
  /\ Serving /\ items[i].kind = "tool"
  /\ \/ /\ i \in DOMAIN ongoingToolCalls
        /\ SendFragment(i)
        /\ AddEvent(ToolCallDelta(ongoingToolCalls[i], Fragment(i)))
     \/ /\ i \notin DOMAIN ongoingToolCalls      (* late: the call is done  *)
        /\ AddEvent(Error)
        /\ Move("reading", {"broken"})
  /\ UNCHANGED openAIVars

decodeOutputItemDone(i) ==
  /\ Serving
  /\ CloseItem(i)
  /\ \/ /\ items[i].kind = "tool"
        /\ ongoingToolCalls' =
             [k \in DOMAIN ongoingToolCalls \ {i} |-> ongoingToolCalls[k]]
        /\ AddEvent(ToolCall(i, ItemData(i)))
     \/ /\ items[i].kind # "tool"
        /\ Silent
        /\ UNCHANGED ongoingToolCalls
  /\ UNCHANGED <<created, hasToolCalls, incompleteReason, annotationCounter, totalTokens, served,
                 details, billed>>

(* An annotation that is a URL citation, of the text item in progress. *)
decodeOutputTextAnnotationAdded(i) ==
  /\ Serving /\ items[i].kind = "text" /\ items[i].open
  /\ annotationCounter < MaxSources
  /\ AddEvent(Source(annotationCounter + 1))
  /\ annotationCounter' = annotationCounter + 1
  /\ Continue
  /\ UNCHANGED <<created, ongoingToolCalls, hasToolCalls, incompleteReason, totalTokens, served,
                 details, billed>>

(* The response may bear a reason all the same, and omit its usage.        *)
decodeResponseCompleted ==
  /\ Serving /\ AllClosed
  /\ served' = "completed"
  /\ details' \in IncompleteReasons \cup {NoDetails}
  /\ billed' \in {0, ServerUsage}
  /\ incompleteReason' = IF details' = NoDetails THEN incompleteReason ELSE details'
  /\ totalTokens' = IF billed' = 0 THEN totalTokens ELSE billed'
  /\ Silent /\ Continue
  /\ UNCHANGED <<created, ongoingToolCalls, hasToolCalls, annotationCounter>>

(* A slip: the reason is read but not kept. *)
decodeResponseFailedOrIncomplete_Dropped ==
  /\ Serving
  /\ \/ served' = "failed" /\ Move("reading", {"failed"})
     \/ served' = "incomplete" /\ Continue
  /\ details' \in IncompleteReasons \cup {NoDetails}
  /\ Silent
  /\ UNCHANGED <<created, ongoingToolCalls, hasToolCalls, incompleteReason, annotationCounter,
                 totalTokens, billed>>

(* The usage of such a response is not read, and of the error of a failed  *)
(* one nothing is: no event says that it failed.                           *)
decodeResponseFailedOrIncomplete ==
  /\ Serving
  /\ \/ served' = "failed" /\ Move("reading", {"failed"})
     \/ served' = "incomplete" /\ Continue
  /\ details' \in IncompleteReasons \cup {NoDetails}
  /\ incompleteReason' = details'
  /\ Silent
  /\ UNCHANGED <<created, ongoingToolCalls, hasToolCalls, annotationCounter, totalTokens, billed>>

decodeError ==
  /\ Serving
  /\ AddEvent(Error)
  /\ Move("reading", {"event"})
  /\ UNCHANGED openAIVars

-----------------------------------------------------------------------------
(* The end of decodeEvents: stream.Next is false, with an error or without *)
(* one, and the finish event is sent in either case.                       *)

StreamErr ==
  /\ Reading("openai")
  /\ AddEvent(Error)
  /\ Move("finishing", {"broken"})
  /\ UNCHANGED openAIVars

StreamEOF ==
  /\ Reading("openai")
  /\ Silent
  /\ Move("finishing", {})
  /\ UNCHANGED openAIVars

decodeFinishReason(reason, tools) ==
  CASE reason = "max_output_tokens" -> "length"
    [] reason = "content_filter" -> "content-filter"
    [] reason \notin {"max_output_tokens", "content_filter"} /\ tools -> "tool-calls"
    [] reason = NoDetails /\ ~tools -> "stop"
    [] OTHER -> "unknown"

SendFinish ==
  /\ Running("openai") /\ phase = "finishing"
  /\ AddEvent(Finish(decodeFinishReason(incompleteReason, hasToolCalls), totalTokens))
  /\ Move("over", {})
  /\ UNCHANGED openAIVars

OpenAINext ==
  \/ decodeResponseCreated
  \/ \E kind \in {"text", "reasoning", "tool", "hosted"} : decodeOutputItemAdded(kind)
  \/ \E i \in DOMAIN items :
       \/ decodeTextDelta(i)
       \/ decodeReasoningSummaryTextDelta(i)
       \/ decodeFunctionCallArgumentsDelta(i)
       \/ decodeOutputItemDone(i)
       \/ decodeOutputTextAnnotationAdded(i)
  \/ decodeResponseCompleted
  \/ decodeResponseFailedOrIncomplete
  \/ decodeError
  \/ StreamErr
  \/ StreamEOF
  \/ SendFinish

-----------------------------------------------------------------------------
(* decode.go: the same response, not streamed. *)

HasTools == \E i \in DOMAIN items : items[i].kind \in {"tool", "hosted"}

DecodedFinishReason == decodeFinishReason(details, HasTools)
=============================================================================
