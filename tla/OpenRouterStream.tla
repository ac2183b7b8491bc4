---------------------------- MODULE OpenRouterStream ---------------------------
(***************************************************************************)
(* provider/internal/openrouter/openrouter_chat_language_model.go: the     *)
(* chunks of a streamed chat completion, decoded inside the iterator of    *)
(* DoStream.  A tool call is named by the index of its item; on the wire   *)
(* it is told by its place among the calls, and its id comes once.         *)
(***************************************************************************)
EXTENDS ModelStream, FiniteSets

VARIABLES
  toolCalls,  (* the ids of the calls seen, by their place                 *)
  ended       (* the chunk with the finish reason was sent                 *)

openRouterVars == <<toolCalls, ended>>

OpenRouterTypeOK ==
  /\ toolCalls \in Seq(IDs)
  /\ ended \in BOOLEAN

OpenRouterInit ==
  /\ toolCalls = <<>>
  /\ ended = FALSE

Streaming == Reading("openrouter") /\ ~ended

(* The place of the call that is item i, as the wire tells it.             *)
Place(i) == Cardinality({k \in 1..i : items[k].kind = "tool"})

-----------------------------------------------------------------------------
(* Chunks with a choice. *)

(* A new item of text or reasoning, or an item that is complete: no chunk  *)
(* says so.                                                                *)
OpenContent(kind) ==
  /\ Streaming
  /\ OpenItem(kind)
  /\ Silent
  /\ UNCHANGED openRouterVars

CloseContent(i) ==
  /\ Streaming
  /\ CloseItem(i)
  /\ Silent
  /\ UNCHANGED openRouterVars

TextChunk(i) ==
  /\ Streaming /\ items[i].kind = "text"
  /\ SendFragment(i)
  /\ AddEvent(TextDelta(Fragment(i)))
  /\ UNCHANGED openRouterVars

(* Chunks that have other things to say bear an empty content, which is an *)
(* event as any other.                                                     *)
EmptyTextChunk ==
  /\ Streaming
  /\ AddEvent(TextDelta(<<>>))
  /\ Continue
  /\ UNCHANGED openRouterVars

ReasoningChunk(i) ==
  /\ Streaming /\ items[i].kind = "reasoning"
  /\ SendFragment(i)
  /\ AddEvent(Reasoning(Fragment(i)))
  /\ UNCHANGED openRouterVars

(* The first chunk of a call: it is remembered, and nothing is yielded.    *)
ToolCallStart ==
  /\ Streaming
  /\ OpenItem("tool")
  /\ toolCalls' = Append(toolCalls, Len(items) + 1)
  /\ Silent
  /\ UNCHANGED ended

(* The arguments that follow bear the place of their call only.            *)
ToolCallArguments(i) ==
  /\ Streaming /\ items[i].kind = "tool"
  /\ SendFragment(i)
  /\ AddEvent(ToolCallDelta(toolCalls[Place(i)], Fragment(i)))
  /\ UNCHANGED openRouterVars

DecodeFinishReason(reason) ==
  CASE reason \in {"stop", "length"} -> reason
    [] reason = "content_filter" -> "content-filter"
    [] reason \in {"function_call", "tool_calls"} -> "tool-calls"
    [] OTHER -> "unknown"

(* The usage is taken if it comes in this very chunk.                      *)
FinishChunk ==
  /\ Streaming /\ AllClosed
  /\ \E reason \in {"stop", "length", "content_filter", "tool_calls", "other"}, cost \in {0, 1} :
       AddEvent(Finish(DecodeFinishReason(reason), cost))
  /\ ended' = TRUE
  /\ Continue
  /\ UNCHANGED toolCalls

-----------------------------------------------------------------------------
(* Errors and ends. *)

(* A chunk without a choice is skipped: the usage, or an error.            *)
ErrorChunk ==
  /\ Reading("openrouter")
  /\ Silent
  /\ Move("reading", {"chunk"})
  /\ UNCHANGED openRouterVars

(* The status of the response is not looked at, and its body has no data.  *)
ErrorStatus ==
  /\ Streaming /\ items = <<>> /\ content = <<>>
  /\ Silent
  /\ Move("over", {"status"})
  /\ UNCHANGED openRouterVars

(* A chunk that is not JSON, or a read error: an event, and the end.       *)
BadChunk ==
  /\ Reading("openrouter")
  /\ AddEvent(Error)
  /\ Move("over", {"broken"})
  /\ UNCHANGED openRouterVars

(* "[DONE]", or the body is over.                                          *)
Done ==
  /\ Reading("openrouter")
  /\ Silent
  /\ Move("over", {})
  /\ UNCHANGED openRouterVars

OpenRouterNext ==
  \/ \E kind \in {"text", "reasoning"} : OpenContent(kind)
  \/ \E i \in DOMAIN items : CloseContent(i) \/ TextChunk(i) \/ ReasoningChunk(i) \/ ToolCallArguments(i)
  \/ EmptyTextChunk
  \/ ToolCallStart
  \/ FinishChunk
  \/ ErrorChunk
  \/ ErrorStatus
  \/ BadChunk
  \/ Done
=============================================================================
