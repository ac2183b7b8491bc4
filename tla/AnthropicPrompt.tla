---------------------------- MODULE AnthropicPrompt ----------------------------
(***************************************************************************)
(* The Anthropic codec: how a prompt becomes the request's system blocks   *)
(* and messages (anthropic/codec/merge_messages.go, encode_prompt.go) and  *)
(* how the content of an answer becomes blocks (decode.go).                *)
(***************************************************************************)
EXTENDS Messages

(* getCacheControl *)
HasCacheControl(source) == GetMetadata(source.meta, AnthropicMetas) = "cache"

-----------------------------------------------------------------------------
(* mergeMessages: consecutive messages of one role become one, except      *)
(* system messages.  The group message i goes to starts at                 *)
StartsGroup(prompt, i) ==
  i = 1 \/ prompt[i - 1].role # prompt[i].role \/ IsSystem(prompt[i])

(* A message that no neighbour is merged with is taken as it is.           *)
IsAlone(prompt, i) ==
  StartsGroup(prompt, i) /\ (i = Len(prompt) \/ StartsGroup(prompt, i + 1))

applyMetadataPrecedenceToBlock_Overrides(block, meta) ==
  IF IsZero(meta) \/ block.type = "source" THEN block ELSE [block EXCEPT !.meta = meta]

(* applyMetadataPrecedenceToBlock: a source block is none of its cases.    *)
applyMetadataPrecedenceToBlock(block, meta) ==
  IF IsZero(meta) \/ ~IsZero(block.meta) \/ block.type = "source" THEN block
  ELSE [block EXCEPT !.meta = meta]

(* The last block of each message of a group takes the message's metadata. *)
mergeMessageGroup(m) ==
  LET n == Len(m.content)
  IN IF n = 0 THEN m
     ELSE [m EXCEPT !.content[n] = applyMetadataPrecedenceToBlock(@, m.meta)]

mergeMessages(prompt) ==
  [i \in DOMAIN prompt |-> IF IsAlone(prompt, i) THEN prompt[i] ELSE mergeMessageGroup(prompt[i])]

(* What that leaves of the caller's prompt: user and assistant blocks are  *)
(* pointers and are written through; tool results are copied by the loop.  *)
AfterMerge(prompt) ==
  [i \in DOMAIN prompt |-> IF prompt[i].role = "tool" THEN prompt[i] ELSE mergeMessages(prompt)[i]]

-----------------------------------------------------------------------------
EncodeTextBlock(b, at) == Item("text", at, "text", HasCacheControl(b))

EncodeImageBlock(b, at) ==
  CASE b.from = "url" -> Item("image", at, "url", HasCacheControl(b))
    [] b.from \in {"data", "emptyData"} -> Item("image", at, "base64", HasCacheControl(b))
    [] b.from = "none" -> Error(at)

(* A file is a PDF by its media type or, at a URL, by its extension.  The  *)
(* URL of any other file is sent as if it were the text of the document.   *)
EncodeFileBlock(b, at) ==
  LET mark == HasCacheControl(b)
  IN CASE b.from = "url" ->
            Item("document", at, IF b.media = "application/pdf" \/ b.dotPdf THEN "pdf" ELSE "text", mark)
       [] b.from \in {"data", "emptyData"} ->
            CASE b.media = "application/pdf" -> Item("document", at, "pdf", mark)
              [] b.media \in {"text/plain", ""} -> Item("document", at, "text", mark)
              [] OTHER -> Error(at)
       [] b.from = "none" -> Error(at)

EncodeUserContentBlock(b, at) ==
  CASE b.type = "text" -> <<EncodeTextBlock(b, at)>>
    [] b.type = "image" -> <<EncodeImageBlock(b, at)>>
    [] b.type = "file" -> <<EncodeFileBlock(b, at)>>
    [] OTHER -> <<Error(at)>>

(* The arguments are passed on: the client library writes the request, and *)
(* fails on those that are not JSON.                                       *)
EncodeToolCallBlock(b, at) == Item("tool_use", at, Written(b.args), HasCacheControl(b))

(* Redacted reasoning is known by its metadata; no cache control here.     *)
EncodeReasoningBlock(b, at) ==
  IF GetMetadata(b.meta, AnthropicMetas) = "redacted" THEN Item("redacted_thinking", at, "data", FALSE)
  ELSE Item("thinking", at, IF b.some THEN "text" ELSE "empty", FALSE)

EncodeAssistantBlock(b, at) ==
  CASE b.type = "text" -> <<EncodeTextBlock(b, at)>>
    [] b.type = "tool-call" -> <<EncodeToolCallBlock(b, at)>>
    [] b.type = "reasoning" -> <<EncodeReasoningBlock(b, at)>>
    [] OTHER -> <<Error(at)>>

(* encodeToolResultPart: a nested block that cannot be encoded fails it.   *)
IsResultPart(b) == b.type = "text" \/ (b.type = "image" /\ b.from # "none")

(* encodeToolResultContent: the result is ignored, even for no content.    *)
encodeToolResultContent(b, at) ==
  IF \E k \in DOMAIN b.content : ~IsResultPart(b.content[k]) THEN Error(at)
  ELSE Item("tool_result", at, IF b.content = <<>> THEN "empty" ELSE "content", HasCacheControl(b))

encodeToolResultJSON(b, at) ==
  Item("tool_result", at, IF b.result = "nil" THEN "null" ELSE "json", HasCacheControl(b))

EncodeToolResult(b, at) ==
  CASE ~b.id -> <<Error(at)>>
    [] b.id /\ b.hasContent -> <<encodeToolResultContent(b, at)>>
    [] b.id /\ ~b.hasContent -> <<encodeToolResultJSON(b, at)>>

EncodeSystemMessage(b, at) == <<Item("system", at, "text", HasCacheControl(b))>>

processMessage(prompt, i) ==
  CASE prompt[i].role = "system" -> EachBlock(prompt, i, EncodeSystemMessage)
    [] prompt[i].role = "user" -> EachBlock(prompt, i, EncodeUserContentBlock)
    [] prompt[i].role = "assistant" -> EachBlock(prompt, i, EncodeAssistantBlock)
    [] prompt[i].role = "tool" -> EachBlock(prompt, i, EncodeToolResult)

(* A system message is refused once there are both another one and a       *)
(* message of another kind before it; alone, it moves to the front.        *)
SystemIsSeparated(prompt) ==
  \E i \in DOMAIN prompt :
    /\ IsSystem(prompt[i])
    /\ \E k \in 1..(i - 1) : IsSystem(prompt[k])
    /\ \E k \in 1..(i - 1) : ~IsSystem(prompt[k])

EncodePrompt(prompt) ==
  LET merged == mergeMessages(prompt)
      Process(i) == processMessage(merged, i)
  IN IF SystemIsSeparated(prompt) THEN Refused
     ELSE Request(EachMessage(merged, IsSystem, Process) \o EachMessage(merged, NotSystem, Process), {})

-----------------------------------------------------------------------------
(* The content of an answer.                                               *)
Replies == [kind : {"text", "thinking", "redacted_thinking"}, some : BOOLEAN]
             \cup [kind : {"tool_use", "other"}]

decodeReasoning(r) ==
  CASE ~r.some -> <<>>
    [] r.some /\ r.kind = "thinking" -> <<Reasoning(TRUE, "none")>>
    [] r.some /\ r.kind = "redacted_thinking" -> <<Reasoning(FALSE, "redacted")>>

decodeToolUse(r) == <<ToolCall(TRUE, "function", "json", "none")>>

(* Text and reasoning only when there is any; other types are left out.    *)
decodeBlock(r) ==
  CASE r.kind = "text" -> IF r.some THEN <<Text(TRUE)>> ELSE <<>>
    [] r.kind = "tool_use" -> decodeToolUse(r)
    [] r.kind \in {"thinking", "redacted_thinking"} -> decodeReasoning(r)
    [] OTHER -> <<>>

decodeContent(reply) == Decoded(FlattenSeq([k \in DOMAIN reply |-> decodeBlock(reply[k])]))
=============================================================================
