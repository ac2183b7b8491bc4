--------------------------- MODULE OpenRouterPrompt ---------------------------
(***************************************************************************)
(* The OpenRouter provider: how a prompt becomes chat messages             *)
(* (openrouter/codec/encode_prompt.go) or a completion prompt              *)
(* (convert_to_openrouter_completion_prompt.go), and how the choice of an  *)
(* answer becomes blocks (openrouter_chat_language_model.go).              *)
(***************************************************************************)
EXTENDS Messages

encodeSystemMessage(b, at) == <<Item("system", at, "text", FALSE)>>

(* A picture or a file without URL and data is sent as an empty one.       *)
encodeImageBlock(b, at) ==
  Item("image_url", at, CASE b.from = "url" -> "url"
                          [] b.from \in {"data", "emptyData"} -> "dataURL"
                          [] b.from = "none" -> "empty", FALSE)

(* A file is a text: its URL, its bytes, or a data URL.                    *)
encodeFileBlock(b, at) ==
  Item("text", at, CASE b.from = "url" -> "url"
                     [] b.from \in {"data", "emptyData"} -> IF b.media = "" THEN "text" ELSE "dataURL"
                     [] b.from = "none" -> "empty", FALSE)

encodeUserContentBlock(b, at) ==
  CASE b.type = "text" -> <<Item("text", at, "text", FALSE)>>
    [] b.type = "image" -> <<encodeImageBlock(b, at)>>
    [] b.type = "file" -> <<encodeFileBlock(b, at)>>
    [] OTHER -> <<Error(at)>>

encodeToolCallBlock(b, at) ==
  IF b.args \in Unwritable THEN Error(at) ELSE Item("tool_call", at, Written(b.args), FALSE)

encodeAssistantMessage_LastText(prompt, i) ==
  LET n == Len(prompt[i].content)
      CallOf(b, at) == CASE b.type = "text" -> IF at[2] = n THEN <<Item("text", at, "text", FALSE)>> ELSE <<>>
                         [] b.type = "tool-call" -> <<encodeToolCallBlock(b, at)>>
                         [] OTHER -> <<Error(at)>>
  IN EachBlock(prompt, i, CallOf)

(* The texts of an assistant message are joined, and its calls come after  *)
(* them, whatever their order was.                                         *)
encodeAssistantMessage(prompt, i) ==
  LET TextOf(b, at) == IF b.type = "text" THEN <<Item("text", at, "text", FALSE)>> ELSE <<>>
      CallOf(b, at) == CASE b.type = "text" -> <<>>
                         [] b.type = "tool-call" -> <<encodeToolCallBlock(b, at)>>
                         [] OTHER -> <<Error(at)>>
  IN EachBlock(prompt, i, TextOf) \o EachBlock(prompt, i, CallOf)

(* Each result is a message of its own: its Result, whatever its content.  *)
encodeToolResult(b, at) == <<Item("tool", at, IF b.result = "nil" THEN "null" ELSE "json", FALSE)>>

encodeMessage(prompt, i) ==
  CASE prompt[i].role = "system" -> EachBlock(prompt, i, encodeSystemMessage)
    [] prompt[i].role = "user" -> EachBlock(prompt, i, encodeUserContentBlock)
    [] prompt[i].role = "assistant" -> encodeAssistantMessage(prompt, i)
    [] prompt[i].role = "tool" -> EachBlock(prompt, i, encodeToolResult)

EncodePrompt(prompt) ==
  LET Encode(i) == encodeMessage(prompt, i)
  IN Request(EachMessage(prompt, AnyMessage, Encode), {})

-----------------------------------------------------------------------------
(* The completion prompt, one text: texts only, and one system message, at *)
(* the front.  A tool message is refused even when it is empty.            *)
gatherText(b, at) == IF b.type = "text" THEN <<Item("text", at, "text", FALSE)>> ELSE <<Error(at)>>

writeMessage(prompt, i) ==
  CASE prompt[i].role \in {"user", "assistant"} -> EachBlock(prompt, i, gatherText)
    [] IsSystem(prompt[i]) /\ i = 1 -> EachBlock(prompt, i, encodeSystemMessage)
    [] OTHER -> <<Error(<<i, 1>>)>>

ConvertToOpenRouterCompletionPrompt(prompt) ==
  LET Write(i) == writeMessage(prompt, i)
  IN Request(EachMessage(prompt, AnyMessage, Write), {})

-----------------------------------------------------------------------------
(* The message of the first choice of an answer; no choice, no answer.     *)
(* The arguments of its calls are the text the model wrote.                *)
Replies == [choices : 0..1, text : BOOLEAN, reasoning : BOOLEAN, calls : BoundedSeq(Args \ {"nil"}, 1)]

decodeChoice(r) ==
  IF r.choices = 0 THEN Undecodable
  ELSE Decoded((IF r.text THEN <<Text(TRUE)>> ELSE <<>>)
                 \o (IF r.reasoning THEN <<Reasoning(TRUE, "none")>> ELSE <<>>)
                 \o [k \in DOMAIN r.calls |-> ToolCall(TRUE, "function", r.calls[k], "none")])
=============================================================================
