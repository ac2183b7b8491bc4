----------------------------- MODULE OpenAIPrompt -----------------------------
(***************************************************************************)
(* The OpenAI codec: how a prompt becomes the input items of the Responses *)
(* API (openai/internal/codec/encode_prompt.go) and how the output items   *)
(* of an answer become blocks (decode.go).                                 *)
(***************************************************************************)
EXTENDS Messages

(* getModelConfig: o1-mini and o1-preview take no system message at all.   *)
Families == {"gpt", "o-series", "o1-mini", "computer-use-preview"}
IsReasoningModel(family) == family # "gpt"
SystemMessageMode(family) ==
  CASE family = "o1-mini" -> "remove"
    [] family \in {"o-series", "computer-use-preview"} -> "developer"
    [] family = "gpt" -> "system"

EncodeSystemMessage(family, at) ==
  CASE SystemMessageMode(family) = "remove" -> <<>>
    [] OTHER -> <<Item(SystemMessageMode(family), at, "text", FALSE)>>

(* The message is left out and the caller is told by a warning.            *)
RemovedSystems(family, prompt) ==
  {<<i, 1>> : i \in {k \in DOMAIN prompt : IsSystem(prompt[k]) /\ SystemMessageMode(family) = "remove"}}

EncodeInputTextBlock(at) == Item("input_text", at, "text", FALSE)

(* Only an image detail the API knows; then a URL, or else the data.       *)
EncodeImageBlock(b, at) ==
  CASE GetMetadata(b.meta, OpenAIMetas) = "badDetail" -> Error(at)
    [] b.from = "none" -> Error(at)
    [] OTHER -> Item("input_image", at, IF b.from = "url" THEN "url" ELSE "dataURL",
                     GetMetadata(b.meta, OpenAIMetas) = "detail")

(* Files: no URLs, and PDFs only.                                          *)
EncodeFileBlock(b, at) ==
  IF b.from \in {"data", "emptyData"} /\ b.media = "application/pdf" THEN Item("input_file", at, "pdf", FALSE)
  ELSE Error(at)

EncodeUserContentBlock(b, at) ==
  CASE b.type = "text" -> <<EncodeInputTextBlock(at)>>
    [] b.type = "image" -> <<EncodeImageBlock(b, at)>>
    [] b.type = "file" -> <<EncodeFileBlock(b, at)>>
    [] OTHER -> <<Error(at)>>

EncodeToolCallBlock_FunctionsOnly(b, at) ==
  IF b.name \in {"", "hosted"} \/ b.args \in Unwritable THEN Error(at)
  ELSE Item("function_call", at, Written(b.args), FALSE)

(* Whatever tool was called, the call goes back as a function call: it     *)
(* needs a name, and arguments that are JSON.                              *)
EncodeToolCallBlock(b, at) ==
  IF b.name = "" \/ b.args \in Unwritable THEN Error(at)
  ELSE Item("function_call", at, Written(b.args), FALSE)

EncodeOutputTextBlock(at) == Item("message", at, "text", FALSE)

EncodeAssistantBlock(b, at) ==
  CASE b.type = "text" -> <<EncodeOutputTextBlock(at)>>
    [] b.type = "tool-call" -> <<EncodeToolCallBlock(b, at)>>
    [] OTHER -> <<Error(at)>>

(* encodeTextToolResult: the texts of the content, or else the result.     *)
encodeTextToolResult(b, at) ==
  Item("function_call_output", at,
       CASE HasText(b.content) -> "content"
         [] ~HasText(b.content) /\ b.result # "nil" -> "json"
         [] OTHER -> "empty",
       FALSE)

(* A screenshot is made of the image's data: one given by a URL is empty.  *)
Screenshot(b, at) ==
  Item("computer_call_output", at, IF b.content[1].from = "data" THEN "content" ELSE "empty",
       GetMetadata(b.meta, OpenAIMetas) = "checks")

(* encodeComputerToolResult.                                               *)
encodeComputerToolResult(b, at) ==
  LET cs == b.content
  IN CASE Len(cs) = 0 -> Error(at)
       [] Len(cs) = 1 /\ cs[1].type = "image" -> Screenshot(b, at)
       [] Len(cs) = 1 /\ cs[1].type = "text" -> encodeTextToolResult(b, at)
       [] Len(cs) > 1 /\ (\E k \in DOMAIN cs : cs[k].type = "text") -> encodeTextToolResult(b, at)
       [] OTHER -> Error(at)

(* The result of a function is its Result; its content is not looked at,   *)
(* nor is it said that it is an error.                                     *)
EncodeToolResultBlock(b, at) ==
  CASE ~b.id -> <<Error(at)>>
    [] b.id /\ b.name = "computer" -> <<encodeComputerToolResult(b, at)>>
    [] b.id /\ b.name # "computer" ->
         <<Item("function_call_output", at, IF b.result = "nil" THEN "null" ELSE "json", FALSE)>>

encodeMessage(family, prompt, i) ==
  LET EncodeSystem(b, at) == EncodeSystemMessage(family, at)
  IN CASE prompt[i].role = "system" -> EachBlock(prompt, i, EncodeSystem)
       [] prompt[i].role = "user" -> EachBlock(prompt, i, EncodeUserContentBlock)
       [] prompt[i].role = "assistant" -> EachBlock(prompt, i, EncodeAssistantBlock)
       [] prompt[i].role = "tool" -> EachBlock(prompt, i, EncodeToolResultBlock)

EncodePrompt(family, prompt) ==
  LET Encode(i) == encodeMessage(family, prompt, i)
  IN Request(EachMessage(prompt, AnyMessage, Encode), RemovedSystems(family, prompt))

-----------------------------------------------------------------------------
(* The output items of an answer.  A message is given by its text and the  *)
(* number of pages it cites, a function call by the text the model wrote   *)
(* as its arguments, a computer call by whether it has an action,          *)
(* reasoning by its summaries: is there any, is one without text.          *)
Replies ==
  [kind : {"message"}, some : BOOLEAN, cites : 0..1]
    \cup [kind : {"function_call"}, named : BOOLEAN, args : Args \ {"nil"}]
    \cup [kind : {"computer_call"}, args : {"json", "empty"}]
    \cup [kind : {"reasoning"}, some : BOOLEAN, blank : BOOLEAN]
    \cup [kind : {"hosted_call", "refusal", "unknown"}]

(* decodeFunctionCall: the name and the call id are required, but the      *)
(* arguments may be anything.  decodeReasoning: no summary without text.   *)
IsRejected(r) ==
  \/ r.kind = "unknown"
  \/ r.kind = "function_call" /\ ~r.named
  \/ r.kind = "reasoning" /\ r.blank

decodeToolCall(r) ==
  CASE r.kind = "function_call" -> <<ToolCall(TRUE, "function", r.args, "none")>>
    [] r.kind = "hosted_call" -> <<ToolCall(TRUE, "hosted", "json", "none")>>
    [] r.kind = "computer_call" -> <<ToolCall(TRUE, "computer", r.args, "checks")>>

decodeAnnotations(r) == [k \in 1..r.cites |-> Source]

(* Reasoning is kept even when it is empty, text is not.                   *)
decodeItem(r) ==
  CASE r.kind \in {"function_call", "hosted_call", "computer_call"} -> decodeToolCall(r)
    [] r.kind = "message" -> (IF r.some THEN <<Text(TRUE)>> ELSE <<>>) \o decodeAnnotations(r)
    [] r.kind = "reasoning" -> <<Reasoning(r.some, "none")>>
    [] OTHER -> <<>>

decodeContent(reply) ==
  IF \E k \in DOMAIN reply : IsRejected(reply[k]) THEN Undecodable
  ELSE Decoded(FlattenSeq([k \in DOMAIN reply |-> decodeItem(reply[k])]))
=============================================================================
