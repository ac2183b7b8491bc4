------------------------------- MODULE Messages -------------------------------
(***************************************************************************)
(* The prompt that every provider is given: messages made of content       *)
(* blocks (api/llm_prompt.go), the provider metadata they carry            *)
(* (api/llm_provider_metadata.go), what writing a prompt as JSON and       *)
(* reading it back makes of it, and the items a codec turns it into.       *)
(*                                                                         *)
(* Texts, pictures and arguments are abstracted to what the codecs tell    *)
(* apart: is there any, is it a URL or data, which media type.             *)
(***************************************************************************)
EXTENDS Naturals, SequencesExt

(* What the metadata of a block or of a message holds: nothing, Anthropic's *)
(* cache control or redacted reasoning, OpenAI's image detail (a known one  *)
(* or another word) or its safety checks, each as the struct the codec      *)
(* asserts; or any of them read from JSON, a plain map.                     *)
AnthropicMetas == {"cache", "redacted"}
OpenAIMetas == {"detail", "badDetail", "checks"}
TypedMetas == AnthropicMetas \cup OpenAIMetas
Metas == {"none", "loaded"} \cup TypedMetas

(* GetMetadata: the value is asserted to be a T or a pointer to a T, and    *)
(* what was read from JSON is neither.  Get(m, ms): the metadata m if it    *)
(* is one of the struct type that has the members ms.                       *)
GetMetadata(m, ms) == IF m \in ms THEN m ELSE "none"

(* ProviderMetadata.IsZero.                                                *)
IsZero(m) == m = "none"

-----------------------------------------------------------------------------
(* The blocks.  Sources of pictures and files are a URL, bytes, bytes that  *)
(* are there but empty, or neither.                                         *)
Sources == {"url", "data", "emptyData", "none"}
Media == {"", "application/pdf", "text/plain", "image/png"}

(* The arguments of a tool call, raw JSON that nobody has checked: a value,  *)
(* null, nil, empty but not nil, or not JSON.  Written: what json.Marshal   *)
(* makes of them; an error when they are not one JSON value.                *)
Args == {"json", "null", "nil", "empty", "malformed"}
Unwritable == {"empty", "malformed"}
Written(args) ==
  CASE args \in {"nil", "null"} -> "null"
    [] args = "json" -> "args"
    [] OTHER -> "unwritable"

TextBlocks == [type : {"text"}, some : BOOLEAN, meta : Metas]
ImageBlocks == [type : {"image"}, from : Sources, meta : Metas]
FileBlocks == [type : {"file"}, from : Sources, media : Media, dotPdf : BOOLEAN, meta : Metas]
ToolCallBlocks ==
  [type : {"tool-call"}, id : BOOLEAN, name : {"", "function", "computer", "hosted"}, args : Args, meta : Metas]
ReasoningBlocks == [type : {"reasoning"}, some : BOOLEAN, meta : Metas]
SourceBlocks == [type : {"source"}, meta : Metas]

(* A tool result has a Result (nil, a string or another value: loaded says *)
(* that the value has been read from JSON) and a Content, a list of blocks *)
(* that may be nil (hasContent: it is not).                                *)
Results == {"nil", "string", "value", "loaded"}
ResultParts == TextBlocks \cup ImageBlocks \cup SourceBlocks
ToolResultBlocks ==
  {b \in [type : {"tool-result"}, id : BOOLEAN, name : {"function", "computer"}, result : Results,
          hasContent : BOOLEAN, content : Seq(ResultParts), isError : BOOLEAN, meta : Metas] :
     b.content # <<>> => b.hasContent}

HasText(blocks) == \E k \in DOMAIN blocks : blocks[k].type = "text" /\ blocks[k].some

ContentBlocks ==
  TextBlocks \cup ImageBlocks \cup FileBlocks \cup ToolCallBlocks \cup ReasoningBlocks \cup SourceBlocks

(* A system message is a text: here, one text block whose metadata is that *)
(* of the message.                                                         *)
SystemMessage(block, meta) == [role |-> "system", content |-> <<[block EXCEPT !.meta = meta]>>, meta |-> meta]
UserMessage(blocks, meta) == [role |-> "user", content |-> blocks, meta |-> meta]
AssistantMessage(blocks, meta) == [role |-> "assistant", content |-> blocks, meta |-> meta]
ToolMessage(results, meta) == [role |-> "tool", content |-> results, meta |-> meta]

Message(role, block, meta) ==
  CASE role = "system" -> SystemMessage(block, meta)
    [] role = "user" -> UserMessage(<<block>>, meta)
    [] role = "assistant" -> AssistantMessage(<<block>>, meta)
    [] role = "tool" -> ToolMessage(<<block>>, meta)

IsMessage(m) ==
  \/ m \in [role : {"system"}, content : {<<b>> : b \in TextBlocks}, meta : Metas] /\ m.content[1].meta = m.meta
  \/ m \in [role : {"user", "assistant"}, content : Seq(ContentBlocks), meta : Metas]
  \/ m \in [role : {"tool"}, content : Seq(ToolResultBlocks), meta : Metas]

IsSystem(m) == m.role = "system"
NotSystem(m) == m.role # "system"
AnyMessage(m) == TRUE

-----------------------------------------------------------------------------
(* MarshalJSON then UnmarshalJSON of a prompt.  The role and the type of a *)
(* message and a block are written and choose what is read, so nothing but *)
(* this changes: metadata becomes a map, empty data and an empty list of   *)
(* contents are left out (omitempty) and read as nil, and arguments that   *)
(* are nil are written null.  A prompt with a call whose arguments cannot  *)
(* be written cannot be stored.                                            *)
Storable(prompt) ==
  \A i \in DOMAIN prompt : \A j \in DOMAIN prompt[i].content :
    LET b == prompt[i].content[j]
    IN b.type = "tool-call" => b.args \notin Unwritable

Reloaded(m) == IF IsZero(m) THEN "none" ELSE "loaded"

ReloadedBlock(b) ==
  CASE b.type \in {"image", "file"} ->
         [b EXCEPT !.meta = Reloaded(@), !.from = IF @ = "emptyData" THEN "none" ELSE @]
    [] b.type = "tool-call" -> [b EXCEPT !.meta = Reloaded(@), !.args = IF @ = "nil" THEN "null" ELSE @]
    [] OTHER -> [b EXCEPT !.meta = Reloaded(@)]

ReloadedResult_ContentDropped(b) ==
  [b EXCEPT !.meta = Reloaded(@), !.result = IF @ = "value" THEN "loaded" ELSE @,
            !.hasContent = FALSE, !.content = <<>>]

ReloadedResult(b) ==
  [b EXCEPT !.meta = Reloaded(@),
            !.result = IF @ = "value" THEN "loaded" ELSE @,
            !.hasContent = b.content # <<>>,
            !.content = [k \in DOMAIN @ |-> ReloadedBlock(@[k])]]

ReloadedMessage(m) ==
  [m EXCEPT !.meta = Reloaded(@),
            !.content = [j \in DOMAIN @ |-> IF m.role = "tool" THEN ReloadedResult(@[j])
                                            ELSE ReloadedBlock(@[j])]]

ReloadedPrompt(prompt) == [i \in DOMAIN prompt |-> ReloadedMessage(prompt[i])]

-----------------------------------------------------------------------------
(* What a codec makes of a prompt: the items of the request, in order, each *)
(* with the place of the block it comes from (message, block), the form    *)
(* its data takes, and whether it bears a mark (a cache control, or safety *)
(* checks).  A block the codec returns an error for becomes an Error.      *)
Item(kind, at, form, mark) == [kind |-> kind, at |-> at, form |-> form, mark |-> mark]
Error(at) == Item("error", at, "none", FALSE)

(* The items of a message whose blocks are encoded one by one by Enc.      *)
EachBlock(prompt, i, Enc(_, _)) ==
  FlattenSeq([j \in DOMAIN prompt[i].content |-> Enc(prompt[i].content[j], <<i, j>>)])

(* The items of the messages that satisfy P, in order.                     *)
EachMessage(prompt, P(_), Enc(_)) ==
  FlattenSeq([i \in DOMAIN prompt |-> IF P(prompt[i]) THEN Enc(i) ELSE <<>>])

(* One error and there is no request.  warned: the places a warning tells  *)
(* the caller of.                                                          *)
Refused == [ok |-> FALSE, items |-> <<>>, warned |-> {}]
Request(items, warned) ==
  IF \E n \in DOMAIN items : items[n].kind = "error" THEN Refused
  ELSE [ok |-> TRUE, items |-> items, warned |-> warned]

(* The content of an answer, decoded: the blocks of the next assistant     *)
(* message, or an error.                                                   *)
Undecodable == [ok |-> FALSE, content |-> <<>>]
Decoded(content) == [ok |-> TRUE, content |-> content]

Text(some) == [type |-> "text", some |-> some, meta |-> "none"]
ToolCall(id, name, args, meta) == [type |-> "tool-call", id |-> id, name |-> name, args |-> args, meta |-> meta]
Reasoning(some, meta) == [type |-> "reasoning", some |-> some, meta |-> meta]
Source == [type |-> "source", meta |-> "none"]
=============================================================================
