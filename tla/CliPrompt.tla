------------------------------- MODULE CliPrompt -------------------------------
(***************************************************************************)
(* The prompts of the two CLI providers: the messages written to claude's  *)
(* standard input (anthropic-claudecode/codec/encode.go) and the one text  *)
(* of a codex turn (openai-codex/codec/encode.go), both without the system *)
(* messages, which go to the process as its system prompt; and the content *)
(* of claude's result (anthropic-claudecode/codec/decode.go).              *)
(***************************************************************************)
EXTENDS Messages

(* The system prompt is one text of all system messages; the others remain *)
(* (NotSystem).                                                            *)
ExtractSystemPrompt(prompt) ==
  LET Write(b, at) == <<Item("system", at, "text", FALSE)>>
      System(i) == EachBlock(prompt, i, Write)
  IN EachMessage(prompt, IsSystem, System)

-----------------------------------------------------------------------------
(* claude.  A message of texts only is a string; any other is a list of    *)
(* blocks, and those that are neither text nor tool call are left out.     *)
(* A call without arguments has no input (omitempty).                      *)
isTextOnly(blocks) == \A j \in DOMAIN blocks : blocks[j].type = "text"

encodeContentBlock(b, at) ==
  CASE b.type = "text" -> <<Item("text", at, "text", FALSE)>>
    [] b.type = "tool-call" /\ b.args = "malformed" -> <<Error(at)>>
    [] b.type = "tool-call" /\ b.args \in {"nil", "empty"} -> <<Item("tool_use", at, "empty", FALSE)>>
    [] b.type = "tool-call" /\ b.args \in {"json", "null"} -> <<Item("tool_use", at, Written(b.args), FALSE)>>
    [] OTHER -> <<>>

extractText(b, at) == <<Item("string", at, "text", FALSE)>>

encodeBlocks(prompt, i) ==
  IF isTextOnly(prompt[i].content) THEN EachBlock(prompt, i, extractText)
  ELSE EachBlock(prompt, i, encodeContentBlock)

(* extractToolResultContent: the texts of the content; never the Result.   *)
encodeToolResult(b, at) ==
  <<Item("tool_result", at, IF HasText(b.content) THEN "content" ELSE "empty", FALSE)>>

EncodeMessage(prompt, i) ==
  CASE prompt[i].role \in {"user", "assistant"} -> encodeBlocks(prompt, i)
    [] prompt[i].role = "tool" -> EachBlock(prompt, i, encodeToolResult)

EncodeClaude(prompt) ==
  LET Encode(i) == EncodeMessage(prompt, i)
  IN Request(ExtractSystemPrompt(prompt) \o EachMessage(prompt, NotSystem, Encode), {})

(* A result event: an error, or the blocks of its message, or (the message *)
(* being absent) its plain result.                                         *)
ClaudeBlocks == [kind : {"text"}, some : BOOLEAN] \cup [kind : {"tool_use", "thinking"}]
ClaudeReplies == [isError : BOOLEAN, hasMessage : BOOLEAN, blocks : BoundedSeq(ClaudeBlocks, 2), result : BOOLEAN]

(* decodeContent: texts that are not empty, and tool calls.                *)
decodeClaudeBlock(r) ==
  CASE r.kind = "text" -> IF r.some THEN <<Text(TRUE)>> ELSE <<>>
    [] r.kind = "tool_use" -> <<ToolCall(TRUE, "function", "json", "none")>>
    [] OTHER -> <<>>

DecodeResponse(r) ==
  CASE r.isError -> Undecodable
    [] ~r.isError /\ r.hasMessage -> Decoded(FlattenSeq([k \in DOMAIN r.blocks |-> decodeClaudeBlock(r.blocks[k])]))
    [] ~r.isError /\ ~r.hasMessage -> Decoded(IF r.result THEN <<Text(TRUE)>> ELSE <<>>)

-----------------------------------------------------------------------------
(* codex.  Every block is a line of text; calls, pictures and files are    *)
(* only named, reasoning is tagged, and a source leaves an empty line.     *)
extractTextFromContent(b, at) ==
  CASE b.type = "text" -> <<Item("line", at, "text", FALSE)>>
    [] b.type \in {"tool-call", "image", "file"} -> <<Item("line", at, "name", FALSE)>>
    [] b.type = "reasoning" /\ b.some -> <<Item("line", at, "tagged", FALSE)>>
    [] OTHER -> <<>>

(* extractToolResults: the content if there is any, or else the result in  *)
(* Go's notation: one read from JSON does not look like the value it was.  *)
Printed(content) ==
  CASE HasText(content) -> "content"
    [] ~HasText(content) /\ (\E k \in DOMAIN content : content[k].type = "image") -> "name"
    [] OTHER -> "empty"

extractToolResult(b, at) ==
  <<Item("line", at, CASE b.content # <<>> -> Printed(b.content)
                       [] b.content = <<>> /\ b.result = "nil" -> "empty"
                       [] OTHER -> b.result, FALSE)>>

BuildMessage(prompt, i) ==
  CASE prompt[i].role \in {"user", "assistant"} -> EachBlock(prompt, i, extractTextFromContent)
    [] prompt[i].role = "tool" -> EachBlock(prompt, i, extractToolResult)

BuildPromptWithSystemSeparate(prompt) ==
  LET Build(i) == BuildMessage(prompt, i)
  IN Request(ExtractSystemPrompt(prompt) \o EachMessage(prompt, NotSystem, Build), {})
=============================================================================
