------------------------------- MODULE Requests -------------------------------
(***************************************************************************)
(* A conversation and the providers it is sent to.  The caller adds        *)
(* messages and blocks, sends the prompt to a provider, adds the answer,   *)
(* and may write the prompt to storage and read it back; any provider may  *)
(* be next (a conversation is not bound to one).  A call may have options. *)
(* Encoding and decoding are the codecs' (AnthropicPrompt, OpenAIPrompt,   *)
(* OpenRouterPrompt, CliPrompt, RequestOptions); here are the prompt they  *)
(* share and what it must survive.                                         *)
(***************************************************************************)
EXTENDS Messages

Anthropic == INSTANCE AnthropicPrompt
OpenAI == INSTANCE OpenAIPrompt
OpenRouter == INSTANCE OpenRouterPrompt
Cli == INSTANCE CliPrompt
Options == INSTANCE RequestOptions

CONSTANTS
  Openings,      (* the messages a conversation may start with             *)
  Followers,     (* the messages that may come later                       *)
  Extensions,    (* the blocks a message of a role may be continued with   *)
  Configurations, (* the options a call may have                          *)
  MaxMessages,   (* bound: messages of a prompt                            *)
  MaxBlocks,     (* bound: blocks of a prompt that is continued            *)
  MaxReply       (* bound: items of an answer                              *)

ASSUME RequestsAssumption ==
  /\ \A m \in Openings \cup Followers : IsMessage(m)
  /\ \A role \in {"user", "assistant", "tool"} : \A b \in Extensions[role] : IsMessage(Message(role, b, "none"))
  /\ \A o \in Configurations : o \in Options!CallOptions
  /\ {MaxMessages, MaxBlocks, MaxReply} \subseteq Nat

VARIABLES
  prompt,   (* the caller's messages; the codecs hold pointers to them     *)
  options,  (* of the next call                                            *)
  last,     (* the last call, if the prompt has not been changed since     *)
  replied   (* the provider whose answer is the last message, as it was    *)
            (* decoded, or "nobody"                                        *)

vars == <<prompt, options, last, replied>>

Providers == OpenAI!Families \cup {"anthropic", "openrouter", "completion", "claude-code", "codex"}
NoCall == [to |-> "nobody", request |-> Refused, params |-> Options!RefusedOptions]

Encode(p, q) ==
  CASE p = "anthropic" -> Anthropic!EncodePrompt(q)
    [] p \in OpenAI!Families -> OpenAI!EncodePrompt(p, q)
    [] p = "openrouter" -> OpenRouter!EncodePrompt(q)
    [] p = "completion" -> OpenRouter!ConvertToOpenRouterCompletionPrompt(q)
    [] p = "claude-code" -> Cli!EncodeClaude(q)
    [] p = "codex" -> Cli!BuildPromptWithSystemSeparate(q)

(* The options of a call.  (The completion prompt is not part of a call.)  *)
EncodeOptions(p, o) ==
  CASE p = "anthropic" -> Options!anthropicEncodeOptions(o)
    [] p \in OpenAI!Families -> Options!openaiEncodeOptions(o, OpenAI!IsReasoningModel(p))
    [] p = "openrouter" -> Options!buildRequestBody(o)
    [] p = "claude-code" -> Options!cliEncodeOptions(o, {"Temperature"})
    [] p = "codex" -> Options!cliEncodeOptions(o, {})
    [] p = "completion" -> Options!Params(Options!Nothing)

(* EncodeParams, Encode, buildRequestBody: an error in the prompt or in    *)
(* the options and there is no call.                                       *)
Call(p, q, o) ==
  LET request == Encode(p, q)
      params == EncodeOptions(p, o)
  IN IF request.ok /\ params.ok THEN [to |-> p, request |-> request, params |-> params]
     ELSE [to |-> p, request |-> Refused, params |-> Options!RefusedOptions]

(* Only Anthropic's codec writes to the blocks it is given.                *)
AfterSend(p, q) == IF p = "anthropic" THEN Anthropic!AfterMerge(q) ELSE q

(* The answers a provider may give, decoded.                               *)
Answers(p) ==
  CASE p = "anthropic" -> {Anthropic!decodeContent(r) : r \in BoundedSeq(Anthropic!Replies, MaxReply)}
    [] p \in OpenAI!Families -> {OpenAI!decodeContent(r) : r \in BoundedSeq(OpenAI!Replies, MaxReply)}
    [] p \in {"openrouter", "completion"} -> {OpenRouter!decodeChoice(r) : r \in OpenRouter!Replies}
    [] p = "claude-code" -> {Cli!DecodeResponse(r) : r \in Cli!ClaudeReplies}
    [] p = "codex" -> {Decoded(<<Text(TRUE)>>)}

-----------------------------------------------------------------------------
Init == prompt = <<>> /\ options = Options!NoOptions /\ last = NoCall /\ replied = "nobody"

Change(q) == prompt' = q /\ last' = NoCall /\ replied' = "nobody"

(* The bound on a prompt; one that does not open with a text is one block  *)
(* shorter, as there are many.                                             *)
Size(q) == FoldSeq(LAMBDA m, n : n + Len(m.content), 0, q)
OpensWithText(q) == \A j \in DOMAIN q[1].content : q[1].content[j].type = "text"
HasRoom(q) == IF q = <<>> THEN TRUE ELSE Size(q) < (IF OpensWithText(q) THEN MaxBlocks ELSE MaxBlocks - 1)

AddMessage ==
  /\ options = Options!NoOptions /\ Len(prompt) < MaxMessages /\ HasRoom(prompt)
  /\ \E m \in IF prompt = <<>> THEN Openings ELSE Followers : Change(Append(prompt, m))
  /\ UNCHANGED options

AddBlock ==
  /\ options = Options!NoOptions /\ prompt # <<>>
  /\ LET n == Len(prompt)
         m == prompt[n]
     IN /\ ~IsSystem(m) /\ HasRoom(prompt)
        /\ \E b \in Extensions[m.role] : Change([prompt EXCEPT ![n].content = Append(@, b)])
  /\ UNCHANGED options

(* (Bound: options are given to a prompt of one text, which is not         *)
(* continued; the codecs encode them apart from the prompt.)               *)
Configure ==
  /\ options = Options!NoOptions /\ last.to = "nobody"
  /\ Len(prompt) = 1 /\ prompt[1].role = "user" /\ Size(prompt) = 1 /\ OpensWithText(prompt)
  /\ options' \in Configurations
  /\ UNCHANGED <<prompt, last, replied>>

(* Generate, up to the request.  (Bound: one call for each prompt; that a  *)
(* second one would send the same is SendIsQuiet.)                         *)
Send(p) ==
  /\ prompt # <<>> /\ last.to = "nobody"
  /\ p = "completion" => options = Options!NoOptions
  /\ last' = Call(p, prompt, options)
  /\ prompt' = AfterSend(p, prompt)
  /\ UNCHANGED <<options, replied>>

(* The answer to the last request, which the caller adds to the prompt.    *)
Answer ==
  /\ options = Options!NoOptions /\ last.request.ok /\ replied = "nobody" /\ Len(prompt) < MaxMessages /\ HasRoom(prompt)
  /\ \E a \in Answers(last.to) :
       /\ a.ok
       /\ prompt' = Append(prompt, AssistantMessage(a.content, "none"))
       /\ replied' = last.to
       /\ last' = NoCall
  /\ UNCHANGED options

(* The prompt and the options are stored and loaded again; a prompt that   *)
(* cannot be written is not.                                               *)
Reload ==
  /\ prompt # <<>> /\ Storable(prompt)
  /\ ReloadedPrompt(prompt) # prompt \/ Options!ReloadedOptions(options) # options
  /\ Change(ReloadedPrompt(prompt))
  /\ options' = Options!ReloadedOptions(options)

Next == AddMessage \/ AddBlock \/ Configure \/ (\E p \in Providers : Send(p)) \/ Answer \/ Reload

Spec == Init /\ [][Next]_vars

-----------------------------------------------------------------------------
(* The places of a prompt's blocks: the message, and the block of it.      *)
Places(q) == UNION {{i} \X DOMAIN q[i].content : i \in DOMAIN q}
BlockAt(q, at) == q[at[1]].content[at[2]]
InSystem(q, at) == IsSystem(q[at[1]])
IsCall(q, at) == q[at[1]].role = "assistant" /\ BlockAt(q, at).type = "tool-call"

(* The blocks a provider leaves out of an accepted request.  o1-mini says  *)
(* so in a warning; the CLI providers do not.                              *)
LeftOut(p, q) ==
  CASE p = "o1-mini" -> {at \in Places(q) : InSystem(q, at)}
    [] p = "claude-code" -> {at \in Places(q) : BlockAt(q, at).type \in {"image", "file", "reasoning", "source"}}
    [] p = "codex" -> {at \in Places(q) : LET b == BlockAt(q, at)
                                          IN b.type = "source" \/ (b.type = "reasoning" /\ ~b.some)}
    [] OTHER -> {}

(* The order the blocks arrive in: that of the prompt, but the system goes *)
(* first, and OpenRouter puts a message's calls behind its texts.          *)
Earlier(a, b) == a[1] < b[1] \/ (a[1] = b[1] /\ a[2] < b[2])

IsAhead(p, q, a, b) ==
  CASE p \in {"anthropic", "claude-code", "codex"} /\ InSystem(q, a) # InSystem(q, b) -> InSystem(q, a)
    [] p = "openrouter" /\ a[1] = b[1] /\ IsCall(q, a) # IsCall(q, b) -> IsCall(q, b)
    [] OTHER -> Earlier(a, b)

BlocksArrive ==
  last.request.ok =>
    LET items == last.request.items
    IN /\ {items[n].at : n \in DOMAIN items} = Places(prompt) \ LeftOut(last.to, prompt)
       /\ \A n, k \in DOMAIN items : n < k => IsAhead(last.to, prompt, items[n].at, items[k].at)

(* A tool result that says something says it in the request.  Known gaps:  *)
(* OpenAI and OpenRouter do not look at the content of a function's        *)
(* result, claude looks at nothing but its texts, Anthropic prefers a      *)
(* content that is empty, codex one of blank texts, and a screenshot by    *)
(* URL is lost on OpenAI.                                                  *)
GapOf(p, b) ==
  CASE p = "anthropic" -> b.content = <<>>
    [] p \in OpenAI!Families -> (b.name = "function" /\ b.result = "nil")
                                  \/ (b.name = "computer" /\ ~HasText(b.content))
    [] p = "openrouter" -> b.result = "nil"
    [] p = "claude-code" -> ~HasText(b.content)
    [] p = "codex" -> b.content # <<>> /\ ~HasText(b.content)
    [] OTHER -> FALSE

ResultsArrive ==
  \A n \in DOMAIN last.request.items :
    LET item == last.request.items[n]
        b == BlockAt(prompt, item.at)
    IN (b.type = "tool-result" /\ (b.result # "nil" \/ HasText(b.content)) /\ ~GapOf(last.to, b))
         => item.form \notin {"null", "empty"}

(* A cache control set on a block reaches Anthropic with that block        *)
(* (reasoning cannot bear one), and none is sent that was not set on the   *)
(* block or on its message.  One set on a message reaches Anthropic only   *)
(* if the message is merged with another (merge_messages.go:41): what is   *)
(* stated is that it gets nowhere else.                                    *)
MarksArrive ==
  last.to = "anthropic" =>
    \A n \in DOMAIN last.request.items :
      LET item == last.request.items[n]
          b == BlockAt(prompt, item.at)
      IN /\ b.meta = "cache" /\ b.type # "reasoning" => item.mark
         /\ item.mark => "cache" \in {b.meta, prompt[item.at[1]].meta}

(* An accepted request carries every block of the prompt exactly once and  *)
(* in order, with what it says and how it is to be cached, but for what    *)
(* LeftOut, IsAhead and GapOf name (the EncodePrompt of each codec).       *)
NothingLost == BlocksArrive /\ ResultsArrive /\ MarksArrive

(* What a provider answered can be sent to it again: its own codec does    *)
(* not refuse the blocks its own decoder made.  Known: OpenAI and          *)
(* OpenRouter return reasoning, and OpenAI sources, that their encoders    *)
(* refuse (openai encode_prompt.go:314, openrouter encode_prompt.go:168);  *)
(* both keep the arguments a model wrote, or the action of a computer call *)
(* that has none, as they are (openai decode.go:142, openrouter_chat_      *)
(* language_model.go:297) and then fail to write those that are not JSON   *)
(* (encode_prompt.go:295, openrouter encode_prompt.go:187); a completion   *)
(* prompt takes no tool calls at all.  What Anthropic redacts goes back    *)
(* redacted, as long as the prompt is not stored.  (For prompts without    *)
(* metadata of OpenAI's on a message: see SendIsQuiet.)                    *)
HasNoJson(b) == b.type = "tool-call" /\ b.args \in Unwritable

Unsendable(p, b) ==
  CASE p \in OpenAI!Families -> b.type \in {"reasoning", "source"} \/ HasNoJson(b)
    [] p = "openrouter" -> b.type = "reasoning" \/ HasNoJson(b)
    [] p = "completion" -> b.type \in {"reasoning", "tool-call"}
    [] OTHER -> FALSE

(* Metadata of OpenAI's on a message, where its codec does not look.       *)
SetOnMessage(q) == \E i \in DOMAIN q : q[i].meta \in OpenAIMetas

RepliesCanBeSent ==
  replied # "nobody" /\ ~SetOnMessage(prompt) =>
    LET reply == prompt[Len(prompt)].content
        request == Encode(replied, prompt)
    IN /\ request.ok <=> \A j \in DOMAIN reply : ~Unsendable(replied, reply[j])
       /\ replied = "anthropic" =>
            \A k \in DOMAIN request.items :
              LET b == BlockAt(prompt, request.items[k].at)
              IN b.type = "reasoning" /\ ~b.some /\ b.meta = "redacted" => request.items[k].kind = "redacted_thinking"

(* A call does not change what a later one sends, to whatever provider:    *)
(* not even when Anthropic's codec writes a message's metadata into the    *)
(* caller's block.  Known: metadata of OpenAI's that was set on a message, *)
(* where OpenAI's codec does not look, then sits on an image, where it     *)
(* does (merge_messages.go:163).                                           *)
SendIsQuiet ==
  [][\A p \in Providers : Send(p) /\ prompt' # prompt =>
       \A q \in Providers :
         \/ Encode(q, prompt') = Encode(q, prompt)
         \/ /\ p = "anthropic" /\ q \in OpenAI!Families
            /\ SetOnMessage(prompt)]_vars

(* Storing a prompt as JSON and loading it does not change the requests    *)
(* made of it.  Known: a codec's own metadata is not recognised any more   *)
(* (llm_provider_metadata.go:78 and 101), empty data and empty contents    *)
(* are gone, arguments that were nil, which claude is sent without, are    *)
(* null, and a value that codex prints in Go's notation looks different.   *)
OwnMetas(p) == CASE p = "anthropic" -> AnthropicMetas
                 [] p \in OpenAI!Families -> OpenAIMetas
                 [] OTHER -> {}

OwnOptionMetas(p) ==
  CASE p = "anthropic" -> {"thinking", "noBudget"}
    [] p \in OpenAI!Families -> IF OpenAI!IsReasoningModel(p) THEN {"reasoning"} ELSE {}
    [] OTHER -> {}

(* The blocks of a prompt and those inside its tool results.               *)
BlocksIn(q) == {BlockAt(q, at) : at \in Places(q)}
Inner(q) == UNION {ToSet(b.content) : b \in {x \in BlocksIn(q) : x.type = "tool-result"}}

ChangesByStorage(p, q) ==
  \/ \E i \in DOMAIN q : q[i].meta \in OwnMetas(p)
  \/ \E b \in BlocksIn(q) \cup Inner(q) :
       \/ b.meta \in OwnMetas(p)
       \/ b.type \in {"image", "file"} /\ b.from = "emptyData"
       \/ p = "claude-code" /\ b.type = "tool-call" /\ b.args = "nil"
       \/ b.type = "tool-result" /\ (b.content = <<>> \/ (p = "codex" /\ b.result = "value"))

StoredIsSame ==
  [][Reload => \A p \in Providers :
       /\ Encode(p, prompt') = Encode(p, prompt) \/ ChangesByStorage(p, prompt)
       /\ EncodeOptions(p, options') = EncodeOptions(p, options) \/ options.meta \in OwnOptionMetas(p)]_vars

(* In an accepted call every setting, tool and choice of a tool that is    *)
(* set is either sent or warned of, never both and never neither, nothing  *)
(* else is sent but the provider's own metadata, and a beta is asked for   *)
(* only with a tool that needs it.  Known: under Anthropic's thinking the  *)
(* sampling settings are sent and warned of at once (encode_params.go:143); *)
(* headers are silently dropped by Anthropic and OpenAI; OpenRouter        *)
(* silently drops top-k, stop sequences, tools that are not functions and  *)
(* unknown choices; metadata that is not the provider's own, and           *)
(* reasoning options of a model that does not reason, are ignored; a text  *)
(* format is the default.  A choice of no tool is obeyed by taking         *)
(* Anthropic's tools away, and its betas stay.                             *)
SilentlyDropped(p) ==
  CASE p \in OpenAI!Families \cup {"anthropic"} -> {"Headers"}
    [] p = "openrouter" -> {"TopK", "StopSequences"}
    [] OTHER -> {}

SentAndWarned(p, o) ==
  IF p = "anthropic" /\ o.meta = "thinking" THEN {"Temperature", "TopP", "TopK"} ELSE {}

SettingsAccounted(p, o, r) ==
  LET asked == o.settings \cup Options!FormatIf(o, Options!JsonFormats)
  IN /\ (r.sent \cup r.warned) \cap asked = asked \ SilentlyDropped(p)
     /\ r.sent \ asked = {o.meta} \cap OwnOptionMetas(p)
     /\ r.sent \cap r.warned = asked \cap SentAndWarned(p, o)

ToolsAccounted(p, o, r) ==
  /\ r.tools \cap r.warnedTools = {}
  /\ CASE p \in {"claude-code", "codex"} -> r.tools = {} /\ ("tools" \in r.warned <=> o.tools # <<>>)
       [] p = "openrouter" -> \A n \in DOMAIN o.tools : n \in r.tools \/ o.tools[n] \notin Options!FunctionTools
       [] p = "anthropic" /\ o.choice = "none" -> r.tools = {} /\ r.choice = "unset"
       [] OTHER -> r.tools \cup r.warnedTools = DOMAIN o.tools

ChoiceAccounted(p, o, r) ==
  LET isSent == r.choice # "unset"
      isWarned == "choice" \in r.warned
      isObeyed == o.choice = "none" /\ r.tools = {}
  IN /\ isSent => r.choice = o.choice /\ ~isWarned
     /\ isWarned => o.choice # "unset"
     /\ o.choice # "unset" => isSent \/ isWarned \/ isObeyed \/ (p = "openrouter" /\ o.choice = "other")

BetasFollowTools(p, o, r) ==
  p = "anthropic" /\ o.choice # "none" =>
    r.betas = {o.tools[n] : n \in r.tools} \cap Options!AnthropicTools

OptionsAccounted ==
  last.request.ok /\ last.to # "completion" =>
    LET r == last.params.params
    IN SettingsAccounted(last.to, options, r) /\ ToolsAccounted(last.to, options, r)
         /\ ChoiceAccounted(last.to, options, r) /\ BetasFollowTools(last.to, options, r)
=============================================================================
