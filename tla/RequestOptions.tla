----------------------------- MODULE RequestOptions -----------------------------
(***************************************************************************)
(* The options of a call (api/llm_call_options.go, llm_tool.go) and what   *)
(* each provider makes of them: the settings and tools it sends and the    *)
(* warnings it returns (anthropic/codec/encode_params.go, encode_tools.go, *)
(* openai/internal/codec/encode.go, encode_tools.go, buildRequestBody of   *)
(* OpenRouter, internal/cli/warnings.go).  A setting is set or not: its    *)
(* value is sent as it is.                                                 *)
(***************************************************************************)
EXTENDS Naturals, SequencesExt

Settings == {"MaxOutputTokens", "Temperature", "TopP", "TopK", "PresencePenalty", "FrequencyPenalty",
             "StopSequences", "Seed", "Headers"}
(* The format of the answer: a text, or JSON, by a schema (or none) whose  *)
(* root is an object or by another.                                        *)
JsonFormats == {"json", "jsonArray"}
Formats == {"none", "text"} \cup JsonFormats

(* The metadata of a call: Anthropic's thinking, with or without a budget, *)
(* OpenAI's reasoning effort (its other options are left out), or any of   *)
(* them as read from JSON.                                                 *)
OptionMetas == {"none", "thinking", "noBudget", "reasoning", "loaded"}

(* A tool: a function by its schema (an object, another type, or none),    *)
(* Anthropic's tools by their version (the current one is the default),    *)
(* OpenAI's with valid arguments or not, and one of another provider.      *)
FunctionTools == {"function", "arrayFunction", "bareFunction"}
AnthropicTools == {"anthropic", "anthropicOld", "anthropicBad"}
OpenAITools == {"openai", "openaiBad"}
Tools == FunctionTools \cup AnthropicTools \cup OpenAITools \cup {"other"}

(* A choice of a tool, "tool", is by its name.                             *)
ToolChoices == {"unset", "auto", "none", "required", "tool", "other"}

CallOptions ==
  [settings : SUBSET Settings, format : Formats, meta : OptionMetas, tools : Seq(Tools), choice : ToolChoices]

NoOptions ==
  [settings |-> {}, format |-> "none", meta |-> "none", tools |-> <<>>, choice |-> "unset"]

(* MarshalJSON then UnmarshalJSON: the types of the tools are written and  *)
(* their arguments are taken as maps as well, the metadata is not.         *)
ReloadedOptions(o) == [o EXCEPT !.meta = IF @ = "none" THEN @ ELSE "loaded"]

-----------------------------------------------------------------------------
(* What becomes of the options: what is sent (settings; "format", the name *)
(* of the metadata), the tools by their places, the choice, Anthropic's    *)
(* betas; and the warnings, of settings, "format", "tools" and "choice" or *)
(* of single tools.                                                        *)
Nothing == [sent |-> {}, tools |-> {}, choice |-> "unset", betas |-> {}, warned |-> {}, warnedTools |-> {}]
RefusedOptions == [ok |-> FALSE, params |-> Nothing]
Params(params) == [ok |-> TRUE, params |-> params]

FormatIf(o, formats) == IF o.format \in formats THEN {"format"} ELSE {}
Places(o, kinds) == {n \in DOMAIN o.tools : o.tools[n] \in kinds}
Has(o, kinds) == Places(o, kinds) # {}

-----------------------------------------------------------------------------
(* Anthropic.  A function must have an object schema: another type is an   *)
(* error, none at all a nil dereference; either way there is no request.   *)
anthropicEncodeThinking(o) ==
  IF o.meta = "thinking" THEN o.settings \cap {"Temperature", "TopK", "TopP"} ELSE {}

anthropicUnsupported(o) ==
  (o.settings \cap {"FrequencyPenalty", "PresencePenalty", "Seed"}) \cup FormatIf(o, JsonFormats)

anthropicSettings(o) ==
  (o.settings \cap {"MaxOutputTokens", "Temperature", "TopP", "TopK", "StopSequences"})
    \cup (IF o.meta = "thinking" THEN {"thinking"} ELSE {})

(* EncodeTools: a choice of no tool takes the tools away, not the betas.   *)
anthropicToolsOf(o) == IF o.choice = "none" THEN {} ELSE Places(o, {"function", "anthropic", "anthropicOld"})

anthropicBetas(o) ==
  (IF Has(o, {"anthropic"}) THEN {"anthropic"} ELSE {}) \cup (IF Has(o, {"anthropicOld"}) THEN {"anthropicOld"} ELSE {})

EncodeToolChoice(o) == IF o.choice = "none" THEN "unset" ELSE o.choice

anthropicEncodeOptions(o) ==
  IF o.meta = "noBudget" \/ Has(o, {"arrayFunction", "bareFunction", "anthropicBad"}) \/ o.choice = "other"
  THEN RefusedOptions
  ELSE Params([sent |-> anthropicSettings(o), tools |-> anthropicToolsOf(o), choice |-> EncodeToolChoice(o),
               betas |-> anthropicBetas(o), warned |-> anthropicUnsupported(o) \cup anthropicEncodeThinking(o),
               warnedTools |-> Places(o, OpenAITools \cup {"other"})])

-----------------------------------------------------------------------------
(* OpenAI.  A reasoning model takes neither temperature nor top-p, and     *)
(* only it takes reasoning options.                                        *)
unsupportedWarnings(o) ==
  o.settings \cap {"FrequencyPenalty", "PresencePenalty", "TopK", "Seed", "StopSequences"}

reasoningUnsupported_Silent(o, reasons) == {}

reasoningUnsupported(o, reasons) == IF reasons THEN o.settings \cap {"Temperature", "TopP"} ELSE {}

applyCallOptions(o, reasons) ==
  ((o.settings \cap {"Temperature", "TopP", "MaxOutputTokens"}) \ (IF reasons THEN {"Temperature", "TopP"} ELSE {}))
    \cup FormatIf(o, JsonFormats)
    \cup (IF reasons /\ o.meta = "reasoning" THEN {"reasoning"} ELSE {})

(* encodeSchema: the root of a schema is an object; a function may be      *)
(* without any.                                                            *)
HasBadSchema(o) == o.format = "jsonArray" \/ Has(o, {"arrayFunction"})

encodeToolDefinition(o) == Places(o, {"function", "bareFunction", "openai"})

openaiEncodeOptions(o, reasons) ==
  IF HasBadSchema(o) \/ Has(o, {"openaiBad"}) \/ o.choice = "other" THEN RefusedOptions
  ELSE Params([sent |-> applyCallOptions(o, reasons), tools |-> encodeToolDefinition(o), choice |-> o.choice,
               betas |-> {}, warned |-> unsupportedWarnings(o) \cup reasoningUnsupported(o, reasons),
               warnedTools |-> Places(o, AnthropicTools \cup {"other"})])

-----------------------------------------------------------------------------
(* OpenRouter: no warnings, no errors; headers go with the HTTP request.   *)
buildRequestBody(o) ==
  Params([sent |-> (o.settings \ {"TopK", "StopSequences"}) \cup FormatIf(o, JsonFormats),
          tools |-> Places(o, FunctionTools),
          choice |-> IF o.choice = "other" THEN "unset" ELSE o.choice,
          betas |-> {}, warned |-> {}, warnedTools |-> {}])

-----------------------------------------------------------------------------
(* The CLIs: what is set and not supported is warned of.  claude is given  *)
(* the temperature when it is started, codex nothing.                      *)
CallOptionWarnings(o, supported) ==
  (o.settings \ supported) \cup FormatIf(o, {"text"} \cup JsonFormats)
    \cup (IF o.tools # <<>> THEN {"tools"} ELSE {}) \cup (IF o.choice # "unset" THEN {"choice"} ELSE {})

cliEncodeOptions(o, supported) ==
  Params([Nothing EXCEPT !.sent = o.settings \cap supported, !.warned = CallOptionWarnings(o, supported)])
=============================================================================
