----------------------------- MODULE EventStreams ----------------------------
(***************************************************************************)
(* StreamToResponse over the stream of any provider: the decoders of       *)
(* OpenAI, codex, claude code and OpenRouter composed with the             *)
(* ResponseBuilder, and a provider of the program's own ("any"), whose     *)
(* events may come in any order.                                           *)
(***************************************************************************)
EXTENDS OpenAIStream, CodexStream, ClaudeStream, OpenRouterStream

CONSTANTS MaxBlocks   (* bound: blocks of a stream in any order            *)

(* The ids, fragments and reasons that are on the wire are among those the *)
(* builder is given.                                                       *)
ASSUME WireAssumption ==
  /\ (1..MaxItems) \cup (1..MaxSources) \cup (1..MaxMessages) \cup {1, 2} \subseteq IDs
  /\ (0..MaxItems) \X (0..MaxFragments) \subseteq Fragments
  /\ {"stop", "length", "content-filter", "tool-calls", "unknown"} \subseteq Reasons
  /\ MaxSources \in Nat /\ MaxMessages \in Nat

(* The providers of an instance are among those that are modelled. *)
ASSUME ProvidersAssumption ==
  Providers \subseteq {"openai", "codex", "claude", "openrouter", "any"}

vars == <<builderVars, streamVars, openAIVars, codexVars, claudeVars, openRouterVars>>

TypeOK ==
  /\ BuilderTypeOK
  /\ StreamTypeOK
  /\ OpenAITypeOK
  /\ CodexTypeOK
  /\ ClaudeTypeOK
  /\ OpenRouterTypeOK

Init ==
  /\ NewResponseBuilder
  /\ StreamInit
  /\ OpenAIInit
  /\ CodexInit
  /\ ClaudeInit
  /\ OpenRouterInit

(* One fragment, two signatures, two ids and two reasons are enough to     *)
(* meet every case of every handler of the builder.                        *)
SomeEvents ==
  [type: {"text-delta", "reasoning", "file"}, data: {<< <<0, 1>> >>}]
    \cup [type: {"reasoning-signature"}, data: {<< <<0, 0>> >>, << <<0, 1>> >>}]
    \cup [type: {"tool-call", "tool-call-delta"}, id: {1, 2}, data: {<< <<0, 1>> >>}]
    \cup [type: {"source", "response-metadata"}, id: {1, 2}]
    \cup [type: {"finish"}, reason: {"stop", "unknown"}, usage: 0..1]
    \cup [type: {"error"}]

AnyEvent ==
  /\ Reading("any")
  /\ Len(content) < MaxBlocks
  /\ \A n \in DOMAIN content : Len(content[n].data) <= 1
  /\ \E e \in SomeEvents : AddEvent(e)
  /\ Continue

AnyEnd ==
  /\ Reading("any")
  /\ Silent
  /\ Move("over", {})

Next ==
  \/ OpenAINext /\ UNCHANGED <<codexVars, claudeVars, openRouterVars>>
  \/ CodexNext /\ UNCHANGED <<openAIVars, claudeVars, openRouterVars>>
  \/ ClaudeNext /\ UNCHANGED <<openAIVars, codexVars, openRouterVars>>
  \/ OpenRouterNext /\ UNCHANGED <<openAIVars, codexVars, claudeVars>>
  \/ (AnyEvent \/ AnyEnd \/ StreamOver)
       /\ UNCHANGED <<openAIVars, codexVars, claudeVars, openRouterVars>>

Spec == Init /\ [][Next]_vars

-----------------------------------------------------------------------------
(* Properties. *)

(* What the model wrote arrives, in order, once, and nothing else does:    *)
(* text and reasoning of every provider, and the sources of OpenAI, each   *)
(* with an id of its own (decode_stream.go:55).                            *)
ContentArrives ==
  (provider # "any" /\ result # "rejected") =>
    /\ Arrives("text") /\ Arrives("reasoning")
    /\ LET sources == {n \in DOMAIN content : content[n].type = "source"} IN
         /\ {content[n].id : n \in sources} = 1..annotationCounter
         /\ \A m, n \in sources : content[m].id = content[n].id => m = n

(* The arguments of a tool call of OpenAI or OpenRouter are its own,       *)
(* however the deltas of parallel calls interleave (decode_stream.go:33,   *)
(* openrouter_chat_language_model.go:413); a call without arguments leaves *)
(* no trace of an OpenRouter stream.                                       *)
ToolArgumentsArrive ==
  (provider \in {"openai", "openrouter"} /\ result # "rejected") =>
    \A i \in DOMAIN items :
      items[i].kind = "tool" /\ (provider = "openrouter" => items[i].sent > 0) =>
        \E n \in DOMAIN content :
          content[n].type = "tool" /\ content[n].id = i /\ content[n].data = ItemData(i)

(* The output of a command of codex is its own and is complete, however    *)
(* the outputs of parallel commands interleave (openai-codex/llm.go:583),  *)
(* and the reasoning in the metadata is what was sent, in order and once.  *)
CommandOutputIsOwn ==
  provider = "codex" =>
    /\ \A n \in DOMAIN commandExecutions :
         commandExecutions[n].output = ItemData(commandExecutions[n].command)
    /\ {commandExecutions[n].command : n \in DOMAIN commandExecutions}
         = {i \in DOMAIN items : items[i].kind = "command" /\ ~items[i].open}
    /\ {reasoning[k] : k \in DOMAIN reasoning} = Sent("reasoning")
    /\ \A k, l \in DOMAIN reasoning : k < l => Before(reasoning[k], reasoning[l])

(* What interleaves on the wire is told apart again: the arguments of      *)
(* parallel tool calls and the outputs of parallel commands.               *)
InterleavedIsOwn == ToolArgumentsArrive /\ CommandOutputIsOwn

(* The errors of which a decoder makes no event at all: of OpenAI, the     *)
(* response.failed that ends a response, which becomes a finish like any   *)
(* other (decode_stream.go:337); of OpenRouter, a chunk with an error and  *)
(* a status other than 200 (openrouter_chat_language_model.go:386).        *)
PassedOver == {"failed", "chunk", "status"}

(* A stream that has met an error is never built into a response, whatever *)
(* comes after the error, unless it is one of those that are passed over   *)
(* and the stream met no other.                                            *)
ErrorsSurface == result = "response" => errors \subseteq PassedOver

(* A response built from a stream the server ended says why it ended as    *)
(* the response decoded without streaming would, and what it cost.  Two    *)
(* exceptions: the stream does not see hosted tools (decode_stream.go:285) *)
(* and does not read the usage of an incomplete or failed response (337).  *)
AgreesWithGenerate ==
  (provider = "openai" /\ result = "response" /\ served # "no") =>
    /\ (\A i \in DOMAIN items : items[i].kind # "hosted") => finishReason = DecodedFinishReason
    /\ served = "completed" => usage = billed

(* The streams that cannot be built into a response are these: of OpenAI,  *)
(* one with a completed function call; of OpenAI, codex and OpenRouter,    *)
(* one whose reasoning comes after something else, be it an empty text of  *)
(* OpenRouter; of OpenRouter, one that fails after its finish event; of    *)
(* claude code, one that goes on after the first message.                  *)
LateReasoning ==
  \E i, k \in DOMAIN items :
    k < i /\ items[i].kind = "reasoning" /\ items[k].kind \in {"text", "tool"}

RejectedAsKnown ==
  result = "rejected" =>
    \/ provider = "any"
    \/ provider = "openai" /\ \E i \in DOMAIN items : items[i].kind = "tool" /\ ~items[i].open
    \/ provider \in {"openai", "codex", "openrouter"} /\ LateReasoning
    \/ provider = "openrouter" /\ \E n \in DOMAIN content : content[n].type = "text" /\ content[n].data = <<>>
    \/ provider = "openrouter" /\ ended
    \/ provider = "claude" /\ currentState = "finished"

-----------------------------------------------------------------------------
(* A claim that the code does not keep. *)

(* api/llm_events.go:166: "FinishEvent represents the final part of the    *)
(* stream": nothing comes after the one a stream ends with.                *)
FinishIsFinal ==
  (provider = "claude" /\ errors = {} /\ result = "rejected") => currentState # "finished"
=============================================================================
