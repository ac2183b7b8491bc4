--------------------------- MODULE ResponseBuilder ---------------------------
(***************************************************************************)
(* builder/builder.go and builder/convert.go: StreamToResponse feeds every *)
(* event of a stream to a ResponseBuilder and builds a response from what  *)
(* it collected.  One variable per field of the builder that a property    *)
(* can tell apart; AddEvent(e) is one iteration of the loop.               *)
(*                                                                         *)
(* Text, reasoning, arguments and signatures are sequences of fragments.   *)
(***************************************************************************)
EXTENDS Integers, Sequences

CONSTANTS
  IDs,        (* tool calls, sources and responses                         *)
  NoID,       (* the empty string                                          *)
  Fragments,  (* pieces of text, of reasoning and of tool arguments        *)
  Reasons     (* finish reasons                                            *)

ASSUME IDsAssumption == NoID \notin IDs

VARIABLES
  content,          (* resp.Content                                        *)
  toolCallIndices,  (* block of each tool call                             *)
  currentState,
  responseID,
  finishReason,     (* resp.FinishReason                                   *)
  usage,            (* resp.Usage                                          *)
  err,              (* an error event was added                            *)
  result            (* what StreamToResponse returned                      *)

builderVars == <<content, toolCallIndices, currentState, responseID, finishReason, usage, err,
                 result>>

NoReason == ""
States == {"no", "text", "reasoning", "toolCall", "source", "file", "finished"}
BlockTypes == {"text", "reasoning", "tool", "source", "file"}
Results == {"none", "rejected", "error", "response"}

Blocks == [type: BlockTypes, id: IDs \cup {NoID}, data: Seq(Fragments), signature: Seq(Fragments)]

Events ==
  [type: {"text-delta", "reasoning", "reasoning-signature", "file"}, data: Seq(Fragments)]
    \cup [type: {"tool-call", "tool-call-delta"}, id: IDs \cup {NoID}, data: Seq(Fragments)]
    \cup [type: {"source", "response-metadata"}, id: IDs \cup {NoID}]
    \cup [type: {"finish"}, reason: Reasons, usage: Nat]
    \cup [type: {"error"}]

-----------------------------------------------------------------------------
(* The blocks. *)

Block(type, id, data) == [type |-> type, id |-> id, data |-> data, signature |-> <<>>]

(* A slip: the type of the last block is not asked. *)
LastIs_Any(type) == content # <<>>

LastIs(type) == content # <<>> /\ content[Len(content)].type = type

(* A slip: the last fragment is all that is kept. *)
Extended_Replaced(n, data) == [content EXCEPT ![n].data = data]

(* The content once data is added to its n-th block. *)
Extended(n, data) == [content EXCEPT ![n].data = @ \o data]

(* The indices once id is the block at position n. *)
Indexed(id, n) ==
  [i \in DOMAIN toolCallIndices \cup {id} |-> IF i = id THEN n ELSE toolCallIndices[i]]

NewResponseBuilder ==
  /\ content = <<>>
  /\ toolCallIndices = [i \in {} |-> 0]
  /\ currentState = "no"
  /\ responseID = NoID
  /\ finishReason = NoReason
  /\ usage = 0
  /\ err = FALSE
  /\ result = "none"

-----------------------------------------------------------------------------
(* One operator per event type.  An error of AddEvent is the result. *)

Reject ==
  /\ result' = "rejected"
  /\ UNCHANGED <<content, toolCallIndices, currentState, responseID, finishReason, usage, err>>

addTextDelta(e) ==
  /\ IF LastIs("text")
     THEN /\ content' = Extended(Len(content), e.data)
          /\ UNCHANGED currentState
     ELSE /\ content' = Append(content, Block("text", NoID, e.data))
          /\ currentState' = "text"
  /\ UNCHANGED <<toolCallIndices, responseID, finishReason, usage, err, result>>

addReasoning(e) ==
  \/ /\ LastIs("reasoning")
     /\ content' = Extended(Len(content), e.data)
     /\ UNCHANGED <<toolCallIndices, currentState, responseID, finishReason, usage, err, result>>
  \/ /\ ~LastIs("reasoning") /\ currentState \in {"no", "reasoning"}
     /\ content' = Append(content, Block("reasoning", NoID, e.data))
     /\ currentState' = "reasoning"
     /\ UNCHANGED <<toolCallIndices, responseID, finishReason, usage, err, result>>
  \/ /\ ~LastIs("reasoning") /\ currentState \notin {"no", "reasoning"}
     /\ Reject

addReasoningSignature(e) ==
  IF LastIs("reasoning")
  THEN /\ content' = [content EXCEPT ![Len(content)].signature = e.data]
       /\ UNCHANGED <<toolCallIndices, currentState, responseID, finishReason, usage, err, result>>
  ELSE Reject

(* A slip: a second call with the same id is not noticed. *)
addToolCall_Unchecked(e) ==
  /\ currentState' = "toolCall"
  /\ content' = Append(content, Block("tool", e.id, e.data))
  /\ toolCallIndices' = Indexed(e.id, Len(content) + 1)
  /\ UNCHANGED <<responseID, finishReason, usage, err, result>>

addToolCall(e) ==
  IF e.id \in DOMAIN toolCallIndices
  THEN Reject
  ELSE /\ currentState' = "toolCall"
       /\ content' = Append(content, Block("tool", e.id, e.data))
       /\ toolCallIndices' = Indexed(e.id, Len(content) + 1)
       /\ UNCHANGED <<responseID, finishReason, usage, err, result>>

(* A slip: the index of a new block is taken before it is appended.        *)
addToolCallDelta_TooEarly(e) ==
  /\ currentState' = "toolCall"
  /\ IF e.id \in DOMAIN toolCallIndices
     THEN content' = Extended(toolCallIndices[e.id], e.data) /\ UNCHANGED toolCallIndices
     ELSE /\ content' = Append(content, Block("tool", e.id, e.data))
          /\ toolCallIndices' = Indexed(e.id, Len(content))
  /\ UNCHANGED <<responseID, finishReason, usage, err, result>>

addToolCallDelta(e) ==
  /\ currentState' = "toolCall"
  /\ IF e.id \in DOMAIN toolCallIndices
     THEN /\ content' = Extended(toolCallIndices[e.id], e.data)
          /\ UNCHANGED toolCallIndices
     ELSE /\ content' = Append(content, Block("tool", e.id, e.data))
          /\ toolCallIndices' = Indexed(e.id, Len(content) + 1)
  /\ UNCHANGED <<responseID, finishReason, usage, err, result>>

addSource(e) ==
  /\ currentState' = "source"
  /\ content' = Append(content, Block("source", e.id, <<>>))
  /\ UNCHANGED <<toolCallIndices, responseID, finishReason, usage, err, result>>

addFile(e) ==
  /\ currentState' = "file"
  /\ content' = Append(content, Block("file", NoID, e.data))
  /\ UNCHANGED <<toolCallIndices, responseID, finishReason, usage, err, result>>

(* A slip: metadata that comes again is refused, whatever its id. *)
addResponseMetadata_Once(e) ==
  IF responseID = NoID
  THEN /\ responseID' = e.id
       /\ UNCHANGED <<content, toolCallIndices, currentState, finishReason, usage, err, result>>
  ELSE Reject

addResponseMetadata(e) ==
  IF responseID \in {NoID, e.id}
  THEN /\ responseID' = e.id
       /\ UNCHANGED <<content, toolCallIndices, currentState, finishReason, usage, err, result>>
  ELSE Reject

(* A usage of zero leaves what was there. *)
addFinish(e) ==
  /\ currentState' = "finished"
  /\ finishReason' = e.reason
  /\ usage' = IF e.usage = 0 THEN usage ELSE e.usage
  /\ UNCHANGED <<content, toolCallIndices, responseID, err, result>>

addError(e) ==
  /\ err' = TRUE
  /\ UNCHANGED <<content, toolCallIndices, currentState, responseID, finishReason, usage, result>>

AddEvent(e) ==
  /\ result = "none"
  /\ \/ currentState = "finished" /\ Reject
     \/ /\ currentState # "finished"
        /\ \/ e.type = "text-delta" /\ addTextDelta(e)
           \/ e.type = "reasoning" /\ addReasoning(e)
           \/ e.type = "reasoning-signature" /\ addReasoningSignature(e)
           \/ e.type = "tool-call" /\ addToolCall(e)
           \/ e.type = "tool-call-delta" /\ addToolCallDelta(e)
           \/ e.type = "source" /\ addSource(e)
           \/ e.type = "file" /\ addFile(e)
           \/ e.type = "response-metadata" /\ addResponseMetadata(e)
           \/ e.type = "finish" /\ addFinish(e)
           \/ e.type = "error" /\ addError(e)

(* A slip: the stored error is forgotten. *)
Build_Forgets ==
  /\ result = "none"
  /\ result' = "response"
  /\ UNCHANGED <<content, toolCallIndices, currentState, responseID, finishReason, usage, err>>

(* The stream is over: Build returns the stored error, or the response. *)
Build ==
  /\ result = "none"
  /\ result' = IF err THEN "error" ELSE "response"
  /\ UNCHANGED <<content, toolCallIndices, currentState, responseID, finishReason, usage, err>>

BuilderNext == (\E e \in Events : AddEvent(e)) \/ Build

BuilderSpec == NewResponseBuilder /\ [][BuilderNext]_builderVars

-----------------------------------------------------------------------------
(* Properties. *)

BuilderTypeOK ==
  /\ content \in Seq(Blocks)
  /\ DOMAIN toolCallIndices \subseteq IDs \cup {NoID}
  /\ \A i \in DOMAIN toolCallIndices : toolCallIndices[i] \in 1..Len(content)
  /\ currentState \in States
  /\ responseID \in IDs \cup {NoID}
  /\ finishReason \in Reasons \cup {NoReason}
  /\ usage \in Nat
  /\ err \in BOOLEAN
  /\ result \in Results

(* The map of tool calls finds every tool block, each under its own id, so *)
(* that the arguments of parallel calls never mix (builder.go:172, 182).   *)
ToolCallsIndexed ==
  /\ \A i \in DOMAIN toolCallIndices :
       content[toolCallIndices[i]].type = "tool" /\ content[toolCallIndices[i]].id = i
  /\ \A n \in 1..Len(content) :
       content[n].type = "tool" =>
         content[n].id \in DOMAIN toolCallIndices /\ toolCallIndices[content[n].id] = n

(* What old holds is still there, and comes first. *)
Begins(old, new) == Len(old) <= Len(new) /\ \A k \in 1..Len(old) : new[k] = old[k]

BlockGrows(old, new) ==
  /\ new.type = old.type /\ new.id = old.id
  /\ Begins(old.data, new.data)

(* This step signs block n, the last one, and does nothing else. *)
Signs(n) ==
  /\ n = Len(content) /\ content[n].type = "reasoning"
  /\ content' = [content EXCEPT ![n].signature = content'[n].signature]

(* An event adds: a block stays where it is, of the same type and id, and  *)
(* its text, reasoning or arguments are not changed by a later fragment.   *)
(* The one field that an event replaces is the signature (builder.go:149), *)
(* although api/llm_events.go:78 calls the event an "incremental signature *)
(* update": of several, the last is kept.  It is that of the reasoning     *)
(* block which comes last, and the event touches nothing else.             *)
ContentGrows ==
  [][ /\ Len(content) <= Len(content')
      /\ \A n \in 1..Len(content) :
           /\ BlockGrows(content[n], content'[n])
           /\ content'[n].signature # content[n].signature => Signs(n) ]_builderVars
=============================================================================
