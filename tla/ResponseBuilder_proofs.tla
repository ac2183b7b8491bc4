------------------------ MODULE ResponseBuilder_proofs ------------------------
(***************************************************************************)
(* Proofs about the ResponseBuilder: for any events, in any order, its     *)
(* fields are well typed, its map of tool calls is exact, and what a block *)
(* holds is never lost.                                                    *)
(***************************************************************************)
EXTENDS ResponseBuilder, TLAPS

-----------------------------------------------------------------------------
(* The blocks. *)

(* A new block is a block. *)
LEMMA BlockType ==
  ASSUME NEW type \in BlockTypes, NEW id \in IDs \cup {NoID}, NEW data \in Seq(Fragments)
  PROVE  Block(type, id, data) \in Blocks
BY DEF Block, Blocks

(* What a block of the content holds. *)
LEMMA BlockData ==
  ASSUME content \in Seq(Blocks), NEW k \in 1..Len(content)
  PROVE  content[k] \in Blocks /\ content[k].data \in Seq(Fragments)
<1>1. content[k] \in Blocks
  OBVIOUS
<1> QED  BY <1>1 DEF Blocks

(* Adding to a block keeps the content a sequence of blocks, of the same   *)
(* length, types and ids.                                                  *)
LEMMA ExtendedType ==
  ASSUME content \in Seq(Blocks), NEW n \in 1..Len(content), NEW data \in Seq(Fragments)
  PROVE  /\ Extended(n, data) \in Seq(Blocks)
         /\ Len(Extended(n, data)) = Len(content)
         /\ \A k \in 1..Len(content) :
              /\ Extended(n, data)[k].type = content[k].type
              /\ Extended(n, data)[k].id = content[k].id
              /\ Extended(n, data)[k].signature = content[k].signature
              /\ Extended(n, data)[k].data =
                   IF k = n THEN content[k].data \o data ELSE content[k].data
<1>1. content[n] \in Blocks
  OBVIOUS
<1>2. content[n].data \o data \in Seq(Fragments)
  BY BlockData
<1>3. [content[n] EXCEPT !.data = @ \o data] \in Blocks
  BY <1>1, <1>2 DEF Blocks
<1>4. Extended(n, data) = [content EXCEPT ![n] = [content[n] EXCEPT !.data = @ \o data]]
  BY DEF Extended
<1>5. Extended(n, data) \in Seq(Blocks) /\ Len(Extended(n, data)) = Len(content)
  BY <1>3, <1>4
<1>6. ASSUME NEW k \in 1..Len(content)
      PROVE  /\ Extended(n, data)[k].type = content[k].type
             /\ Extended(n, data)[k].id = content[k].id
             /\ Extended(n, data)[k].signature = content[k].signature
             /\ Extended(n, data)[k].data =
                  IF k = n THEN content[k].data \o data ELSE content[k].data
  <2>1. CASE k = n
    BY <2>1, <1>1, <1>4 DEF Blocks
  <2>2. CASE k # n
    BY <2>2, <1>4
  <2> QED  BY <2>1, <2>2
<1> QED  BY <1>5, <1>6

(* The last block, when there is one. *)
LEMMA LastInContent ==
  ASSUME content \in Seq(Blocks), NEW type, LastIs(type)
  PROVE  Len(content) \in 1..Len(content) /\ content[Len(content)].type = type
BY DEF LastIs

(* What an event of each type carries. *)
LEMMA EventData ==
  ASSUME NEW e \in Events
  PROVE  /\ e.type \in {"text-delta", "reasoning", "reasoning-signature", "file", "tool-call",
                        "tool-call-delta"} => e.data \in Seq(Fragments)
         /\ e.type \in {"tool-call", "tool-call-delta", "source", "response-metadata"}
              => e.id \in IDs \cup {NoID}
         /\ e.type = "finish" => e.reason \in Reasons /\ e.usage \in Nat
BY DEF Events

-----------------------------------------------------------------------------
(* Types. *)

(* A refused event changes nothing but the result. *)
LEMMA RejectType ==
  ASSUME BuilderTypeOK, Reject
  PROVE  BuilderTypeOK'
BY DEF BuilderTypeOK, Reject, Results

(* A new block at the end leaves every index in range. *)
LEMMA AppendType ==
  ASSUME BuilderTypeOK, NEW b \in Blocks, content' = Append(content, b)
  PROVE  /\ content' \in Seq(Blocks)
         /\ Len(content') = Len(content) + 1
         /\ content'[Len(content) + 1] = b
         /\ \A k \in 1..Len(content) : content'[k] = content[k]
BY DEF BuilderTypeOK

(* The map with one more entry, in range of the longer content. *)
LEMMA IndexedType ==
  ASSUME BuilderTypeOK, NEW id \in IDs \cup {NoID}
  PROVE  LET new == Indexed(id, Len(content) + 1) IN
         /\ DOMAIN new = DOMAIN toolCallIndices \cup {id}
         /\ new[id] = Len(content) + 1
         /\ \A i \in DOMAIN toolCallIndices : i # id => new[i] = toolCallIndices[i]
         /\ \A i \in DOMAIN new : new[i] \in 1..(Len(content) + 1)
BY DEF Indexed, BuilderTypeOK

(* Every event keeps the types. *)
LEMMA AddEventType ==
  ASSUME BuilderTypeOK, NEW e \in Events, AddEvent(e)
  PROVE  BuilderTypeOK'
<1>1. CASE Reject
  BY <1>1, RejectType
<1>2. CASE e.type = "text-delta" /\ addTextDelta(e)
  <2>1. e.data \in Seq(Fragments)
    BY <1>2, EventData
  <2>2. CASE LastIs("text")
    <3>1. content' = Extended(Len(content), e.data) /\ Len(content) \in 1..Len(content)
      BY <1>2, <2>2, LastInContent DEF addTextDelta, BuilderTypeOK
    <3>2. content' \in Seq(Blocks) /\ Len(content') = Len(content)
      BY <2>1, <3>1, ExtendedType DEF BuilderTypeOK
    <3> QED  BY <1>2, <2>2, <3>2 DEF addTextDelta, BuilderTypeOK
  <2>3. CASE ~LastIs("text")
    <3>1. Block("text", NoID, e.data) \in Blocks
      BY <2>1, BlockType DEF BlockTypes
    <3>2. content' \in Seq(Blocks) /\ Len(content') = Len(content) + 1
      BY <1>2, <2>3, <3>1, AppendType DEF addTextDelta
    <3> QED  BY <1>2, <2>3, <3>2 DEF addTextDelta, BuilderTypeOK, States
  <2> QED  BY <2>2, <2>3
<1>3. CASE e.type = "reasoning" /\ addReasoning(e) /\ ~Reject
  <2>1. e.data \in Seq(Fragments)
    BY <1>3, EventData
  <2>2. CASE LastIs("reasoning")
    <3>1. content' = Extended(Len(content), e.data) /\ Len(content) \in 1..Len(content)
      BY <1>3, <2>2, LastInContent DEF addReasoning, BuilderTypeOK
    <3>2. content' \in Seq(Blocks) /\ Len(content') = Len(content)
      BY <2>1, <3>1, ExtendedType DEF BuilderTypeOK
    <3> QED  BY <1>3, <2>2, <3>2 DEF addReasoning, BuilderTypeOK
  <2>3. CASE ~LastIs("reasoning")
    <3>1. Block("reasoning", NoID, e.data) \in Blocks
      BY <2>1, BlockType DEF BlockTypes
    <3>2. content' \in Seq(Blocks) /\ Len(content') = Len(content) + 1
      BY <1>3, <2>3, <3>1, AppendType DEF addReasoning
    <3> QED  BY <1>3, <2>3, <3>2 DEF addReasoning, BuilderTypeOK, States
  <2> QED  BY <2>2, <2>3
<1>4. CASE e.type = "reasoning-signature" /\ addReasoningSignature(e) /\ ~Reject
  <2>1. e.data \in Seq(Fragments) /\ LastIs("reasoning")
    BY <1>4, EventData DEF addReasoningSignature
  <2>2. Len(content) \in 1..Len(content) /\ content[Len(content)] \in Blocks
    BY <2>1, LastInContent DEF BuilderTypeOK
  <2>3. [content[Len(content)] EXCEPT !.signature = e.data] \in Blocks
    BY <2>1, <2>2 DEF Blocks
  <2>4. content' = [content EXCEPT ![Len(content)] =
                      [content[Len(content)] EXCEPT !.signature = e.data]]
    BY <1>4, <2>1 DEF addReasoningSignature
  <2>5. content' \in Seq(Blocks) /\ Len(content') = Len(content)
    BY <2>2, <2>3, <2>4 DEF BuilderTypeOK
  <2> QED  BY <1>4, <2>1, <2>5 DEF addReasoningSignature, BuilderTypeOK
<1>5. CASE e.type = "tool-call" /\ addToolCall(e) /\ ~Reject
  <2>1. e.data \in Seq(Fragments) /\ e.id \in IDs \cup {NoID}
    BY <1>5, EventData
  <2>2. Block("tool", e.id, e.data) \in Blocks
    BY <2>1, BlockType DEF BlockTypes
  <2>3. content' \in Seq(Blocks) /\ Len(content') = Len(content) + 1
    BY <1>5, <2>2, AppendType DEF addToolCall
  <2>4. /\ DOMAIN toolCallIndices' \subseteq IDs \cup {NoID}
        /\ \A i \in DOMAIN toolCallIndices' : toolCallIndices'[i] \in 1..Len(content')
    BY <1>5, <2>1, <2>3, IndexedType DEF addToolCall, BuilderTypeOK
  <2> QED  BY <1>5, <2>3, <2>4 DEF addToolCall, BuilderTypeOK, States
<1>6. CASE e.type = "tool-call-delta" /\ addToolCallDelta(e)
  <2>1. e.data \in Seq(Fragments) /\ e.id \in IDs \cup {NoID}
    BY <1>6, EventData
  <2>2. CASE e.id \in DOMAIN toolCallIndices
    <3>1. toolCallIndices[e.id] \in 1..Len(content)
      BY <2>2 DEF BuilderTypeOK
    <3>2. content' \in Seq(Blocks) /\ Len(content') = Len(content)
      BY <1>6, <2>1, <2>2, <3>1, ExtendedType DEF addToolCallDelta, BuilderTypeOK
    <3> QED  BY <1>6, <2>2, <3>2 DEF addToolCallDelta, BuilderTypeOK, States
  <2>3. CASE e.id \notin DOMAIN toolCallIndices
    <3>1. Block("tool", e.id, e.data) \in Blocks
      BY <2>1, BlockType DEF BlockTypes
    <3>2. content' \in Seq(Blocks) /\ Len(content') = Len(content) + 1
      BY <1>6, <2>3, <3>1, AppendType DEF addToolCallDelta
    <3>3. toolCallIndices' = Indexed(e.id, Len(content) + 1)
      BY <1>6, <2>3 DEF addToolCallDelta
    <3>4. /\ DOMAIN toolCallIndices' = DOMAIN toolCallIndices \cup {e.id}
          /\ \A i \in DOMAIN toolCallIndices' : toolCallIndices'[i] \in 1..(Len(content) + 1)
      BY <2>1, <3>3, IndexedType
    <3>5. /\ DOMAIN toolCallIndices' \subseteq IDs \cup {NoID}
          /\ \A i \in DOMAIN toolCallIndices' : toolCallIndices'[i] \in 1..Len(content')
      BY <2>1, <3>2, <3>4 DEF BuilderTypeOK
    <3> QED  BY <1>6, <3>2, <3>5 DEF addToolCallDelta, BuilderTypeOK, States
  <2> QED  BY <2>2, <2>3
<1>7. CASE \/ e.type = "source" /\ addSource(e)
           \/ e.type = "file" /\ addFile(e)
  <2>1. \E b \in Blocks : content' = Append(content, b)
    <3>1. CASE e.type = "source" /\ addSource(e)
      <4>1. e.id \in IDs \cup {NoID} /\ <<>> \in Seq(Fragments)
        BY <3>1, EventData
      <4>2. Block("source", e.id, <<>>) \in Blocks
        BY <4>1, BlockType DEF BlockTypes
      <4> QED  BY <3>1, <4>2 DEF addSource
    <3>2. CASE e.type = "file" /\ addFile(e)
      BY <3>2, EventData, BlockType DEF addFile, BlockTypes
    <3> QED  BY <1>7, <3>1, <3>2
  <2>2. content' \in Seq(Blocks) /\ Len(content') = Len(content) + 1
    BY <2>1, AppendType
  <2> QED  BY <1>7, <2>2 DEF addSource, addFile, BuilderTypeOK, States
<1>8. CASE e.type = "response-metadata" /\ addResponseMetadata(e) /\ ~Reject
  BY <1>8, EventData DEF addResponseMetadata, BuilderTypeOK
<1>9. CASE e.type = "finish" /\ addFinish(e)
  BY <1>9, EventData DEF addFinish, BuilderTypeOK, States
<1>10. CASE e.type = "error" /\ addError(e)
  BY <1>10 DEF addError, BuilderTypeOK
<1> QED
  BY <1>1, <1>2, <1>3, <1>4, <1>5, <1>6, <1>7, <1>8, <1>9, <1>10 DEF AddEvent

(* Build sets the result alone. *)
LEMMA BuildType ==
  ASSUME BuilderTypeOK, Build
  PROVE  BuilderTypeOK'
BY DEF BuilderTypeOK, Build, Results

(* The fields of the builder keep their types, and every index is that of  *)
(* a block, whatever the stream says: AddEvent cannot index out of range   *)
(* (builder.go:196).                                                       *)
THEOREM BuilderTypeCorrect == BuilderSpec => []BuilderTypeOK
<1>1. NewResponseBuilder => BuilderTypeOK
  <2> SUFFICES ASSUME NewResponseBuilder PROVE BuilderTypeOK
    OBVIOUS
  <2>1. content \in Seq(Blocks) /\ DOMAIN toolCallIndices = {}
    BY DEF NewResponseBuilder
  <2> QED  BY <2>1 DEF NewResponseBuilder, BuilderTypeOK, States, Results
<1>2. BuilderTypeOK /\ [BuilderNext]_builderVars => BuilderTypeOK'
  <2> SUFFICES ASSUME BuilderTypeOK, [BuilderNext]_builderVars
               PROVE  BuilderTypeOK'
    OBVIOUS
  <2>1. CASE \E e \in Events : AddEvent(e)
    BY <2>1, AddEventType
  <2>2. CASE Build
    BY <2>2, BuildType
  <2>3. CASE UNCHANGED builderVars
    BY <2>3 DEF builderVars, BuilderTypeOK
  <2> QED  BY <2>1, <2>2, <2>3 DEF BuilderNext
<1> QED  BY <1>1, <1>2, PTL DEF BuilderSpec
-----------------------------------------------------------------------------
(* What an event does to the content, in two ways. *)

(* The blocks stay, and each holds at least what it held. *)
BlocksStay ==
  /\ UNCHANGED toolCallIndices
  /\ Len(content') = Len(content)
  /\ \A k \in 1..Len(content) : \E data \in Seq(Fragments) :
       /\ content'[k].type = content[k].type
       /\ content'[k].id = content[k].id
       /\ content'[k].data = content[k].data \o data
  /\ \A k \in 1..Len(content) : content'[k].signature = content[k].signature \/ Signs(k)

(* A block is added at the end, and the index of it when it is a tool's. *)
BlockAdded(b) ==
  /\ content' = Append(content, b)
  /\ b.type = "tool" => /\ b.id \in (IDs \cup {NoID}) \ DOMAIN toolCallIndices
                        /\ toolCallIndices' = Indexed(b.id, Len(content) + 1)
  /\ b.type # "tool" => UNCHANGED toolCallIndices

(* An event that leaves the content alone keeps every block as it is. *)
LEMMA SameContent ==
  ASSUME BuilderTypeOK, UNCHANGED <<content, toolCallIndices>>
  PROVE  BlocksStay
<1> SUFFICES ASSUME NEW k \in 1..Len(content)
             PROVE  \E data \in Seq(Fragments) : content[k].data = content[k].data \o data
  BY DEF BlocksStay
<1>1. content[k].data \in Seq(Fragments)
  BY BlockData DEF BuilderTypeOK
<1>2. content[k].data = content[k].data \o <<>> /\ <<>> \in Seq(Fragments)
  BY <1>1
<1> QED  BY <1>2

(* Adding data to one block keeps every block. *)
LEMMA ExtendedContent ==
  ASSUME BuilderTypeOK, NEW n \in 1..Len(content), NEW data \in Seq(Fragments),
         content' = Extended(n, data), UNCHANGED toolCallIndices
  PROVE  BlocksStay
<1>1. content \in Seq(Blocks)
  BY DEF BuilderTypeOK
<1>2. /\ Len(content') = Len(content)
      /\ \A k \in 1..Len(content) :
           /\ content'[k].type = content[k].type
           /\ content'[k].id = content[k].id
           /\ content'[k].signature = content[k].signature
           /\ content'[k].data = IF k = n THEN content[k].data \o data ELSE content[k].data
  BY <1>1, ExtendedType
<1> SUFFICES ASSUME NEW k \in 1..Len(content)
             PROVE  \E d \in Seq(Fragments) : content'[k].data = content[k].data \o d
  BY <1>2 DEF BlocksStay
<1>3. content[k].data \in Seq(Fragments)
  BY <1>1, BlockData
<1>4. content[k].data = content[k].data \o <<>> /\ <<>> \in Seq(Fragments)
  BY <1>3
<1> QED  BY <1>2, <1>4

(* Every event keeps the blocks, or adds one. *)
LEMMA AddEventShape ==
  ASSUME BuilderTypeOK, NEW e \in Events, AddEvent(e)
  PROVE  BlocksStay \/ \E b \in Blocks : BlockAdded(b)
<1>1. CASE Reject
  BY <1>1, SameContent DEF Reject
<1>2. CASE e.type = "text-delta" /\ addTextDelta(e)
  <2>1. e.data \in Seq(Fragments)
    BY <1>2, EventData
  <2>2. CASE LastIs("text")
    <3>1. content' = Extended(Len(content), e.data) /\ Len(content) \in 1..Len(content)
      BY <1>2, <2>2, LastInContent DEF addTextDelta, BuilderTypeOK
    <3> QED  BY <1>2, <2>1, <3>1, ExtendedContent DEF addTextDelta
  <2>3. CASE ~LastIs("text")
    <3>1. Block("text", NoID, e.data) \in Blocks
      BY <2>1, BlockType DEF BlockTypes
    <3>2. BlockAdded(Block("text", NoID, e.data))
      BY <1>2, <2>3 DEF addTextDelta, BlockAdded, Block
    <3> QED  BY <3>1, <3>2
  <2> QED  BY <2>2, <2>3
<1>3. CASE e.type = "reasoning" /\ addReasoning(e) /\ ~Reject
  <2>1. e.data \in Seq(Fragments)
    BY <1>3, EventData
  <2>2. CASE LastIs("reasoning")
    <3>1. content' = Extended(Len(content), e.data) /\ Len(content) \in 1..Len(content)
      BY <1>3, <2>2, LastInContent DEF addReasoning, BuilderTypeOK
    <3> QED  BY <1>3, <2>1, <2>2, <3>1, ExtendedContent DEF addReasoning
  <2>3. CASE ~LastIs("reasoning")
    <3>1. Block("reasoning", NoID, e.data) \in Blocks
      BY <2>1, BlockType DEF BlockTypes
    <3>2. BlockAdded(Block("reasoning", NoID, e.data))
      BY <1>3, <2>3 DEF addReasoning, BlockAdded, Block
    <3> QED  BY <3>1, <3>2
  <2> QED  BY <2>2, <2>3
<1>4. CASE e.type = "reasoning-signature" /\ addReasoningSignature(e) /\ ~Reject
  <2>1. e.data \in Seq(Fragments) /\ LastIs("reasoning")
    BY <1>4, EventData DEF addReasoningSignature
  <2>2. Len(content) \in 1..Len(content) /\ content \in Seq(Blocks)
    BY <2>1, LastInContent DEF BuilderTypeOK
  <2>3. content' = [content EXCEPT ![Len(content)] =
                      [content[Len(content)] EXCEPT !.signature = e.data]]
    BY <1>4, <2>1 DEF addReasoningSignature
  <2>4. UNCHANGED toolCallIndices
    BY <1>4, <2>1 DEF addReasoningSignature
  <2>5. Len(content') = Len(content)
    BY <2>2, <2>3
  <2>6. ASSUME NEW k \in 1..Len(content)
        PROVE  \E data \in Seq(Fragments) :
                 /\ content'[k].type = content[k].type
                 /\ content'[k].id = content[k].id
                 /\ content'[k].data = content[k].data \o data
    <3>1. content[k] \in Blocks
      BY <2>2
    <3>2. content[k].data = content[k].data \o <<>> /\ <<>> \in Seq(Fragments)
      BY <3>1 DEF Blocks
    <3>3. /\ content'[k].type = content[k].type
          /\ content'[k].id = content[k].id
          /\ content'[k].data = content[k].data
      BY <2>2, <2>3, <3>1 DEF Blocks
    <3> QED  BY <3>2, <3>3
  <2>7. content'[Len(content)].signature = e.data
    BY <2>2, <2>3
  <2>8. Signs(Len(content))
    BY <2>1, <2>3, <2>7 DEF Signs, LastIs
  <2>9. \A k \in 1..Len(content) : k # Len(content) => content'[k] = content[k]
    BY <2>2, <2>3
  <2> QED  BY <2>4, <2>5, <2>6, <2>8, <2>9 DEF BlocksStay
<1>5. CASE e.type = "tool-call" /\ addToolCall(e) /\ ~Reject
  <2>1. e.data \in Seq(Fragments) /\ e.id \in IDs \cup {NoID}
    BY <1>5, EventData
  <2>2. Block("tool", e.id, e.data) \in Blocks
    BY <2>1, BlockType DEF BlockTypes
  <2>3. BlockAdded(Block("tool", e.id, e.data))
    BY <1>5, <2>1 DEF addToolCall, BlockAdded, Block
  <2> QED  BY <2>2, <2>3
<1>6. CASE e.type = "tool-call-delta" /\ addToolCallDelta(e)
  <2>1. e.data \in Seq(Fragments) /\ e.id \in IDs \cup {NoID}
    BY <1>6, EventData
  <2>2. CASE e.id \in DOMAIN toolCallIndices
    <3>1. toolCallIndices[e.id] \in 1..Len(content)
      BY <2>2 DEF BuilderTypeOK
    <3> QED  BY <1>6, <2>1, <2>2, <3>1, ExtendedContent DEF addToolCallDelta
  <2>3. CASE e.id \notin DOMAIN toolCallIndices
    <3>1. Block("tool", e.id, e.data) \in Blocks
      BY <2>1, BlockType DEF BlockTypes
    <3>2. BlockAdded(Block("tool", e.id, e.data))
      BY <1>6, <2>1, <2>3 DEF addToolCallDelta, BlockAdded, Block
    <3> QED  BY <3>1, <3>2
  <2> QED  BY <2>2, <2>3
<1>7. CASE e.type = "source" /\ addSource(e)
  <2>1. e.id \in IDs \cup {NoID} /\ <<>> \in Seq(Fragments)
    BY <1>7, EventData
  <2>2. Block("source", e.id, <<>>) \in Blocks
    BY <2>1, BlockType DEF BlockTypes
  <2>3. BlockAdded(Block("source", e.id, <<>>))
    BY <1>7 DEF addSource, BlockAdded, Block
  <2> QED  BY <2>2, <2>3
<1>8. CASE e.type = "file" /\ addFile(e)
  <2>1. Block("file", NoID, e.data) \in Blocks
    BY <1>8, EventData, BlockType DEF BlockTypes
  <2>2. BlockAdded(Block("file", NoID, e.data))
    BY <1>8 DEF addFile, BlockAdded, Block
  <2> QED  BY <2>1, <2>2
<1>9. CASE \/ e.type = "response-metadata" /\ addResponseMetadata(e)
           \/ e.type = "finish" /\ addFinish(e)
           \/ e.type = "error" /\ addError(e)
  BY <1>9, SameContent DEF addResponseMetadata, Reject, addFinish, addError
<1> QED
  BY <1>1, <1>2, <1>3, <1>4, <1>5, <1>6, <1>7, <1>8, <1>9 DEF AddEvent

(* So does every step of the builder. *)
LEMMA StepShape ==
  ASSUME BuilderTypeOK, [BuilderNext]_builderVars
  PROVE  BlocksStay \/ \E b \in Blocks : BlockAdded(b)
<1>1. CASE \E e \in Events : AddEvent(e)
  BY <1>1, AddEventShape
<1>2. CASE Build
  BY <1>2, SameContent DEF Build
<1>3. CASE UNCHANGED builderVars
  BY <1>3, SameContent DEF builderVars
<1> QED  BY <1>1, <1>2, <1>3 DEF BuilderNext

-----------------------------------------------------------------------------
(* The map of tool calls. *)

(* Every step keeps the map exact. *)
LEMMA StepIndexed ==
  ASSUME BuilderTypeOK, ToolCallsIndexed, BlocksStay \/ \E b \in Blocks : BlockAdded(b)
  PROVE  ToolCallsIndexed'
<1>1. CASE BlocksStay
  BY <1>1 DEF BlocksStay, BuilderTypeOK, ToolCallsIndexed
<1>2. ASSUME NEW b \in Blocks, BlockAdded(b)
      PROVE  ToolCallsIndexed'
  <2>1. /\ Len(content') = Len(content) + 1
        /\ content'[Len(content) + 1] = b
        /\ \A k \in 1..Len(content) : content'[k] = content[k]
    BY <1>2, AppendType DEF BlockAdded
  <2>2. Len(content) \in Nat
    BY DEF BuilderTypeOK
  <2>3. CASE b.type # "tool"
    BY <1>2, <2>1, <2>2, <2>3 DEF BlockAdded, BuilderTypeOK, ToolCallsIndexed
  <2>4. CASE b.type = "tool"
    <3>1. b.id \in (IDs \cup {NoID}) \ DOMAIN toolCallIndices
      BY <1>2, <2>4 DEF BlockAdded
    <3>2. toolCallIndices' = Indexed(b.id, Len(content) + 1)
      BY <1>2, <2>4 DEF BlockAdded
    <3>3. /\ DOMAIN toolCallIndices' = DOMAIN toolCallIndices \cup {b.id}
          /\ toolCallIndices'[b.id] = Len(content) + 1
          /\ \A i \in DOMAIN toolCallIndices : i # b.id => toolCallIndices'[i] = toolCallIndices[i]
      BY <3>1, <3>2, IndexedType
    <3>4. ASSUME NEW i \in DOMAIN toolCallIndices'
          PROVE  /\ content'[toolCallIndices'[i]].type = "tool"
                 /\ content'[toolCallIndices'[i]].id = i
      <4>1. CASE i = b.id
        BY <2>1, <2>4, <3>3, <4>1
      <4>2. CASE i # b.id
        <5>1. i \in DOMAIN toolCallIndices /\ toolCallIndices'[i] = toolCallIndices[i]
          BY <3>3, <4>2
        <5>2. toolCallIndices[i] \in 1..Len(content)
          BY <5>1 DEF BuilderTypeOK
        <5> QED  BY <2>1, <5>1, <5>2 DEF ToolCallsIndexed
      <4> QED  BY <4>1, <4>2
    <3>5. ASSUME NEW n \in 1..Len(content'), content'[n].type = "tool"
          PROVE  /\ content'[n].id \in DOMAIN toolCallIndices'
                 /\ toolCallIndices'[content'[n].id] = n
      <4>1. CASE n = Len(content) + 1
        BY <2>1, <3>3, <4>1
      <4>2. CASE n # Len(content) + 1
        <5>1. n \in 1..Len(content) /\ content'[n] = content[n]
          BY <2>1, <2>2, <4>2
        <5>2. content[n].id \in DOMAIN toolCallIndices /\ toolCallIndices[content[n].id] = n
          BY <3>5, <5>1 DEF ToolCallsIndexed
        <5> QED  BY <3>1, <3>3, <5>1, <5>2
      <4> QED  BY <4>1, <4>2
    <3> QED  BY <3>4, <3>5 DEF ToolCallsIndexed
  <2> QED  BY <2>3, <2>4
<1> QED  BY <1>1, <1>2

(* The map of tool calls is exact, whatever the stream says: a fragment of *)
(* arguments is added to the call it names and to no other, and no call    *)
(* appears twice (builder.go:164-209).                                     *)
THEOREM ToolCallsAreIndexed == BuilderSpec => []ToolCallsIndexed
<1>1. NewResponseBuilder => ToolCallsIndexed
  BY DEF NewResponseBuilder, ToolCallsIndexed
<1>2. BuilderTypeOK /\ ToolCallsIndexed /\ [BuilderNext]_builderVars => ToolCallsIndexed'
  BY StepShape, StepIndexed
<1> QED  BY <1>1, <1>2, BuilderTypeCorrect, PTL DEF BuilderSpec

-----------------------------------------------------------------------------
(* What was collected stays. *)

(* No event takes back or moves a block, or changes what an earlier one    *)
(* gave of its text, reasoning or arguments, whether it extends a block,   *)
(* starts one or is refused (builder.go:64-209); a signature, which is     *)
(* replaced, is replaced in the last block alone, and nothing else is.     *)
THEOREM ContentOnlyGrows == BuilderSpec => ContentGrows
<1> DEFINE Grows == /\ Len(content) <= Len(content')
                    /\ \A n \in 1..Len(content) :
                         /\ BlockGrows(content[n], content'[n])
                         /\ content'[n].signature # content[n].signature => Signs(n)
<1>1. BuilderTypeOK /\ [BuilderNext]_builderVars => Grows
  <2> SUFFICES ASSUME BuilderTypeOK, [BuilderNext]_builderVars
               PROVE  Grows
    OBVIOUS
  <2>1. \A n \in 1..Len(content) : content[n].data \in Seq(Fragments)
    BY BlockData DEF BuilderTypeOK
  <2>2. Len(content) \in Nat
    BY DEF BuilderTypeOK
  <2>3. CASE BlocksStay
    <3>1. Len(content) <= Len(content')
      BY <2>2, <2>3 DEF BlocksStay
    <3>2. ASSUME NEW n \in 1..Len(content)
          PROVE  /\ BlockGrows(content[n], content'[n])
                 /\ content'[n].signature # content[n].signature => Signs(n)
      <4>1. PICK data \in Seq(Fragments) :
              /\ content'[n].type = content[n].type
              /\ content'[n].id = content[n].id
              /\ content'[n].data = content[n].data \o data
        BY <2>3 DEF BlocksStay
      <4>2. content[n].data \in Seq(Fragments)
        BY <2>1
      <4>3. /\ Len(content[n].data) <= Len(content'[n].data)
            /\ \A k \in 1..Len(content[n].data) : content'[n].data[k] = content[n].data[k]
        BY <4>1, <4>2
      <4> QED  BY <2>3, <4>1, <4>3 DEF BlocksStay, BlockGrows, Begins
    <3> QED  BY <3>1, <3>2
  <2>4. ASSUME NEW b \in Blocks, BlockAdded(b)
        PROVE  Grows
    <3>1. /\ Len(content') = Len(content) + 1
          /\ \A k \in 1..Len(content) : content'[k] = content[k]
      BY <2>4, AppendType DEF BlockAdded
    <3>2. \A n \in 1..Len(content) : BlockGrows(content[n], content[n])
      BY <2>1 DEF BlockGrows, Begins
    <3> QED  BY <2>2, <3>1, <3>2
  <2> QED  BY <2>3, <2>4, StepShape
<1>2. BuilderTypeOK /\ [BuilderNext]_builderVars => [Grows]_builderVars
  BY <1>1
<1> QED  BY <1>2, BuilderTypeCorrect, PTL DEF BuilderSpec, ContentGrows
=============================================================================
