------------------------ MODULE EventStreams_proofs --------------------------
(***************************************************************************)
(* Proofs about the streams of all providers and the response that is      *)
(* built from them: types, the map of tool calls, what arrives of what was *)
(* sent, errors, and which streams are refused.                            *)
(***************************************************************************)
EXTENDS EventStreams, ResponseBuilder_proofs, FiniteSetTheorems

-----------------------------------------------------------------------------
(* What the model sends. *)

Item == [kind: Kinds, sent: 0..MaxFragments, open: BOOLEAN]

(* An item that does not interleave is the last one as long as it is open. *)
ItemsInv ==
  /\ items \in Seq(Item) /\ Len(items) <= MaxItems
  /\ \A i \in DOMAIN items : items[i].open /\ items[i].kind \notin Parallel => i = Len(items)

LEMMA ItemTypes ==
  ASSUME NEW s \in Seq(Item), NEW i \in DOMAIN s
  PROVE  /\ i \in 1..Len(s) /\ s[i].kind \in Kinds /\ s[i].sent \in 0..MaxFragments
         /\ s[i].open \in BOOLEAN
         /\ s[i] = [kind |-> s[i].kind, sent |-> s[i].sent, open |-> s[i].open]
<1>1. s[i] \in Item /\ i \in 1..Len(s)
  OBVIOUS
<1>2. QED
  BY <1>1 DEF Item

(* What the three steps of an item do. *)
Opened(kind) ==
  /\ Len(items') = Len(items) + 1 /\ Len(items) < MaxItems
  /\ DOMAIN items' = DOMAIN items \cup {Len(items) + 1}
  /\ items'[Len(items) + 1] = [kind |-> kind, sent |-> 0, open |-> TRUE]
  /\ \A k \in DOMAIN items : items'[k] = items[k]
  /\ \A k \in DOMAIN items : items[k].open => {kind, items[k].kind} \subseteq Parallel

SentOne(i) ==
  /\ DOMAIN items' = DOMAIN items
  /\ items[i].open /\ items[i].sent < MaxFragments
  /\ items'[i].sent = items[i].sent + 1
  /\ items'[i].kind = items[i].kind /\ items'[i].open = items[i].open
  /\ \A k \in DOMAIN items : k # i => items'[k] = items[k]

Closed(i) ==
  /\ DOMAIN items' = DOMAIN items
  /\ items[i].open /\ ~items'[i].open
  /\ items'[i].sent = items[i].sent /\ items'[i].kind = items[i].kind
  /\ \A k \in DOMAIN items : k # i => items'[k] = items[k]

LEMMA OpenItemStep ==
  ASSUME ItemsInv, NEW kind \in Kinds, OpenItem(kind)
  PROVE  Opened(kind) /\ ItemsInv'
<1> DEFINE new == [kind |-> kind, sent |-> 0, open |-> TRUE]
<1>1. new \in Item /\ items \in Seq(Item) /\ Len(items) \in Nat /\ MaxItems \in Nat
  BY StreamBounds DEF Item, ItemsInv
<1>2. /\ items' \in Seq(Item) /\ Len(items') = Len(items) + 1 /\ items'[Len(items) + 1] = new
      /\ \A k \in DOMAIN items : items'[k] = items[k]
      /\ DOMAIN items = 1..Len(items) /\ DOMAIN items' = 1..(Len(items) + 1)
  BY <1>1 DEF OpenItem
<1>3. Opened(kind)
  BY <1>2 DEF Opened, OpenItem
<1>4. ASSUME NEW i \in DOMAIN items', items'[i].open, items'[i].kind \notin Parallel
      PROVE  i = Len(items')
  BY <1>1, <1>2, <1>4 DEF OpenItem
<1>5. Len(items') <= MaxItems
  BY <1>1, <1>2 DEF OpenItem
<1>6. QED
  BY <1>2, <1>3, <1>4, <1>5 DEF ItemsInv

LEMMA SendFragmentStep ==
  ASSUME ItemsInv, NEW i \in DOMAIN items, SendFragment(i)
  PROVE  SentOne(i) /\ ItemsInv'
<1> DEFINE new == [kind |-> items[i].kind, sent |-> items[i].sent + 1, open |-> items[i].open]
<1>1. /\ items \in Seq(Item) /\ i \in 1..Len(items) /\ items[i].sent \in 0..MaxFragments
      /\ items[i] = [kind |-> items[i].kind, sent |-> items[i].sent, open |-> items[i].open]
      /\ items[i].kind \in Kinds /\ items[i].open \in BOOLEAN /\ MaxFragments \in Nat
  BY ItemTypes, StreamBounds DEF ItemsInv
<1>2. items[i].open /\ items[i].sent < MaxFragments
  BY DEF SendFragment
<1>3. new \in Item
  BY <1>1, <1>2 DEF Item
<1>4. [items[i] EXCEPT !.sent = @ + 1] = new
  BY <1>1
<1>5. items' = [items EXCEPT ![i] = new]
  BY <1>4 DEF SendFragment
<1> HIDE DEF new
<1>6. /\ items' \in Seq(Item) /\ Len(items') = Len(items) /\ DOMAIN items' = DOMAIN items
      /\ items'[i] = new /\ \A k \in DOMAIN items : k # i => items'[k] = items[k]
  BY <1>1, <1>3, <1>5
<1>7. SentOne(i)
  BY <1>2, <1>6 DEF SentOne, new
<1>8. ItemsInv'
  BY <1>6, <1>7 DEF ItemsInv, SentOne
<1>9. QED
  BY <1>7, <1>8

LEMMA ClosedItem ==
  ASSUME NEW x, NEW k \in Kinds, NEW n \in 0..MaxFragments, NEW o \in BOOLEAN,
         x = [kind |-> k, sent |-> n, open |-> o]
  PROVE  LET new == [x EXCEPT !.open = FALSE] IN
         new.open = FALSE /\ new.kind = k /\ new.sent = n /\ new \in Item
<1> DEFINE new == [x EXCEPT !.open = FALSE]
<1>1. new.open = FALSE /\ new.kind = k /\ new.sent = n
  OBVIOUS
<1>2. new \in [kind: {k}, sent: {n}, open: BOOLEAN]
  OBVIOUS
<1> HIDE DEF new
<1>3. new \in Item
  BY <1>2 DEF Item
<1>4. QED
  BY <1>1, <1>3 DEF new

LEMMA CloseItemStep ==
  ASSUME ItemsInv, NEW i \in DOMAIN items, CloseItem(i)
  PROVE  Closed(i) /\ ItemsInv'
<1> DEFINE new == [items[i] EXCEPT !.open = FALSE]
<1>1. items \in Seq(Item) /\ i \in 1..Len(items) /\ items[i].open
  BY DEF ItemsInv, CloseItem
<1>2. PICK k \in Kinds, n \in 0..MaxFragments, o \in BOOLEAN :
        items[i] = [kind |-> k, sent |-> n, open |-> o]
  BY <1>1, ItemTypes
<1>3. items[i].kind = k /\ items[i].sent = n
  BY <1>2
<1>4. new.open = FALSE /\ new.kind = k /\ new.sent = n /\ new \in Item
  BY <1>2, ClosedItem
<1>5. items' = [items EXCEPT ![i] = new]
  BY DEF CloseItem
<1> HIDE DEF new
<1>6. /\ items' \in Seq(Item) /\ Len(items') = Len(items) /\ DOMAIN items' = DOMAIN items
      /\ items'[i] = new /\ \A l \in DOMAIN items : l # i => items'[l] = items[l]
  BY <1>1, <1>4, <1>5
<1>7. Closed(i)
  BY <1>1, <1>3, <1>4, <1>6 DEF Closed
<1>8. ItemsInv'
  BY <1>6, <1>7 DEF ItemsInv, Closed
<1>9. QED
  BY <1>7, <1>8

-----------------------------------------------------------------------------
(* The fragments of an item, and its index, are on the wire. *)
LEMMA FragmentTypes ==
  ASSUME ItemsInv, NEW i \in DOMAIN items
  PROVE  /\ ItemData(i) \in Seq(Fragments) /\ i \in IDs \cup {NoID}
         /\ items[i].sent < MaxFragments => Fragment(i) \in Seq(Fragments)
<1>1. /\ i \in 1..Len(items) /\ items[i].sent \in 0..MaxFragments /\ Len(items) \in Nat
      /\ MaxFragments \in Nat /\ MaxItems \in Nat /\ Len(items) <= MaxItems
  BY ItemTypes, StreamBounds DEF ItemsInv
<1>2. i \in 1..MaxItems /\ 1..MaxItems \subseteq IDs
  BY <1>1, WireAssumption
<1>3. \A k \in 0..MaxFragments : <<i, k>> \in Fragments
  <2> TAKE k \in 0..MaxFragments
  <2>1. <<i, k>> \in (0..MaxItems) \X (0..MaxFragments)
    BY <1>1, <1>2
  <2>2. QED
    BY <2>1, WireAssumption
<1>4. ItemData(i) \in [1..items[i].sent -> Fragments]
  BY <1>1, <1>3 DEF ItemData
<1>5. ItemData(i) \in Seq(Fragments)
  BY <1>1, <1>4
<1>6. ASSUME items[i].sent < MaxFragments PROVE Fragment(i) \in Seq(Fragments)
  <2>1. items[i].sent + 1 \in 0..MaxFragments
    BY <1>1, <1>6
  <2>2. <<i, items[i].sent + 1>> \in Fragments
    BY <1>3, <2>1
  <2>3. QED
    BY <2>2 DEF Fragment
<1>7. QED
  BY <1>2, <1>5, <1>6

(* The index of the item that comes next, and the first fragment it may have. *)
LEMMA NextItemTypes ==
  ASSUME ItemsInv, Len(items) < MaxItems
  PROVE  /\ Len(items) + 1 \in IDs /\ << <<Len(items) + 1, 0>> >> \in Seq(Fragments)
         /\ <<>> \in Seq(Fragments)
<1>1. Len(items) \in Nat /\ MaxItems \in Nat /\ MaxFragments \in Nat
  BY StreamBounds DEF ItemsInv
<1>2. Len(items) + 1 \in 1..MaxItems /\ <<Len(items) + 1, 0>> \in (0..MaxItems) \X (0..MaxFragments)
  BY <1>1
<1>3. QED
  BY <1>2, WireAssumption

-----------------------------------------------------------------------------
(* The variables of each decoder: as they were made when it is not the one *)
(* of this stream, or as its events have left them.                        *)

OpenTools    == {i \in DOMAIN items : items[i].kind = "tool" /\ items[i].open}
OpenCommands == {i \in DOMAIN items : /\ items[i].kind = "command" /\ items[i].open
                                      /\ items[i].sent > 0}
ClosedCommands == {i \in DOMAIN items : items[i].kind = "command" /\ ~items[i].open}

OpenAIRun ==
  /\ created \in BOOLEAN /\ hasToolCalls \in BOOLEAN
  /\ \A i \in DOMAIN items : items[i].kind \in {"text", "reasoning", "tool", "hosted"}
  /\ ongoingToolCalls = [i \in OpenTools |-> i]
  /\ hasToolCalls <=> \E i \in DOMAIN items : items[i].kind = "tool"
  /\ details \in IncompleteReasons \cup {NoDetails} /\ incompleteReason = details
  /\ annotationCounter \in 0..MaxSources
  /\ served \in {"no", "completed", "incomplete", "failed"}
  /\ totalTokens \in {0, ServerUsage} /\ billed \in {0, ServerUsage}
  /\ served = "no" => details = NoDetails /\ totalTokens = 0
  /\ served = "completed" => totalTokens = billed

CodexRun ==
  /\ announced \in BOOLEAN
  /\ \A i \in DOMAIN items : items[i].kind \in {"text", "reasoning", "command"}
  /\ commandOutput = [i \in OpenCommands |-> ItemData(i)]
  /\ commandExecutions \in Seq([command: DOMAIN items, output: Seq(Fragments)])
  /\ \A n \in DOMAIN commandExecutions :
       commandExecutions[n].output = ItemData(commandExecutions[n].command)
  /\ {commandExecutions[n].command : n \in DOMAIN commandExecutions} = ClosedCommands
  /\ reasoning \in Seq(Fragments)
  /\ {reasoning[k] : k \in DOMAIN reasoning} = Sent("reasoning")
  /\ \A k, l \in DOMAIN reasoning : k < l => Before(reasoning[k], reasoning[l])

ClaudeRun ==
  /\ messages \in 0..MaxMessages /\ inMessage \in BOOLEAN /\ stopped \in BOOLEAN
  /\ \A i \in DOMAIN items : items[i].kind \in {"text", "thinking", "tool"}
  /\ tracked = 0 \/ (tracked = 1 /\ phase = "over")

(* The place of a call among those that have started.                      *)
PlaceIn(s, i) == Cardinality({k \in 1..i : s[k].kind = "tool"})

OpenRouterRun ==
  /\ toolCalls \in Seq(IDs) /\ ended \in BOOLEAN
  /\ \A i \in DOMAIN items : items[i].kind \in {"text", "reasoning", "tool"}
  /\ Len(toolCalls) = PlaceIn(items, Len(items))
  /\ \A i \in DOMAIN items : items[i].kind = "tool" =>
       PlaceIn(items, i) \in DOMAIN toolCalls /\ toolCalls[PlaceIn(items, i)] = i

OpenAIInv     == IF provider = "openai" THEN OpenAIRun ELSE OpenAIInit
CodexInv      == IF provider = "codex" THEN CodexRun ELSE CodexInit
ClaudeInv     == IF provider = "claude" THEN ClaudeRun ELSE ClaudeInit
OpenRouterInv == IF provider = "openrouter" THEN OpenRouterRun ELSE OpenRouterInit

-----------------------------------------------------------------------------
(* The steps of all providers. *)

Yield(e) == e \in Events /\ AddEvent(e) /\ phase # "over"

Opens ==
  \E kind \in Kinds :
    /\ OpenItem(kind)
    /\ \/ Silent /\ (provider = "openai" => kind # "tool")
       \/ /\ kind = "tool"
          /\ \E e : /\ e.type = "tool-call-delta" /\ e.data = <<>> /\ provider = "openai"
                    /\ e.id = Len(items) + 1 /\ Yield(e)
       \/ /\ kind = "tool"
          /\ \E e : /\ e.type = "tool-call" /\ provider = "claude"
                    /\ e.id = Len(items) + 1 /\ Yield(e)

Sends ==
  \E i \in DOMAIN items :
    /\ SendFragment(i)
    /\ \/ items[i].kind = "text" /\ Yield(TextDelta(Fragment(i)))
       \/ items[i].kind = "reasoning" /\ provider # "claude" /\ Yield(Reasoning(Fragment(i)))
       \/ /\ items[i].kind = "tool"
          /\ \E e : /\ e.type = "tool-call-delta" /\ e.data = Fragment(i)
                    /\ e.id = (IF provider = "claude" THEN NoID ELSE i) /\ Yield(e)
       \/ items[i].kind \in {"command", "thinking"} /\ Silent

Closes ==
  \E i \in DOMAIN items :
    /\ CloseItem(i)
    /\ \/ Silent
       \/ items[i].kind = "tool" /\ provider = "openai" /\ Yield(ToolCall(i, ItemData(i)))

Reports == Yield(Error)

Finishes ==
  /\ \E e : e.type = "finish" /\ Yield(e)
  /\ provider \in {"openai", "codex"} => phase' = "over"
  /\ provider = "openrouter" => ended'
  /\ errors' \subseteq errors

Cites ==
  /\ provider = "openai" /\ (\E i \in DOMAIN items : items[i].kind = "text")
  /\ Yield(Source(annotationCounter + 1)) /\ errors' \subseteq errors
  /\ annotationCounter' = annotationCounter + 1

SaysNothing ==
  \/ Silent /\ errors' \subseteq errors \cup PassedOver
  \/ provider = "openrouter" /\ Yield(TextDelta(<<>>)) /\ errors' \subseteq errors

Identifies ==
  /\ \E e : /\ e.type = "response-metadata" /\ Yield(e)
            /\ provider \in {"openai", "codex"} => e.id = 1
            /\ provider = "claude" => ~inMessage
  /\ provider # "openrouter" /\ errors' \subseteq errors

Says == /\ phase # "over" /\ UNCHANGED <<provider, items>>
        /\ Reports \/ Finishes \/ Cites \/ SaysNothing \/ Identifies

StepOf == Opens \/ Sends \/ Closes \/ Says

(* The event of a step whose type is known.                                *)
LEMMA FinishReasons ==
  ASSUME NEW reason, NEW tools \in BOOLEAN
  PROVE  decodeFinishReason(reason, tools) \in Reasons
<1>1. CASE reason = "max_output_tokens"
  BY <1>1, WireAssumption DEF decodeFinishReason
<1>2. CASE reason = "content_filter"
  BY <1>2, WireAssumption DEF decodeFinishReason
<1>3. CASE reason \notin {"max_output_tokens", "content_filter"} /\ tools
  BY <1>3, WireAssumption DEF decodeFinishReason
<1>4. CASE reason = NoDetails /\ ~tools
  BY <1>4, WireAssumption DEF decodeFinishReason
<1>5. CASE reason \notin {"max_output_tokens", "content_filter", NoDetails} /\ ~tools
  BY <1>5, WireAssumption DEF decodeFinishReason
<1>6. QED
  BY <1>1, <1>2, <1>3, <1>4, <1>5

LEMMA OpenAISteps ==
  ASSUME ItemsInv, OpenAIRun, provider = "openai", OpenAINext
  PROVE  StepOf
<1>1. CASE decodeResponseCreated
  <2>1. Metadata(1) \in Events /\ Metadata(1).type = "response-metadata" /\ Metadata(1).id = 1
    BY WireAssumption DEF Events, Metadata
  <2>2. Identifies
    BY <1>1, <2>1
    DEF decodeResponseCreated, OpenAIResponse, Identifies, Yield, Reading, Continue, streamVars
  <2>3. QED
    BY <1>1, <2>2 DEF decodeResponseCreated, Reading, Continue, streamVars, Says, StepOf
<1>2. ASSUME NEW kind \in {"text", "reasoning", "tool", "hosted"}, decodeOutputItemAdded(kind)
      PROVE  StepOf
  <2>1. OpenItem(kind) /\ kind \in Kinds /\ phase # "over"
    BY <1>2 DEF decodeOutputItemAdded, Kinds, Serving, Reading
  <2>2. CASE Silent /\ kind # "tool"
    BY <2>1, <2>2 DEF Opens, StepOf
  <2>3. CASE kind = "tool"
    <3> DEFINE e == ToolCallDelta(Len(items) + 1, <<>>)
    <3>1. AddEvent(e)
      BY <1>2, <2>3 DEF decodeOutputItemAdded
    <3>2. /\ e \in Events /\ e.type = "tool-call-delta" /\ e.id = Len(items) + 1
          /\ e.data = <<>>
      BY <2>1, NextItemTypes DEF OpenItem, Events, ToolCallDelta
    <3> HIDE DEF e
    <3>3. QED
      BY <2>1, <2>3, <3>1, <3>2 DEF Opens, StepOf, Yield
  <2>4. QED
    BY <1>2, <2>2, <2>3 DEF decodeOutputItemAdded
<1>3. ASSUME NEW i \in DOMAIN items, decodeTextDelta(i) PROVE StepOf
  <2>1. SendFragment(i) /\ items[i].kind = "text" /\ AddEvent(TextDelta(Fragment(i)))
    BY <1>3 DEF decodeTextDelta
  <2>2. TextDelta(Fragment(i)) \in Events
    BY <2>1, FragmentTypes DEF SendFragment, Events, TextDelta
  <2>3. QED
    BY <1>3, <2>1, <2>2 DEF decodeTextDelta, Serving, Reading, Sends, StepOf, Yield
<1>4. ASSUME NEW i \in DOMAIN items, decodeReasoningSummaryTextDelta(i) PROVE StepOf
  <2>1. SendFragment(i) /\ items[i].kind = "reasoning" /\ AddEvent(Reasoning(Fragment(i)))
    BY <1>4 DEF decodeReasoningSummaryTextDelta
  <2>2. Reasoning(Fragment(i)) \in Events
    BY <2>1, FragmentTypes DEF SendFragment, Events, Reasoning
  <2>3. QED
    BY <1>4, <2>1, <2>2
    DEF decodeReasoningSummaryTextDelta, Serving, Reading, Sends, StepOf, Yield
<1>5. ASSUME NEW i \in DOMAIN items, decodeFunctionCallArgumentsDelta(i) PROVE StepOf
  <2>1. phase # "over" /\ items[i].kind = "tool"
    BY <1>5 DEF decodeFunctionCallArgumentsDelta, Serving, Reading
  <2>2. CASE i \in DOMAIN ongoingToolCalls
    <3> DEFINE e == ToolCallDelta(i, Fragment(i))
    <3>1. ongoingToolCalls[i] = i
      BY <2>2 DEF OpenAIRun
    <3>2. SendFragment(i) /\ AddEvent(e)
      BY <1>5, <2>2, <3>1 DEF decodeFunctionCallArgumentsDelta
    <3>3. e \in Events /\ e.type = "tool-call-delta" /\ e.id = i /\ e.data = Fragment(i)
      BY <3>2, FragmentTypes DEF SendFragment, Events, ToolCallDelta
    <3> HIDE DEF e
    <3>4. QED
      BY <2>1, <3>2, <3>3 DEF Sends, StepOf, Yield
  <2>3. CASE i \notin DOMAIN ongoingToolCalls
    BY <1>5, <2>1, <2>3
    DEF decodeFunctionCallArgumentsDelta, Move, Says, Reports, StepOf, Yield, Error, Events
  <2>4. QED
    BY <2>2, <2>3
<1>6. ASSUME NEW i \in DOMAIN items, decodeOutputItemDone(i) PROVE StepOf
  <2>1. CloseItem(i) /\ phase # "over"
    BY <1>6 DEF decodeOutputItemDone, Serving, Reading
  <2>2. ToolCall(i, ItemData(i)) \in Events
    BY FragmentTypes DEF Events, ToolCall
  <2>3. QED
    BY <1>6, <2>1, <2>2 DEF decodeOutputItemDone, Closes, StepOf, Yield
<1>7. ASSUME NEW i \in DOMAIN items, decodeOutputTextAnnotationAdded(i) PROVE StepOf
  <2>1. annotationCounter + 1 \in IDs
    <3>1. annotationCounter \in 0..MaxSources
      BY DEF OpenAIRun
    <3>2. annotationCounter < MaxSources
      BY <1>7 DEF decodeOutputTextAnnotationAdded
    <3>3. annotationCounter + 1 \in 1..MaxSources
      BY <3>1, <3>2, WireAssumption
    <3>4. QED
      BY <3>3, WireAssumption
  <2>2. Source(annotationCounter + 1) \in Events
    BY <2>1 DEF Events, Source
  <2>3. QED
    BY <1>7, <2>2
    DEF decodeOutputTextAnnotationAdded, Serving, Reading, Continue, streamVars, Cites, Says,
        StepOf, Yield
<1>8. CASE decodeResponseCompleted \/ decodeResponseFailedOrIncomplete \/ StreamEOF
  BY <1>8
  DEF decodeResponseCompleted, decodeResponseFailedOrIncomplete, StreamEOF, Serving, Reading,
      Continue, Move, streamVars, PassedOver, SaysNothing, Says, StepOf
<1>9. CASE decodeError \/ StreamErr
  BY <1>9
  DEF decodeError, StreamErr, Serving, Reading, Move, Reports, Says, StepOf, Yield, Error, Events
<1>10. CASE SendFinish
  <2> DEFINE r == decodeFinishReason(incompleteReason, hasToolCalls)
             e == Finish(r, totalTokens)
  <2>1. r \in Reasons /\ totalTokens \in Nat
    <3>1. hasToolCalls \in BOOLEAN /\ totalTokens \in {0, 1}
      BY DEF OpenAIRun, ServerUsage
    <3>2. QED
      BY <3>1, FinishReasons
  <2> HIDE DEF r
  <2>2. e \in Events /\ e.type = "finish" /\ AddEvent(e)
    BY <1>10, <2>1 DEF SendFinish, Events, Finish, r
  <2> HIDE DEF e
  <2>3. Yield(e) /\ Finishes
    BY <1>10, <2>2 DEF SendFinish, Move, Yield, Finishes
  <2>4. QED
    BY <1>10, <2>3 DEF SendFinish, Move, Says, StepOf
<1>11. QED
  BY <1>1, <1>2, <1>3, <1>4, <1>5, <1>6, <1>7, <1>8, <1>9, <1>10 DEF OpenAINext

LEMMA CodexSteps ==
  ASSUME ItemsInv, CodexRun, provider = "codex", CodexNext
  PROVE  StepOf
<1>1. CASE ThreadMetadata
  <2>1. Metadata(1) \in Events /\ Metadata(1).type = "response-metadata" /\ Metadata(1).id = 1
    BY WireAssumption DEF Events, Metadata
  <2>2. Identifies
    BY <1>1, <2>1 DEF ThreadMetadata, ThreadID, Identifies, Yield, Reading, Continue, streamVars
  <2>3. QED
    BY <1>1, <2>2 DEF ThreadMetadata, Reading, Continue, streamVars, Says, StepOf
<1>2. ASSUME NEW kind \in {"text", "reasoning", "command"}, ItemStarted(kind) PROVE StepOf
  BY <1>2 DEF ItemStarted, Kinds, Opens, StepOf
<1>3. ASSUME NEW i \in DOMAIN items, AgentMessageDelta(i) PROVE StepOf
  <2>1. SendFragment(i) /\ items[i].kind = "text" /\ AddEvent(TextDelta(Fragment(i)))
    BY <1>3 DEF AgentMessageDelta
  <2>2. TextDelta(Fragment(i)) \in Events
    BY <2>1, FragmentTypes DEF SendFragment, Events, TextDelta
  <2>3. QED
    BY <1>3, <2>1, <2>2 DEF AgentMessageDelta, Turn, Reading, Sends, StepOf, Yield
<1>4. ASSUME NEW i \in DOMAIN items, ReasoningDelta(i) PROVE StepOf
  <2>1. SendFragment(i) /\ items[i].kind = "reasoning" /\ AddEvent(Reasoning(Fragment(i)))
    BY <1>4 DEF ReasoningDelta
  <2>2. Reasoning(Fragment(i)) \in Events
    BY <2>1, FragmentTypes DEF SendFragment, Events, Reasoning
  <2>3. QED
    BY <1>4, <2>1, <2>2 DEF ReasoningDelta, Turn, Reading, Sends, StepOf, Yield
<1>5. ASSUME NEW i \in DOMAIN items, CommandOutputDelta(i) PROVE StepOf
  BY <1>5 DEF CommandOutputDelta, Sends, StepOf
<1>6. ASSUME NEW i \in DOMAIN items, ItemCompleted(i) PROVE StepOf
  BY <1>6 DEF ItemCompleted, Closes, StepOf
<1>7. CASE TurnCompleted
  <2>1. phase # "over" /\ UNCHANGED <<provider, items>>
    BY <1>7 DEF TurnCompleted, Turn, Reading, Move
  <2>2. CASE AddEvent(Finish("stop", TurnUsage)) /\ Move("over", {})
    <3> DEFINE e == Finish("stop", TurnUsage)
    <3>1. e \in Events /\ e.type = "finish" /\ AddEvent(e)
      BY <2>2, WireAssumption DEF Events, Finish, TurnUsage
    <3> HIDE DEF e
    <3>2. Finishes
      BY <2>1, <2>2, <3>1 DEF Move, Yield, Finishes
    <3>3. QED
      BY <2>1, <3>2 DEF Says, StepOf
  <2>3. CASE AddEvent(Error) /\ Move("over", {"budget"})
    BY <2>1, <2>3 DEF Reports, Says, StepOf, Yield, Error, Events
  <2>4. QED
    BY <1>7, <2>2, <2>3 DEF TurnCompleted
<1>8. CASE Undecodable \/ TurnCut
  BY <1>8
  DEF Undecodable, TurnCut, Turn, Reading, Move, Reports, Says, StepOf, Yield, Error, Events
<1>9. QED
  BY <1>1, <1>2, <1>3, <1>4, <1>5, <1>6, <1>7, <1>8 DEF CodexNext

LEMMA ClaudeSteps ==
  ASSUME ItemsInv, ClaudeRun, provider = "claude", ClaudeNext
  PROVE  StepOf
<1>1. CASE decodeMessageStart
  <2> DEFINE e == Metadata(messages + 1)
  <2>1. messages + 1 \in IDs
    <3>1. messages \in 0..MaxMessages
      BY DEF ClaudeRun
    <3>2. messages < MaxMessages
      BY <1>1 DEF decodeMessageStart
    <3>3. messages + 1 \in 1..MaxMessages
      BY <3>1, <3>2, WireAssumption
    <3>4. QED
      BY <3>3, WireAssumption
  <2>2. e \in Events /\ e.type = "response-metadata" /\ AddEvent(e)
    BY <1>1, <2>1 DEF Events, Metadata, decodeMessageStart
  <2> HIDE DEF e
  <2>3. Identifies
    BY <1>1, <2>2 DEF decodeMessageStart, Identifies, Yield, Reading, Continue, streamVars
  <2>4. QED
    BY <1>1, <2>3 DEF decodeMessageStart, Reading, Continue, streamVars, Says, StepOf
<1>2. ASSUME NEW kind \in {"text", "tool", "thinking"}, decodeContentBlockStart(kind)
      PROVE  StepOf
  <2>1. OpenItem(kind) /\ kind \in Kinds /\ phase # "over"
    BY <1>2 DEF decodeContentBlockStart, Kinds, InMessage, Reading
  <2>2. CASE Silent
    BY <2>1, <2>2 DEF Opens, StepOf
  <2>3. CASE kind = "tool"
    <3> DEFINE e == ToolCall(Len(items) + 1, << <<Len(items) + 1, 0>> >>)
    <3>1. AddEvent(e)
      BY <1>2, <2>3 DEF decodeContentBlockStart
    <3>2. e \in Events /\ e.type = "tool-call" /\ e.id = Len(items) + 1
      BY <2>1, NextItemTypes DEF OpenItem, Events, ToolCall
    <3> HIDE DEF e
    <3>3. QED
      BY <2>1, <2>3, <3>1, <3>2 DEF Opens, StepOf, Yield
  <2>4. QED
    BY <1>2, <2>2, <2>3 DEF decodeContentBlockStart
<1>3. ASSUME NEW i \in DOMAIN items, decodeContentBlockDelta(i) PROVE StepOf
  <2>1. SendFragment(i) /\ Fragment(i) \in Seq(Fragments) /\ phase # "over"
    BY <1>3, FragmentTypes DEF decodeContentBlockDelta, InMessage, Reading, SendFragment
  <2>2. CASE items[i].kind = "text" /\ AddEvent(TextDelta(Fragment(i)))
    <3>1. TextDelta(Fragment(i)) \in Events
      BY <2>1 DEF Events, TextDelta
    <3>2. QED
      BY <2>1, <2>2, <3>1 DEF Sends, StepOf, Yield
  <2>3. CASE items[i].kind = "tool" /\ AddEvent(ToolCallDelta(NoID, Fragment(i)))
    <3> DEFINE e == ToolCallDelta(NoID, Fragment(i))
    <3>1. /\ e \in Events /\ e.type = "tool-call-delta" /\ e.id = NoID
          /\ e.data = Fragment(i) /\ AddEvent(e)
      BY <2>1, <2>3 DEF Events, ToolCallDelta
    <3> HIDE DEF e
    <3>2. QED
      BY <2>1, <2>3, <3>1 DEF Sends, StepOf, Yield
  <2>4. CASE items[i].kind = "thinking" /\ Silent
    BY <2>1, <2>4 DEF Sends, StepOf
  <2>5. QED
    BY <1>3, <2>2, <2>3, <2>4 DEF decodeContentBlockDelta
<1>4. ASSUME NEW i \in DOMAIN items, ContentBlockStop(i) PROVE StepOf
  BY <1>4 DEF ContentBlockStop, Closes, StepOf
<1>5. CASE decodeMessageDelta
  <2>1. PICK reason \in {"end_turn", "tool_use", "max_tokens"} :
          AddEvent(Finish(decodeStreamFinishReason(reason), QueryUsage))
    BY <1>5 DEF decodeMessageDelta
  <2>2. decodeStreamFinishReason(reason) \in Reasons
    BY WireAssumption DEF decodeStreamFinishReason
  <2> DEFINE e == Finish(decodeStreamFinishReason(reason), QueryUsage)
  <2>3. e \in Events /\ e.type = "finish" /\ AddEvent(e)
    BY <2>1, <2>2 DEF Events, Finish, QueryUsage
  <2> HIDE DEF e
  <2>4. Finishes
    BY <1>5, <2>3
    DEF decodeMessageDelta, InMessage, Reading, Continue, streamVars, Finishes, Yield
  <2>5. QED
    BY <1>5, <2>4 DEF decodeMessageDelta, InMessage, Reading, Continue, streamVars, Says, StepOf
<1>6. CASE MessageStop \/ StdoutEOF
  BY <1>6
  DEF MessageStop, StdoutEOF, InMessage, Reading, Continue, Move, streamVars, SaysNothing, Says,
      StepOf
<1>7. CASE ResultSuccess
  <2> DEFINE e == Finish("stop", QueryUsage)
  <2>1. e \in Events /\ e.type = "finish" /\ AddEvent(e)
    BY <1>7, WireAssumption DEF ResultSuccess, Events, Finish, QueryUsage
  <2> HIDE DEF e
  <2>2. Finishes
    BY <1>7, <2>1 DEF ResultSuccess, Reading, Move, Finishes, Yield
  <2>3. QED
    BY <1>7, <2>2 DEF ResultSuccess, Reading, Move, Says, StepOf
<1>8. CASE ResultError \/ ParseError \/ ScannerErr
  BY <1>8
  DEF ResultError, ParseError, ScannerErr, Reading, Move, Reports, Says, StepOf, Yield, Error,
      Events
<1>9. QED
  BY <1>1, <1>2, <1>3, <1>4, <1>5, <1>6, <1>7, <1>8 DEF ClaudeNext

LEMMA OpenRouterSteps ==
  ASSUME ItemsInv, OpenRouterRun, provider = "openrouter", OpenRouterNext
  PROVE  StepOf
<1>1. ASSUME NEW kind \in {"text", "reasoning"}, OpenContent(kind) PROVE StepOf
  BY <1>1 DEF OpenContent, Kinds, Opens, StepOf
<1>2. CASE ToolCallStart
  BY <1>2 DEF ToolCallStart, Kinds, Opens, StepOf
<1>3. ASSUME NEW i \in DOMAIN items, CloseContent(i) PROVE StepOf
  BY <1>3 DEF CloseContent, Closes, StepOf
<1>4. ASSUME NEW i \in DOMAIN items, TextChunk(i) PROVE StepOf
  <2>1. SendFragment(i) /\ items[i].kind = "text" /\ AddEvent(TextDelta(Fragment(i)))
    BY <1>4 DEF TextChunk
  <2>2. TextDelta(Fragment(i)) \in Events
    BY <2>1, FragmentTypes DEF SendFragment, Events, TextDelta
  <2>3. QED
    BY <1>4, <2>1, <2>2 DEF TextChunk, Streaming, Reading, Sends, StepOf, Yield
<1>5. ASSUME NEW i \in DOMAIN items, ReasoningChunk(i) PROVE StepOf
  <2>1. SendFragment(i) /\ items[i].kind = "reasoning" /\ AddEvent(Reasoning(Fragment(i)))
    BY <1>5 DEF ReasoningChunk
  <2>2. Reasoning(Fragment(i)) \in Events
    BY <2>1, FragmentTypes DEF SendFragment, Events, Reasoning
  <2>3. QED
    BY <1>5, <2>1, <2>2 DEF ReasoningChunk, Streaming, Reading, Sends, StepOf, Yield
<1>6. ASSUME NEW i \in DOMAIN items, ToolCallArguments(i) PROVE StepOf
  <2> DEFINE e == ToolCallDelta(i, Fragment(i))
  <2>1. phase # "over" /\ items[i].kind = "tool" /\ SendFragment(i)
    BY <1>6 DEF ToolCallArguments, Streaming, Reading
  <2>2. toolCalls[Place(i)] = i
    BY <2>1 DEF OpenRouterRun, Place, PlaceIn
  <2>3. e \in Events /\ e.type = "tool-call-delta" /\ e.id = i /\ e.data = Fragment(i)
    BY <2>1, FragmentTypes DEF SendFragment, Events, ToolCallDelta
  <2>4. AddEvent(e)
    BY <1>6, <2>2 DEF ToolCallArguments
  <2> HIDE DEF e
  <2>5. QED
    BY <2>1, <2>3, <2>4 DEF Sends, StepOf, Yield
<1>7. CASE EmptyTextChunk
  <2>1. TextDelta(<<>>) \in Events
    BY DEF Events, TextDelta
  <2>2. QED
    BY <1>7, <2>1
    DEF EmptyTextChunk, Streaming, Reading, Continue, streamVars, SaysNothing, Says, StepOf, Yield
<1>8. CASE FinishChunk
  <2>1. PICK reason \in {"stop", "length", "content_filter", "tool_calls", "other"},
             cost \in {0, 1} : AddEvent(Finish(DecodeFinishReason(reason), cost))
    BY <1>8 DEF FinishChunk
  <2>2. DecodeFinishReason(reason) \in Reasons
    BY WireAssumption DEF DecodeFinishReason
  <2> DEFINE e == Finish(DecodeFinishReason(reason), cost)
  <2>3. e \in Events /\ e.type = "finish" /\ AddEvent(e)
    BY <2>1, <2>2 DEF Events, Finish
  <2> HIDE DEF e
  <2>4. Finishes
    BY <1>8, <2>3 DEF FinishChunk, Streaming, Reading, Continue, streamVars, Finishes, Yield
  <2>5. QED
    BY <1>8, <2>4 DEF FinishChunk, Streaming, Reading, Continue, streamVars, Says, StepOf
<1>9. CASE ErrorChunk \/ ErrorStatus \/ Done
  BY <1>9
  DEF ErrorChunk, ErrorStatus, Done, Streaming, Reading, Continue, Move, streamVars, PassedOver,
      SaysNothing, Says, StepOf
<1>10. CASE BadChunk
  BY <1>10 DEF BadChunk, Reading, Move, Reports, Says, StepOf, Yield, Error, Events
<1>11. QED
  BY <1>1, <1>2, <1>3, <1>4, <1>5, <1>6, <1>7, <1>8, <1>9, <1>10 DEF OpenRouterNext

(* A step in which the stream has ended, and one of a provider of the      *)
(* program's own.                                                          *)
Ends == phase = "over" /\ StreamOver /\ UNCHANGED <<openAIVars, codexVars, claudeVars, openRouterVars>>

Anything == /\ phase # "over" /\ UNCHANGED <<provider, items>> /\ errors' \subseteq errors
            /\ Silent \/ \E e \in Events : AddEvent(e)

VarsInv == OpenAIInv /\ CodexInv /\ ClaudeInv /\ OpenRouterInv

LEMMA AnySteps ==
  ASSUME AnyEvent \/ AnyEnd
  PROVE  provider = "any" /\ Anything
<1>1. SomeEvents \subseteq Events
  <2>1. {<<0, 0>>, <<0, 1>>} \subseteq (0..MaxItems) \X (0..MaxFragments)
    BY StreamBounds
  <2>2. {<< <<0, 0>> >>, << <<0, 1>> >>} \subseteq Seq(Fragments) /\ {1, 2} \subseteq IDs
    BY <2>1, WireAssumption
  <2>3. {"stop", "unknown"} \subseteq Reasons
    BY WireAssumption
  <2>4. ASSUME NEW e \in SomeEvents PROVE e \in Events
    <3>1. CASE \/ e \in [type: {"text-delta", "reasoning", "file"}, data: {<< <<0, 1>> >>}]
               \/ e \in [type: {"reasoning-signature"}, data: {<< <<0, 0>> >>, << <<0, 1>> >>}]
      BY <2>2, <3>1 DEF Events
    <3>2. CASE e \in [type: {"tool-call", "tool-call-delta"}, id: {1, 2}, data: {<< <<0, 1>> >>}]
      BY <2>2, <3>2 DEF Events
    <3>3. CASE e \in [type: {"source", "response-metadata"}, id: {1, 2}]
      BY <2>2, <3>3 DEF Events
    <3>4. CASE e \in [type: {"finish"}, reason: {"stop", "unknown"}, usage: 0..1]
      BY <2>3, <3>4 DEF Events
    <3>5. CASE e \in [type: {"error"}]
      BY <3>5 DEF Events
    <3>6. QED
      BY <3>1, <3>2, <3>3, <3>4, <3>5 DEF SomeEvents
  <2>5. QED
    BY <2>4
<1>2. provider = "any" /\ phase # "over"
  BY DEF AnyEvent, AnyEnd, Reading, Running
<1>3. UNCHANGED <<provider, items>> /\ errors' \subseteq errors
  BY DEF AnyEvent, AnyEnd, Continue, Move, streamVars
<1>4. Silent \/ \E e \in Events : AddEvent(e)
  BY <1>1 DEF AnyEvent, AnyEnd
<1>5. QED
  BY <1>2, <1>3, <1>4 DEF Anything

(* Who takes a step: the decoder of the stream, whose variables alone      *)
(* change, a provider of the program's own, or nobody who reads it.        *)
LEMMA WhoSteps ==
  ASSUME [Next]_vars
  PROVE  \/ provider = "openai" /\ OpenAINext /\ UNCHANGED <<codexVars, claudeVars, openRouterVars>>
         \/ provider = "codex" /\ CodexNext /\ UNCHANGED <<openAIVars, claudeVars, openRouterVars>>
         \/ provider = "claude" /\ ClaudeNext /\ UNCHANGED <<openAIVars, codexVars, openRouterVars>>
         \/ provider = "openrouter" /\ OpenRouterNext /\ UNCHANGED <<openAIVars, codexVars, claudeVars>>
         \/ /\ provider = "any" /\ Anything
            /\ UNCHANGED <<openAIVars, codexVars, claudeVars, openRouterVars>>
         \/ Ends
         \/ UNCHANGED vars
<1>1. OpenAINext => provider = "openai"
  BY DEF OpenAINext, decodeResponseCreated, decodeOutputItemAdded, decodeTextDelta,
         decodeReasoningSummaryTextDelta, decodeFunctionCallArgumentsDelta, decodeOutputItemDone,
         decodeOutputTextAnnotationAdded, decodeResponseCompleted,
         decodeResponseFailedOrIncomplete, decodeError, StreamErr, StreamEOF, SendFinish, Serving,
         Reading, Running
<1>2. CodexNext => provider = "codex"
  BY DEF CodexNext, ThreadMetadata, ItemStarted, AgentMessageDelta, ReasoningDelta,
         CommandOutputDelta, ItemCompleted, TurnCompleted, Undecodable, TurnCut, Turn, Reading,
         Running
<1>3. ClaudeNext => provider = "claude"
  BY DEF ClaudeNext, decodeMessageStart, decodeContentBlockStart, decodeContentBlockDelta,
         ContentBlockStop, decodeMessageDelta, MessageStop, ResultSuccess, ResultError, ParseError,
         ScannerErr, StdoutEOF, InMessage, Reading, Running
<1>4. OpenRouterNext => provider = "openrouter"
  BY DEF OpenRouterNext, OpenContent, CloseContent, TextChunk, ReasoningChunk, ToolCallArguments,
         EmptyTextChunk, ToolCallStart, FinishChunk, ErrorChunk, ErrorStatus, BadChunk, Done,
         Streaming, Reading, Running
<1>5. AnyEvent \/ AnyEnd => provider = "any" /\ Anything
  BY AnySteps
<1>6. StreamOver => phase = "over"
  BY DEF StreamOver
<1>7. QED
  BY <1>1, <1>2, <1>3, <1>4, <1>5, <1>6 DEF Next, Ends

LEMMA StepKeepsProvider ==
  ASSUME StepOf
  PROVE  UNCHANGED provider
<1>1. CASE Opens
  BY <1>1 DEF Opens, OpenItem
<1>2. CASE Sends
  BY <1>2 DEF Sends, SendFragment
<1>3. CASE Closes
  BY <1>3 DEF Closes, CloseItem
<1>4. CASE Says
  BY <1>4 DEF Says
<1>5. QED
  BY <1>1, <1>2, <1>3, <1>4 DEF StepOf

LEMMA Steps ==
  ASSUME ItemsInv, VarsInv, [Next]_vars
  PROVE  /\ UNCHANGED provider
         /\ \/ provider # "any" /\ StepOf
            \/ provider = "any" /\ Anything
            \/ Ends
            \/ UNCHANGED vars
<1>1. CASE provider = "openai" /\ OpenAINext
  BY <1>1, OpenAISteps, StepKeepsProvider DEF VarsInv, OpenAIInv
<1>2. CASE provider = "codex" /\ CodexNext
  BY <1>2, CodexSteps, StepKeepsProvider DEF VarsInv, CodexInv
<1>3. CASE provider = "claude" /\ ClaudeNext
  BY <1>3, ClaudeSteps, StepKeepsProvider DEF VarsInv, ClaudeInv
<1>4. CASE provider = "openrouter" /\ OpenRouterNext
  BY <1>4, OpenRouterSteps, StepKeepsProvider DEF VarsInv, OpenRouterInv
<1>5. CASE provider = "any" /\ Anything
  BY <1>5 DEF Anything
<1>6. CASE Ends
  BY <1>6 DEF Ends, StreamOver, streamVars
<1>7. CASE UNCHANGED vars
  BY <1>7 DEF vars, streamVars
<1>8. QED
  BY <1>1, <1>2, <1>3, <1>4, <1>5, <1>6, <1>7, WhoSteps

LEMMA NextItems ==
  ASSUME ItemsInv, VarsInv, [Next]_vars
  PROVE  ItemsInv'
<1>1. CASE Opens
  BY <1>1, OpenItemStep DEF Opens
<1>2. CASE Sends
  BY <1>2, SendFragmentStep DEF Sends
<1>3. CASE Closes
  BY <1>3, CloseItemStep DEF Closes
<1>4. CASE UNCHANGED items
  BY <1>4 DEF ItemsInv
<1>5. Ends \/ UNCHANGED vars \/ Says \/ Anything => UNCHANGED items
  BY DEF Ends, StreamOver, streamVars, vars, Says, Anything
<1>6. QED
  BY <1>1, <1>2, <1>3, <1>4, <1>5, Steps DEF StepOf

-----------------------------------------------------------------------------
(* What was sent. *)

SentIn(s, kind) ==
  UNION {{<<i, k>> : k \in 1..s[i].sent} : i \in {j \in DOMAIN s : s[j].kind = kind}}
Data(s, i) == [k \in 1..s[i].sent |-> <<i, k>>]

LEMMA SentIs ==
  ASSUME NEW s, NEW kind, NEW f
  PROVE  f \in SentIn(s, kind) <=>
           \E i \in DOMAIN s : s[i].kind = kind /\ \E k \in 1..s[i].sent : f = <<i, k>>
  BY DEF SentIn

LEMMA FunctionIsSeq ==
  ASSUME NEW S, NEW n \in Nat, NEW s \in [1..n -> S]
  PROVE  s \in Seq(S) /\ Len(s) = n
  OBVIOUS

(* One more fragment. *)
LEMMA DataGrows ==
  ASSUME NEW i, NEW n \in Nat
  PROVE  /\ [k \in 1..n |-> <<i, k>>] \o << <<i, n + 1>> >> = [k \in 1..(n + 1) |-> <<i, k>>]
         /\ n = 0 => << <<i, n + 1>> >> = [k \in 1..(n + 1) |-> <<i, k>>]
<1> DEFINE a == [k \in 1..n |-> <<i, k>>]
           b == << <<i, n + 1>> >>
           c == [k \in 1..(n + 1) |-> <<i, k>>]
           X == {<<i, k>> : k \in 1..(n + 1)}
<1>1. a \in Seq(X) /\ b \in Seq(X) /\ c \in Seq(X) /\ Len(a) = n /\ Len(b) = 1 /\ Len(c) = n + 1
  <2>1. /\ a \in [1..n -> X] /\ c \in [1..(n + 1) -> X] /\ <<i, n + 1>> \in X
        /\ n + 1 \in Nat
    OBVIOUS
  <2>2. b \in Seq(X) /\ Len(b) = 1
    BY <2>1
  <2> HIDE DEF a, b, c, X
  <2>3. a \in Seq(X) /\ Len(a) = n
    BY <2>1, FunctionIsSeq
  <2>4. c \in Seq(X) /\ Len(c) = n + 1
    BY <2>1, FunctionIsSeq
  <2>5. QED
    BY <2>2, <2>3, <2>4
<1>2. Len(a \o b) = n + 1 /\ a \o b \in Seq(X)
  BY <1>1
<1>3. \A k \in 1..(n + 1) : (a \o b)[k] = c[k]
  BY <1>1
<1>4. a \o b = c
  BY <1>1, <1>2, <1>3
<1>5. n = 0 => b = c
  <2>1. n = 0 => \A k \in 1..1 : b[k] = c[k]
    OBVIOUS
  <2>2. QED
    BY <1>1, <2>1
<1>6. QED
  BY <1>4, <1>5

LEMMA SentNext ==
  ASSUME ItemsInv, NEW kind
  PROVE  /\ \A new : Opened(new) => SentIn(items', kind) = SentIn(items, kind)
         /\ \A i \in DOMAIN items : Closed(i) => SentIn(items', kind) = SentIn(items, kind)
         /\ \A i \in DOMAIN items : SentOne(i) =>
              SentIn(items', kind) =
                IF items[i].kind = kind THEN SentIn(items, kind) \cup {<<i, items[i].sent + 1>>}
                ELSE SentIn(items, kind)
<1>0. /\ \A i \in DOMAIN items : items[i].sent \in Nat
      /\ DOMAIN items = 1..Len(items) /\ Len(items) \in Nat
  BY ItemTypes, StreamBounds DEF ItemsInv
<1>1. ASSUME NEW new, Opened(new) PROVE SentIn(items', kind) = SentIn(items, kind)
  <2>1. items'[Len(items) + 1].sent = 0
    BY <1>1 DEF Opened
  <2>2. ASSUME NEW f PROVE f \in SentIn(items', kind) <=> f \in SentIn(items, kind)
    BY <1>0, <1>1, <2>1, SentIs DEF Opened
  <2>3. QED
    BY <2>2
<1>2. ASSUME NEW i \in DOMAIN items, Closed(i) PROVE SentIn(items', kind) = SentIn(items, kind)
  <2>1. \A k \in DOMAIN items : items'[k].kind = items[k].kind /\ items'[k].sent = items[k].sent
    BY <1>2 DEF Closed
  <2>2. DOMAIN items' = DOMAIN items
    BY <1>2 DEF Closed
  <2>3. ASSUME NEW f PROVE f \in SentIn(items', kind) <=> f \in SentIn(items, kind)
    BY <2>1, <2>2, SentIs
  <2>4. QED
    BY <2>3
<1>3. ASSUME NEW i \in DOMAIN items, SentOne(i)
      PROVE  SentIn(items', kind) =
               IF items[i].kind = kind THEN SentIn(items, kind) \cup {<<i, items[i].sent + 1>>}
               ELSE SentIn(items, kind)
  <2>1. ASSUME NEW f PROVE f \in SentIn(items', kind) <=>
          f \in SentIn(items, kind) \/ (items[i].kind = kind /\ f = <<i, items[i].sent + 1>>)
    <3>1. /\ \A k \in DOMAIN items : items'[k].kind = items[k].kind
          /\ \A k \in DOMAIN items : k # i => items'[k].sent = items[k].sent
          /\ items'[i].sent = items[i].sent + 1 /\ DOMAIN items' = DOMAIN items
          /\ items[i].sent \in Nat
      BY <1>0, <1>3 DEF SentOne
    <3>2. 1..(items[i].sent + 1) = 1..items[i].sent \cup {items[i].sent + 1}
      BY <3>1
    <3>3. ASSUME f \in SentIn(items', kind)
          PROVE  f \in SentIn(items, kind) \/ (items[i].kind = kind /\ f = <<i, items[i].sent + 1>>)
      <4>1. PICK j \in DOMAIN items' :
                items'[j].kind = kind /\ \E k \in 1..items'[j].sent : f = <<j, k>>
        BY <3>3, SentIs
      <4>2. CASE j = i
        <5>1. PICK k \in 1..items[i].sent \cup {items[i].sent + 1} : f = <<i, k>>
          BY <3>1, <3>2, <4>1, <4>2
        <5>2. items[i].kind = kind
          BY <3>1, <4>1, <4>2
        <5>3. QED
          BY <5>1, <5>2, SentIs
      <4>3. CASE j # i
        BY <3>1, <4>1, <4>3, SentIs
      <4>4. QED
        BY <4>2, <4>3
    <3>4. ASSUME f \in SentIn(items, kind) PROVE f \in SentIn(items', kind)
      <4>1. PICK j \in DOMAIN items :
                items[j].kind = kind /\ \E k \in 1..items[j].sent : f = <<j, k>>
        BY <3>4, SentIs
      <4>2. 1..items[j].sent \subseteq 1..items'[j].sent
        BY <3>1, <3>2
      <4>3. QED
        BY <3>1, <4>1, <4>2, SentIs
    <3>5. ASSUME items[i].kind = kind, f = <<i, items[i].sent + 1>> PROVE f \in SentIn(items', kind)
      <4>1. items[i].sent + 1 \in 1..items'[i].sent
        BY <3>1
      <4>2. QED
        BY <3>1, <3>5, <4>1, SentIs
    <3>6. QED
      BY <3>3, <3>4, <3>5
  <2>2. QED
    BY <2>1
<1>4. QED
  BY <1>1, <1>2, <1>3

-----------------------------------------------------------------------------
(* The variables of the decoders. *)

(* Which items there are. *)
LEMMA KindsNext ==
  ASSUME ItemsInv, NEW S, \A i \in DOMAIN items : items[i].kind \in S
  PROVE  /\ \A kind \in S : Opened(kind) => \A i \in DOMAIN items' : items'[i].kind \in S
         /\ \A i \in DOMAIN items : SentOne(i) \/ Closed(i) => \A k \in DOMAIN items' : items'[k].kind \in S
<1>1. ASSUME NEW kind \in S, Opened(kind) PROVE \A i \in DOMAIN items' : items'[i].kind \in S
  BY <1>1 DEF Opened
<1>2. ASSUME NEW i \in DOMAIN items, SentOne(i) \/ Closed(i)
      PROVE  \A k \in DOMAIN items' : items'[k].kind \in S
  BY <1>2 DEF SentOne, Closed
<1>3. QED
  BY <1>1, <1>2

(* The tool calls that are open, and whether there was one.                *)
SomeTool == \E i \in DOMAIN items : items[i].kind = "tool"

LEMMA ToolsNext ==
  ASSUME ItemsInv
  PROVE  /\ \A kind : Opened(kind) =>
              /\ OpenTools' = IF kind = "tool" THEN OpenTools \cup {Len(items) + 1} ELSE OpenTools
              /\ SomeTool' <=> (SomeTool \/ kind = "tool")
         /\ \A i \in DOMAIN items : SentOne(i) => OpenTools' = OpenTools /\ (SomeTool' <=> SomeTool)
         /\ \A i \in DOMAIN items : Closed(i) => OpenTools' = OpenTools \ {i} /\ (SomeTool' <=> SomeTool)
<1>0. DOMAIN items = 1..Len(items) /\ Len(items) \in Nat
  BY DEF ItemsInv
<1>1. ASSUME NEW kind, Opened(kind)
      PROVE  /\ OpenTools' = IF kind = "tool" THEN OpenTools \cup {Len(items) + 1} ELSE OpenTools
             /\ SomeTool' <=> (SomeTool \/ kind = "tool")
  <2>1. /\ Len(items) + 1 \notin DOMAIN items /\ DOMAIN items' = DOMAIN items \cup {Len(items) + 1}
        /\ items'[Len(items) + 1].kind = kind /\ items'[Len(items) + 1].open
        /\ \A k \in DOMAIN items : items'[k] = items[k]
    BY <1>0, <1>1 DEF Opened
  <2>2. QED
    BY <2>1 DEF OpenTools, SomeTool
<1>2. ASSUME NEW i \in DOMAIN items, SentOne(i)
      PROVE  OpenTools' = OpenTools /\ (SomeTool' <=> SomeTool)
  <2>1. /\ DOMAIN items' = DOMAIN items
        /\ \A k \in DOMAIN items : items'[k].kind = items[k].kind /\ (items'[k].open <=> items[k].open)
    BY <1>2 DEF SentOne
  <2>2. QED
    BY <2>1 DEF OpenTools, SomeTool
<1>3. ASSUME NEW i \in DOMAIN items, Closed(i)
      PROVE  OpenTools' = OpenTools \ {i} /\ (SomeTool' <=> SomeTool)
  <2>1. /\ DOMAIN items' = DOMAIN items /\ ~items'[i].open
        /\ \A k \in DOMAIN items : items'[k].kind = items[k].kind
        /\ \A k \in DOMAIN items : k # i => items'[k] = items[k]
    BY <1>3 DEF Closed
  <2>2. QED
    BY <2>1 DEF OpenTools, SomeTool
<1>4. QED
  BY <1>1, <1>2, <1>3

LEMMA NextOpenAI ==
  ASSUME ItemsInv, OpenAIRun, OpenAINext
  PROVE  OpenAIRun'
<1> DEFINE K == {"text", "reasoning", "tool", "hosted"}
           Rest == <<created, incompleteReason, annotationCounter, totalTokens, served, details,
                     billed>>
<1>0. K \subseteq Kinds /\ \A i \in DOMAIN items : items[i].kind \in K
  BY DEF OpenAIRun, Kinds
<1>a. hasToolCalls \in BOOLEAN /\ (hasToolCalls <=> SomeTool) /\ ongoingToolCalls = [i \in OpenTools |-> i]
  BY DEF OpenAIRun, SomeTool
<1>b. /\ created \in BOOLEAN
      /\ details \in IncompleteReasons \cup {NoDetails} /\ incompleteReason = details
      /\ annotationCounter \in 0..MaxSources
      /\ served \in {"no", "completed", "incomplete", "failed"}
      /\ totalTokens \in {0, ServerUsage} /\ billed \in {0, ServerUsage}
      /\ served = "no" => details = NoDetails /\ totalTokens = 0
      /\ served = "completed" => totalTokens = billed
  BY DEF OpenAIRun
<1> HIDE DEF K
<1>1. ASSUME UNCHANGED Rest, \A i \in DOMAIN items' : items'[i].kind \in K,
             hasToolCalls' \in BOOLEAN, hasToolCalls' <=> SomeTool',
             ongoingToolCalls' = [i \in OpenTools' |-> i]
      PROVE  OpenAIRun'
  BY <1>1, <1>b DEF OpenAIRun, SomeTool, K
<1>2. ASSUME UNCHANGED <<items, ongoingToolCalls, hasToolCalls>>
      PROVE  /\ \A i \in DOMAIN items' : items'[i].kind \in K
             /\ hasToolCalls' \in BOOLEAN /\ (hasToolCalls' <=> SomeTool')
             /\ ongoingToolCalls' = [i \in OpenTools' |-> i]
  BY <1>2, <1>0, <1>a DEF SomeTool, OpenTools
<1>3. CASE decodeResponseCreated
  BY <1>3, <1>2, <1>b DEF decodeResponseCreated, Continue, streamVars, OpenAIRun, K, SomeTool
<1>4. ASSUME NEW kind \in K, decodeOutputItemAdded(kind) PROVE OpenAIRun'
  <2>1. Opened(kind)
    BY <1>0, <1>4, OpenItemStep DEF decodeOutputItemAdded
  <2>2. \A i \in DOMAIN items' : items'[i].kind \in K
    BY <1>0, <2>1, KindsNext
  <2>3. /\ OpenTools' = IF kind = "tool" THEN OpenTools \cup {Len(items) + 1} ELSE OpenTools
        /\ SomeTool' <=> (SomeTool \/ kind = "tool")
    BY <2>1, ToolsNext
  <2>4. CASE kind = "tool"
    <3>1. hasToolCalls' \in BOOLEAN /\ (hasToolCalls' <=> SomeTool')
      BY <1>4, <2>3, <2>4 DEF decodeOutputItemAdded
    <3>2. ongoingToolCalls' = [i \in DOMAIN ongoingToolCalls \cup {Len(items) + 1} |->
            IF i = Len(items) + 1 THEN Len(items) + 1 ELSE ongoingToolCalls[i]]
      BY <1>4, <2>4 DEF decodeOutputItemAdded
    <3>3. ongoingToolCalls' = [i \in OpenTools' |-> i]
      BY <3>2, <2>3, <2>4, <1>a
    <3>4. UNCHANGED Rest
      BY <1>4 DEF decodeOutputItemAdded
    <3>5. QED
      BY <2>2, <3>1, <3>3, <3>4, <1>1
  <2>5. CASE kind # "tool"
    <3>1. UNCHANGED <<Rest, ongoingToolCalls, hasToolCalls>>
      BY <1>4, <2>5 DEF decodeOutputItemAdded
    <3>2. OpenTools' = OpenTools /\ (SomeTool' <=> SomeTool)
      BY <2>3, <2>5
    <3>3. /\ hasToolCalls' \in BOOLEAN /\ (hasToolCalls' <=> SomeTool')
          /\ ongoingToolCalls' = [i \in OpenTools' |-> i]
      BY <1>a, <3>1, <3>2
    <3>4. QED
      BY <2>2, <3>1, <3>3, <1>1
  <2>6. QED
    BY <2>4, <2>5
<1>5. ASSUME NEW i \in DOMAIN items, SendFragment(i), UNCHANGED openAIVars PROVE OpenAIRun'
  <2>1. SentOne(i)
    BY <1>5, SendFragmentStep
  <2>2. (\A k \in DOMAIN items' : items'[k].kind \in K) /\ OpenTools' = OpenTools /\ (SomeTool' <=> SomeTool)
    BY <1>0, <2>1, KindsNext, ToolsNext
  <2>3. UNCHANGED <<Rest, ongoingToolCalls, hasToolCalls>>
    BY <1>5 DEF openAIVars
  <2>4. /\ hasToolCalls' \in BOOLEAN /\ (hasToolCalls' <=> SomeTool')
        /\ ongoingToolCalls' = [k \in OpenTools' |-> k]
    BY <1>a, <2>2, <2>3
  <2>5. QED
    BY <2>2, <2>3, <2>4, <1>1
<1>6. ASSUME NEW i \in DOMAIN items, decodeOutputItemDone(i) PROVE OpenAIRun'
  <2>1. Closed(i)
    BY <1>6, CloseItemStep DEF decodeOutputItemDone
  <2>2. /\ \A k \in DOMAIN items' : items'[k].kind \in K
        /\ OpenTools' = OpenTools \ {i} /\ (SomeTool' <=> SomeTool)
    BY <1>0, <2>1, KindsNext, ToolsNext
  <2>3. UNCHANGED <<Rest, hasToolCalls>>
    BY <1>6 DEF decodeOutputItemDone
  <2>4. ongoingToolCalls' = [k \in OpenTools' |-> k]
    <3>1. CASE items[i].kind = "tool"
      <4>1. ongoingToolCalls' = [k \in DOMAIN ongoingToolCalls \ {i} |-> ongoingToolCalls[k]]
        BY <1>6, <3>1 DEF decodeOutputItemDone
      <4>2. QED
        BY <4>1, <1>a, <2>2
    <3>2. CASE items[i].kind # "tool"
      <4>1. UNCHANGED ongoingToolCalls
        BY <1>6, <3>2 DEF decodeOutputItemDone
      <4>2. OpenTools \ {i} = OpenTools
        BY <3>2 DEF OpenTools
      <4>3. QED
        BY <4>1, <4>2, <1>a, <2>2
    <3>3. QED
      BY <3>1, <3>2
  <2>5. hasToolCalls' \in BOOLEAN /\ (hasToolCalls' <=> SomeTool')
    BY <1>a, <2>2, <2>3
  <2>6. QED
    BY <2>2, <2>3, <2>4, <2>5, <1>1
<1>7. ASSUME NEW i \in DOMAIN items, decodeOutputTextAnnotationAdded(i) PROVE OpenAIRun'
  <2>1. UNCHANGED <<items, ongoingToolCalls, hasToolCalls>>
    BY <1>7 DEF decodeOutputTextAnnotationAdded, Continue, streamVars
  <2>2. annotationCounter' \in 0..MaxSources
    BY <1>7, <1>b, WireAssumption DEF decodeOutputTextAnnotationAdded
  <2>3. QED
    BY <1>7, <1>2, <1>b, <2>1, <2>2 DEF decodeOutputTextAnnotationAdded, OpenAIRun, K, SomeTool
<1>8. CASE decodeResponseCompleted
  <2>1. /\ UNCHANGED <<items, ongoingToolCalls, hasToolCalls, created, annotationCounter>>
        /\ details' \in IncompleteReasons \cup {NoDetails} /\ billed' \in {0, ServerUsage}
        /\ served' = "completed" /\ incompleteReason = NoDetails /\ totalTokens = 0
    BY <1>8, <1>b DEF decodeResponseCompleted, Serving, Continue, streamVars
  <2>2. incompleteReason' = details' /\ totalTokens' = billed'
    BY <1>8, <2>1 DEF decodeResponseCompleted
  <2>3. QED
    BY <1>2, <1>b, <2>1, <2>2 DEF OpenAIRun, K, SomeTool
<1>9. CASE decodeResponseFailedOrIncomplete
  <2>1. /\ UNCHANGED <<items, ongoingToolCalls, hasToolCalls, created, annotationCounter, totalTokens, billed>>
        /\ details' \in IncompleteReasons \cup {NoDetails} /\ incompleteReason' = details'
        /\ served' \in {"incomplete", "failed"}
    BY <1>9 DEF decodeResponseFailedOrIncomplete, Continue, Move, streamVars
  <2>2. QED
    BY <1>2, <1>b, <2>1 DEF OpenAIRun, K, SomeTool
<1>10. CASE UNCHANGED <<items, openAIVars>>
  BY <1>10, <1>1, <1>2 DEF openAIVars
<1>11. ASSUME NEW i \in DOMAIN items,
              decodeTextDelta(i) \/ decodeReasoningSummaryTextDelta(i) \/ decodeFunctionCallArgumentsDelta(i)
       PROVE  OpenAIRun'
  BY <1>5, <1>10, <1>11
  DEF decodeTextDelta, decodeReasoningSummaryTextDelta, decodeFunctionCallArgumentsDelta, Move
<1>12. decodeError \/ StreamErr \/ StreamEOF \/ SendFinish => UNCHANGED <<items, openAIVars>>
  BY DEF decodeError, StreamErr, StreamEOF, SendFinish, Move
<1>13. QED
  BY <1>3, <1>4, <1>6, <1>7, <1>8, <1>9, <1>10, <1>11, <1>12 DEF OpenAINext, K

(* The commands whose output is being read, and those that are complete.   *)
LEMMA CommandsNext ==
  ASSUME ItemsInv
  PROVE  /\ \A kind : Opened(kind) => OpenCommands' = OpenCommands /\ ClosedCommands' = ClosedCommands
         /\ \A i \in DOMAIN items : SentOne(i) =>
              /\ OpenCommands' = IF items[i].kind = "command" THEN OpenCommands \cup {i} ELSE OpenCommands
              /\ ClosedCommands' = ClosedCommands
         /\ \A i \in DOMAIN items : Closed(i) =>
              /\ items[i].kind = "command" =>
                   OpenCommands' = OpenCommands \ {i} /\ ClosedCommands' = ClosedCommands \cup {i}
              /\ items[i].kind # "command" =>
                   OpenCommands' = OpenCommands /\ ClosedCommands' = ClosedCommands
<1>0. DOMAIN items = 1..Len(items) /\ Len(items) \in Nat /\ \A i \in DOMAIN items : items[i].sent \in Nat
  BY ItemTypes, StreamBounds DEF ItemsInv
<1>1. ASSUME NEW kind, Opened(kind)
      PROVE  OpenCommands' = OpenCommands /\ ClosedCommands' = ClosedCommands
  <2>1. /\ DOMAIN items' = DOMAIN items \cup {Len(items) + 1}
        /\ ~(items'[Len(items) + 1].sent > 0) /\ items'[Len(items) + 1].open
        /\ \A k \in DOMAIN items : items'[k] = items[k]
    BY <1>0, <1>1 DEF Opened
  <2>2. QED
    BY <2>1 DEF OpenCommands, ClosedCommands
<1>2. ASSUME NEW i \in DOMAIN items, SentOne(i)
      PROVE  /\ OpenCommands' = IF items[i].kind = "command" THEN OpenCommands \cup {i} ELSE OpenCommands
             /\ ClosedCommands' = ClosedCommands
  <2>1. /\ DOMAIN items' = DOMAIN items /\ items[i].open
        /\ \A k \in DOMAIN items : items'[k].kind = items[k].kind /\ (items'[k].open <=> items[k].open)
        /\ \A k \in DOMAIN items : k # i => items'[k] = items[k]
    BY <1>2 DEF SentOne
  <2>2. items'[i].sent > 0
    BY <1>0, <1>2 DEF SentOne
  <2>3. QED
    BY <2>1, <2>2 DEF OpenCommands, ClosedCommands
<1>3. ASSUME NEW i \in DOMAIN items, Closed(i)
      PROVE  /\ items[i].kind = "command" =>
                  OpenCommands' = OpenCommands \ {i} /\ ClosedCommands' = ClosedCommands \cup {i}
             /\ items[i].kind # "command" =>
                  OpenCommands' = OpenCommands /\ ClosedCommands' = ClosedCommands
  <2>1. /\ DOMAIN items' = DOMAIN items /\ ~items'[i].open /\ items'[i].kind = items[i].kind
        /\ \A k \in DOMAIN items : k # i => items'[k] = items[k]
    BY <1>3 DEF Closed
  <2>2. QED
    BY <2>1 DEF OpenCommands, ClosedCommands
<1>4. QED
  BY <1>1, <1>2, <1>3

(* The new fragment of an item that does not interleave is the last of all. *)
LEMMA LastFragment ==
  ASSUME ItemsInv, NEW i \in DOMAIN items, items[i].open, items[i].kind \notin Parallel,
         NEW kind, NEW f \in SentIn(items, kind)
  PROVE  Before(f, <<i, items[i].sent + 1>>)
<1>1. PICK j \in DOMAIN items : \E k \in 1..items[j].sent : f = <<j, k>>
  BY SentIs
<1>2. PICK k \in 1..items[j].sent : f = <<j, k>>
  BY <1>1
<1>3. /\ items[i].sent \in Nat /\ items[j].sent \in Nat
      /\ i = Len(items) /\ j \in 1..Len(items) /\ Len(items) \in Nat
  BY ItemTypes, StreamBounds DEF ItemsInv
<1>4. CASE j = i
  BY <1>2, <1>3, <1>4 DEF Before
<1>5. CASE j # i
  BY <1>2, <1>3, <1>5 DEF Before
<1>6. QED
  BY <1>4, <1>5

LEMMA SeqGrows ==
  ASSUME NEW S, NEW T, NEW s \in Seq(S), NEW f, NEW g
  PROVE  /\ S \subseteq T => s \in Seq(T)
         /\ f \in S => /\ Append(s, f) \in Seq(S) /\ Append(s, f)[Len(s) + 1] = f
                       /\ Len(Append(s, f)) = Len(s) + 1
                       /\ \A n \in DOMAIN s : Append(s, f)[n] = s[n]
                       /\ s \o <<f>> = Append(s, f)
         /\ DOMAIN s = 1..Len(s) /\ Len(s) \in Nat
  OBVIOUS

LEMMA NextCodex ==
  ASSUME ItemsInv, CodexRun, CodexNext
  PROVE  CodexRun'
<1> DEFINE K == {"text", "reasoning", "command"}
           Told(s, sent) == /\ s \in Seq(Fragments) /\ {s[k] : k \in DOMAIN s} = sent
                            /\ \A k, l \in DOMAIN s : k < l => Before(s[k], s[l])
           Executed(s, all, closed) ==
             /\ s \in Seq([command: DOMAIN all, output: Seq(Fragments)])
             /\ \A n \in DOMAIN s : s[n].output = Data(all, s[n].command)
             /\ {s[n].command : n \in DOMAIN s} = closed
<1>0. K \subseteq Kinds /\ (\A i \in DOMAIN items : items[i].kind \in K) /\ announced \in BOOLEAN
  BY DEF CodexRun, Kinds
<1>a. /\ commandOutput = [i \in OpenCommands |-> Data(items, i)]
      /\ Executed(commandExecutions, items, ClosedCommands)
      /\ Told(reasoning, SentIn(items, "reasoning"))
  BY DEF CodexRun, ItemData, Data, Sent, SentIn
<1>b. ASSUME \A i \in DOMAIN items' : items'[i].kind \in K, announced' \in BOOLEAN,
             commandOutput' = [i \in OpenCommands' |-> Data(items', i)],
             Executed(commandExecutions', items', ClosedCommands'),
             Told(reasoning', SentIn(items', "reasoning"))
      PROVE  CodexRun'
  BY <1>b DEF CodexRun, ItemData, Data, Sent, SentIn
<1>c. ASSUME DOMAIN items \subseteq DOMAIN items', UNCHANGED <<commandExecutions, ClosedCommands>>,
             \A k \in ClosedCommands : items'[k].sent = items[k].sent
      PROVE  Executed(commandExecutions', items', ClosedCommands')
  <2>1. /\ commandExecutions \in Seq([command: DOMAIN items, output: Seq(Fragments)])
        /\ {commandExecutions[n].command : n \in DOMAIN commandExecutions} = ClosedCommands
        /\ \A n \in DOMAIN commandExecutions :
             commandExecutions[n].output = Data(items, commandExecutions[n].command)
    BY <1>a
  <2>2. [command: DOMAIN items, output: Seq(Fragments)]
          \subseteq [command: DOMAIN items', output: Seq(Fragments)]
    BY <1>c
  <2>3. commandExecutions \in Seq([command: DOMAIN items', output: Seq(Fragments)])
    <3> DEFINE S == [command: DOMAIN items, output: Seq(Fragments)]
               T == [command: DOMAIN items', output: Seq(Fragments)]
    <3>1. commandExecutions \in Seq(S) /\ S \subseteq T
      BY <2>1, <2>2
    <3> HIDE DEF S, T
    <3>2. commandExecutions \in Seq(T)
      BY <3>1, SeqGrows
    <3>3. QED
      BY <3>2 DEF T
  <2>4. \A k \in ClosedCommands : Data(items', k) = Data(items, k)
    BY <1>c DEF Data
  <2>5. \A n \in DOMAIN commandExecutions :
          commandExecutions[n].output = Data(items', commandExecutions[n].command)
    BY <2>1, <2>4
  <2>6. QED
    BY <1>c, <2>1, <2>3, <2>5
<1>d. ASSUME OpenCommands' = OpenCommands, UNCHANGED commandOutput,
             \A k \in OpenCommands : items'[k].sent = items[k].sent
      PROVE  commandOutput' = [i \in OpenCommands' |-> Data(items', i)]
  BY <1>d, <1>a DEF Data
<1>e. OpenCommands \subseteq DOMAIN items /\ ClosedCommands \subseteq DOMAIN items
  BY DEF OpenCommands, ClosedCommands
<1> HIDE DEF K, Executed, Told
<1>1. ASSUME UNCHANGED <<items, reasoning, commandOutput, commandExecutions>>, announced' \in BOOLEAN
      PROVE  CodexRun'
  BY <1>1, <1>0, <1>a, <1>b DEF OpenCommands, ClosedCommands
<1>2. ThreadMetadata \/ TurnCompleted \/ Undecodable \/ TurnCut => CodexRun'
  BY <1>1, <1>0
  DEF ThreadMetadata, TurnCompleted, Undecodable, TurnCut, Continue, Move, streamVars,
      codexVars
<1>3. ASSUME NEW kind \in K, ItemStarted(kind) PROVE CodexRun'
  <2>1. Opened(kind) /\ UNCHANGED codexVars
    BY <1>0, <1>3, OpenItemStep DEF ItemStarted
  <2>2. /\ \A i \in DOMAIN items' : items'[i].kind \in K
        /\ OpenCommands' = OpenCommands /\ ClosedCommands' = ClosedCommands
        /\ SentIn(items', "reasoning") = SentIn(items, "reasoning")
        /\ DOMAIN items \subseteq DOMAIN items' /\ \A k \in DOMAIN items : items'[k].sent = items[k].sent
    BY <1>0, <2>1, KindsNext, CommandsNext, SentNext DEF Opened
  <2>3. QED
    BY <1>0, <1>a, <1>b, <1>c, <1>d, <1>e, <2>1, <2>2 DEF codexVars
<1>4. ASSUME NEW i \in DOMAIN items, AgentMessageDelta(i) PROVE CodexRun'
  <2>1. SentOne(i) /\ items[i].kind = "text" /\ UNCHANGED codexVars
    BY <1>4, SendFragmentStep DEF AgentMessageDelta
  <2>2. /\ \A k \in DOMAIN items' : items'[k].kind \in K
        /\ OpenCommands' = OpenCommands /\ ClosedCommands' = ClosedCommands
        /\ SentIn(items', "reasoning") = SentIn(items, "reasoning")
        /\ DOMAIN items \subseteq DOMAIN items'
    BY <1>0, <2>1, KindsNext, CommandsNext, SentNext DEF SentOne
  <2>3. /\ \A k \in OpenCommands : items'[k].sent = items[k].sent
        /\ \A k \in ClosedCommands : items'[k].sent = items[k].sent
    BY <2>1 DEF SentOne, OpenCommands, ClosedCommands
  <2>4. QED
    BY <1>0, <1>a, <1>b, <1>c, <1>d, <2>1, <2>2, <2>3 DEF codexVars
<1>5. ASSUME NEW i \in DOMAIN items, ReasoningDelta(i) PROVE CodexRun'
  <2>1. /\ SentOne(i) /\ items[i].kind = "reasoning" /\ UNCHANGED <<announced, commandOutput, commandExecutions>>
        /\ reasoning' = reasoning \o Fragment(i) /\ Fragment(i) \in Seq(Fragments)
    BY <1>5, SendFragmentStep, FragmentTypes DEF ReasoningDelta, SendFragment
  <2>2. /\ \A k \in DOMAIN items' : items'[k].kind \in K
        /\ OpenCommands' = OpenCommands /\ ClosedCommands' = ClosedCommands
        /\ SentIn(items', "reasoning") = SentIn(items, "reasoning") \cup {<<i, items[i].sent + 1>>}
        /\ DOMAIN items \subseteq DOMAIN items'
    BY <1>0, <2>1, KindsNext, CommandsNext, SentNext DEF SentOne
  <2>3. /\ \A k \in OpenCommands : items'[k].sent = items[k].sent
        /\ \A k \in ClosedCommands : items'[k].sent = items[k].sent
    BY <2>1 DEF SentOne, OpenCommands, ClosedCommands
  <2>4. Told(reasoning', SentIn(items', "reasoning"))
    <3> DEFINE f == <<i, items[i].sent + 1>>
               all == SentIn(items, "reasoning")
    <3>1. f \in Fragments
      BY <2>1 DEF Fragment
    <3>2. /\ reasoning \in Seq(Fragments) /\ {reasoning[k] : k \in DOMAIN reasoning} = all
          /\ \A k, l \in DOMAIN reasoning : k < l => Before(reasoning[k], reasoning[l])
      BY <1>a DEF Told
    <3>3. \A g \in all : Before(g, f)
      BY <2>1, LastFragment DEF SentOne, Parallel
    <3>4. reasoning' = Append(reasoning, f)
      BY <2>1, <3>1, <3>2, SeqGrows DEF Fragment
    <3> HIDE DEF f, all
    <3>5. /\ reasoning' \in Seq(Fragments) /\ Len(reasoning') = Len(reasoning) + 1
          /\ reasoning'[Len(reasoning) + 1] = f /\ \A k \in DOMAIN reasoning : reasoning'[k] = reasoning[k]
          /\ DOMAIN reasoning = 1..Len(reasoning) /\ Len(reasoning) \in Nat
      BY <3>1, <3>2, <3>4, SeqGrows
    <3>6. DOMAIN reasoning' = DOMAIN reasoning \cup {Len(reasoning) + 1}
      BY <3>5
    <3>7. {reasoning'[k] : k \in DOMAIN reasoning'} = all \cup {f}
      BY <3>2, <3>5, <3>6
    <3>8. ASSUME NEW k \in DOMAIN reasoning', NEW l \in DOMAIN reasoning', k < l
          PROVE  Before(reasoning'[k], reasoning'[l])
      <4>1. k \in DOMAIN reasoning
        BY <3>5, <3>6, <3>8
      <4>2. CASE l \in DOMAIN reasoning
        BY <3>2, <3>5, <3>8, <4>1, <4>2
      <4>3. CASE l = Len(reasoning) + 1
        BY <3>2, <3>3, <3>5, <4>1, <4>3
      <4>4. QED
        BY <3>6, <4>2, <4>3
    <3>9. QED
      BY <2>2, <3>5, <3>7, <3>8 DEF Told, f, all
  <2>5. QED
    BY <1>0, <1>b, <1>c, <1>d, <2>1, <2>2, <2>3, <2>4
<1>6. ASSUME NEW i \in DOMAIN items, CommandOutputDelta(i) PROVE CodexRun'
  <2>1. /\ SentOne(i) /\ items[i].kind = "command" /\ UNCHANGED <<announced, reasoning, commandExecutions>>
        /\ commandOutput' =
             [k \in DOMAIN commandOutput \cup {i} |->
                IF k # i THEN commandOutput[k]
                ELSE IF i \in DOMAIN commandOutput THEN commandOutput[i] \o Fragment(i)
                ELSE Fragment(i)]
    BY <1>6, SendFragmentStep DEF CommandOutputDelta
  <2>2. /\ \A k \in DOMAIN items' : items'[k].kind \in K
        /\ OpenCommands' = OpenCommands \cup {i} /\ ClosedCommands' = ClosedCommands
        /\ SentIn(items', "reasoning") = SentIn(items, "reasoning")
        /\ DOMAIN items \subseteq DOMAIN items'
    BY <1>0, <2>1, KindsNext, CommandsNext, SentNext DEF SentOne
  <2>3. \A k \in ClosedCommands : items'[k].sent = items[k].sent
    BY <2>1 DEF SentOne, ClosedCommands
  <2>4. items[i].sent \in Nat /\ items'[i].sent = items[i].sent + 1
    BY <2>1, ItemTypes, StreamBounds DEF ItemsInv, SentOne
  <2>5. /\ \A k \in OpenCommands : k # i => Data(items', k) = Data(items, k)
        /\ i \in OpenCommands => Data(items, i) \o Fragment(i) = Data(items', i)
        /\ i \notin OpenCommands => Fragment(i) = Data(items', i)
    <3>1. \A k \in OpenCommands : k # i => Data(items', k) = Data(items, k)
      BY <2>1 DEF SentOne, OpenCommands, Data
    <3>2. Data(items, i) \o Fragment(i) = Data(items', i)
      <4> DEFINE n == items[i].sent
      <4>1. Data(items, i) = [k \in 1..n |-> <<i, k>>] /\ Data(items', i) = [k \in 1..(n + 1) |-> <<i, k>>]
        BY <2>4 DEF Data
      <4>2. [k \in 1..n |-> <<i, k>>] \o << <<i, n + 1>> >> = [k \in 1..(n + 1) |-> <<i, k>>]
        BY <2>4, DataGrows
      <4>3. QED
        BY <4>1, <4>2 DEF Fragment
    <3>3. i \notin OpenCommands => items[i].sent = 0
      BY <2>1, <2>4 DEF OpenCommands, SentOne
    <3>4. i \notin OpenCommands => Fragment(i) = Data(items', i)
      BY <2>4, <3>3, DataGrows DEF Data, Fragment
    <3>5. QED
      BY <3>1, <3>2, <3>4
  <2>6. commandOutput' = [k \in OpenCommands' |-> Data(items', k)]
    BY <1>a, <2>1, <2>2, <2>5
  <2>7. QED
    BY <1>0, <1>a, <1>b, <1>c, <2>1, <2>2, <2>3, <2>6
<1>7. ASSUME NEW i \in DOMAIN items, ItemCompleted(i) PROVE CodexRun'
  <2>1. Closed(i) /\ UNCHANGED <<announced, reasoning>>
    BY <1>7, CloseItemStep DEF ItemCompleted
  <2>2. /\ \A k \in DOMAIN items' : items'[k].kind \in K
        /\ SentIn(items', "reasoning") = SentIn(items, "reasoning")
        /\ DOMAIN items = DOMAIN items' /\ \A k \in DOMAIN items : items'[k].sent = items[k].sent
    BY <1>0, <2>1, KindsNext, SentNext DEF Closed
  <2>3. \A k \in DOMAIN items : Data(items', k) = Data(items, k)
    BY <2>2 DEF Data
  <2>4. CASE items[i].kind # "command"
    <3>1. OpenCommands' = OpenCommands /\ ClosedCommands' = ClosedCommands
      BY <2>1, <2>4, CommandsNext
    <3>2. UNCHANGED <<commandOutput, commandExecutions>>
      BY <1>7, <2>4 DEF ItemCompleted
    <3>3. QED
      BY <1>0, <1>a, <1>b, <1>c, <1>d, <1>e, <2>1, <2>2, <3>1, <3>2
  <2>5. CASE items[i].kind = "command"
    <3> DEFINE output == IF i \in DOMAIN commandOutput THEN commandOutput[i] ELSE <<>>
               done == [command |-> i, output |-> output]
    <3>1. OpenCommands' = OpenCommands \ {i} /\ ClosedCommands' = ClosedCommands \cup {i}
      BY <2>1, <2>5, CommandsNext
    <3>2. /\ commandExecutions' = Append(commandExecutions, done)
          /\ commandOutput' = [k \in DOMAIN commandOutput \ {i} |-> commandOutput[k]]
      BY <1>7, <2>5 DEF ItemCompleted
    <3>3. commandOutput' = [k \in OpenCommands' |-> Data(items', k)]
      BY <1>a, <1>e, <2>3, <3>1, <3>2
    <3>4. output = Data(items, i)
      <4>1. CASE i \in OpenCommands
        BY <1>a, <4>1
      <4>2. CASE i \notin OpenCommands
        <5>1. items[i].sent = 0
          BY <2>1, <2>5, <4>2, ItemTypes, StreamBounds DEF OpenCommands, ItemsInv, Closed
        <5>2. QED
          BY <1>a, <4>2, <5>1 DEF Data
      <4>3. QED
        BY <4>1, <4>2
    <3>5. Data(items, i) \in Seq(Fragments)
      BY FragmentTypes DEF ItemData, Data
    <3>6. /\ done \in [command: DOMAIN items, output: Seq(Fragments)]
          /\ done.command = i /\ done.output = Data(items, i)
      BY <3>4, <3>5
    <3> HIDE DEF done, output
    <3>7. Executed(commandExecutions', items', ClosedCommands')
      <4>1. /\ commandExecutions \in Seq([command: DOMAIN items, output: Seq(Fragments)])
            /\ {commandExecutions[n].command : n \in DOMAIN commandExecutions} = ClosedCommands
            /\ \A n \in DOMAIN commandExecutions :
                 commandExecutions[n].output = Data(items, commandExecutions[n].command)
        BY <1>a DEF Executed
      <4>2. /\ commandExecutions' \in Seq([command: DOMAIN items, output: Seq(Fragments)])
            /\ commandExecutions'[Len(commandExecutions) + 1] = done
            /\ Len(commandExecutions') = Len(commandExecutions) + 1
            /\ \A n \in DOMAIN commandExecutions : commandExecutions'[n] = commandExecutions[n]
            /\ DOMAIN commandExecutions = 1..Len(commandExecutions) /\ Len(commandExecutions) \in Nat
        BY <3>2, <3>6, <4>1, SeqGrows
      <4>3. DOMAIN commandExecutions' = DOMAIN commandExecutions \cup {Len(commandExecutions) + 1}
        BY <4>2
      <4>4. {commandExecutions'[n].command : n \in DOMAIN commandExecutions'} = ClosedCommands \cup {i}
        <5>1. ASSUME NEW c
              PROVE  c \in {commandExecutions'[n].command : n \in DOMAIN commandExecutions'}
                                   <=> c \in ClosedCommands \cup {i}
          <6>1. c \in {commandExecutions'[n].command : n \in DOMAIN commandExecutions'} <=>
                  \/ \E n \in DOMAIN commandExecutions : c = commandExecutions[n].command
                  \/ c = done.command
            BY <4>2, <4>3
          <6>2. c \in ClosedCommands <=> \E n \in DOMAIN commandExecutions : c = commandExecutions[n].command
            BY <4>1
          <6>3. QED
            BY <3>6, <6>1, <6>2
        <5>2. QED
          BY <5>1
      <4>5. \A n \in DOMAIN commandExecutions' :
              commandExecutions'[n].output = Data(items, commandExecutions'[n].command)
        BY <3>6, <4>1, <4>2, <4>3
      <4>6. \A n \in DOMAIN commandExecutions' : commandExecutions'[n].command \in DOMAIN items
        BY <1>e, <3>1, <4>4
      <4>7. \A n \in DOMAIN commandExecutions' :
              commandExecutions'[n].output = Data(items', commandExecutions'[n].command)
        BY <2>3, <4>5, <4>6
      <4>8. QED
        BY <2>2, <3>1, <4>2, <4>4, <4>7 DEF Executed
    <3>8. QED
      BY <1>0, <1>a, <1>b, <2>1, <2>2, <3>3, <3>7
  <2>6. QED
    BY <2>4, <2>5
<1>8. QED
  BY <1>2, <1>3, <1>4, <1>5, <1>6, <1>7 DEF CodexNext, K

LEMMA NextClaude ==
  ASSUME ItemsInv, ClaudeRun, ClaudeNext
  PROVE  ClaudeRun'
<1> DEFINE K == {"text", "thinking", "tool"}
<1>0. K \subseteq Kinds /\ (\A i \in DOMAIN items : items[i].kind \in K) /\ inMessage \in BOOLEAN
      /\ stopped \in BOOLEAN /\ messages \in 0..MaxMessages /\ MaxMessages \in Nat
      /\ (tracked = 0 \/ (tracked = 1 /\ phase = "over"))
  BY WireAssumption DEF ClaudeRun, Kinds
<1> HIDE DEF K
<1>a. ASSUME \A i \in DOMAIN items' : items'[i].kind \in K, UNCHANGED claudeVars, phase = "reading"
      PROVE  ClaudeRun'
  BY <1>0, <1>a DEF ClaudeRun, claudeVars, K
<1>b. ClaudeNext => phase = "reading"
  BY DEF ClaudeNext, decodeMessageStart, decodeContentBlockStart, decodeContentBlockDelta,
         ContentBlockStop, decodeMessageDelta, MessageStop, ResultSuccess, ResultError, ParseError,
         ScannerErr, StdoutEOF, InMessage, Reading
<1>1. CASE decodeMessageStart
  <2>1. UNCHANGED <<items, phase, tracked>> /\ inMessage' = TRUE /\ stopped' = FALSE
    BY <1>1 DEF decodeMessageStart, Continue, streamVars
  <2>2. messages' \in 0..MaxMessages
    BY <1>0, <1>1 DEF decodeMessageStart
  <2>3. QED
    BY <1>0, <2>1, <2>2 DEF ClaudeRun, K
<1>2. ASSUME NEW kind \in K, decodeContentBlockStart(kind) PROVE ClaudeRun'
  <2>1. Opened(kind) /\ UNCHANGED claudeVars
    BY <1>0, <1>2, OpenItemStep DEF decodeContentBlockStart
  <2>2. \A i \in DOMAIN items' : items'[i].kind \in K
    BY <1>0, <2>1, KindsNext
  <2>3. QED
    BY <1>a, <1>b, <2>1, <2>2
<1>3. ASSUME NEW i \in DOMAIN items, decodeContentBlockDelta(i) PROVE ClaudeRun'
  <2>1. SentOne(i) /\ UNCHANGED claudeVars
    BY <1>3, SendFragmentStep DEF decodeContentBlockDelta
  <2>2. \A k \in DOMAIN items' : items'[k].kind \in K
    BY <1>0, <2>1, KindsNext
  <2>3. QED
    BY <1>a, <1>b, <2>1, <2>2
<1>4. ASSUME NEW i \in DOMAIN items, ContentBlockStop(i) PROVE ClaudeRun'
  <2>1. Closed(i) /\ UNCHANGED claudeVars
    BY <1>4, CloseItemStep DEF ContentBlockStop
  <2>2. \A k \in DOMAIN items' : items'[k].kind \in K
    BY <1>0, <2>1, KindsNext
  <2>3. QED
    BY <1>a, <1>b, <2>1, <2>2
<1>5. CASE decodeMessageDelta \/ MessageStop
  BY <1>0, <1>5, <1>b DEF decodeMessageDelta, MessageStop, Continue, streamVars, ClaudeRun, K
<1>6. CASE ResultSuccess
  BY <1>0, <1>6, <1>b DEF ResultSuccess, Move, ClaudeRun, K
<1>7. CASE ResultError \/ ParseError \/ ScannerErr \/ StdoutEOF
  BY <1>0, <1>7, <1>a, <1>b DEF ResultError, ParseError, ScannerErr, StdoutEOF, Move
<1>8. QED
  BY <1>1, <1>2, <1>3, <1>4, <1>5, <1>6, <1>7 DEF ClaudeNext, K

(* How many calls there are among the first items. *)
LEMMA PlaceIs ==
  ASSUME NEW s, NEW t, NEW i \in Nat
  PROVE  /\ (\A k \in 1..i : s[k].kind = t[k].kind) => PlaceIn(s, i) = PlaceIn(t, i)
         /\ PlaceIn(s, i) \in Nat /\ PlaceIn(s, 0) = 0
         /\ PlaceIn(s, i + 1) = PlaceIn(s, i) + IF s[i + 1].kind = "tool" THEN 1 ELSE 0
<1> DEFINE P(u, n) == {k \in 1..n : u[k].kind = "tool"}
<1>1. ASSUME \A k \in 1..i : s[k].kind = t[k].kind PROVE PlaceIn(s, i) = PlaceIn(t, i)
  <2>1. P(s, i) = P(t, i)
    BY <1>1
  <2>2. QED
    BY <2>1 DEF PlaceIn
<1>2. IsFiniteSet(P(s, i))
  <2>1. IsFiniteSet(1..i) /\ P(s, i) \subseteq 1..i
    BY FS_Interval
  <2>2. QED
    BY <2>1, FS_Subset
<1>3. Cardinality(P(s, i)) \in Nat
  BY <1>2, FS_CardinalityType
<1>4. P(s, 0) = {}
  OBVIOUS
<1>5. PlaceIn(s, 0) = 0
  BY <1>4, FS_EmptySet DEF PlaceIn
<1>6. CASE s[i + 1].kind = "tool"
  <2>1. P(s, i + 1) = P(s, i) \cup {i + 1} /\ i + 1 \notin P(s, i)
    BY <1>6
  <2> HIDE DEF P
  <2>2. Cardinality(P(s, i) \cup {i + 1}) = Cardinality(P(s, i)) + 1
    BY <1>2, <2>1, FS_AddElement
  <2>3. PlaceIn(s, i) = Cardinality(P(s, i)) /\ PlaceIn(s, i + 1) = Cardinality(P(s, i + 1))
    BY DEF P, PlaceIn
  <2>4. QED
    BY <1>1, <1>3, <1>5, <1>6, <2>1, <2>2, <2>3
<1>7. CASE s[i + 1].kind # "tool"
  <2>1. P(s, i + 1) = P(s, i)
    BY <1>7
  <2>2. PlaceIn(s, i) = Cardinality(P(s, i)) /\ PlaceIn(s, i + 1) = Cardinality(P(s, i + 1))
    BY DEF P, PlaceIn
  <2> HIDE DEF P
  <2>3. QED
    BY <1>1, <1>3, <1>5, <1>7, <2>1, <2>2
<1>8. QED
  BY <1>1, <1>3, <1>5, <1>6, <1>7 DEF PlaceIn

LEMMA NextOpenRouter ==
  ASSUME ItemsInv, OpenRouterRun, OpenRouterNext
  PROVE  OpenRouterRun'
<1> DEFINE K == {"text", "reasoning", "tool"}
           Placed(calls, all) ==
             /\ calls \in Seq(IDs)
             /\ Len(calls) = PlaceIn(all, Len(all))
             /\ \A i \in DOMAIN all : all[i].kind = "tool" =>
                  PlaceIn(all, i) \in DOMAIN calls /\ calls[PlaceIn(all, i)] = i
<1>0. /\ K \subseteq Kinds /\ \A i \in DOMAIN items : items[i].kind \in K
      /\ ended \in BOOLEAN /\ Placed(toolCalls, items)
  BY DEF OpenRouterRun, Kinds
<1>a. ASSUME \A i \in DOMAIN items' : items'[i].kind \in K, ended' \in BOOLEAN,
             Placed(toolCalls', items')
      PROVE  OpenRouterRun'
  BY <1>a DEF OpenRouterRun
<1>b. DOMAIN items = 1..Len(items) /\ Len(items) \in Nat
  BY DEF ItemsInv
<1>c. ASSUME Len(items') = Len(items), DOMAIN items' = DOMAIN items, UNCHANGED toolCalls,
             \A k \in DOMAIN items : items'[k].kind = items[k].kind
      PROVE  Placed(toolCalls', items')
  <2>1. ASSUME NEW i \in 0..Len(items) PROVE PlaceIn(items', i) = PlaceIn(items, i)
    <3>1. i \in Nat /\ \A k \in 1..i : items'[k].kind = items[k].kind
      BY <1>b, <1>c
    <3>2. QED
      BY <3>1, PlaceIs
  <2>2. QED
    BY <1>0, <1>b, <1>c, <2>1
<1>d. ASSUME NEW i \in DOMAIN items, SentOne(i) \/ Closed(i), UNCHANGED openRouterVars, ItemsInv'
      PROVE  OpenRouterRun'
  <2>1. /\ DOMAIN items' = DOMAIN items /\ \A k \in DOMAIN items : items'[k].kind = items[k].kind
        /\ UNCHANGED <<toolCalls, ended>>
    BY <1>d DEF SentOne, Closed, openRouterVars
  <2>2. DOMAIN items' = 1..Len(items') /\ Len(items') \in Nat
    BY <1>d DEF ItemsInv
  <2>3. Len(items') = Len(items)
    BY <1>b, <2>1, <2>2
  <2> HIDE DEF Placed
  <2>4. Placed(toolCalls', items')
    BY <1>c, <2>1, <2>3
  <2>5. QED
    BY <1>0, <1>a, <2>1, <2>4
<1>e. ASSUME NEW kind \in K, Opened(kind)
      PROVE  /\ \A i \in 0..Len(items) : PlaceIn(items', i) = PlaceIn(items, i)
             /\ PlaceIn(items', Len(items')) = PlaceIn(items, Len(items)) + IF kind = "tool" THEN 1 ELSE 0
             /\ PlaceIn(items, Len(items)) \in Nat
             /\ \A i \in DOMAIN items' : items'[i].kind \in K
  <2>1. ASSUME NEW i \in 0..Len(items) PROVE PlaceIn(items', i) = PlaceIn(items, i)
    <3>1. i \in Nat /\ \A k \in 1..i : items'[k].kind = items[k].kind
      BY <1>b, <1>e DEF Opened
    <3>2. QED
      BY <3>1, PlaceIs
  <2>2. items'[Len(items) + 1].kind = kind /\ Len(items') = Len(items) + 1
    BY <1>e DEF Opened
  <2>3. PlaceIn(items', Len(items) + 1) = PlaceIn(items', Len(items)) + IF kind = "tool" THEN 1 ELSE 0
    BY <1>b, <2>2, PlaceIs
  <2>4. PlaceIn(items', Len(items)) = PlaceIn(items, Len(items)) /\ PlaceIn(items, Len(items)) \in Nat
    BY <1>b, <2>1, PlaceIs
  <2>5. \A i \in DOMAIN items' : items'[i].kind \in K
    BY <1>0, <1>e, KindsNext
  <2>6. QED
    BY <2>1, <2>2, <2>3, <2>4, <2>5
<1> HIDE DEF K
<1>1. ASSUME NEW kind \in K \ {"tool"}, OpenContent(kind) PROVE OpenRouterRun'
  <2>1. Opened(kind) /\ UNCHANGED <<toolCalls, ended>> /\ kind \in Kinds
    BY <1>0, <1>1, OpenItemStep DEF OpenContent, openRouterVars
  <2>2. /\ PlaceIn(items', Len(items')) = PlaceIn(items, Len(items))
        /\ \A i \in DOMAIN items : PlaceIn(items', i) = PlaceIn(items, i)
        /\ \A i \in DOMAIN items' : items'[i].kind \in K
    BY <1>b, <1>e, <2>1
  <2>3. /\ DOMAIN items' = DOMAIN items \cup {Len(items) + 1} /\ items'[Len(items) + 1].kind # "tool"
        /\ \A k \in DOMAIN items : items'[k] = items[k]
    BY <2>1, <1>1 DEF Opened
  <2>4. Placed(toolCalls', items')
    BY <1>0, <2>1, <2>2, <2>3
  <2> HIDE DEF Placed
  <2>5. QED
    BY <1>0, <1>a, <2>1, <2>2, <2>4
<1>2. CASE ToolCallStart
  <2>1. Opened("tool") /\ UNCHANGED ended /\ toolCalls' = Append(toolCalls, Len(items) + 1)
    BY <1>2, OpenItemStep DEF ToolCallStart, Kinds
  <2>2. /\ PlaceIn(items', Len(items')) = PlaceIn(items, Len(items)) + 1
        /\ PlaceIn(items, Len(items)) \in Nat /\ Len(items') = Len(items) + 1
        /\ \A i \in DOMAIN items : PlaceIn(items', i) = PlaceIn(items, i)
        /\ \A i \in DOMAIN items' : items'[i].kind \in K
    BY <1>b, <1>e, <2>1 DEF K, Opened
  <2>3. /\ DOMAIN items' = DOMAIN items \cup {Len(items) + 1}
        /\ \A k \in DOMAIN items : items'[k] = items[k]
    BY <2>1 DEF Opened
  <2>4. Len(items) + 1 \in IDs
    BY <2>1, NextItemTypes DEF Opened
  <2>5. toolCalls \in Seq(IDs) /\ Len(toolCalls) = PlaceIn(items, Len(items))
    BY <1>0
  <2>6. /\ toolCalls' \in Seq(IDs) /\ Len(toolCalls') = Len(toolCalls) + 1
        /\ toolCalls'[Len(toolCalls) + 1] = Len(items) + 1
        /\ DOMAIN toolCalls' = 1..(Len(toolCalls) + 1) /\ DOMAIN toolCalls = 1..Len(toolCalls)
        /\ \A n \in DOMAIN toolCalls : toolCalls'[n] = toolCalls[n]
    BY <2>1, <2>4, <2>5
  <2>7. ASSUME NEW i \in DOMAIN items', items'[i].kind = "tool"
        PROVE  PlaceIn(items', i) \in DOMAIN toolCalls' /\ toolCalls'[PlaceIn(items', i)] = i
    <3>1. CASE i \in DOMAIN items
      <4>1. PlaceIn(items', i) = PlaceIn(items, i) /\ items[i].kind = "tool"
        BY <2>2, <2>3, <2>7, <3>1
      <4>2. PlaceIn(items, i) \in DOMAIN toolCalls /\ toolCalls[PlaceIn(items, i)] = i
        BY <1>0, <3>1, <4>1
      <4>3. DOMAIN toolCalls \subseteq DOMAIN toolCalls'
        BY <2>2, <2>5, <2>6
      <4>4. QED
        BY <2>6, <4>1, <4>2, <4>3
    <3>2. CASE i = Len(items) + 1
      BY <2>2, <2>5, <2>6, <3>2
    <3>3. QED
      BY <2>3, <3>1, <3>2
  <2>8. Placed(toolCalls', items')
    BY <2>2, <2>5, <2>6, <2>7
  <2> HIDE DEF Placed
  <2>9. QED
    BY <1>0, <1>a, <2>1, <2>2, <2>8
<1>3. ASSUME NEW i \in DOMAIN items, CloseContent(i) PROVE OpenRouterRun'
  BY <1>3, <1>d, CloseItemStep DEF CloseContent
<1>4. ASSUME NEW i \in DOMAIN items, TextChunk(i) \/ ReasoningChunk(i) \/ ToolCallArguments(i)
      PROVE  OpenRouterRun'
  BY <1>4, <1>d, SendFragmentStep DEF TextChunk, ReasoningChunk, ToolCallArguments
<1>5. ASSUME UNCHANGED <<items, toolCalls>>, ended' \in BOOLEAN
      PROVE  OpenRouterRun'
  <2> HIDE DEF Placed
  <2>1. QED
    BY <1>0, <1>a, <1>5
<1>6. EmptyTextChunk \/ FinishChunk \/ ErrorChunk \/ ErrorStatus \/ BadChunk \/ Done =>
        UNCHANGED <<items, toolCalls>> /\ ended' \in BOOLEAN
  BY <1>0
  DEF EmptyTextChunk, FinishChunk, ErrorChunk, ErrorStatus, BadChunk, Done, Continue, Move,
      streamVars, openRouterVars
<1>7. QED
  BY <1>1, <1>2, <1>3, <1>4, <1>5, <1>6 DEF OpenRouterNext, K

LEMMA VarsStay ==
  ASSUME UNCHANGED <<items, phase>>
  PROVE  /\ OpenAIRun /\ UNCHANGED openAIVars => OpenAIRun'
         /\ CodexRun /\ UNCHANGED codexVars => CodexRun'
         /\ ClaudeRun /\ UNCHANGED claudeVars => ClaudeRun'
         /\ OpenRouterRun /\ UNCHANGED openRouterVars => OpenRouterRun'
<1>1. OpenAIRun /\ UNCHANGED openAIVars => OpenAIRun'
  BY DEF OpenAIRun, openAIVars, OpenTools
<1>2. CodexRun /\ UNCHANGED codexVars => CodexRun'
  <2>1. /\ OpenCommands' = OpenCommands /\ ClosedCommands' = ClosedCommands
        /\ Sent("reasoning")' = Sent("reasoning") /\ \A i : ItemData(i)' = ItemData(i)
    BY DEF OpenCommands, ClosedCommands, ItemData, Sent
  <2>2. ASSUME CodexRun, UNCHANGED codexVars PROVE CodexRun'
    <3>1. UNCHANGED <<items, announced, reasoning, commandOutput, commandExecutions>>
      BY <2>2 DEF codexVars
    <3>2. \A n \in DOMAIN commandExecutions :
            commandExecutions'[n].output = Data(items', commandExecutions'[n].command)
      BY <2>2, <3>1 DEF CodexRun, ItemData, Data
    <3>3. commandOutput' = [i \in OpenCommands' |-> Data(items', i)]
      BY <2>1, <2>2, <3>1 DEF CodexRun, ItemData, Data
    <3>4. QED
      BY <2>1, <2>2, <3>1, <3>2, <3>3 DEF CodexRun, ItemData, Data
  <2>3. QED
    BY <2>2
<1>3. ClaudeRun /\ UNCHANGED claudeVars => ClaudeRun'
  BY DEF ClaudeRun, claudeVars
<1>4. OpenRouterRun /\ UNCHANGED openRouterVars => OpenRouterRun'
  BY DEF OpenRouterRun, openRouterVars
<1>5. QED
  BY <1>1, <1>2, <1>3, <1>4

LEMMA InitsStay ==
  /\ OpenAIInit /\ UNCHANGED openAIVars => OpenAIInit'
  /\ CodexInit /\ UNCHANGED codexVars => CodexInit'
  /\ ClaudeInit /\ UNCHANGED claudeVars => ClaudeInit'
  /\ OpenRouterInit /\ UNCHANGED openRouterVars => OpenRouterInit'
<1>1. OpenAIInit /\ UNCHANGED openAIVars => OpenAIInit'
  BY DEF OpenAIInit, openAIVars
<1>2. CodexInit /\ UNCHANGED codexVars => CodexInit'
  BY DEF CodexInit, codexVars
<1>3. ClaudeInit /\ UNCHANGED claudeVars => ClaudeInit'
  BY DEF ClaudeInit, claudeVars
<1>4. OpenRouterInit /\ UNCHANGED openRouterVars => OpenRouterInit'
  BY DEF OpenRouterInit, openRouterVars
<1>5. QED
  BY <1>1, <1>2, <1>3, <1>4

LEMMA NextVars ==
  ASSUME ItemsInv, VarsInv, [Next]_vars
  PROVE  VarsInv'
<1>0. UNCHANGED provider
  BY Steps
<1>1. CASE provider = "openai" /\ OpenAINext /\ UNCHANGED <<codexVars, claudeVars, openRouterVars>>
  <2>1. OpenAIRun'
    BY <1>1, NextOpenAI DEF VarsInv, OpenAIInv
  <2>2. QED
    BY <1>0, <1>1, <2>1, InitsStay DEF VarsInv, OpenAIInv, CodexInv, ClaudeInv, OpenRouterInv
<1>2. CASE provider = "codex" /\ CodexNext /\ UNCHANGED <<openAIVars, claudeVars, openRouterVars>>
  <2>1. CodexRun'
    BY <1>2, NextCodex DEF VarsInv, CodexInv
  <2>2. QED
    BY <1>0, <1>2, <2>1, InitsStay DEF VarsInv, OpenAIInv, CodexInv, ClaudeInv, OpenRouterInv
<1>3. CASE provider = "claude" /\ ClaudeNext /\ UNCHANGED <<openAIVars, codexVars, openRouterVars>>
  <2>1. ClaudeRun'
    BY <1>3, NextClaude DEF VarsInv, ClaudeInv
  <2>2. QED
    BY <1>0, <1>3, <2>1, InitsStay DEF VarsInv, OpenAIInv, CodexInv, ClaudeInv, OpenRouterInv
<1>4. CASE provider = "openrouter" /\ OpenRouterNext /\ UNCHANGED <<openAIVars, codexVars, claudeVars>>
  <2>1. OpenRouterRun'
    BY <1>4, NextOpenRouter DEF VarsInv, OpenRouterInv
  <2>2. QED
    BY <1>0, <1>4, <2>1, InitsStay DEF VarsInv, OpenAIInv, CodexInv, ClaudeInv, OpenRouterInv
<1>5. CASE provider = "any" /\ UNCHANGED <<openAIVars, codexVars, claudeVars, openRouterVars>>
  BY <1>0, <1>5, InitsStay DEF VarsInv, OpenAIInv, CodexInv, ClaudeInv, OpenRouterInv
<1>6. CASE Ends \/ UNCHANGED vars
  <2>1. UNCHANGED <<items, phase, openAIVars, codexVars, claudeVars, openRouterVars>>
    BY <1>6 DEF Ends, StreamOver, streamVars, vars
  <2>2. QED
    BY <1>0, <2>1, VarsStay, InitsStay DEF VarsInv, OpenAIInv, CodexInv, ClaudeInv, OpenRouterInv
<1>7. QED
  BY <1>1, <1>2, <1>3, <1>4, <1>5, <1>6, WhoSteps

LEMMA InitVars ==
  ASSUME Init
  PROVE  ItemsInv /\ VarsInv
<1>1. items = <<>> /\ MaxItems \in Nat
  BY StreamBounds DEF Init, StreamInit
<1>2. items \in Seq(Item) /\ Len(items) = 0 /\ DOMAIN items = {}
  BY <1>1
<1>3. ItemsInv
  BY <1>1, <1>2 DEF ItemsInv
<1>4. OpenAIRun
  <2>1. OpenTools = {}
    BY <1>2 DEF OpenTools
  <2>2. OpenAIInit
    BY DEF Init
  <2>3. 0 \in 0..MaxSources
    BY WireAssumption
  <2>4. ongoingToolCalls = [i \in OpenTools |-> i]
    BY <2>1, <2>2 DEF OpenAIInit
  <2>5. QED
    BY <1>2, <2>2, <2>3, <2>4 DEF OpenAIInit, OpenAIRun
<1>5. CodexRun
  <2>1. OpenCommands = {} /\ ClosedCommands = {} /\ Sent("reasoning") = {}
    BY <1>2 DEF OpenCommands, ClosedCommands, Sent
  <2>2. CodexInit
    BY DEF Init
  <2>3. commandOutput = [i \in OpenCommands |-> ItemData(i)]
    BY <2>1, <2>2 DEF CodexInit
  <2>4. /\ reasoning \in Seq(Fragments) /\ DOMAIN reasoning = {} /\ DOMAIN commandExecutions = {}
        /\ commandExecutions \in Seq([command: DOMAIN items, output: Seq(Fragments)])
    BY <2>2 DEF CodexInit
  <2>5. announced \in BOOLEAN
    BY <2>2 DEF CodexInit
  <2>6. QED
    BY <1>2, <2>1, <2>3, <2>4, <2>5 DEF CodexRun
<1>6. ClaudeRun
  <2>1. 0 \in 0..MaxMessages
    BY WireAssumption
  <2>2. QED
    BY <1>2, <2>1 DEF Init, ClaudeInit, ClaudeRun
<1>7. OpenRouterRun
  <2>1. PlaceIn(items, 0) = 0
    BY PlaceIs
  <2>2. OpenRouterInit
    BY DEF Init
  <2>3. toolCalls \in Seq(IDs) /\ Len(toolCalls) = 0 /\ ended \in BOOLEAN
    <3>1. toolCalls = <<>>
      BY <2>2 DEF OpenRouterInit
    <3>2. ended \in BOOLEAN
      BY <2>2 DEF OpenRouterInit
    <3>3. toolCalls \in Seq(IDs) /\ Len(toolCalls) = 0
      BY <3>1
    <3>4. QED
      BY <3>2, <3>3
  <2>4. QED
    BY <1>2, <2>1, <2>3 DEF OpenRouterRun
<1>8. VarsInv
  BY <1>4, <1>5, <1>6, <1>7 DEF Init, VarsInv, OpenAIInv, CodexInv, ClaudeInv, OpenRouterInv
<1>9. QED
  BY <1>3, <1>8

-----------------------------------------------------------------------------
(* The builder takes a step of its own in every step, or none. *)

LEMMA BuilderSteps ==
  ASSUME ItemsInv, VarsInv, [Next]_vars
  PROVE  [BuilderNext]_builderVars
<1>a. Silent => [BuilderNext]_builderVars
  BY DEF Silent
<1>b. \A e : Yield(e) => BuilderNext
  BY DEF Yield, BuilderNext
<1>1. CASE Opens
  BY <1>1, <1>a, <1>b DEF Opens
<1>2. CASE Sends
  BY <1>2, <1>a, <1>b DEF Sends
<1>3. CASE Closes
  BY <1>3, <1>a, <1>b DEF Closes
<1>4. CASE Says
  BY <1>4, <1>a, <1>b DEF Says, Reports, Finishes, Cites, SaysNothing, Identifies
<1>5. CASE Anything
  BY <1>5, <1>a DEF Anything, BuilderNext
<1>6. CASE Ends
  BY <1>6 DEF Ends, StreamOver, BuilderNext
<1>7. CASE UNCHANGED vars
  BY <1>7 DEF vars
<1>8. QED
  BY <1>1, <1>2, <1>3, <1>4, <1>5, <1>6, <1>7, Steps DEF StepOf

(* The decoders of all providers use the builder as its specification      *)
(* says it may be used: every stream is a behaviour of the builder fed     *)
(* with well-typed events (api/builder: StreamToResponse), so that what is *)
(* proved of it for any events holds of every stream.                      *)
THEOREM StreamsFeedTheBuilder == Spec => BuilderSpec
<1>1. Init => ItemsInv /\ VarsInv
  BY InitVars
<1>2. ItemsInv /\ VarsInv /\ [Next]_vars => ItemsInv' /\ VarsInv'
  BY NextItems, NextVars
<1>3. ItemsInv /\ VarsInv /\ [Next]_vars => [BuilderNext]_builderVars
  BY BuilderSteps
<1>4. Init => NewResponseBuilder
  BY DEF Init
<1>5. QED
  BY <1>1, <1>2, <1>3, <1>4, PTL DEF Spec, BuilderSpec

-----------------------------------------------------------------------------
(* Types. *)

PhaseInv ==
  /\ provider \in Providers
  /\ phase \in {"reading", "finishing", "over"}
  /\ errors \subseteq ErrorKinds

(* The iterator of a stream stays where it is, or moves; an error that was *)
(* met once is not forgotten.                                              *)
Moves ==
  \/ UNCHANGED <<phase, errors>>
  \/ /\ phase' \in {"reading", "finishing", "over"}
     /\ \E met \in SUBSET ErrorKinds : errors' = errors \cup met

LEMMA PhaseSteps ==
  ASSUME [Next]_vars
  PROVE  UNCHANGED provider /\ Moves
<1>o. \A kind : OpenItem(kind) => UNCHANGED provider /\ Moves
  BY DEF OpenItem, Moves
<1>s. \A i : SendFragment(i) => UNCHANGED provider /\ Moves
  BY DEF SendFragment, Moves
<1>c. \A i : CloseItem(i) => UNCHANGED provider /\ Moves
  BY DEF CloseItem, Moves
<1>m. \A to \in {"reading", "finishing", "over"}, met \in SUBSET ErrorKinds :
        Move(to, met) => UNCHANGED provider /\ Moves
  BY DEF Move, Moves
<1>k. {{}, {"event"}, {"failed"}, {"chunk"}, {"status"}, {"broken"}, {"budget"}} \subseteq SUBSET ErrorKinds
  BY DEF ErrorKinds
<1>n. Continue => UNCHANGED provider /\ Moves
  BY DEF Continue, streamVars, Moves
<1>1. OpenAINext => UNCHANGED provider /\ Moves
  BY <1>o, <1>s, <1>c, <1>m, <1>k, <1>n
  DEF OpenAINext, decodeResponseCreated, decodeOutputItemAdded, decodeTextDelta,
      decodeReasoningSummaryTextDelta, decodeFunctionCallArgumentsDelta, decodeOutputItemDone,
      decodeOutputTextAnnotationAdded, decodeResponseCompleted, decodeResponseFailedOrIncomplete,
      decodeError, StreamErr, StreamEOF, SendFinish
<1>2. CodexNext => UNCHANGED provider /\ Moves
  BY <1>o, <1>s, <1>c, <1>m, <1>k, <1>n
  DEF CodexNext, ThreadMetadata, ItemStarted, AgentMessageDelta, ReasoningDelta,
      CommandOutputDelta, ItemCompleted, TurnCompleted, Undecodable, TurnCut
<1>3. ClaudeNext => UNCHANGED provider /\ Moves
  BY <1>o, <1>s, <1>c, <1>m, <1>k, <1>n
  DEF ClaudeNext, decodeMessageStart, decodeContentBlockStart, decodeContentBlockDelta,
      ContentBlockStop, decodeMessageDelta, MessageStop, ResultSuccess, ResultError, ParseError,
      ScannerErr, StdoutEOF
<1>4. OpenRouterNext => UNCHANGED provider /\ Moves
  BY <1>o, <1>s, <1>c, <1>m, <1>k, <1>n
  DEF OpenRouterNext, OpenContent, CloseContent, TextChunk, ReasoningChunk, ToolCallArguments,
      EmptyTextChunk, ToolCallStart, FinishChunk, ErrorChunk, ErrorStatus, BadChunk, Done
<1>5. AnyEvent \/ AnyEnd => UNCHANGED provider /\ Moves
  BY <1>m, <1>k, <1>n DEF AnyEvent, AnyEnd
<1>6. StreamOver \/ UNCHANGED vars => UNCHANGED provider /\ Moves
  BY DEF StreamOver, streamVars, vars, Moves
<1>7. QED
  BY <1>1, <1>2, <1>3, <1>4, <1>5, <1>6 DEF Next

LEMMA PhaseStays ==
  ASSUME PhaseInv, [Next]_vars
  PROVE  PhaseInv'
<1>1. UNCHANGED provider /\ Moves
  BY PhaseSteps
<1>2. phase' \in {"reading", "finishing", "over"}
  BY <1>1 DEF PhaseInv, Moves
<1>3. errors' \subseteq ErrorKinds
  BY <1>1 DEF PhaseInv, Moves
<1>4. QED
  BY <1>1, <1>2, <1>3 DEF PhaseInv

LEMMA ItemsAreTyped ==
  ASSUME ItemsInv, VarsInv, PhaseInv, BuilderTypeOK
  PROVE  TypeOK
<1>0. /\ items \in Seq(Item) /\ DOMAIN items = 1..Len(items) /\ Len(items) \in Nat
      /\ Len(items) <= MaxItems /\ MaxItems \in Nat
  BY StreamBounds DEF ItemsInv
<1>1. StreamTypeOK
  <2>1. \A i \in DOMAIN items : items[i] \in Item
    BY <1>0
  <2>2. QED
    BY <1>0, <2>1 DEF Item, StreamTypeOK, PhaseInv
<1>2. OpenAITypeOK
  <2>1. CASE OpenAIRun
    <3>1. /\ OpenTools \subseteq DOMAIN items
          /\ DOMAIN items \subseteq 1..MaxItems /\ 1..MaxItems \subseteq IDs
      BY <1>0, WireAssumption DEF OpenTools
    <3>2. ongoingToolCalls = [i \in OpenTools |-> i]
      BY <2>1 DEF OpenAIRun
    <3>3. /\ ongoingToolCalls \in [DOMAIN ongoingToolCalls -> IDs]
          /\ DOMAIN ongoingToolCalls \subseteq DOMAIN items
      BY <3>1, <3>2
    <3>4. QED
      BY <2>1, <3>3 DEF OpenAIRun, OpenAITypeOK
  <2>2. CASE OpenAIInit
    <3>1. 0 \in 0..MaxSources
      BY WireAssumption
    <3>2. /\ ongoingToolCalls \in [DOMAIN ongoingToolCalls -> IDs]
          /\ DOMAIN ongoingToolCalls \subseteq DOMAIN items
      BY <2>2 DEF OpenAIInit
    <3>3. QED
      BY <2>2, <3>1, <3>2 DEF OpenAIInit, OpenAITypeOK
  <2>3. QED
    BY <2>1, <2>2 DEF VarsInv, OpenAIInv
<1>3. CodexTypeOK
  <2>1. CASE CodexRun
    <3>1. /\ DOMAIN commandOutput = OpenCommands /\ OpenCommands \subseteq DOMAIN items
          /\ \A i \in OpenCommands : commandOutput[i] = ItemData(i)
      BY <2>1 DEF CodexRun, OpenCommands
    <3>2. \A i \in DOMAIN commandOutput : commandOutput[i] \in Seq(Fragments)
      BY <3>1, FragmentTypes
    <3>3. commandExecutions \in Seq([command: DOMAIN items, output: Seq(Fragments)])
      BY <2>1 DEF CodexRun
    <3>4. \A n \in DOMAIN commandExecutions :
            commandExecutions[n] \in [command: DOMAIN items, output: Seq(Fragments)]
      <4> DEFINE S == [command: DOMAIN items, output: Seq(Fragments)]
      <4>1. commandExecutions \in Seq(S)
        BY <3>3
      <4> HIDE DEF S
      <4>2. \A n \in DOMAIN commandExecutions : commandExecutions[n] \in S
        BY <4>1
      <4>3. QED
        BY <4>2 DEF S
    <3>5. QED
      BY <2>1, <3>1, <3>2, <3>4 DEF CodexRun, CodexTypeOK
  <2>2. CASE CodexInit
    <3>1. /\ announced \in BOOLEAN /\ reasoning = <<>> /\ DOMAIN commandOutput = {}
          /\ commandExecutions = <<>>
      BY <2>2 DEF CodexInit
    <3>2. reasoning \in Seq(Fragments) /\ DOMAIN commandExecutions = {}
      BY <3>1
    <3>3. QED
      BY <3>1, <3>2 DEF CodexTypeOK
  <2>3. QED
    BY <2>1, <2>2 DEF VarsInv, CodexInv
<1>4. ClaudeTypeOK
  <2>1. 0 \in 0..MaxMessages
    BY WireAssumption
  <2>2. inMessage \in BOOLEAN /\ stopped \in BOOLEAN
    BY DEF VarsInv, ClaudeInv, ClaudeRun, ClaudeInit
  <2>3. messages \in 0..MaxMessages /\ tracked \in {0, 1}
    BY <2>1 DEF VarsInv, ClaudeInv, ClaudeRun, ClaudeInit
  <2>4. QED
    BY <2>2, <2>3 DEF ClaudeTypeOK
<1>5. OpenRouterTypeOK
  <2>1. <<>> \in Seq(IDs)
    OBVIOUS
  <2>2. CASE OpenRouterRun
    BY <2>2 DEF OpenRouterRun, OpenRouterTypeOK
  <2>3. CASE OpenRouterInit
    <3>1. toolCalls \in Seq(IDs)
      BY <2>1, <2>3 DEF OpenRouterInit
    <3>2. QED
      BY <2>3, <3>1 DEF OpenRouterInit, OpenRouterTypeOK
  <2>4. QED
    BY <2>2, <2>3 DEF VarsInv, OpenRouterInv
<1>6. QED
  BY <1>1, <1>2, <1>3, <1>4, <1>5 DEF TypeOK

(* What holds of the items, of the decoders' variables and of the builder  *)
(* in every state, on which the rest is built.                             *)
Base == ItemsInv /\ VarsInv /\ PhaseInv /\ BuilderTypeOK /\ ToolCallsIndexed

LEMMA BaseHolds == Spec => []Base
<1>1. Init => ItemsInv /\ VarsInv
  BY InitVars
<1>2. ItemsInv /\ VarsInv /\ [Next]_vars => ItemsInv' /\ VarsInv'
  BY NextItems, NextVars
<1>3. Init => PhaseInv
  BY DEF Init, StreamInit, PhaseInv
<1>4. PhaseInv /\ [Next]_vars => PhaseInv'
  BY PhaseStays
<1>5. QED
  BY <1>1, <1>2, <1>3, <1>4, StreamsFeedTheBuilder, BuilderTypeCorrect, ToolCallsAreIndexed, PTL
  DEF Spec, Base

(* The variables of the builder and of every decoder are well typed,       *)
(* whichever provider writes the stream and however its events interleave. *)
THEOREM StreamTypeCorrect == Spec => []TypeOK
<1>1. Base => TypeOK
  BY ItemsAreTyped DEF Base
<1>2. QED
  BY <1>1, BaseHolds, PTL

-----------------------------------------------------------------------------
(* What an event does to the builder: it is refused, or taken.             *)

Refused(e) ==
  /\ result = "none" /\ result' = "rejected"
  /\ UNCHANGED <<content, toolCallIndices, currentState, responseID, finishReason, usage, err>>
  /\ \/ currentState = "finished"
     \/ e.type = "reasoning" /\ currentState \notin {"no", "reasoning"}
     \/ e.type = "reasoning-signature"
     \/ e.type = "tool-call" /\ e.id \in DOMAIN toolCallIndices
     \/ e.type = "response-metadata" /\ responseID \notin {NoID, e.id}

Taken(e) ==
  /\ result = "none" /\ result' = "none" /\ currentState # "finished"
  /\ e.type \in {"response-metadata", "finish", "error"} => UNCHANGED <<content, toolCallIndices>>
  /\ e.type \in {"response-metadata", "error"} => UNCHANGED currentState
  /\ e.type = "text-delta" => currentState' \in {currentState, "text"}
  /\ e.type = "reasoning" => currentState' \in {currentState, "reasoning"}
  /\ e.type \in {"tool-call", "tool-call-delta"} => currentState' = "toolCall"
  /\ e.type = "source" => currentState' = "source"
  /\ e.type = "finish" => /\ currentState' = "finished" /\ finishReason' = e.reason
                          /\ usage' = IF e.usage = 0 THEN usage ELSE e.usage
  /\ e.type # "finish" => UNCHANGED <<finishReason, usage>>
  /\ responseID' = IF e.type = "response-metadata" THEN e.id ELSE responseID
  /\ e.type \in {"tool-call", "tool-call-delta"} =>
       DOMAIN toolCallIndices' = DOMAIN toolCallIndices \cup {e.id}
  /\ e.type \notin {"tool-call", "tool-call-delta"} => UNCHANGED toolCallIndices
  /\ err => err' = TRUE
  /\ e.type = "error" => err' = TRUE
  /\ e.type # "error" => UNCHANGED err

LEMMA RefusedOrTaken ==
  ASSUME NEW e, AddEvent(e)
  PROVE  Refused(e) \/ Taken(e)
<1>0. result = "none"
  BY DEF AddEvent
<1>1. CASE currentState = "finished"
  BY <1>0, <1>1 DEF AddEvent, Reject, Refused
<1>a. CASE currentState # "finished"
  <2> USE <1>0, <1>a
  <2>2. CASE e.type = "text-delta" /\ addTextDelta(e)
    BY <2>2 DEF addTextDelta, Taken
  <2>3. CASE e.type = "reasoning" /\ addReasoning(e)
    BY <2>3 DEF addReasoning, Reject, Refused, Taken
  <2>4. CASE e.type = "reasoning-signature" /\ addReasoningSignature(e)
    BY <2>4 DEF addReasoningSignature, Reject, Refused, Taken
  <2>5. CASE e.type = "tool-call" /\ addToolCall(e)
    BY <2>5 DEF addToolCall, Indexed, Reject, Refused, Taken
  <2>6. CASE e.type = "tool-call-delta" /\ addToolCallDelta(e)
    BY <2>6 DEF addToolCallDelta, Indexed, Taken
  <2>7. CASE e.type = "source" /\ addSource(e)
    BY <2>7 DEF addSource, Taken
  <2>8. CASE e.type = "file" /\ addFile(e)
    BY <2>8 DEF addFile, Taken
  <2>9. CASE e.type = "response-metadata" /\ addResponseMetadata(e)
    BY <2>9 DEF addResponseMetadata, Reject, Refused, Taken
  <2>10. CASE e.type = "finish" /\ addFinish(e)
    BY <2>10 DEF addFinish, Taken
  <2>11. CASE e.type = "error" /\ addError(e)
    BY <2>11 DEF addError, Taken
  <2>12. QED
    BY <2>2, <2>3, <2>4, <2>5, <2>6, <2>7, <2>8, <2>9, <2>10, <2>11 DEF AddEvent
<1>2. QED
  BY <1>1, <1>a

(* Nothing happens once there is a result. *)
LEMMA NothingAfterResult ==
  ASSUME Next
  PROVE  result = "none"
<1>1. OpenAINext => result = "none"
  BY DEF OpenAINext, decodeResponseCreated, decodeOutputItemAdded, decodeTextDelta,
         decodeReasoningSummaryTextDelta, decodeFunctionCallArgumentsDelta, decodeOutputItemDone,
         decodeOutputTextAnnotationAdded, decodeResponseCompleted,
         decodeResponseFailedOrIncomplete, decodeError, StreamErr, StreamEOF, SendFinish, Serving,
         Reading, Running
<1>2. CodexNext => result = "none"
  BY DEF CodexNext, ThreadMetadata, ItemStarted, AgentMessageDelta, ReasoningDelta,
         CommandOutputDelta, ItemCompleted, TurnCompleted, Undecodable, TurnCut, Turn, Reading,
         Running
<1>3. ClaudeNext => result = "none"
  BY DEF ClaudeNext, decodeMessageStart, decodeContentBlockStart, decodeContentBlockDelta,
         ContentBlockStop, decodeMessageDelta, MessageStop, ResultSuccess, ResultError, ParseError,
         ScannerErr, StdoutEOF, InMessage, Reading, Running
<1>4. OpenRouterNext => result = "none"
  BY DEF OpenRouterNext, OpenContent, CloseContent, TextChunk, ReasoningChunk, ToolCallArguments,
         EmptyTextChunk, ToolCallStart, FinishChunk, ErrorChunk, ErrorStatus, BadChunk, Done,
         Streaming, Reading, Running
<1>5. AnyEvent \/ AnyEnd \/ StreamOver => result = "none"
  BY DEF AnyEvent, AnyEnd, StreamOver, Build, Reading, Running
<1>6. QED
  BY <1>1, <1>2, <1>3, <1>4, <1>5 DEF Next

-----------------------------------------------------------------------------
(* Errors. *)

ErrInv ==
  /\ errors \subseteq PassedOver \/ err = TRUE \/ result = "rejected"
  /\ err = TRUE => result # "response"

(* A finished stream of OpenRouter stays so.                               *)
LEMMA StaysEnded ==
  ASSUME [Next]_vars
  PROVE  ended => ended'
<1>1. OpenRouterNext => (ended => ended')
  <2>1. FinishChunk => (ended => ended')
    BY DEF FinishChunk
  <2>2. OpenRouterNext => FinishChunk \/ UNCHANGED ended
    BY DEF OpenRouterNext, OpenContent, CloseContent, TextChunk, ReasoningChunk, ToolCallArguments,
           EmptyTextChunk, ToolCallStart, ErrorChunk, ErrorStatus, BadChunk, Done, openRouterVars
  <2>3. QED
    BY <2>1, <2>2
<1>2. UNCHANGED openRouterVars \/ UNCHANGED vars => (ended => ended')
  BY DEF openRouterVars, vars
<1>3. QED
  BY <1>1, <1>2 DEF Next

LEMMA ErrStays ==
  ASSUME Base, ErrInv, [Next]_vars
  PROVE  ErrInv'
<1>1. CASE result # "none"
  <2>1. UNCHANGED vars
    BY <1>1, NothingAfterResult
  <2>2. UNCHANGED <<errors, err, result>>
    BY <2>1 DEF vars, streamVars, builderVars
  <2>3. QED
    BY <2>2 DEF ErrInv
<1>2. CASE result = "none"
  <2>a. errors \subseteq PassedOver \/ err = TRUE
    BY <1>2 DEF ErrInv
  <2>b. ASSUME errors' \subseteq errors \cup PassedOver, Silent PROVE ErrInv'
    BY <1>2, <2>a, <2>b DEF ErrInv, Silent, builderVars
  <2>c. ASSUME NEW e, Yield(e), errors' \subseteq errors \/ e.type = "error" PROVE ErrInv'
    <3>1. Refused(e) \/ Taken(e)
      BY <2>c, RefusedOrTaken DEF Yield
    <3>2. CASE Refused(e)
      BY <3>2 DEF Refused, ErrInv
    <3>3. CASE Taken(e)
      <4>1. result' = "none" /\ (err = TRUE => err' = TRUE) /\ (e.type = "error" => err' = TRUE)
        BY <3>3 DEF Taken
      <4>2. QED
        BY <2>a, <2>c, <4>1 DEF ErrInv
    <3>4. QED
      BY <3>1, <3>2, <3>3
  <2>d. ASSUME UNCHANGED errors, Silent \/ \E e : Yield(e) PROVE ErrInv'
    BY <2>b, <2>c, <2>d
  <2>1. CASE Opens \/ Sends \/ Closes
    <3>1. UNCHANGED errors
      BY <2>1 DEF Opens, OpenItem, Sends, SendFragment, Closes, CloseItem
    <3>2. Silent \/ \E e : Yield(e)
      BY <2>1 DEF Opens, Sends, Closes
    <3>3. QED
      BY <2>d, <3>1, <3>2
  <2>2. CASE Says
    <3>1. CASE Reports
      BY <3>1, <2>c DEF Reports, Error
    <3>2. CASE Finishes \/ Cites \/ Identifies
      <4>1. (\E e : Yield(e)) /\ errors' \subseteq errors
        BY <3>2 DEF Finishes, Cites, Identifies
      <4>2. QED
        BY <2>c, <4>1
    <3>3. CASE SaysNothing
      BY <3>3, <2>b, <2>c DEF SaysNothing
    <3>4. QED
      BY <2>2, <3>1, <3>2, <3>3 DEF Says
  <2>3. CASE Anything
    <3>1. errors' \subseteq errors /\ (Silent \/ \E e : Yield(e))
      BY <2>3 DEF Anything, Yield
    <3>2. QED
      BY <2>b, <2>c, <3>1
  <2>4. CASE Ends
    <3>1. UNCHANGED <<errors, err>> /\ result' = IF err THEN "error" ELSE "response"
      BY <2>4 DEF Ends, StreamOver, Build, streamVars
    <3>2. err \in BOOLEAN
      BY DEF Base, BuilderTypeOK
    <3>3. QED
      BY <2>a, <3>1, <3>2 DEF ErrInv
  <2>5. CASE UNCHANGED vars
    BY <2>5 DEF vars, streamVars, builderVars, ErrInv
  <2>6. QED
    BY <2>1, <2>2, <2>3, <2>4, <2>5, Steps DEF StepOf, Base
<1>3. QED
  BY <1>1, <1>2

(* A stream that has met an error is never built into a response, however  *)
(* many events come after it, be the error one the provider reports, a cut *)
(* or unreadable stream, a fragment of nothing or a turn over budget: the  *)
(* builder keeps the error until the stream is over                        *)
(* (builder/builder.go:263, 272).  Excepted are exactly the errors of      *)
(* which a decoder makes no event: the response.failed of OpenAI           *)
(* (decode_stream.go:337), and the error chunk and the error status of     *)
(* OpenRouter.                                                             *)
THEOREM StreamErrorsSurface == Spec => []ErrorsSurface
<1>1. Init => ErrInv
  BY DEF Init, StreamInit, NewResponseBuilder, ErrInv
<1>2. Base /\ ErrInv /\ [Next]_vars => ErrInv'
  BY ErrStays
<1>3. ErrInv => ErrorsSurface
  BY DEF ErrInv, ErrorsSurface
<1>4. QED
  BY <1>1, <1>2, <1>3, BaseHolds, PTL DEF Spec

-----------------------------------------------------------------------------
(* What an event that is taken does to the content.                        *)

(* The n-th block has d more, and the others are as they were.             *)
Extends(n, d) ==
  /\ n \in DOMAIN content /\ DOMAIN content' = DOMAIN content
  /\ \A k \in DOMAIN content :
       content'[k].type = content[k].type /\ content'[k].id = content[k].id
  /\ content'[n].data = content[n].data \o d
  /\ \A k \in DOMAIN content : k # n => content'[k].data = content[k].data

(* There is one more block. *)
Adds(type, id, d) ==
  /\ DOMAIN content' = DOMAIN content \cup {Len(content) + 1}
  /\ Len(content) + 1 \notin DOMAIN content
  /\ content'[Len(content) + 1] = Block(type, id, d)
  /\ \A k \in DOMAIN content : content'[k] = content[k]

LEMMA ExtendedBy ==
  ASSUME content \in Seq(Blocks), NEW n \in DOMAIN content, NEW d \in Seq(Fragments),
         content' = Extended(n, d)
  PROVE  Extends(n, d)
<1>1. n \in 1..Len(content) /\ DOMAIN content = 1..Len(content)
  OBVIOUS
<1>2. /\ content' \in Seq(Blocks) /\ Len(content') = Len(content)
      /\ \A k \in 1..Len(content) :
           /\ content'[k].type = content[k].type
           /\ content'[k].id = content[k].id
           /\ content'[k].data = IF k = n THEN content[k].data \o d ELSE content[k].data
  BY <1>1, ExtendedType
<1>3. DOMAIN content' = DOMAIN content
  BY <1>1, <1>2
<1>4. QED
  BY <1>1, <1>2, <1>3 DEF Extends

LEMMA AddedTo ==
  ASSUME content \in Seq(Blocks), NEW type \in BlockTypes, NEW id \in IDs \cup {NoID},
         NEW d \in Seq(Fragments), content' = Append(content, Block(type, id, d))
  PROVE  Adds(type, id, d)
<1>1. Block(type, id, d) \in Blocks
  BY BlockType
<1> DEFINE b == Block(type, id, d)
<1>2. b \in Blocks /\ content' = Append(content, b)
  BY <1>1
<1> HIDE DEF b
<1>3. /\ DOMAIN content' = DOMAIN content \cup {Len(content) + 1}
      /\ Len(content) + 1 \notin DOMAIN content /\ content'[Len(content) + 1] = b
      /\ \A k \in DOMAIN content : content'[k] = content[k]
  BY <1>2
<1>4. QED
  BY <1>3 DEF Adds, b

LEMMA ContentAfter ==
  ASSUME BuilderTypeOK, NEW e \in Events, AddEvent(e), Taken(e)
  PROVE  /\ e.type = "text-delta" =>
              \/ Extends(Len(content), e.data) /\ LastIs("text") /\ UNCHANGED currentState
              \/ Adds("text", NoID, e.data) /\ ~LastIs("text")
         /\ e.type = "reasoning" =>
              \/ Extends(Len(content), e.data) /\ LastIs("reasoning")
              \/ Adds("reasoning", NoID, e.data) /\ ~LastIs("reasoning")
         /\ e.type = "tool-call" => Adds("tool", e.id, e.data) /\ e.id \notin DOMAIN toolCallIndices
         /\ e.type = "tool-call-delta" =>
              \/ e.id \in DOMAIN toolCallIndices /\ Extends(toolCallIndices[e.id], e.data)
              \/ e.id \notin DOMAIN toolCallIndices /\ Adds("tool", e.id, e.data)
         /\ e.type = "source" => Adds("source", e.id, <<>>)
<1>0. content \in Seq(Blocks) /\ DOMAIN content = 1..Len(content) /\ Len(content) \in Nat
  BY DEF BuilderTypeOK
<1>a. result' = "none" /\ currentState # "finished" /\ ~Reject
  BY DEF Taken, Reject
<1>b. \A type : LastIs(type) => Len(content) \in DOMAIN content
  BY <1>0 DEF LastIs
<1>1. ASSUME e.type = "text-delta"
      PROVE  \/ Extends(Len(content), e.data) /\ LastIs("text") /\ UNCHANGED currentState
             \/ Adds("text", NoID, e.data) /\ ~LastIs("text")
  <2>1. addTextDelta(e) /\ e.data \in Seq(Fragments)
    BY <1>1, <1>a, EventData DEF AddEvent
  <2>2. CASE LastIs("text")
    BY <1>0, <1>b, <2>1, <2>2, ExtendedBy DEF addTextDelta
  <2>3. CASE ~LastIs("text")
    <3>1. content' = Append(content, Block("text", NoID, e.data)) /\ "text" \in BlockTypes
      BY <2>1, <2>3 DEF addTextDelta, BlockTypes
    <3>2. QED
      BY <1>0, <2>1, <2>3, <3>1, AddedTo
  <2>4. QED
    BY <2>2, <2>3
<1>2. ASSUME e.type = "reasoning"
      PROVE  \/ Extends(Len(content), e.data) /\ LastIs("reasoning")
             \/ Adds("reasoning", NoID, e.data) /\ ~LastIs("reasoning")
  <2>1. addReasoning(e) /\ e.data \in Seq(Fragments)
    BY <1>2, <1>a, EventData DEF AddEvent
  <2>2. CASE LastIs("reasoning")
    BY <1>0, <1>a, <1>b, <2>1, <2>2, ExtendedBy DEF addReasoning
  <2>3. CASE ~LastIs("reasoning")
    <3>1. content' = Append(content, Block("reasoning", NoID, e.data)) /\ "reasoning" \in BlockTypes
      BY <1>a, <2>1, <2>3 DEF addReasoning, BlockTypes
    <3>2. QED
      BY <1>0, <2>1, <2>3, <3>1, AddedTo
  <2>4. QED
    BY <2>2, <2>3
<1>3. ASSUME e.type = "tool-call"
      PROVE  Adds("tool", e.id, e.data) /\ e.id \notin DOMAIN toolCallIndices
  <2>1. addToolCall(e) /\ e.data \in Seq(Fragments) /\ e.id \in IDs \cup {NoID}
    BY <1>3, <1>a, EventData DEF AddEvent
  <2>2. /\ e.id \notin DOMAIN toolCallIndices
        /\ content' = Append(content, Block("tool", e.id, e.data)) /\ "tool" \in BlockTypes
    BY <1>a, <2>1 DEF addToolCall, BlockTypes
  <2>3. QED
    BY <1>0, <2>1, <2>2, AddedTo
<1>4. ASSUME e.type = "tool-call-delta"
      PROVE  \/ e.id \in DOMAIN toolCallIndices /\ Extends(toolCallIndices[e.id], e.data)
             \/ e.id \notin DOMAIN toolCallIndices /\ Adds("tool", e.id, e.data)
  <2>1. addToolCallDelta(e) /\ e.data \in Seq(Fragments) /\ e.id \in IDs \cup {NoID}
    BY <1>4, <1>a, EventData DEF AddEvent
  <2>2. CASE e.id \in DOMAIN toolCallIndices
    <3>1. toolCallIndices[e.id] \in DOMAIN content
      BY <1>0, <2>2 DEF BuilderTypeOK
    <3>2. content' = Extended(toolCallIndices[e.id], e.data)
      BY <2>1, <2>2 DEF addToolCallDelta
    <3>3. QED
      BY <1>0, <2>1, <2>2, <3>1, <3>2, ExtendedBy
  <2>3. CASE e.id \notin DOMAIN toolCallIndices
    <3>1. content' = Append(content, Block("tool", e.id, e.data)) /\ "tool" \in BlockTypes
      BY <2>1, <2>3 DEF addToolCallDelta, BlockTypes
    <3>2. QED
      BY <1>0, <2>1, <2>3, <3>1, AddedTo
  <2>4. QED
    BY <2>2, <2>3
<1>5. ASSUME e.type = "source" PROVE Adds("source", e.id, <<>>)
  <2>1. addSource(e) /\ e.id \in IDs \cup {NoID} /\ <<>> \in Seq(Fragments)
    BY <1>5, <1>a, EventData DEF AddEvent
  <2>2. content' = Append(content, Block("source", e.id, <<>>)) /\ "source" \in BlockTypes
    BY <2>1 DEF addSource, BlockTypes
  <2>3. QED
    BY <1>0, <2>1, <2>2, AddedTo
<1>6. QED
  BY <1>1, <1>2, <1>3, <1>4, <1>5

-----------------------------------------------------------------------------
(* What is known of the builder from what the model has sent.              *)

SomeText == \E i \in DOMAIN items : items[i].kind = "text"
EmptyText == /\ provider = "openrouter"
             /\ \E n \in DOMAIN content : content[n].type = "text" /\ content[n].data = <<>>

CallIDs == DOMAIN items \cup {NoID}

ClaudeState ==
  /\ messages = 0 => responseID = NoID
  /\ ~inMessage /\ messages > 0 => currentState = "finished"
  /\ inMessage /\ stopped => currentState = "finished"
  /\ DOMAIN toolCallIndices \subseteq CallIDs

BuildState ==
  /\ currentState \in {"no", "text", "reasoning", "toolCall", "source", "finished"}
  /\ currentState = "text" => SomeText \/ EmptyText
  /\ currentState = "toolCall" => SomeTool
  /\ currentState = "source" => SomeText
  /\ currentState = "finished" /\ provider \in {"openai", "codex"} => phase = "over"
  /\ currentState = "finished" /\ provider = "openrouter" => ended
  /\ provider \in {"openai", "codex"} => responseID \in {NoID, 1}

StateInv == (provider # "any" => BuildState) /\ (provider = "claude" => ClaudeState)

(* What an event leaves as it is, taken or not. *)
LEMMA EventKeeps ==
  ASSUME NEW e, AddEvent(e)
  PROVE  /\ currentState = "finished" => currentState' = "finished"
         /\ e.type = "finish" => currentState' = "finished"
         /\ e.type # "response-metadata" => UNCHANGED responseID
         /\ e.type = "error" => UNCHANGED <<currentState, toolCallIndices>>
         /\ e.type \notin {"tool-call", "tool-call-delta"} => UNCHANGED toolCallIndices
         /\ e.type \in {"tool-call", "tool-call-delta"} =>
              DOMAIN toolCallIndices' \subseteq DOMAIN toolCallIndices \cup {e.id}
<1>1. CASE Refused(e)
  BY <1>1 DEF Refused
<1>2. CASE Taken(e)
  BY <1>2 DEF Taken
<1>3. QED
  BY <1>1, <1>2, RefusedOrTaken

LEMMA NextClaudeState ==
  ASSUME Base, provider = "claude", ClaudeState, ClaudeNext
  PROVE  ClaudeState'
<1>0. ItemsInv /\ messages \in Nat /\ inMessage \in BOOLEAN /\ stopped \in BOOLEAN
  BY WireAssumption DEF Base, VarsInv, ClaudeInv, ClaudeRun
<1>a. Silent => UNCHANGED <<responseID, currentState, toolCallIndices>>
  BY DEF Silent, builderVars
<1>b. ASSUME DOMAIN items \subseteq DOMAIN items', UNCHANGED <<responseID, currentState, toolCallIndices>>,
             UNCHANGED claudeVars
      PROVE  ClaudeState'
  BY <1>b DEF ClaudeState, CallIDs, claudeVars
<1>1. CASE decodeMessageStart
  <2>1. /\ messages' = messages + 1 /\ inMessage' /\ ~stopped' /\ UNCHANGED items
        /\ AddEvent(Metadata(messages + 1))
    BY <1>1 DEF decodeMessageStart, Continue, streamVars
  <2>2. UNCHANGED toolCallIndices
    BY <2>1, EventKeeps DEF Metadata
  <2>3. messages' # 0
    BY <1>0, <2>1
  <2>4. QED
    BY <2>1, <2>2, <2>3 DEF ClaudeState, CallIDs
<1>2. ASSUME NEW kind \in Kinds, decodeContentBlockStart(kind) PROVE ClaudeState'
  <2>1. Opened(kind) /\ UNCHANGED claudeVars /\ inMessage /\ ~stopped
    BY <1>0, <1>2, OpenItemStep DEF decodeContentBlockStart, InMessage
  <2>2. DOMAIN items' = DOMAIN items \cup {Len(items) + 1}
    BY <2>1 DEF Opened
  <2>3. CASE Silent
    BY <1>a, <1>b, <2>1, <2>2, <2>3
  <2>4. CASE ~Silent
    <3> DEFINE e == ToolCall(Len(items) + 1, << <<Len(items) + 1, 0>> >>)
    <3>1. AddEvent(e) /\ e.type = "tool-call" /\ e.id = Len(items) + 1
      BY <1>2, <2>4 DEF decodeContentBlockStart, ToolCall
    <3> HIDE DEF e
    <3>2. /\ UNCHANGED responseID
          /\ DOMAIN toolCallIndices' \subseteq DOMAIN toolCallIndices \cup {e.id}
      BY <3>1, EventKeeps
    <3>3. DOMAIN toolCallIndices' \subseteq CallIDs'
      BY <2>2, <3>1, <3>2 DEF ClaudeState, CallIDs
    <3>4. UNCHANGED <<messages, inMessage, stopped>>
      BY <2>1 DEF claudeVars
    <3>5. QED
      BY <2>1, <3>2, <3>3, <3>4 DEF ClaudeState
  <2>5. QED
    BY <2>3, <2>4
<1>3. ASSUME NEW i \in DOMAIN items, decodeContentBlockDelta(i) PROVE ClaudeState'
  <2>1. /\ SentOne(i) /\ UNCHANGED claudeVars /\ inMessage
        /\ Silent \/ AddEvent(TextDelta(Fragment(i))) \/ AddEvent(ToolCallDelta(NoID, Fragment(i)))
    BY <1>0, <1>3, SendFragmentStep DEF decodeContentBlockDelta, InMessage
  <2>2. DOMAIN items' = DOMAIN items
    BY <2>1 DEF SentOne
  <2>3. CASE Silent
    BY <1>a, <1>b, <2>1, <2>2, <2>3
  <2>4. ASSUME NEW e, AddEvent(e), e.type = "text-delta" \/ (e.type = "tool-call-delta" /\ e.id = NoID)
        PROVE  ClaudeState'
    <3>1. /\ UNCHANGED responseID /\ (currentState = "finished" => currentState' = "finished")
          /\ DOMAIN toolCallIndices' \subseteq DOMAIN toolCallIndices \cup {NoID}
      BY <2>4, EventKeeps
    <3>2. DOMAIN toolCallIndices' \subseteq CallIDs'
      BY <2>2, <3>1 DEF ClaudeState, CallIDs
    <3>3. UNCHANGED <<messages, inMessage, stopped>>
      BY <2>1 DEF claudeVars
    <3>4. QED
      BY <2>1, <3>1, <3>2, <3>3 DEF ClaudeState
  <2>5. TextDelta(Fragment(i)).type = "text-delta"
    BY DEF TextDelta
  <2>6. /\ ToolCallDelta(NoID, Fragment(i)).type = "tool-call-delta"
        /\ ToolCallDelta(NoID, Fragment(i)).id = NoID
    BY DEF ToolCallDelta
  <2>7. QED
    BY <2>1, <2>3, <2>4, <2>5, <2>6
<1>4. ASSUME NEW i \in DOMAIN items, ContentBlockStop(i) PROVE ClaudeState'
  <2>1. Closed(i) /\ UNCHANGED claudeVars /\ Silent
    BY <1>0, <1>4, CloseItemStep DEF ContentBlockStop
  <2>2. QED
    BY <1>a, <1>b, <2>1 DEF Closed
<1>5. CASE decodeMessageDelta
  <2>1. /\ UNCHANGED <<items, messages, inMessage>> /\ inMessage
        /\ \E reason : AddEvent(Finish(reason, QueryUsage))
    BY <1>5 DEF decodeMessageDelta, InMessage, Continue, streamVars
  <2>2. currentState' = "finished" /\ UNCHANGED <<responseID, toolCallIndices>>
    <3>1. \A reason : Finish(reason, QueryUsage).type = "finish"
      BY DEF Finish
    <3>2. QED
      BY <2>1, <3>1, EventKeeps
  <2>3. QED
    BY <2>1, <2>2 DEF ClaudeState, CallIDs
<1>6. CASE MessageStop
  <2>1. /\ UNCHANGED <<items, messages, responseID, currentState, toolCallIndices>> /\ inMessage
        /\ stopped /\ ~inMessage'
    BY <1>6, <1>a DEF MessageStop, InMessage, Continue, streamVars
  <2>2. QED
    BY <2>1 DEF ClaudeState, CallIDs
<1>7. CASE ResultSuccess
  <2>1. /\ UNCHANGED <<items, messages, inMessage, stopped>> /\ AddEvent(Finish("stop", QueryUsage))
        /\ Finish("stop", QueryUsage).type = "finish"
    BY <1>7 DEF ResultSuccess, Move, Finish
  <2>2. currentState' = "finished" /\ UNCHANGED <<responseID, toolCallIndices>>
    BY <2>1, EventKeeps
  <2>3. QED
    BY <2>1, <2>2 DEF ClaudeState, CallIDs
<1>8. CASE ResultError \/ ParseError \/ ScannerErr
  <2>1. UNCHANGED items /\ UNCHANGED claudeVars /\ AddEvent(Error) /\ Error.type = "error"
    BY <1>8 DEF ResultError, ParseError, ScannerErr, Move, Error
  <2>2. UNCHANGED <<responseID, currentState, toolCallIndices>>
    BY <2>1, EventKeeps
  <2>3. QED
    BY <1>b, <2>1, <2>2
<1>9. CASE StdoutEOF
  BY <1>9, <1>a, <1>b DEF StdoutEOF, Move
<1>10. QED
  BY <1>1, <1>2, <1>3, <1>4, <1>5, <1>6, <1>7, <1>8, <1>9 DEF ClaudeNext, Kinds

(* An item is of the kind it was. *)
LEMMA KindsPersist ==
  ASSUME ItemsInv, StepOf
  PROVE  (SomeText => SomeText') /\ (SomeTool => SomeTool')
<1>1. CASE Opens
  <2>1. PICK kind \in Kinds : Opened(kind)
    BY <1>1, OpenItemStep DEF Opens
  <2>2. QED
    BY <2>1 DEF Opened, SomeText, SomeTool
<1>2. CASE Sends
  <2>1. PICK i \in DOMAIN items : SentOne(i)
    BY <1>2, SendFragmentStep DEF Sends
  <2>2. QED
    BY <2>1 DEF SentOne, SomeText, SomeTool
<1>3. CASE Closes
  <2>1. PICK i \in DOMAIN items : Closed(i)
    BY <1>3, CloseItemStep DEF Closes
  <2>2. QED
    BY <2>1 DEF Closed, SomeText, SomeTool
<1>4. CASE Says
  BY <1>4 DEF Says, SomeText, SomeTool
<1>5. QED
  BY <1>1, <1>2, <1>3, <1>4 DEF StepOf

StreamTypes == {"text-delta", "reasoning", "tool-call", "tool-call-delta", "source",
                "response-metadata", "finish", "error"}

(* An empty text stays, but for more text; an empty chunk leaves one.      *)
LEMMA EmptyStays ==
  ASSUME BuilderTypeOK, ToolCallsIndexed, UNCHANGED provider,
         NEW e \in Events, AddEvent(e), Taken(e), e.type \in StreamTypes,
         e.type = "text-delta" => e.data = <<>>
  PROVE  /\ EmptyText => EmptyText'
         /\ e.type = "text-delta" /\ provider = "openrouter" => EmptyText' \/ UNCHANGED currentState
<1>0. content \in Seq(Blocks) /\ DOMAIN content = 1..Len(content)
  BY DEF BuilderTypeOK
<1>1. ASSUME e.type = "text-delta", provider = "openrouter"
      PROVE  EmptyText' \/ UNCHANGED currentState
  <2>1. CASE Adds("text", NoID, e.data)
    <3>1. content'[Len(content) + 1].type = "text" /\ content'[Len(content) + 1].data = <<>>
      BY <1>1, <2>1 DEF Adds, Block
    <3>2. QED
      BY <1>1, <2>1, <3>1 DEF Adds, EmptyText
  <2>2. QED
    BY <1>1, <2>1, ContentAfter
<1>2. ASSUME EmptyText PROVE EmptyText'
  <2>1. PICK n \in DOMAIN content : content[n].type = "text" /\ content[n].data = <<>>
    BY <1>2 DEF EmptyText
  <2>2. provider' = "openrouter"
    BY <1>2 DEF EmptyText
  <2>3. ASSUME NEW type, NEW id, NEW d, Adds(type, id, d) PROVE EmptyText'
    BY <2>1, <2>2, <2>3 DEF Adds, EmptyText
  <2>4. ASSUME NEW m, NEW d, Extends(m, d), m # n \/ d = <<>> PROVE EmptyText'
    <3>1. <<>> \o <<>> = <<>>
      OBVIOUS
    <3>2. content'[n].type = "text" /\ content'[n].data = <<>> /\ n \in DOMAIN content'
      BY <2>1, <2>4, <3>1 DEF Extends
    <3>3. QED
      BY <2>2, <3>2 DEF EmptyText
  <2>5. CASE UNCHANGED content
    BY <2>1, <2>2, <2>5 DEF EmptyText
  <2>6. CASE e.type = "text-delta"
    BY <2>3, <2>4, <2>6, ContentAfter
  <2>7. CASE e.type = "reasoning"
    <3>1. LastIs("reasoning") => Len(content) # n
      BY <2>1 DEF LastIs
    <3>2. QED
      BY <2>3, <2>4, <2>7, <3>1, ContentAfter
  <2>8. CASE e.type = "tool-call-delta"
    <3>1. e.id \in DOMAIN toolCallIndices => toolCallIndices[e.id] # n
      BY <2>1 DEF ToolCallsIndexed
    <3>2. QED
      BY <2>3, <2>4, <2>8, <3>1, ContentAfter
  <2>9. CASE e.type = "tool-call" \/ e.type = "source"
    BY <2>3, <2>9, ContentAfter
  <2>10. CASE e.type \in {"response-metadata", "finish", "error"}
    BY <2>5, <2>10 DEF Taken
  <2>11. QED
    BY <2>6, <2>7, <2>8, <2>9, <2>10 DEF StreamTypes
<1>3. QED
  BY <1>1, <1>2

LEMMA NextBuildState ==
  ASSUME Base, provider # "any", BuildState, StepOf, [Next]_vars
  PROVE  BuildState'
<1>0. UNCHANGED provider /\ (ended => ended') /\ (SomeText => SomeText') /\ (SomeTool => SomeTool')
  BY Steps, StaysEnded, KindsPersist DEF Base
<1>1. ASSUME UNCHANGED <<content, currentState, responseID>>, phase # "over" \/ UNCHANGED phase
      PROVE  BuildState'
  BY <1>0, <1>1 DEF BuildState, EmptyText
<1>2. ASSUME NEW e, Yield(e), Refused(e) PROVE BuildState'
  BY <1>1, <1>2 DEF Refused, Yield
<1>3. ASSUME NEW e, Yield(e), Taken(e), e.type \in StreamTypes,
             e.type = "text-delta" => SomeText' \/ (e.data = <<>> /\ provider = "openrouter"),
             e.type \in {"tool-call", "tool-call-delta"} => SomeTool',
             e.type = "source" => SomeText',
             e.type = "finish" => /\ provider \in {"openai", "codex"} => phase' = "over"
                                  /\ provider = "openrouter" => ended',
             e.type = "response-metadata" => (provider \in {"openai", "codex"} => e.id = 1)
      PROVE  BuildState'
  <2>0. e \in Events /\ AddEvent(e) /\ currentState # "finished"
    BY <1>3 DEF Yield, Taken
  <2>1. CASE e.type = "text-delta"
    <3>1. responseID' = responseID /\ currentState' \in {currentState, "text"}
      BY <1>3, <2>1 DEF Taken
    <3>2. currentState' = "text" => SomeText' \/ EmptyText'
      <4>1. CASE ~SomeText'
        <5>1. e.data = <<>> /\ provider = "openrouter"
          BY <1>3, <2>1, <4>1
        <5>2. (EmptyText => EmptyText') /\ (EmptyText' \/ UNCHANGED currentState)
          BY <1>0, <1>3, <2>0, <2>1, <5>1, EmptyStays DEF Base
        <5>3. QED
          BY <1>0, <5>2 DEF BuildState
      <4>2. QED
        BY <4>1
    <3>3. QED
      BY <1>0, <2>0, <3>1, <3>2 DEF BuildState
  <2>2. CASE e.type = "reasoning"
    <3>1. responseID' = responseID /\ currentState' \in {currentState, "reasoning"}
      BY <1>3, <2>2 DEF Taken
    <3>2. EmptyText => EmptyText'
      BY <1>0, <1>3, <2>0, <2>2, EmptyStays DEF Base
    <3>3. QED
      BY <1>0, <2>0, <3>1, <3>2 DEF BuildState
  <2>3. CASE e.type \in {"tool-call", "tool-call-delta"}
    <3>1. responseID' = responseID /\ currentState' = "toolCall" /\ SomeTool'
      BY <1>3, <2>3 DEF Taken
    <3>2. QED
      BY <1>0, <3>1 DEF BuildState
  <2>4. CASE e.type = "source"
    <3>1. responseID' = responseID /\ currentState' = "source" /\ SomeText'
      BY <1>3, <2>4 DEF Taken
    <3>2. QED
      BY <1>0, <3>1 DEF BuildState
  <2>5. CASE e.type = "finish"
    <3>1. /\ responseID' = responseID /\ currentState' = "finished"
          /\ provider \in {"openai", "codex"} => phase' = "over"
          /\ provider = "openrouter" => ended'
      BY <1>3, <2>5 DEF Taken
    <3>2. QED
      BY <1>0, <3>1 DEF BuildState
  <2>6. CASE e.type = "response-metadata"
    <3>1. UNCHANGED <<content, currentState>> /\ responseID' = e.id
      BY <1>3, <2>6 DEF Taken
    <3>2. provider \in {"openai", "codex"} => responseID' = 1
      BY <1>3, <2>6, <3>1
    <3>3. EmptyText => EmptyText'
      BY <1>0, <3>1 DEF EmptyText
    <3>4. QED
      BY <1>0, <2>0, <3>1, <3>2, <3>3 DEF BuildState
  <2>7. CASE e.type = "error"
    <3>1. UNCHANGED <<content, currentState, responseID>>
      BY <1>3, <2>7 DEF Taken
    <3>2. QED
      BY <1>1, <1>3, <3>1 DEF Yield
  <2>8. QED
    BY <1>3, <2>1, <2>2, <2>3, <2>4, <2>5, <2>6, <2>7 DEF StreamTypes
<1>4. \A e : Yield(e) => Refused(e) \/ Taken(e)
  BY RefusedOrTaken DEF Yield
<1>5. ASSUME Silent, phase # "over" \/ UNCHANGED phase PROVE BuildState'
  BY <1>1, <1>5 DEF Silent, builderVars
<1>6. CASE Opens
  <2>1. PICK kind \in Kinds :
          /\ OpenItem(kind)
          /\ Silent \/ (kind = "tool" /\ \E e : e.type \in {"tool-call", "tool-call-delta"} /\ Yield(e))
    BY <1>6 DEF Opens
  <2>2. UNCHANGED phase /\ Opened(kind)
    BY <2>1, OpenItemStep DEF OpenItem, Base
  <2>3. kind = "tool" => SomeTool'
    BY <2>2 DEF Opened, SomeTool
  <2>4. ASSUME NEW e, e.type \in {"tool-call", "tool-call-delta"}, Yield(e), kind = "tool"
        PROVE  BuildState'
    BY <1>2, <1>3, <1>4, <2>3, <2>4 DEF StreamTypes
  <2>5. QED
    BY <1>5, <2>1, <2>2, <2>4
<1>7. CASE Sends
  <2>1. PICK i \in DOMAIN items :
          /\ SendFragment(i)
          /\ \/ items[i].kind = "text" /\ Yield(TextDelta(Fragment(i)))
             \/ Yield(Reasoning(Fragment(i)))
             \/ items[i].kind = "tool" /\ \E e : e.type = "tool-call-delta" /\ Yield(e)
             \/ Silent
    BY <1>7 DEF Sends
  <2>2. UNCHANGED phase
    BY <2>1 DEF SendFragment
  <2>3. (items[i].kind = "text" => SomeText') /\ (items[i].kind = "tool" => SomeTool')
    BY <1>0 DEF SomeText, SomeTool
  <2>4. TextDelta(Fragment(i)).type = "text-delta" /\ Reasoning(Fragment(i)).type = "reasoning"
    BY DEF TextDelta, Reasoning
  <2>5. ASSUME NEW e, Yield(e),
               \/ e.type = "text-delta" /\ items[i].kind = "text"
               \/ e.type = "reasoning"
               \/ e.type = "tool-call-delta" /\ items[i].kind = "tool"
        PROVE  BuildState'
    BY <1>2, <1>3, <1>4, <2>3, <2>5 DEF StreamTypes
  <2>6. QED
    BY <1>5, <2>1, <2>2, <2>4, <2>5
<1>8. CASE Closes
  <2>1. PICK i \in DOMAIN items :
          /\ CloseItem(i)
          /\ Silent \/ (items[i].kind = "tool" /\ Yield(ToolCall(i, ItemData(i))))
    BY <1>8 DEF Closes
  <2>2. UNCHANGED phase /\ (items[i].kind = "tool" => SomeTool')
    BY <1>0, <2>1 DEF CloseItem, SomeTool
  <2>3. ToolCall(i, ItemData(i)).type = "tool-call"
    BY DEF ToolCall
  <2>4. ASSUME NEW e, Yield(e), e.type = "tool-call", items[i].kind = "tool" PROVE BuildState'
    BY <1>2, <1>3, <1>4, <2>2, <2>4 DEF StreamTypes
  <2>5. QED
    BY <1>5, <2>1, <2>2, <2>3, <2>4
<1>9. CASE Says
  <2>0. phase # "over"
    BY <1>9 DEF Says
  <2>1. CASE Reports
    <3>1. Yield(Error) /\ Error.type = "error"
      BY <2>1 DEF Reports, Error
    <3>2. QED
      BY <1>2, <1>3, <1>4, <3>1 DEF StreamTypes
  <2>2. CASE Finishes
    <3>1. PICK e : e.type = "finish" /\ Yield(e)
      BY <2>2 DEF Finishes
    <3>2. (provider \in {"openai", "codex"} => phase' = "over") /\ (provider = "openrouter" => ended')
      BY <2>2 DEF Finishes
    <3>3. QED
      BY <1>2, <1>3, <1>4, <3>1, <3>2 DEF StreamTypes
  <2>3. CASE Cites
    <3>1. /\ Yield(Source(annotationCounter + 1)) /\ Source(annotationCounter + 1).type = "source"
          /\ SomeText
      BY <2>3 DEF Cites, Source, SomeText
    <3> DEFINE e == Source(annotationCounter + 1)
    <3>2. Yield(e) /\ e.type = "source" /\ SomeText'
      BY <1>0, <3>1
    <3> HIDE DEF e
    <3>3. QED
      BY <1>2, <1>3, <1>4, <3>2 DEF StreamTypes
  <2>4. CASE SaysNothing
    <3> DEFINE e == TextDelta(<<>>)
    <3>1. Silent \/ (provider = "openrouter" /\ Yield(e))
      BY <2>4 DEF SaysNothing
    <3>2. e.type = "text-delta" /\ e.data = <<>>
      BY DEF TextDelta
    <3> HIDE DEF e
    <3>3. QED
      BY <1>2, <1>3, <1>4, <1>5, <2>0, <3>1, <3>2 DEF StreamTypes
  <2>5. CASE Identifies
    <3>1. PICK e : /\ e.type = "response-metadata" /\ Yield(e)
                   /\ provider \in {"openai", "codex"} => e.id = 1
      BY <2>5 DEF Identifies
    <3>2. QED
      BY <1>2, <1>3, <1>4, <3>1 DEF StreamTypes
  <2>6. QED
    BY <1>9, <2>1, <2>2, <2>3, <2>4, <2>5 DEF Says
<1>10. QED
  BY <1>6, <1>7, <1>8, <1>9 DEF StepOf

LEMMA StateStays ==
  ASSUME Base, StateInv, [Next]_vars
  PROVE  StateInv'
<1>0. UNCHANGED provider
  BY Steps DEF Base
<1>1. CASE provider = "any"
  BY <1>0, <1>1 DEF StateInv
<1>2. CASE Ends \/ UNCHANGED vars
  <2>1. UNCHANGED <<provider, items, phase, content, toolCallIndices, currentState, responseID, ended>>
    BY <1>2
    DEF Ends, StreamOver, Build, streamVars, openRouterVars, vars, builderVars
  <2>2. UNCHANGED <<messages, inMessage, stopped>>
    BY <1>2 DEF Ends, vars, claudeVars
  <2>3. BuildState => BuildState'
    BY <2>1 DEF BuildState, SomeText, SomeTool, EmptyText
  <2>4. ClaudeState => ClaudeState'
    BY <2>1, <2>2 DEF ClaudeState, CallIDs
  <2>5. QED
    BY <1>0, <2>3, <2>4 DEF StateInv
<1>3. CASE provider # "any" /\ StepOf /\ ~Ends /\ ~UNCHANGED vars
  <2>1. BuildState'
    BY <1>3, NextBuildState DEF StateInv
  <2>2. provider = "claude" => ClaudeState'
    BY <1>3, WhoSteps, NextClaudeState DEF StateInv
  <2>3. QED
    BY <1>0, <2>1, <2>2 DEF StateInv
<1>4. QED
  BY <1>1, <1>2, <1>3, Steps DEF Base

(* A step of a stream refuses an event only as is known. *)
LEMMA NextRejected ==
  ASSUME Base, StateInv, provider # "any", StepOf, result = "none", UNCHANGED provider,
         ended => ended'
  PROVE  RejectedAsKnown'
<1>0. ItemsInv /\ BuildState /\ (provider = "claude" => ClaudeState)
  BY DEF Base, StateInv
<1>p. provider \in {"openai", "codex", "claude", "openrouter"}
  BY ProvidersAssumption DEF Base, PhaseInv
<1>1. Silent => RejectedAsKnown'
  BY DEF Silent, builderVars, RejectedAsKnown
<1>2. \A e : Yield(e) => Refused(e) \/ RejectedAsKnown'
  <2>1. ASSUME NEW e, Yield(e) PROVE Refused(e) \/ result' = "none"
    BY <2>1, RefusedOrTaken DEF Yield, Taken
  <2>2. QED
    BY <2>1 DEF RejectedAsKnown
<1>3. ASSUME NEW e, Yield(e), Refused(e), currentState = "finished" PROVE RejectedAsKnown'
  <2>1. provider \notin {"openai", "codex"}
    BY <1>0, <1>3 DEF BuildState, Yield
  <2>2. provider = "openrouter" => ended'
    BY <1>0, <1>3 DEF BuildState
  <2>3. provider = "claude" => currentState' = "finished"
    BY <1>3 DEF Refused
  <2>4. QED
    BY <1>p, <2>1, <2>2, <2>3 DEF RejectedAsKnown
<1>4. ASSUME NEW e, Yield(e), e.type \in {"text-delta", "tool-call-delta", "source", "finish", "error"}
      PROVE  RejectedAsKnown'
  <2>1. Refused(e) => currentState = "finished"
    BY <1>4 DEF Refused
  <2>2. QED
    BY <1>2, <1>3, <1>4, <2>1
<1>5. CASE Opens
  <2>1. PICK kind \in Kinds :
          /\ OpenItem(kind)
          /\ \/ Silent
             \/ \E e : e.type = "tool-call-delta" /\ Yield(e)
             \/ \E e : /\ e.type = "tool-call" /\ provider = "claude"
                       /\ e.id = Len(items) + 1 /\ Yield(e)
    BY <1>5 DEF Opens
  <2>2. ASSUME NEW e, e.type = "tool-call", provider = "claude", e.id = Len(items) + 1, Yield(e)
        PROVE  RejectedAsKnown'
    <3>1. Len(items) + 1 \in IDs /\ NoID \notin IDs
      BY <1>0, <2>1, NextItemTypes, IDsAssumption DEF OpenItem
    <3>2. Len(items) + 1 \notin DOMAIN items
      BY <1>0 DEF ItemsInv
    <3>3. e.id \notin DOMAIN toolCallIndices
      BY <1>0, <2>2, <3>1, <3>2 DEF ClaudeState, CallIDs
    <3>4. Refused(e) => currentState = "finished"
      BY <2>2, <3>3 DEF Refused
    <3>5. QED
      BY <1>2, <1>3, <2>2, <3>4
  <2>3. QED
    BY <1>1, <1>4, <2>1, <2>2
<1>6. CASE Sends
  <2>1. PICK i \in DOMAIN items :
          /\ SendFragment(i)
          /\ \/ Silent
             \/ Yield(TextDelta(Fragment(i)))
             \/ items[i].kind = "reasoning" /\ provider # "claude" /\ Yield(Reasoning(Fragment(i)))
             \/ \E e : e.type = "tool-call-delta" /\ Yield(e)
    BY <1>6 DEF Sends
  <2>2. SentOne(i)
    BY <1>0, <2>1, SendFragmentStep
  <2> DEFINE t == TextDelta(Fragment(i))
             r == Reasoning(Fragment(i))
  <2>3. t.type = "text-delta" /\ r.type = "reasoning"
    BY DEF TextDelta, Reasoning
  <2> HIDE DEF t, r
  <2>4. ASSUME items[i].kind = "reasoning", provider # "claude", Yield(r), Refused(r),
               currentState # "finished"
        PROVE  RejectedAsKnown'
    <3>1. currentState \in {"text", "toolCall", "source"} /\ UNCHANGED content
      BY <1>0, <2>3, <2>4 DEF Refused, BuildState
    <3>2. i = Len(items) /\ DOMAIN items = 1..Len(items) /\ Len(items) \in Nat
      BY <1>0, <2>2, <2>4 DEF SentOne, ItemsInv, Parallel
    <3>3. CASE SomeText \/ SomeTool
      <4>1. PICK k \in DOMAIN items : items[k].kind \in {"text", "tool"}
        BY <3>3 DEF SomeText, SomeTool
      <4>2. k < i
        BY <2>4, <3>2, <4>1
      <4>3. /\ i \in DOMAIN items' /\ k \in DOMAIN items'
            /\ items'[i].kind = "reasoning" /\ items'[k].kind \in {"text", "tool"}
        BY <2>2, <2>4, <4>1, <4>2, <3>2 DEF SentOne
      <4>4. LateReasoning'
        BY <4>2, <4>3 DEF LateReasoning
      <4>5. QED
        BY <1>p, <2>4, <4>4 DEF RejectedAsKnown
    <3>4. CASE EmptyText
      BY <3>1, <3>4 DEF EmptyText, RejectedAsKnown
    <3>5. QED
      BY <1>0, <3>1, <3>3, <3>4 DEF BuildState
  <2>5. QED
    BY <1>1, <1>2, <1>3, <1>4, <2>1, <2>3, <2>4 DEF t, r
<1>7. CASE Closes
  <2>1. PICK i \in DOMAIN items :
          /\ CloseItem(i)
          /\ Silent \/ (items[i].kind = "tool" /\ provider = "openai")
    BY <1>7 DEF Closes
  <2>2. Closed(i)
    BY <1>0, <2>1, CloseItemStep
  <2>3. ASSUME items[i].kind = "tool", provider = "openai" PROVE RejectedAsKnown'
    BY <2>2, <2>3 DEF Closed, RejectedAsKnown
  <2>4. QED
    BY <1>1, <2>1, <2>3
<1>8. CASE Says
  <2>1. CASE Reports
    <3>1. Yield(Error) /\ Error.type = "error"
      BY <2>1 DEF Reports, Error
    <3>2. QED
      BY <1>4, <3>1
  <2>2. CASE Finishes
    BY <2>2, <1>4 DEF Finishes
  <2>3. CASE Cites
    <3> DEFINE e == Source(annotationCounter + 1)
    <3>1. Yield(e) /\ e.type = "source"
      BY <2>3 DEF Cites, Source
    <3> HIDE DEF e
    <3>2. QED
      BY <1>4, <3>1
  <2>4. CASE SaysNothing
    <3> DEFINE e == TextDelta(<<>>)
    <3>1. (Silent \/ Yield(e)) /\ e.type = "text-delta"
      BY <2>4 DEF SaysNothing, TextDelta
    <3> HIDE DEF e
    <3>2. QED
      BY <1>1, <1>4, <3>1
  <2>5. CASE Identifies
    <3>1. PICK e : /\ e.type = "response-metadata" /\ Yield(e)
                   /\ provider \in {"openai", "codex"} => e.id = 1
                   /\ provider = "claude" => ~inMessage
      BY <2>5 DEF Identifies
    <3>2. provider # "openrouter"
      BY <2>5 DEF Identifies
    <3>3. CASE provider \in {"openai", "codex"}
      <4>1. responseID \in {NoID, e.id}
        BY <1>0, <3>1, <3>3 DEF BuildState
      <4>2. Refused(e) => currentState = "finished"
        BY <3>1, <4>1 DEF Refused
      <4>3. QED
        BY <1>2, <1>3, <3>1, <4>2
    <3>4. CASE provider = "claude"
      <4>1. messages \in Nat
        BY <3>4, WireAssumption DEF Base, VarsInv, ClaudeInv, ClaudeRun
      <4>2. responseID = NoID \/ currentState = "finished"
        BY <1>0, <3>1, <3>4, <4>1 DEF ClaudeState
      <4>3. Refused(e) => currentState = "finished"
        BY <3>1, <4>2 DEF Refused
      <4>4. QED
        BY <1>2, <1>3, <3>1, <4>3
    <3>5. QED
      BY <1>p, <3>2, <3>3, <3>4
  <2>6. QED
    BY <1>8, <2>1, <2>2, <2>3, <2>4, <2>5 DEF Says
<1>9. QED
  BY <1>5, <1>6, <1>7, <1>8 DEF StepOf

LEMMA RejectedStays ==
  ASSUME Base, StateInv, RejectedAsKnown, [Next]_vars
  PROVE  RejectedAsKnown'
<1>0. UNCHANGED provider /\ (ended => ended')
  BY Steps, StaysEnded DEF Base
<1>1. CASE UNCHANGED vars
  <2>1. UNCHANGED <<provider, items, content, currentState, result, ended>>
    BY <1>1 DEF vars, streamVars, builderVars, openRouterVars
  <2>2. QED
    BY <2>1 DEF RejectedAsKnown, LateReasoning
<1>2. CASE provider = "any"
  BY <1>0, <1>2 DEF RejectedAsKnown
<1>3. CASE Ends
  <2>1. result' # "rejected"
    BY <1>3 DEF Ends, StreamOver, Build
  <2>2. QED
    BY <2>1 DEF RejectedAsKnown
<1>4. CASE provider # "any" /\ StepOf /\ ~UNCHANGED vars
  BY <1>0, <1>4, NothingAfterResult, NextRejected
<1>5. QED
  BY <1>1, <1>2, <1>3, <1>4, Steps DEF Base

(* A stream that cannot be built into a response is one of those that are  *)
(* known, and no other: reasoning after text or a tool call, a completed   *)
(* function call of OpenAI, an event after the finish event                *)
(* (builder/builder.go:59, 119, 156, 226).                                 *)
THEOREM StreamsRejectedAsKnown == Spec => []RejectedAsKnown
<1>1. Init => StateInv /\ RejectedAsKnown
  <2> SUFFICES ASSUME Init PROVE StateInv /\ RejectedAsKnown
    OBVIOUS
  <2>1. /\ currentState = "no" /\ responseID = NoID /\ DOMAIN toolCallIndices = {} /\ result = "none"
        /\ messages = 0 /\ ~inMessage
    BY DEF Init, NewResponseBuilder, ClaudeInit
  <2>2. ~(0 > 0)
    OBVIOUS
  <2>3. QED
    BY <2>1, <2>2 DEF StateInv, BuildState, ClaudeState, RejectedAsKnown
<1>2. Base /\ StateInv /\ RejectedAsKnown /\ [Next]_vars => StateInv' /\ RejectedAsKnown'
  BY StateStays, RejectedStays
<1>3. QED
  BY <1>1, <1>2, BaseHolds, PTL DEF Spec

-----------------------------------------------------------------------------
(* Why a response of OpenAI ended, and what it cost.                       *)

AgreeInv ==
  provider = "openai" =>
    /\ result = "response" => phase = "over"
    /\ phase # "over" => usage = 0
    /\ phase = "over" /\ result # "rejected" =>
         /\ finishReason = decodeFinishReason(incompleteReason, hasToolCalls)
         /\ usage = totalTokens

(* The decoder is over with its finish event, and builds nothing itself.   *)
LEMMA OpenAIEnds ==
  ASSUME OpenAINext
  PROVE  (SendFinish \/ (phase' # "over" /\ UNCHANGED usage)) /\ result' # "response"
<1>1. SendFinish \/ phase' # "over"
  <2>1. SendFinish \/ (phase = "reading" /\ UNCHANGED phase) \/ phase' \in {"reading", "finishing"}
    BY DEF OpenAINext, decodeResponseCreated, decodeOutputItemAdded, decodeTextDelta,
           decodeReasoningSummaryTextDelta, decodeFunctionCallArgumentsDelta,
           decodeOutputItemDone, decodeOutputTextAnnotationAdded, decodeResponseCompleted,
           decodeResponseFailedOrIncomplete, decodeError, StreamErr, StreamEOF, Serving,
           Reading, OpenItem, SendFragment, CloseItem, Continue, Move, streamVars
  <2>2. QED
    BY <2>1
<1>2. (result = "none" /\ Silent) \/ \E e : AddEvent(e)
  BY DEF OpenAINext, decodeResponseCreated, decodeOutputItemAdded, decodeTextDelta,
         decodeReasoningSummaryTextDelta, decodeFunctionCallArgumentsDelta, decodeOutputItemDone,
         decodeOutputTextAnnotationAdded, decodeResponseCompleted,
         decodeResponseFailedOrIncomplete, decodeError, StreamErr, StreamEOF, SendFinish, Serving,
         Reading, Running
<1>3. \A e : AddEvent(e) => result' # "response" /\ (e.type # "finish" => UNCHANGED usage)
  BY RefusedOrTaken DEF Refused, Taken
<1>4. SendFinish \/ Silent \/ \E e : AddEvent(e) /\ e.type # "finish"
  <2>1. /\ \A id : Metadata(id).type # "finish" /\ Source(id).type # "finish" /\ Error.type # "finish"
        /\ \A data : TextDelta(data).type # "finish" /\ Reasoning(data).type # "finish"
        /\ \A id, data : ToolCall(id, data).type # "finish" /\ ToolCallDelta(id, data).type # "finish"
    BY DEF Metadata, Source, Error, TextDelta, Reasoning, ToolCall, ToolCallDelta
  <2>2. ASSUME NEW i PROVE
          decodeTextDelta(i) \/ decodeReasoningSummaryTextDelta(i) \/ decodeFunctionCallArgumentsDelta(i)
            \/ decodeOutputItemDone(i) \/ decodeOutputTextAnnotationAdded(i)
            => Silent \/ \E e : AddEvent(e) /\ e.type # "finish"
    BY <2>1 DEF decodeTextDelta, decodeReasoningSummaryTextDelta, decodeFunctionCallArgumentsDelta,
                decodeOutputItemDone, decodeOutputTextAnnotationAdded
  <2>3. ASSUME NEW kind PROVE
          decodeOutputItemAdded(kind) => Silent \/ \E e : AddEvent(e) /\ e.type # "finish"
    BY <2>1 DEF decodeOutputItemAdded
  <2>4. decodeResponseCreated \/ decodeError \/ StreamErr => \E e : AddEvent(e) /\ e.type # "finish"
    BY <2>1 DEF decodeResponseCreated, decodeError, StreamErr
  <2>5. decodeResponseCompleted \/ decodeResponseFailedOrIncomplete \/ StreamEOF => Silent
    BY DEF decodeResponseCompleted, decodeResponseFailedOrIncomplete, StreamEOF
  <2>6. QED
    BY <2>2, <2>3, <2>4, <2>5 DEF OpenAINext
<1>5. QED
  BY <1>1, <1>2, <1>3, <1>4 DEF Silent, builderVars

LEMMA AgreeStays ==
  ASSUME Base, AgreeInv, [Next]_vars
  PROVE  AgreeInv'
<1>0. UNCHANGED provider
  BY Steps DEF Base
<1>1. CASE provider # "openai"
  BY <1>0, <1>1 DEF AgreeInv
<1>2. CASE UNCHANGED vars
  <2>1. UNCHANGED <<phase, result, finishReason, usage, incompleteReason, hasToolCalls, totalTokens>>
    BY <1>2 DEF vars, streamVars, builderVars, openAIVars
  <2>2. QED
    BY <1>0, <2>1 DEF AgreeInv
<1>3. CASE provider = "openai" /\ Ends
  <2>1. /\ UNCHANGED <<phase, finishReason, usage, incompleteReason, hasToolCalls, totalTokens>>
        /\ phase = "over" /\ result = "none"
    BY <1>3 DEF Ends, StreamOver, Build, streamVars, openAIVars
  <2>2. QED
    BY <1>0, <1>3, <2>1 DEF AgreeInv
<1>4. CASE provider = "openai" /\ OpenAINext
  <2>1. (SendFinish \/ (phase' # "over" /\ UNCHANGED usage)) /\ result' # "response"
    BY <1>4, OpenAIEnds
  <2>2. CASE SendFinish /\ result' # "rejected"
    <3> DEFINE reason == decodeFinishReason(incompleteReason, hasToolCalls)
               e == Finish(reason, totalTokens)
    <3>1. AddEvent(e) /\ UNCHANGED <<incompleteReason, hasToolCalls, totalTokens>>
      BY <2>2 DEF SendFinish, openAIVars
    <3>2. e.type = "finish" /\ e.reason = reason /\ e.usage = totalTokens
      BY DEF Finish
    <3> HIDE DEF e
    <3>3. finishReason' = reason /\ usage' = IF totalTokens = 0 THEN usage ELSE totalTokens
      BY <2>2, <3>1, <3>2, RefusedOrTaken DEF Refused, Taken
    <3>4. finishReason' = decodeFinishReason(incompleteReason', hasToolCalls')
      BY <3>1, <3>3
    <3>5. usage' = totalTokens' /\ phase' = "over"
      <4>1. usage = 0
        BY <1>4, <2>2 DEF AgreeInv, SendFinish
      <4>2. QED
        BY <2>2, <3>1, <3>3, <4>1 DEF SendFinish, Move
    <3>6. QED
      BY <2>1, <3>4, <3>5 DEF AgreeInv
  <2>3. CASE SendFinish /\ result' = "rejected"
    BY <2>1, <2>3 DEF AgreeInv, SendFinish, Move
  <2>5. CASE ~SendFinish
    <3>1. phase # "over"
      BY <1>4
      DEF OpenAINext, decodeResponseCreated, decodeOutputItemAdded, decodeTextDelta,
          decodeReasoningSummaryTextDelta, decodeFunctionCallArgumentsDelta, decodeOutputItemDone,
          decodeOutputTextAnnotationAdded, decodeResponseCompleted,
          decodeResponseFailedOrIncomplete, decodeError, StreamErr, StreamEOF, SendFinish,
          Serving, Reading
    <3>2. QED
      BY <1>4, <2>1, <2>5, <3>1 DEF AgreeInv
  <2>4. QED
    BY <2>2, <2>3, <2>5
<1>5. QED
  <2>1. \/ provider # "openai" \/ UNCHANGED vars \/ Ends \/ OpenAINext
    BY WhoSteps
  <2>2. QED
    BY <1>1, <1>2, <1>3, <1>4, <2>1

(* A response of OpenAI that is built from a stream says why it ended as   *)
(* the response that is not streamed would, whatever comes between the     *)
(* server's last word and the end of the stream, and what it cost          *)
(* (decode_stream.go:270-337, decode.go).                                  *)
THEOREM StreamAgreesWithGenerate == Spec => []AgreesWithGenerate
<1>1. Init => AgreeInv
  BY DEF Init, StreamInit, NewResponseBuilder, AgreeInv
<1>2. Base /\ AgreeInv /\ [Next]_vars => AgreeInv'
  BY AgreeStays
<1>3. Base /\ AgreeInv => AgreesWithGenerate
  <2> SUFFICES ASSUME Base, AgreeInv, provider = "openai", result = "response", served # "no"
               PROVE  /\ (\A i \in DOMAIN items : items[i].kind # "hosted") => finishReason = DecodedFinishReason
                      /\ served = "completed" => usage = billed
    BY DEF AgreesWithGenerate
  <2>1. OpenAIRun
    BY DEF Base, VarsInv, OpenAIInv
  <2>2. /\ finishReason = decodeFinishReason(incompleteReason, hasToolCalls)
        /\ usage = totalTokens
    BY DEF AgreeInv
  <2>3. ASSUME \A i \in DOMAIN items : items[i].kind # "hosted"
        PROVE  finishReason = DecodedFinishReason
    <3>1. hasToolCalls \in BOOLEAN /\ HasTools \in BOOLEAN /\ incompleteReason = details
      BY <2>1 DEF OpenAIRun, HasTools
    <3>2. hasToolCalls <=> HasTools
      BY <2>1, <2>3 DEF OpenAIRun, HasTools
    <3>3. hasToolCalls = HasTools
      BY <3>1, <3>2
    <3>4. QED
      BY <2>2, <3>1, <3>3 DEF DecodedFinishReason
  <2>4. ASSUME served = "completed" PROVE usage = billed
    BY <2>1, <2>2, <2>4 DEF OpenAIRun
  <2>5. QED
    BY <2>3, <2>4
<1>4. QED
  BY <1>1, <1>2, <1>3, BaseHolds, PTL DEF Spec

-----------------------------------------------------------------------------
(* Where what was sent is in the content.                                  *)

PlacesIn(c, type) ==
  UNION {{<<n, k>> : k \in DOMAIN c[n].data} : n \in {m \in DOMAIN c : c[m].type = type}}

AtIn(c, p) == c[p[1]].data[p[2]]

Arrived(c, s, kind) ==
  /\ {AtIn(c, p) : p \in PlacesIn(c, kind)} = SentIn(s, kind)
  /\ \A p, q \in PlacesIn(c, kind) : Before(p, q) => Before(AtIn(c, p), AtIn(c, q))

LEMMA PlacesAre ==
  ASSUME NEW c, NEW type, NEW p
  PROVE  p \in PlacesIn(c, type) <=>
           \E n \in DOMAIN c : c[n].type = type /\ \E k \in DOMAIN c[n].data : p = <<n, k>>
  BY DEF PlacesIn

(* The places of a type are as they were, or there is one more, the last.  *)
SameIn(type) ==
  /\ PlacesIn(content', type) = PlacesIn(content, type)
  /\ \A p \in PlacesIn(content, type) : AtIn(content', p) = AtIn(content, p)

OneMore(type, f) ==
  \E new : /\ PlacesIn(content', type) = PlacesIn(content, type) \cup {new}
           /\ AtIn(content', new) = f /\ ~Before(new, new)
           /\ \A p \in PlacesIn(content, type) :
                AtIn(content', p) = AtIn(content, p) /\ Before(p, new) /\ ~Before(new, p)

LEMMA ArrivedSame ==
  ASSUME NEW kind, Arrived(content, items, kind), SameIn(kind),
         SentIn(items', kind) = SentIn(items, kind)
  PROVE  Arrived(content', items', kind)
  BY DEF Arrived, SameIn

LEMMA ArrivedMore ==
  ASSUME NEW kind, NEW f, Arrived(content, items, kind), OneMore(kind, f),
         SentIn(items', kind) = SentIn(items, kind) \cup {f},
         \A g \in SentIn(items, kind) : Before(g, f)
  PROVE  Arrived(content', items', kind)
<1>1. PICK new : /\ PlacesIn(content', kind) = PlacesIn(content, kind) \cup {new}
                 /\ AtIn(content', new) = f /\ ~Before(new, new)
                 /\ \A p \in PlacesIn(content, kind) :
                      AtIn(content', p) = AtIn(content, p) /\ Before(p, new) /\ ~Before(new, p)
  BY DEF OneMore
<1>2. /\ {AtIn(content, p) : p \in PlacesIn(content, kind)} = SentIn(items, kind)
      /\ \A p, q \in PlacesIn(content, kind) : Before(p, q) => Before(AtIn(content, p), AtIn(content, q))
  BY DEF Arrived
<1>3. {AtIn(content', p) : p \in PlacesIn(content', kind)} = SentIn(items', kind)
  <2>1. {AtIn(content', p) : p \in PlacesIn(content', kind)}
          = {AtIn(content, p) : p \in PlacesIn(content, kind)} \cup {f}
    BY <1>1
  <2>2. QED
    BY <1>2, <2>1
<1>4. ASSUME NEW p \in PlacesIn(content', kind), NEW q \in PlacesIn(content', kind), Before(p, q)
      PROVE  Before(AtIn(content', p), AtIn(content', q))
  <2>1. CASE p \in PlacesIn(content, kind) /\ q \in PlacesIn(content, kind)
    BY <1>1, <1>2, <1>4, <2>1
  <2>2. CASE p \in PlacesIn(content, kind) /\ q = new
    BY <1>1, <1>2, <2>2
  <2>3. CASE p = new
    BY <1>1, <1>4, <2>3
  <2>4. QED
    BY <1>1, <2>1, <2>2, <2>3
<1>5. QED
  BY <1>3, <1>4 DEF Arrived

LEMMA ExtendsPlaces ==
  ASSUME BuilderTypeOK, NEW n, NEW d \in Seq(Fragments), Extends(n, d), NEW type,
         content[n].type # type \/ d = <<>>
  PROVE  SameIn(type)
<1>1. /\ n \in DOMAIN content /\ DOMAIN content' = DOMAIN content
      /\ \A k \in DOMAIN content : content'[k].type = content[k].type
      /\ \A k \in DOMAIN content : k # n => content'[k].data = content[k].data
      /\ content'[n].data = content[n].data \o d
  BY DEF Extends
<1>2. content[n].data \in Seq(Fragments)
  BY <1>1, BlockData DEF BuilderTypeOK
<1>3. \A k \in DOMAIN content : content[k].type = type => content'[k].data = content[k].data
  <2>1. d = <<>> => content[n].data \o d = content[n].data
    BY <1>2
  <2>2. QED
    BY <1>1, <2>1
<1>4. ASSUME NEW p PROVE p \in PlacesIn(content', type) <=> p \in PlacesIn(content, type)
  BY <1>1, <1>3, PlacesAre
<1>5. ASSUME NEW p \in PlacesIn(content, type) PROVE AtIn(content', p) = AtIn(content, p)
  <2>1. PICK m \in DOMAIN content :
            content[m].type = type /\ \E k \in DOMAIN content[m].data : p = <<m, k>>
    BY PlacesAre
  <2>2. p[1] = m
    BY <2>1
  <2>3. QED
    BY <1>3, <2>1, <2>2 DEF AtIn
<1>6. QED
  BY <1>4, <1>5 DEF SameIn

LEMMA AddsPlaces ==
  ASSUME NEW t, NEW id, NEW d, Adds(t, id, d), NEW type, t # type \/ d = <<>>
  PROVE  SameIn(type)
<1>1. /\ DOMAIN content' = DOMAIN content \cup {Len(content) + 1}
      /\ \A k \in DOMAIN content : content'[k] = content[k]
      /\ content'[Len(content) + 1].type = t /\ content'[Len(content) + 1].data = d
  BY DEF Adds, Block
<1>2. ASSUME NEW p PROVE p \in PlacesIn(content', type) <=> p \in PlacesIn(content, type)
  <2>1. d = <<>> => DOMAIN d = {}
    OBVIOUS
  <2>2. QED
    BY <1>1, <2>1, PlacesAre
<1>3. ASSUME NEW p \in PlacesIn(content, type) PROVE AtIn(content', p) = AtIn(content, p)
  <2>1. PICK m \in DOMAIN content :
            content[m].type = type /\ \E k \in DOMAIN content[m].data : p = <<m, k>>
    BY PlacesAre
  <2>2. p[1] = m
    BY <2>1
  <2>3. QED
    BY <1>1, <2>1, <2>2 DEF AtIn
<1>4. QED
  BY <1>2, <1>3 DEF SameIn

LEMMA ExtendsMore ==
  ASSUME BuilderTypeOK, NEW f \in Fragments, Extends(Len(content), <<f>>), NEW type,
         content[Len(content)].type = type
  PROVE  OneMore(type, f)
<1> DEFINE n == Len(content)
           k0 == Len(content[n].data) + 1
           new == <<n, k0>>
<1>1. /\ n \in DOMAIN content /\ DOMAIN content' = DOMAIN content
      /\ \A k \in DOMAIN content : content'[k].type = content[k].type
      /\ \A k \in DOMAIN content : k # n => content'[k].data = content[k].data
      /\ content'[n].data = content[n].data \o <<f>> /\ content[n].type = type
  BY DEF Extends
<1>2. /\ \A k \in DOMAIN content : content[k].data \in Seq(Fragments)
      /\ DOMAIN content = 1..n /\ n \in Nat
  BY BlockData DEF BuilderTypeOK
<1>3. content[n].data \in Seq(Fragments)
  BY <1>1, <1>2
<1>4. /\ DOMAIN content'[n].data = DOMAIN content[n].data \cup {k0} /\ content'[n].data[k0] = f
      /\ \A k \in DOMAIN content[n].data : content'[n].data[k] = content[n].data[k]
      /\ DOMAIN content[n].data = 1..(k0 - 1) /\ k0 \in Nat
  BY <1>1, <1>3
<1> HIDE DEF n, k0
<1>5. ASSUME NEW p PROVE p \in PlacesIn(content', type) <=> p \in PlacesIn(content, type) \cup {new}
  <2>1. p \in PlacesIn(content', type) => p \in PlacesIn(content, type) \cup {new}
    BY <1>1, <1>4, PlacesAre
  <2>2. p \in PlacesIn(content, type) => p \in PlacesIn(content', type)
    BY <1>1, <1>4, PlacesAre
  <2>3. new \in PlacesIn(content', type)
    BY <1>1, <1>4, PlacesAre
  <2>4. QED
    BY <2>1, <2>2, <2>3
<1>6. ASSUME NEW p \in PlacesIn(content, type)
      PROVE  AtIn(content', p) = AtIn(content, p) /\ Before(p, new) /\ ~Before(new, p)
  <2>1. PICK m \in DOMAIN content :
            content[m].type = type /\ \E k \in DOMAIN content[m].data : p = <<m, k>>
    BY PlacesAre
  <2>2. PICK k \in DOMAIN content[m].data : p = <<m, k>>
    BY <2>1
  <2>3. p[1] = m /\ p[2] = k
    BY <2>2
  <2>4. CASE m = n
    <3>1. k \in Nat /\ k < k0 /\ content'[n].data[k] = content[n].data[k]
      BY <1>4, <2>2, <2>4
    <3>2. AtIn(content', p) = AtIn(content, p)
      BY <2>3, <2>4, <3>1 DEF AtIn
    <3>3. Before(p, new) /\ ~Before(new, p)
      BY <1>2, <1>4, <2>3, <2>4, <3>1 DEF Before
    <3>4. QED
      BY <3>2, <3>3
  <2>5. CASE m # n
    BY <1>1, <1>2, <2>2, <2>3, <2>5 DEF AtIn, Before
  <2>6. QED
    BY <2>4, <2>5
<1>7. AtIn(content', new) = f /\ ~Before(new, new)
  BY <1>2, <1>4 DEF AtIn, Before
<1> HIDE DEF new
<1>8. QED
  BY <1>5, <1>6, <1>7 DEF OneMore

LEMMA AddsMore ==
  ASSUME BuilderTypeOK, NEW f, NEW type, NEW id, Adds(type, id, <<f>>)
  PROVE  OneMore(type, f)
<1> DEFINE n == Len(content) + 1
           new == <<n, 1>>
<1>1. /\ DOMAIN content' = DOMAIN content \cup {n}
      /\ \A k \in DOMAIN content : content'[k] = content[k]
      /\ content'[n].type = type /\ content'[n].data = <<f>>
      /\ DOMAIN content = 1..Len(content) /\ Len(content) \in Nat
  BY DEF Adds, Block, BuilderTypeOK
<1>2. DOMAIN content'[n].data = {1} /\ content'[n].data[1] = f
  BY <1>1
<1>3. ASSUME NEW p PROVE p \in PlacesIn(content', type) <=> p \in PlacesIn(content, type) \cup {new}
  <2> HIDE DEF n
  <2>1. p \in PlacesIn(content', type) => p \in PlacesIn(content, type) \cup {new}
    BY <1>1, <1>2, PlacesAre
  <2>2. p \in PlacesIn(content, type) => p \in PlacesIn(content', type)
    BY <1>1, PlacesAre
  <2>3. new \in PlacesIn(content', type)
    BY <1>1, <1>2, PlacesAre
  <2>4. QED
    BY <2>1, <2>2, <2>3
<1>4. ASSUME NEW p \in PlacesIn(content, type)
      PROVE  AtIn(content', p) = AtIn(content, p) /\ Before(p, new) /\ ~Before(new, p)
  <2>1. PICK m \in DOMAIN content :
            content[m].type = type /\ \E k \in DOMAIN content[m].data : p = <<m, k>>
    BY PlacesAre
  <2>2. p[1] = m
    BY <2>1
  <2>3. m < n /\ ~(n < m) /\ m # n
    BY <1>1
  <2>4. QED
    BY <1>1, <2>1, <2>2, <2>3 DEF AtIn, Before
<1>5. AtIn(content', new) = f /\ ~Before(new, new)
  BY <1>1, <1>2 DEF AtIn, Before
<1> HIDE DEF new
<1>6. QED
  BY <1>3, <1>4, <1>5 DEF OneMore

(* What an event adds to the places of a type. *)
LEMMA EventAdds ==
  ASSUME Base, NEW e, Yield(e), Taken(e), e.type \in StreamTypes, NEW kind \in {"text", "reasoning"}
  PROVE  /\ (/\ e.type = "text-delta" => kind # "text" \/ e.data = <<>>
             /\ e.type = "reasoning" => kind # "reasoning") => SameIn(kind)
         /\ \A f \in Fragments :
              (/\ e.data = <<f>>
               /\ \/ e.type = "text-delta" /\ kind = "text"
                  \/ e.type = "reasoning" /\ kind = "reasoning") => OneMore(kind, f)
<1>0. BuilderTypeOK /\ ToolCallsIndexed /\ e \in Events /\ AddEvent(e)
  BY DEF Base, Yield
<1>a. \A type : LastIs(type) => content[Len(content)].type = type
  BY DEF LastIs
<1>b. UNCHANGED content => SameIn(kind)
  BY DEF SameIn
<1>1. ASSUME e.type = "text-delta" => kind # "text" \/ e.data = <<>>, e.type = "reasoning" => kind # "reasoning"
      PROVE  SameIn(kind)
  <2>1. CASE e.type \in {"text-delta", "reasoning"}
    <3>1. e.data \in Seq(Fragments)
      BY <1>0, <2>1, EventData
    <3>2. CASE e.type = "text-delta"
      <4>1. \/ Extends(Len(content), e.data) /\ content[Len(content)].type = "text"
            \/ Adds("text", NoID, e.data)
        BY <1>0, <1>a, <3>2, ContentAfter
      <4>2. QED
        BY <1>0, <1>1, <3>1, <3>2, <4>1, ExtendsPlaces, AddsPlaces
    <3>3. CASE e.type = "reasoning"
      <4>1. \/ Extends(Len(content), e.data) /\ content[Len(content)].type = "reasoning"
            \/ Adds("reasoning", NoID, e.data)
        BY <1>0, <1>a, <3>3, ContentAfter
      <4>2. QED
        BY <1>0, <1>1, <3>1, <3>3, <4>1, ExtendsPlaces, AddsPlaces
    <3>4. QED
      BY <2>1, <3>2, <3>3
  <2>2. CASE e.type = "tool-call"
    BY <1>0, <2>2, ContentAfter, AddsPlaces
  <2>3. CASE e.type = "tool-call-delta"
    <3>1. e.data \in Seq(Fragments)
      BY <1>0, <2>3, EventData
    <3>2. e.id \in DOMAIN toolCallIndices => content[toolCallIndices[e.id]].type = "tool"
      BY <1>0 DEF ToolCallsIndexed
    <3>3. \/ e.id \in DOMAIN toolCallIndices /\ Extends(toolCallIndices[e.id], e.data)
          \/ Adds("tool", e.id, e.data)
      BY <1>0, <2>3, ContentAfter
    <3>4. QED
      BY <1>0, <3>1, <3>2, <3>3, ExtendsPlaces, AddsPlaces
  <2>4. CASE e.type = "source"
    BY <1>0, <2>4, ContentAfter, AddsPlaces
  <2>5. CASE e.type \in {"response-metadata", "finish", "error"}
    BY <1>b, <2>5 DEF Taken
  <2>6. QED
    BY <2>1, <2>2, <2>3, <2>4, <2>5 DEF StreamTypes
<1>2. ASSUME NEW f \in Fragments, e.data = <<f>>,
             \/ e.type = "text-delta" /\ kind = "text"
             \/ e.type = "reasoning" /\ kind = "reasoning"
      PROVE  OneMore(kind, f)
  <2>1. \/ Extends(Len(content), <<f>>) /\ content[Len(content)].type = kind
        \/ Adds(kind, NoID, <<f>>)
    BY <1>0, <1>2, <1>a, ContentAfter
  <2>2. QED
    BY <1>0, <2>1, ExtendsMore, AddsMore
<1>3. QED
  BY <1>1, <1>2

LEMMA NextArrived ==
  ASSUME Base, StepOf, result' # "rejected", NEW kind \in {"text", "reasoning"}, Arrived(content, items, kind)
  PROVE  Arrived(content', items', kind)
<1>t. \A e : Yield(e) => Taken(e)
  BY RefusedOrTaken DEF Yield, Refused
<1>s. Silent => SameIn(kind)
  BY DEF Silent, builderVars, SameIn
<1>e. ASSUME NEW e, Yield(e), e.type \in StreamTypes,
             e.type = "text-delta" => kind # "text" \/ e.data = <<>>, e.type = "reasoning" => kind # "reasoning"
      PROVE  SameIn(kind)
  BY <1>e, <1>t, EventAdds
<1>i. ItemsInv
  BY DEF Base
<1>1. CASE Opens
  <2>1. PICK k \in Kinds :
          /\ OpenItem(k)
          /\ Silent \/ \E e : e.type \in {"tool-call", "tool-call-delta"} /\ Yield(e)
    BY <1>1 DEF Opens
  <2>2. SentIn(items', kind) = SentIn(items, kind)
    BY <1>i, <2>1, OpenItemStep, SentNext
  <2>3. SameIn(kind)
    BY <1>s, <1>e, <2>1 DEF StreamTypes
  <2>4. QED
    BY <2>2, <2>3, ArrivedSame
<1>2. CASE Sends
  <2>1. PICK i \in DOMAIN items :
          /\ SendFragment(i)
          /\ \/ items[i].kind = "text" /\ Yield(TextDelta(Fragment(i)))
             \/ items[i].kind = "reasoning" /\ Yield(Reasoning(Fragment(i)))
             \/ items[i].kind = "tool" /\ \E e : e.type = "tool-call-delta" /\ Yield(e)
             \/ items[i].kind \in {"command", "thinking"} /\ Silent
    BY <1>2 DEF Sends
  <2>2. SentOne(i) /\ items[i].open /\ items[i].sent < MaxFragments
    BY <1>i, <2>1, SendFragmentStep DEF SendFragment
  <2> DEFINE f == <<i, items[i].sent + 1>>
  <2>3. SentIn(items', kind) =
          IF items[i].kind = kind THEN SentIn(items, kind) \cup {f} ELSE SentIn(items, kind)
    BY <1>i, <2>2, SentNext
  <2>4. Fragment(i) = <<f>> /\ f \in Fragments
    <3>1. Fragment(i) \in Seq(Fragments) /\ Fragment(i) = <<f>>
      BY <1>i, <2>2, FragmentTypes DEF Fragment
    <3>2. QED
      BY <3>1
  <2> HIDE DEF f
  <2>5. /\ TextDelta(Fragment(i)).type = "text-delta" /\ TextDelta(Fragment(i)).data = <<f>>
        /\ Reasoning(Fragment(i)).type = "reasoning" /\ Reasoning(Fragment(i)).data = <<f>>
    BY <2>4 DEF TextDelta, Reasoning
  <2>6. CASE items[i].kind = kind
    <3>1. OneMore(kind, f)
      <4>2. CASE kind = "text"
        <5> DEFINE e == TextDelta(Fragment(i))
        <5>1. Yield(e) /\ e.type = "text-delta" /\ e.data = <<f>>
          BY <2>1, <2>5, <2>6, <4>2
        <5>2. e.type \in StreamTypes
          BY <5>1 DEF StreamTypes
        <5> HIDE DEF e
        <5>3. Taken(e)
          BY <1>t, <5>1
        <5>4. (e.type = "text-delta" /\ kind = "text") \/ (e.type = "reasoning" /\ kind = "reasoning")
          BY <4>2, <5>1
        <5>5. QED
          BY <2>4, <5>1, <5>2, <5>3, <5>4, EventAdds
      <4>3. CASE kind = "reasoning"
        <5> DEFINE e == Reasoning(Fragment(i))
        <5>1. Yield(e) /\ e.type = "reasoning" /\ e.data = <<f>>
          BY <2>1, <2>5, <2>6, <4>3
        <5>2. e.type \in StreamTypes
          BY <5>1 DEF StreamTypes
        <5> HIDE DEF e
        <5>3. QED
          BY <1>t, <2>4, <4>3, <5>1, <5>2, EventAdds
      <4>4. QED
        BY <4>2, <4>3
    <3>2. \A g \in SentIn(items, kind) : Before(g, f)
      BY <1>i, <2>2, <2>6, LastFragment DEF f, Parallel
    <3>3. QED
      BY <2>3, <2>6, <3>1, <3>2, ArrivedMore
  <2>7. CASE items[i].kind # kind
    <3>1. SameIn(kind)
      BY <1>e, <1>s, <2>1, <2>5, <2>7 DEF StreamTypes
    <3>2. QED
      BY <2>3, <2>7, <3>1, ArrivedSame
  <2>8. QED
    BY <2>6, <2>7
<1>3. CASE Closes
  <2>1. PICK i \in DOMAIN items : CloseItem(i) /\ (Silent \/ Yield(ToolCall(i, ItemData(i))))
    BY <1>3 DEF Closes
  <2>2. SentIn(items', kind) = SentIn(items, kind)
    BY <1>i, <2>1, CloseItemStep, SentNext
  <2>3. ToolCall(i, ItemData(i)).type = "tool-call"
    BY DEF ToolCall
  <2>4. SameIn(kind)
    BY <1>s, <1>e, <2>1, <2>3 DEF StreamTypes
  <2>5. QED
    BY <2>2, <2>4, ArrivedSame
<1>4. CASE Says
  <2>1. UNCHANGED items
    BY <1>4 DEF Says
  <2>2. Error.type = "error" /\ Source(annotationCounter + 1).type = "source"
        /\ TextDelta(<<>>).type = "text-delta" /\ TextDelta(<<>>).data = <<>>
    BY DEF Error, Source, TextDelta
  <2>3. SameIn(kind)
    <3>1. CASE Reports
      BY <1>e, <2>2, <3>1 DEF Reports, StreamTypes
    <3>2. CASE Finishes
      BY <1>e, <3>2 DEF Finishes, StreamTypes
    <3>3. CASE Cites
      BY <1>e, <2>2, <3>3 DEF Cites, StreamTypes
    <3>4. CASE SaysNothing
      BY <1>e, <1>s, <2>2, <3>4 DEF SaysNothing, StreamTypes
    <3>5. CASE Identifies
      BY <1>e, <3>5 DEF Identifies, StreamTypes
    <3>6. QED
      BY <1>4, <3>1, <3>2, <3>3, <3>4, <3>5 DEF Says
  <2>4. SentIn(items', kind) = SentIn(items, kind)
    BY <2>1
  <2>5. QED
    BY <2>3, <2>4, ArrivedSame
<1>5. QED
  BY <1>1, <1>2, <1>3, <1>4 DEF StepOf

(* The sources of a response of OpenAI are numbered as they come. *)
Numbered(c, n) ==
  LET sources == {m \in DOMAIN c : c[m].type = "source"} IN
    /\ {c[m].id : m \in sources} = 1..n
    /\ \A k, m \in sources : c[k].id = c[m].id => k = m

LEMMA NumberedAre ==
  ASSUME NEW c, NEW n
  PROVE  Numbered(c, n) <=>
           /\ \A m \in DOMAIN c : c[m].type = "source" => c[m].id \in 1..n
           /\ \A x \in 1..n : \E m \in DOMAIN c : c[m].type = "source" /\ c[m].id = x
           /\ \A k, m \in DOMAIN c :
                c[k].type = "source" /\ c[m].type = "source" /\ c[k].id = c[m].id => k = m
<1> DEFINE sources == {m \in DOMAIN c : c[m].type = "source"}
           ids == {c[m].id : m \in sources}
<1>1. ids = 1..n <=> (\A m \in sources : c[m].id \in 1..n) /\ (\A x \in 1..n : \E m \in sources : c[m].id = x)
  BY Zenon
<1>2. QED
  BY <1>1 DEF Numbered

LEMMA CounterSteps ==
  ASSUME [Next]_vars, provider # "any", OpenAIInv
  PROVE  Cites \/ UNCHANGED annotationCounter
<1>1. CASE provider = "openai" /\ OpenAINext
  <2>1. ASSUME NEW i \in DOMAIN items, decodeOutputTextAnnotationAdded(i) PROVE Cites
    <3>1. annotationCounter \in 0..MaxSources
      BY <1>1 DEF OpenAIInv, OpenAIRun
    <3>2. annotationCounter < MaxSources
      BY <2>1 DEF decodeOutputTextAnnotationAdded
    <3>3. annotationCounter + 1 \in 1..MaxSources
      BY <3>1, <3>2, WireAssumption
    <3>4. Source(annotationCounter + 1) \in Events
      BY <3>3, WireAssumption DEF Events, Source
    <3>5. QED
      BY <1>1, <2>1, <3>4
      DEF decodeOutputTextAnnotationAdded, Serving, Reading, Continue, streamVars, Cites, Yield
  <2>2. UNCHANGED annotationCounter \/ \E i \in DOMAIN items : decodeOutputTextAnnotationAdded(i)
    BY <1>1
    DEF OpenAINext, decodeResponseCreated, decodeOutputItemAdded, decodeTextDelta,
        decodeReasoningSummaryTextDelta, decodeFunctionCallArgumentsDelta, decodeOutputItemDone,
        decodeResponseCompleted, decodeResponseFailedOrIncomplete, decodeError, StreamErr,
        StreamEOF, SendFinish, openAIVars
  <2>3. QED
    BY <2>1, <2>2
<1>2. CASE UNCHANGED openAIVars
  BY <1>2 DEF openAIVars
<1>3. UNCHANGED vars \/ Ends => UNCHANGED openAIVars
  BY DEF vars, Ends
<1>4. QED
  BY <1>1, <1>2, <1>3, WhoSteps

(* What the blocks of sources are after an event. *)
SourcesSame(c, d) ==
  /\ DOMAIN c \subseteq DOMAIN d
  /\ \A m \in DOMAIN c : d[m].type = c[m].type /\ d[m].id = c[m].id
  /\ \A m \in DOMAIN d : d[m].type = "source" => m \in DOMAIN c

LEMMA SourceAdds ==
  ASSUME Base, NEW e, Yield(e), Taken(e), e.type \in StreamTypes \ {"source"}
  PROVE  SourcesSame(content, content')
<1>0. BuilderTypeOK /\ e \in Events /\ AddEvent(e)
  BY DEF Base, Yield
<1>1. \A n, d : Extends(n, d) => SourcesSame(content, content')
  BY DEF Extends, SourcesSame
<1>2. \A type, id, d : Adds(type, id, d) /\ type # "source" => SourcesSame(content, content')
  BY DEF Adds, Block, SourcesSame
<1>3. CASE e.type \in {"text-delta", "reasoning", "tool-call", "tool-call-delta"}
  BY <1>0, <1>1, <1>2, <1>3, ContentAfter
<1>4. CASE e.type \in {"response-metadata", "finish", "error"}
  BY <1>4 DEF Taken, SourcesSame
<1>5. QED
  BY <1>3, <1>4 DEF StreamTypes

LEMMA NumberedSame ==
  ASSUME NEW c, NEW d, NEW n, SourcesSame(c, d), Numbered(c, n)
  PROVE  Numbered(d, n)
<1>1. /\ \A m \in DOMAIN c : c[m].type = "source" => c[m].id \in 1..n
      /\ \A x \in 1..n : \E m \in DOMAIN c : c[m].type = "source" /\ c[m].id = x
      /\ \A k, m \in DOMAIN c :
           c[k].type = "source" /\ c[m].type = "source" /\ c[k].id = c[m].id => k = m
  BY NumberedAre
<1>2. /\ \A m \in DOMAIN d : d[m].type = "source" => d[m].id \in 1..n
      /\ \A x \in 1..n : \E m \in DOMAIN d : d[m].type = "source" /\ d[m].id = x
      /\ \A k, m \in DOMAIN d :
           d[k].type = "source" /\ d[m].type = "source" /\ d[k].id = d[m].id => k = m
  BY <1>1 DEF SourcesSame
<1>3. QED
  BY <1>2, NumberedAre

LEMMA NumberedMore ==
  ASSUME NEW n \in Nat, Numbered(content, n), Adds("source", n + 1, <<>>)
  PROVE  Numbered(content', n + 1)
<1>1. /\ \A m \in DOMAIN content : content[m].type = "source" => content[m].id \in 1..n
      /\ \A x \in 1..n : \E m \in DOMAIN content : content[m].type = "source" /\ content[m].id = x
      /\ \A k, m \in DOMAIN content :
           content[k].type = "source" /\ content[m].type = "source" /\ content[k].id = content[m].id => k = m
  BY NumberedAre
<1> DEFINE new == Len(content) + 1
<1>2. /\ DOMAIN content' = DOMAIN content \cup {new} /\ new \notin DOMAIN content
      /\ content'[new].type = "source" /\ content'[new].id = n + 1
      /\ \A m \in DOMAIN content : content'[m] = content[m]
  BY DEF Adds, Block
<1> HIDE DEF new
<1>3. 1..(n + 1) = (1..n) \cup {n + 1} /\ n + 1 \notin 1..n
  OBVIOUS
<1>4. \A m \in DOMAIN content' : content'[m].type = "source" => content'[m].id \in 1..(n + 1)
  BY <1>1, <1>2, <1>3
<1>5. \A x \in 1..(n + 1) : \E m \in DOMAIN content' : content'[m].type = "source" /\ content'[m].id = x
  BY <1>1, <1>2, <1>3
<1>6. \A k, m \in DOMAIN content' :
        content'[k].type = "source" /\ content'[m].type = "source" /\ content'[k].id = content'[m].id => k = m
  BY <1>1, <1>2, <1>3
<1>7. QED
  BY <1>4, <1>5, <1>6, NumberedAre

ArriveInv ==
  provider # "any" /\ result # "rejected" =>
    /\ Arrived(content, items, "text") /\ Arrived(content, items, "reasoning")
    /\ Numbered(content, annotationCounter)

LEMMA NextNumbered ==
  ASSUME Base, StepOf, result' # "rejected", Cites \/ UNCHANGED annotationCounter,
         Numbered(content, annotationCounter), provider # "any"
  PROVE  Numbered(content', annotationCounter')
<1>n. annotationCounter \in Nat
  BY WireAssumption DEF Base, VarsInv, OpenAIInv, OpenAIRun, OpenAIInit
<1>t. \A e : Yield(e) => Taken(e)
  BY RefusedOrTaken DEF Yield, Refused
<1>1. CASE Cites
  <2> DEFINE e == Source(annotationCounter + 1)
  <2>1. Yield(e) /\ e.type = "source" /\ e.id = annotationCounter + 1
    BY <1>1 DEF Cites, Source
  <2> HIDE DEF e
  <2>2. Adds("source", annotationCounter + 1, <<>>)
    BY <1>t, <2>1, ContentAfter DEF Yield, Base
  <2>3. annotationCounter' = annotationCounter + 1
    BY <1>1 DEF Cites
  <2>4. QED
    BY <1>n, <2>2, <2>3, NumberedMore
<1>2. CASE UNCHANGED annotationCounter /\ ~Cites
  <2>s. Silent => SourcesSame(content, content')
    BY DEF Silent, builderVars, SourcesSame
  <2>e. ASSUME NEW e, Yield(e), e.type \in StreamTypes \ {"source"}
        PROVE  SourcesSame(content, content')
    BY <2>e, <1>t, SourceAdds
  <2>t. /\ \A d : TextDelta(d).type = "text-delta" /\ Reasoning(d).type = "reasoning"
        /\ \A i, d : ToolCall(i, d).type = "tool-call"
        /\ Error.type = "error"
    BY DEF TextDelta, Reasoning, ToolCall, Error
  <2>1. SourcesSame(content, content')
    <3>1. CASE Opens
      BY <3>1, <2>s, <2>e DEF Opens, StreamTypes
    <3>2. CASE Sends
      BY <3>2, <2>s, <2>e, <2>t DEF Sends, StreamTypes
    <3>3. CASE Closes
      BY <3>3, <2>s, <2>e, <2>t DEF Closes, StreamTypes
    <3>4. CASE Says
      BY <1>2, <3>4, <2>s, <2>e, <2>t
      DEF Says, Reports, Finishes, SaysNothing, Identifies, StreamTypes
    <3>5. QED
      BY <3>1, <3>2, <3>3, <3>4 DEF StepOf
  <2>2. QED
    BY <1>2, <2>1, NumberedSame
<1>3. QED
  BY <1>1, <1>2

LEMMA ArriveStays ==
  ASSUME Base, ArriveInv, [Next]_vars
  PROVE  ArriveInv'
<1>0. UNCHANGED provider
  BY Steps DEF Base
<1>1. CASE UNCHANGED vars
  <2>1. UNCHANGED <<items, content, result, annotationCounter>>
    BY <1>1 DEF vars, streamVars, builderVars, openAIVars
  <2>2. QED
    BY <1>0, <2>1 DEF ArriveInv
<1>2. CASE provider = "any"
  BY <1>0, <1>2 DEF ArriveInv
<1>3. CASE Ends
  <2>1. UNCHANGED <<items, content, annotationCounter>> /\ result = "none"
    BY <1>3 DEF Ends, StreamOver, Build, streamVars, openAIVars
  <2>2. QED
    BY <1>0, <2>1 DEF ArriveInv
<1>4. CASE provider # "any" /\ StepOf /\ ~UNCHANGED vars
  <2> SUFFICES ASSUME result' # "rejected"
               PROVE  /\ Arrived(content', items', "text") /\ Arrived(content', items', "reasoning")
                      /\ Numbered(content', annotationCounter')
    BY DEF ArriveInv
  <2>1. result # "rejected"
    BY <1>4, NothingAfterResult
  <2>2. /\ Arrived(content, items, "text") /\ Arrived(content, items, "reasoning")
        /\ Numbered(content, annotationCounter)
    BY <1>4, <2>1 DEF ArriveInv
  <2>3. Arrived(content', items', "text") /\ Arrived(content', items', "reasoning")
    BY <1>4, <2>2, NextArrived
  <2>4. Cites \/ UNCHANGED annotationCounter
    BY <1>4, CounterSteps DEF Base, VarsInv
  <2>5. QED
    BY <1>4, <2>2, <2>3, <2>4, NextNumbered
<1>5. QED
  BY <1>1, <1>2, <1>3, <1>4, Steps DEF Base

(* What the model wrote arrives: the text and the reasoning of every       *)
(* provider, in order and once, and nothing else; and the sources of       *)
(* OpenAI, each under an id of its own (builder.go:87, 105, 197;           *)
(* decode_stream.go:55), in every response of any length that is not       *)
(* refused.                                                                *)
THEOREM StreamContentArrives == Spec => []ContentArrives
<1>1. Init => ArriveInv
  <2> SUFFICES ASSUME Init PROVE ArriveInv
    OBVIOUS
  <2>1. DOMAIN items = {} /\ DOMAIN content = {} /\ annotationCounter = 0
    BY DEF Init, StreamInit, NewResponseBuilder, OpenAIInit
  <2>2. \A kind : SentIn(items, kind) = {} /\ PlacesIn(content, kind) = {}
    BY <2>1 DEF SentIn, PlacesIn
  <2>3. \A kind : Arrived(content, items, kind)
    BY <2>2 DEF Arrived
  <2>4. Numbered(content, annotationCounter)
    BY <2>1, NumberedAre
  <2>5. QED
    BY <2>3, <2>4 DEF ArriveInv
<1>2. Base /\ ArriveInv /\ [Next]_vars => ArriveInv'
  BY ArriveStays
<1>3. ArriveInv => ContentArrives
  <2>1. \A kind : Arrived(content, items, kind) => Arrives(kind)
    BY DEF Arrived, Arrives, SentIn, Sent, PlacesIn, Places, AtIn, At
  <2>2. QED
    BY <2>1 DEF ArriveInv, ContentArrives, Numbered
<1>4. QED
  BY <1>1, <1>2, <1>3, BaseHolds, PTL DEF Spec

-----------------------------------------------------------------------------
(* The arguments of parallel tool calls.                                   *)

(* Every tool block is that of a call, and has its arguments; a call has   *)
(* its block, of OpenRouter once it has arguments.                         *)
ToolsOwn(c, s, p) ==
  /\ \A n \in DOMAIN c : c[n].type = "tool" =>
       /\ c[n].id \in DOMAIN s /\ s[c[n].id].kind = "tool"
       /\ c[n].data = Data(s, c[n].id)
  /\ \A i \in DOMAIN s : s[i].kind = "tool" /\ (p = "openrouter" => s[i].sent > 0) =>
       \E n \in DOMAIN c : c[n].type = "tool" /\ c[n].id = i

ToolsSame(c, d) ==
  /\ DOMAIN c \subseteq DOMAIN d
  /\ \A m \in DOMAIN c : d[m].type = c[m].type /\ d[m].id = c[m].id
  /\ \A m \in DOMAIN c : c[m].type = "tool" => d[m].data = c[m].data
  /\ \A m \in DOMAIN d : d[m].type = "tool" => m \in DOMAIN c

CallsSame(s, t, p) ==
  /\ DOMAIN s \subseteq DOMAIN t
  /\ \A i \in DOMAIN s : t[i].kind = s[i].kind /\ (s[i].kind = "tool" => t[i].sent = s[i].sent)
  /\ \A i \in DOMAIN t : t[i].kind = "tool" /\ (p = "openrouter" => t[i].sent > 0) => i \in DOMAIN s

LEMMA ToolsKept ==
  ASSUME NEW c, NEW d, NEW s, NEW t, NEW p, ToolsOwn(c, s, p), ToolsSame(c, d), CallsSame(s, t, p)
  PROVE  ToolsOwn(d, t, p)
<1>1. ASSUME NEW n \in DOMAIN d, d[n].type = "tool"
      PROVE  /\ d[n].id \in DOMAIN t /\ t[d[n].id].kind = "tool"
             /\ d[n].data = Data(t, d[n].id)
  <2>1. n \in DOMAIN c /\ c[n].type = "tool" /\ d[n].id = c[n].id /\ d[n].data = c[n].data
    BY <1>1 DEF ToolsSame
  <2>2. c[n].id \in DOMAIN s /\ s[c[n].id].kind = "tool" /\ c[n].data = Data(s, c[n].id)
    BY <2>1 DEF ToolsOwn
  <2>3. /\ c[n].id \in DOMAIN t /\ t[c[n].id].kind = "tool"
        /\ t[c[n].id].sent = s[c[n].id].sent
    BY <2>2 DEF CallsSame
  <2>4. QED
    BY <2>1, <2>2, <2>3 DEF Data
<1>2. ASSUME NEW i \in DOMAIN t, t[i].kind = "tool" /\ (p = "openrouter" => t[i].sent > 0)
      PROVE  \E n \in DOMAIN d : d[n].type = "tool" /\ d[n].id = i
  <2>1. i \in DOMAIN s /\ s[i].kind = "tool" /\ s[i].sent = t[i].sent
    BY <1>2 DEF CallsSame
  <2>2. PICK n \in DOMAIN c : c[n].type = "tool" /\ c[n].id = i
    BY <1>2, <2>1 DEF ToolsOwn
  <2>3. QED
    BY <2>2 DEF ToolsSame
<1>3. QED
  BY <1>1, <1>2 DEF ToolsOwn

LEMMA ToolsKeep ==
  ASSUME Base, NEW e, Yield(e), Taken(e), e.type \in StreamTypes \ {"tool-call", "tool-call-delta"}
  PROVE  ToolsSame(content, content')
<1>0. BuilderTypeOK /\ e \in Events /\ AddEvent(e)
  BY DEF Base, Yield
<1>1. \A n, d : Extends(n, d) /\ content[n].type # "tool" => ToolsSame(content, content')
  BY DEF Extends, ToolsSame
<1>2. \A type, id, d : Adds(type, id, d) /\ type # "tool" => ToolsSame(content, content')
  BY DEF Adds, Block, ToolsSame
<1>3. CASE e.type \in {"text-delta", "reasoning", "source"}
  BY <1>0, <1>1, <1>2, <1>3, ContentAfter DEF LastIs
<1>4. CASE e.type \in {"response-metadata", "finish", "error"}
  BY <1>4 DEF Taken, ToolsSame
<1>5. QED
  BY <1>3, <1>4 DEF StreamTypes

ToolInv == provider \in {"openai", "openrouter"} /\ result # "rejected" => ToolsOwn(content, items, provider)

(* A call has one block, and the map finds it. *)
LEMMA OneBlock ==
  ASSUME Base
  PROVE  /\ \A m, n \in DOMAIN content :
              content[m].type = "tool" /\ content[n].type = "tool" /\ content[m].id = content[n].id => m = n
         /\ \A i : i \in DOMAIN toolCallIndices <=>
                     \E n \in DOMAIN content : content[n].type = "tool" /\ content[n].id = i
         /\ \A i \in DOMAIN toolCallIndices :
              /\ toolCallIndices[i] \in DOMAIN content
              /\ content[toolCallIndices[i]].type = "tool" /\ content[toolCallIndices[i]].id = i
<1>1. DOMAIN content = 1..Len(content) /\ ToolCallsIndexed
      /\ \A i \in DOMAIN toolCallIndices : toolCallIndices[i] \in 1..Len(content)
  BY DEF Base, BuilderTypeOK
<1>2. QED
  BY <1>1 DEF ToolCallsIndexed

(* The first block of a call, and what is added to it. *)
LEMMA ToolsMore ==
  ASSUME Base, provider \in {"openai", "openrouter"}, ToolsOwn(content, items, provider),
         NEW i \in DOMAIN items, items[i].kind = "tool", SentOne(i), NEW e,
         Yield(e), Taken(e), e.type = "tool-call-delta", e.id = i, e.data = Fragment(i)
  PROVE  ToolsOwn(content', items', provider)
<1>0. BuilderTypeOK /\ e \in Events /\ AddEvent(e) /\ ItemsInv
  BY DEF Base, Yield
<1>1. /\ DOMAIN items' = DOMAIN items /\ items'[i].sent = items[i].sent + 1
      /\ items'[i].kind = "tool" /\ \A k \in DOMAIN items : k # i => items'[k] = items[k]
  BY DEF SentOne
<1>2. items[i].sent \in Nat
  BY <1>0, ItemTypes, StreamBounds DEF ItemsInv
<1>3. /\ Data(items, i) \o e.data = Data(items', i)
      /\ items[i].sent = 0 => e.data = Data(items', i)
  <2> DEFINE n == items[i].sent
  <2>1. n \in Nat /\ items'[i].sent = n + 1 /\ e.data = << <<i, n + 1>> >>
    BY <1>1, <1>2 DEF Fragment
  <2>2. /\ Data(items, i) = [k \in 1..n |-> <<i, k>>]
        /\ Data(items', i) = [k \in 1..(n + 1) |-> <<i, k>>]
    BY <2>1 DEF Data
  <2> HIDE DEF n
  <2>3. /\ [k \in 1..n |-> <<i, k>>] \o << <<i, n + 1>> >> = [k \in 1..(n + 1) |-> <<i, k>>]
        /\ n = 0 => << <<i, n + 1>> >> = [k \in 1..(n + 1) |-> <<i, k>>]
    BY <2>1, DataGrows
  <2>4. QED
    BY <2>1, <2>2, <2>3 DEF n
<1>4. \A k \in DOMAIN items : k # i => Data(items', k) = Data(items, k)
  BY <1>1 DEF Data
<1>5. CASE i \in DOMAIN toolCallIndices
  <2> DEFINE m == toolCallIndices[i]
  <2>1. m \in DOMAIN content /\ content[m].type = "tool" /\ content[m].id = i
    BY <1>5, OneBlock
  <2>2. Extends(m, e.data)
    BY <1>0, <1>5, ContentAfter
  <2> HIDE DEF m
  <2>3. content'[m].data = Data(items', i)
    <3>1. content[m].data = Data(items, i)
      BY <2>1 DEF ToolsOwn
    <3>2. content'[m].data = content[m].data \o e.data
      BY <2>2 DEF Extends
    <3>3. QED
      BY <1>3, <3>1, <3>2
  <2>4. /\ DOMAIN content' = DOMAIN content
        /\ \A k \in DOMAIN content : content'[k].type = content[k].type /\ content'[k].id = content[k].id
        /\ \A k \in DOMAIN content : k # m => content'[k].data = content[k].data
    BY <2>2 DEF Extends
  <2>5. ASSUME NEW n \in DOMAIN content', content'[n].type = "tool"
        PROVE  /\ content'[n].id \in DOMAIN items' /\ items'[content'[n].id].kind = "tool"
               /\ content'[n].data = Data(items', content'[n].id)
    <3>1. CASE n = m
      BY <1>1, <2>1, <2>3, <2>4, <3>1
    <3>2. CASE n # m
      <4>1. content[n].id # i /\ content[n].type = "tool" /\ n \in DOMAIN content
        BY <2>1, <2>4, <2>5, <3>2, OneBlock
      <4>2. /\ content[n].id \in DOMAIN items /\ items[content[n].id].kind = "tool"
            /\ content[n].data = Data(items, content[n].id)
        BY <4>1 DEF ToolsOwn
      <4>3. QED
        BY <1>1, <1>4, <2>4, <3>2, <4>1, <4>2
    <3>3. QED
      BY <3>1, <3>2
  <2>6. ASSUME NEW k \in DOMAIN items', items'[k].kind = "tool",
               provider = "openrouter" => items'[k].sent > 0
        PROVE  \E n \in DOMAIN content' : content'[n].type = "tool" /\ content'[n].id = k
    <3>1. CASE k = i
      BY <2>1, <2>4, <3>1
    <3>2. CASE k # i
      BY <1>1, <2>4, <2>6, <3>2 DEF ToolsOwn
    <3>3. QED
      BY <3>1, <3>2
  <2>7. QED
    BY <2>5, <2>6 DEF ToolsOwn
<1>6. CASE i \notin DOMAIN toolCallIndices
  <2> DEFINE m == Len(content) + 1
  <2>1. \A n \in DOMAIN content : content[n].type = "tool" => content[n].id # i
    BY <1>6, OneBlock
  <2>2. items[i].sent = 0
    BY <1>2, <2>1 DEF ToolsOwn
  <2>3. Adds("tool", i, e.data)
    BY <1>0, <1>6, ContentAfter
  <2>4. /\ DOMAIN content' = DOMAIN content \cup {m} /\ content'[m].type = "tool"
        /\ content'[m].id = i /\ content'[m].data = Data(items', i)
        /\ \A k \in DOMAIN content : content'[k] = content[k]
    BY <1>3, <2>2, <2>3 DEF Adds, Block
  <2> HIDE DEF m
  <2>5. ASSUME NEW n \in DOMAIN content', content'[n].type = "tool"
        PROVE  /\ content'[n].id \in DOMAIN items' /\ items'[content'[n].id].kind = "tool"
               /\ content'[n].data = Data(items', content'[n].id)
    <3>1. CASE n = m
      BY <1>1, <2>4, <3>1
    <3>2. CASE n # m
      <4>1. content[n].id # i /\ content[n].type = "tool" /\ n \in DOMAIN content
        BY <2>1, <2>4, <2>5, <3>2
      <4>2. /\ content[n].id \in DOMAIN items /\ items[content[n].id].kind = "tool"
            /\ content[n].data = Data(items, content[n].id)
        BY <4>1 DEF ToolsOwn
      <4>3. QED
        BY <1>1, <1>4, <2>4, <3>2, <4>1, <4>2
    <3>3. QED
      BY <3>1, <3>2
  <2>6. ASSUME NEW k \in DOMAIN items', items'[k].kind = "tool",
               provider = "openrouter" => items'[k].sent > 0
        PROVE  \E n \in DOMAIN content' : content'[n].type = "tool" /\ content'[n].id = k
    <3>1. CASE k = i
      BY <2>4, <3>1
    <3>2. CASE k # i
      BY <1>1, <2>4, <2>6, <3>2 DEF ToolsOwn
    <3>3. QED
      BY <3>1, <3>2
  <2>7. QED
    BY <2>5, <2>6 DEF ToolsOwn
<1>7. QED
  BY <1>5, <1>6

(* A call of OpenAI that starts has a block without arguments. *)
LEMMA ToolsStart ==
  ASSUME Base, provider = "openai", ToolsOwn(content, items, provider), Opened("tool"), NEW e,
         Yield(e), Taken(e), e.type = "tool-call-delta", e.id = Len(items) + 1, e.data = <<>>
  PROVE  ToolsOwn(content', items', provider)
<1> DEFINE i == Len(items) + 1
           m == Len(content) + 1
<1>0. BuilderTypeOK /\ e \in Events /\ AddEvent(e) /\ ItemsInv
  BY DEF Base, Yield
<1>1. /\ DOMAIN items' = DOMAIN items \cup {i} /\ items'[i].sent = 0 /\ i \notin DOMAIN items
      /\ items'[i].kind = "tool" /\ \A k \in DOMAIN items : items'[k] = items[k]
  BY <1>0 DEF Opened, ItemsInv
<1> HIDE DEF i
<1>2. \A n \in DOMAIN content : content[n].type = "tool" => content[n].id # i
  BY <1>1 DEF ToolsOwn
<1>3. e.id = i
  BY DEF i
<1>4. Adds("tool", i, <<>>)
  BY <1>0, <1>2, <1>3, OneBlock, ContentAfter
<1>5. Data(items', i) = <<>>
  BY <1>1 DEF Data
<1>6. /\ DOMAIN content' = DOMAIN content \cup {m} /\ content'[m].type = "tool"
      /\ content'[m].id = i /\ content'[m].data = Data(items', i)
      /\ \A k \in DOMAIN content : content'[k] = content[k]
  BY <1>4, <1>5 DEF Adds, Block
<1>7. \A k \in DOMAIN items : Data(items', k) = Data(items, k)
  BY <1>1 DEF Data
<1> HIDE DEF m
<1>8. ASSUME NEW n \in DOMAIN content', content'[n].type = "tool"
      PROVE  /\ content'[n].id \in DOMAIN items' /\ items'[content'[n].id].kind = "tool"
             /\ content'[n].data = Data(items', content'[n].id)
  BY <1>1, <1>6, <1>7, <1>8 DEF ToolsOwn
<1>9. ASSUME NEW k \in DOMAIN items', items'[k].kind = "tool"
      PROVE  \E n \in DOMAIN content' : content'[n].type = "tool" /\ content'[n].id = k
  BY <1>1, <1>6, <1>9 DEF ToolsOwn
<1>10. QED
  BY <1>8, <1>9 DEF ToolsOwn

LEMMA CallsNext ==
  ASSUME ItemsInv, NEW p
  PROVE  /\ \A kind : Opened(kind) /\ (p = "openai" => kind # "tool") /\ p \in {"openai", "openrouter"}
              => CallsSame(items, items', p)
         /\ \A i \in DOMAIN items : Closed(i) => CallsSame(items, items', p)
         /\ \A i \in DOMAIN items : SentOne(i) /\ items[i].kind # "tool" => CallsSame(items, items', p)
<1>1. ASSUME NEW kind, Opened(kind), p = "openai" => kind # "tool", p \in {"openai", "openrouter"}
      PROVE  CallsSame(items, items', p)
  <2>1. /\ DOMAIN items' = DOMAIN items \cup {Len(items) + 1}
        /\ items'[Len(items) + 1].kind = kind /\ items'[Len(items) + 1].sent = 0
        /\ \A k \in DOMAIN items : items'[k] = items[k]
    BY <1>1 DEF Opened
  <2>2. ~(0 > 0)
    OBVIOUS
  <2>3. QED
    BY <1>1, <2>1, <2>2 DEF CallsSame
<1>2. ASSUME NEW i \in DOMAIN items, Closed(i) PROVE CallsSame(items, items', p)
  BY <1>2 DEF Closed, CallsSame
<1>3. ASSUME NEW i \in DOMAIN items, SentOne(i), items[i].kind # "tool"
      PROVE  CallsSame(items, items', p)
  BY <1>3 DEF SentOne, CallsSame
<1>4. QED
  BY <1>1, <1>2, <1>3

LEMMA NextTools ==
  ASSUME Base, StepOf, result' # "rejected", provider \in {"openai", "openrouter"},
         ToolsOwn(content, items, provider)
  PROVE  ToolsOwn(content', items', provider)
<1>0. ItemsInv
  BY DEF Base
<1>t. \A e : Yield(e) => Taken(e)
  BY RefusedOrTaken DEF Yield, Refused
<1>s. Silent => ToolsSame(content, content')
  BY DEF Silent, builderVars, ToolsSame
<1>e. ASSUME NEW e, Yield(e), e.type \in StreamTypes \ {"tool-call", "tool-call-delta"}
      PROVE  ToolsSame(content, content')
  BY <1>e, <1>t, ToolsKeep
<1>y. /\ \A d : TextDelta(d).type = "text-delta" /\ Reasoning(d).type = "reasoning"
      /\ \A i, d : ToolCall(i, d).type = "tool-call" /\ ToolCall(i, d).id = i
      /\ \A i : Source(i).type = "source"
      /\ Error.type = "error"
  BY DEF TextDelta, Reasoning, ToolCall, Source, Error
<1>k. ToolsSame(content, content') /\ CallsSame(items, items', provider) => ToolsOwn(content', items', provider)
  BY ToolsKept
<1>1. CASE Opens
  <2>1. PICK kind \in Kinds :
          /\ OpenItem(kind)
          /\ \/ Silent /\ (provider = "openai" => kind # "tool")
             \/ /\ kind = "tool" /\ provider = "openai"
                /\ \E e : /\ e.type = "tool-call-delta" /\ e.data = <<>>
                          /\ e.id = Len(items) + 1 /\ Yield(e)
    BY <1>1 DEF Opens
  <2>2. Opened(kind)
    BY <1>0, <2>1, OpenItemStep
  <2>3. CASE Silent /\ (provider = "openai" => kind # "tool")
    BY <1>0, <1>s, <1>k, <2>2, <2>3, CallsNext
  <2>4. CASE kind = "tool" /\ provider = "openai"
    <3>1. CASE \E e : /\ e.type = "tool-call-delta" /\ e.data = <<>>
                      /\ e.id = Len(items) + 1 /\ Yield(e)
      <4>1. PICK e :
                e.type = "tool-call-delta" /\ e.data = <<>> /\ e.id = Len(items) + 1 /\ Yield(e)
        BY <3>1
      <4>2. Taken(e)
        BY <1>t, <4>1
      <4>3. QED
        BY <2>2, <2>4, <4>1, <4>2, ToolsStart
    <3>2. QED
      BY <2>1, <2>4, <3>1
  <2>5. QED
    BY <2>1, <2>3, <2>4
<1>2. CASE Sends
  <2>1. PICK i \in DOMAIN items :
          /\ SendFragment(i)
          /\ \/ items[i].kind = "text" /\ Yield(TextDelta(Fragment(i)))
             \/ items[i].kind = "reasoning" /\ Yield(Reasoning(Fragment(i)))
             \/ /\ items[i].kind = "tool"
                /\ \E e : e.type = "tool-call-delta" /\ e.data = Fragment(i) /\ e.id = i /\ Yield(e)
             \/ items[i].kind \in {"command", "thinking"} /\ Silent
    BY <1>2 DEF Sends
  <2>2. SentOne(i)
    BY <1>0, <2>1, SendFragmentStep
  <2>3. CASE items[i].kind = "tool"
    <3>1. PICK e : e.type = "tool-call-delta" /\ e.data = Fragment(i) /\ e.id = i /\ Yield(e)
      BY <2>1, <2>3
    <3>2. Taken(e)
      BY <1>t, <3>1
    <3>3. QED
      BY <2>2, <2>3, <3>1, <3>2, ToolsMore
  <2>4. CASE items[i].kind # "tool"
    <3>1. ToolsSame(content, content')
      BY <1>e, <1>s, <1>y, <2>1, <2>4 DEF StreamTypes
    <3>2. CallsSame(items, items', provider)
      BY <1>0, <2>2, <2>4, CallsNext
    <3>3. QED
      BY <1>k, <3>1, <3>2
  <2>5. QED
    BY <2>3, <2>4
<1>3. CASE Closes
  <2>1. PICK i \in DOMAIN items :
          /\ CloseItem(i)
          /\ Silent \/ (items[i].kind = "tool" /\ provider = "openai" /\ Yield(ToolCall(i, ItemData(i))))
    BY <1>3 DEF Closes
  <2>2. CASE Silent
    BY <1>0, <1>s, <1>k, <2>1, <2>2, CloseItemStep, CallsNext
  <2>3. ~(items[i].kind = "tool" /\ provider = "openai" /\ Yield(ToolCall(i, ItemData(i))))
    <3> SUFFICES ASSUME items[i].kind = "tool", provider = "openai", Yield(ToolCall(i, ItemData(i)))
                 PROVE  FALSE
      OBVIOUS
    <3> DEFINE e == ToolCall(i, ItemData(i))
    <3>1. Yield(e) /\ Taken(e) /\ e.type = "tool-call" /\ e.id = i
      BY <1>t, <1>y
    <3> HIDE DEF e
    <3>2. i \notin DOMAIN toolCallIndices
      BY <3>1, ContentAfter DEF Base, Yield
    <3>3. \E n \in DOMAIN content : content[n].type = "tool" /\ content[n].id = i
      BY DEF ToolsOwn
    <3>4. QED
      BY <3>2, <3>3, OneBlock
  <2>4. QED
    BY <2>1, <2>2, <2>3
<1>4. CASE Says
  <2>1. ToolsSame(content, content')
    BY <1>4, <1>s, <1>e, <1>y
    DEF Says, Reports, Finishes, Cites, SaysNothing, Identifies, StreamTypes
  <2>2. CallsSame(items, items', provider)
    BY <1>4 DEF Says, CallsSame
  <2>3. QED
    BY <1>k, <2>1, <2>2
<1>5. QED
  BY <1>1, <1>2, <1>3, <1>4 DEF StepOf

LEMMA ToolsStay ==
  ASSUME Base, ToolInv, [Next]_vars
  PROVE  ToolInv'
<1>0. UNCHANGED provider
  BY Steps DEF Base
<1>1. CASE UNCHANGED vars
  <2>1. UNCHANGED <<items, content, result>>
    BY <1>1 DEF vars, streamVars, builderVars
  <2>2. QED
    BY <1>0, <2>1 DEF ToolInv
<1>2. CASE provider = "any"
  BY <1>0, <1>2 DEF ToolInv
<1>3. CASE Ends
  <2>1. UNCHANGED <<items, content>> /\ result = "none"
    BY <1>3 DEF Ends, StreamOver, Build, streamVars
  <2>2. QED
    BY <1>0, <2>1 DEF ToolInv
<1>4. CASE provider # "any" /\ StepOf /\ ~UNCHANGED vars
  <2> SUFFICES ASSUME provider \in {"openai", "openrouter"}, result' # "rejected"
               PROVE  ToolsOwn(content', items', provider)
    BY <1>0 DEF ToolInv
  <2>1. result # "rejected"
    BY <1>4, NothingAfterResult
  <2>2. ToolsOwn(content, items, provider)
    BY <2>1 DEF ToolInv
  <2>3. QED
    BY <1>4, <2>2, NextTools
<1>5. QED
  BY <1>1, <1>2, <1>3, <1>4, Steps DEF Base

(* What interleaves on the wire is told apart again, however many tool     *)
(* calls or commands run in parallel and however their deltas interleave:  *)
(* the arguments of every call of OpenAI and of OpenRouter, and the output *)
(* of every command of codex, are its own and are complete                 *)
(* (decode_stream.go:33, openrouter_chat_language_model.go:413,            *)
(* openai-codex/llm.go:583).                                               *)
THEOREM StreamInterleavedIsOwn == Spec => []InterleavedIsOwn
<1>1. Init => ToolInv
  <2> SUFFICES ASSUME Init PROVE ToolInv
    OBVIOUS
  <2>1. DOMAIN items = {} /\ DOMAIN content = {}
    BY DEF Init, StreamInit, NewResponseBuilder
  <2>2. QED
    BY <2>1 DEF ToolInv, ToolsOwn
<1>2. Base /\ ToolInv /\ [Next]_vars => ToolInv'
  BY ToolsStay
<1>3. Base /\ ToolInv => InterleavedIsOwn
  <2> SUFFICES ASSUME Base, ToolInv PROVE ToolArgumentsArrive /\ CommandOutputIsOwn
    BY DEF InterleavedIsOwn
  <2>1. ToolArgumentsArrive
    <3> SUFFICES ASSUME provider \in {"openai", "openrouter"}, result # "rejected",
                        NEW i \in DOMAIN items, items[i].kind = "tool",
                        provider = "openrouter" => items[i].sent > 0
                 PROVE  \E n \in DOMAIN content :
                          content[n].type = "tool" /\ content[n].id = i /\ content[n].data = ItemData(i)
      BY DEF ToolArgumentsArrive
    <3>1. ToolsOwn(content, items, provider)
      BY DEF ToolInv
    <3>2. PICK n \in DOMAIN content : content[n].type = "tool" /\ content[n].id = i
      BY <3>1 DEF ToolsOwn
    <3>3. content[n].data = Data(items, i)
      BY <3>1, <3>2 DEF ToolsOwn
    <3>4. QED
      BY <3>2, <3>3 DEF Data, ItemData
  <2>2. CommandOutputIsOwn
    BY DEF Base, VarsInv, CodexInv, CodexRun, CommandOutputIsOwn, ClosedCommands
  <2>3. QED
    BY <2>1, <2>2
<1>4. QED
  BY <1>1, <1>2, <1>3, BaseHolds, PTL DEF Spec

=============================================================================
