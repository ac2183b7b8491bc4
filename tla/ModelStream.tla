----------------------------- MODULE ModelStream -----------------------------
(***************************************************************************)
(* What the stream decoders of all providers share: a model that writes    *)
(* items (text, reasoning, tool calls, ...) one fragment at a time, and a  *)
(* decoder that turns each event of the provider into at most one event of *)
(* the SDK, which the builder consumes before the next one is read: the    *)
(* streams are iter.Seq iterators, so a decoder step and the builder step  *)
(* it yields to are one action.                                            *)
(*                                                                         *)
(* The model is outside this repository: it sends what the decoders are    *)
(* written for.  Items of the kinds in Parallel may be open together; any  *)
(* other item is complete before the next one starts.                      *)
(***************************************************************************)
EXTENDS ResponseBuilder

CONSTANTS
  Providers,     (* the providers of this instance                         *)
  MaxItems,      (* bound: items of a response                             *)
  MaxFragments   (* bound: fragments of an item                            *)

ASSUME StreamBounds == MaxItems \in Nat \ {0} /\ MaxFragments \in Nat \ {0}

VARIABLES
  provider,  (* who writes the stream                                      *)
  items,     (* what the model has sent: kind, fragments, open or done     *)
  phase,     (* of the decoder's iterator: reading, finishing, over        *)
  errors     (* history: the kinds of errors the stream has met            *)

streamVars == <<provider, items, phase, errors>>

(* event: an error that the provider reports as one; failed: the           *)
(* response.failed of OpenAI; chunk, status: an error of OpenRouter inside *)
(* the stream or instead of it; broken: what is cut, unreadable or about   *)
(* nothing; budget: a turn the cost monitor refuses.                       *)
ErrorKinds == {"event", "failed", "chunk", "status", "broken", "budget"}

Kinds == {"text", "reasoning", "thinking", "tool", "hosted", "command"}
Parallel == {"tool", "command"}

StreamTypeOK ==
  /\ provider \in Providers
  /\ Len(items) <= MaxItems
  /\ \A i \in DOMAIN items :
       items[i] \in [kind: Kinds, sent: 0..MaxFragments, open: BOOLEAN]
  /\ phase \in {"reading", "finishing", "over"}
  /\ errors \subseteq ErrorKinds

StreamInit ==
  /\ provider \in Providers
  /\ items = <<>>
  /\ phase = "reading"
  /\ errors = {}

Running(p) == provider = p /\ result = "none"
Reading(p) == Running(p) /\ phase = "reading"

-----------------------------------------------------------------------------
(* What the model does. *)

OpenItem(kind) ==
  /\ Len(items) < MaxItems
  /\ \A i \in DOMAIN items : items[i].open => {kind, items[i].kind} \subseteq Parallel
  /\ items' = Append(items, [kind |-> kind, sent |-> 0, open |-> TRUE])
  /\ UNCHANGED <<provider, phase, errors>>

SendFragment(i) ==
  /\ items[i].open /\ items[i].sent < MaxFragments
  /\ items' = [items EXCEPT ![i].sent = @ + 1]
  /\ UNCHANGED <<provider, phase, errors>>

CloseItem(i) ==
  /\ items[i].open
  /\ items' = [items EXCEPT ![i].open = FALSE]
  /\ UNCHANGED <<provider, phase, errors>>

AllClosed == \A i \in DOMAIN items : ~items[i].open

Fragment(i) == << <<i, items[i].sent + 1>> >>    (* the one being sent      *)
ItemData(i) == [k \in 1..items[i].sent |-> <<i, k>>]

(* The iterator goes on or ends; it may have met an error. *)
Continue == UNCHANGED streamVars
Move(to, met) == phase' = to /\ errors' = errors \cup met /\ UNCHANGED <<provider, items>>

(* The decoder yields nothing for this event. *)
Silent == UNCHANGED builderVars

-----------------------------------------------------------------------------
(* The events of the SDK. *)

TextDelta(data) == [type |-> "text-delta", data |-> data]
Reasoning(data) == [type |-> "reasoning", data |-> data]
ToolCall(id, data) == [type |-> "tool-call", id |-> id, data |-> data]
ToolCallDelta(id, data) == [type |-> "tool-call-delta", id |-> id, data |-> data]
Source(id) == [type |-> "source", id |-> id]
Metadata(id) == [type |-> "response-metadata", id |-> id]
Finish(reason, tokens) == [type |-> "finish", reason |-> reason, usage |-> tokens]
Error == [type |-> "error"]

-----------------------------------------------------------------------------
(* What the model sent and what the builder has of it: fragments <<i, k>>, *)
(* and places <<n, k>> in the blocks of a type, both in the same order.    *)

Before(a, b) == a[1] < b[1] \/ (a[1] = b[1] /\ a[2] < b[2])

Sent(kind) ==
  UNION {{<<i, k>> : k \in 1..items[i].sent} : i \in {j \in DOMAIN items : items[j].kind = kind}}

Places(type) ==
  UNION {{<<n, k>> : k \in DOMAIN content[n].data} :
           n \in {m \in DOMAIN content : content[m].type = type}}

At(p) == content[p[1]].data[p[2]]

(* All that was sent of a kind is in the blocks of that type, in order and *)
(* once, and nothing else is.                                              *)
Arrives(kind) ==
  /\ {At(p) : p \in Places(kind)} = Sent(kind)
  /\ \A p, q \in Places(kind) : Before(p, q) => Before(At(p), At(q))

StreamOver == phase = "over" /\ Build /\ UNCHANGED streamVars
=============================================================================
