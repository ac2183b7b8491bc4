---------------------------- MODULE ChannelStream ----------------------------
(***************************************************************************)
(* ChannelToStreamIterator of provider/internal/cli/stream.go: the events  *)
(* a process sends into a channel, decoded for a consumer, with a          *)
(* StreamState in which the decoder keeps what the finish event needs.     *)
(***************************************************************************)
EXTENDS Integers, Sequences

CONSTANTS
  Sent,       (* what a producer can send: records [kind, n]               *)
  MaxSent,    (* bound: events in the channel's life                       *)
  Capacity,   (* of the channel                                            *)
  OnFinishes  (* whether an onFinish function is given: set of BOOLEAN     *)

ASSUME SentAssumption ==
  \A e \in Sent : e.kind \in {"usage", "reason", "text", "bad", "finish"}

VARIABLES
  log,       (* all that was sent so far                                   *)
  taken,     (* how much of it was received                                *)
  closed,    (* the producer closed the channel                            *)
  ended,     (* the context has ended                                      *)
  onFinish,  (* onFinish # nil                                             *)
  usage,     (* StreamState: the tokens                                    *)
  reason,    (* StreamState: FinishReason                                  *)
  yielded,   (* what the consumer was given                                *)
  over       (* "no", or how the iteration ended                           *)

channelVars == <<log, taken, closed, ended, onFinish, usage, reason, yielded, over>>

ChannelInit ==
  /\ log = <<>> /\ taken = 0 /\ closed = FALSE /\ ended = FALSE
  /\ onFinish \in OnFinishes
  /\ usage = 0 /\ reason = 0 /\ yielded = <<>> /\ over = "no"

Send ==
  /\ ~closed /\ Len(log) < MaxSent /\ Len(log) - taken < Capacity
  /\ \E e \in Sent : log' = Append(log, e)
  /\ UNCHANGED <<taken, closed, ended, onFinish, usage, reason, yielded, over>>

CloseChannel ==
  /\ ~closed /\ closed' = TRUE
  /\ UNCHANGED <<log, taken, ended, onFinish, usage, reason, yielded, over>>

EndContext ==
  /\ ~ended /\ over = "no" /\ ended' = TRUE
  /\ UNCHANGED <<log, taken, closed, onFinish, usage, reason, yielded, over>>

Event(k, n) == [kind |-> k, n |-> n]

(* yield: the consumer may say that it wants no more.                      *)
Yield(e, then) ==
  /\ yielded' = Append(yielded, e)
  /\ over' \in {then, IF then = "no" THEN "stopped" ELSE then}

(* The select takes either case when both are ready.                       *)
Done ==
  /\ over = "no" /\ ended
  /\ Yield(Event("ctx", 0), "ctx")
  /\ UNCHANGED <<log, taken, closed, ended, onFinish, usage, reason>>

(* SetUsage and SetFinishReason, as a decoder calls them.                  *)
Note(e) ==
  /\ usage' = IF e.kind = "usage" THEN e.n ELSE usage
  /\ reason' = IF e.kind = "reason" THEN e.n ELSE reason

(* An event: the decoder fails on it, makes nothing of it but a change of  *)
(* the state, or makes an event, which may be the last one.                *)
Receive ==
  /\ over = "no" /\ taken < Len(log)
  /\ taken' = taken + 1
  /\ LET e == log[taken + 1] IN
     /\ Note(e)
     /\ CASE e.kind \in {"usage", "reason"} -> UNCHANGED <<yielded, over>>
          [] e.kind \in {"text", "bad"} -> Yield(e, "no")
          [] e.kind = "finish" -> Yield(e, "finish")
  /\ UNCHANGED <<log, closed, ended, onFinish>>

(* CreateFinishEvent                                                       *)
FinishEvent == [kind |-> "finish", n |-> 0, usage |-> usage, reason |-> reason]

(* A slip: the finish event is made as soon as the channel is closed.      *)
Drained_Early ==
  /\ over = "no" /\ closed
  /\ IF onFinish THEN Yield(FinishEvent, "closed")
     ELSE over' = "closed" /\ UNCHANGED yielded
  /\ UNCHANGED <<log, taken, closed, ended, onFinish, usage, reason>>

(* The channel is closed and empty.                                        *)
Drained ==
  /\ over = "no" /\ closed /\ taken = Len(log)
  /\ IF onFinish THEN Yield(FinishEvent, "closed")
     ELSE over' = "closed" /\ UNCHANGED yielded
  /\ UNCHANGED <<log, taken, closed, ended, onFinish, usage, reason>>

ChannelNext == Send \/ CloseChannel \/ EndContext \/ Done \/ Receive \/ Drained

-----------------------------------------------------------------------------
(* The last value of a kind that was sent, or 0.                           *)
LastOf(k) ==
  LET at == {i \in DOMAIN log : log[i].kind = k} IN
  IF at = {} THEN 0 ELSE log[CHOOSE i \in at : \A j \in at : j <= i].n

(* The events s are those among the first n of log l that a consumer is to *)
(* be given, each once and in order.                                       *)
ForConsumer(e) == e.kind \in {"text", "bad", "finish"}

Gives(l, s, n) ==
  \E from \in [DOMAIN s -> 1..n] :
    /\ \A i, j \in DOMAIN s : i < j => from[i] < from[j]
    /\ \A i \in DOMAIN s : s[i] = l[from[i]] /\ ForConsumer(s[i])
    /\ \A k \in 1..n : ForConsumer(l[k]) => \E i \in DOMAIN s : from[i] = k

(* What the consumer was given is what was sent for it, in order and once, *)
(* up to where the iteration is or ended; when it ended because the        *)
(* channel did, that is everything, and the finish event says what the     *)
(* last usage and reason said.                                             *)
Given == IF over = "ctx" \/ (over = "closed" /\ onFinish)
         THEN SubSeq(yielded, 1, Len(yielded) - 1) ELSE yielded

StreamIsFaithful ==
  /\ Gives(log, Given, taken)
  /\ over = "closed" =>
       /\ taken = Len(log)
       /\ onFinish =>
            /\ yielded[Len(yielded)].usage = LastOf("usage")
            /\ yielded[Len(yielded)].reason = LastOf("reason")
=============================================================================
