---------------------------- MODULE JsonRpcClient ----------------------------
(***************************************************************************)
(* provider/openai-codex/codec/jsonrpc/client.go: a JSON-RPC 2.0 client    *)
(* over the pipes of a child process.  Goroutines (Callers) run Call, one  *)
(* goroutine runs readPump, another one reads the notification channel,    *)
(* and somebody may Close the client at any time.  The child (app-server)  *)
(* is external: it reads requests, answers them in any order, late or      *)
(* twice, sends notifications, writes lines the client cannot use, and may *)
(* die.                                                                    *)
(*                                                                         *)
(* A response channel is named by the request id it was made for: buffer[i]*)
(* is the response in it, chClosed the set of closed ones.  c.mu is the    *)
(* holder of the mutex while a caller is inside encoder.Encode, the only   *)
(* critical section that can block; every other one is a single action     *)
(* that needs the mutex to be free.                                        *)
(***************************************************************************)
EXTENDS Integers, Sequences, FiniteSets

CONSTANTS
  Callers,      (* goroutines that use Call                                *)
  Nobody,       (* the holder of a free mutex                              *)
  NotifCap,     (* capacity of the notification channel (100 in the code)  *)
  StdinCap,     (* requests the stdin pipe holds before a write blocks     *)
  StdoutCap,    (* lines the stdout pipe holds before the child blocks     *)
  MaxCalls,     (* bound: Calls that get an id                             *)
  MaxNotifs,    (* bound: notifications the child writes                   *)
  Faults        (* which of AllFaults may happen in this instance          *)

(* close: Close is called; cancel: a caller's ctx ends; death: the child   *)
(* dies; unreadable: a line over the scanner's limit; duplicate: a request *)
(* is answered twice; ignored: an empty, garbled or unknown line;          *)
(* unencodable: a caller passes params that do not marshal.                *)
AllFaults ==
  {"close", "cancel", "death", "unreadable", "duplicate", "ignored", "unencodable"}

ASSUME CallersAssumption == Callers # {} /\ Nobody \notin Callers
ASSUME BoundsAssumption ==
  /\ NotifCap \in Nat \ {0} /\ StdinCap \in Nat \ {0} /\ StdoutCap \in Nat \ {0}
  /\ MaxCalls \in Nat /\ MaxNotifs \in Nat
ASSUME FaultsAssumption == Faults \subseteq AllFaults

VARIABLES
  closed,       (* c.closed, and c.done, which Close closes with it        *)
  nextID,       (* c.nextID                                                *)
  pending,      (* the keys of c.pending                                   *)
  buffer,       (* the response in each response channel                   *)
  chClosed,     (* the response channels that were closed                  *)
  mu,           (* the caller that holds c.mu inside Encode                *)
  notifs,       (* the buffered notifications, oldest first                *)
  notifsClosed, (* close(c.notifications) was executed                     *)
  readErr,      (* c.readErr # nil                                         *)
  released,     (* history: c.nextID when readPump released c.pending, -1  *)
                (* before                                                  *)
  pump,         (* where readPump is                                       *)
  line,         (* the line readPump holds                                 *)
  pc,           (* where each caller is                                    *)
  callID,       (* the id of its current or last call, 0 before the first  *)
  ctxDone,      (* the ctx of its current call has ended                   *)
  outcome,      (* what its last call returned                             *)
  lastSeen,     (* number of the last notification a reader received       *)
  stdin,        (* requests written that the child has not read            *)
  stdinOpen,    (* a write to stdin can still succeed                      *)
  stdout,       (* lines the child wrote that the pump has not scanned     *)
  alive,        (* the child runs                                          *)
  asked,        (* ids the child has read                                  *)
  answers,      (* how many response lines the child wrote for each id     *)
  sent          (* how many notifications the child has written            *)

clientVars == <<closed, nextID, pending, buffer, chClosed, mu>>
pumpVars   == <<notifs, notifsClosed, readErr, released, pump, line>>
callVars   == <<pc, callID, ctxDone, outcome>>
childVars  == <<stdin, stdinOpen, stdout, alive, asked, answers, sent>>
vars == <<clientVars, pumpVars, callVars, lastSeen, childVars>>

IDs == 1..MaxCalls

(* A line of stdout.  A response carries the id it answers and, to let the *)
(* properties speak about order, how many notifications were written       *)
(* before it; a notification is known by its number.  A result and an      *)
(* error response are treated alike up to the value Call returns.          *)
Response     == [kind : {"response"}, id : IDs, after : 0..MaxNotifs]
Notification == [kind : {"notification"}, number : 1..MaxNotifs]
Unusable     == [kind : {"ignored", "unreadable"}]
Line         == Response \cup Notification \cup Unusable
NoLine       == [kind |-> "none"]

(* What Call returns. *)
Outcome == Response \cup
           [kind : {"none", "closedClient", "sendFailed", "cancelled", "connectionClosed"}]

CallPC == {"idle", "encode", "writing", "failed", "wait", "cancelling", "lost"}
PumpPC == {"scan", "dispatch", "lookup", "deliver", "failed", "release", "end", "stopped"}

-----------------------------------------------------------------------------
(* Message.IsResponse and Message.IsNotification, on the kinds of lines. *)
IsResponse(l)     == l.kind = "response"
IsNotification(l) == l.kind = "notification"

(* NewClient, with the child just started. *)
Init ==
  /\ closed = FALSE /\ nextID = 0 /\ pending = {} /\ mu = Nobody
  /\ buffer = [i \in IDs |-> NoLine] /\ chClosed = {}
  /\ notifs = <<>> /\ notifsClosed = FALSE /\ readErr = FALSE /\ released = -1
  /\ pump = "scan" /\ line = NoLine
  /\ pc = [c \in Callers |-> "idle"]
  /\ callID = [c \in Callers |-> 0]
  /\ ctxDone = [c \in Callers |-> FALSE]
  /\ outcome = [c \in Callers |-> [kind |-> "none"]]
  /\ lastSeen = 0
  /\ stdin = <<>> /\ stdinOpen = TRUE /\ stdout = <<>> /\ alive = TRUE
  /\ asked = {} /\ answers = [i \in IDs |-> 0] /\ sent = 0

-----------------------------------------------------------------------------
(* Call: every step of one caller. *)

Return(c, r) ==
  /\ pc' = [pc EXCEPT ![c] = "idle"]
  /\ outcome' = [outcome EXCEPT ![c] = r]
  /\ ctxDone' = [ctxDone EXCEPT ![c] = FALSE]

(* Call on a closed client. *)
Refused(c) ==
  /\ pc[c] = "idle" /\ mu = Nobody /\ closed
  /\ Return(c, [kind |-> "closedClient"])
  /\ UNCHANGED <<clientVars, pumpVars, callID, lastSeen, childVars>>

(* The first critical section: take an id and file a response channel. *)
Register(c) ==
  /\ pc[c] = "idle" /\ mu = Nobody /\ ~closed /\ nextID < MaxCalls
  /\ nextID' = nextID + 1
  /\ pending' = pending \cup {nextID'}
  /\ callID' = [callID EXCEPT ![c] = nextID']
  /\ pc' = [pc EXCEPT ![c] = "encode"]
  /\ UNCHANGED <<closed, buffer, chClosed, mu, pumpVars, ctxDone, outcome, lastSeen, childVars>>

(* The second one: Encode writes to the pipe with the mutex held. *)
LockEncode(c) ==
  /\ pc[c] = "encode" /\ mu = Nobody
  /\ mu' = c
  /\ pc' = [pc EXCEPT ![c] = "writing"]
  /\ UNCHANGED <<closed, nextID, pending, buffer, chClosed, pumpVars,
                 callID, ctxDone, outcome, lastSeen, childVars>>

Written(c) ==
  /\ pc[c] = "writing" /\ stdinOpen /\ Len(stdin) < StdinCap
  /\ stdin' = Append(stdin, callID[c])
  /\ mu' = Nobody
  /\ pc' = [pc EXCEPT ![c] = "wait"]
  /\ UNCHANGED <<closed, nextID, pending, buffer, chClosed, pumpVars, callID, ctxDone, outcome,
                 lastSeen, stdinOpen, stdout, alive, asked, answers, sent>>

(* Encode fails because the pipe is closed, ... *)
WriteFailed(c) ==
  /\ pc[c] = "writing" /\ ~stdinOpen
  /\ mu' = Nobody
  /\ pc' = [pc EXCEPT ![c] = "failed"]
  /\ UNCHANGED <<closed, nextID, pending, buffer, chClosed, pumpVars,
                 callID, ctxDone, outcome, lastSeen, childVars>>

(* ... or because params do not marshal: then it writes nothing. *)
MarshalFailed(c) ==
  /\ "unencodable" \in Faults
  /\ pc[c] = "writing"
  /\ mu' = Nobody
  /\ pc' = [pc EXCEPT ![c] = "failed"]
  /\ UNCHANGED <<closed, nextID, pending, buffer, chClosed, pumpVars,
                 callID, ctxDone, outcome, lastSeen, childVars>>

(* A slip: the entry is left behind. *)
Forget_Kept(i) == UNCHANGED pending

(* delete(c.pending, id) under the mutex, on both paths that give up. *)
Forget(i) == pending' = pending \ {i}

GiveUpSend(c) ==
  /\ pc[c] = "failed" /\ mu = Nobody
  /\ Forget(callID[c])
  /\ Return(c, [kind |-> "sendFailed"])
  /\ UNCHANGED <<closed, nextID, buffer, chClosed, mu, pumpVars, callID, lastSeen, childVars>>

(* A slip: a plain receive instead of the select. *)
SelectDone_Missing(c) == FALSE /\ UNCHANGED vars

(* The select: the runtime picks either ready branch. *)
SelectDone(c) ==
  /\ pc[c] = "wait" /\ ctxDone[c]
  /\ pc' = [pc EXCEPT ![c] = "cancelling"]
  /\ UNCHANGED <<clientVars, pumpVars, callID, ctxDone, outcome, lastSeen, childVars>>

ForgetCancelled(c) ==
  /\ pc[c] = "cancelling" /\ mu = Nobody
  /\ Forget(callID[c])
  /\ Return(c, [kind |-> "cancelled"])
  /\ UNCHANGED <<closed, nextID, buffer, chClosed, mu, pumpVars, callID, lastSeen, childVars>>

SelectResponse(c) ==
  /\ pc[c] = "wait" /\ buffer[callID[c]] # NoLine
  /\ buffer' = [buffer EXCEPT ![callID[c]] = NoLine]
  /\ Return(c, buffer[callID[c]])
  /\ UNCHANGED <<closed, nextID, pending, chClosed, mu, pumpVars, callID, lastSeen, childVars>>

(* A slip: whether the channel was closed is told by the map.              *)
SelectClosed_ByMap(c) ==
  /\ pc[c] = "wait" /\ callID[c] \notin pending
  /\ pc' = [pc EXCEPT ![c] = "lost"]
  /\ UNCHANGED <<clientVars, pumpVars, callID, ctxDone, outcome, lastSeen, childVars>>

SelectClosed(c) ==
  /\ pc[c] = "wait" /\ buffer[callID[c]] = NoLine /\ callID[c] \in chClosed
  /\ pc' = [pc EXCEPT ![c] = "lost"]
  /\ UNCHANGED <<clientVars, pumpVars, callID, ctxDone, outcome, lastSeen, childVars>>

(* Reads c.readErr for the text of the error: "connection closed" each way.*)
ReportLost(c) ==
  /\ pc[c] = "lost" /\ mu = Nobody
  /\ Return(c, [kind |-> "connectionClosed"])
  /\ UNCHANGED <<clientVars, pumpVars, callID, lastSeen, childVars>>

(* The context of a call ends while the call runs. *)
Cancel(c) ==
  /\ "cancel" \in Faults
  /\ pc[c] \notin {"idle", "cancelling"} /\ ~ctxDone[c]
  /\ ctxDone' = [ctxDone EXCEPT ![c] = TRUE]
  /\ UNCHANGED <<clientVars, pumpVars, pc, callID, outcome, lastSeen, childVars>>

Call(c) == \/ Refused(c) \/ Register(c) \/ LockEncode(c) \/ Written(c) \/ WriteFailed(c)
           \/ GiveUpSend(c) \/ SelectDone(c) \/ ForgetCancelled(c) \/ SelectResponse(c)
           \/ SelectClosed(c) \/ ReportLost(c)

(* A call, once begun, is always carried on: what the caller cannot refuse *)
(* (Cancel and MarshalFailed are the environment's: they may never come).  *)
CallStep(c) == Call(c) /\ pc[c] # "idle"

-----------------------------------------------------------------------------
(* readPump. *)

(* A slip: responses are picked from the pipe ahead of notifications. *)
ScanLine_ResponsesFirst ==
  /\ pump = "scan"
  /\ \E k \in DOMAIN stdout :
       /\ IsResponse(stdout[k]) \/ k = 1
       /\ line' = stdout[k]
       /\ stdout' = [j \in 1..Len(stdout) - 1 |-> IF j < k THEN stdout[j] ELSE stdout[j + 1]]
       /\ pump' = IF stdout[k].kind = "unreadable" THEN "failed" ELSE "dispatch"
  /\ UNCHANGED <<clientVars, notifs, notifsClosed, readErr, released, callVars, lastSeen,
                 stdin, stdinOpen, alive, asked, answers, sent>>

(* scanner.Scan() on a line; a line over 10MB makes it return false. *)
ScanLine ==
  /\ pump = "scan" /\ stdout # <<>>
  /\ line' = Head(stdout)
  /\ stdout' = Tail(stdout)
  /\ pump' = IF line'.kind = "unreadable" THEN "failed" ELSE "dispatch"
  /\ UNCHANGED <<clientVars, notifs, notifsClosed, readErr, released, callVars, lastSeen,
                 stdin, stdinOpen, alive, asked, answers, sent>>

(* The end of the stream: EOF, or an error when the reaper's Wait closed   *)
(* the pipe first.                                                         *)
ScanEnd ==
  /\ pump = "scan" /\ stdout = <<>> /\ ~alive
  /\ pump' \in {"failed", "release"}
  /\ UNCHANGED <<clientVars, notifs, notifsClosed, readErr, released, line, callVars, lastSeen, childVars>>

(* <-c.done is ready: the pump returns from inside its loop. *)
PumpDone ==
  /\ pump = "dispatch" /\ closed
  /\ pump' = "stopped" /\ line' = NoLine
  /\ UNCHANGED <<clientVars, notifs, notifsClosed, readErr, released, callVars, lastSeen, childVars>>

SkipLine ==
  /\ pump = "dispatch" /\ ~closed /\ line.kind = "ignored"
  /\ pump' = "scan" /\ line' = NoLine
  /\ UNCHANGED <<clientVars, notifs, notifsClosed, readErr, released, callVars, lastSeen, childVars>>

(* A slip: a send without room. *)
HandleNotification_Unbounded ==
  /\ pump = "dispatch" /\ ~closed /\ IsNotification(line)
  /\ notifs' = Append(notifs, line.number)
  /\ pump' = "scan" /\ line' = NoLine
  /\ UNCHANGED <<clientVars, notifsClosed, readErr, released, callVars, lastSeen, childVars>>

(* handleNotification: a non-blocking send, the notification is dropped    *)
(* when the channel is full.                                               *)
HandleNotification ==
  /\ pump = "dispatch" /\ ~closed /\ IsNotification(line)
  /\ notifs' = IF Len(notifs) < NotifCap THEN Append(notifs, line.number) ELSE notifs
  /\ pump' = "scan" /\ line' = NoLine
  /\ UNCHANGED <<clientVars, notifsClosed, readErr, released, callVars, lastSeen, childVars>>

EnterHandleResponse ==
  /\ pump = "dispatch" /\ ~closed /\ IsResponse(line)
  /\ pump' = "lookup"
  /\ UNCHANGED <<clientVars, notifs, notifsClosed, readErr, released, line, callVars, lastSeen, childVars>>

(* A slip: the entry outlives its response. *)
Lookup_NotDeleted ==
  /\ pump = "lookup" /\ mu = Nobody
  /\ IF line.id \in pending
       THEN pump' = "deliver" /\ UNCHANGED <<line, pending>>
       ELSE pump' = "scan" /\ line' = NoLine /\ UNCHANGED pending
  /\ UNCHANGED <<closed, nextID, buffer, chClosed, mu, notifs, notifsClosed, readErr, released,
                 callVars, lastSeen, childVars>>

(* handleResponse under the mutex: take the channel out of c.pending; an   *)
(* id that is not there (late, duplicate) is ignored.                      *)
Lookup ==
  /\ pump = "lookup" /\ mu = Nobody
  /\ pending' = pending \ {line.id}
  /\ IF line.id \in pending
       THEN pump' = "deliver" /\ UNCHANGED line
       ELSE pump' = "scan" /\ line' = NoLine
  /\ UNCHANGED <<closed, nextID, buffer, chClosed, mu, notifs, notifsClosed, readErr, released,
                 callVars, lastSeen, childVars>>

(* A slip: responses are matched to calls in the order of the requests. *)
Deliver_ToOldest ==
  /\ pump = "deliver"
  /\ \E i \in pending \cup {line.id} :
       /\ \A j \in pending \cup {line.id} : i <= j
       /\ buffer' = [buffer EXCEPT ![i] = line]
       /\ chClosed' = chClosed \cup {i}
  /\ pump' = "scan" /\ line' = NoLine
  /\ UNCHANGED <<closed, nextID, pending, mu, notifs, notifsClosed, readErr, released,
                 callVars, lastSeen, childVars>>

(* ch <- resp; close(ch), without the mutex.  The receiver takes one value *)
(* and never looks at the channel again, so the close is not a step of its *)
(* own.                                                                    *)
Deliver ==
  /\ pump = "deliver"
  /\ buffer' = [buffer EXCEPT ![line.id] = line]
  /\ chClosed' = chClosed \cup {line.id}
  /\ pump' = "scan" /\ line' = NoLine
  /\ UNCHANGED <<closed, nextID, pending, mu, notifs, notifsClosed, readErr, released,
                 callVars, lastSeen, childVars>>

(* After the loop: store the scanner's error, ... *)
StoreReadErr ==
  /\ pump = "failed" /\ mu = Nobody
  /\ readErr' = TRUE
  /\ pump' = "release" /\ line' = NoLine
  /\ UNCHANGED <<clientVars, notifs, notifsClosed, released, callVars, lastSeen, childVars>>

(* A slip: the map is emptied without closing the channels. *)
ReleasePending_Cleared ==
  /\ pump = "release" /\ mu = Nobody
  /\ pending' = {} /\ released' = nextID
  /\ pump' = "end"
  /\ UNCHANGED <<closed, nextID, buffer, chClosed, mu, notifs, notifsClosed, readErr, line,
                 callVars, lastSeen, childVars>>

(* ... close and forget every pending channel, ... *)
ReleasePending ==
  /\ pump = "release" /\ mu = Nobody
  /\ chClosed' = chClosed \cup pending
  /\ pending' = {} /\ released' = nextID
  /\ pump' = "end"
  /\ UNCHANGED <<closed, nextID, buffer, mu, notifs, notifsClosed, readErr, line,
                 callVars, lastSeen, childVars>>

(* ... and close the notification channel. *)
CloseNotifications ==
  /\ pump = "end"
  /\ notifsClosed' = TRUE
  /\ pump' = "stopped"
  /\ UNCHANGED <<clientVars, notifs, readErr, released, line, callVars, lastSeen, childVars>>

Pump == \/ ScanLine \/ ScanEnd \/ PumpDone \/ SkipLine \/ HandleNotification
        \/ EnterHandleResponse \/ Lookup \/ Deliver
        \/ StoreReadErr \/ ReleasePending \/ CloseNotifications

-----------------------------------------------------------------------------
(* The other goroutines, and the child. *)

(* A receive from Notifications() (the loops of Generate and Stream). *)
Receive ==
  /\ notifs # <<>>
  /\ lastSeen' = Head(notifs)
  /\ notifs' = Tail(notifs)
  /\ UNCHANGED <<clientVars, notifsClosed, readErr, released, pump, line, callVars, childVars>>

(* Close; a second Close changes nothing. *)
Close ==
  /\ "close" \in Faults
  /\ mu = Nobody /\ ~closed
  /\ closed' = TRUE
  /\ UNCHANGED <<nextID, pending, buffer, chClosed, mu, pumpVars, callVars, lastSeen, childVars>>

(* AppServerProcess.Stop closes stdin right after the client. *)
StopClosesStdin ==
  /\ closed /\ stdinOpen
  /\ stdinOpen' = FALSE
  /\ UNCHANGED <<clientVars, pumpVars, callVars, lastSeen,
                 stdin, stdout, alive, asked, answers, sent>>

ReadRequest ==
  /\ alive /\ stdin # <<>>
  /\ asked' = asked \cup {Head(stdin)}
  /\ stdin' = Tail(stdin)
  /\ UNCHANGED <<clientVars, pumpVars, callVars, lastSeen,
                 stdinOpen, stdout, alive, answers, sent>>

Write(l) == alive /\ Len(stdout) < StdoutCap /\ stdout' = Append(stdout, l)

AnswerLimit == IF "duplicate" \in Faults THEN 2 ELSE 1

Answer(i) ==
  /\ i \in asked /\ answers[i] < AnswerLimit
  /\ Write([kind |-> "response", id |-> i, after |-> sent])
  /\ answers' = [answers EXCEPT ![i] = @ + 1]
  /\ UNCHANGED <<clientVars, pumpVars, callVars, lastSeen, stdin, stdinOpen, alive, asked, sent>>

Notify ==
  /\ sent < MaxNotifs
  /\ sent' = sent + 1
  /\ Write([kind |-> "notification", number |-> sent'])
  /\ UNCHANGED <<clientVars, pumpVars, callVars, lastSeen,
                 stdin, stdinOpen, alive, asked, answers>>

(* At most one such line is in the pipe at a time, and one to ignore, which *)
(* leaves nothing behind, comes before any notification (bounds).          *)
WriteUnusable ==
  /\ \E k \in {"ignored", "unreadable"} \cap Faults :
       Write([kind |-> k]) /\ (k = "ignored" => sent = 0)
  /\ \A j \in DOMAIN stdout : stdout[j] \notin Unusable
  /\ UNCHANGED <<clientVars, pumpVars, callVars, lastSeen,
                 stdin, stdinOpen, alive, asked, answers, sent>>

(* The child dies: writes to its stdin fail from now on.  What it had      *)
(* written can still be scanned, up to where Wait closes the pipe.         *)
Die ==
  /\ "death" \in Faults
  /\ alive
  /\ alive' = FALSE /\ stdinOpen' = FALSE
  /\ \E k \in 0..Len(stdout) : stdout' = SubSeq(stdout, 1, k)
  /\ UNCHANGED <<clientVars, pumpVars, callVars, lastSeen, stdin, asked, answers, sent>>

Child == ReadRequest \/ (\E i \in IDs : Answer(i)) \/ Notify \/ WriteUnusable \/ Die

Next == \/ \E c \in Callers : Call(c) \/ Cancel(c) \/ MarshalFailed(c)
        \/ Pump
        \/ Receive \/ Close \/ StopClosesStdin
        \/ Child

Spec == Init /\ [][Next]_vars

(* Go runs every goroutine that can run.  Of the child it is assumed that  *)
(* it keeps reading its stdin and answers what it has read, while it lives.*)
(* (Each id has one first answer: to go on answering while it can be done  *)
(* again and again is to answer them all.)                                 *)
Fairness ==
  /\ \A c \in Callers : WF_vars(CallStep(c))
  /\ WF_vars(Pump)
  /\ WF_vars(ReadRequest)
  /\ SF_vars(\E i \in IDs : answers[i] = 0 /\ Answer(i))

FairSpec == Spec /\ Fairness

-----------------------------------------------------------------------------
(* Properties. *)

(* Every variable keeps its type, the notification channel and the pipes   *)
(* stay within their capacity, a caller in a call has an id and the pump   *)
(* that dispatches holds a line of the right kind.                         *)
TypeOK ==
  /\ closed \in BOOLEAN /\ nextID \in 0..MaxCalls
  /\ pending \subseteq IDs /\ chClosed \subseteq IDs
  /\ buffer \in [IDs -> Response \cup {NoLine}]
  /\ mu \in Callers \cup {Nobody}
  /\ notifs \in Seq(1..MaxNotifs) /\ Len(notifs) <= NotifCap
  /\ notifsClosed \in BOOLEAN /\ readErr \in BOOLEAN /\ released \in -1..MaxCalls
  /\ pump \in PumpPC /\ line \in Line \cup {NoLine}
  /\ pc \in [Callers -> CallPC]
  /\ callID \in [Callers -> 0..MaxCalls]
  /\ ctxDone \in [Callers -> BOOLEAN]
  /\ outcome \in [Callers -> Outcome]
  /\ lastSeen \in 0..MaxNotifs
  /\ stdin \in Seq(IDs) /\ Len(stdin) <= StdinCap /\ stdinOpen \in BOOLEAN
  /\ stdout \in Seq(Line) /\ Len(stdout) <= StdoutCap
  /\ alive \in BOOLEAN /\ asked \subseteq IDs
  /\ answers \in [IDs -> 0..2] /\ sent \in 0..MaxNotifs
  /\ \A c \in Callers : pc[c] # "idle" => callID[c] \in IDs
  /\ pump = "dispatch" => line \in Line
  /\ pump \in {"lookup", "deliver"} => line \in Response

(* The callers between the first critical section and their return. *)
InCall == {c \in Callers : pc[c] # "idle"}

(* What would panic in Go cannot happen: when readPump is about to send on *)
(* a response channel it is open and empty, every channel it is about to   *)
(* close with the pending ones is open, and the notification channel is    *)
(* closed once.  A duplicate answer or an answer that races the end of the *)
(* stream would break it.                                                  *)
NoChannelPanic ==
  /\ pump = "deliver" => line.id \notin chClosed /\ buffer[line.id] = NoLine
  /\ pending \cap chClosed = {}
  /\ notifsClosed => pump = "stopped"

(* c.pending holds nothing but calls in progress, one entry for one        *)
(* caller: a response that is late, or that nobody will ever send, leaves  *)
(* no entry behind.                                                        *)
NoStalePending ==
  /\ \A i \in pending : \E c \in InCall : callID[c] = i
  /\ \A c, d \in InCall : callID[c] = callID[d] => c = d

(* A caller that got a response got the one the child wrote for its own    *)
(* request, after reading that request.                                    *)
OwnAnswer ==
  \A c \in Callers :
    IsResponse(outcome[c]) /\ pc[c] = "idle" =>
      /\ outcome[c].id = callID[c]
      /\ callID[c] \in asked /\ answers[callID[c]] > 0

(* The two ways in which a call is left in c.pending for ever: it was      *)
(* registered after readPump had released the pending ones, or it was in   *)
(* progress when readPump returned through c.done, which releases nothing. *)
PumpOver == pump \in {"end", "stopped"}

Stranded(i) ==
  /\ i \in pending /\ PumpOver
  /\ released >= 0 => i > released
  /\ released < 0 => closed

(* A caller in the select has a value or a closed channel to receive from, *)
(* or readPump still runs and has its entry to answer or to release, or is *)
(* about to send to it; the only others are the stranded ones, whom        *)
(* nothing but their ctx gets out.                                         *)
WaitingIsReachable ==
  \A c \in Callers : pc[c] = "wait" =>
    \/ buffer[callID[c]] # NoLine
    \/ callID[c] \in chClosed
    \/ callID[c] \in pending /\ ~PumpOver
    \/ pump = "deliver" /\ line.id = callID[c]
    \/ Stranded(callID[c])

(* When a caller has its response, readPump has handled every notification *)
(* the child wrote before it: StartTurn returns, then the turn's           *)
(* notifications are in the channel in the order they were written.        *)
NoOvertaking ==
  /\ \A c \in Callers, k \in DOMAIN stdout :
       IsResponse(outcome[c]) /\ IsNotification(stdout[k]) =>
         stdout[k].number > outcome[c].after
  /\ \A j, k \in DOMAIN notifs : j < k => notifs[j] < notifs[k]
  /\ \A k \in DOMAIN notifs : lastSeen < notifs[k]

(* The inductive invariant behind the four safety properties above: whose  *)
(* an id is, what a response channel can hold, where a call in progress    *)
(* can be answered from, and that only the child makes up answers.         *)
IDsInv ==
  /\ \A c \in Callers : callID[c] <= nextID
  /\ \A c, d \in Callers : callID[c] = callID[d] /\ callID[c] # 0 => c = d
  /\ \A i \in pending : i <= nextID
  /\ \A i \in pending : \E c \in Callers : callID[c] = i /\ pc[c] \notin {"idle", "lost"}

ChannelsInv ==
  /\ \A i \in chClosed : i <= nextID
  /\ pending \cap chClosed = {}
  /\ \A i \in IDs : buffer[i] # NoLine => i \in chClosed /\ buffer[i].id = i
  /\ pump = "deliver" => line.id <= nextID /\ line.id \notin pending \cup chClosed
  /\ notifsClosed => pump = "stopped"

ReachableInv ==
  \A c \in Callers : pc[c] \in {"encode", "writing", "wait"} =>
    \/ callID[c] \in pending \cup chClosed
    \/ pump = "deliver" /\ line.id = callID[c]

ReleasedInv ==
  /\ released <= nextID
  /\ released >= 0 => PumpOver /\ \A i \in pending : i > released
  /\ PumpOver /\ released < 0 => closed

FromChild(i) == i \in asked /\ answers[i] > 0

AnswersInv ==
  /\ \A k \in DOMAIN stdout : IsResponse(stdout[k]) => FromChild(stdout[k].id)
  /\ line # NoLine /\ IsResponse(line) => FromChild(line.id)
  /\ \A i \in IDs : buffer[i] # NoLine => FromChild(buffer[i].id)
  /\ \A c \in Callers : IsResponse(outcome[c]) /\ pc[c] = "idle" =>
       outcome[c].id = callID[c] /\ FromChild(callID[c])

IInv == TypeOK /\ IDsInv /\ ChannelsInv /\ ReachableInv /\ ReleasedInv /\ AnswersInv

(* What the client promises (RemoteCalls): ids are the callers' own, and a *)
(* call ends once, with the server's reply to it or with an error that is  *)
(* true.                                                                   *)
ServedIDs == {i \in IDs : answers[i] > 0}

Returned(r) ==
  IF IsResponse(r) THEN [kind |-> "reply", id |-> r.id] ELSE [kind |-> r.kind, id |-> 0]

Promise == INSTANCE RemoteCalls WITH
  issued <- nextID, busy <- InCall, id <- callID, cancelled <- {c \in Callers : ctxDone[c]},
  result <- [c \in Callers |-> Returned(outcome[c])], served <- ServedIDs,
  writable <- stdinOpen, encodable <- "unencodable" \notin Faults, over <- PumpOver

KeepsPromise == Promise!Spec

(* Beyond IInv, what the refinement needs to know: only ids that were      *)
(* given out reach the child, and each way a call can fail has its cause.  *)
CausesInv ==
  /\ \A k \in DOMAIN stdin : stdin[k] <= nextID
  /\ \A i \in asked : i <= nextID
  /\ \A c \in Callers :
       /\ pc[c] = "idle" => ~ctxDone[c]
       /\ pc[c] = "cancelling" => ctxDone[c]
       /\ pc[c] = "failed" => ~stdinOpen \/ "unencodable" \in Faults
       /\ pc[c] = "lost" => PumpOver
       /\ pc[c] \in {"encode", "writing", "wait"} /\ callID[c] \in chClosed /\ buffer[callID[c]] = NoLine
            => PumpOver

(* Every call that was sent, or whose context has ended, returns, unless   *)
(* it is stranded and its context lasts: a call made after an unreadable   *)
(* line ended readPump while the child could still be written to           *)
(* (client.go:96), or one in progress when readPump returned because of    *)
(* Close (client.go:65).                                                   *)
CallReturns ==
  \A c \in Callers :
    pc[c] = "wait" \/ (pc[c] # "idle" /\ ctxDone[c])
      ~> pc[c] = "idle" \/ (Stranded(callID[c]) /\ ~ctxDone[c])
=============================================================================
