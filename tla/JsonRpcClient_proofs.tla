------------------------ MODULE JsonRpcClient_proofs -------------------------
(***************************************************************************)
(* Proofs about JsonRpcClient, for any number of callers, any capacity of  *)
(* the channels and pipes, any bounds and any set of faults.               *)
(***************************************************************************)
EXTENDS JsonRpcClient, SequenceTheorems, TLAPS

(* The next-state relation with every action of its own: the case split of *)
(* every step proof below.                                                 *)
LEMMA NextCases ==
  ASSUME Next
  PROVE  \/ \E c \in Callers : Call(c)
         \/ \E c \in Callers : Cancel(c) \/ MarshalFailed(c)
         \/ Pump
         \/ Receive \/ Close \/ StopClosesStdin
         \/ Child
  BY DEF Next

(***************************************************************************)
(* Typing.                                                                 *)
(***************************************************************************)

(* What Call returns without a response from the child. *)
LEMMA FailureIsOutcome ==
  ASSUME NEW k \in {"none", "closedClient", "sendFailed", "cancelled", "connectionClosed"}
  PROVE  [kind |-> k] \in Outcome
  BY DEF Outcome

(* What handleResponse can be handed. *)
LEMMA LineKinds ==
  ASSUME NEW l \in Line
  PROVE  /\ IsResponse(l) => l \in Response
         /\ IsNotification(l) => l \in Notification /\ l.number \in 1..MaxNotifs
  BY DEF Line, IsResponse, IsNotification, Response, Notification, Unusable

LEMMA InitTypeOK == Init => TypeOK
<1> SUFFICES ASSUME Init PROVE TypeOK
  OBVIOUS
<1>1. [kind |-> "none"] \in Outcome
  BY FailureIsOutcome
<1>2. outcome \in [Callers -> Outcome]
  BY <1>1 DEF Init
<1>3. /\ notifs \in Seq(1..MaxNotifs) /\ stdin \in Seq(IDs) /\ stdout \in Seq(Line)
      /\ Len(notifs) = 0 /\ Len(stdin) = 0 /\ Len(stdout) = 0
  BY BoundsAssumption DEF Init
<1>4. /\ nextID \in 0..MaxCalls /\ lastSeen \in 0..MaxNotifs /\ sent \in 0..MaxNotifs
      /\ callID \in [Callers -> 0..MaxCalls]
      /\ answers \in [IDs -> 0..2]
  BY BoundsAssumption DEF Init
<1>5. /\ buffer \in [IDs -> Response \cup {NoLine}]
      /\ pc \in [Callers -> CallPC] /\ ctxDone \in [Callers -> BOOLEAN]
      /\ \A c \in Callers : pc[c] = "idle"
  BY DEF Init, CallPC
<1>6. /\ mu \in Callers \cup {Nobody} /\ line \in Line \cup {NoLine}
      /\ pending \subseteq IDs /\ chClosed \subseteq IDs /\ asked \subseteq IDs
      /\ closed \in BOOLEAN /\ notifsClosed \in BOOLEAN /\ readErr \in BOOLEAN
      /\ stdinOpen \in BOOLEAN /\ alive \in BOOLEAN
      /\ pump = "scan"
  BY DEF Init
<1>a. released \in -1..MaxCalls
  BY BoundsAssumption DEF Init
<1>7. QED
  BY <1>a, <1>2, <1>3, <1>4, <1>5, <1>6, BoundsAssumption DEF TypeOK, PumpPC

LEMMA CallTypeOK ==
  ASSUME TypeOK, NEW c \in Callers, Call(c)
  PROVE  TypeOK'
<1> USE BoundsAssumption DEF TypeOK, IDs, CallPC, clientVars, pumpVars, callVars, childVars
<1>1. CASE Refused(c)
  BY <1>1, FailureIsOutcome DEF Refused, Return
<1>2. CASE Register(c)
  BY <1>2 DEF Register
<1>3. CASE LockEncode(c)
  BY <1>3 DEF LockEncode
<1>4. CASE Written(c)
  BY <1>4 DEF Written
<1>5. CASE WriteFailed(c)
  BY <1>5 DEF WriteFailed
<1>6. CASE GiveUpSend(c)
  BY <1>6, FailureIsOutcome DEF GiveUpSend, Forget, Return
<1>7. CASE SelectDone(c)
  BY <1>7 DEF SelectDone
<1>8. CASE ForgetCancelled(c)
  BY <1>8, FailureIsOutcome DEF ForgetCancelled, Forget, Return
<1>9. CASE SelectResponse(c)
  BY <1>9 DEF SelectResponse, Return, Outcome
<1>10. CASE SelectClosed(c)
  BY <1>10 DEF SelectClosed
<1>11. CASE ReportLost(c)
  BY <1>11, FailureIsOutcome DEF ReportLost, Return
<1>12. QED
  BY <1>1, <1>2, <1>3, <1>4, <1>5, <1>6, <1>7, <1>8, <1>9, <1>10, <1>11 DEF Call

LEMMA PumpTypeOK ==
  ASSUME TypeOK, Pump
  PROVE  TypeOK'
<1> USE BoundsAssumption DEF TypeOK, IDs, PumpPC, clientVars, pumpVars, callVars, childVars
<1>1. CASE ScanLine
  BY <1>1 DEF ScanLine
<1>2. CASE ScanEnd
  BY <1>2 DEF ScanEnd
<1>3. CASE PumpDone
  BY <1>3 DEF PumpDone
<1>4. CASE SkipLine
  BY <1>4 DEF SkipLine
<1>5. CASE HandleNotification
  <2>1. line.number \in 1..MaxNotifs
    BY <1>5, LineKinds DEF HandleNotification
  <2>2. notifs' \in Seq(1..MaxNotifs) /\ Len(notifs') <= NotifCap
    <3>1. CASE Len(notifs) < NotifCap
      <4>1. /\ Append(notifs, line.number) \in Seq(1..MaxNotifs)
            /\ Len(Append(notifs, line.number)) = Len(notifs) + 1
        BY <2>1, AppendProperties
      <4>2. QED
        BY <1>5, <3>1, <4>1 DEF HandleNotification
    <3>2. CASE ~(Len(notifs) < NotifCap)
      BY <1>5, <3>2 DEF HandleNotification
    <3>3. QED
      BY <3>1, <3>2
  <2>3. QED
    BY <1>5, <2>2 DEF HandleNotification
<1>6. CASE EnterHandleResponse
  BY <1>6, LineKinds DEF EnterHandleResponse
<1>7. CASE Lookup
  BY <1>7 DEF Lookup
<1>8. CASE Deliver
  <2>1. line \in Response /\ line.id \in IDs
    BY <1>8 DEF Deliver, Response
  <2>2. buffer' \in [IDs -> Response \cup {NoLine}] /\ chClosed' \subseteq IDs
    BY <1>8, <2>1 DEF Deliver
  <2>3. QED
    BY <1>8, <2>2 DEF Deliver
<1>9. CASE StoreReadErr
  BY <1>9 DEF StoreReadErr
<1>10. CASE ReleasePending
  BY <1>10 DEF ReleasePending
<1>11. CASE CloseNotifications
  BY <1>11 DEF CloseNotifications
<1>12. QED
  BY <1>1, <1>2, <1>3, <1>4, <1>5, <1>6, <1>7, <1>8, <1>9, <1>10, <1>11 DEF Pump

LEMMA ChildTypeOK ==
  ASSUME TypeOK, Child
  PROVE  TypeOK'
<1> USE BoundsAssumption, FaultsAssumption
    DEF TypeOK, IDs, clientVars, pumpVars, callVars, childVars
<1>1. CASE ReadRequest
  <2>1. /\ Head(stdin) \in IDs /\ Tail(stdin) \in Seq(IDs)
        /\ Len(Tail(stdin)) <= StdinCap
    BY <1>1 DEF ReadRequest
  <2>2. QED
    BY <1>1, <2>1 DEF ReadRequest
<1>2. CASE \E i \in IDs : Answer(i)
  <2> PICK i \in IDs : Answer(i)
    BY <1>2
  <2> DEFINE l == [kind |-> "response", id |-> i, after |-> sent]
  <2>1. l \in Line
    BY DEF Line, Response
  <2>2. stdout' \in Seq(Line) /\ Len(stdout') <= StdoutCap
    BY <2>1 DEF Answer, Write
  <2>3. answers' \in [IDs -> 0..2]
    <3>1. answers[i] + 1 \in 0..2
      <4>1. AnswerLimit \in {1, 2}
        BY DEF AnswerLimit
      <4>2. answers[i] \in 0..2
        OBVIOUS
      <4>3. answers[i] < AnswerLimit
        BY DEF Answer
      <4>4. QED
        BY <4>1, <4>2, <4>3
    <3>2. QED
      BY <3>1 DEF Answer
  <2>4. QED
    BY <2>2, <2>3 DEF Answer
<1>3. CASE Notify
  BY <1>3 DEF Notify, Write, Line, Notification
<1>4. CASE WriteUnusable
  BY <1>4 DEF WriteUnusable, Write, Line, Unusable
<1>5. CASE Die
  <2> PICK k \in 0..Len(stdout) : stdout' = SubSeq(stdout, 1, k)
    BY <1>5 DEF Die
  <2>1. stdout' \in Seq(Line) /\ Len(stdout') = k
    <3>1. 1 \in Int /\ k \in Int /\ \A i \in 1..k : stdout[i] \in Line
      OBVIOUS
    <3>2. QED
      BY <3>1, SubSeqProperties
  <2>2. Len(stdout') <= StdoutCap
    BY <2>1
  <2>3. alive' \in BOOLEAN /\ stdinOpen' \in BOOLEAN
    BY <1>5 DEF Die
  <2>4. QED
    BY <1>5, <2>1, <2>2, <2>3 DEF Die
<1>6. QED
  BY <1>1, <1>2, <1>3, <1>4, <1>5 DEF Child

LEMMA NextTypeOK == TypeOK /\ [Next]_vars => TypeOK'
<1> SUFFICES ASSUME TypeOK, [Next]_vars PROVE TypeOK'
  OBVIOUS
<1> USE DEF clientVars, pumpVars, callVars, childVars
<1>1. CASE \E c \in Callers : Call(c)
  BY <1>1, CallTypeOK
<1>2. CASE \E c \in Callers : Cancel(c) \/ MarshalFailed(c)
  BY <1>2 DEF Cancel, MarshalFailed, TypeOK, CallPC
<1>3. CASE Pump
  BY <1>3, PumpTypeOK
<1>4. CASE Receive
  <2>1. /\ Head(notifs) \in 1..MaxNotifs /\ Tail(notifs) \in Seq(1..MaxNotifs)
        /\ Len(Tail(notifs)) <= NotifCap
    BY <1>4, BoundsAssumption, HeadTailProperties DEF Receive, TypeOK
  <2>2. lastSeen' \in 0..MaxNotifs
    BY <1>4, <2>1, BoundsAssumption DEF Receive
  <2>3. QED
    BY <1>4, <2>1, <2>2 DEF Receive, TypeOK
<1>5. CASE Close
  BY <1>5 DEF Close, TypeOK
<1>6. CASE StopClosesStdin
  BY <1>6 DEF StopClosesStdin, TypeOK
<1>7. CASE Child
  BY <1>7, ChildTypeOK
<1>8. CASE UNCHANGED vars
  BY <1>8 DEF vars, TypeOK
<1>9. QED
  BY <1>1, <1>2, <1>3, <1>4, <1>5, <1>6, <1>7, <1>8, NextCases

(* Every variable keeps its type, and no buffer outgrows its capacity.     *)
THEOREM TypeCorrect == Spec => []TypeOK
  BY InitTypeOK, NextTypeOK, PTL DEF Spec

(***************************************************************************)
(* The inductive invariant.  Core gathers the three parts that speak about *)
(* ids and channels: they rest on each other and on typing, and only Call  *)
(* and Pump can disturb them.                                              *)
(***************************************************************************)
Core == IDsInv /\ ChannelsInv /\ ReachableInv
coreVars == <<nextID, pending, buffer, chClosed, notifsClosed, pump, line, pc, callID>>

LEMMA CoreInit == Init => Core
  BY DEF Init, Core, IDsInv, ChannelsInv, ReachableInv

LEMMA CoreFrame == Core /\ UNCHANGED coreVars => Core'
  BY DEF Core, coreVars, IDsInv, ChannelsInv, ReachableInv

(* The two paths that give a call up delete its own entry and no other.    *)
LEMMA CoreGiveUp ==
  ASSUME TypeOK, Core, NEW c \in Callers,
         pc[c] \in {"failed", "cancelling"},
         pending' = pending \ {callID[c]},
         pc' = [pc EXCEPT ![c] = "idle"],
         UNCHANGED <<nextID, buffer, chClosed, notifsClosed, pump, line, callID>>
  PROVE  Core'
<1> /\ pc \in [Callers -> CallPC] /\ \A d \in Callers : pc[d] # "idle" => callID[d] \in IDs
  BY DEF TypeOK
<1>1. \A d \in Callers : d # c /\ pc[d] # "idle" => callID[d] # callID[c]
  BY BoundsAssumption DEF Core, IDsInv, IDs
<1>2. IDsInv'
  BY <1>1 DEF Core, IDsInv
<1>3. ChannelsInv'
  BY DEF Core, ChannelsInv
<1>4. ReachableInv'
  BY <1>1 DEF Core, ReachableInv
<1>5. QED
  BY <1>2, <1>3, <1>4 DEF Core

LEMMA CoreCall ==
  ASSUME TypeOK, Core, NEW c \in Callers, Call(c)
  PROVE  Core'
<1> USE DEF Core, IDsInv, ChannelsInv, ReachableInv, clientVars, pumpVars, callVars, childVars
<1> /\ callID \in [Callers -> 0..MaxCalls] /\ pc \in [Callers -> CallPC]
    /\ buffer \in [IDs -> Response \cup {NoLine}] /\ nextID \in Nat
    /\ pending \subseteq IDs /\ chClosed \subseteq IDs
    /\ \A d \in Callers : pc[d] # "idle" => callID[d] \in IDs
    /\ pump = "deliver" => line \in Response
  BY BoundsAssumption DEF TypeOK
<1>1. CASE Refused(c)
  BY <1>1 DEF Refused, Return
<1>2. CASE Register(c)
  <2>1. nextID' = nextID + 1 /\ nextID' \in IDs /\ pending' = pending \cup {nextID'}
    BY <1>2, BoundsAssumption DEF Register, IDs
  <2>2. /\ callID' = [callID EXCEPT ![c] = nextID'] /\ pc' = [pc EXCEPT ![c] = "encode"]
        /\ UNCHANGED <<buffer, chClosed, notifsClosed, pump, line>> /\ pc[c] = "idle"
    BY <1>2 DEF Register
  <2>3. \A d \in Callers : callID[d] \in Nat /\ callID[d] < nextID'
    BY <2>1, BoundsAssumption
  <2>4. IDsInv'
    BY <2>1, <2>2, <2>3, BoundsAssumption DEF IDs
  <2>5. ChannelsInv'
    BY <2>1, <2>2, BoundsAssumption DEF IDs, Response
  <2>6. ReachableInv'
    BY <2>1, <2>2
  <2>7. QED
    BY <2>4, <2>5, <2>6
<1>3. CASE LockEncode(c)
  BY <1>3 DEF LockEncode
<1>4. CASE Written(c)
  BY <1>4 DEF Written
<1>5. CASE WriteFailed(c)
  BY <1>5 DEF WriteFailed
<1>6. CASE GiveUpSend(c)
  BY <1>6, CoreGiveUp DEF GiveUpSend, Forget, Return
<1>7. CASE SelectDone(c)
  BY <1>7 DEF SelectDone
<1>8. CASE ForgetCancelled(c)
  BY <1>8, CoreGiveUp DEF ForgetCancelled, Forget, Return
<1>9. CASE SelectResponse(c)
  BY <1>9 DEF SelectResponse, Return, IDs
<1>10. CASE SelectClosed(c)
  BY <1>10 DEF SelectClosed
<1>11. CASE ReportLost(c)
  BY <1>11 DEF ReportLost, Return
<1>12. QED
  BY <1>1, <1>2, <1>3, <1>4, <1>5, <1>6, <1>7, <1>8, <1>9, <1>10, <1>11 DEF Call

LEMMA CorePump ==
  ASSUME TypeOK, Core, Pump
  PROVE  Core'
<1> USE DEF Core, IDsInv, ChannelsInv, ReachableInv, clientVars, pumpVars, callVars, childVars
<1> /\ buffer \in [IDs -> Response \cup {NoLine}] /\ nextID \in Nat
    /\ pending \subseteq IDs /\ chClosed \subseteq IDs
    /\ pump \in {"lookup", "deliver"} => line \in Response /\ line.id \in IDs
  BY BoundsAssumption DEF TypeOK, Response
<1>1. CASE ScanLine
  BY <1>1 DEF ScanLine
<1>2. CASE ScanEnd
  BY <1>2 DEF ScanEnd
<1>3. CASE PumpDone
  BY <1>3 DEF PumpDone
<1>4. CASE SkipLine
  BY <1>4 DEF SkipLine
<1>5. CASE HandleNotification
  BY <1>5 DEF HandleNotification
<1>6. CASE EnterHandleResponse
  BY <1>6 DEF EnterHandleResponse
<1>7. CASE Lookup
  BY <1>7 DEF Lookup
<1>8. CASE Deliver
  <2>1. /\ line.id \in IDs /\ line.id <= nextID /\ line.id \notin pending
        /\ buffer' = [buffer EXCEPT ![line.id] = line] /\ chClosed' = chClosed \cup {line.id}
        /\ pump' = "scan" /\ pump = "deliver"
        /\ UNCHANGED <<nextID, pending, notifsClosed, pc, callID>>
    BY <1>8 DEF Deliver
  <2>2. QED
    BY <2>1
<1>9. CASE StoreReadErr
  BY <1>9 DEF StoreReadErr
<1>10. CASE ReleasePending
  BY <1>10 DEF ReleasePending
<1>11. CASE CloseNotifications
  BY <1>11 DEF CloseNotifications
<1>12. QED
  BY <1>1, <1>2, <1>3, <1>4, <1>5, <1>6, <1>7, <1>8, <1>9, <1>10, <1>11 DEF Pump

LEMMA ChildFrame == Child => UNCHANGED coreVars /\ UNCHANGED outcome
  BY DEF Child, ReadRequest, Answer, Notify, WriteUnusable, Die, coreVars,
         clientVars, pumpVars, callVars

LEMMA NextCore == TypeOK /\ Core /\ [Next]_vars => Core'
<1> SUFFICES ASSUME TypeOK, Core, [Next]_vars PROVE Core'
  OBVIOUS
<1> USE DEF coreVars, clientVars, pumpVars, callVars
<1>1. CASE \E c \in Callers : Call(c)
  BY <1>1, CoreCall
<1>2. ASSUME NEW c \in Callers, Cancel(c) \/ MarshalFailed(c) PROVE Core'
  <2>1. CASE Cancel(c)
    BY <2>1, CoreFrame DEF Cancel
  <2>2. CASE MarshalFailed(c)
    BY <2>2 DEF MarshalFailed, TypeOK, Core, IDsInv, ChannelsInv, ReachableInv
  <2>3. QED
    BY <1>2, <2>1, <2>2
<1>3. CASE Pump
  BY <1>3, CorePump
<1>4. CASE Receive
  BY <1>4, CoreFrame DEF Receive
<1>5. CASE Close
  BY <1>5, CoreFrame DEF Close
<1>6. CASE StopClosesStdin
  BY <1>6, CoreFrame DEF StopClosesStdin
<1>7. CASE Child
  BY <1>7, ChildFrame, CoreFrame
<1>8. CASE UNCHANGED vars
  BY <1>8, CoreFrame DEF vars
<1>9. QED
  BY <1>1, <1>2, <1>3, <1>4, <1>5, <1>6, <1>7, <1>8, NextCases

(* Ids and channels keep their invariant. *)
THEOREM CoreCorrect == Spec => []Core
  BY TypeCorrect, CoreInit, NextCore, PTL DEF Spec

(* No send on a closed channel and no second close: readPump cannot panic. *)
THEOREM PumpNeverPanics == Spec => []NoChannelPanic
<1>1. TypeOK /\ Core => NoChannelPanic
  BY DEF TypeOK, Core, ChannelsInv, NoChannelPanic, Response
<1>2. QED
  BY <1>1, TypeCorrect, CoreCorrect, PTL

(* c.pending holds only calls in progress, each under an id of its own.    *)
THEOREM PendingIsExact == Spec => []NoStalePending
<1>1. TypeOK /\ Core => NoStalePending
  BY BoundsAssumption DEF TypeOK, Core, IDsInv, NoStalePending, InCall, IDs
<1>2. QED
  BY <1>1, TypeCorrect, CoreCorrect, PTL

(***************************************************************************)
(* What is left in c.pending once readPump is over.                        *)
(***************************************************************************)

LEMMA ReleasedInit == Init => ReleasedInv
  BY DEF Init, ReleasedInv, PumpOver

(* Entries only go, and neither the pump's end nor Close is taken back.    *)
LEMMA ReleasedFrame ==
  ASSUME ReleasedInv, UNCHANGED <<nextID, released>>, pending' \subseteq pending,
         closed => closed', PumpOver' = PumpOver
  PROVE  ReleasedInv'
  BY DEF ReleasedInv

LEMMA ReleasedCall ==
  ASSUME TypeOK, ReleasedInv, NEW c \in Callers, Call(c)
  PROVE  ReleasedInv'
<1> USE DEF clientVars, pumpVars, PumpOver
<1>1. CASE Register(c)
  <2>1. /\ nextID' = nextID + 1 /\ pending' = pending \cup {nextID'}
        /\ UNCHANGED <<released, pump, closed>>
    BY <1>1 DEF Register
  <2>2. nextID \in Int /\ released \in Int
    BY BoundsAssumption DEF TypeOK
  <2>3. QED
    BY <2>1, <2>2 DEF ReleasedInv
<1>2. CASE GiveUpSend(c) \/ ForgetCancelled(c)
  BY <1>2, ReleasedFrame DEF GiveUpSend, ForgetCancelled, Forget
<1>3. CASE Refused(c) \/ LockEncode(c) \/ Written(c) \/ WriteFailed(c) \/ SelectDone(c)
           \/ SelectResponse(c) \/ SelectClosed(c) \/ ReportLost(c)
  BY <1>3, ReleasedFrame DEF Refused, LockEncode, Written, WriteFailed, SelectDone,
     SelectResponse, SelectClosed, ReportLost
<1>4. QED
  BY <1>1, <1>2, <1>3 DEF Call

LEMMA ReleasedPump ==
  ASSUME TypeOK, ReleasedInv, Pump
  PROVE  ReleasedInv'
<1> USE DEF clientVars, PumpOver
<1>1. CASE Lookup
  BY <1>1, ReleasedFrame DEF Lookup
<1>2. CASE PumpDone \/ ReleasePending \/ CloseNotifications
  <2>1. nextID \in Nat /\ (pump \notin {"end", "stopped"} => released < 0)
    BY BoundsAssumption DEF TypeOK, ReleasedInv
  <2>2. QED
    BY <1>2, <2>1 DEF PumpDone, ReleasePending, CloseNotifications, ReleasedInv
<1>3. CASE ScanLine \/ ScanEnd \/ SkipLine \/ HandleNotification \/ EnterHandleResponse
           \/ Deliver \/ StoreReadErr
  BY <1>3, ReleasedFrame DEF ScanLine, ScanEnd, SkipLine, HandleNotification,
     EnterHandleResponse, Deliver, StoreReadErr
<1>4. QED
  BY <1>1, <1>2, <1>3 DEF Pump

LEMMA NextReleased == TypeOK /\ ReleasedInv /\ [Next]_vars => ReleasedInv'
<1> SUFFICES ASSUME TypeOK, ReleasedInv, [Next]_vars PROVE ReleasedInv'
  OBVIOUS
<1> USE DEF clientVars, pumpVars, PumpOver
<1>1. CASE \E c \in Callers : Call(c)
  BY <1>1, ReleasedCall
<1>2. CASE \E c \in Callers : Cancel(c) \/ MarshalFailed(c)
  BY <1>2, ReleasedFrame DEF Cancel, MarshalFailed
<1>3. CASE Pump
  BY <1>3, ReleasedPump
<1>4. CASE Receive \/ Close \/ StopClosesStdin
  BY <1>4, ReleasedFrame DEF Receive, Close, StopClosesStdin
<1>5. CASE Child
  <2>1. UNCHANGED <<closed, pending, nextID, released, pump>>
    BY <1>5 DEF Child, ReadRequest, Answer, Notify, WriteUnusable, Die
  <2>2. QED
    BY <2>1, ReleasedFrame
<1>6. CASE UNCHANGED vars
  BY <1>6, ReleasedFrame DEF vars
<1>7. QED
  BY <1>1, <1>2, <1>3, <1>4, <1>5, <1>6, NextCases

(* Once readPump is over, c.pending holds nothing but calls it never saw:  *)
(* registered after the release, or abandoned by a return through c.done.  *)
THEOREM ReleaseIsComplete == Spec => []ReleasedInv
  BY TypeCorrect, ReleasedInit, NextReleased, PTL DEF Spec

(* A caller in the select has its answer, or readPump still runs and will  *)
(* answer or release it, or it is one of the stranded ones.                *)
THEOREM WaitersAreReachable == Spec => []WaitingIsReachable
<1>1. TypeOK /\ Core /\ ReleasedInv => WaitingIsReachable
  <2> SUFFICES ASSUME TypeOK, Core, ReleasedInv, NEW c \in Callers, pc[c] = "wait"
               PROVE  \/ callID[c] \in chClosed
                      \/ callID[c] \in pending /\ ~PumpOver
                      \/ pump = "deliver" /\ line.id = callID[c]
                      \/ Stranded(callID[c])
    BY DEF WaitingIsReachable
  <2>1. callID[c] \in pending \/ callID[c] \in chClosed \/ (pump = "deliver" /\ line.id = callID[c])
    BY DEF Core, ReachableInv
  <2>2. callID[c] \in pending /\ PumpOver => Stranded(callID[c])
    BY DEF ReleasedInv, Stranded
  <2>3. QED
    BY <2>1, <2>2
<1>2. QED
  BY <1>1, TypeCorrect, CoreCorrect, ReleaseIsComplete, PTL

(***************************************************************************)
(* Answers come from the child, each to the request it answers.            *)
(***************************************************************************)

LEMMA AnswersInit == Init => AnswersInv
  BY DEF Init, AnswersInv, IsResponse

(* What an action that neither writes nor moves a response leaves alone.   *)
LEMMA AnswersFrame ==
  ASSUME AnswersInv, UNCHANGED <<stdout, line, buffer, outcome, pc, callID, asked, answers>>
  PROVE  AnswersInv'
  BY DEF AnswersInv, FromChild

(* What the child knows only grows, so what came from it stays so.         *)
LEMMA FromChildStable ==
  ASSUME TypeOK, [Next]_vars, NEW i \in IDs, FromChild(i)
  PROVE  FromChild(i)'
<1> USE DEF FromChild, clientVars, pumpVars, callVars, childVars
<1>1. CASE \E c \in Callers : Call(c)
  BY <1>1 DEF Call, Refused, Register, LockEncode, Written, WriteFailed, GiveUpSend, SelectDone,
         ForgetCancelled, SelectResponse, SelectClosed, ReportLost
<1>2. CASE \E c \in Callers : Cancel(c) \/ MarshalFailed(c)
  BY <1>2 DEF Cancel, MarshalFailed
<1>3. CASE Pump
  BY <1>3 DEF Pump, ScanLine, ScanEnd, PumpDone, SkipLine, HandleNotification,
         EnterHandleResponse, Lookup, Deliver, StoreReadErr, ReleasePending, CloseNotifications
<1>4. CASE Receive \/ Close \/ StopClosesStdin
  BY <1>4 DEF Receive, Close, StopClosesStdin
<1>5. CASE ReadRequest \/ Notify \/ WriteUnusable \/ Die
  BY <1>5 DEF ReadRequest, Notify, WriteUnusable, Die
<1>6. CASE \E j \in IDs : Answer(j)
  <2> PICK j \in IDs : Answer(j)
    BY <1>6
  <2>1. answers' = [answers EXCEPT ![j] = answers[j] + 1] /\ UNCHANGED asked
    BY DEF Answer
  <2>2. answers \in [IDs -> 0..2]
    BY DEF TypeOK
  <2>3. QED
    BY <2>1, <2>2
<1>7. CASE UNCHANGED vars
  BY <1>7 DEF vars
<1>8. QED
  BY <1>1, <1>2, <1>3, <1>4, <1>5, <1>6, <1>7, NextCases DEF Child

LEMMA AnswersCall ==
  ASSUME TypeOK, Core, AnswersInv, NEW c \in Callers, Call(c)
  PROVE  AnswersInv'
<1> USE DEF AnswersInv, FromChild, clientVars, pumpVars, callVars, childVars, IsResponse
<1> /\ callID \in [Callers -> 0..MaxCalls] /\ pc \in [Callers -> CallPC]
    /\ buffer \in [IDs -> Response \cup {NoLine}]
    /\ outcome \in [Callers -> Outcome]
    /\ \A d \in Callers : pc[d] # "idle" => callID[d] \in IDs
  BY DEF TypeOK
<1>1. CASE Refused(c)
  BY <1>1 DEF Refused, Return
<1>2. CASE Register(c)
  BY <1>2 DEF Register
<1>3. CASE LockEncode(c)
  BY <1>3 DEF LockEncode
<1>4. CASE Written(c)
  BY <1>4 DEF Written
<1>5. CASE WriteFailed(c)
  BY <1>5 DEF WriteFailed
<1>6. CASE GiveUpSend(c)
  BY <1>6 DEF GiveUpSend, Return
<1>7. CASE SelectDone(c)
  BY <1>7 DEF SelectDone
<1>8. CASE ForgetCancelled(c)
  BY <1>8 DEF ForgetCancelled, Return
<1>9. CASE SelectResponse(c)
  <2>1. callID[c] \in IDs /\ buffer[callID[c]].id = callID[c] /\ FromChild(callID[c])
    BY <1>9 DEF SelectResponse, Core, ChannelsInv
  <2>2. QED
    BY <1>9, <2>1 DEF SelectResponse, Return
<1>10. CASE SelectClosed(c)
  BY <1>10 DEF SelectClosed
<1>11. CASE ReportLost(c)
  BY <1>11 DEF ReportLost, Return
<1>12. QED
  BY <1>1, <1>2, <1>3, <1>4, <1>5, <1>6, <1>7, <1>8, <1>9, <1>10, <1>11 DEF Call

LEMMA AnswersPump ==
  ASSUME TypeOK, AnswersInv, Pump
  PROVE  AnswersInv'
<1> USE DEF AnswersInv, FromChild, clientVars, pumpVars, callVars, childVars
<1> /\ stdout \in Seq(Line) /\ buffer \in [IDs -> Response \cup {NoLine}]
    /\ pump \in {"lookup", "deliver"} => line \in Response
  BY DEF TypeOK
<1>1. CASE ScanLine
  <2>1. /\ line' = stdout[1]
        /\ \A k \in DOMAIN stdout' : stdout'[k] = stdout[k + 1] /\ k + 1 \in DOMAIN stdout
    BY <1>1 DEF ScanLine
  <2>2. 1 \in DOMAIN stdout
    BY <1>1 DEF ScanLine
  <2>3. QED
    BY <1>1, <2>1, <2>2 DEF ScanLine
<1>2. CASE ScanEnd
  BY <1>2 DEF ScanEnd
<1>3. CASE PumpDone
  BY <1>3 DEF PumpDone
<1>4. CASE SkipLine
  BY <1>4 DEF SkipLine
<1>5. CASE HandleNotification
  BY <1>5 DEF HandleNotification
<1>6. CASE EnterHandleResponse
  BY <1>6 DEF EnterHandleResponse
<1>7. CASE Lookup
  BY <1>7 DEF Lookup
<1>8. CASE Deliver
  BY <1>8 DEF Deliver, Response, NoLine, IsResponse
<1>9. CASE StoreReadErr
  BY <1>9 DEF StoreReadErr
<1>10. CASE ReleasePending
  BY <1>10 DEF ReleasePending
<1>11. CASE CloseNotifications
  BY <1>11 DEF CloseNotifications
<1>12. QED
  BY <1>1, <1>2, <1>3, <1>4, <1>5, <1>6, <1>7, <1>8, <1>9, <1>10, <1>11 DEF Pump

(* A line appended to stdout keeps the invariant if it keeps it itself.    *)
LEMMA AnswersAppend ==
  ASSUME TypeOK, AnswersInv, NEW l, stdout' = Append(stdout, l),
         IsResponse(l) => FromChild(l.id)',
         \A i \in IDs : FromChild(i) => FromChild(i)',
         UNCHANGED <<line, buffer, outcome, pc, callID>>
  PROVE  AnswersInv'
<1>1. \A k \in DOMAIN stdout' : stdout'[k] = l \/ (k \in DOMAIN stdout /\ stdout'[k] = stdout[k])
  <2>1. stdout \in Seq(Line)
    BY DEF TypeOK
  <2>2. DOMAIN stdout' = 1..Len(stdout) + 1 /\ DOMAIN stdout = 1..Len(stdout)
    BY <2>1
  <2>3. QED
    BY <2>1, <2>2
<1>2. \A k \in DOMAIN stdout : IsResponse(stdout[k]) => stdout[k].id \in IDs
  BY LineKinds DEF TypeOK, Response
<1>3. line # NoLine /\ IsResponse(line) => line.id \in IDs
  BY LineKinds DEF TypeOK, Response
<1>4. \A i \in IDs : buffer[i] # NoLine => buffer[i].id \in IDs
  BY DEF TypeOK, Response
<1>5. \A c \in Callers : IsResponse(outcome[c]) /\ pc[c] = "idle" => outcome[c].id \in IDs
  BY DEF TypeOK, Outcome, Response, IsResponse
<1>6. QED
  BY <1>1, <1>2, <1>3, <1>4, <1>5 DEF AnswersInv

LEMMA AnswersChild ==
  ASSUME TypeOK, AnswersInv, Child
  PROVE  AnswersInv'
<1> USE DEF clientVars, pumpVars, callVars
<1>1. \A i \in IDs : FromChild(i) => FromChild(i)'
  BY FromChildStable DEF Next
<1>2. CASE ReadRequest
  <2>1. /\ UNCHANGED <<stdout, line, buffer, outcome, pc, callID, answers>>
        /\ asked \subseteq asked'
    BY <1>2 DEF ReadRequest
  <2>2. QED
    BY <2>1 DEF AnswersInv, FromChild
<1>3. CASE \E i \in IDs : Answer(i)
  <2> PICK i \in IDs : Answer(i)
    BY <1>3
  <2> DEFINE l == [kind |-> "response", id |-> i, after |-> sent]
  <2>1. FromChild(i)'
    <3>1. answers' = [answers EXCEPT ![i] = answers[i] + 1] /\ UNCHANGED asked /\ i \in asked
      BY DEF Answer
    <3>2. answers \in [IDs -> 0..2]
      BY DEF TypeOK
    <3>3. QED
      BY <3>1, <3>2 DEF FromChild
  <2>2. stdout' = Append(stdout, l) /\ UNCHANGED <<line, buffer, outcome, pc, callID>>
    BY DEF Answer, Write
  <2>3. QED
    BY <1>1, <2>1, <2>2, AnswersAppend
<1>4. CASE Notify
  <2> DEFINE l == [kind |-> "notification", number |-> sent']
  <2>1. stdout' = Append(stdout, l) /\ UNCHANGED <<line, buffer, outcome, pc, callID>>
    BY <1>4 DEF Notify, Write
  <2>2. ~IsResponse(l)
    BY DEF IsResponse
  <2>3. QED
    BY <1>1, <2>1, <2>2, AnswersAppend
<1>5. CASE WriteUnusable
  <2> PICK k \in {"ignored", "unreadable"} \cap Faults : Write([kind |-> k])
    BY <1>5 DEF WriteUnusable
  <2>1. /\ stdout' = Append(stdout, [kind |-> k])
        /\ UNCHANGED <<line, buffer, outcome, pc, callID>>
    BY <1>5 DEF WriteUnusable, Write
  <2>2. ~IsResponse([kind |-> k])
    BY DEF IsResponse
  <2>3. QED
    BY <1>1, <2>1, <2>2, AnswersAppend
<1>6. CASE Die
  <2> PICK k \in 0..Len(stdout) : stdout' = SubSeq(stdout, 1, k)
    BY <1>6 DEF Die
  <2>1. \A j \in DOMAIN stdout' : j \in DOMAIN stdout /\ stdout'[j] = stdout[j]
    BY DEF TypeOK
  <2>2. UNCHANGED <<line, buffer, outcome, pc, callID, asked, answers>>
    BY <1>6 DEF Die
  <2>3. QED
    BY <2>1, <2>2 DEF AnswersInv, FromChild
<1>7. QED
  BY <1>2, <1>3, <1>4, <1>5, <1>6 DEF Child

LEMMA NextAnswers == TypeOK /\ Core /\ AnswersInv /\ [Next]_vars => AnswersInv'
<1> SUFFICES ASSUME TypeOK, Core, AnswersInv, [Next]_vars PROVE AnswersInv'
  OBVIOUS
<1> USE DEF clientVars, pumpVars, callVars, childVars
<1>1. CASE \E c \in Callers : Call(c)
  BY <1>1, AnswersCall
<1>2. ASSUME NEW c \in Callers, Cancel(c) \/ MarshalFailed(c) PROVE AnswersInv'
  <2>1. CASE Cancel(c)
    BY <2>1, AnswersFrame DEF Cancel
  <2>2. CASE MarshalFailed(c)
    BY <2>2 DEF MarshalFailed, TypeOK, AnswersInv, FromChild
  <2>3. QED
    BY <1>2, <2>1, <2>2
<1>3. CASE Pump
  BY <1>3, AnswersPump
<1>4. CASE Receive
  BY <1>4, AnswersFrame DEF Receive
<1>5. CASE Close
  BY <1>5, AnswersFrame DEF Close
<1>6. CASE StopClosesStdin
  BY <1>6, AnswersFrame DEF StopClosesStdin
<1>7. CASE Child
  BY <1>7, AnswersChild
<1>8. CASE UNCHANGED vars
  BY <1>8, AnswersFrame DEF vars
<1>9. QED
  BY <1>1, <1>2, <1>3, <1>4, <1>5, <1>6, <1>7, <1>8, NextCases

(* The whole inductive invariant.                                          *)
THEOREM InductiveInvariant == Spec => []IInv
<1>1. Init => TypeOK /\ Core /\ ReleasedInv /\ AnswersInv
  BY InitTypeOK, CoreInit, ReleasedInit, AnswersInit
<1>2. TypeOK /\ Core /\ ReleasedInv /\ AnswersInv /\ [Next]_vars
        => (TypeOK /\ Core /\ ReleasedInv /\ AnswersInv)'
  BY NextTypeOK, NextCore, NextReleased, NextAnswers
<1>3. TypeOK /\ Core /\ ReleasedInv /\ AnswersInv => IInv
  BY DEF IInv, Core
<1>4. QED
  BY <1>1, <1>2, <1>3, PTL DEF Spec

(* A response that Call returns is the child's answer to that very call.   *)
THEOREM CallsGetTheirOwnAnswer == Spec => []OwnAnswer
<1>1. IInv => OwnAnswer
  BY DEF IInv, AnswersInv, FromChild, OwnAnswer
<1>2. QED
  BY <1>1, InductiveInvariant, PTL

(***************************************************************************)
(* Order: readPump works through stdout from the front, and what it has    *)
(* handled is older than every notification still in the pipe.             *)
(***************************************************************************)

(* How many notifications were written when the line was.                  *)
Stamp(l) == IF IsNotification(l) THEN l.number ELSE IF IsResponse(l) THEN l.after ELSE 0

Past(n) ==
  /\ n <= sent
  /\ \A k \in DOMAIN stdout : IsNotification(stdout[k]) => n < stdout[k].number

PipeInv ==
  /\ \A k \in DOMAIN stdout : Stamp(stdout[k]) <= sent
  /\ \A j, k \in DOMAIN stdout :
       j < k /\ IsNotification(stdout[k]) => Stamp(stdout[j]) < stdout[k].number

PastInv ==
  /\ line # NoLine => Past(Stamp(line))
  /\ \A i \in IDs : buffer[i] # NoLine => Past(buffer[i].after)
  /\ \A c \in Callers : IsResponse(outcome[c]) => Past(outcome[c].after)
  /\ \A k \in DOMAIN notifs : Past(notifs[k])
  /\ Past(lastSeen)

QueueInv ==
  /\ \A j, k \in DOMAIN notifs : j < k => notifs[j] < notifs[k]
  /\ \A k \in DOMAIN notifs : lastSeen < notifs[k]
  /\ line # NoLine /\ IsNotification(line) =>
       lastSeen < line.number /\ \A k \in DOMAIN notifs : notifs[k] < line.number

OrderInv == PipeInv /\ PastInv /\ QueueInv

LEMMA InitOrder == Init => OrderInv
<1> SUFFICES ASSUME Init PROVE OrderInv
  OBVIOUS
<1>1. DOMAIN stdout = {} /\ DOMAIN notifs = {} /\ line = NoLine /\ lastSeen = 0 /\ sent = 0
  BY DEF Init
<1>2. \A i \in IDs : buffer[i] = NoLine
  BY DEF Init
<1>3. \A c \in Callers : ~IsResponse(outcome[c])
  BY DEF Init, IsResponse
<1>4. QED
  BY <1>1, <1>2, <1>3 DEF OrderInv, PipeInv, PastInv, QueueInv, Past

(* A stamp is a number.                                                    *)
LEMMA StampIsNat ==
  ASSUME NEW l \in Line
  PROVE  Stamp(l) \in Nat
  BY BoundsAssumption
  DEF Stamp, Line, Response, Notification, Unusable, IsNotification, IsResponse

(* How stdout can change: a line is scanned, the child writes one with the *)
(* stamp of the moment, or the end is lost.                                *)
Scanned  == stdout # <<>> /\ stdout' = Tail(stdout) /\ UNCHANGED sent
Appended == \E l \in Line :
  /\ stdout' = Append(stdout, l) /\ sent' \in {sent, sent + 1} /\ Stamp(l) <= sent'
  /\ IsNotification(l) => sent < l.number
Lost     == UNCHANGED sent /\ \E k \in 0..Len(stdout) : stdout' = SubSeq(stdout, 1, k)

LEMMA ChildOutput ==
  ASSUME TypeOK, Child
  PROVE  Appended \/ Lost \/ UNCHANGED <<stdout, sent>>
<1> USE DEF clientVars, pumpVars, callVars
<1>0. sent \in 0..MaxNotifs /\ MaxNotifs \in Nat
  BY BoundsAssumption DEF TypeOK
<1>1. CASE ReadRequest
  BY <1>1 DEF ReadRequest
<1>2. CASE \E i \in IDs : Answer(i)
  <2> PICK i \in IDs : Answer(i)
    BY <1>2
  <2> DEFINE l == [kind |-> "response", id |-> i, after |-> sent]
  <2>1. l \in Line /\ Stamp(l) = sent /\ ~IsNotification(l)
    BY <1>0 DEF Line, Response, Stamp, IsNotification, IsResponse
  <2>2. stdout' = Append(stdout, l) /\ sent' = sent
    BY DEF Answer, Write
  <2>3. QED
    BY <1>0, <2>1, <2>2 DEF Appended
<1>3. CASE Notify
  <2> DEFINE l == [kind |-> "notification", number |-> sent']
  <2>1. sent' = sent + 1 /\ stdout' = Append(stdout, l) /\ sent < MaxNotifs
    BY <1>3 DEF Notify, Write
  <2>2. l \in Line /\ Stamp(l) = sent + 1 /\ IsNotification(l) /\ l.number = sent + 1
    BY <1>0, <2>1, BoundsAssumption DEF Line, Notification, Stamp, IsNotification
  <2>3. QED
    BY <1>0, <2>1, <2>2 DEF Appended
<1>4. CASE WriteUnusable
  <2> PICK k \in {"ignored", "unreadable"} \cap Faults : Write([kind |-> k])
    BY <1>4 DEF WriteUnusable
  <2> DEFINE l == [kind |-> k]
  <2>1. l \in Line /\ Stamp(l) = 0 /\ ~IsNotification(l)
    BY DEF Line, Unusable, Stamp, IsNotification, IsResponse
  <2>2. stdout' = Append(stdout, l) /\ sent' = sent
    BY <1>4 DEF WriteUnusable, Write
  <2>3. QED
    BY <1>0, <2>1, <2>2 DEF Appended
<1>5. CASE Die
  BY <1>5 DEF Die, Lost
<1>6. QED
  BY <1>1, <1>2, <1>3, <1>4, <1>5 DEF Child

LEMMA NextOutput ==
  ASSUME TypeOK, [Next]_vars
  PROVE  Scanned \/ Appended \/ Lost \/ UNCHANGED <<stdout, sent>>
<1> USE DEF clientVars, pumpVars, callVars, childVars
<1>1. CASE \E c \in Callers : Call(c) \/ Cancel(c) \/ MarshalFailed(c)
  BY <1>1 DEF Cancel, MarshalFailed, Call, Refused, Register, LockEncode, Written, WriteFailed, GiveUpSend,
         SelectDone, ForgetCancelled, SelectResponse, SelectClosed, ReportLost
<1>2. CASE Pump
  BY <1>2 DEF Scanned, Pump, ScanLine, ScanEnd, PumpDone, SkipLine, HandleNotification,
         EnterHandleResponse, Lookup, Deliver, StoreReadErr, ReleasePending, CloseNotifications
<1>3. CASE Receive \/ Close \/ StopClosesStdin
  BY <1>3 DEF Receive, Close, StopClosesStdin
<1>4. CASE Child
  BY <1>4, ChildOutput
<1>5. CASE UNCHANGED vars
  BY <1>5 DEF vars
<1>6. QED
  BY <1>1, <1>2, <1>3, <1>4, <1>5 DEF Next

(* Where the lines of stdout come from after a step.                       *)
LEMMA ScannedLines ==
  ASSUME TypeOK, Scanned
  PROVE  \A k \in DOMAIN stdout' :
           k \in Nat /\ k + 1 \in DOMAIN stdout /\ stdout'[k] = stdout[k + 1]
  BY DEF TypeOK, Scanned

LEMMA LostLines ==
  ASSUME TypeOK, Lost
  PROVE  \A k \in DOMAIN stdout' : k \in DOMAIN stdout /\ stdout'[k] = stdout[k]
  BY DEF TypeOK, Lost

LEMMA AppendedLines ==
  ASSUME TypeOK, NEW l \in Line, stdout' = Append(stdout, l)
  PROVE  \A k \in DOMAIN stdout' :
           \/ k \in DOMAIN stdout /\ stdout'[k] = stdout[k]
           \/ k = Len(stdout) + 1 /\ stdout'[k] = l
  BY DEF TypeOK

(* The past stays the past.                                                *)
LEMMA PastStable ==
  ASSUME TypeOK, [Next]_vars, NEW n \in Nat, Past(n)
  PROVE  Past(n)'
<1>0. sent \in Nat
  BY BoundsAssumption DEF TypeOK
<1>1. CASE Scanned
  BY <1>1, ScannedLines DEF Past, Scanned
<1>2. CASE Appended
  <2> PICK l \in Line :
        /\ stdout' = Append(stdout, l) /\ sent' \in {sent, sent + 1}
        /\ IsNotification(l) => sent < l.number
    BY <1>2 DEF Appended
  <2>1. IsNotification(l) => l.number \in Nat
    BY LineKinds, BoundsAssumption
  <2>2. QED
    BY <1>0, <2>1, AppendedLines DEF Past
<1>3. CASE Lost
  BY <1>3, LostLines DEF Past, Lost
<1>4. CASE UNCHANGED <<stdout, sent>>
  BY <1>4 DEF Past
<1>5. QED
  BY <1>1, <1>2, <1>3, <1>4, NextOutput

LEMMA NextPipe == TypeOK /\ PipeInv /\ [Next]_vars => PipeInv'
<1> SUFFICES ASSUME TypeOK, PipeInv, [Next]_vars PROVE PipeInv'
  OBVIOUS
<1>0. sent \in Nat /\ stdout \in Seq(Line) /\ \A k \in DOMAIN stdout : k \in Nat /\ k <= Len(stdout)
  BY BoundsAssumption DEF TypeOK
<1>1. CASE Scanned
  <2>1. sent' = sent
    BY <1>1 DEF Scanned
  <2>2. \A k \in DOMAIN stdout' : Stamp(stdout'[k]) <= sent'
    BY <1>1, <2>1, ScannedLines DEF PipeInv
  <2>3. ASSUME NEW j \in DOMAIN stdout', NEW k \in DOMAIN stdout',
               j < k, IsNotification(stdout'[k])
        PROVE  Stamp(stdout'[j]) < stdout'[k].number
    <3>1. /\ j + 1 \in DOMAIN stdout /\ stdout'[j] = stdout[j + 1] /\ j \in Nat
          /\ k + 1 \in DOMAIN stdout /\ stdout'[k] = stdout[k + 1] /\ k \in Nat
      BY <1>1, ScannedLines
    <3>2. j + 1 < k + 1
      BY <2>3, <3>1
    <3>3. IsNotification(stdout[k + 1])
      BY <2>3, <3>1
    <3>4. Stamp(stdout[j + 1]) < stdout[k + 1].number
      BY <3>1, <3>2, <3>3 DEF PipeInv
    <3>5. QED
      BY <3>1, <3>4
  <2>4. QED
    BY <2>2, <2>3 DEF PipeInv, Stamp, IsNotification, IsResponse
<1>2. CASE Appended
  <2> PICK l \in Line :
        /\ stdout' = Append(stdout, l) /\ sent' \in {sent, sent + 1} /\ Stamp(l) <= sent'
        /\ IsNotification(l) => sent < l.number
    BY <1>2 DEF Appended
  <2>1. IsNotification(l) => l.number \in Nat
    BY LineKinds, BoundsAssumption
  <2>2. \A k \in DOMAIN stdout : Stamp(stdout[k]) \in Nat /\ Stamp(stdout[k]) <= sent
    BY <1>0, StampIsNat DEF PipeInv
  <2>3. \A k \in DOMAIN stdout' : Stamp(stdout'[k]) <= sent'
    BY <1>0, <2>2, AppendedLines
  <2>4. \A j, k \in DOMAIN stdout' :
          j < k /\ IsNotification(stdout'[k]) => Stamp(stdout'[j]) < stdout'[k].number
    BY <1>0, <2>1, <2>2, AppendedLines DEF PipeInv
  <2>5. QED
    BY <2>3, <2>4 DEF PipeInv, Stamp, IsNotification, IsResponse
<1>3. CASE Lost
  <2>1. sent' = sent
    BY <1>3 DEF Lost
  <2>2. QED
    BY <1>0, <1>3, <2>1, LostLines DEF PipeInv, Stamp, IsNotification, IsResponse
<1>4. CASE UNCHANGED <<stdout, sent>>
  BY <1>4 DEF PipeInv, Stamp, IsNotification, IsResponse
<1>5. QED
  BY <1>1, <1>2, <1>3, <1>4, NextOutput

(* What a step moves: the front line to the pump, from there a response to *)
(* its channel and on to its caller, a notification to the queue and on to *)
(* its reader.                                                             *)
FrontLine    == line' = Head(stdout) /\ Scanned /\ UNCHANGED <<notifs, lastSeen>>
Enqueued     == /\ line # NoLine /\ IsNotification(line) /\ notifs' = Append(notifs, line.number)
                /\ line' = NoLine /\ UNCHANGED lastSeen
Dequeued     == notifs # <<>> /\ lastSeen' = Head(notifs) /\ notifs' = Tail(notifs) /\ UNCHANGED line
LineIsKept   == line' \in {line, NoLine} /\ UNCHANGED <<notifs, lastSeen>>
FromBuffer(c) ==
  callID[c] \in IDs /\ buffer[callID[c]] # NoLine /\ outcome'[c] = buffer[callID[c]]

LEMMA NextMove ==
  ASSUME TypeOK, [Next]_vars
  PROVE  FrontLine \/ Enqueued \/ Dequeued \/ LineIsKept
<1> USE DEF clientVars, pumpVars, callVars, childVars, LineIsKept
<1>1. CASE \E c \in Callers : Call(c) \/ Cancel(c) \/ MarshalFailed(c)
  BY <1>1 DEF Cancel, MarshalFailed, Call, Refused, Register, LockEncode, Written, WriteFailed, GiveUpSend,
         SelectDone, ForgetCancelled, SelectResponse, SelectClosed, ReportLost
<1>2. CASE ScanLine
  BY <1>2 DEF ScanLine, FrontLine, Scanned
<1>3. CASE HandleNotification
  BY <1>3 DEF HandleNotification, Enqueued, TypeOK, IsNotification, NoLine
<1>4. CASE ScanEnd \/ PumpDone \/ SkipLine \/ EnterHandleResponse \/ Lookup \/ Deliver
           \/ StoreReadErr \/ ReleasePending \/ CloseNotifications
  BY <1>4 DEF ScanEnd, PumpDone, SkipLine, EnterHandleResponse, Lookup, Deliver,
         StoreReadErr, ReleasePending, CloseNotifications
<1>5. CASE Receive
  BY <1>5 DEF Receive, Dequeued
<1>6. CASE Close \/ StopClosesStdin
  BY <1>6 DEF Close, StopClosesStdin
<1>7. CASE Child
  BY <1>7 DEF Child, ReadRequest, Answer, Notify, WriteUnusable, Die
<1>8. CASE UNCHANGED vars
  BY <1>8 DEF vars
<1>9. QED
  BY <1>1, <1>2, <1>3, <1>4, <1>5, <1>6, <1>7, <1>8 DEF Next, Pump

LEMMA NextBuffer ==
  ASSUME TypeOK, [Next]_vars, NEW i \in IDs, buffer'[i] # NoLine
  PROVE  \/ buffer'[i] = buffer[i]
         \/ line \in Response /\ line # NoLine /\ buffer'[i] = line
<1> USE DEF clientVars, pumpVars, callVars, childVars
<1>0. /\ buffer \in [IDs -> Response \cup {NoLine}]
      /\ pump = "deliver" => line \in Response /\ line # NoLine
  BY DEF TypeOK, Response, NoLine
<1>1. CASE \E c \in Callers : SelectResponse(c)
  BY <1>0, <1>1 DEF SelectResponse
<1>2. CASE Deliver
  BY <1>0, <1>2 DEF Deliver
<1>4. CASE \E c \in Callers : Cancel(c) \/ MarshalFailed(c) \/ (Call(c) /\ ~SelectResponse(c))
  BY <1>4 DEF Cancel, MarshalFailed, Call, Refused, Register, LockEncode, Written, WriteFailed, GiveUpSend,
         SelectDone, ForgetCancelled, SelectClosed, ReportLost
<1>5. CASE ScanLine \/ ScanEnd \/ PumpDone \/ SkipLine \/ HandleNotification
           \/ EnterHandleResponse \/ Lookup
           \/ StoreReadErr \/ ReleasePending \/ CloseNotifications
  BY <1>5 DEF ScanLine, ScanEnd, PumpDone, SkipLine, HandleNotification, EnterHandleResponse,
         Lookup, StoreReadErr, ReleasePending, CloseNotifications
<1>6. CASE Receive \/ Close \/ StopClosesStdin \/ Child
  BY <1>6 DEF Receive, Close, StopClosesStdin, Child, ReadRequest, Answer, Notify,
         WriteUnusable, Die
<1>7. CASE UNCHANGED vars
  BY <1>7 DEF vars
<1>8. QED
  BY <1>1, <1>2, <1>4, <1>5, <1>6, <1>7 DEF Next, Pump

LEMMA NextOutcome ==
  ASSUME TypeOK, [Next]_vars, NEW c \in Callers, IsResponse(outcome'[c])
  PROVE  outcome'[c] = outcome[c] \/ FromBuffer(c)
<1> USE DEF clientVars, pumpVars, callVars, childVars
<1>0. /\ outcome \in [Callers -> Outcome]
      /\ \A d \in Callers : pc[d] # "idle" => callID[d] \in IDs
  BY DEF TypeOK
<1>1. CASE \E d \in Callers : SelectResponse(d)
  BY <1>0, <1>1 DEF SelectResponse, Return, FromBuffer
<1>2. CASE \E d \in Callers : Refused(d) \/ GiveUpSend(d) \/ ForgetCancelled(d) \/ ReportLost(d)
  BY <1>0, <1>2 DEF Refused, GiveUpSend, ForgetCancelled, ReportLost, Return, IsResponse
<1>3. CASE \E d \in Callers : Cancel(d) \/ MarshalFailed(d) \/ Register(d) \/ LockEncode(d) \/ Written(d)
             \/ WriteFailed(d) \/ SelectDone(d) \/ SelectClosed(d)
  BY <1>3 DEF Cancel, MarshalFailed, Register, LockEncode, Written, WriteFailed, SelectDone, SelectClosed
<1>4. CASE Pump
  BY <1>4 DEF Pump, ScanLine, ScanEnd, PumpDone, SkipLine, HandleNotification,
         EnterHandleResponse, Lookup, Deliver, StoreReadErr, ReleasePending, CloseNotifications
<1>5. CASE Receive \/ Close \/ StopClosesStdin \/ Child
  BY <1>5 DEF Receive, Close, StopClosesStdin, Child, ReadRequest, Answer, Notify,
         WriteUnusable, Die
<1>6. CASE UNCHANGED vars
  BY <1>6 DEF vars
<1>7. QED
  BY <1>1, <1>2, <1>3, <1>4, <1>5, <1>6 DEF Next, Call

LEMMA OrderTypes ==
  ASSUME TypeOK
  PROVE  /\ sent \in Nat /\ lastSeen \in Nat
         /\ \A k \in DOMAIN stdout : k \in Nat /\ stdout[k] \in Line
         /\ \A k \in DOMAIN notifs : k \in Nat /\ notifs[k] \in Nat
         /\ line # NoLine => line \in Line
         /\ \A i \in IDs : buffer[i] # NoLine => buffer[i].after \in Nat
         /\ \A c \in Callers : IsResponse(outcome[c]) => outcome[c].after \in Nat
<1>1. /\ sent \in Nat /\ lastSeen \in Nat
      /\ \A k \in DOMAIN stdout : k \in Nat /\ stdout[k] \in Line
      /\ \A k \in DOMAIN notifs : k \in Nat /\ notifs[k] \in Nat
      /\ line # NoLine => line \in Line
  BY BoundsAssumption DEF TypeOK
<1>2. \A r \in Response : r.after \in Nat
  BY BoundsAssumption DEF Response
<1>3. \A i \in IDs : buffer[i] # NoLine => buffer[i] \in Response
  BY DEF TypeOK
<1>4. \A c \in Callers : IsResponse(outcome[c]) => outcome[c] \in Response
  BY DEF TypeOK, Outcome, IsResponse
<1>5. QED
  BY <1>1, <1>2, <1>3, <1>4

LEMMA NextPast == TypeOK /\ PipeInv /\ PastInv /\ [Next]_vars => PastInv'
<1> SUFFICES ASSUME TypeOK, PipeInv, PastInv, [Next]_vars PROVE PastInv'
  OBVIOUS
<1>0. \A n \in Nat : Past(n) => Past(n)'
  BY PastStable
<1>1. line' # NoLine => Past(Stamp(line))'
  <2>1. CASE line' = line
    <3>1. Stamp(line)' = Stamp(line)
      BY <2>1 DEF Stamp, IsNotification, IsResponse
    <3>2. QED
      BY <1>0, <2>1, <3>1, OrderTypes, StampIsNat DEF PastInv, Past
  <2>2. CASE FrontLine
    <3>1. 1 \in DOMAIN stdout /\ line' = stdout[1] /\ sent' = sent
      BY <2>2 DEF FrontLine, Scanned, TypeOK
    <3>2. Stamp(line)' = Stamp(stdout[1])
      BY <3>1 DEF Stamp, IsNotification, IsResponse
    <3>3. Stamp(stdout[1]) <= sent
      BY <3>1 DEF PipeInv
    <3>4. \A k \in DOMAIN stdout' :
            IsNotification(stdout'[k]) => Stamp(stdout[1]) < stdout'[k].number
      <4> TAKE k \in DOMAIN stdout'
      <4>1. k + 1 \in DOMAIN stdout /\ stdout'[k] = stdout[k + 1] /\ k \in Nat /\ k >= 1
        BY <2>2, ScannedLines DEF FrontLine, TypeOK, Scanned
      <4>2. 1 < k + 1
        BY <4>1
      <4>3. QED
        BY <3>1, <4>1, <4>2 DEF PipeInv
    <3>5. QED
      BY <3>1, <3>2, <3>3, <3>4 DEF Past, IsNotification
  <2>3. QED
    BY <2>1, <2>2, NextMove DEF LineIsKept, Enqueued, Dequeued
<1>2. ASSUME NEW i \in IDs, buffer'[i] # NoLine PROVE Past(buffer[i].after)'
  <2>1. CASE buffer'[i] = buffer[i]
    BY <1>0, <1>2, <2>1, OrderTypes DEF PastInv, Past
  <2>2. CASE line \in Response /\ line # NoLine /\ buffer'[i] = line
    <3>1. Stamp(line) = line.after /\ line.after \in Nat
      BY <2>2, BoundsAssumption DEF Stamp, Response, IsNotification, IsResponse
    <3>2. QED
      BY <1>0, <2>2, <3>1 DEF PastInv, Past
  <2>3. QED
    BY <1>2, <2>1, <2>2, NextBuffer
<1>3. ASSUME NEW c \in Callers, IsResponse(outcome[c])' PROVE Past(outcome[c].after)'
  <2>0. IsResponse(outcome'[c])
    BY <1>3 DEF IsResponse
  <2>1. CASE outcome'[c] = outcome[c]
    BY <1>0, <2>0, <2>1, OrderTypes DEF PastInv, Past
  <2>2. CASE FromBuffer(c)
    BY <1>0, <2>2, OrderTypes DEF PastInv, Past, FromBuffer
  <2>3. QED
    BY <2>0, <2>1, <2>2, NextOutcome
<1>4. ASSUME NEW k \in DOMAIN notifs' PROVE Past(notifs[k])'
  <2>1. \/ \E j \in DOMAIN notifs : notifs'[k] = notifs[j]
        \/ line # NoLine /\ IsNotification(line) /\ notifs'[k] = line.number
    <3>0. notifs \in Seq(1..MaxNotifs)
      BY DEF TypeOK
    <3>1. CASE Enqueued
      <4>1. line.number \in 1..MaxNotifs
        BY <3>1, OrderTypes, LineKinds DEF Enqueued
      <4>2. QED
        BY <3>0, <3>1, <4>1 DEF Enqueued
    <3>2. CASE Dequeued
      <4>1. k \in Nat /\ k + 1 \in DOMAIN notifs /\ notifs'[k] = notifs[k + 1]
        BY <3>0, <3>2 DEF Dequeued
      <4>2. QED
        BY <4>1
    <3>3. CASE UNCHANGED notifs
      BY <3>3
    <3>4. QED
      BY <3>1, <3>2, <3>3, NextMove DEF FrontLine, LineIsKept
  <2>2. line # NoLine /\ IsNotification(line) => Stamp(line) = line.number
    BY DEF Stamp
  <2>3. QED
    BY <1>0, <2>1, <2>2, OrderTypes, StampIsNat DEF PastInv, Past
<1>5. Past(lastSeen)'
  <2>1. lastSeen' = lastSeen \/ \E j \in DOMAIN notifs : lastSeen' = notifs[j]
    BY NextMove DEF FrontLine, Enqueued, Dequeued, LineIsKept, TypeOK
  <2>2. QED
    BY <1>0, <2>1, OrderTypes DEF PastInv, Past
<1>6. QED
  BY <1>1, <1>2, <1>3, <1>4, <1>5 DEF PastInv

LEMMA NextQueue == TypeOK /\ PipeInv /\ PastInv /\ QueueInv /\ [Next]_vars => QueueInv'
<1> SUFFICES ASSUME TypeOK, PipeInv, PastInv, QueueInv, [Next]_vars PROVE QueueInv'
  OBVIOUS
<1>0. notifs \in Seq(1..MaxNotifs)
  BY DEF TypeOK
<1>1. CASE FrontLine
  <2>1. 1 \in DOMAIN stdout /\ line' = stdout[1] /\ UNCHANGED <<notifs, lastSeen>>
    BY <1>1 DEF FrontLine, Scanned, TypeOK
  <2>2. IsNotification(stdout[1]) =>
          lastSeen < stdout[1].number /\ \A k \in DOMAIN notifs : notifs[k] < stdout[1].number
    BY <2>1 DEF PastInv, Past
  <2>3. QED
    BY <2>1, <2>2 DEF QueueInv, IsNotification
<1>2. CASE Enqueued
  <2>1. line.number \in 1..MaxNotifs
    BY <1>2, OrderTypes, LineKinds DEF Enqueued
  <2>2. \A k \in DOMAIN notifs' :
          \/ k \in DOMAIN notifs /\ notifs'[k] = notifs[k]
          \/ k = Len(notifs) + 1 /\ notifs'[k] = line.number
    BY <1>0, <1>2, <2>1 DEF Enqueued
  <2>3. \A k \in DOMAIN notifs : k <= Len(notifs) /\ k \in Nat
    BY <1>0
  <2>4. \A j, k \in DOMAIN notifs' : j < k => notifs'[j] < notifs'[k]
    BY <1>0, <1>2, <2>2, <2>3 DEF QueueInv, Enqueued
  <2>5. QED
    BY <1>2, <2>2, <2>4 DEF QueueInv, Enqueued
<1>3. CASE Dequeued
  <2>1. /\ 1 \in DOMAIN notifs /\ lastSeen' = notifs[1] /\ line' = line
        /\ \A k \in DOMAIN notifs' :
             k \in Nat /\ k >= 1 /\ k + 1 \in DOMAIN notifs /\ notifs'[k] = notifs[k + 1]
    BY <1>0, <1>3 DEF Dequeued
  <2>2. \A j, k \in DOMAIN notifs' : j < k => notifs'[j] < notifs'[k]
    BY <2>1 DEF QueueInv
  <2>3. \A k \in DOMAIN notifs' : lastSeen' < notifs'[k]
    <3> TAKE k \in DOMAIN notifs'
    <3>1. 1 < k + 1
      BY <2>1
    <3>2. QED
      BY <2>1, <3>1 DEF QueueInv
  <2>4. QED
    BY <2>1, <2>2, <2>3 DEF QueueInv, IsNotification
<1>4. CASE LineIsKept
  BY <1>4 DEF LineIsKept, QueueInv, IsNotification
<1>5. QED
  BY <1>1, <1>2, <1>3, <1>4, NextMove

(* Lines keep the order of the pipe wherever they are on their way.        *)
THEOREM OrderCorrect == Spec => []OrderInv
<1>1. TypeOK /\ OrderInv /\ [Next]_vars => OrderInv'
  BY NextPipe, NextPast, NextQueue DEF OrderInv
<1>2. QED
  BY <1>1, InitOrder, TypeCorrect, PTL DEF Spec

(* Once Call has returned a response, every notification that the child    *)
(* wrote before it has been taken from the pipe, and the reader receives   *)
(* the notifications in the order they were written.                       *)
THEOREM ResponsesDoNotOvertake == Spec => []NoOvertaking
<1>1. OrderInv => NoOvertaking
  BY DEF OrderInv, PastInv, QueueInv, Past, NoOvertaking
<1>2. QED
  BY <1>1, OrderCorrect, PTL

(***************************************************************************)
(* The refinement: JsonRpcClient implements RemoteCalls.  Every step of    *)
(* the client, its pump and the child is a step of what Call promises, or  *)
(* none at all.                                                            *)
(***************************************************************************)

USE DEF PumpOver

(* CausesInv is an invariant, given IInv.                                  *)

LEMMA CausesInit == Init => CausesInv
  BY DEF Init, CausesInv

(* What a step that leaves the pipe to the child and the ends of the pump  *)
(* alone has to show.                                                      *)
LEMMA CausesFrame ==
  ASSUME CausesInv,
         UNCHANGED <<nextID, buffer, chClosed, stdin, asked, pc, callID, ctxDone>>,
         stdinOpen' => stdinOpen,
         pump \in {"end", "stopped"} => pump' \in {"end", "stopped"}
  PROVE  CausesInv'
  BY DEF CausesInv

LEMMA CausesCall ==
  ASSUME IInv, CausesInv, NEW c \in Callers, Call(c)
  PROVE  CausesInv'
<1> USE DEF clientVars, pumpVars, callVars, childVars
<1>0. TypeOK /\ IDsInv /\ ChannelsInv
  BY DEF IInv
<1>1. CASE Refused(c)
  BY <1>0, <1>1 DEF Refused, Return, CausesInv, TypeOK
<1>2. CASE Register(c)
  <2>1. nextID \in Int /\ nextID' = nextID + 1 /\ callID'[c] = nextID' /\ pc'[c] = "encode"
    BY <1>0, <1>2 DEF Register, TypeOK
  <2>2. callID'[c] \notin chClosed
    BY <1>0, <2>1 DEF ChannelsInv, TypeOK, IDs
  <2>3. /\ \A k \in DOMAIN stdin' : stdin'[k] <= nextID'
        /\ \A i \in asked' : i <= nextID'
    <3>1. \A k \in DOMAIN stdin : stdin[k] \in Int
      <4>1. stdin \in Seq(IDs)
        BY <1>0 DEF TypeOK
      <4>2. \A k \in DOMAIN stdin : stdin[k] \in IDs
        BY <4>1
      <4>3. QED
        BY <4>2 DEF IDs
    <3>2. \A i \in asked : i \in Int
      BY <1>0 DEF TypeOK, IDs
    <3>3. QED
      BY <1>2, <2>1, <3>1, <3>2 DEF Register, CausesInv
  <2>4. \A d \in Callers \ {c} : pc'[d] = pc[d] /\ callID'[d] = callID[d]
    BY <1>0, <1>2 DEF Register, TypeOK
  <2>5. UNCHANGED <<buffer, chClosed, ctxDone, stdinOpen, pump>>
    BY <1>2 DEF Register
  <2>6. QED
    BY <2>1, <2>2, <2>3, <2>4, <2>5 DEF CausesInv
<1>3. CASE LockEncode(c)
  BY <1>0, <1>3 DEF LockEncode, CausesInv, TypeOK
<1>4. CASE Written(c)
  <2>1. /\ stdin' = Append(stdin, callID[c]) /\ nextID' = nextID
        /\ callID[c] <= nextID /\ stdin \in Seq(IDs)
    BY <1>0, <1>4 DEF Written, IDsInv, TypeOK
  <2>2. \A k \in DOMAIN stdin' : stdin'[k] <= nextID'
    BY <2>1 DEF CausesInv
  <2>3. QED
    BY <1>0, <1>4, <2>2 DEF Written, CausesInv, TypeOK
<1>5. CASE WriteFailed(c)
  BY <1>0, <1>5 DEF WriteFailed, CausesInv, TypeOK
<1>6. CASE GiveUpSend(c)
  BY <1>0, <1>6 DEF GiveUpSend, Forget, Return, CausesInv, TypeOK
<1>7. CASE SelectDone(c)
  BY <1>0, <1>7 DEF SelectDone, CausesInv, TypeOK
<1>8. CASE ForgetCancelled(c)
  BY <1>0, <1>8 DEF ForgetCancelled, Forget, Return, CausesInv, TypeOK
<1>9. CASE SelectResponse(c)
  <2>1. /\ callID[c] \in IDs
        /\ \A d \in Callers \ {c} : callID[d] # callID[c]
    BY <1>0, <1>9 DEF SelectResponse, TypeOK, IDsInv, IDs
  <2>2. \A d \in Callers \ {c} : buffer'[callID[d]] = buffer[callID[d]]
    BY <1>0, <1>9, <2>1 DEF SelectResponse, TypeOK
  <2>3. QED
    BY <1>0, <1>9, <2>2 DEF SelectResponse, Return, CausesInv, TypeOK
<1>10. CASE SelectClosed(c)
  BY <1>0, <1>10 DEF SelectClosed, CausesInv, TypeOK
<1>11. CASE ReportLost(c)
  BY <1>0, <1>11 DEF ReportLost, Return, CausesInv, TypeOK
<1>12. QED
  BY <1>1, <1>2, <1>3, <1>4, <1>5, <1>6, <1>7, <1>8, <1>9, <1>10, <1>11 DEF Call

LEMMA CausesPump ==
  ASSUME IInv, CausesInv, Pump
  PROVE  CausesInv'
<1> USE CausesFrame DEF clientVars, pumpVars, callVars, childVars
<1>1. CASE ScanLine
  BY <1>1 DEF ScanLine
<1>2. CASE ScanEnd
  BY <1>2 DEF ScanEnd
<1>3. CASE PumpDone
  BY <1>3 DEF PumpDone
<1>4. CASE SkipLine
  BY <1>4 DEF SkipLine
<1>5. CASE HandleNotification
  BY <1>5 DEF HandleNotification
<1>6. CASE EnterHandleResponse
  BY <1>6 DEF EnterHandleResponse
<1>7. CASE Lookup
  BY <1>7 DEF Lookup
<1>8. CASE Deliver
  <2>1. TypeOK /\ line # NoLine /\ line.id \in IDs
    BY <1>8 DEF Deliver, IInv, TypeOK, Response, NoLine
  <2>2. buffer'[line.id] # NoLine
    BY <1>8, <2>1 DEF Deliver, TypeOK
  <2>3. \A i \in IDs : i # line.id => buffer'[i] = buffer[i] /\ (i \in chClosed' <=> i \in chClosed)
    BY <1>8, <2>1 DEF Deliver, TypeOK
  <2>4. \A d \in Callers : pc[d] # "idle" => callID[d] \in IDs
    BY <2>1 DEF TypeOK
  <2>5. \A d \in Callers :
          pc[d] \in {"encode", "writing", "wait"} /\ callID[d] \in chClosed' /\ buffer'[callID[d]] = NoLine
            => pump \in {"end", "stopped"}
    BY <2>2, <2>3, <2>4 DEF CausesInv
  <2>6. \A d \in Callers : pc[d] = "lost" => pump' \in {"end", "stopped"}
    BY <1>8 DEF Deliver, CausesInv
  <2>7. QED
    BY <1>8, <2>5, <2>6 DEF Deliver, CausesInv
<1>9. CASE StoreReadErr
  BY <1>9 DEF StoreReadErr
<1>10. CASE ReleasePending
  BY <1>10 DEF ReleasePending, CausesInv
<1>11. CASE CloseNotifications
  BY <1>11 DEF CloseNotifications
<1>12. QED
  BY <1>1, <1>2, <1>3, <1>4, <1>5, <1>6, <1>7, <1>8, <1>9, <1>10, <1>11 DEF Pump

LEMMA CausesChild ==
  ASSUME IInv, CausesInv, Child
  PROVE  CausesInv'
<1> USE CausesFrame DEF clientVars, pumpVars, callVars, childVars
<1>1. CASE ReadRequest
  <2>1. stdin \in Seq(IDs) /\ stdin # <<>>
    BY <1>1 DEF ReadRequest, IInv, TypeOK
  <2>2. Head(stdin) = stdin[1] /\ 1 \in DOMAIN stdin
    BY <2>1
  <2>3. \A k \in DOMAIN Tail(stdin) : k + 1 \in DOMAIN stdin /\ Tail(stdin)[k] = stdin[k + 1]
    BY <2>1
  <2>4. /\ \A k \in DOMAIN stdin' : stdin'[k] <= nextID
        /\ \A i \in asked' : i <= nextID
    BY <1>1, <2>2, <2>3 DEF ReadRequest, CausesInv
  <2>5. QED
    BY <1>1, <2>4 DEF ReadRequest, CausesInv
<1>2. ASSUME NEW i \in IDs, Answer(i) PROVE CausesInv'
  BY <1>2 DEF Answer
<1>3. CASE Notify
  BY <1>3 DEF Notify
<1>4. CASE WriteUnusable
  BY <1>4 DEF WriteUnusable
<1>5. CASE Die
  BY <1>5 DEF Die
<1>6. QED
  BY <1>1, <1>2, <1>3, <1>4, <1>5 DEF Child

LEMMA NextCauses == IInv /\ CausesInv /\ [Next]_vars => CausesInv'
<1> SUFFICES ASSUME IInv, CausesInv, [Next]_vars PROVE CausesInv'
  OBVIOUS
<1> USE CausesFrame DEF clientVars, pumpVars, callVars, childVars
<1>1. CASE \E c \in Callers : Call(c)
  BY <1>1, CausesCall
<1>2. ASSUME NEW c \in Callers, Cancel(c) \/ MarshalFailed(c) PROVE CausesInv'
  BY <1>2 DEF Cancel, MarshalFailed, CausesInv, IInv, TypeOK
<1>3. CASE Pump
  BY <1>3, CausesPump
<1>4. CASE Receive
  BY <1>4 DEF Receive
<1>5. CASE Close
  BY <1>5 DEF Close
<1>6. CASE StopClosesStdin
  BY <1>6 DEF StopClosesStdin
<1>7. CASE Child
  BY <1>7, CausesChild
<1>8. CASE UNCHANGED vars
  BY <1>8 DEF vars
<1>9. QED
  BY <1>1, <1>2, <1>3, <1>4, <1>5, <1>6, <1>7, <1>8, NextCases

-----------------------------------------------------------------------------
(* The refinement.                                                         *)

LEMMA InitPromise == Init => Promise!Init
<1> SUFFICES ASSUME Init PROVE Promise!Init
  OBVIOUS
<1>1. InCall = {} /\ {c \in Callers : ctxDone[c]} = {} /\ ServedIDs = {}
  BY DEF Init, InCall, ServedIDs
<1>2. \A c \in Callers : Returned(outcome[c]) = [kind |-> "none", id |-> 0]
  BY DEF Init, Returned, IsResponse
<1>3. QED
  BY <1>1, <1>2 DEF Init, Promise!Init, Promise!Failure

(* A step that none of the mapped variables notices.                       *)
LEMMA Unnoticed ==
  ASSUME UNCHANGED <<nextID, pc, callID, ctxDone, outcome, answers, closed, stdinOpen>>,
         (pump' \in {"end", "stopped"}) = (pump \in {"end", "stopped"})
  PROVE  UNCHANGED Promise!vars
  BY DEF Promise!vars, Promise!connection, InCall, ServedIDs

(* Return, seen from outside: the caller leaves, with what it was given.   *)
LEMMA ReturnMaps ==
  ASSUME TypeOK, NEW c \in Callers, NEW r, Return(c, r),
         UNCHANGED <<nextID, callID, answers, closed, stdinOpen, pump>>
  PROVE  Promise!Return(c, Returned(r))
<1>1. InCall' = InCall \ {c}
  BY DEF Return, InCall, TypeOK
<1>2. {d \in Callers : ctxDone[d]}' = {d \in Callers : ctxDone[d]} \ {c}
  BY DEF Return, TypeOK
<1>3. [d \in Callers |-> Returned(outcome[d])]'
        = [[d \in Callers |-> Returned(outcome[d])] EXCEPT ![c] = Returned(r)]
  BY DEF Return, TypeOK
<1>4. ServedIDs' = ServedIDs
  BY DEF ServedIDs
<1>5. QED
  BY <1>1, <1>2, <1>3, <1>4 DEF Promise!Return, Promise!connection

LEMMA CallMaps ==
  ASSUME IInv, CausesInv, NEW c \in Callers, Call(c)
  PROVE  Promise!Next \/ UNCHANGED Promise!vars
<1> USE DEF clientVars, pumpVars, callVars, childVars
<1>0. TypeOK /\ c \in Callers
  BY DEF IInv
<1>a. \A k \in {"sendFailed", "cancelled", "connectionClosed", "closedClient"} :
        Returned([kind |-> k]) = Promise!Failure(k)
  BY DEF Returned, IsResponse, Promise!Failure
<1>b. ASSUME \/ Promise!Begin(c) \/ Promise!Refuse(c) \/ Promise!ReturnReply(c)
             \/ Promise!ReturnCancelled(c) \/ Promise!ReturnUnsent(c) \/ Promise!ReturnLost(c)
      PROVE  Promise!Next
  BY <1>b DEF Promise!Next
<1>1. CASE Refused(c)
  <2>1. Promise!Return(c, Returned([kind |-> "closedClient"])) /\ c \notin InCall /\ closed
    BY <1>0, <1>1, ReturnMaps DEF Refused, InCall
  <2>2. QED
    BY <1>a, <1>b, <2>1 DEF Promise!Refuse
<1>2. CASE Register(c)
  <2>1. InCall' = InCall \cup {c} /\ c \notin InCall
    BY <1>0, <1>2 DEF Register, InCall, TypeOK
  <2>2. /\ {d \in Callers : ctxDone[d]}' = {d \in Callers : ctxDone[d]}
        /\ [d \in Callers |-> Returned(outcome[d])]' = [d \in Callers |-> Returned(outcome[d])]
        /\ ServedIDs' = ServedIDs
    BY <1>2 DEF Register, ServedIDs
  <2>3. Promise!Begin(c)
    BY <1>2, <2>1, <2>2 DEF Register, Promise!Begin, Promise!connection
  <2>4. QED
    BY <1>b, <2>3
<1>3. CASE LockEncode(c) \/ Written(c) \/ WriteFailed(c) \/ SelectDone(c) \/ SelectClosed(c)
  <2>1. InCall' = InCall
    BY <1>0, <1>3 DEF LockEncode, Written, WriteFailed, SelectDone, SelectClosed, InCall, TypeOK
  <2>2. UNCHANGED <<nextID, callID, ctxDone, outcome, answers, closed, stdinOpen, pump>>
    BY <1>3 DEF LockEncode, Written, WriteFailed, SelectDone, SelectClosed
  <2>3. QED
    BY <2>1, <2>2 DEF Promise!vars, Promise!connection, ServedIDs
<1>4. CASE GiveUpSend(c)
  <2>1. /\ Promise!Return(c, Returned([kind |-> "sendFailed"]))
        /\ c \in InCall /\ (~stdinOpen \/ "unencodable" \in Faults)
    BY <1>0, <1>4, ReturnMaps DEF GiveUpSend, InCall, CausesInv
  <2>2. QED
    BY <1>a, <1>b, <2>1 DEF Promise!ReturnUnsent
<1>5. CASE ForgetCancelled(c)
  <2>1. /\ Promise!Return(c, Returned([kind |-> "cancelled"]))
        /\ c \in InCall /\ ctxDone[c]
    BY <1>0, <1>5, ReturnMaps DEF ForgetCancelled, InCall, CausesInv
  <2>2. QED
    BY <1>a, <1>b, <2>1 DEF Promise!ReturnCancelled
<1>6. CASE SelectResponse(c)
  <2>1. /\ callID[c] \in IDs /\ buffer[callID[c]] \in Response
        /\ buffer[callID[c]].id = callID[c] /\ callID[c] \in ServedIDs
    BY <1>0, <1>6 DEF SelectResponse, IInv, TypeOK, ChannelsInv, AnswersInv, FromChild, ServedIDs
  <2>2. PICK r : r = buffer[callID[c]]
    OBVIOUS
  <2>3. Returned(r) = Promise!Reply(callID[c])
    BY <2>1, <2>2 DEF Returned, IsResponse, Response, Promise!Reply
  <2>4. Return(c, r) /\ UNCHANGED <<nextID, callID, answers, closed, stdinOpen, pump>>
    BY <1>6, <2>2 DEF SelectResponse
  <2>5. Promise!Return(c, Returned(r)) /\ c \in InCall
    BY <1>0, <1>6, <2>4, ReturnMaps DEF SelectResponse, InCall
  <2>6. Promise!ReturnReply(c)
    BY <2>1, <2>3, <2>5 DEF Promise!ReturnReply, Promise!Return
  <2>7. QED
    BY <1>b, <2>6
<1>7. CASE ReportLost(c)
  <2>1. /\ Promise!Return(c, Returned([kind |-> "connectionClosed"]))
        /\ c \in InCall /\ pump \in {"end", "stopped"}
    BY <1>0, <1>7, ReturnMaps DEF ReportLost, InCall, CausesInv
  <2>2. QED
    BY <1>a, <1>b, <2>1 DEF Promise!ReturnLost
<1>8. QED
  BY <1>1, <1>2, <1>3, <1>4, <1>5, <1>6, <1>7 DEF Call

(* A step that reads no more replies, whatever else it does.               *)
LEMMA EndReadingMaps ==
  ASSUME UNCHANGED <<nextID, pc, callID, ctxDone, outcome, answers, closed, stdinOpen>>,
         pump' \in {"end", "stopped"}
  PROVE  Promise!Next
<1>1. Promise!EndReading
  BY DEF Promise!EndReading, InCall, ServedIDs
<1>2. QED
  BY <1>1 DEF Promise!Next

LEMMA PumpMaps ==
  ASSUME Pump
  PROVE  Promise!Next \/ UNCHANGED Promise!vars
<1> USE DEF clientVars, pumpVars, callVars, childVars
<1>1. CASE ScanLine \/ ScanEnd \/ SkipLine \/ HandleNotification \/ EnterHandleResponse
           \/ Lookup \/ Deliver \/ StoreReadErr
  <2>1. UNCHANGED <<nextID, pc, callID, ctxDone, outcome, answers, closed, stdinOpen>>
    BY <1>1 DEF ScanLine, ScanEnd, SkipLine, HandleNotification, EnterHandleResponse, Lookup,
                Deliver, StoreReadErr
  <2>2. pump \notin {"end", "stopped"} /\ pump' \notin {"end", "stopped"}
    BY <1>1 DEF ScanLine, ScanEnd, SkipLine, HandleNotification, EnterHandleResponse, Lookup,
                Deliver, StoreReadErr
  <2>3. (pump' \in {"end", "stopped"}) = (pump \in {"end", "stopped"})
    BY <2>2
  <2>4. QED
    BY <2>1, <2>3, Unnoticed
<1>2. CASE PumpDone \/ ReleasePending \/ CloseNotifications
  BY <1>2, EndReadingMaps DEF PumpDone, ReleasePending, CloseNotifications
<1>3. QED
  BY <1>1, <1>2 DEF Pump

LEMMA EndWritingMaps ==
  ASSUME UNCHANGED <<nextID, pc, callID, ctxDone, outcome, answers, closed, pump>>,
         stdinOpen' = FALSE
  PROVE  Promise!Next
<1>1. Promise!EndWriting
  BY DEF Promise!EndWriting, InCall, ServedIDs
<1>2. QED
  BY <1>1 DEF Promise!Next

LEMMA ChildMaps ==
  ASSUME IInv, CausesInv, Child
  PROVE  Promise!Next \/ UNCHANGED Promise!vars
<1> USE DEF clientVars, pumpVars, callVars, childVars
<1>1. CASE ReadRequest \/ Notify \/ WriteUnusable
  BY <1>1, Unnoticed DEF ReadRequest, Notify, WriteUnusable
<1>2. ASSUME NEW i \in IDs, Answer(i) PROVE Promise!Next
  <2>1. answers \in [IDs -> 0..2] /\ i \in 1..nextID
    BY <1>2 DEF Answer, IInv, TypeOK, CausesInv, IDs
  <2>2. ServedIDs' = ServedIDs \cup {i}
    BY <1>2, <2>1 DEF Answer, ServedIDs
  <2>3. UNCHANGED <<nextID, pc, callID, ctxDone, outcome, closed, stdinOpen, pump>>
    BY <1>2 DEF Answer
  <2>4. Promise!Serve(i)
    BY <2>1, <2>2, <2>3 DEF Promise!Serve, InCall
  <2>5. QED
    BY <2>4 DEF Promise!Next, IDs
<1>3. CASE Die
  BY <1>3, EndWritingMaps DEF Die
<1>4. QED
  BY <1>1, <1>2, <1>3 DEF Child

LEMMA StepPromise == IInv /\ CausesInv /\ [Next]_vars => [Promise!Next]_(Promise!vars)
<1> SUFFICES ASSUME IInv, CausesInv, [Next]_vars PROVE Promise!Next \/ UNCHANGED Promise!vars
  OBVIOUS
<1> USE DEF clientVars, pumpVars, callVars, childVars
<1>1. CASE \E c \in Callers : Call(c)
  BY <1>1, CallMaps
<1>a. ASSUME NEW c \in Callers, MarshalFailed(c) PROVE UNCHANGED Promise!vars
  <2>1. InCall' = InCall
    BY <1>a DEF MarshalFailed, InCall, IInv, TypeOK
  <2>2. UNCHANGED <<nextID, callID, ctxDone, outcome, answers, closed, stdinOpen, pump>>
    BY <1>a DEF MarshalFailed
  <2>3. QED
    BY <2>1, <2>2 DEF Promise!vars, Promise!connection, ServedIDs
<1>2. ASSUME NEW c \in Callers, Cancel(c) PROVE Promise!Next
  <2>1. c \in InCall /\ InCall' = InCall /\ ServedIDs' = ServedIDs
    BY <1>2 DEF Cancel, InCall, ServedIDs
  <2>2. {d \in Callers : ctxDone[d]}' = {d \in Callers : ctxDone[d]} \cup {c}
    BY <1>2 DEF Cancel, IInv, TypeOK
  <2>3. Promise!EndContext(c)
    BY <1>2, <2>1, <2>2 DEF Cancel, Promise!EndContext, Promise!connection
  <2>4. QED
    BY <2>3 DEF Promise!Next
<1>3. CASE Pump
  BY <1>3, PumpMaps
<1>4. CASE Receive
  BY <1>4, Unnoticed DEF Receive
<1>5. CASE Close
  <2>1. Promise!CloseClient
    BY <1>5 DEF Close, Promise!CloseClient, InCall, ServedIDs
  <2>2. QED
    BY <2>1 DEF Promise!Next
<1>6. CASE StopClosesStdin
  BY <1>6, EndWritingMaps DEF StopClosesStdin
<1>7. CASE Child
  BY <1>7, ChildMaps
<1>8. CASE UNCHANGED vars
  BY <1>8, Unnoticed DEF vars
<1>9. QED
  BY <1>a, <1>1, <1>2, <1>3, <1>4, <1>5, <1>6, <1>7, <1>8, NextCases

(* The JSON-RPC client implements what Call promises: its callers cannot   *)
(* tell it from RemoteCalls, for any number of callers, capacity, bound    *)
(* and fault.                                                              *)
THEOREM ClientKeepsPromise == Spec => KeepsPromise
<1>1. Spec => []CausesInv
  <2>1. Init => CausesInv
    BY CausesInit
  <2>2. IInv /\ CausesInv /\ [Next]_vars => CausesInv'
    BY NextCauses
  <2>3. QED
    BY <2>1, <2>2, InductiveInvariant, PTL DEF Spec
<1>2. QED
  BY <1>1, InitPromise, StepPromise, InductiveInvariant, PTL DEF Spec, KeepsPromise, Promise!Spec
=============================================================================
