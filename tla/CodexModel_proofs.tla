--------------------------- MODULE CodexModel_proofs ---------------------------
(***************************************************************************)
(* Proofs about CodexModel, for any number of calls and configurations,    *)
(* any capacity, any budget and any set of faults.                         *)
(***************************************************************************)
EXTENDS CodexModel, TLAPS

(***************************************************************************)
(* The inductive invariant.                                                *)
(***************************************************************************)

(* One call at a time holds m.callMu, and a call has taken and started     *)
(* exactly what the place it has reached says.                             *)
LockInv == \A c \in InCall : callMu = c

ProgressInv ==
  \A c \in Calls :
    /\ pc[c] \in {"idle", "ensure", "capture"} => object[c] = None
    /\ pc[c] \in {"idle", "ensure", "capture", "thread", "turn"} => turnChild[c] = None
    /\ pc[c] \in {"streamed", "consume"} => turnChild[c] # None
    /\ turnChild[c] # None => object[c] # None

(* An object is named after the call that made it: before that call has    *)
(* been through ensureProcess, nothing refers to it.                       *)
Unmade(o) == pc[o] \in {"idle", "ensure"}

FreshInv ==
  \A o \in Calls : Unmade(o) =>
    /\ proc # o /\ child[o] = None /\ o \notin revived
    /\ \A c \in Calls : object[c] # o

(* What is on the way in a channel belongs to a turn of that child, and so *)
(* does all that a call has seen.                                          *)
TurnsInv ==
  /\ \A k \in Calls : \A i \in DOMAIN channel[k] : turnChild[channel[k][i].turn] = k
  /\ \A c \in Calls : \A d \in seen[c] :
       turnChild[c] # None /\ turnChild[d] = turnChild[c] /\ (d # c => pc[d] = "done")

(* m.cachedKey is the configuration of a process that was started once,    *)
(* and the call that is about to take m.proc asked for it.                 *)
KeyInv ==
  /\ proc # None /\ child[proc] # None /\ proc \notin revived => config[proc] = cachedKey
  /\ \A c \in Calls : pc[c] = "capture" /\ proc # None =>
       proc \in revived \/ config[proc] = key[c]
  /\ \A c \in Calls : object[c] # None =>
       object[c] \in revived \/ config[object[c]] = key[c]

StableInv ==
  \A c \in InCall :
    pc[c] \in {"thread", "turn", "streamed", "consume"} => proc \in {object[c], None}

ProcInv == FreshInv /\ NoOrphan /\ StableInv /\ KeyInv

IInv == TypeOK /\ ProgressInv /\ LockInv /\ ProcInv /\ TurnsInv

(* The next-state relation with every action of its own.                   *)
LEMMA NextCases ==
  ASSUME Next
  PROVE  \/ \E c \in Calls : Begin(c) \/ Proceed(c) \/ Range(c) \/ CtxEnds(c) \/ Emit(c) \/ Crash(c)
         \/ RestartProcess \/ Close
  BY DEF Next

(***************************************************************************)
(* Typing.                                                                 *)
(***************************************************************************)

LEMMA InitTypeOK == Init => TypeOK
  BY CallsAssumption, BoundsAssumption DEF Init, TypeOK, PC, Results

(* What StopChild leaves of the children.                                  *)
LEMMA StopChildEffect ==
  ASSUME NEW k \in Calls, StopChild(k)
  PROVE  /\ live' = live \ {k} /\ UNCHANGED channel
         /\ ended' \in {ended, ended \cup {k}}
  BY DEF StopChild

(* Goto moves one call, Leave ends it and gives the mutex back.            *)
LEMMA GotoTypes ==
  ASSUME TypeOK, NEW c \in Calls, NEW l \in PC, Goto(c, l)
  PROVE  pc' \in [Calls -> PC]
  BY DEF TypeOK, Goto

LEMMA LeaveTypes ==
  ASSUME TypeOK, NEW c \in Calls, NEW r \in Results, Leave(c, r)
  PROVE  /\ pc' \in [Calls -> PC] /\ result' \in [Calls -> Results]
         /\ callMu' = None
  BY DEF TypeOK, Leave, Goto, PC

LEMMA RunningIsCall ==
  ASSUME TypeOK, NEW o, Running(o), o \in Calls \cup {None}
  PROVE  o \in Calls /\ child[o] \in Calls /\ child[o] \in live
  BY DEF TypeOK, Running

LEMMA MakeProcessTypes ==
  ASSUME TypeOK, NEW c \in Calls, MakeProcess(c), key[c] \in Keys \cup {NoKey}
  PROVE  /\ proc' \in Calls /\ config' \in [Calls -> Keys \cup {NoKey}] /\ revived' \subseteq Calls
  BY DEF TypeOK, MakeProcess

(* A receive takes the oldest notification of the child of the turn.       *)
LEMMA TakeTypes ==
  ASSUME TypeOK, ProgressInv, NEW c \in Calls, NEW k, Take(c, k)
  PROVE  LET n == Head(channel[turnChild[c]]) IN
         /\ turnChild[c] \in Calls /\ n \in Notif /\ n.turn \in Calls
         /\ seen' = [seen EXCEPT ![c] = @ \cup {n.turn}]
         /\ channel' = [channel EXCEPT ![turnChild[c]] = Tail(@)]
         /\ channel' \in [Calls -> Seq(Notif)]
         /\ \A j \in Calls : Len(channel'[j]) <= Cap
<1>1. turnChild[c] \in Calls /\ pc[c] = "consume"
  BY DEF TypeOK, ProgressInv, Take
<1>2. channel[turnChild[c]] \in Seq(Notif) /\ channel[turnChild[c]] # <<>>
  BY <1>1 DEF TypeOK, Take
<1>3. /\ Head(channel[turnChild[c]]) \in Notif
      /\ Tail(channel[turnChild[c]]) \in Seq(Notif)
      /\ Len(Tail(channel[turnChild[c]])) <= Len(channel[turnChild[c]])
  BY <1>2
<1>4. channel' = [channel EXCEPT ![turnChild[c]] = Tail(channel[turnChild[c]])]
  BY DEF Take
<1>5. channel' \in [Calls -> Seq(Notif)]
  BY <1>1, <1>3, <1>4 DEF TypeOK
<1>6. \A j \in Calls : Len(channel'[j]) <= Cap
  <2> SUFFICES ASSUME NEW j \in Calls PROVE Len(channel'[j]) <= Cap
    OBVIOUS
  <2>1. Len(channel[j]) <= Cap /\ Len(channel[j]) \in Nat
    BY DEF TypeOK
  <2>2. CASE j = turnChild[c]
    <3>1. channel'[j] = Tail(channel[j])
      BY <1>1, <1>4, <2>2 DEF TypeOK
    <3>2. Len(Tail(channel[j])) \in Nat
      BY <1>3, <2>2
    <3>3. QED
      BY <1>3, <2>1, <2>2, <3>1, <3>2, BoundsAssumption
  <2>3. CASE j # turnChild[c]
    BY <1>1, <1>4, <2>1, <2>3 DEF TypeOK
  <2>4. QED
    BY <2>2, <2>3
<1>7. QED
  BY <1>1, <1>3, <1>4, <1>5, <1>6 DEF Take, Notif

LEMMA ProceedTypeOK ==
  ASSUME TypeOK, ProgressInv, NEW c \in Calls, Proceed(c)
  PROVE  TypeOK'
<1> USE DEF procVars, outVars, callVars, rest
<1>0. /\ "done" \in PC /\ "capture" \in PC /\ "thread" \in PC /\ "turn" \in PC
      /\ "streamed" \in PC /\ "consume" \in PC
      /\ "error" \in Results /\ "panic" \in Results /\ "stopped" \in Results
      /\ "response" \in Results /\ "overBudget" \in Results
  BY DEF PC, Results
<1>1. CASE EnsureReuse(c)
  BY <1>0, <1>1 DEF EnsureReuse, Goto, TypeOK
<1>2. CASE EnsureStop(c)
  <2>1. child[proc] \in Calls
    BY <1>2, RunningIsCall DEF EnsureStop, TypeOK
  <2>2. QED
    BY <1>2, <2>1, StopChildEffect DEF EnsureStop, TypeOK
<1>3. CASE EnsureStart(c)
  <2>1. proc' \in Calls /\ config' \in [Calls -> Keys \cup {NoKey}] /\ revived' \subseteq Calls
    BY <1>3, MakeProcessTypes DEF EnsureStart, TypeOK
  <2>2. QED
    BY <1>0, <1>3, <2>1 DEF EnsureStart, Goto, TypeOK
<1>4. CASE EnsureFails(c)
  <2>1. proc' \in Calls /\ config' \in [Calls -> Keys \cup {NoKey}] /\ revived' \subseteq Calls
    BY <1>4, MakeProcessTypes DEF EnsureFails, TypeOK
  <2>2. QED
    BY <1>0, <1>4, <2>1, LeaveTypes DEF EnsureFails, TypeOK
<1>5. CASE Capture(c)
  <2>1. CASE proc = None
    BY <1>0, <1>5, <2>1, LeaveTypes DEF Capture, TypeOK
  <2>2. CASE proc # None
    <3>1. object' \in [Calls -> Calls \cup {None}] /\ pc' \in [Calls -> PC]
      BY <1>0, <1>5, <2>2, GotoTypes DEF Capture, TypeOK
    <3>2. QED
      BY <1>5, <2>2, <3>1 DEF Capture, TypeOK
  <2>3. QED
    BY <2>1, <2>2
<1>6. CASE StartThread(c)
  BY <1>0, <1>6, LeaveTypes DEF StartThread, Goto, TypeOK
<1>7. CASE StartTurn(c)
  <2>1. CASE /\ Running(object[c]) /\ turnChild' = [turnChild EXCEPT ![c] = child[object[c]]]
    <3>1. child[object[c]] \in Calls
      BY <2>1, RunningIsCall DEF TypeOK
    <3>2. turnChild' \in [Calls -> Calls \cup {None}]
      BY <2>1, <3>1 DEF TypeOK
    <3>3. CASE AfterTurn(c) /\ UNCHANGED result
      BY <1>0, <1>7, <3>2, <3>3 DEF StartTurn, AfterTurn, Goto, TypeOK
    <3>4. CASE Leave(c, "error")
      BY <1>0, <1>7, <3>2, <3>4, LeaveTypes DEF StartTurn, TypeOK
    <3>5. QED
      BY <1>0, <1>7, <3>2, <3>3, <3>4, LeaveTypes DEF StartTurn, AfterTurn, Goto, TypeOK, Leave
  <2>2. CASE Leave(c, "error") /\ UNCHANGED turnChild
    BY <1>0, <1>7, <2>2, LeaveTypes DEF StartTurn, TypeOK
  <2>3. QED
    BY <1>7, <2>1, <2>2 DEF StartTurn
<1>8. CASE ConsumeCancelled(c)
  BY <1>0, <1>8, LeaveTypes DEF ConsumeCancelled, TypeOK
<1>9. CASE ConsumeClosed(c)
  BY <1>0, <1>9, LeaveTypes DEF ConsumeClosed, TypeOK
<1>10. CASE ConsumeDelta(c) \/ ConsumeGarbled(c) \/ ConsumeFinish(c)
  <2>1. PICK k \in {"delta", "garbled", "completed"} : Take(c, k)
    BY <1>10 DEF ConsumeDelta, ConsumeGarbled, ConsumeFinish
  <2>2. /\ channel' \in [Calls -> Seq(Notif)] /\ \A j \in Calls : Len(channel'[j]) <= Cap
        /\ seen' \in [Calls -> SUBSET Calls]
        /\ Head(channel[turnChild[c]]).turn \in Calls
    <3>1. /\ turnChild[c] \in Calls /\ Head(channel[turnChild[c]]).turn \in Calls
          /\ seen' = [seen EXCEPT ![c] = @ \cup {Head(channel[turnChild[c]]).turn}]
          /\ channel' \in [Calls -> Seq(Notif)] /\ \A j \in Calls : Len(channel'[j]) <= Cap
      BY <2>1, TakeTypes
    <3>2. QED
      BY <3>1 DEF TypeOK
  <2>3. pc' \in [Calls -> PC] /\ result' \in [Calls -> Results] /\ callMu' \in Calls \cup {None}
    BY <1>0, <1>10, LeaveTypes DEF ConsumeDelta, ConsumeGarbled, ConsumeFinish, TypeOK
  <2>4. monitored' \subseteq Calls
    BY <1>10, <2>2 DEF ConsumeDelta, ConsumeGarbled, ConsumeFinish, TypeOK
  <2>5. QED
    BY <2>1, <2>2, <2>3, <2>4 DEF Take, TypeOK
<1>11. QED
  BY <1>1, <1>2, <1>3, <1>4, <1>5, <1>6, <1>7, <1>8, <1>9, <1>10 DEF Proceed

LEMMA EmitTypeOK ==
  ASSUME TypeOK, NEW t \in Calls, Emit(t)
  PROVE  TypeOK'
<1> DEFINE k == turnChild[t]
<1>1. k \in Calls /\ emitted[t] \in 0..2 /\ emitted[t] < 2
  BY DEF Emit, TypeOK
<1> PICK n \in Notif :
      /\ channel' = IF Len(channel[k]) < Cap THEN [channel EXCEPT ![k] = Append(@, n)] ELSE channel
      /\ lost' \in {lost, lost \cup {t}}
  BY DEF Emit
<1>2. emitted' \in [Calls -> 0..2]
  <2>1. emitted' = [emitted EXCEPT ![t] = emitted[t] + 1] /\ emitted[t] + 1 \in 0..2
    BY <1>1 DEF Emit
  <2>2. QED
    BY <2>1 DEF TypeOK
<1>3. channel' \in [Calls -> Seq(Notif)] /\ \A j \in Calls : Len(channel'[j]) <= Cap
  <2>1. CASE Len(channel[k]) < Cap
    <3>1. channel' = [channel EXCEPT ![k] = Append(channel[k], n)] /\ channel[k] \in Seq(Notif)
      BY <1>1, <2>1 DEF TypeOK
    <3>2. /\ Append(channel[k], n) \in Seq(Notif)
          /\ Len(Append(channel[k], n)) = Len(channel[k]) + 1
      BY <3>1
    <3>3. Len(Append(channel[k], n)) <= Cap
      BY <2>1, <3>1, <3>2, BoundsAssumption
    <3>4. QED
      BY <1>1, <3>1, <3>2, <3>3 DEF TypeOK
  <2>2. CASE ~(Len(channel[k]) < Cap)
    BY <2>2 DEF TypeOK
  <2>3. QED
    BY <2>1, <2>2
<1>4. QED
  BY <1>2, <1>3 DEF Emit, TypeOK, procVars, callVars

LEMMA NextTypeOK == TypeOK /\ ProgressInv /\ [Next]_vars => TypeOK'
<1> SUFFICES ASSUME TypeOK, ProgressInv, [Next]_vars PROVE TypeOK'
  OBVIOUS
<1> USE DEF procVars, outVars, callVars, rest
<1>1. ASSUME NEW c \in Calls, Begin(c) PROVE TypeOK'
  BY <1>1, CallsAssumption DEF Begin, Goto, TypeOK, PC
<1>2. ASSUME NEW c \in Calls, Proceed(c) PROVE TypeOK'
  BY <1>2, ProceedTypeOK
<1>3. ASSUME NEW c \in Calls, Range(c) PROVE TypeOK'
  <2>1. CASE Goto(c, "consume") /\ UNCHANGED <<result, callMu>>
    BY <1>3, <2>1, GotoTypes DEF Range, TypeOK, PC
  <2>2. CASE Leave(c, "stopped")
    BY <1>3, <2>2, LeaveTypes DEF Range, TypeOK, Results
  <2>3. QED
    BY <1>3, <2>1, <2>2 DEF Range
<1>4. ASSUME NEW c \in Calls, CtxEnds(c) PROVE TypeOK'
  BY <1>4 DEF CtxEnds, TypeOK
<1>5. ASSUME NEW c \in Calls, Emit(c) PROVE TypeOK'
  BY <1>5, EmitTypeOK
<1>6. ASSUME NEW c \in Calls, Crash(c) PROVE TypeOK'
  BY <1>6 DEF Crash, TypeOK
<1>7. CASE RestartProcess
  BY <1>7, RunningIsCall, StopChildEffect DEF RestartProcess, TypeOK
<1>8. CASE Close
  <2>1. child[proc] \in Calls
    BY <1>8, RunningIsCall DEF Close, TypeOK
  <2>2. live' \subseteq Calls /\ ended' \subseteq Calls /\ UNCHANGED channel
    BY <1>8, <2>1 DEF Close, StopChild, TypeOK
  <2>3. QED
    BY <1>8, <2>2 DEF Close, TypeOK
<1>9. CASE UNCHANGED vars
  BY <1>9 DEF vars, TypeOK
<1>10. QED
  BY <1>1, <1>2, <1>3, <1>4, <1>5, <1>6, <1>7, <1>8, <1>9, NextCases

(***************************************************************************)
(* How far a call is, and who holds m.callMu.                              *)
(***************************************************************************)

(* What is not a step of a call leaves the calls alone.                    *)
LEMMA OthersFrame ==
  ASSUME [Next]_vars,
         ~ \E c \in Calls : Begin(c) \/ Proceed(c) \/ Range(c)
  PROVE  UNCHANGED callVars
  BY DEF Next, CtxEnds, Emit, Crash, RestartProcess, Close, procVars, outVars, callVars, vars

LEMMA NextProgress == TypeOK /\ ProgressInv /\ LockInv /\ [Next]_vars => ProgressInv' /\ LockInv'
<1> SUFFICES ASSUME TypeOK, ProgressInv, LockInv, [Next]_vars PROVE ProgressInv' /\ LockInv'
  OBVIOUS
<1> USE DEF ProgressInv, LockInv, InCall, callVars, Goto, Leave
<1>0. /\ pc \in [Calls -> PC] /\ object \in [Calls -> Calls \cup {None}]
      /\ turnChild \in [Calls -> Calls \cup {None}] /\ None \notin Calls
  BY CallsAssumption DEF TypeOK
<1>1. ASSUME NEW c \in Calls, Begin(c) PROVE ProgressInv' /\ LockInv'
  BY <1>0, <1>1 DEF Begin
<1>2. ASSUME NEW c \in Calls, EnsureReuse(c) PROVE ProgressInv' /\ LockInv'
  BY <1>0, <1>2 DEF EnsureReuse
<1>3. ASSUME NEW c \in Calls, EnsureStop(c) PROVE ProgressInv' /\ LockInv'
  BY <1>0, <1>3 DEF EnsureStop
<1>4. ASSUME NEW c \in Calls, EnsureStart(c) PROVE ProgressInv' /\ LockInv'
  BY <1>0, <1>4 DEF EnsureStart
<1>5. ASSUME NEW c \in Calls, EnsureFails(c) PROVE ProgressInv' /\ LockInv'
  BY <1>0, <1>5 DEF EnsureFails
<1>6. ASSUME NEW c \in Calls, Capture(c) PROVE ProgressInv' /\ LockInv'
  BY <1>0, <1>6 DEF Capture
<1>7. ASSUME NEW c \in Calls, StartThread(c) PROVE ProgressInv' /\ LockInv'
  BY <1>0, <1>7 DEF StartThread
<1>8. ASSUME NEW c \in Calls, StartTurn(c) PROVE ProgressInv' /\ LockInv'
  BY <1>0, <1>8, RunningIsCall DEF StartTurn, AfterTurn
<1>9. ASSUME NEW c \in Calls, Range(c) PROVE ProgressInv' /\ LockInv'
  BY <1>0, <1>9 DEF Range
<1>10. ASSUME NEW c \in Calls, ConsumeCancelled(c) PROVE ProgressInv' /\ LockInv'
  BY <1>0, <1>10 DEF ConsumeCancelled
<1>11. ASSUME NEW c \in Calls, ConsumeClosed(c) PROVE ProgressInv' /\ LockInv'
  BY <1>0, <1>11 DEF ConsumeClosed
<1>12. ASSUME NEW c \in Calls, ConsumeDelta(c) PROVE ProgressInv' /\ LockInv'
  BY <1>0, <1>12 DEF ConsumeDelta, Take
<1>13. ASSUME NEW c \in Calls, ConsumeGarbled(c) PROVE ProgressInv' /\ LockInv'
  BY <1>0, <1>13 DEF ConsumeGarbled, Take
<1>14. ASSUME NEW c \in Calls, ConsumeFinish(c) PROVE ProgressInv' /\ LockInv'
  BY <1>0, <1>14 DEF ConsumeFinish, Take
<1>15. CASE UNCHANGED callVars
  BY <1>15
<1>16. QED
  BY <1>1, <1>2, <1>3, <1>4, <1>5, <1>6, <1>7, <1>8, <1>9, <1>10, <1>11, <1>12, <1>13, <1>14, <1>15,
     OthersFrame DEF Proceed

(***************************************************************************)
(* The process: whose child runs, and with which configuration.            *)
(***************************************************************************)
(* When IsRunning is false no child runs at all.                           *)
LEMMA NothingRuns ==
  ASSUME NoOrphan, ~Running(proc)
  PROVE  live = {}
  BY DEF NoOrphan, Running

(* When it is true the child of m.proc is the only one.                    *)
LEMMA OnlyOneRuns ==
  ASSUME NoOrphan, Running(proc)
  PROVE  live = {child[proc]}
  BY DEF NoOrphan, Running

LEMMA InitProc == Init => ProcInv
  BY CallsAssumption DEF Init, ProcInv, FreshInv, NoOrphan, StableInv, KeyInv, Unmade, InCall

LEMMA ProcFrame ==
  ASSUME ProcInv, UNCHANGED <<procVars, pc, key, object>>, live' \subseteq live
  PROVE  ProcInv'
  BY DEF ProcInv, FreshInv, NoOrphan, StableInv, KeyInv, Unmade, InCall, procVars

LEMMA NextProc == TypeOK /\ ProgressInv /\ LockInv /\ ProcInv /\ [Next]_vars => ProcInv'
<1> SUFFICES ASSUME TypeOK, ProgressInv, LockInv, ProcInv, [Next]_vars PROVE ProcInv'
  OBVIOUS
<1> USE DEF ProcInv, callVars, procVars, outVars
<1>0. /\ pc \in [Calls -> PC] /\ object \in [Calls -> Calls \cup {None}]
      /\ config \in [Calls -> Keys \cup {NoKey}] /\ key \in [Calls -> Keys \cup {NoKey}]
      /\ child \in [Calls -> Calls \cup {None}] /\ live \subseteq Calls /\ None \notin Calls
      /\ proc \in Calls \cup {None}
  BY CallsAssumption DEF TypeOK
<1>1. ASSUME NEW c \in Calls, Begin(c) PROVE ProcInv'
  BY <1>0, <1>1
  DEF Begin, Goto, FreshInv, NoOrphan, StableInv, KeyInv, Unmade, InCall, ProgressInv
<1>2. ASSUME NEW c \in Calls, EnsureReuse(c) PROVE ProcInv'
  BY <1>0, <1>2
  DEF EnsureReuse, Goto, FreshInv, NoOrphan, StableInv, KeyInv, Unmade, InCall, Running
<1>3. ASSUME NEW c \in Calls, EnsureStop(c) PROVE ProcInv'
  <2>1. live' = {} /\ proc' = None
    BY <1>3, OnlyOneRuns DEF EnsureStop, StopChild
  <2>2. QED
    BY <1>0, <1>3, <2>1 DEF EnsureStop, FreshInv, NoOrphan, StableInv, KeyInv, Unmade, InCall
<1>4. ASSUME NEW c \in Calls, EnsureStart(c) PROVE ProcInv'
  <2>1. live' = {c} /\ pc[c] = "ensure" /\ pc' = [pc EXCEPT ![c] = "capture"] /\ UNCHANGED <<key, object>>
    BY <1>4, NothingRuns DEF EnsureStart, Goto
  <2>2. child' = [child EXCEPT ![proc'] = c] /\ proc' \in Calls /\ cachedKey' = key[c]
    BY <1>0, <1>4 DEF EnsureStart, MakeProcess
  <2>3. \A d \in Calls \ {c} : pc[d] \in {"idle", "done"}
    BY <2>1 DEF LockInv, InCall
  <2>4. FreshInv'
    BY <1>0, <1>4, <2>1, <2>2 DEF EnsureStart, MakeProcess, FreshInv, Unmade
  <2>5. NoOrphan'
    BY <1>0, <2>1, <2>2 DEF NoOrphan
  <2>6. StableInv'
    BY <1>0, <2>1, <2>3 DEF StableInv, InCall
  <2>7. KeyInv'
    BY <1>0, <1>4, <2>1, <2>2, <2>3 DEF EnsureStart, MakeProcess, KeyInv, FreshInv, Unmade
  <2>8. QED
    BY <2>4, <2>5, <2>6, <2>7
<1>5. ASSUME NEW c \in Calls, EnsureFails(c) PROVE ProcInv'
  <2>1. live' = {} /\ pc[c] = "ensure" /\ pc' = [pc EXCEPT ![c] = "done"] /\ UNCHANGED <<key, object, child, cachedKey>>
    BY <1>5, NothingRuns DEF EnsureFails, Leave, Goto
  <2>2. proc' \in Calls
    BY <1>0, <1>5 DEF EnsureFails, MakeProcess
  <2>3. \A d \in Calls \ {c} : pc[d] \in {"idle", "done"}
    BY <2>1 DEF LockInv, InCall
  <2>4. FreshInv'
    BY <1>0, <1>5, <2>1, <2>2 DEF EnsureFails, MakeProcess, FreshInv, Unmade
  <2>5. NoOrphan'
    BY <2>1 DEF NoOrphan
  <2>6. StableInv'
    BY <1>0, <2>1, <2>3 DEF StableInv, InCall
  <2>7. KeyInv'
    BY <1>0, <1>5, <2>1, <2>2, <2>3 DEF EnsureFails, MakeProcess, KeyInv, FreshInv, Unmade
  <2>8. QED
    BY <2>4, <2>5, <2>6, <2>7
<1>6. ASSUME NEW c \in Calls, Capture(c) PROVE ProcInv'
  BY <1>0, <1>6 DEF Capture, Goto, Leave, FreshInv, NoOrphan, StableInv, KeyInv, Unmade, InCall
<1>7. ASSUME NEW c \in Calls, StartThread(c) PROVE ProcInv'
  BY <1>0, <1>7
  DEF StartThread, Goto, Leave, FreshInv, NoOrphan, StableInv, KeyInv, Unmade, InCall
<1>8. ASSUME NEW c \in Calls, StartTurn(c) PROVE ProcInv'
  BY <1>0, <1>8
  DEF StartTurn, AfterTurn, Goto, Leave, FreshInv, NoOrphan, StableInv, KeyInv, Unmade, InCall
<1>9. ASSUME NEW c \in Calls, Range(c) PROVE ProcInv'
  BY <1>0, <1>9 DEF Range, Goto, Leave, FreshInv, NoOrphan, StableInv, KeyInv, Unmade, InCall
<1>10. ASSUME NEW c \in Calls, ConsumeCancelled(c) \/ ConsumeClosed(c) PROVE ProcInv'
  BY <1>0, <1>10
  DEF ConsumeCancelled, ConsumeClosed, Goto, Leave, FreshInv, NoOrphan, StableInv, KeyInv,
      Unmade, InCall
<1>11. ASSUME NEW c \in Calls, ConsumeDelta(c) \/ ConsumeGarbled(c) \/ ConsumeFinish(c) PROVE ProcInv'
  BY <1>0, <1>11
  DEF ConsumeDelta, ConsumeGarbled, ConsumeFinish, Take, Goto, Leave, FreshInv, NoOrphan,
      StableInv, KeyInv, Unmade, InCall
<1>12. CASE RestartProcess
  <2>1. live' = {} /\ proc' = None
    BY <1>12, OnlyOneRuns, NothingRuns DEF RestartProcess, StopChild
  <2>2. QED
    BY <1>0, <1>12, <2>1 DEF RestartProcess, FreshInv, NoOrphan, StableInv, KeyInv, Unmade, InCall
<1>13. CASE Close
  BY <1>13, ProcFrame DEF Close, StopChild
<1>14. ASSUME NEW c \in Calls, CtxEnds(c) \/ Emit(c) \/ Crash(c) PROVE ProcInv'
  BY <1>14, ProcFrame DEF CtxEnds, Emit, Crash
<1>15. CASE UNCHANGED vars
  BY <1>15, ProcFrame DEF vars
<1>16. QED
  BY <1>1, <1>2, <1>3, <1>4, <1>5, <1>6, <1>7, <1>8, <1>9, <1>10, <1>11, <1>12, <1>13, <1>14, <1>15,
     NextCases DEF Proceed

(***************************************************************************)
(* Turns: what travels in a channel, and what the calls have seen.         *)
(***************************************************************************)

LEMMA InitTurns == Init => TurnsInv
<1> SUFFICES ASSUME Init PROVE TurnsInv
  OBVIOUS
<1>1. \A k \in Calls : channel[k] = <<>> /\ seen[k] = {}
  BY DEF Init
<1>2. \A k \in Calls : DOMAIN channel[k] = {}
  BY <1>1
<1>3. QED
  BY <1>1, <1>2 DEF TurnsInv

LEMMA TurnsFrame ==
  ASSUME TypeOK, TurnsInv, UNCHANGED <<channel, turnChild, seen>>,
         \A d \in Calls : pc[d] = "done" => pc'[d] = "done"
  PROVE  TurnsInv'
  BY DEF TypeOK, TurnsInv

(* A call that reaches StartTurn is named by no notification yet.          *)
LEMMA TurnsStartTurn ==
  ASSUME TypeOK, ProgressInv, TurnsInv, NEW c \in Calls, StartTurn(c)
  PROVE  TurnsInv'
<1> USE DEF outVars, procVars, rest
<1>1. /\ turnChild[c] = None /\ pc[c] = "turn" /\ UNCHANGED <<channel, seen>>
      /\ turnChild' = [turnChild EXCEPT ![c] = turnChild'[c]]
  BY DEF ProgressInv, StartTurn, TypeOK
<1>2. \A k \in Calls : \A i \in DOMAIN channel[k] : channel[k][i].turn # c
  BY <1>1, CallsAssumption DEF TurnsInv
<1>3. \A d \in Calls : c \notin seen[d]
  BY <1>1 DEF TurnsInv
<1>4. seen[c] = {}
  BY <1>1 DEF TurnsInv, TypeOK
<1>5. \A d \in Calls \ {c} : pc'[d] = pc[d]
  BY DEF StartTurn, AfterTurn, Leave, Goto, TypeOK
<1>6. \A k \in Calls : \A i \in DOMAIN channel[k] : channel[k][i].turn \in Calls
  <2>1. \A k \in Calls : channel[k] \in Seq(Notif)
    BY DEF TypeOK
  <2>2. \A k \in Calls : \A i \in DOMAIN channel[k] : channel[k][i] \in Notif
    BY <2>1
  <2>3. QED
    BY <2>2 DEF Notif
<1>7. \A d \in Calls : turnChild'[d] = IF d = c THEN turnChild'[c] ELSE turnChild[d]
  BY <1>1 DEF TypeOK
<1>8. seen \in [Calls -> SUBSET Calls]
  BY DEF TypeOK
<1>9. QED
  BY <1>1, <1>2, <1>3, <1>4, <1>5, <1>6, <1>7, <1>8 DEF TurnsInv

(* What a call takes from the channel is its own turn, or one that ended.  *)
LEMMA TurnsTake ==
  ASSUME TypeOK, ProgressInv, LockInv, TurnsInv, NEW c \in Calls, NEW k, Take(c, k),
         \A d \in Calls : pc[d] = "done" => pc'[d] = "done"
  PROVE  TurnsInv'
<1> DEFINE ch == turnChild[c]
           n  == Head(channel[ch])
<1>1. /\ ch \in Calls /\ n \in Notif /\ n.turn \in Calls
      /\ seen' = [seen EXCEPT ![c] = @ \cup {n.turn}]
      /\ channel' = [channel EXCEPT ![ch] = Tail(@)]
  BY TakeTypes
<1>2. channel[ch] \in Seq(Notif) /\ channel[ch] # <<>>
  BY <1>1 DEF Take, TypeOK
<1>3. 1 \in DOMAIN channel[ch] /\ n = channel[ch][1]
  BY <1>2
<1>4. turnChild[n.turn] = ch
  BY <1>1, <1>3 DEF TurnsInv
<1>5. n.turn # c => pc[n.turn] = "done"
  <2>1. pc[c] = "consume" /\ pc \in [Calls -> PC]
    BY DEF Take, TypeOK
  <2>2. turnChild[n.turn] # None
    BY <1>1, <1>4, CallsAssumption
  <2>3. pc[n.turn] # "idle"
    BY <1>1, <2>2 DEF ProgressInv
  <2>4. QED
    BY <1>1, <2>1, <2>3 DEF LockInv, InCall
<1>6. \A i \in DOMAIN Tail(channel[ch]) :
        i + 1 \in DOMAIN channel[ch] /\ Tail(channel[ch])[i] = channel[ch][i + 1]
  BY <1>2
<1>7. UNCHANGED turnChild
  BY DEF Take
<1>8. \A j \in Calls : \A i \in DOMAIN channel'[j] : turnChild'[channel'[j][i].turn] = j
  <2> SUFFICES ASSUME NEW j \in Calls, NEW i \in DOMAIN channel'[j]
               PROVE  turnChild[channel'[j][i].turn] = j
    BY <1>7
  <2>1. CASE j = ch
    BY <1>1, <1>6, <2>1 DEF TypeOK, TurnsInv
  <2>2. CASE j # ch
    BY <1>1, <2>2 DEF TypeOK, TurnsInv
  <2>3. QED
    BY <2>1, <2>2
<1>9. \A d \in Calls : seen'[d] = IF d = c THEN seen[d] \cup {n.turn} ELSE seen[d]
  BY <1>1 DEF TypeOK
<1>10. ch # None
  BY <1>1, CallsAssumption
<1>11. \A a \in Calls : \A d \in seen[a] : d \in Calls
  BY DEF TypeOK
<1>12. QED
  BY <1>1, <1>4, <1>5, <1>7, <1>8, <1>9, <1>10, <1>11 DEF TurnsInv

LEMMA TurnsEmit ==
  ASSUME TypeOK, TurnsInv, NEW t \in Calls, Emit(t)
  PROVE  TurnsInv'
<1> DEFINE k == turnChild[t]
<1>1. k \in Calls /\ UNCHANGED <<turnChild, seen, pc>>
  BY DEF Emit, TypeOK, callVars
<1> PICK n \in Notif :
      /\ n.turn = t
      /\ channel' = IF Len(channel[k]) < Cap THEN [channel EXCEPT ![k] = Append(@, n)] ELSE channel
  BY DEF Emit
<1>2. channel[k] \in Seq(Notif)
  BY <1>1 DEF TypeOK
<1>3. \A i \in DOMAIN Append(channel[k], n) :
        Append(channel[k], n)[i] = n \/ (i \in DOMAIN channel[k] /\ Append(channel[k], n)[i] = channel[k][i])
  BY <1>2
<1>4. \A j \in Calls : \A i \in DOMAIN channel'[j] : turnChild[channel'[j][i].turn] = j
  <2> SUFFICES ASSUME NEW j \in Calls, NEW i \in DOMAIN channel'[j]
               PROVE  turnChild[channel'[j][i].turn] = j
    OBVIOUS
  <2>1. CASE j = k /\ Len(channel[k]) < Cap
    <3>1. channel'[j] = Append(channel[k], n)
      BY <1>1, <2>1 DEF TypeOK
    <3>2. QED
      BY <1>1, <1>3, <2>1, <3>1 DEF TurnsInv
  <2>2. CASE ~(j = k /\ Len(channel[k]) < Cap)
    BY <1>1, <2>2 DEF TypeOK, TurnsInv
  <2>3. QED
    BY <2>1, <2>2
<1>5. QED
  BY <1>1, <1>4 DEF TurnsInv

LEMMA NextTurns == TypeOK /\ ProgressInv /\ LockInv /\ TurnsInv /\ [Next]_vars => TurnsInv'
<1> SUFFICES ASSUME TypeOK, ProgressInv, LockInv, TurnsInv, [Next]_vars PROVE TurnsInv'
  OBVIOUS
<1> USE DEF callVars, procVars, outVars, rest
<1>0. pc \in [Calls -> PC]
  BY DEF TypeOK
<1>1. ASSUME NEW c \in Calls, Begin(c) \/ Range(c) PROVE TurnsInv'
  BY <1>0, <1>1, TurnsFrame DEF Begin, Range, Goto, Leave
<1>2. ASSUME NEW c \in Calls, EnsureReuse(c) \/ EnsureStop(c) \/ EnsureStart(c) \/ EnsureFails(c)
      PROVE  TurnsInv'
  BY <1>0, <1>2, TurnsFrame
  DEF EnsureReuse, EnsureStop, StopChild, EnsureStart, EnsureFails, Goto, Leave
<1>3. ASSUME NEW c \in Calls, Capture(c) \/ StartThread(c) \/ ConsumeCancelled(c) \/ ConsumeClosed(c)
      PROVE  TurnsInv'
  BY <1>0, <1>3, TurnsFrame DEF Capture, StartThread, ConsumeCancelled, ConsumeClosed, Goto, Leave
<1>4. ASSUME NEW c \in Calls, StartTurn(c) PROVE TurnsInv'
  BY <1>4, TurnsStartTurn
<1>5. ASSUME NEW c \in Calls, ConsumeDelta(c) \/ ConsumeGarbled(c) \/ ConsumeFinish(c)
      PROVE  TurnsInv'
  <2>1. \A d \in Calls : pc[d] = "done" => pc'[d] = "done"
    BY <1>0, <1>5 DEF ConsumeDelta, ConsumeGarbled, ConsumeFinish, Leave, Goto
  <2>2. \E k : Take(c, k)
    BY <1>5 DEF ConsumeDelta, ConsumeGarbled, ConsumeFinish
  <2>3. QED
    BY <2>1, <2>2, TurnsTake
<1>6. ASSUME NEW c \in Calls, Emit(c) PROVE TurnsInv'
  BY <1>6, TurnsEmit
<1>7. ASSUME NEW c \in Calls, CtxEnds(c) \/ Crash(c) PROVE TurnsInv'
  BY <1>7, TurnsFrame DEF CtxEnds, Crash
<1>8. CASE RestartProcess \/ Close
  BY <1>8, TurnsFrame DEF RestartProcess, Close, StopChild
<1>9. CASE UNCHANGED vars
  BY <1>9, TurnsFrame DEF vars
<1>10. QED
  BY <1>1, <1>2, <1>3, <1>4, <1>5, <1>6, <1>7, <1>8, <1>9, NextCases DEF Proceed

(***************************************************************************)
(* The theorems.                                                           *)
(***************************************************************************)

(* The inductive invariant is one.                                         *)
THEOREM InductiveInvariant == Spec => []IInv
<1>1. Init => IInv
  <2>1. Init => ProgressInv /\ LockInv
    BY DEF Init, ProgressInv, LockInv, InCall
  <2>2. QED
    BY <2>1, InitTypeOK, InitProc, InitTurns DEF IInv
<1>2. IInv /\ [Next]_vars => IInv'
  BY NextTypeOK, NextProgress, NextProc, NextTurns DEF IInv
<1>3. QED
  BY <1>1, <1>2, PTL DEF Spec

(* Every variable keeps its type; no channel exceeds its capacity.         *)
THEOREM TypeCorrect == Spec => []TypeOK
<1>1. IInv => TypeOK
  BY DEF IInv
<1>2. QED
  BY <1>1, InductiveInvariant, PTL

(* m.callMu serialises the calls from ensureProcess to the end of the      *)
(* stream, so what a call reads of another turn is the rest of one that    *)
(* was given up in the same child.                                         *)
THEOREM CallsAreSerialised == Spec => []SingleFlight
<1>1. IInv => SingleFlight
  BY DEF IInv, LockInv, TurnsInv, TypeOK, SingleFlight
<1>2. QED
  BY <1>1, InductiveInvariant, PTL

(* No orphan child is ever left, and nobody replaces the process under a   *)
(* call that has taken it.                                                 *)
THEOREM ProcessIsNeverReplaced == Spec => []ProcessIsStable
<1>1. IInv => ProcessIsStable
  BY DEF IInv, ProcInv, StableInv, ProcessIsStable
<1>2. QED
  BY <1>1, InductiveInvariant, PTL

(* A turn runs with the configuration its call asked for, unless the       *)
(* process had been revived.                                               *)
THEOREM TurnsRunAsConfigured == Spec => []ConfigUnlessRevived
<1>1. IInv => ConfigUnlessRevived
  BY DEF IInv, ProcInv, KeyInv, ProgressInv, ConfigUnlessRevived
<1>2. QED
  BY <1>1, InductiveInvariant, PTL
=============================================================================
