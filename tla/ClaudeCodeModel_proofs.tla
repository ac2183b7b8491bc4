------------------------ MODULE ClaudeCodeModel_proofs ------------------------
(***************************************************************************)
(* Proofs about ClaudeCodeModel, for any number of calls at a time, any    *)
(* configurations and any set of faults.                                   *)
(***************************************************************************)
EXTENDS ClaudeCodeModel, TLAPS

(***************************************************************************)
(* The inductive invariant.                                                *)
(***************************************************************************)

(* An object and a child are named after the call that makes them: before  *)
(* that call has been through ensureProcess, nothing refers to them.       *)
Unmade(o) == pc[o] \in {"idle", "ensure"}

FreshInv ==
  \A o \in Calls : Unmade(o) =>
    /\ proc # o /\ child[o] = None /\ object[o] = None
    /\ \A c \in Calls : held[c] # o

(* How objects, children and reapers refer to each other.                  *)
WiringInv ==
  /\ \A o \in Calls : child[o] # None => object[child[o]] = o
  /\ \A k \in Calls : object[k] # None => child[object[k]] # None
  /\ \A k \in Calls : reaper[k] = "none" <=> object[k] = None
  /\ \A k \in Calls : reaper[k] \in {"closing", "done"} => k \notin live

(* What a call has taken and done where it is.                             *)
ProgressInv ==
  \A c \in Calls :
    /\ pc[c] \in {"idle", "ensure", "capture"} => held[c] = None
    /\ pc[c] \in {"send", "open", "read", "drain", "stderr"} => held[c] # None
    /\ pc[c] \in {"idle", "ensure", "capture", "send"} => sentTo[c] = None
    /\ pc[c] \in {"open", "read"} => sentTo[c] # None
    /\ sentTo[c] # None => object[sentTo[c]] = held[c] /\ held[c] # None
    /\ source[c] # None => object[source[c]] # None
    /\ buf[c] # <<>> => pc[c] = "read" /\ source[c] # None
    /\ pc[c] \in {"idle", "ensure", "capture", "send", "open"} => answer[c] = None

(* Unless a Start came between a reaper's update and its close: the child  *)
(* that an object has replaced has been reaped to the end, the one of an   *)
(* object that stopped has been waited for, a closed channel belongs to a  *)
(* reaper that is done, and nothing but the last child of m.proc runs.     *)
ReapInv ==
  ~late =>
    /\ \A k \in Calls : object[k] # None /\ child[object[k]] # k => reaper[k] = "done"
    /\ \A o \in Calls \ running : child[o] # None => reaper[child[o]] \in {"closing", "done"}
    /\ \A k \in reapedChans : reaper[k] = "done"

(* Whoever keeps m.mu between two steps has removed m.proc; apart from     *)
(* that, only RestartProcess takes it from under a call.                   *)
MuInv ==
  /\ mu # None => pc[mu] = "ensure" /\ proc = None
  /\ mu = None /\ proc = None => \A c \in Calls : pc[c] = "capture" => c \in pulled

(* A call that nobody overlapped has the model for itself.                 *)
AloneInv == \A c \in InCall \ exposed : InCall = {c}

(* m.cachedKey is the configuration of a process that was started once,    *)
(* and a call on its own takes one with the configuration it asked for.    *)
KeyInv ==
  /\ proc # None /\ child[proc] # None /\ proc \notin revived => config[proc] = cachedKey
  /\ \A c \in Calls \ exposed :
       /\ pc[c] = "capture" /\ proc # None => proc \in revived \/ config[proc] = key[c]
       /\ held[c] # None => held[c] \in revived \/ config[held[c]] = key[c]

(* The turns that a child has not answered in full, as far as its readers  *)
(* can tell: asked of it, or in its stdout.                                *)
TurnsOf(p, q) == Turns(p) \cup {q[i] : i \in DOMAIN q}
Pending(k)    == TurnsOf(pipe[k], inbox[k])

(* A turn is with the child that it was sent to, or on the way from there. *)
PlaceInv ==
  /\ \A k \in Calls : \A t \in Pending(k) : sentTo[t] = k
  /\ \A c \in Calls : \A t \in Turns(buf[c]) : sentTo[t] = source[c]

(* The child works on a turn once, and its result is the last of it.       *)
Final(l)     == l.kind \in {"result", "failed"}
Once(q)      == \A i, j \in DOMAIN q : q[i] = q[j] => i = j
LastOf(p, q) ==
  \A i \in DOMAIN p : Final(p[i]) =>
    /\ \A j \in DOMAIN q : q[j] # p[i].turn
    /\ \A j \in DOMAIN p : i < j => p[j].turn # p[i].turn
Spent(b, T)  == \A i \in DOMAIN b : Final(b[i]) => b[i].turn \notin T

LastInv ==
  /\ \A k \in Calls : Once(inbox[k]) /\ LastOf(pipe[k], inbox[k])
  /\ \A c \in Calls : buf[c] # <<>> => Spent(buf[c], Pending(source[c]))

(* What is left of a turn that its call gave up: the last child of an      *)
(* object, while it runs, is known as stale or has turns in progress only. *)
(* A call that listens to another child than the one that has its messages *)
(* does so because that one has been replaced; one that has failed to read *)
(* it left it dead, stale or replaced.                                     *)
LeftInv ==
  /\ \A k \in live : child[object[k]] = k /\ k \notin stale => Pending(k) \subseteq InCall
  /\ \A c \in Calls : pc[c] = "read" =>
       source[c] = sentTo[c] \/ child[object[sentTo[c]]] # sentTo[c]
  /\ \A c \in Calls : pc[c] \in {"drain", "stderr"} /\ sentTo[c] \in live =>
       sentTo[c] \in stale \/ child[object[sentTo[c]]] # sentTo[c]

(* A call on its own reads the child that has its messages, and finds      *)
(* nothing there but its own turn.                                         *)
OwnTurnInv ==
  \A c \in Calls \ exposed :
    /\ pc[c] = "open" => child[held[c]] = sentTo[c]
    /\ pc[c] = "read" => source[c] = sentTo[c] /\ Turns(buf[c]) \subseteq {c}
    /\ pc[c] \in {"open", "read"} => Pending(sentTo[c]) \subseteq {c}
    /\ answer[c] \in {None, c}

IInv == /\ TypeOK /\ FreshInv /\ WiringInv /\ ProgressInv
        /\ ReapInv /\ NoOrphan /\ SessionSurvives /\ MuInv /\ PanicIsExplained
        /\ AloneInv /\ KeyInv /\ PlaceInv /\ LastInv /\ LeftInv /\ OwnTurnInv

(* What a line does to the call that scans it: the call goes on, gives the *)
(* rest of its turn up, or takes the result for its own.                   *)
GoesOn(c) == buf' = [buf EXCEPT ![c] = Tail(@)] /\ UNCHANGED <<pc, result, answer, stale>>

Quits(c) == /\ \E l \in {"drain", "done"} : pc' = [pc EXCEPT ![c] = l]
            /\ UNCHANGED result \/ \E r \in Results : result' = [result EXCEPT ![c] = r]
            /\ buf' = [buf EXCEPT ![c] = <<>>]

GivesUp(c) == Quits(c) /\ stale' = stale \cup {source[c]} /\ UNCHANGED answer

TakesResult(c) ==
  LET l == Head(buf[c]) IN
  /\ Quits(c) /\ pc' = [pc EXCEPT ![c] = "done"]
  /\ Final(l) /\ answer' = [answer EXCEPT ![c] = l.turn]
  /\ stale' = IF l.turn = c THEN stale ELSE stale \cup {source[c]}

Scanned(c) ==
  /\ pc[c] = "read" /\ buf[c] # <<>>
  /\ GoesOn(c) \/ GivesUp(c) \/ TakesResult(c)
  /\ session' \in {session, [session EXCEPT ![held[c]] = SessionOf(source[c])]}
  /\ UNCHANGED <<key, held, sentTo, source, modelVars, config, resume, running, child, childVars,
                 pipeVars, ctxDone, exposed, taken, startVars, panicked>>

LEMMA ScanEffect ==
  ASSUME NEW c \in Calls,
         ScanInit(c) \/ ScanDelta(c) \/ ScanGarbled(c) \/ ScanLong(c) \/ ScanResult(c)
  PROVE  Scanned(c)
<1> USE DEF Scanned, Scan
<1>0. {"response", "error", "stopped"} \subseteq Results
  BY DEF Results
<1>1. CASE ScanInit(c)
  BY <1>1 DEF ScanInit, GoOn, GoesOn
<1>2. ASSUME NEW r \in Results, GiveUp(c, r), UNCHANGED answer PROVE GivesUp(c)
  BY <1>2 DEF GiveUp, Abandon, Leave, Goto, GivesUp, Quits
<1>3. CASE ScanDelta(c)
  BY <1>0, <1>2, <1>3 DEF ScanDelta, GoOn, GoesOn
<1>4. CASE ScanGarbled(c)
  BY <1>0, <1>2, <1>4 DEF ScanGarbled, GoOn, GoesOn
<1>5. CASE ScanLong(c)
  BY <1>5 DEF ScanLong, Abandon, Goto, GivesUp, Quits
<1>6. CASE ScanResult(c)
  BY <1>0, <1>6 DEF ScanResult, Leave, Goto, TakesResult, Quits, Final
<1>7. QED
  BY <1>1, <1>3, <1>4, <1>5, <1>6

(* A call that reads no more: its child has gone or closed its output, or  *)
(* the stderr of what is now the child of its object is read.              *)
Ended(c) ==
  /\ \/ /\ pc[c] = "read" /\ buf[c] = <<>>
        /\ source[c] = None \/ source[c] \notin live \/ StdoutClosed(source[c])
     \/ pc[c] \in {"drain", "stderr"}
  /\ \E l \in {"drain", "stderr", "done"} : pc' = [pc EXCEPT ![c] = l]
  /\ UNCHANGED result \/ \E r \in {"silent", "error"} : result' = [result EXCEPT ![c] = r]
  /\ UNCHANGED source \/ (child[held[c]] \in live
                          /\ source' = [source EXCEPT ![c] = child[held[c]]])
  /\ UNCHANGED <<key, held, sentTo, buf, answer, modelVars, procVars, childVars, pipeVars,
                 ctxDone, ghostVars, startVars, panicked>>

LEMMA EndEffect ==
  ASSUME NEW c \in Calls, ReadEnds(c) \/ DrainStderr(c) \/ StderrRead(c)
  PROVE  Ended(c)
<1> USE DEF Ended, Leave, Goto
<1>1. CASE ReadEnds(c)
  BY <1>1 DEF ReadEnds
<1>2. CASE DrainStderr(c)
  BY <1>2 DEF DrainStderr
<1>3. CASE StderrRead(c)
  BY <1>3 DEF StderrRead
<1>4. QED
  BY <1>1, <1>2, <1>3

(* The next-state relation with every action of its own.                   *)
LEMMA NextCases ==
  ASSUME Next
  PROVE  \/ \E c \in Calls :
              \/ Begin(c) \/ CtxEnds(c)
              \/ EnsureReuse(c) \/ EnsureStop(c) \/ EnsureStart(c) \/ EnsureFails(c)
              \/ Capture(c) \/ Send(c) \/ SendFails(c) \/ Open(c) \/ Fill(c) \/ Ended(c)
              \/ Scanned(c)
         \/ \E k \in Calls : ReaperUpdate(k) \/ ReaperClose(k) \/ Exit(k) \/ Emit(k)
         \/ RestartProcess \/ Close
  BY ScanEffect, EndEffect DEF Next, Proceed, StderrEnds, StderrFull

(***************************************************************************)
(* Typing, in parts: the model and its process objects, the children, what *)
(* is in the pipes, and the calls.                                         *)
(***************************************************************************)
ModelTypes ==
  /\ mu \in OrNone(Calls) /\ proc \in OrNone(Calls) /\ cachedKey \in Keys \cup {NoKey}
  /\ saved \in OrNone(Calls) /\ due \in OrNone(Calls)
  /\ config \in [Calls -> Keys \cup {NoKey}] /\ resume \in [Calls -> OrNone(Calls)]
  /\ revived \subseteq Calls /\ pulled \subseteq Calls /\ late \in BOOLEAN

ChildTypes ==
  /\ child \in [Calls -> OrNone(Calls)] /\ object \in [Calls -> OrNone(Calls)]
  /\ reaper \in [Calls -> {"none", "waiting", "closing", "done"}]
  /\ running \subseteq Calls /\ live \subseteq Calls /\ reapedChans \subseteq Calls
  /\ \A o \in running : child[o] # None
  /\ ctxDone \subseteq Calls /\ panicked \in BOOLEAN

PipeTypes ==
  /\ inbox \in [Calls -> Seq(Calls)]
  /\ pipe \in [Calls -> Seq(Line)] /\ buf \in [Calls -> Seq(Line)]
  /\ greeted \subseteq Calls /\ told \subseteq Calls /\ taken \subseteq Calls

CallTypes ==
  /\ pc \in [Calls -> PC] /\ result \in [Calls -> Results]
  /\ key \in [Calls -> Keys \cup {NoKey}] /\ session \in [Calls -> OrNone(Calls)]
  /\ held \in [Calls -> OrNone(Calls)] /\ sentTo \in [Calls -> OrNone(Calls)]
  /\ source \in [Calls -> OrNone(Calls)] /\ answer \in [Calls -> OrNone(Calls)]
  /\ exposed \subseteq Calls /\ stale \subseteq Calls

LEMMA TypeParts ==
  TypeOK <=> scenario \in Scenarios /\ ModelTypes /\ ChildTypes /\ PipeTypes /\ CallTypes
  BY DEF TypeOK, ModelTypes, ChildTypes, PipeTypes, CallTypes

LEMMA InitTypeOK == Init => TypeOK
<1> SUFFICES ASSUME Init PROVE TypeOK
  OBVIOUS
<1> USE DEF Init, OrNone
<1>1. ModelTypes
  BY DEF ModelTypes
<1>2. ChildTypes
  BY DEF ChildTypes
<1>3. PipeTypes
  BY DEF PipeTypes
<1>4. CallTypes
  BY DEF CallTypes, PC, Results
<1>5. QED
  BY <1>1, <1>2, <1>3, <1>4, TypeParts

LEMMA NextModelTypes ==
  ModelTypes /\ CallTypes /\ [Next]_vars => ModelTypes'
<1> SUFFICES ASSUME ModelTypes, CallTypes, [Next]_vars PROVE ModelTypes'
  OBVIOUS
<1> USE DEF modelVars, procVars, startVars, OrNone
<1>0. /\ key \in [Calls -> Keys \cup {NoKey}] /\ session \in [Calls -> OrNone(Calls)]
  BY DEF CallTypes
<1>1. ASSUME NEW c \in Calls, Begin(c) PROVE ModelTypes'
  BY <1>0, <1>1 DEF Begin, Goto, ModelTypes
<1>2. ASSUME NEW c \in Calls, EnsureReuse(c) PROVE ModelTypes'
  BY <1>0, <1>2 DEF EnsureReuse, Goto, ModelTypes
<1>3. ASSUME NEW c \in Calls, EnsureStop(c) PROVE ModelTypes'
  BY <1>0, <1>3 DEF EnsureStop, Stop, ModelTypes
<1>4. ASSUME NEW c \in Calls, EnsureStart(c) PROVE ModelTypes'
  BY <1>0, <1>4 DEF EnsureStart, MakeProcess, Start, Goto, ModelTypes
<1>5. ASSUME NEW c \in Calls, EnsureFails(c) PROVE ModelTypes'
  BY <1>0, <1>5 DEF EnsureFails, MakeProcess, Leave, Goto, ModelTypes
<1>6. ASSUME NEW c \in Calls, Capture(c) PROVE ModelTypes'
  BY <1>0, <1>6 DEF Capture, Leave, Goto, ModelTypes
<1>7. ASSUME NEW c \in Calls, Send(c) PROVE ModelTypes'
  BY <1>0, <1>7 DEF Send, Leave, Goto, ModelTypes
<1>8. ASSUME NEW c \in Calls, SendFails(c) PROVE ModelTypes'
  BY <1>0, <1>8 DEF SendFails, Leave, Goto, ModelTypes
<1>9. ASSUME NEW c \in Calls, Open(c) PROVE ModelTypes'
  BY <1>0, <1>9 DEF Open, Goto, ModelTypes
<1>10. ASSUME NEW c \in Calls, Fill(c) PROVE ModelTypes'
  BY <1>0, <1>10 DEF Fill, ModelTypes
<1>11. ASSUME NEW c \in Calls, Ended(c) PROVE ModelTypes'
  BY <1>0, <1>11 DEF Ended, ModelTypes
<1>12. ASSUME NEW c \in Calls, Scanned(c) PROVE ModelTypes'
  BY <1>0, <1>12 DEF Scanned, ModelTypes
<1>13. ASSUME NEW c \in Calls, CtxEnds(c) PROVE ModelTypes'
  BY <1>0, <1>13 DEF CtxEnds, ModelTypes
<1>14. ASSUME NEW k \in Calls, ReaperUpdate(k) PROVE ModelTypes'
  BY <1>0, <1>14 DEF ReaperUpdate, ModelTypes
<1>15. ASSUME NEW k \in Calls, ReaperClose(k) PROVE ModelTypes'
  BY <1>0, <1>15 DEF ReaperClose, ModelTypes
<1>16. ASSUME NEW k \in Calls, Exit(k) PROVE ModelTypes'
  BY <1>0, <1>16 DEF Exit, ModelTypes
<1>17. ASSUME NEW k \in Calls, Emit(k) PROVE ModelTypes'
  BY <1>0, <1>17 DEF Emit, ModelTypes
<1>18. CASE RestartProcess
  BY <1>0, <1>18 DEF RestartProcess, Stop, ModelTypes
<1>19. CASE Close
  BY <1>0, <1>19 DEF Close, Stop, ModelTypes
<1>20. CASE UNCHANGED vars
  BY <1>0, <1>20 DEF vars, ModelTypes
<1>21. QED
  BY <1>1, <1>2, <1>3, <1>4, <1>5, <1>6, <1>7, <1>8, <1>9, <1>10, <1>11, <1>12, <1>13,
     <1>14, <1>15, <1>16, <1>17, <1>18, <1>19, <1>20, NextCases

LEMMA NextChildTypes ==
  TypeOK /\ WiringInv /\ [Next]_vars => ChildTypes'
<1> SUFFICES ASSUME TypeOK, WiringInv, [Next]_vars PROVE ChildTypes'
  OBVIOUS
<1> USE DEF procVars, childVars, OrNone
<1>0. ChildTypes /\ proc \in Calls \cup {None} /\ None \notin Calls
  BY TypeParts, CallsAssumption DEF ModelTypes
<1>1. ASSUME NEW c \in Calls, Begin(c) PROVE ChildTypes'
  BY <1>0, <1>1 DEF Begin, Goto, ChildTypes
<1>2. ASSUME NEW c \in Calls, EnsureReuse(c) PROVE ChildTypes'
  BY <1>0, <1>2 DEF EnsureReuse, Goto, ChildTypes
<1>3. ASSUME NEW c \in Calls, EnsureStop(c) PROVE ChildTypes'
  BY <1>0, <1>3 DEF EnsureStop, Stop, ChildTypes
<1>4. ASSUME NEW c \in Calls, EnsureStart(c) PROVE ChildTypes'
  BY <1>0, <1>4 DEF EnsureStart, MakeProcess, Start, Goto, ChildTypes
<1>5. ASSUME NEW c \in Calls, EnsureFails(c) PROVE ChildTypes'
  BY <1>0, <1>5 DEF EnsureFails, MakeProcess, Leave, Goto, ChildTypes
<1>6. ASSUME NEW c \in Calls, Capture(c) PROVE ChildTypes'
  BY <1>0, <1>6 DEF Capture, Leave, Goto, ChildTypes
<1>7. ASSUME NEW c \in Calls, Send(c) PROVE ChildTypes'
  BY <1>0, <1>7 DEF Send, Leave, Goto, ChildTypes
<1>8. ASSUME NEW c \in Calls, SendFails(c) PROVE ChildTypes'
  BY <1>0, <1>8 DEF SendFails, Leave, Goto, ChildTypes
<1>9. ASSUME NEW c \in Calls, Open(c) PROVE ChildTypes'
  BY <1>0, <1>9 DEF Open, Goto, ChildTypes
<1>10. ASSUME NEW c \in Calls, Fill(c) PROVE ChildTypes'
  BY <1>0, <1>10 DEF Fill, ChildTypes
<1>11. ASSUME NEW c \in Calls, Ended(c) PROVE ChildTypes'
  BY <1>0, <1>11 DEF Ended, ChildTypes
<1>12. ASSUME NEW c \in Calls, Scanned(c) PROVE ChildTypes'
  BY <1>0, <1>12 DEF Scanned, ChildTypes
<1>13. ASSUME NEW c \in Calls, CtxEnds(c) PROVE ChildTypes'
  BY <1>0, <1>13 DEF CtxEnds, ChildTypes
<1>14. ASSUME NEW k \in Calls, ReaperUpdate(k) PROVE ChildTypes'
  BY <1>0, <1>14 DEF ReaperUpdate, ChildTypes
<1>15. ASSUME NEW k \in Calls, ReaperClose(k) PROVE ChildTypes'
  <2>1. object[k] \in Calls /\ child[object[k]] \in Calls
    BY <1>0, <1>15 DEF ReaperClose, WiringInv, ChildTypes
  <2>2. QED
    BY <1>0, <1>15, <2>1 DEF ReaperClose, ChildTypes
<1>16. ASSUME NEW k \in Calls, Exit(k) PROVE ChildTypes'
  BY <1>0, <1>16 DEF Exit, ChildTypes
<1>17. ASSUME NEW k \in Calls, Emit(k) PROVE ChildTypes'
  BY <1>0, <1>17 DEF Emit, ChildTypes
<1>18. CASE RestartProcess
  BY <1>0, <1>18 DEF RestartProcess, Stop, ChildTypes
<1>19. CASE Close
  BY <1>0, <1>19 DEF Close, Stop, ChildTypes
<1>20. CASE UNCHANGED vars
  BY <1>0, <1>20 DEF vars, ChildTypes
<1>21. QED
  BY <1>1, <1>2, <1>3, <1>4, <1>5, <1>6, <1>7, <1>8, <1>9, <1>10, <1>11, <1>12, <1>13,
     <1>14, <1>15, <1>16, <1>17, <1>18, <1>19, <1>20, NextCases

LEMMA TurnsTypes ==
  ASSUME NEW s \in Seq(Line)
  PROVE  Turns(s) \subseteq Calls
<1>1. \A i \in DOMAIN s : s[i] \in Line
  OBVIOUS
<1>2. QED
  BY <1>1 DEF Turns, Line

LEMMA NextPipeTypes ==
  TypeOK /\ [Next]_vars => PipeTypes'
<1> SUFFICES ASSUME TypeOK, [Next]_vars PROVE PipeTypes'
  OBVIOUS
<1> USE DEF pipeVars, callVars, ghostVars, OrNone
<1>0. PipeTypes /\ live \subseteq Calls /\ source \in [Calls -> Calls \cup {None}]
  BY TypeParts DEF ChildTypes, CallTypes
<1>1. ASSUME NEW c \in Calls, Begin(c) PROVE PipeTypes'
  BY <1>0, <1>1 DEF Begin, Goto, PipeTypes
<1>2. ASSUME NEW c \in Calls, EnsureReuse(c) PROVE PipeTypes'
  BY <1>0, <1>2 DEF EnsureReuse, Goto, PipeTypes
<1>3. ASSUME NEW c \in Calls, EnsureStop(c) PROVE PipeTypes'
  BY <1>0, <1>3 DEF EnsureStop, Stop, PipeTypes
<1>4. ASSUME NEW c \in Calls, EnsureStart(c) PROVE PipeTypes'
  BY <1>0, <1>4 DEF EnsureStart, MakeProcess, Start, Goto, PipeTypes
<1>5. ASSUME NEW c \in Calls, EnsureFails(c) PROVE PipeTypes'
  BY <1>0, <1>5 DEF EnsureFails, MakeProcess, Leave, Goto, PipeTypes
<1>6. ASSUME NEW c \in Calls, Capture(c) PROVE PipeTypes'
  BY <1>0, <1>6 DEF Capture, Leave, Goto, PipeTypes
<1>7. ASSUME NEW c \in Calls, Send(c) PROVE PipeTypes'
  BY <1>0, <1>7 DEF Send, Leave, Goto, PipeTypes
<1>8. ASSUME NEW c \in Calls, SendFails(c) PROVE PipeTypes'
  BY <1>0, <1>8 DEF SendFails, Leave, Goto, PipeTypes
<1>9. ASSUME NEW c \in Calls, Open(c) PROVE PipeTypes'
  BY <1>0, <1>9 DEF Open, Goto, PipeTypes
<1>10. ASSUME NEW c \in Calls, Fill(c) PROVE PipeTypes'
  <2> DEFINE k == source[c]
  <2>1. k \in Calls /\ pipe[k] \in Seq(Line)
    BY <1>0, <1>10 DEF Fill, PipeTypes
  <2> PICK n \in 1..Len(pipe[k]) :
        /\ buf' = [buf EXCEPT ![c] = SubSeq(pipe[k], 1, n)]
        /\ pipe' = [pipe EXCEPT ![k] = SubSeq(pipe[k], n + 1, Len(pipe[k]))]
        /\ taken' = taken \cup (Turns(SubSeq(pipe[k], 1, n)) \ {c})
    BY <1>10 DEF Fill
  <2>2. SubSeq(pipe[k], 1, n) \in Seq(Line) /\ SubSeq(pipe[k], n + 1, Len(pipe[k])) \in Seq(Line)
    BY <2>1
  <2>3. Turns(SubSeq(pipe[k], 1, n)) \subseteq Calls
    BY <2>2, TurnsTypes
  <2>4. QED
    BY <1>0, <1>10, <2>1, <2>2, <2>3 DEF Fill, PipeTypes
<1>11. ASSUME NEW c \in Calls, Ended(c) PROVE PipeTypes'
  BY <1>0, <1>11 DEF Ended, PipeTypes
<1>12. ASSUME NEW c \in Calls, Scanned(c) PROVE PipeTypes'
  <2>1. Tail(buf[c]) \in Seq(Line) /\ <<>> \in Seq(Line)
    BY <1>0, <1>12 DEF Scanned, PipeTypes
  <2>2. buf' \in [Calls -> Seq(Line)]
    BY <1>0, <1>12, <2>1 DEF Scanned, PipeTypes, GoesOn, GivesUp, TakesResult, Quits
  <2>3. QED
    BY <1>0, <1>12, <2>2 DEF Scanned, PipeTypes
<1>13. ASSUME NEW c \in Calls, CtxEnds(c) PROVE PipeTypes'
  BY <1>0, <1>13 DEF CtxEnds, PipeTypes
<1>14. ASSUME NEW k \in Calls, ReaperUpdate(k) PROVE PipeTypes'
  BY <1>0, <1>14 DEF ReaperUpdate, PipeTypes
<1>15. ASSUME NEW k \in Calls, ReaperClose(k) PROVE PipeTypes'
  BY <1>0, <1>15 DEF ReaperClose, PipeTypes
<1>16. ASSUME NEW k \in Calls, Exit(k) PROVE PipeTypes'
  BY <1>0, <1>16 DEF Exit, PipeTypes
<1>17. ASSUME NEW k \in Calls, Emit(k) PROVE PipeTypes'
  <2>1. inbox[k] \in Seq(Calls) /\ Head(inbox[k]) \in Calls /\ Tail(inbox[k]) \in Seq(Calls)
    BY <1>0, <1>17 DEF Emit, PipeTypes
  <2>2. PICK l \in Line : pipe' = [pipe EXCEPT ![k] = Append(pipe[k], l)]
    BY <1>17 DEF Emit
  <2>3. pipe' \in [Calls -> Seq(Line)]
    BY <1>0, <2>2 DEF PipeTypes
  <2>4. inbox' = inbox \/ inbox' = [inbox EXCEPT ![k] = Tail(inbox[k])]
    BY <1>17 DEF Emit
  <2>5. inbox' \in [Calls -> Seq(Calls)]
    BY <1>0, <2>1, <2>4 DEF PipeTypes
  <2>6. greeted' \subseteq Calls /\ told' \subseteq Calls
    BY <1>0, <1>17, <2>1 DEF Emit, PipeTypes
  <2>7. QED
    BY <1>0, <1>17, <2>3, <2>5, <2>6 DEF Emit, PipeTypes
<1>18. CASE RestartProcess
  BY <1>0, <1>18 DEF RestartProcess, Stop, PipeTypes
<1>19. CASE Close
  BY <1>0, <1>19 DEF Close, Stop, PipeTypes
<1>20. CASE UNCHANGED vars
  BY <1>0, <1>20 DEF vars, PipeTypes
<1>21. QED
  BY <1>1, <1>2, <1>3, <1>4, <1>5, <1>6, <1>7, <1>8, <1>9, <1>10, <1>11, <1>12, <1>13,
     <1>14, <1>15, <1>16, <1>17, <1>18, <1>19, <1>20, NextCases

LEMMA NextCallTypes ==
  TypeOK /\ ProgressInv /\ WiringInv /\ [Next]_vars => CallTypes'
<1> SUFFICES ASSUME TypeOK, ProgressInv, WiringInv, [Next]_vars PROVE CallTypes'
  OBVIOUS
<1> USE DEF procVars, callVars, ghostVars, OrNone, PC, Results
<1>0. CallTypes /\ ChildTypes /\ PipeTypes /\ ModelTypes
  BY TypeParts
<1>1. ASSUME NEW c \in Calls, Begin(c) PROVE CallTypes'
  <2>1. PICK k \in scenario.keys : key' = [key EXCEPT ![c] = k]
    BY <1>1 DEF Begin
  <2>2. scenario.keys \subseteq Keys
    BY ScenariosAssumption, TypeParts
  <2>3. key' \in [Calls -> Keys \cup {NoKey}]
    BY <1>0, <2>1, <2>2 DEF CallTypes
  <2>4. exposed' \subseteq Calls
    BY <1>0, <1>1 DEF Begin, CallTypes, InCall
  <2>5. QED
    BY <1>0, <1>1, <2>3, <2>4 DEF Begin, Goto, CallTypes
<1>2. ASSUME NEW c \in Calls, EnsureReuse(c) PROVE CallTypes'
  BY <1>0, <1>2 DEF EnsureReuse, Goto, CallTypes
<1>3. ASSUME NEW c \in Calls, EnsureStop(c) PROVE CallTypes'
  BY <1>0, <1>3 DEF EnsureStop, Stop, CallTypes
<1>4. ASSUME NEW c \in Calls, EnsureStart(c) PROVE CallTypes'
  BY <1>0, <1>4 DEF EnsureStart, MakeProcess, Start, Goto, CallTypes
<1>5. ASSUME NEW c \in Calls, EnsureFails(c) PROVE CallTypes'
  BY <1>0, <1>5 DEF EnsureFails, MakeProcess, Leave, Goto, CallTypes
<1>6. ASSUME NEW c \in Calls, Capture(c) PROVE CallTypes'
  <2>1. pc' \in [Calls -> PC] /\ result' \in [Calls -> Results]
    BY <1>0, <1>6 DEF Capture, Leave, Goto, CallTypes
  <2>2. held' \in [Calls -> Calls \cup {None}]
    BY <1>0, <1>6 DEF Capture, CallTypes, ModelTypes
  <2>3. QED
    BY <1>0, <1>6, <2>1, <2>2 DEF Capture, CallTypes
<1>7. ASSUME NEW c \in Calls, Send(c) PROVE CallTypes'
  <2>1. child[held[c]] \in Calls
    BY <1>0, <1>7 DEF Send, ChildTypes
  <2>2. pc' \in [Calls -> PC] /\ result' \in [Calls -> Results]
    BY <1>0, <1>7 DEF Send, Leave, Goto, CallTypes
  <2>3. sentTo' \in [Calls -> Calls \cup {None}] /\ exposed' \subseteq Calls /\ stale' \subseteq Calls
    BY <1>0, <1>7, <2>1 DEF Send, CallTypes
  <2>4. QED
    BY <1>0, <1>7, <2>2, <2>3 DEF Send, CallTypes
<1>8. ASSUME NEW c \in Calls, SendFails(c) PROVE CallTypes'
  BY <1>0, <1>8 DEF SendFails, Leave, Goto, CallTypes
<1>9. ASSUME NEW c \in Calls, Open(c) PROVE CallTypes'
  <2>1. held[c] \in Calls
    BY <1>0, <1>9 DEF Open, ProgressInv, CallTypes
  <2>2. source' \in [Calls -> Calls \cup {None}] /\ pc' \in [Calls -> PC]
    BY <1>0, <1>9, <2>1 DEF Open, Goto, CallTypes, ChildTypes
  <2>3. QED
    BY <1>0, <1>9, <2>2 DEF Open, CallTypes
<1>10. ASSUME NEW c \in Calls, Fill(c) PROVE CallTypes'
  BY <1>0, <1>10 DEF Fill, CallTypes
<1>11. ASSUME NEW c \in Calls, Ended(c) PROVE CallTypes'
  <2>1. pc' \in [Calls -> PC] /\ result' \in [Calls -> Results]
    BY <1>0, <1>11 DEF Ended, CallTypes
  <2>2. source' \in [Calls -> Calls \cup {None}]
    BY <1>0, <1>11 DEF Ended, CallTypes, ChildTypes
  <2>3. QED
    BY <1>0, <1>11, <2>1, <2>2 DEF Ended, CallTypes
<1>12. ASSUME NEW c \in Calls, Scanned(c) PROVE CallTypes'
  <2>1. held[c] \in Calls /\ source[c] \in Calls /\ object[source[c]] \in Calls
    BY <1>0, <1>12 DEF Scanned, ProgressInv, CallTypes, ChildTypes
  <2>2. SessionOf(source[c]) \in Calls \cup {None}
    BY <1>0, <2>1 DEF SessionOf, ModelTypes
  <2>3. Head(buf[c]).turn \in Calls
    <3>1. buf[c] \in Seq(Line) /\ buf[c] # <<>>
      BY <1>0, <1>12 DEF Scanned, PipeTypes
    <3>2. Head(buf[c]) \in Line
      BY <3>1
    <3>3. QED
      BY <3>2 DEF Line
  <2>4. session' \in [Calls -> Calls \cup {None}]
    BY <1>0, <1>12, <2>1, <2>2 DEF Scanned, CallTypes
  <2>5. pc' \in [Calls -> PC] /\ result' \in [Calls -> Results]
    BY <1>0, <1>12 DEF Scanned, CallTypes, GoesOn, GivesUp, TakesResult, Quits
  <2>6. answer' \in [Calls -> Calls \cup {None}] /\ stale' \subseteq Calls
    BY <1>0, <1>12, <2>1, <2>3 DEF Scanned, CallTypes, GoesOn, GivesUp, TakesResult
  <2>7. QED
    BY <1>0, <1>12, <2>4, <2>5, <2>6 DEF Scanned, CallTypes
<1>13. ASSUME NEW c \in Calls, CtxEnds(c) PROVE CallTypes'
  BY <1>0, <1>13 DEF CtxEnds, CallTypes
<1>14. ASSUME NEW k \in Calls, ReaperUpdate(k) PROVE CallTypes'
  BY <1>0, <1>14 DEF ReaperUpdate, CallTypes
<1>15. ASSUME NEW k \in Calls, ReaperClose(k) PROVE CallTypes'
  BY <1>0, <1>15 DEF ReaperClose, CallTypes
<1>16. ASSUME NEW k \in Calls, Exit(k) PROVE CallTypes'
  BY <1>0, <1>16 DEF Exit, CallTypes
<1>17. ASSUME NEW k \in Calls, Emit(k) PROVE CallTypes'
  BY <1>0, <1>17 DEF Emit, CallTypes
<1>18. CASE RestartProcess
  BY <1>0, <1>18 DEF RestartProcess, Stop, CallTypes
<1>19. CASE Close
  BY <1>0, <1>19 DEF Close, Stop, CallTypes
<1>20. CASE UNCHANGED vars
  BY <1>0, <1>20 DEF vars, CallTypes
<1>21. QED
  BY <1>1, <1>2, <1>3, <1>4, <1>5, <1>6, <1>7, <1>8, <1>9, <1>10, <1>11, <1>12, <1>13,
     <1>14, <1>15, <1>16, <1>17, <1>18, <1>19, <1>20, NextCases

LEMMA NextTypeOK ==
  TypeOK /\ ProgressInv /\ WiringInv /\ [Next]_vars => TypeOK'
<1> SUFFICES ASSUME TypeOK, ProgressInv, WiringInv, [Next]_vars PROVE TypeOK'
  OBVIOUS
<1>1. scenario' \in Scenarios
  BY TypeParts DEF Next, vars
<1>2. ModelTypes' /\ ChildTypes' /\ PipeTypes' /\ CallTypes'
  BY TypeParts, NextModelTypes, NextChildTypes, NextPipeTypes, NextCallTypes
<1>3. QED
  BY <1>1, <1>2 DEF TypeOK, ModelTypes, ChildTypes, PipeTypes, CallTypes

(***************************************************************************)
(* Objects, children and reapers.                                          *)
(***************************************************************************)

LEMMA InitWiring == Init => FreshInv /\ WiringInv /\ ProgressInv
  BY CallsAssumption DEF Init, FreshInv, WiringInv, ProgressInv, Unmade

LEMMA NextFresh ==
  TypeOK /\ FreshInv /\ ProgressInv /\ [Next]_vars => FreshInv'
<1> SUFFICES ASSUME TypeOK, FreshInv, ProgressInv, [Next]_vars PROVE FreshInv'
  OBVIOUS
<1> USE DEF modelVars, procVars, childVars, callVars
<1>0. /\ None \notin Calls /\ proc \in Calls \cup {None}
      /\ pc \in [Calls -> PC] /\ held \in [Calls -> Calls \cup {None}]
      /\ child \in [Calls -> Calls \cup {None}] /\ object \in [Calls -> Calls \cup {None}]
  BY CallsAssumption DEF TypeOK, OrNone
<1>1. ASSUME NEW c \in Calls, Begin(c) PROVE FreshInv'
  BY <1>0, <1>1 DEF Begin, Goto, FreshInv, Unmade
<1>2. ASSUME NEW c \in Calls, EnsureReuse(c) PROVE FreshInv'
  BY <1>0, <1>2 DEF EnsureReuse, Goto, FreshInv, Unmade
<1>3. ASSUME NEW c \in Calls, EnsureStop(c) PROVE FreshInv'
  BY <1>0, <1>3 DEF EnsureStop, Stop, FreshInv, Unmade
<1>4. ASSUME NEW c \in Calls, EnsureStart(c) PROVE FreshInv'
  BY <1>0, <1>4 DEF EnsureStart, MakeProcess, Start, Goto, FreshInv, Unmade
<1>5. ASSUME NEW c \in Calls, EnsureFails(c) PROVE FreshInv'
  BY <1>0, <1>5 DEF EnsureFails, MakeProcess, Leave, Goto, FreshInv, Unmade
<1>6. ASSUME NEW c \in Calls, Capture(c) PROVE FreshInv'
  BY <1>0, <1>6 DEF Capture, Leave, Goto, FreshInv, Unmade
<1>7. ASSUME NEW c \in Calls, Send(c) PROVE FreshInv'
  BY <1>0, <1>7 DEF Send, Leave, Goto, FreshInv, Unmade
<1>8. ASSUME NEW c \in Calls, SendFails(c) PROVE FreshInv'
  BY <1>0, <1>8 DEF SendFails, Leave, Goto, FreshInv, Unmade
<1>9. ASSUME NEW c \in Calls, Open(c) PROVE FreshInv'
  BY <1>0, <1>9 DEF Open, Goto, FreshInv, Unmade
<1>10. ASSUME NEW c \in Calls, Fill(c) PROVE FreshInv'
  BY <1>0, <1>10 DEF Fill, FreshInv, Unmade
<1>11. ASSUME NEW c \in Calls, Ended(c) PROVE FreshInv'
  BY <1>0, <1>11 DEF Ended, FreshInv, Unmade
<1>12. ASSUME NEW c \in Calls, Scanned(c) PROVE FreshInv'
  BY <1>0, <1>12 DEF Scanned, FreshInv, Unmade, GoesOn, GivesUp, TakesResult, Quits
<1>13. ASSUME NEW c \in Calls, CtxEnds(c) PROVE FreshInv'
  BY <1>0, <1>13 DEF CtxEnds, FreshInv, Unmade
<1>14. ASSUME NEW k \in Calls, ReaperUpdate(k) PROVE FreshInv'
  BY <1>0, <1>14 DEF ReaperUpdate, FreshInv, Unmade
<1>15. ASSUME NEW k \in Calls, ReaperClose(k) PROVE FreshInv'
  BY <1>0, <1>15 DEF ReaperClose, FreshInv, Unmade
<1>16. ASSUME NEW k \in Calls, Exit(k) PROVE FreshInv'
  BY <1>0, <1>16 DEF Exit, FreshInv, Unmade
<1>17. ASSUME NEW k \in Calls, Emit(k) PROVE FreshInv'
  BY <1>0, <1>17 DEF Emit, FreshInv, Unmade
<1>18. CASE RestartProcess
  BY <1>0, <1>18 DEF RestartProcess, Stop, FreshInv, Unmade
<1>19. CASE Close
  BY <1>0, <1>19 DEF Close, Stop, FreshInv, Unmade
<1>20. CASE UNCHANGED vars
  BY <1>0, <1>20 DEF vars, FreshInv, Unmade
<1>21. QED
  BY <1>1, <1>2, <1>3, <1>4, <1>5, <1>6, <1>7, <1>8, <1>9, <1>10, <1>11, <1>12, <1>13,
     <1>14, <1>15, <1>16, <1>17, <1>18, <1>19, <1>20, NextCases

(* What a Start changes: the last child of m.proc, that of no object so    *)
(* far.                                                                    *)
LEMMA StartEffect ==
  ASSUME TypeOK, FreshInv, WiringInv, NEW c \in Calls, EnsureStart(c)
  PROVE  /\ proc' \in Calls /\ proc' \in {proc, c} /\ (proc = None => proc' = c)
         /\ child' = [child EXCEPT ![proc'] = c] /\ object' = [object EXCEPT ![c] = proc']
         /\ live' = live \cup {c} /\ reaper' = [reaper EXCEPT ![c] = "waiting"]
         /\ object[c] = None /\ reaper[c] = "none" /\ child[c] = None
         /\ \A o \in Calls : child[o] # c /\ held[o] # c
<1>0. None \notin Calls /\ proc \in Calls \cup {None} /\ pc[c] = "ensure"
  BY CallsAssumption DEF TypeOK, OrNone, EnsureStart
<1>1. object[c] = None /\ reaper[c] = "none" /\ child[c] = None /\ \A o \in Calls : held[o] # c
  BY <1>0 DEF FreshInv, Unmade, WiringInv
<1>2. \A o \in Calls : child[o] # c
  BY <1>0, <1>1 DEF WiringInv
<1>3. proc' \in Calls /\ proc' \in {proc, c} /\ (proc = None => proc' = c)
  BY <1>0 DEF EnsureStart, MakeProcess
<1>4. QED
  BY <1>1, <1>2, <1>3 DEF EnsureStart, Start

LEMMA NextWiring ==
  TypeOK /\ FreshInv /\ WiringInv /\ [Next]_vars => WiringInv'
<1> SUFFICES ASSUME TypeOK, FreshInv, WiringInv, [Next]_vars PROVE WiringInv'
  OBVIOUS
<1> USE DEF procVars, childVars
<1>0. /\ None \notin Calls /\ proc \in Calls \cup {None} /\ live \subseteq Calls
      /\ running \subseteq Calls /\ \A o \in running : child[o] # None
      /\ child \in [Calls -> Calls \cup {None}] /\ object \in [Calls -> Calls \cup {None}]
      /\ reaper \in [Calls -> {"none", "waiting", "closing", "done"}]
  BY CallsAssumption DEF TypeOK, OrNone
<1>1. ASSUME NEW c \in Calls, Begin(c) PROVE WiringInv'
  BY <1>0, <1>1 DEF Begin, Goto, WiringInv
<1>2. ASSUME NEW c \in Calls, EnsureReuse(c) PROVE WiringInv'
  BY <1>0, <1>2 DEF EnsureReuse, Goto, WiringInv
<1>3. ASSUME NEW c \in Calls, EnsureStop(c) PROVE WiringInv'
  BY <1>0, <1>3 DEF EnsureStop, Stop, WiringInv
<1>4. ASSUME NEW c \in Calls, EnsureStart(c) PROVE WiringInv'
  <2>1. \A o \in Calls : child'[o] # None => object'[child'[o]] = o
    BY <1>0, <1>4, StartEffect DEF WiringInv
  <2>2. \A k \in Calls : object'[k] # None => child'[object'[k]] # None
    BY <1>0, <1>4, StartEffect DEF WiringInv
  <2>3. /\ \A k \in Calls : reaper'[k] = "none" <=> object'[k] = None
        /\ \A k \in Calls : reaper'[k] \in {"closing", "done"} => k \notin live'
    BY <1>0, <1>4, StartEffect DEF WiringInv
  <2>4. QED
    BY <2>1, <2>2, <2>3 DEF WiringInv
<1>5. ASSUME NEW c \in Calls, EnsureFails(c) PROVE WiringInv'
  BY <1>0, <1>5 DEF EnsureFails, MakeProcess, Leave, Goto, WiringInv
<1>6. ASSUME NEW c \in Calls, Capture(c) PROVE WiringInv'
  BY <1>0, <1>6 DEF Capture, Leave, Goto, WiringInv
<1>7. ASSUME NEW c \in Calls, Send(c) PROVE WiringInv'
  BY <1>0, <1>7 DEF Send, Leave, Goto, WiringInv
<1>8. ASSUME NEW c \in Calls, SendFails(c) PROVE WiringInv'
  BY <1>0, <1>8 DEF SendFails, Leave, Goto, WiringInv
<1>9. ASSUME NEW c \in Calls, Open(c) PROVE WiringInv'
  BY <1>0, <1>9 DEF Open, Goto, WiringInv
<1>10. ASSUME NEW c \in Calls, Fill(c) PROVE WiringInv'
  BY <1>0, <1>10 DEF Fill, WiringInv
<1>11. ASSUME NEW c \in Calls, Ended(c) PROVE WiringInv'
  BY <1>0, <1>11 DEF Ended, WiringInv
<1>12. ASSUME NEW c \in Calls, Scanned(c) PROVE WiringInv'
  BY <1>0, <1>12 DEF Scanned, WiringInv
<1>13. ASSUME NEW c \in Calls, CtxEnds(c) PROVE WiringInv'
  BY <1>0, <1>13 DEF CtxEnds, WiringInv
<1>14. ASSUME NEW k \in Calls, ReaperUpdate(k) PROVE WiringInv'
  BY <1>0, <1>14 DEF ReaperUpdate, WiringInv
<1>15. ASSUME NEW k \in Calls, ReaperClose(k) PROVE WiringInv'
  BY <1>0, <1>15 DEF ReaperClose, WiringInv
<1>16. ASSUME NEW k \in Calls, Exit(k) PROVE WiringInv'
  BY <1>0, <1>16 DEF Exit, WiringInv
<1>17. ASSUME NEW k \in Calls, Emit(k) PROVE WiringInv'
  BY <1>0, <1>17 DEF Emit, WiringInv
<1>18. CASE RestartProcess
  BY <1>0, <1>18 DEF RestartProcess, Stop, WiringInv
<1>19. CASE Close
  BY <1>0, <1>19 DEF Close, Stop, WiringInv
<1>20. CASE UNCHANGED vars
  BY <1>0, <1>20 DEF vars, WiringInv
<1>21. QED
  BY <1>1, <1>2, <1>3, <1>4, <1>5, <1>6, <1>7, <1>8, <1>9, <1>10, <1>11, <1>12, <1>13,
     <1>14, <1>15, <1>16, <1>17, <1>18, <1>19, <1>20, NextCases

LEMMA NextProgress ==
  TypeOK /\ FreshInv /\ WiringInv /\ ProgressInv /\ [Next]_vars => ProgressInv'
<1> SUFFICES ASSUME TypeOK, FreshInv, WiringInv, ProgressInv, [Next]_vars PROVE ProgressInv'
  OBVIOUS
<1> USE DEF childVars, callVars
<1>0. /\ None \notin Calls /\ proc \in Calls \cup {None} /\ live \subseteq Calls
      /\ child \in [Calls -> Calls \cup {None}] /\ object \in [Calls -> Calls \cup {None}]
      /\ pc \in [Calls -> PC] /\ held \in [Calls -> Calls \cup {None}]
      /\ sentTo \in [Calls -> Calls \cup {None}] /\ source \in [Calls -> Calls \cup {None}]
      /\ answer \in [Calls -> Calls \cup {None}] /\ buf \in [Calls -> Seq(Line)]
  BY CallsAssumption DEF TypeOK, OrNone
<1>1. ASSUME NEW c \in Calls, Begin(c) PROVE ProgressInv'
  BY <1>0, <1>1 DEF Begin, Goto, ProgressInv
<1>2. ASSUME NEW c \in Calls, EnsureReuse(c) PROVE ProgressInv'
  BY <1>0, <1>2 DEF EnsureReuse, Goto, ProgressInv
<1>3. ASSUME NEW c \in Calls, EnsureStop(c) PROVE ProgressInv'
  BY <1>0, <1>3 DEF EnsureStop, Stop, ProgressInv
<1>4. ASSUME NEW c \in Calls, EnsureStart(c) PROVE ProgressInv'
  <2>1. /\ pc[c] = "ensure" /\ pc' = [pc EXCEPT ![c] = "capture"]
        /\ UNCHANGED <<held, sentTo, source, buf, answer>>
    BY <1>4 DEF EnsureStart, Goto
  <2>2. \A k \in Calls : object[k] # None => object'[k] = object[k]
    BY <1>0, <1>4, StartEffect
  <2>3. \A d \in Calls : held[d] # None => sentTo[d] = None \/ object[sentTo[d]] # None
    BY <1>0 DEF ProgressInv
  <2>4. QED
    BY <1>0, <2>1, <2>2, <2>3 DEF ProgressInv
<1>5. ASSUME NEW c \in Calls, EnsureFails(c) PROVE ProgressInv'
  BY <1>0, <1>5 DEF EnsureFails, MakeProcess, Leave, Goto, ProgressInv
<1>6. ASSUME NEW c \in Calls, Capture(c) PROVE ProgressInv'
  <2>1. /\ pc[c] = "capture" /\ UNCHANGED <<sentTo, source, buf, answer, object>>
        /\ \/ pc' = [pc EXCEPT ![c] = "done"] /\ UNCHANGED held
           \/ pc' = [pc EXCEPT ![c] = "send"] /\ held' = [held EXCEPT ![c] = proc] /\ proc # None
    BY <1>6 DEF Capture, Leave, Goto
  <2>2. held[c] = None /\ sentTo[c] = None
    BY <2>1 DEF ProgressInv
  <2>3. QED
    BY <1>0, <2>1, <2>2 DEF ProgressInv
<1>7. ASSUME NEW c \in Calls, Send(c) PROVE ProgressInv'
  <2>1. /\ pc[c] = "send" /\ sentTo' = [sentTo EXCEPT ![c] = child[held[c]]]
        /\ pc' \in {[pc EXCEPT ![c] = "open"], [pc EXCEPT ![c] = "done"]}
        /\ UNCHANGED <<held, source, buf, answer, object>> /\ child[held[c]] \in Calls
    BY <1>0, <1>7 DEF Send, Goto, Leave
  <2>2. held[c] # None /\ object[child[held[c]]] = held[c]
    BY <1>0, <2>1 DEF ProgressInv, WiringInv
  <2>3. QED
    BY <1>0, <2>1, <2>2 DEF ProgressInv
<1>8. ASSUME NEW c \in Calls, SendFails(c) PROVE ProgressInv'
  BY <1>0, <1>8 DEF SendFails, Leave, Goto, ProgressInv
<1>9. ASSUME NEW c \in Calls, Open(c) PROVE ProgressInv'
  <2>1. /\ pc[c] = "open" /\ source' = [source EXCEPT ![c] = child[held[c]]]
        /\ pc' = [pc EXCEPT ![c] = "read"]
        /\ UNCHANGED <<held, sentTo, buf, answer, object>>
    BY <1>9 DEF Open, Goto
  <2>2. child[held[c]] # None => object[child[held[c]]] # None
    BY <1>0, <2>1 DEF ProgressInv, WiringInv
  <2>3. QED
    BY <1>0, <2>1, <2>2 DEF ProgressInv
<1>10. ASSUME NEW c \in Calls, Fill(c) PROVE ProgressInv'
  BY <1>0, <1>10 DEF Fill, ProgressInv
<1>11. ASSUME NEW c \in Calls, Ended(c) PROVE ProgressInv'
  <2>1. /\ pc[c] \in {"read", "drain", "stderr"} /\ buf[c] = <<>>
        /\ pc' \in {[pc EXCEPT ![c] = "drain"], [pc EXCEPT ![c] = "stderr"],
                    [pc EXCEPT ![c] = "done"]}
        /\ source' \in {source, [source EXCEPT ![c] = child[held[c]]]}
        /\ UNCHANGED <<held, sentTo, buf, answer, object>>
    BY <1>11 DEF Ended, ProgressInv
  <2>2. child[held[c]] # None => object[child[held[c]]] # None
    BY <1>0, <2>1 DEF ProgressInv, WiringInv
  <2>3. QED
    BY <1>0, <2>1, <2>2 DEF ProgressInv
<1>12. ASSUME NEW c \in Calls, Scanned(c) PROVE ProgressInv'
  <2>1. /\ pc[c] = "read" /\ UNCHANGED <<held, sentTo, source, object>>
        /\ \/ UNCHANGED <<pc, answer>> /\ \A d \in Calls \ {c} : buf'[d] = buf[d]
           \/ pc' \in {[pc EXCEPT ![c] = "drain"], [pc EXCEPT ![c] = "done"]}
              /\ buf' = [buf EXCEPT ![c] = <<>>]
              /\ \A d \in Calls \ {c} : answer'[d] = answer[d]
    BY <1>0, <1>12 DEF Scanned, GoesOn, GivesUp, TakesResult, Quits
  <2>2. source[c] # None
    BY <1>12 DEF Scanned, ProgressInv
  <2>3. QED
    BY <1>0, <2>1, <2>2 DEF ProgressInv
<1>13. ASSUME NEW c \in Calls, CtxEnds(c) PROVE ProgressInv'
  BY <1>0, <1>13 DEF CtxEnds, ProgressInv
<1>14. ASSUME NEW k \in Calls, ReaperUpdate(k) PROVE ProgressInv'
  BY <1>0, <1>14 DEF ReaperUpdate, ProgressInv
<1>15. ASSUME NEW k \in Calls, ReaperClose(k) PROVE ProgressInv'
  BY <1>0, <1>15 DEF ReaperClose, ProgressInv
<1>16. ASSUME NEW k \in Calls, Exit(k) PROVE ProgressInv'
  BY <1>0, <1>16 DEF Exit, ProgressInv
<1>17. ASSUME NEW k \in Calls, Emit(k) PROVE ProgressInv'
  BY <1>0, <1>17 DEF Emit, ProgressInv
<1>18. CASE RestartProcess
  BY <1>0, <1>18 DEF RestartProcess, Stop, ProgressInv
<1>19. CASE Close
  BY <1>0, <1>19 DEF Close, Stop, ProgressInv
<1>20. CASE UNCHANGED vars
  BY <1>0, <1>20 DEF vars, ProgressInv
<1>21. QED
  BY <1>1, <1>2, <1>3, <1>4, <1>5, <1>6, <1>7, <1>8, <1>9, <1>10, <1>11, <1>12, <1>13,
     <1>14, <1>15, <1>16, <1>17, <1>18, <1>19, <1>20, NextCases

(***************************************************************************)
(* Which child runs, and what a reaper has still to do.                    *)
(***************************************************************************)

LEMMA InitOrphan == Init => ReapInv /\ NoOrphan
  BY DEF Init, ReapInv, NoOrphan

(* An object that is not running has no child that runs, and nothing but   *)
(* the child of m.proc does.                                               *)
LEMMA NothingRuns ==
  ASSUME TypeOK, WiringInv, ReapInv, NoOrphan, ~late, proc \notin running
  PROVE  live = {}
<1>1. proc \in Calls \cup {None} /\ live \subseteq Calls
  BY DEF TypeOK, OrNone
<1>2. ASSUME NEW k \in live PROVE FALSE
  <2>1. k \in Calls /\ proc # None /\ child[proc] = k
    BY <1>1, <1>2 DEF NoOrphan
  <2>2. proc \in Calls \ running /\ k # None
    BY <1>1, <2>1, CallsAssumption
  <2>3. reaper[k] \in {"closing", "done"}
    BY <2>1, <2>2 DEF ReapInv
  <2>4. QED
    BY <2>1, <2>3 DEF WiringInv
<1>3. QED
  BY <1>2

(* Stop leaves nothing of m.proc running.                                  *)
LEMMA StopEffect ==
  ASSUME TypeOK, WiringInv, ReapInv, NoOrphan, ~late, proc # None, Stop(proc)
  PROVE  /\ live' = {} /\ running' = running \ {proc}
         /\ \A k \in Calls : reaper'[k] \in {reaper[k], "done"}
         /\ child[proc] # None => reaper'[child[proc]] = "done"
         /\ \A k \in reapedChans' : reaper'[k] = "done"
<1>0. /\ proc \in Calls /\ live \subseteq Calls /\ reapedChans \subseteq Calls
      /\ child \in [Calls -> Calls \cup {None}] /\ None \notin Calls
      /\ reaper \in [Calls -> {"none", "waiting", "closing", "done"}]
  BY CallsAssumption DEF TypeOK, OrNone
<1>1. \A k \in reapedChans : reaper[k] = "done"
  BY DEF ReapInv
<1>2. \A k \in live : k = child[proc]
  BY DEF NoOrphan
<1>3. CASE child[proc] = None \/ child[proc] \in reapedChans
  <2>1. live = {}
    BY <1>0, <1>1, <1>2, <1>3 DEF WiringInv
  <2>2. QED
    BY <1>0, <1>1, <1>3, <2>1 DEF Stop
<1>4. CASE ~(child[proc] = None \/ child[proc] \in reapedChans)
  BY <1>0, <1>1, <1>2, <1>4 DEF Stop
<1>5. QED
  BY <1>3, <1>4

LEMMA NextReap ==
  TypeOK /\ FreshInv /\ WiringInv /\ ReapInv /\ NoOrphan /\ [Next]_vars => ReapInv' /\ NoOrphan'
<1> SUFFICES ASSUME TypeOK, FreshInv, WiringInv, ReapInv, NoOrphan, [Next]_vars
             PROVE  ReapInv' /\ NoOrphan'
  OBVIOUS
<1> USE DEF modelVars, procVars, childVars, startVars
<1>0. /\ None \notin Calls /\ proc \in Calls \cup {None} /\ live \subseteq Calls
      /\ running \subseteq Calls /\ reapedChans \subseteq Calls
      /\ child \in [Calls -> Calls \cup {None}] /\ object \in [Calls -> Calls \cup {None}]
      /\ reaper \in [Calls -> {"none", "waiting", "closing", "done"}]
  BY CallsAssumption DEF TypeOK, OrNone
<1>1. ASSUME NEW c \in Calls, Begin(c) PROVE ReapInv' /\ NoOrphan'
  BY <1>0, <1>1 DEF Begin, Goto, ReapInv, NoOrphan
<1>2. ASSUME NEW c \in Calls, EnsureReuse(c) PROVE ReapInv' /\ NoOrphan'
  BY <1>0, <1>2 DEF EnsureReuse, Goto, ReapInv, NoOrphan
<1>3. ASSUME NEW c \in Calls, EnsureStop(c) PROVE ReapInv' /\ NoOrphan'
  <2>1. CASE late
    BY <1>3, <2>1 DEF EnsureStop, ReapInv, NoOrphan
  <2>2. CASE ~late
    BY <1>0, <1>3, <2>2, StopEffect DEF EnsureStop, ReapInv, NoOrphan
  <2>3. QED
    BY <2>1, <2>2
<1>4. ASSUME NEW c \in Calls, EnsureStart(c) PROVE ReapInv' /\ NoOrphan'
  <2> SUFFICES ASSUME ~late' PROVE ReapInv' /\ NoOrphan'
    BY DEF ReapInv, NoOrphan
  <2>1. ~late /\ \A k \in Calls : object[k] = proc' => reaper[k] # "closing"
    BY <1>4 DEF EnsureStart, Start
  <2>2. live' = {c} /\ running' = running \cup {proc'} /\ UNCHANGED reapedChans
    BY <1>4, <2>1, NothingRuns, StartEffect DEF EnsureStart
  <2>3. \A k \in Calls : object[k] # None /\ object[k] = proc' => reaper[k] = "done"
    <3> SUFFICES ASSUME NEW k \in Calls, object[k] # None, object[k] = proc'
                 PROVE  reaper[k] = "done"
      OBVIOUS
    <3>1. CASE child[object[k]] # k
      BY <2>1, <3>1 DEF ReapInv
    <3>2. CASE child[object[k]] = k
      <4>1. proc' \in Calls \ running
        BY <1>0, <1>4, <3>2, StartEffect DEF EnsureStart
      <4>2. reaper[k] \in {"closing", "done"}
        BY <1>0, <2>1, <3>2, <4>1 DEF ReapInv
      <4>3. QED
        BY <2>1, <4>2
    <3>3. QED
      BY <3>1, <3>2
  <2>4. \A k \in Calls : object'[k] # None /\ child'[object'[k]] # k => reaper'[k] = "done"
    BY <1>0, <1>4, <2>1, <2>3, StartEffect DEF ReapInv
  <2>5. \A o \in Calls \ running' : child'[o] # None => reaper'[child'[o]] \in {"closing", "done"}
    BY <1>0, <1>4, <2>1, <2>2, StartEffect DEF ReapInv
  <2>6. \A k \in reapedChans' : reaper'[k] = "done"
    BY <1>0, <1>4, <2>1, <2>2, StartEffect DEF ReapInv
  <2>7. proc' # None /\ child'[proc'] = c
    BY <1>0, <1>4, StartEffect
  <2>8. QED
    BY <2>2, <2>4, <2>5, <2>6, <2>7 DEF ReapInv, NoOrphan
<1>5. ASSUME NEW c \in Calls, EnsureFails(c) PROVE ReapInv' /\ NoOrphan'
  <2>1. late \/ live = {}
    BY <1>5, NothingRuns DEF EnsureFails
  <2>2. QED
    BY <1>0, <1>5, <2>1 DEF EnsureFails, ReapInv, NoOrphan
<1>6. ASSUME NEW c \in Calls, Capture(c) PROVE ReapInv' /\ NoOrphan'
  BY <1>0, <1>6 DEF Capture, Leave, Goto, ReapInv, NoOrphan
<1>7. ASSUME NEW c \in Calls, Send(c) PROVE ReapInv' /\ NoOrphan'
  BY <1>0, <1>7 DEF Send, Leave, Goto, ReapInv, NoOrphan
<1>8. ASSUME NEW c \in Calls, SendFails(c) PROVE ReapInv' /\ NoOrphan'
  BY <1>0, <1>8 DEF SendFails, Leave, Goto, ReapInv, NoOrphan
<1>9. ASSUME NEW c \in Calls, Open(c) PROVE ReapInv' /\ NoOrphan'
  BY <1>0, <1>9 DEF Open, Goto, ReapInv, NoOrphan
<1>10. ASSUME NEW c \in Calls, Fill(c) PROVE ReapInv' /\ NoOrphan'
  BY <1>0, <1>10 DEF Fill, ReapInv, NoOrphan
<1>11. ASSUME NEW c \in Calls, Ended(c) PROVE ReapInv' /\ NoOrphan'
  BY <1>0, <1>11 DEF Ended, ReapInv, NoOrphan
<1>12. ASSUME NEW c \in Calls, Scanned(c) PROVE ReapInv' /\ NoOrphan'
  BY <1>0, <1>12 DEF Scanned, ReapInv, NoOrphan
<1>13. ASSUME NEW c \in Calls, CtxEnds(c) PROVE ReapInv' /\ NoOrphan'
  BY <1>0, <1>13 DEF CtxEnds, ReapInv, NoOrphan
<1>14. ASSUME NEW k \in Calls, ReaperUpdate(k) PROVE ReapInv' /\ NoOrphan'
  BY <1>0, <1>14 DEF ReaperUpdate, ReapInv, NoOrphan
<1>15. ASSUME NEW k \in Calls, ReaperClose(k) PROVE ReapInv' /\ NoOrphan'
  <2>1. CASE late
    BY <1>15, <2>1 DEF ReaperClose, ReapInv, NoOrphan
  <2>2. CASE ~late
    <3>1. child[object[k]] = k /\ object[k] # None
      BY <1>0, <1>15, <2>2 DEF ReaperClose, ReapInv, WiringInv
    <3>2. QED
      BY <1>0, <1>15, <2>2, <3>1 DEF ReaperClose, ReapInv, NoOrphan
  <2>3. QED
    BY <2>1, <2>2
<1>16. ASSUME NEW k \in Calls, Exit(k) PROVE ReapInv' /\ NoOrphan'
  BY <1>0, <1>16 DEF Exit, ReapInv, NoOrphan
<1>17. ASSUME NEW k \in Calls, Emit(k) PROVE ReapInv' /\ NoOrphan'
  BY <1>0, <1>17 DEF Emit, ReapInv, NoOrphan
<1>18. CASE RestartProcess
  <2>1. CASE late
    BY <1>18, <2>1 DEF RestartProcess, ReapInv, NoOrphan
  <2>2. CASE ~late
    BY <1>0, <1>18, <2>2, StopEffect DEF RestartProcess, ReapInv, NoOrphan
  <2>3. QED
    BY <2>1, <2>2
<1>19. CASE Close
  <2>1. CASE late
    BY <1>19, <2>1 DEF Close, ReapInv, NoOrphan
  <2>2. CASE ~late
    BY <1>0, <1>19, <2>2, StopEffect DEF Close, ReapInv, NoOrphan
  <2>3. QED
    BY <2>1, <2>2
<1>20. CASE UNCHANGED vars
  BY <1>0, <1>20 DEF vars, ReapInv, NoOrphan
<1>21. QED
  BY <1>1, <1>2, <1>3, <1>4, <1>5, <1>6, <1>7, <1>8, <1>9, <1>10, <1>11, <1>12, <1>13,
     <1>14, <1>15, <1>16, <1>17, <1>18, <1>19, <1>20, NextCases

(***************************************************************************)
(* The saved session, m.mu, and the panics.                                *)
(***************************************************************************)

LEMMA NextSession == TypeOK /\ SessionSurvives /\ [Next]_vars => SessionSurvives'
<1> SUFFICES ASSUME TypeOK, SessionSurvives, [Next]_vars PROVE SessionSurvives'
  OBVIOUS
<1> USE DEF modelVars, procVars, startVars
<1>0. /\ None \notin Calls /\ proc \in Calls \cup {None} /\ running \subseteq Calls
      /\ resume \in [Calls -> Calls \cup {None}]
  BY CallsAssumption DEF TypeOK, OrNone
<1>1. ASSUME NEW c \in Calls, Begin(c) PROVE SessionSurvives'
  BY <1>0, <1>1 DEF Begin, Goto, SessionSurvives
<1>2. ASSUME NEW c \in Calls, EnsureReuse(c) PROVE SessionSurvives'
  BY <1>0, <1>2 DEF EnsureReuse, Goto, SessionSurvives
<1>3. ASSUME NEW c \in Calls, EnsureStop(c) PROVE SessionSurvives'
  BY <1>0, <1>3 DEF EnsureStop, Stop, SessionSurvives
<1>4. ASSUME NEW c \in Calls, EnsureStart(c) PROVE SessionSurvives'
  BY <1>0, <1>4 DEF EnsureStart, MakeProcess, Start, Goto, SessionSurvives
<1>5. ASSUME NEW c \in Calls, EnsureFails(c) PROVE SessionSurvives'
  BY <1>0, <1>5 DEF EnsureFails, MakeProcess, Leave, Goto, SessionSurvives
<1>6. ASSUME NEW c \in Calls, Capture(c) PROVE SessionSurvives'
  BY <1>0, <1>6 DEF Capture, Leave, Goto, SessionSurvives
<1>7. ASSUME NEW c \in Calls, Send(c) PROVE SessionSurvives'
  BY <1>0, <1>7 DEF Send, Leave, Goto, SessionSurvives
<1>8. ASSUME NEW c \in Calls, SendFails(c) PROVE SessionSurvives'
  BY <1>0, <1>8 DEF SendFails, Leave, Goto, SessionSurvives
<1>9. ASSUME NEW c \in Calls, Open(c) PROVE SessionSurvives'
  BY <1>0, <1>9 DEF Open, Goto, SessionSurvives
<1>10. ASSUME NEW c \in Calls, Fill(c) PROVE SessionSurvives'
  BY <1>0, <1>10 DEF Fill, SessionSurvives
<1>11. ASSUME NEW c \in Calls, Ended(c) PROVE SessionSurvives'
  BY <1>0, <1>11 DEF Ended, SessionSurvives
<1>12. ASSUME NEW c \in Calls, Scanned(c) PROVE SessionSurvives'
  BY <1>0, <1>12 DEF Scanned, SessionSurvives
<1>13. ASSUME NEW c \in Calls, CtxEnds(c) PROVE SessionSurvives'
  BY <1>0, <1>13 DEF CtxEnds, SessionSurvives
<1>14. ASSUME NEW k \in Calls, ReaperUpdate(k) PROVE SessionSurvives'
  BY <1>0, <1>14 DEF ReaperUpdate, SessionSurvives
<1>15. ASSUME NEW k \in Calls, ReaperClose(k) PROVE SessionSurvives'
  BY <1>0, <1>15 DEF ReaperClose, SessionSurvives
<1>16. ASSUME NEW k \in Calls, Exit(k) PROVE SessionSurvives'
  BY <1>0, <1>16 DEF Exit, SessionSurvives
<1>17. ASSUME NEW k \in Calls, Emit(k) PROVE SessionSurvives'
  BY <1>0, <1>17 DEF Emit, SessionSurvives
<1>18. CASE RestartProcess
  BY <1>0, <1>18 DEF RestartProcess, Stop, SessionSurvives
<1>19. CASE Close
  BY <1>0, <1>19 DEF Close, Stop, SessionSurvives
<1>20. CASE UNCHANGED vars
  BY <1>0, <1>20 DEF vars, SessionSurvives
<1>21. QED
  BY <1>1, <1>2, <1>3, <1>4, <1>5, <1>6, <1>7, <1>8, <1>9, <1>10, <1>11, <1>12, <1>13,
     <1>14, <1>15, <1>16, <1>17, <1>18, <1>19, <1>20, NextCases

LEMMA InitMu == Init => SessionSurvives /\ MuInv /\ PanicIsExplained
  BY CallsAssumption DEF Init, SessionSurvives, MuInv, PanicIsExplained

LEMMA NextMu == TypeOK /\ MuInv /\ [Next]_vars => MuInv'
<1> SUFFICES ASSUME TypeOK, MuInv, [Next]_vars PROVE MuInv'
  OBVIOUS
<1> USE DEF modelVars, callVars, startVars
<1>0. /\ None \notin Calls /\ proc \in Calls \cup {None} /\ mu \in Calls \cup {None}
      /\ pc \in [Calls -> PC] /\ running \subseteq Calls
  BY CallsAssumption DEF TypeOK, OrNone
<1>1. ASSUME NEW c \in Calls, Begin(c) PROVE MuInv'
  BY <1>0, <1>1 DEF Begin, Goto, MuInv
<1>2. ASSUME NEW c \in Calls, EnsureReuse(c) PROVE MuInv'
  BY <1>0, <1>2 DEF EnsureReuse, Goto, MuInv
<1>3. ASSUME NEW c \in Calls, EnsureStop(c) PROVE MuInv'
  BY <1>0, <1>3 DEF EnsureStop, Stop, MuInv
<1>4. ASSUME NEW c \in Calls, EnsureStart(c) PROVE MuInv'
  BY <1>0, <1>4 DEF EnsureStart, MakeProcess, Start, Goto, MuInv
<1>5. ASSUME NEW c \in Calls, EnsureFails(c) PROVE MuInv'
  BY <1>0, <1>5 DEF EnsureFails, MakeProcess, Leave, Goto, MuInv
<1>6. ASSUME NEW c \in Calls, Capture(c) PROVE MuInv'
  BY <1>0, <1>6 DEF Capture, Leave, Goto, MuInv
<1>7. ASSUME NEW c \in Calls, Send(c) PROVE MuInv'
  BY <1>0, <1>7 DEF Send, Leave, Goto, MuInv
<1>8. ASSUME NEW c \in Calls, SendFails(c) PROVE MuInv'
  BY <1>0, <1>8 DEF SendFails, Leave, Goto, MuInv
<1>9. ASSUME NEW c \in Calls, Open(c) PROVE MuInv'
  BY <1>0, <1>9 DEF Open, Goto, MuInv
<1>10. ASSUME NEW c \in Calls, Fill(c) PROVE MuInv'
  BY <1>0, <1>10 DEF Fill, MuInv
<1>11. ASSUME NEW c \in Calls, Ended(c) PROVE MuInv'
  BY <1>0, <1>11 DEF Ended, MuInv
<1>12. ASSUME NEW c \in Calls, Scanned(c) PROVE MuInv'
  BY <1>0, <1>12 DEF Scanned, MuInv, GoesOn, GivesUp, TakesResult, Quits
<1>13. ASSUME NEW c \in Calls, CtxEnds(c) PROVE MuInv'
  BY <1>0, <1>13 DEF CtxEnds, MuInv
<1>14. ASSUME NEW k \in Calls, ReaperUpdate(k) PROVE MuInv'
  BY <1>0, <1>14 DEF ReaperUpdate, MuInv
<1>15. ASSUME NEW k \in Calls, ReaperClose(k) PROVE MuInv'
  BY <1>0, <1>15 DEF ReaperClose, MuInv
<1>16. ASSUME NEW k \in Calls, Exit(k) PROVE MuInv'
  BY <1>0, <1>16 DEF Exit, MuInv
<1>17. ASSUME NEW k \in Calls, Emit(k) PROVE MuInv'
  BY <1>0, <1>17 DEF Emit, MuInv
<1>18. CASE RestartProcess
  BY <1>0, <1>18 DEF RestartProcess, Stop, MuInv
<1>19. CASE Close
  BY <1>0, <1>19 DEF Close, Stop, MuInv
<1>20. CASE UNCHANGED vars
  BY <1>0, <1>20 DEF vars, MuInv
<1>21. QED
  BY <1>1, <1>2, <1>3, <1>4, <1>5, <1>6, <1>7, <1>8, <1>9, <1>10, <1>11, <1>12, <1>13,
     <1>14, <1>15, <1>16, <1>17, <1>18, <1>19, <1>20, NextCases

(* A reaper that closes its own channel, which is all that can happen in   *)
(* time, finds it open; and m.proc is gone under a call only if            *)
(* RestartProcess took it.                                                 *)
LEMMA NextPanic ==
  TypeOK /\ WiringInv /\ ReapInv /\ MuInv /\ PanicIsExplained /\ [Next]_vars => PanicIsExplained'
<1> SUFFICES ASSUME TypeOK, WiringInv, ReapInv, MuInv, PanicIsExplained, [Next]_vars
             PROVE  PanicIsExplained'
  OBVIOUS
<1> USE DEF PanicIsExplained, modelVars, startVars
<1>0. /\ None \notin Calls /\ proc \in Calls \cup {None}
      /\ result \in [Calls -> Results] /\ object \in [Calls -> Calls \cup {None}]
  BY CallsAssumption DEF TypeOK, OrNone
<1>1. CASE UNCHANGED vars
  BY <1>1 DEF vars, callVars
<1>2. CASE Next /\ UNCHANGED panicked
  BY <1>2 DEF Next
<1>3. ASSUME NEW c \in Calls, Capture(c) PROVE PanicIsExplained'
  <2>1. CASE proc = None
    BY <1>0, <1>3, <2>1 DEF Capture, Leave, MuInv
  <2>2. CASE proc # None
    BY <1>3, <2>2 DEF Capture
  <2>3. QED
    BY <2>1, <2>2
<1>4. ASSUME NEW k \in Calls, ReaperClose(k) PROVE PanicIsExplained'
  <2>1. CASE late
    BY <1>4, <2>1 DEF ReaperClose
  <2>2. CASE ~late
    BY <1>0, <1>4, <2>2 DEF ReaperClose, ReapInv, WiringInv
  <2>3. QED
    BY <2>1, <2>2
<1>5. CASE Next /\ ~(\E c \in Calls : Capture(c)) /\ ~(\E k \in Calls : ReaperClose(k))
  BY <1>2, <1>5, NextCases
  DEF Begin, CtxEnds, EnsureReuse, EnsureStop, EnsureStart, EnsureFails, Send, SendFails, Open,
      Fill, Ended, Scanned, ReaperUpdate, Exit, Emit, RestartProcess, Close
<1>6. QED
  BY <1>1, <1>3, <1>4, <1>5

(***************************************************************************)
(* A call that nobody overlaps, and its configuration.                     *)
(***************************************************************************)

LEMMA InitAlone == Init => AloneInv /\ KeyInv
  BY DEF Init, AloneInv, KeyInv, InCall

(* Only Begin brings a call in, and nobody forgets an overlap.             *)
Subsides == exposed \subseteq exposed' /\ InCall' \subseteq InCall

LEMMA NextSubsides ==
  ASSUME TypeOK, [Next]_vars, ~ \E c \in Calls : Begin(c)
  PROVE  Subsides
<1> USE DEF Subsides, InCall, callVars, ghostVars
<1>0. pc \in [Calls -> PC]
  BY DEF TypeOK
<1>1. ASSUME NEW c \in Calls, EnsureReuse(c) PROVE Subsides
  BY <1>0, <1>1 DEF EnsureReuse, Goto
<1>2. ASSUME NEW c \in Calls, EnsureStop(c) PROVE Subsides
  BY <1>0, <1>2 DEF EnsureStop, Stop
<1>3. ASSUME NEW c \in Calls, EnsureStart(c) PROVE Subsides
  BY <1>0, <1>3 DEF EnsureStart, MakeProcess, Start, Goto
<1>4. ASSUME NEW c \in Calls, EnsureFails(c) PROVE Subsides
  BY <1>0, <1>4 DEF EnsureFails, MakeProcess, Leave, Goto
<1>5. ASSUME NEW c \in Calls, Capture(c) PROVE Subsides
  BY <1>0, <1>5 DEF Capture, Leave, Goto
<1>6. ASSUME NEW c \in Calls, Send(c) PROVE Subsides
  BY <1>0, <1>6 DEF Send, Leave, Goto
<1>7. ASSUME NEW c \in Calls, SendFails(c) PROVE Subsides
  BY <1>0, <1>7 DEF SendFails, Leave, Goto
<1>8. ASSUME NEW c \in Calls, Open(c) PROVE Subsides
  BY <1>0, <1>8 DEF Open, Goto
<1>9. ASSUME NEW c \in Calls, Fill(c) PROVE Subsides
  BY <1>0, <1>9 DEF Fill
<1>10. ASSUME NEW c \in Calls, Ended(c) PROVE Subsides
  BY <1>0, <1>10 DEF Ended
<1>11. ASSUME NEW c \in Calls, Scanned(c) PROVE Subsides
  BY <1>0, <1>11 DEF Scanned, GoesOn, GivesUp, TakesResult, Quits
<1>12. ASSUME NEW c \in Calls, CtxEnds(c) PROVE Subsides
  BY <1>0, <1>12 DEF CtxEnds
<1>13. ASSUME NEW k \in Calls, ReaperUpdate(k) PROVE Subsides
  BY <1>0, <1>13 DEF ReaperUpdate
<1>14. ASSUME NEW k \in Calls, ReaperClose(k) PROVE Subsides
  BY <1>0, <1>14 DEF ReaperClose
<1>15. ASSUME NEW k \in Calls, Exit(k) PROVE Subsides
  BY <1>0, <1>15 DEF Exit
<1>16. ASSUME NEW k \in Calls, Emit(k) PROVE Subsides
  BY <1>0, <1>16 DEF Emit
<1>17. CASE RestartProcess
  BY <1>0, <1>17 DEF RestartProcess, Stop
<1>18. CASE Close
  BY <1>0, <1>18 DEF Close, Stop
<1>19. CASE UNCHANGED vars
  BY <1>0, <1>19 DEF vars
<1>20. QED
  BY <1>1, <1>2, <1>3, <1>4, <1>5, <1>6, <1>7, <1>8, <1>9, <1>10, <1>11, <1>12, <1>13,
     <1>14, <1>15, <1>16, <1>17, <1>18, <1>19, NextCases

LEMMA NextAlone == TypeOK /\ AloneInv /\ [Next]_vars => AloneInv'
<1> SUFFICES ASSUME TypeOK, AloneInv, [Next]_vars PROVE AloneInv'
  OBVIOUS
<1> USE DEF AloneInv, InCall
<1>0. pc \in [Calls -> PC]
  BY DEF TypeOK
<1>1. ASSUME NEW c \in Calls, Begin(c) PROVE AloneInv'
  BY <1>0, <1>1 DEF Begin, Goto
<1>2. QED
  BY <1>1, NextSubsides DEF Subsides

LEMMA NextKey ==
  TypeOK /\ FreshInv /\ ProgressInv /\ AloneInv /\ KeyInv /\ [Next]_vars => KeyInv'
<1> SUFFICES ASSUME TypeOK, FreshInv, ProgressInv, AloneInv, KeyInv, [Next]_vars PROVE KeyInv'
  OBVIOUS
<1> USE DEF modelVars, procVars, childVars, callVars, ghostVars, startVars
<1>0. /\ None \notin Calls /\ proc \in Calls \cup {None} /\ running \subseteq Calls
      /\ \A o \in running : child[o] # None
      /\ pc \in [Calls -> PC] /\ held \in [Calls -> Calls \cup {None}]
      /\ child \in [Calls -> Calls \cup {None}]
      /\ config \in [Calls -> Keys \cup {NoKey}] /\ key \in [Calls -> Keys \cup {NoKey}]
  BY CallsAssumption DEF TypeOK, OrNone
<1>1. ASSUME NEW c \in Calls, Begin(c) PROVE KeyInv'
  <2>1. /\ pc[c] = "idle" /\ pc' = [pc EXCEPT ![c] = "ensure"] /\ exposed \subseteq exposed'
        /\ \A d \in Calls \ {c} : key'[d] = key[d]
        /\ UNCHANGED <<proc, child, revived, config, cachedKey, held>>
    BY <1>0, <1>1 DEF Begin, Goto
  <2>2. held[c] = None
    BY <2>1 DEF ProgressInv
  <2>3. QED
    BY <1>0, <2>1, <2>2 DEF KeyInv
<1>2. ASSUME NEW c \in Calls, EnsureReuse(c) PROVE KeyInv'
  BY <1>0, <1>2 DEF EnsureReuse, Goto, KeyInv
<1>3. ASSUME NEW c \in Calls, EnsureStop(c) PROVE KeyInv'
  BY <1>0, <1>3 DEF EnsureStop, Stop, KeyInv
<1>4. ASSUME NEW c \in Calls, EnsureStart(c) PROVE KeyInv'
  <2>1. /\ pc[c] = "ensure" /\ pc' = [pc EXCEPT ![c] = "capture"] /\ cachedKey' = key[c]
        /\ UNCHANGED <<key, held, exposed>>
    BY <1>0, <1>4 DEF EnsureStart, Goto
  <2>2. \A d \in Calls \ exposed : pc[d] = "capture" => FALSE
    BY <2>1 DEF AloneInv, InCall
  <2>3. \A d \in Calls : held[d] # c
    BY <2>1 DEF FreshInv, Unmade
  <2>4. CASE proc = None
    <3>1. proc' = c /\ config' = [config EXCEPT ![c] = key[c]] /\ UNCHANGED revived
      BY <1>4, <2>4 DEF EnsureStart, MakeProcess
    <3>2. QED
      BY <1>0, <2>1, <2>2, <2>3, <3>1 DEF KeyInv
  <2>5. CASE proc # None
    <3>1. proc' = proc /\ UNCHANGED config /\ revived' = revived \cup {proc}
      BY <1>4, <2>5 DEF EnsureStart, MakeProcess
    <3>2. QED
      BY <1>0, <2>1, <2>2, <3>1 DEF KeyInv
  <2>6. QED
    BY <2>4, <2>5
<1>5. ASSUME NEW c \in Calls, EnsureFails(c) PROVE KeyInv'
  <2>1. /\ pc[c] = "ensure" /\ pc' = [pc EXCEPT ![c] = "done"]
        /\ UNCHANGED <<key, held, exposed, child, cachedKey>>
    BY <1>0, <1>5 DEF EnsureFails, Leave, Goto
  <2>2. \A d \in Calls \ exposed : pc[d] = "capture" => FALSE
    BY <2>1 DEF AloneInv, InCall
  <2>3. child[c] = None /\ \A d \in Calls : held[d] # c
    BY <2>1 DEF FreshInv, Unmade
  <2>4. CASE proc = None
    <3>1. proc' = c /\ config' = [config EXCEPT ![c] = key[c]] /\ UNCHANGED revived
      BY <1>5, <2>4 DEF EnsureFails, MakeProcess
    <3>2. QED
      BY <1>0, <2>1, <2>2, <2>3, <3>1 DEF KeyInv
  <2>5. CASE proc # None
    <3>1. proc' = proc /\ UNCHANGED config /\ revived' = revived \cup {proc}
      BY <1>5, <2>5 DEF EnsureFails, MakeProcess
    <3>2. QED
      BY <1>0, <2>1, <2>2, <3>1 DEF KeyInv
  <2>6. QED
    BY <2>4, <2>5
<1>6. ASSUME NEW c \in Calls, Capture(c) PROVE KeyInv'
  BY <1>0, <1>6 DEF Capture, Leave, Goto, KeyInv
<1>7. ASSUME NEW c \in Calls, Send(c) PROVE KeyInv'
  BY <1>0, <1>7 DEF Send, Leave, Goto, KeyInv
<1>8. ASSUME NEW c \in Calls, SendFails(c) PROVE KeyInv'
  BY <1>0, <1>8 DEF SendFails, Leave, Goto, KeyInv
<1>9. ASSUME NEW c \in Calls, Open(c) PROVE KeyInv'
  BY <1>0, <1>9 DEF Open, Goto, KeyInv
<1>10. ASSUME NEW c \in Calls, Fill(c) PROVE KeyInv'
  BY <1>0, <1>10 DEF Fill, KeyInv
<1>11. ASSUME NEW c \in Calls, Ended(c) PROVE KeyInv'
  BY <1>0, <1>11 DEF Ended, KeyInv
<1>12. ASSUME NEW c \in Calls, Scanned(c) PROVE KeyInv'
  BY <1>0, <1>12 DEF Scanned, KeyInv, GoesOn, GivesUp, TakesResult, Quits
<1>13. ASSUME NEW c \in Calls, CtxEnds(c) PROVE KeyInv'
  BY <1>0, <1>13 DEF CtxEnds, KeyInv
<1>14. ASSUME NEW k \in Calls, ReaperUpdate(k) PROVE KeyInv'
  BY <1>0, <1>14 DEF ReaperUpdate, KeyInv
<1>15. ASSUME NEW k \in Calls, ReaperClose(k) PROVE KeyInv'
  BY <1>0, <1>15 DEF ReaperClose, KeyInv
<1>16. ASSUME NEW k \in Calls, Exit(k) PROVE KeyInv'
  BY <1>0, <1>16 DEF Exit, KeyInv
<1>17. ASSUME NEW k \in Calls, Emit(k) PROVE KeyInv'
  BY <1>0, <1>17 DEF Emit, KeyInv
<1>18. CASE RestartProcess
  BY <1>0, <1>18 DEF RestartProcess, Stop, KeyInv
<1>19. CASE Close
  BY <1>0, <1>19 DEF Close, Stop, KeyInv
<1>20. CASE UNCHANGED vars
  BY <1>0, <1>20 DEF vars, KeyInv
<1>21. QED
  BY <1>1, <1>2, <1>3, <1>4, <1>5, <1>6, <1>7, <1>8, <1>9, <1>10, <1>11, <1>12, <1>13,
     <1>14, <1>15, <1>16, <1>17, <1>18, <1>19, <1>20, NextCases

(***************************************************************************)
(* The turns: where they are, and what is left of them.                    *)
(***************************************************************************)

(* Where the elements of a sequence were before it was appended to, lost   *)
(* its head, or was split.                                                 *)
LEMMA AppendElements ==
  ASSUME NEW S, NEW s \in Seq(S), NEW e \in S
  PROVE  \A i \in DOMAIN Append(s, e) :
           \/ i \in DOMAIN s /\ Append(s, e)[i] = s[i] /\ i \in Nat /\ i <= Len(s)
           \/ i = Len(s) + 1 /\ Append(s, e)[i] = e /\ Len(s) \in Nat
  OBVIOUS

LEMMA TailElements ==
  ASSUME NEW S, NEW s \in Seq(S), s # <<>>
  PROVE  /\ 1 \in DOMAIN s /\ Head(s) = s[1]
         /\ \A i \in DOMAIN Tail(s) :
              i \in Nat /\ i >= 1 /\ i + 1 \in DOMAIN s /\ Tail(s)[i] = s[i + 1]
  OBVIOUS

LEMMA SplitElements ==
  ASSUME NEW S, NEW s \in Seq(S), NEW n \in 1..Len(s)
  PROVE  /\ \A i \in DOMAIN SubSeq(s, 1, n) :
              i \in Nat /\ i <= n /\ i \in DOMAIN s /\ SubSeq(s, 1, n)[i] = s[i]
         /\ \A i \in DOMAIN SubSeq(s, n + 1, Len(s)) :
              /\ i \in Nat /\ n < n + i /\ n + i \in DOMAIN s
              /\ SubSeq(s, n + 1, Len(s))[i] = s[n + i]
  OBVIOUS

(* A child is asked a turn that it does not have.                          *)
LEMMA AskedTurn ==
  ASSUME NEW p \in Seq(Line), NEW q \in Seq(Calls), NEW c \in Calls,
         Once(q), LastOf(p, q), c \notin TurnsOf(p, q)
  PROVE  /\ Once(Append(q, c)) /\ LastOf(p, Append(q, c))
         /\ TurnsOf(p, Append(q, c)) \subseteq TurnsOf(p, q) \cup {c}
<1>0. \A i \in DOMAIN Append(q, c) :
        \/ i \in DOMAIN q /\ Append(q, c)[i] = q[i] /\ i \in Nat /\ i <= Len(q)
        \/ i = Len(q) + 1 /\ Append(q, c)[i] = c /\ Len(q) \in Nat
  BY AppendElements
<1>1. /\ \A i \in DOMAIN q : q[i] # c
      /\ \A i \in DOMAIN p : p[i].turn # c
  BY DEF TurnsOf, Turns
<1>2. Once(Append(q, c))
  BY <1>0, <1>1 DEF Once
<1>3. LastOf(p, Append(q, c))
  BY <1>0, <1>1 DEF LastOf
<1>4. TurnsOf(p, Append(q, c)) \subseteq TurnsOf(p, q) \cup {c}
  BY <1>0 DEF TurnsOf
<1>5. QED
  BY <1>2, <1>3, <1>4

(* A reader takes the first lines of a pipe.                               *)
LEMMA TakenLines ==
  ASSUME NEW p \in Seq(Line), NEW q \in Seq(Calls), NEW n \in 1..Len(p), LastOf(p, q)
  PROVE  LET b == SubSeq(p, 1, n)
             r == SubSeq(p, n + 1, Len(p)) IN
         /\ LastOf(r, q) /\ TurnsOf(r, q) \subseteq TurnsOf(p, q)
         /\ Turns(b) \subseteq TurnsOf(p, q) /\ Spent(b, TurnsOf(r, q))
<1> DEFINE b == SubSeq(p, 1, n)
           r == SubSeq(p, n + 1, Len(p))
<1>1. \A i \in DOMAIN b : i \in Nat /\ i <= n /\ i \in DOMAIN p /\ b[i] = p[i]
  BY SplitElements
<1>2. \A i \in DOMAIN r : i \in Nat /\ n < n + i /\ n + i \in DOMAIN p /\ r[i] = p[n + i]
  BY SplitElements
<1> HIDE DEF b, r
<1>3. LastOf(r, q)
  <2>1. \A i, j \in DOMAIN r : i < j => n + i < n + j
    BY <1>2
  <2>2. QED
    BY <1>2, <2>1 DEF LastOf
<1>4. Turns(r) \subseteq Turns(p) /\ Turns(b) \subseteq Turns(p)
  BY <1>1, <1>2 DEF Turns
<1>5. Spent(b, TurnsOf(r, q))
  <2> SUFFICES ASSUME NEW i \in DOMAIN b, Final(b[i]) PROVE b[i].turn \notin TurnsOf(r, q)
    BY DEF Spent
  <2>1. i \in DOMAIN p /\ b[i] = p[i] /\ Final(p[i])
    BY <1>1
  <2>2. \A j \in DOMAIN q : q[j] # p[i].turn
    BY <2>1 DEF LastOf
  <2>3. \A j \in DOMAIN r : r[j].turn # p[i].turn
    <3> TAKE j \in DOMAIN r
    <3>1. n + j \in DOMAIN p /\ i < n + j /\ r[j] = p[n + j]
      BY <1>1, <1>2
    <3>2. QED
      BY <2>1, <3>1 DEF LastOf
  <2>4. QED
    BY <2>1, <2>2, <2>3 DEF TurnsOf, Turns
<1>6. QED
  BY <1>3, <1>4, <1>5 DEF TurnsOf, b, r

(* The child writes a line of the turn it is at.                           *)
LEMMA WrittenLine ==
  ASSUME NEW p \in Seq(Line), NEW q \in Seq(Calls), NEW l \in Line,
         q # <<>>, l.turn = Head(q), Once(q), LastOf(p, q),
         NEW r \in {q, Tail(q)}, r = q \/ Final(l), Final(l) => r = Tail(q)
  PROVE  /\ Once(r) /\ LastOf(Append(p, l), r)
         /\ TurnsOf(Append(p, l), r) \subseteq TurnsOf(p, q)
<1>0. \A i \in DOMAIN Append(p, l) :
        \/ i \in DOMAIN p /\ Append(p, l)[i] = p[i] /\ i \in Nat /\ i <= Len(p)
        \/ i = Len(p) + 1 /\ Append(p, l)[i] = l /\ Len(p) \in Nat
  BY AppendElements
<1>1. 1 \in DOMAIN q /\ l.turn = q[1]
  BY TailElements
<1>2. /\ Once(r) /\ (Final(l) => \A i \in DOMAIN r : r[i] # l.turn)
      /\ \A i \in DOMAIN r : \E j \in DOMAIN q : r[i] = q[j]
  <2>1. CASE r = q /\ ~Final(l)
    BY <2>1
  <2>2. CASE r = Tail(q)
    <3>1. \A i \in DOMAIN r :
            i \in Nat /\ i >= 1 /\ i + 1 \in DOMAIN q /\ r[i] = q[i + 1] /\ i + 1 # 1
      BY <2>2, TailElements
    <3>2. \A i, j \in DOMAIN r : i + 1 = j + 1 => i = j
      BY <3>1
    <3>3. Once(r)
      BY <3>1, <3>2 DEF Once
    <3>4. \A i \in DOMAIN r : r[i] # l.turn
      BY <1>1, <3>1 DEF Once
    <3>5. QED
      BY <3>1, <3>3, <3>4
  <2>3. QED
    BY <2>1, <2>2
<1>3. LastOf(Append(p, l), r)
  <2> DEFINE w == Append(p, l)
  <2> SUFFICES ASSUME NEW i \in DOMAIN w, Final(w[i])
               PROVE  /\ \A j \in DOMAIN r : r[j] # w[i].turn
                      /\ \A j \in DOMAIN w : i < j => w[j].turn # w[i].turn
    BY DEF LastOf
  <2> HIDE DEF w
  <2>0. \A j \in DOMAIN w :
          \/ j \in DOMAIN p /\ w[j] = p[j] /\ j \in Nat /\ j <= Len(p)
          \/ j = Len(p) + 1 /\ w[j] = l /\ Len(p) \in Nat
    BY <1>0 DEF w
  <2>1. CASE i \in DOMAIN p /\ w[i] = p[i]
    <3>1. \A j \in DOMAIN q : q[j] # p[i].turn
      BY <2>1 DEF LastOf
    <3>2. l.turn # p[i].turn
      BY <1>1, <3>1
    <3>3. QED
      BY <1>2, <2>0, <2>1, <3>1, <3>2 DEF LastOf
  <2>2. CASE i = Len(p) + 1 /\ w[i] = l /\ Len(p) \in Nat
    <3>1. \A j \in DOMAIN w : ~(i < j)
      BY <2>0, <2>2
    <3>2. QED
      BY <1>2, <2>2, <3>1
  <2>3. QED
    BY <2>0, <2>1, <2>2
<1>4. TurnsOf(Append(p, l), r) \subseteq TurnsOf(p, q)
  <2>1. Turns(Append(p, l)) \subseteq Turns(p) \cup {l.turn}
    BY <1>0 DEF Turns
  <2>2. QED
    BY <1>1, <1>2, <2>1 DEF TurnsOf
<1>5. QED
  BY <1>2, <1>3, <1>4

(* What each action that moves turns and lines does to them.               *)
lineVars == <<sentTo, inbox, pipe, buf, source>>

LEMMA SendEffect ==
  ASSUME TypeOK, WiringInv, ProgressInv, NEW c \in Calls, Send(c)
  PROVE  /\ child[held[c]] \in Calls /\ held[c] \in Calls
         /\ object[child[held[c]]] = held[c] /\ sentTo[c] = None
         /\ sentTo' = [sentTo EXCEPT ![c] = child[held[c]]]
         /\ inbox' = [inbox EXCEPT ![child[held[c]]] = Append(inbox[child[held[c]]], c)]
         /\ UNCHANGED <<pipe, buf, source>>
<1>1. pc[c] = "send" /\ child[held[c]] \in Calls
  BY DEF Send, TypeOK
<1>2. held[c] \in Calls /\ sentTo[c] = None
  BY <1>1 DEF ProgressInv, TypeOK, OrNone
<1>3. QED
  BY <1>1, <1>2, CallsAssumption DEF WiringInv, Send, callVars

LEMMA OpenEffect ==
  ASSUME ProgressInv, NEW c \in Calls, Open(c)
  PROVE  /\ source' = [source EXCEPT ![c] = child[held[c]]] /\ buf[c] = <<>>
         /\ UNCHANGED <<sentTo, inbox, pipe, buf>>
  BY DEF Open, ProgressInv, pipeVars

LEMMA FillEffect ==
  ASSUME TypeOK, NEW c \in Calls, Fill(c)
  PROVE  /\ source[c] \in Calls
         /\ \E n \in 1..Len(pipe[source[c]]) :
              /\ buf' = [buf EXCEPT ![c] = SubSeq(pipe[source[c]], 1, n)]
              /\ pipe' = [pipe EXCEPT ![source[c]] =
                            SubSeq(pipe[source[c]], n + 1, Len(pipe[source[c]]))]
         /\ UNCHANGED <<sentTo, inbox, source>>
  BY DEF Fill, TypeOK, OrNone

LEMMA ScannedEffect ==
  ASSUME NEW c \in Calls, Scanned(c)
  PROVE  /\ buf' \in {[buf EXCEPT ![c] = Tail(buf[c])], [buf EXCEPT ![c] = <<>>]}
         /\ buf[c] # <<>> /\ UNCHANGED <<sentTo, inbox, pipe, source>>
  BY DEF Scanned, GoesOn, GivesUp, TakesResult, Quits, pipeVars

LEMMA EndedEffect ==
  ASSUME ProgressInv, NEW c \in Calls, Ended(c)
  PROVE  /\ source' \in {source, [source EXCEPT ![c] = child[held[c]]]} /\ buf[c] = <<>>
         /\ UNCHANGED <<sentTo, inbox, pipe, buf>>
  BY DEF Ended, ProgressInv, pipeVars

LEMMA EmitEffect ==
  ASSUME TypeOK, NEW k \in Calls, Emit(k)
  PROVE  /\ inbox[k] # <<>>
         /\ \E l \in Line :
              /\ l.turn = Head(inbox[k])
              /\ pipe' = [pipe EXCEPT ![k] = Append(pipe[k], l)]
              /\ \/ ~Final(l) /\ UNCHANGED inbox
                 \/ Final(l) /\ inbox' = [inbox EXCEPT ![k] = Tail(inbox[k])]
         /\ UNCHANGED <<sentTo, buf, source>>
<1>1. PICK l \in Line :
        /\ l.turn = Head(inbox[k])
        /\ \/ l.kind = "init" /\ UNCHANGED inbox
           \/ l.kind \in {"delta", "garbled", "long"} /\ UNCHANGED inbox
           \/ l.kind \in {"result", "failed"} /\ inbox' = [inbox EXCEPT ![k] = Tail(inbox[k])]
        /\ pipe' = [pipe EXCEPT ![k] = Append(pipe[k], l)]
  BY DEF Emit
<1>2. QED
  BY <1>1 DEF Emit, Final, callVars

LEMMA LineFrame ==
  ASSUME [Next]_vars,
         ~ \E c \in Calls :
              Send(c) \/ Open(c) \/ Fill(c) \/ Scanned(c) \/ Ended(c) \/ Emit(c)
  PROVE  UNCHANGED lineVars
<1> USE DEF lineVars, pipeVars, callVars
<1>1. ASSUME NEW c \in Calls, Begin(c) PROVE UNCHANGED lineVars
  BY <1>1 DEF Begin, Goto
<1>2. ASSUME NEW c \in Calls, EnsureReuse(c) PROVE UNCHANGED lineVars
  BY <1>2 DEF EnsureReuse, Goto
<1>3. ASSUME NEW c \in Calls, EnsureStop(c) PROVE UNCHANGED lineVars
  BY <1>3 DEF EnsureStop, Stop
<1>4. ASSUME NEW c \in Calls, EnsureStart(c) PROVE UNCHANGED lineVars
  BY <1>4 DEF EnsureStart, MakeProcess, Start, Goto
<1>5. ASSUME NEW c \in Calls, EnsureFails(c) PROVE UNCHANGED lineVars
  BY <1>5 DEF EnsureFails, MakeProcess, Leave, Goto
<1>6. ASSUME NEW c \in Calls, Capture(c) PROVE UNCHANGED lineVars
  BY <1>6 DEF Capture, Leave, Goto
<1>7. ASSUME NEW c \in Calls, SendFails(c) PROVE UNCHANGED lineVars
  BY <1>7 DEF SendFails, Leave, Goto
<1>9. ASSUME NEW c \in Calls, CtxEnds(c) PROVE UNCHANGED lineVars
  BY <1>9 DEF CtxEnds
<1>10. ASSUME NEW k \in Calls, ReaperUpdate(k) PROVE UNCHANGED lineVars
  BY <1>10 DEF ReaperUpdate
<1>11. ASSUME NEW k \in Calls, ReaperClose(k) PROVE UNCHANGED lineVars
  BY <1>11 DEF ReaperClose
<1>12. ASSUME NEW k \in Calls, Exit(k) PROVE UNCHANGED lineVars
  BY <1>12 DEF Exit
<1>13. CASE RestartProcess
  BY <1>13 DEF RestartProcess, Stop
<1>14. CASE Close
  BY <1>14 DEF Close, Stop
<1>15. CASE UNCHANGED vars
  BY <1>15 DEF vars
<1>16. QED
  BY <1>1, <1>2, <1>3, <1>4, <1>5, <1>6, <1>7, <1>9, <1>10, <1>11, <1>12, <1>13,
     <1>14, <1>15, NextCases

LEMMA LineTypes ==
  ASSUME TypeOK
  PROVE  /\ None \notin Calls
         /\ inbox \in [Calls -> Seq(Calls)] /\ pipe \in [Calls -> Seq(Line)]
         /\ buf \in [Calls -> Seq(Line)] /\ sentTo \in [Calls -> Calls \cup {None}]
         /\ source \in [Calls -> Calls \cup {None}] /\ \A l \in Line : l.turn \in Calls
         /\ \A k \in Calls : Pending(k) \subseteq Calls
<1>1. /\ None \notin Calls
      /\ inbox \in [Calls -> Seq(Calls)] /\ pipe \in [Calls -> Seq(Line)]
      /\ buf \in [Calls -> Seq(Line)] /\ sentTo \in [Calls -> Calls \cup {None}]
      /\ source \in [Calls -> Calls \cup {None}] /\ \A l \in Line : l.turn \in Calls
  BY CallsAssumption DEF TypeOK, OrNone, Line
<1>2. ASSUME NEW k \in Calls PROVE Pending(k) \subseteq Calls
  <2>1. inbox[k] \in Seq(Calls) /\ pipe[k] \in Seq(Line)
    BY <1>1
  <2>2. Turns(pipe[k]) \subseteq Calls
    BY <2>1, TurnsTypes
  <2>3. \A i \in DOMAIN inbox[k] : inbox[k][i] \in Calls
    BY <2>1
  <2>4. QED
    BY <2>2, <2>3 DEF Pending, TurnsOf
<1>3. QED
  BY <1>1, <1>2

(* What a call has yet to scan, it had before.                             *)
LEMMA BufferShrinks ==
  ASSUME TypeOK, NEW c \in Calls, Scanned(c)
  PROVE  /\ \A i \in DOMAIN buf'[c] : \E j \in DOMAIN buf[c] : buf'[c][i] = buf[c][j]
         /\ \A d \in Calls \ {c} : buf'[d] = buf[d]
<1>1. buf \in [Calls -> Seq(Line)] /\ buf[c] # <<>>
  BY DEF TypeOK, Scanned
<1>2. CASE buf' = [buf EXCEPT ![c] = Tail(buf[c])]
  <2>1. buf'[c] = Tail(buf[c]) /\ buf[c] \in Seq(Line)
    BY <1>1, <1>2
  <2>2. QED
    BY <1>1, <1>2, <2>1, TailElements
<1>3. CASE buf' = [buf EXCEPT ![c] = <<>>]
  <2>1. buf'[c] = <<>>
    BY <1>1, <1>3
  <2>2. QED
    BY <1>1, <1>3, <2>1
<1>4. QED
  BY <1>2, <1>3, ScannedEffect

(* A turn comes to a child by Send only, and goes where the child is read. *)
NewTurn(k) == {c \in Calls : Send(c) /\ child[held[c]] = k}

TurnsKept(k) ==
  /\ TurnsOf(pipe'[k], inbox'[k]) \subseteq Pending(k) \cup NewTurn(k)
  /\ Once(inbox'[k]) /\ LastOf(pipe'[k], inbox'[k])

LEMMA NextTurns ==
  ASSUME TypeOK, WiringInv, ProgressInv, PlaceInv, LastInv, [Next]_vars, NEW k \in Calls
  PROVE  TurnsKept(k)
<1>0. /\ inbox[k] \in Seq(Calls) /\ pipe[k] \in Seq(Line)
      /\ Once(inbox[k]) /\ LastOf(pipe[k], inbox[k])
      /\ inbox \in [Calls -> Seq(Calls)] /\ pipe \in [Calls -> Seq(Line)]
  BY LineTypes DEF LastInv
<1>1. CASE UNCHANGED <<inbox[k], pipe[k]>>
  BY <1>0, <1>1 DEF TurnsKept, Pending
<1>2. ASSUME NEW c \in Calls, Send(c), child[held[c]] = k
      PROVE  TurnsKept(k)
  <2>1. c \notin TurnsOf(pipe[k], inbox[k])
    BY <1>2, SendEffect, LineTypes DEF PlaceInv, Pending
  <2>2. inbox'[k] = Append(inbox[k], c) /\ pipe'[k] = pipe[k]
    BY <1>0, <1>2, SendEffect
  <2>3. Once(inbox'[k]) /\ LastOf(pipe'[k], inbox'[k])
        /\ TurnsOf(pipe'[k], inbox'[k]) \subseteq TurnsOf(pipe[k], inbox[k]) \cup {c}
    BY <1>0, <2>1, <2>2, AskedTurn
  <2>4. QED
    BY <1>2, <2>3 DEF TurnsKept, Pending, NewTurn
<1>3. ASSUME NEW c \in Calls, Fill(c), source[c] = k
      PROVE  TurnsKept(k)
  <2>1. PICK n \in 1..Len(pipe[k]) :
          pipe' = [pipe EXCEPT ![k] = SubSeq(pipe[k], n + 1, Len(pipe[k]))]
    BY <1>3, FillEffect
  <2>2. inbox'[k] = inbox[k] /\ pipe'[k] = SubSeq(pipe[k], n + 1, Len(pipe[k]))
    BY <1>0, <1>3, <2>1, FillEffect
  <2>3. LastOf(pipe'[k], inbox'[k])
        /\ TurnsOf(pipe'[k], inbox'[k]) \subseteq TurnsOf(pipe[k], inbox[k])
    BY <1>0, <2>2, TakenLines
  <2>4. QED
    BY <1>0, <2>2, <2>3 DEF TurnsKept, Pending
<1>4. CASE Emit(k)
  <2>1. PICK l \in Line :
          /\ l.turn = Head(inbox[k]) /\ pipe' = [pipe EXCEPT ![k] = Append(pipe[k], l)]
          /\ \/ ~Final(l) /\ UNCHANGED inbox
             \/ Final(l) /\ inbox' = [inbox EXCEPT ![k] = Tail(inbox[k])]
    BY <1>4, EmitEffect
  <2>2. /\ inbox[k] # <<>> /\ pipe'[k] = Append(pipe[k], l)
        /\ inbox'[k] = IF Final(l) THEN Tail(inbox[k]) ELSE inbox[k]
    BY <1>0, <1>4, <2>1, EmitEffect
  <2>3. /\ Once(inbox'[k]) /\ LastOf(pipe'[k], inbox'[k])
        /\ TurnsOf(pipe'[k], inbox'[k]) \subseteq TurnsOf(pipe[k], inbox[k])
    BY <1>0, <2>1, <2>2, WrittenLine
  <2>4. QED
    BY <2>3 DEF TurnsKept, Pending
<1>5. CASE UNCHANGED lineVars
  BY <1>1, <1>5 DEF lineVars
<1>6. ASSUME NEW c \in Calls,
             Send(c) \/ Open(c) \/ Fill(c) \/ Scanned(c) \/ Ended(c) \/ Emit(c)
      PROVE  TurnsKept(k)
  <2>1. ASSUME Send(c), child[held[c]] # k PROVE TurnsKept(k)
    BY <1>0, <1>1, <2>1, SendEffect
  <2>2. ASSUME Fill(c), source[c] # k PROVE TurnsKept(k)
    BY <1>0, <1>1, <2>2, FillEffect
  <2>3. ASSUME Emit(c), c # k PROVE TurnsKept(k)
    BY <1>0, <1>1, <2>3, EmitEffect
  <2>4. ASSUME Open(c) PROVE TurnsKept(k)
    BY <1>1, <2>4, OpenEffect
  <2>5. ASSUME Scanned(c) PROVE TurnsKept(k)
    BY <1>1, <2>5, ScannedEffect
  <2>6. ASSUME Send(c) PROVE TurnsKept(k)
    BY <1>2, <2>1, <2>6
  <2>7. ASSUME Fill(c) PROVE TurnsKept(k)
    BY <1>3, <2>2, <2>7
  <2>8. ASSUME Emit(c) PROVE TurnsKept(k)
    BY <1>4, <2>3, <2>8
  <2>9. ASSUME Ended(c) PROVE TurnsKept(k)
    BY <1>1, <2>9, EndedEffect
  <2>10. QED
    BY <1>6, <2>4, <2>5, <2>6, <2>7, <2>8, <2>9
<1>7. QED
  BY <1>5, <1>6, LineFrame

(* A message that has gone to a child has gone there.                      *)
LEMMA SentStays ==
  ASSUME TypeOK, WiringInv, ProgressInv, [Next]_vars, NEW t \in Calls, sentTo[t] # None
  PROVE  sentTo'[t] = sentTo[t]
<1>1. CASE UNCHANGED lineVars
  BY <1>1 DEF lineVars
<1>2. ASSUME NEW c \in Calls,
             Send(c) \/ Open(c) \/ Fill(c) \/ Scanned(c) \/ Ended(c) \/ Emit(c)
      PROVE  sentTo'[t] = sentTo[t]
  <2>1. ASSUME Send(c) PROVE sentTo'[t] = sentTo[t]
    BY <2>1, SendEffect, LineTypes
  <2>2. ASSUME Open(c) PROVE sentTo'[t] = sentTo[t]
    BY <2>2, OpenEffect
  <2>3. ASSUME Fill(c) PROVE sentTo'[t] = sentTo[t]
    BY <2>3, FillEffect
  <2>4. ASSUME Scanned(c) PROVE sentTo'[t] = sentTo[t]
    BY <2>4, ScannedEffect
  <2>5. ASSUME Emit(c) PROVE sentTo'[t] = sentTo[t]
    BY <2>5, EmitEffect
  <2>6. ASSUME Ended(c) PROVE sentTo'[t] = sentTo[t]
    BY <2>6, EndedEffect
  <2>7. QED
    BY <1>2, <2>1, <2>2, <2>3, <2>4, <2>5, <2>6
<1>3. QED
  BY <1>1, <1>2, LineFrame

(* What a scanner has read ahead it keeps, or loses, or took it just now   *)
(* from the child that it reads.                                           *)
LinesKept(c) ==
  \/ buf'[c] = <<>>
  \/ /\ source'[c] = source[c]
     /\ \A i \in DOMAIN buf'[c] : \E j \in DOMAIN buf[c] : buf'[c][i] = buf[c][j]
  \/ /\ source'[c] = source[c] /\ source[c] \in Calls
     /\ Turns(buf'[c]) \subseteq Pending(source[c])
     /\ Spent(buf'[c], TurnsOf(pipe'[source[c]], inbox'[source[c]]))

LEMMA NextLines ==
  ASSUME TypeOK, WiringInv, ProgressInv, LastInv, [Next]_vars, NEW c \in Calls
  PROVE  LinesKept(c)
<1>0. /\ buf \in [Calls -> Seq(Line)] /\ pipe \in [Calls -> Seq(Line)]
      /\ inbox \in [Calls -> Seq(Calls)] /\ source \in [Calls -> Calls \cup {None}]
  BY LineTypes
<1>1. CASE UNCHANGED <<buf[c], source[c]>>
  BY <1>1 DEF LinesKept
<1>2. ASSUME Fill(c) PROVE LinesKept(c)
  <2> DEFINE k == source[c]
  <2>1. k \in Calls
    BY <1>2, FillEffect
  <2>2. PICK n \in 1..Len(pipe[k]) :
          /\ buf' = [buf EXCEPT ![c] = SubSeq(pipe[k], 1, n)]
          /\ pipe' = [pipe EXCEPT ![k] = SubSeq(pipe[k], n + 1, Len(pipe[k]))]
    BY <1>2, FillEffect
  <2>3. /\ buf'[c] = SubSeq(pipe[k], 1, n) /\ inbox'[k] = inbox[k]
        /\ pipe'[k] = SubSeq(pipe[k], n + 1, Len(pipe[k])) /\ source'[c] = source[c]
    BY <1>0, <1>2, <2>1, <2>2, FillEffect
  <2>4. pipe[k] \in Seq(Line) /\ inbox[k] \in Seq(Calls) /\ LastOf(pipe[k], inbox[k])
    BY <1>0, <2>1 DEF LastInv
  <2>5. /\ Turns(SubSeq(pipe[k], 1, n)) \subseteq TurnsOf(pipe[k], inbox[k])
        /\ Spent(SubSeq(pipe[k], 1, n),
                 TurnsOf(SubSeq(pipe[k], n + 1, Len(pipe[k])), inbox[k]))
    BY <2>4, TakenLines
  <2>6. QED
    BY <2>1, <2>3, <2>5 DEF LinesKept, Pending
<1>3. ASSUME Scanned(c) PROVE LinesKept(c)
  BY <1>3, BufferShrinks, ScannedEffect DEF LinesKept
<1>4. ASSUME Open(c) PROVE LinesKept(c)
  BY <1>4, OpenEffect DEF LinesKept
<1>5. CASE UNCHANGED lineVars
  BY <1>1, <1>5 DEF lineVars
<1>6. ASSUME NEW d \in Calls,
             Send(d) \/ Open(d) \/ Fill(d) \/ Scanned(d) \/ Ended(d) \/ Emit(d)
      PROVE  LinesKept(c)
  <2>1. ASSUME Send(d) PROVE LinesKept(c)
    BY <1>1, <2>1, SendEffect
  <2>2. ASSUME Emit(d) PROVE LinesKept(c)
    BY <1>1, <2>2, EmitEffect
  <2>3. ASSUME Open(d) PROVE LinesKept(c)
    BY <1>0, <1>1, <1>4, <2>3, OpenEffect
  <2>4. ASSUME Fill(d) PROVE LinesKept(c)
    <3>1. CASE d = c
      BY <1>2, <2>4, <3>1
    <3>2. CASE d # c
      BY <1>0, <1>1, <2>4, <3>2, FillEffect
    <3>3. QED
      BY <3>1, <3>2
  <2>5. ASSUME Scanned(d) PROVE LinesKept(c)
    <3>1. CASE d = c
      BY <1>3, <2>5, <3>1
    <3>2. CASE d # c
      BY <1>1, <2>5, <3>2, BufferShrinks, ScannedEffect
    <3>3. QED
      BY <3>1, <3>2
  <2>6. ASSUME Ended(d) PROVE LinesKept(c)
    <3>1. CASE d = c
      BY <2>6, <3>1, EndedEffect DEF LinesKept
    <3>2. CASE d # c
      BY <1>0, <1>1, <2>6, <3>2, EndedEffect
    <3>3. QED
      BY <3>1, <3>2
  <2>7. QED
    BY <1>6, <2>1, <2>2, <2>3, <2>4, <2>5, <2>6
<1>7. QED
  BY <1>5, <1>6, LineFrame

LEMMA NextPlace ==
  ASSUME TypeOK, WiringInv, ProgressInv, PlaceInv, LastInv, [Next]_vars
  PROVE  PlaceInv'
<1>0. /\ None \notin Calls /\ buf \in [Calls -> Seq(Line)]
      /\ \A k \in Calls : Pending(k) \subseteq Calls
  BY LineTypes
<1>1. ASSUME NEW k \in Calls, NEW t \in TurnsOf(pipe'[k], inbox'[k]) PROVE sentTo'[t] = k
  <2>1. t \in Pending(k) \cup NewTurn(k)
    BY <1>1, NextTurns DEF TurnsKept
  <2>2. CASE t \in Pending(k)
    <3>1. t \in Calls /\ sentTo[t] = k /\ sentTo[t] # None
      BY <1>0, <2>2 DEF PlaceInv
    <3>2. QED
      BY <3>1, SentStays
  <2>3. CASE t \in NewTurn(k)
    BY <2>3, SendEffect, LineTypes DEF NewTurn
  <2>4. QED
    BY <2>1, <2>2, <2>3
<1>2. ASSUME NEW c \in Calls, NEW t \in Turns(buf'[c]) PROVE sentTo'[t] = source'[c]
  <2>1. LinesKept(c)
    BY NextLines
  <2>2. PICK i \in DOMAIN buf'[c] : t = buf'[c][i].turn
    BY DEF Turns
  <2>3. CASE buf'[c] = <<>>
    BY <2>2, <2>3
  <2>4. CASE /\ source'[c] = source[c]
             /\ \A x \in DOMAIN buf'[c] : \E j \in DOMAIN buf[c] : buf'[c][x] = buf[c][j]
    <3>1. PICK j \in DOMAIN buf[c] : t = buf[c][j].turn
      BY <2>2, <2>4
    <3>2. t \in Turns(buf[c]) /\ buf[c] # <<>> /\ buf[c] \in Seq(Line)
      BY <1>0, <3>1 DEF Turns
    <3>3. t \in Calls /\ sentTo[t] = source[c] /\ source[c] # None
      BY <3>2, TurnsTypes DEF PlaceInv, ProgressInv
    <3>4. QED
      BY <2>4, <3>3, SentStays
  <2>5. CASE /\ source'[c] = source[c] /\ source[c] \in Calls
             /\ Turns(buf'[c]) \subseteq Pending(source[c])
    <3>1. t \in Calls /\ sentTo[t] = source[c] /\ sentTo[t] # None
      BY <1>0, <1>2, <2>5 DEF PlaceInv
    <3>2. QED
      BY <2>5, <3>1, SentStays
  <2>6. QED
    BY <2>1, <2>3, <2>4, <2>5 DEF LinesKept
<1>3. QED
  BY <1>1, <1>2 DEF PlaceInv, Pending, TurnsOf, Turns

LEMMA NextLast ==
  ASSUME TypeOK, WiringInv, ProgressInv, PlaceInv, LastInv, [Next]_vars
  PROVE  LastInv'
<1>0. /\ None \notin Calls /\ buf \in [Calls -> Seq(Line)]
      /\ source \in [Calls -> Calls \cup {None}]
  BY LineTypes
<1>1. \A k \in Calls : Once(inbox'[k]) /\ LastOf(pipe'[k], inbox'[k])
  BY NextTurns DEF TurnsKept
<1>2. ASSUME NEW c \in Calls, buf'[c] # <<>>
      PROVE  Spent(buf'[c], TurnsOf(pipe'[source'[c]], inbox'[source'[c]]))
  <2>1. LinesKept(c)
    BY NextLines
  <2>2. CASE /\ source'[c] = source[c]
             /\ \A x \in DOMAIN buf'[c] : \E j \in DOMAIN buf[c] : buf'[c][x] = buf[c][j]
    <3> SUFFICES ASSUME NEW i \in DOMAIN buf'[c], Final(buf'[c][i]),
                        buf'[c][i].turn \in TurnsOf(pipe'[source[c]], inbox'[source[c]])
                 PROVE  FALSE
      BY <2>2 DEF Spent
    <3> DEFINE t == buf'[c][i].turn
    <3>1. PICK j \in DOMAIN buf[c] : buf'[c][i] = buf[c][j]
      BY <2>2
    <3>2. t \in Turns(buf[c]) /\ buf[c] # <<>> /\ Final(buf[c][j]) /\ t = buf[c][j].turn
      BY <1>0, <3>1 DEF Turns
    <3>3. source[c] \in Calls /\ sentTo[t] = source[c] /\ Spent(buf[c], Pending(source[c]))
      BY <1>0, <3>2 DEF PlaceInv, ProgressInv, LastInv
    <3>4. t \notin Pending(source[c])
      BY <3>2, <3>3 DEF Spent
    <3>5. t \in NewTurn(source[c])
      BY <3>3, <3>4, NextTurns DEF TurnsKept
    <3>6. t \in Calls /\ Send(t)
      BY <3>5 DEF NewTurn
    <3>7. QED
      BY <1>0, <3>3, <3>6, SendEffect
  <2>3. QED
    BY <1>2, <2>1, <2>2 DEF LinesKept
<1>3. QED
  BY <1>1, <1>2 DEF LastInv, Pending, TurnsOf, Turns, Once, LastOf, Spent

(* How a call comes to read, and what it keeps.                            *)
Reading(d) ==
  /\ pc'[d] = "open" => pc[d] = "open" \/ Send(d)
  /\ pc'[d] = "read" => Open(d) \/ (pc[d] = "read" /\ source'[d] = source[d])
  /\ pc'[d] \in {"drain", "stderr"} =>
       pc[d] \in {"drain", "stderr"} \/ SendFails(d) \/ (pc[d] = "read" /\ (Ended(d) \/ Scanned(d)))
  /\ Send(d) \/ sentTo'[d] = sentTo[d]
  /\ \/ answer'[d] = answer[d]
     \/ pc[d] = "read" /\ buf[d] # <<>> /\ TakesResult(d)
  /\ pc[d] \in {"open", "read"} => held'[d] = held[d]
  /\ d \in exposed => d \in exposed'
  /\ d \in stale => d \in stale'

LEMMA NextReading ==
  ASSUME TypeOK, [Next]_vars, NEW d \in Calls
  PROVE  Reading(d)
<1> USE DEF modelVars, procVars, childVars, pipeVars, callVars, ghostVars, startVars
<1>0. /\ pc \in [Calls -> PC] /\ source \in [Calls -> OrNone(Calls)]
      /\ answer \in [Calls -> OrNone(Calls)] /\ held \in [Calls -> OrNone(Calls)]
      /\ sentTo \in [Calls -> OrNone(Calls)]
  BY DEF TypeOK
<1>1. ASSUME NEW c \in Calls, Begin(c) PROVE Reading(d)
  BY <1>0, <1>1 DEF Begin, Goto, Reading
<1>2. ASSUME NEW c \in Calls, EnsureReuse(c) PROVE Reading(d)
  BY <1>0, <1>2 DEF EnsureReuse, Goto, Reading
<1>3. ASSUME NEW c \in Calls, EnsureStop(c) PROVE Reading(d)
  BY <1>0, <1>3 DEF EnsureStop, Stop, Reading
<1>4. ASSUME NEW c \in Calls, EnsureStart(c) PROVE Reading(d)
  BY <1>0, <1>4 DEF EnsureStart, MakeProcess, Start, Goto, Reading
<1>5. ASSUME NEW c \in Calls, EnsureFails(c) PROVE Reading(d)
  BY <1>0, <1>5 DEF EnsureFails, MakeProcess, Leave, Goto, Reading
<1>6. ASSUME NEW c \in Calls, Capture(c) PROVE Reading(d)
  BY <1>0, <1>6 DEF Capture, Leave, Goto, Reading
<1>7. ASSUME NEW c \in Calls, Send(c) PROVE Reading(d)
  <2>1. pc' = [pc EXCEPT ![c] = "open"] \/ pc' = [pc EXCEPT ![c] = "done"]
    BY <1>7 DEF Send, Leave, Goto
  <2>2. /\ UNCHANGED <<source, answer, held>> /\ exposed \subseteq exposed'
        /\ stale \subseteq stale' /\ (c # d => sentTo'[d] = sentTo[d])
    BY <1>0, <1>7 DEF Send, Leave
  <2>3. QED
    BY <1>0, <1>7, <2>1, <2>2 DEF Reading
<1>8. ASSUME NEW c \in Calls, SendFails(c) PROVE Reading(d)
  BY <1>0, <1>8 DEF SendFails, Leave, Goto, Reading
<1>9. ASSUME NEW c \in Calls, Open(c) PROVE Reading(d)
  BY <1>0, <1>9 DEF Open, Goto, Reading
<1>10. ASSUME NEW c \in Calls, Fill(c) PROVE Reading(d)
  BY <1>0, <1>10 DEF Fill, Reading
<1>11. ASSUME NEW c \in Calls, Ended(c) PROVE Reading(d)
  BY <1>0, <1>11 DEF Ended, Reading
<1>12. ASSUME NEW c \in Calls, Scanned(c) PROVE Reading(d)
  <2>1. /\ pc[c] = "read" /\ UNCHANGED <<sentTo, held, source, exposed>>
        /\ stale \subseteq stale' /\ buf[c] # <<>>
        /\ pc' \in {pc, [pc EXCEPT ![c] = "drain"], [pc EXCEPT ![c] = "done"]}
        /\ UNCHANGED answer
           \/ (TakesResult(c) /\ answer' = [answer EXCEPT ![c] = Head(buf[c]).turn])
    BY <1>12 DEF Scanned, GoesOn, GivesUp, TakesResult, Quits
  <2>2. QED
    BY <1>0, <1>12, <2>1 DEF Reading
<1>13. ASSUME NEW c \in Calls, CtxEnds(c) PROVE Reading(d)
  BY <1>0, <1>13 DEF CtxEnds, Reading
<1>14. ASSUME NEW k \in Calls, ReaperUpdate(k) PROVE Reading(d)
  BY <1>0, <1>14 DEF ReaperUpdate, Reading
<1>15. ASSUME NEW k \in Calls, ReaperClose(k) PROVE Reading(d)
  BY <1>0, <1>15 DEF ReaperClose, Reading
<1>16. ASSUME NEW k \in Calls, Exit(k) PROVE Reading(d)
  BY <1>0, <1>16 DEF Exit, Reading
<1>17. ASSUME NEW k \in Calls, Emit(k) PROVE Reading(d)
  BY <1>0, <1>17 DEF Emit, Reading
<1>18. CASE RestartProcess
  BY <1>0, <1>18 DEF RestartProcess, Stop, Reading
<1>19. CASE Close
  BY <1>0, <1>19 DEF Close, Stop, Reading
<1>20. CASE UNCHANGED vars
  BY <1>0, <1>20 DEF vars, Reading
<1>21. QED
  BY <1>1, <1>2, <1>3, <1>4, <1>5, <1>6, <1>7, <1>8, <1>9, <1>10, <1>11, <1>12, <1>13,
     <1>14, <1>15, <1>16, <1>17, <1>18, <1>19, <1>20, NextCases

(* A call with messages at a child ends when it has read, or has drained.  *)
LEMMA NextLeaving ==
  ASSUME TypeOK, ProgressInv, [Next]_vars, NEW d \in Calls, d \in InCall, sentTo[d] # None,
         pc'[d] \in {"idle", "done"}
  PROVE  pc[d] \in {"read", "drain", "stderr"} /\ (Ended(d) \/ (pc[d] = "read" /\ Scanned(d)))
<1> USE DEF modelVars, procVars, childVars, pipeVars, callVars, ghostVars, startVars
<1> DEFINE G == /\ pc[d] \in {"read", "drain", "stderr"}
                /\ Ended(d) \/ (pc[d] = "read" /\ Scanned(d))
<1>0. /\ pc \in [Calls -> PC] /\ pc[d] \notin {"idle", "done", "ensure", "capture", "send"}
      /\ pc'[d] \in {"idle", "done"}
  BY DEF TypeOK, ProgressInv, InCall
<1>1. ASSUME NEW c \in Calls, Begin(c) PROVE G
  BY <1>0, <1>1 DEF Begin, Goto
<1>2. ASSUME NEW c \in Calls, EnsureReuse(c) PROVE G
  BY <1>0, <1>2 DEF EnsureReuse, Goto
<1>3. ASSUME NEW c \in Calls, EnsureStop(c) PROVE G
  BY <1>0, <1>3 DEF EnsureStop, Stop
<1>4. ASSUME NEW c \in Calls, EnsureStart(c) PROVE G
  BY <1>0, <1>4 DEF EnsureStart, MakeProcess, Start, Goto
<1>5. ASSUME NEW c \in Calls, EnsureFails(c) PROVE G
  BY <1>0, <1>5 DEF EnsureFails, MakeProcess, Leave, Goto
<1>6. ASSUME NEW c \in Calls, Capture(c) PROVE G
  BY <1>0, <1>6 DEF Capture, Leave, Goto
<1>7. ASSUME NEW c \in Calls, Send(c) PROVE G
  <2>1. pc[c] = "send"
        /\ (pc' = [pc EXCEPT ![c] = "open"] \/ pc' = [pc EXCEPT ![c] = "done"])
    BY <1>7 DEF Send, Leave, Goto
  <2>2. QED
    BY <1>0, <2>1
<1>8. ASSUME NEW c \in Calls, SendFails(c) PROVE G
  BY <1>0, <1>8 DEF SendFails, Leave, Goto
<1>9. ASSUME NEW c \in Calls, Open(c) PROVE G
  BY <1>0, <1>9 DEF Open, Goto
<1>10. ASSUME NEW c \in Calls, Fill(c) PROVE G
  BY <1>0, <1>10 DEF Fill
<1>11. ASSUME NEW c \in Calls, Ended(c) PROVE G
  <2>1. /\ pc[c] \in {"read", "drain", "stderr"}
        /\ \E l \in {"drain", "stderr", "done"} : pc' = [pc EXCEPT ![c] = l]
    BY <1>11 DEF Ended
  <2>2. QED
    BY <1>0, <1>11, <2>1
<1>12. ASSUME NEW c \in Calls, Scanned(c) PROVE G
  <2>1. /\ pc[c] = "read"
        /\ pc' = pc \/ \E l \in {"drain", "done"} : pc' = [pc EXCEPT ![c] = l]
    BY <1>12 DEF Scanned, GoesOn, GivesUp, TakesResult, Quits
  <2>2. QED
    BY <1>0, <1>12, <2>1
<1>13. ASSUME NEW c \in Calls, CtxEnds(c) PROVE G
  BY <1>0, <1>13 DEF CtxEnds
<1>14. ASSUME NEW k \in Calls, ReaperUpdate(k) PROVE G
  BY <1>0, <1>14 DEF ReaperUpdate
<1>15. ASSUME NEW k \in Calls, ReaperClose(k) PROVE G
  BY <1>0, <1>15 DEF ReaperClose
<1>16. ASSUME NEW k \in Calls, Exit(k) PROVE G
  BY <1>0, <1>16 DEF Exit
<1>17. ASSUME NEW k \in Calls, Emit(k) PROVE G
  BY <1>0, <1>17 DEF Emit
<1>18. CASE RestartProcess
  BY <1>0, <1>18 DEF RestartProcess, Stop
<1>19. CASE Close
  BY <1>0, <1>19 DEF Close, Stop
<1>20. CASE UNCHANGED vars
  BY <1>0, <1>20 DEF vars
<1>21. QED
  BY <1>1, <1>2, <1>3, <1>4, <1>5, <1>6, <1>7, <1>8, <1>9, <1>10, <1>11, <1>12, <1>13,
     <1>14, <1>15, <1>16, <1>17, <1>18, <1>19, <1>20, NextCases

(* A child that was started stays the child of its object, and does not    *)
(* come back to life or to the head of that object.                        *)
ChildKept(k) ==
  /\ object'[k] = object[k]
  /\ k \in live' => k \in live
  /\ child'[object[k]] = k => child[object[k]] = k

LEMMA NextChildKept ==
  ASSUME TypeOK, FreshInv, [Next]_vars, NEW d \in Calls, object[d] # None
  PROVE  ChildKept(d) /\ (UNCHANGED child \/ \E c \in Calls : EnsureStart(c))
<1> USE DEF modelVars, procVars, childVars, pipeVars, callVars, ghostVars, startVars
<1> DEFINE G == ChildKept(d) /\ (UNCHANGED child \/ \E c \in Calls : EnsureStart(c))
<1>0. /\ child \in [Calls -> OrNone(Calls)] /\ object \in [Calls -> OrNone(Calls)]
      /\ object[d] # None
  BY DEF TypeOK
<1>1. ASSUME NEW c \in Calls, Begin(c) PROVE G
  BY <1>0, <1>1 DEF Begin, Goto, ChildKept
<1>2. ASSUME NEW c \in Calls, EnsureReuse(c) PROVE G
  BY <1>0, <1>2 DEF EnsureReuse, Goto, ChildKept
<1>3. ASSUME NEW c \in Calls, EnsureStop(c) PROVE G
  BY <1>0, <1>3 DEF EnsureStop, Stop, ChildKept
<1>4. ASSUME NEW c \in Calls, EnsureStart(c) PROVE G
  <2>1. pc[c] = "ensure" /\ Start(c, proc')
    BY <1>4 DEF EnsureStart
  <2>2. object[c] = None
    BY <2>1 DEF FreshInv, Unmade
  <2>3. object'[d] = object[d] /\ live' = live \cup {c} /\ d # c
    BY <1>0, <2>1, <2>2 DEF Start
  <2>4. child'[object[d]] = child[object[d]] \/ child'[object[d]] = c
    BY <1>0, <2>1 DEF Start, OrNone
  <2>5. QED
    BY <1>4, <2>3, <2>4 DEF ChildKept
<1>5. ASSUME NEW c \in Calls, EnsureFails(c) PROVE G
  BY <1>0, <1>5 DEF EnsureFails, MakeProcess, Leave, Goto, ChildKept
<1>6. ASSUME NEW c \in Calls, Capture(c) PROVE G
  BY <1>0, <1>6 DEF Capture, Leave, Goto, ChildKept
<1>7. ASSUME NEW c \in Calls, Send(c) PROVE G
  BY <1>0, <1>7 DEF Send, Leave, Goto, ChildKept
<1>8. ASSUME NEW c \in Calls, SendFails(c) PROVE G
  BY <1>0, <1>8 DEF SendFails, Leave, Goto, ChildKept
<1>9. ASSUME NEW c \in Calls, Open(c) PROVE G
  BY <1>0, <1>9 DEF Open, Goto, ChildKept
<1>10. ASSUME NEW c \in Calls, Fill(c) PROVE G
  BY <1>0, <1>10 DEF Fill, ChildKept
<1>11. ASSUME NEW c \in Calls, Ended(c) PROVE G
  BY <1>0, <1>11 DEF Ended, ChildKept
<1>12. ASSUME NEW c \in Calls, Scanned(c) PROVE G
  BY <1>0, <1>12 DEF Scanned, ChildKept
<1>13. ASSUME NEW c \in Calls, CtxEnds(c) PROVE G
  BY <1>0, <1>13 DEF CtxEnds, ChildKept
<1>14. ASSUME NEW k \in Calls, ReaperUpdate(k) PROVE G
  BY <1>0, <1>14 DEF ReaperUpdate, ChildKept
<1>15. ASSUME NEW k \in Calls, ReaperClose(k) PROVE G
  BY <1>0, <1>15 DEF ReaperClose, ChildKept
<1>16. ASSUME NEW k \in Calls, Exit(k) PROVE G
  BY <1>0, <1>16 DEF Exit, ChildKept
<1>17. ASSUME NEW k \in Calls, Emit(k) PROVE G
  BY <1>0, <1>17 DEF Emit, ChildKept
<1>18. CASE RestartProcess
  BY <1>0, <1>18 DEF RestartProcess, Stop, ChildKept
<1>19. CASE Close
  BY <1>0, <1>19 DEF Close, Stop, ChildKept
<1>20. CASE UNCHANGED vars
  BY <1>0, <1>20 DEF vars, ChildKept
<1>21. QED
  BY <1>1, <1>2, <1>3, <1>4, <1>5, <1>6, <1>7, <1>8, <1>9, <1>10, <1>11, <1>12, <1>13,
     <1>14, <1>15, <1>16, <1>17, <1>18, <1>19, <1>20, NextCases

(* A turn that is pending at a child was sent to it.                       *)
LEMMA PendingSent ==
  ASSUME TypeOK, WiringInv, ProgressInv, PlaceInv, NEW k \in Calls, NEW t \in Pending(k)
  PROVE  /\ t \in Calls /\ sentTo[t] = k /\ sentTo[t] # None
         /\ object[k] = held[t] /\ object[k] # None /\ object[k] \in Calls
<1>1. t \in Calls /\ sentTo[t] = k /\ sentTo[t] # None
  BY LineTypes DEF PlaceInv
<1>2. object[k] = held[t] /\ held[t] # None /\ held \in [Calls -> Calls \cup {None}]
  BY <1>1 DEF ProgressInv, TypeOK, OrNone
<1>3. QED
  BY <1>1, <1>2

(* A call that stops reading a child has not left it running.              *)
LEMMA ReadersEnd ==
  ASSUME TypeOK, WiringInv, NEW c \in Calls, Ended(c), pc[c] = "read"
  PROVE  source[c] \notin live
<1>1. None \notin live /\ live \subseteq Calls
  BY CallsAssumption DEF TypeOK
<1>2. source[c] = None \/ source[c] \notin live \/ StdoutClosed(source[c])
  BY DEF Ended
<1>3. QED
  BY <1>1, <1>2 DEF StdoutClosed, WiringInv

LEMMA NextLeft ==
  ASSUME TypeOK, FreshInv, WiringInv, ProgressInv, PlaceInv, LastInv, LeftInv, [Next]_vars
  PROVE  LeftInv'
<1>0. /\ None \notin Calls /\ live \subseteq Calls /\ live' \subseteq Calls /\ pc \in [Calls -> PC]
      /\ sentTo \in [Calls -> Calls \cup {None}] /\ stale \subseteq Calls
  BY LineTypes, NextTypeOK DEF TypeOK
<1>1. ASSUME NEW k \in live', child'[object'[k]] = k, k \notin stale',
             NEW t \in TurnsOf(pipe'[k], inbox'[k])
      PROVE  t \in Calls /\ pc'[t] \notin {"idle", "done"}
  <2>0. k \in Calls /\ t \in Pending(k) \cup NewTurn(k)
    BY <1>0, NextTurns DEF TurnsKept
  <2>1. CASE t \in NewTurn(k)
    <3>1. t \in Calls /\ Send(t) /\ child[held[t]] = k
      BY <2>1 DEF NewTurn
    <3>2. pc' = [pc EXCEPT ![t] = "open"] \/ stale' = stale \cup {k}
      BY <3>1 DEF Send, Goto
    <3>3. QED
      BY <1>0, <1>1, <3>1, <3>2
  <2>2. CASE t \in Pending(k)
    <3>1. /\ t \in Calls /\ sentTo[t] = k /\ sentTo[t] # None
          /\ object[k] # None /\ object[k] \in Calls
      BY <2>0, <2>2, PendingSent
    <3>2. k \in live /\ child[object[k]] = k
      <4>1. ChildKept(k)
        BY <2>0, <3>1, NextChildKept
      <4>2. QED
        BY <1>1, <4>1 DEF ChildKept
    <3>3. k \notin stale
      BY <1>1, <2>0, NextReading DEF Reading
    <3>4. t \in InCall
      BY <2>2, <3>2, <3>3 DEF LeftInv
    <3>5. SUFFICES ASSUME pc'[t] \in {"idle", "done"} PROVE FALSE
      BY <3>1
    <3>5a. /\ pc[t] \in {"read", "drain", "stderr"}
           /\ Ended(t) \/ (pc[t] = "read" /\ Scanned(t))
      BY <3>1, <3>4, <3>5, NextLeaving
    <3>6. pc[t] = "read"
      BY <3>1, <3>2, <3>3, <3>5a DEF LeftInv
    <3>7. source[t] = k
      BY <3>1, <3>2, <3>6 DEF LeftInv
    <3>8. CASE Ended(t)
      BY <3>1, <3>2, <3>6, <3>7, <3>8, ReadersEnd
    <3>9. CASE Scanned(t)
      <4>1. buf[t] # <<>> /\ (GoesOn(t) \/ GivesUp(t) \/ TakesResult(t))
        BY <3>9 DEF Scanned
      <4>2. CASE GoesOn(t)
        BY <3>5, <3>6, <4>2 DEF GoesOn
      <4>3. CASE GivesUp(t)
        BY <1>1, <3>7, <4>3 DEF GivesUp
      <4>4. CASE TakesResult(t)
        <5>1. Final(Head(buf[t])) /\ Head(buf[t]).turn = t
          BY <1>1, <3>7, <4>4 DEF TakesResult
        <5>2. Spent(buf[t], Pending(k)) /\ buf[t] \in Seq(Line)
          BY <3>1, <3>7, <4>1, LineTypes DEF LastInv
        <5>3. 1 \in DOMAIN buf[t] /\ Head(buf[t]) = buf[t][1]
          BY <4>1, <5>2, TailElements
        <5>4. QED
          BY <2>2, <5>1, <5>2, <5>3 DEF Spent
      <4>5. QED
        BY <4>1, <4>2, <4>3, <4>4
    <3>10. QED
      BY <3>5a, <3>8, <3>9
  <2>3. QED
    BY <2>0, <2>1, <2>2
<1>2. ASSUME NEW c \in Calls, pc'[c] = "read", source'[c] # sentTo'[c]
      PROVE  child'[object'[sentTo'[c]]] # sentTo'[c]
  <2>1. Open(c) \/ (pc[c] = "read" /\ source'[c] = source[c])
    BY <1>2, NextReading DEF Reading
  <2>2. pc[c] \in {"open", "read"}
    BY <2>1 DEF Open
  <2>3. sentTo[c] \in Calls /\ object[sentTo[c]] = held[c] /\ held[c] # None
    BY <1>0, <2>2 DEF ProgressInv
  <2>4. sentTo'[c] = sentTo[c]
    BY <1>0, <2>3, SentStays
  <2>5. PICK s \in Calls : s = sentTo[c]
    BY <2>3
  <2>6. ChildKept(s)
    BY <2>3, <2>5, NextChildKept
  <2>7. child[object[s]] # s
    <3>1. CASE Open(c)
      <4>1. source'[c] = child[held[c]]
        BY <3>1, OpenEffect, LineTypes
      <4>2. QED
        BY <1>2, <2>3, <2>4, <2>5, <4>1
    <3>2. CASE pc[c] = "read" /\ source'[c] = source[c]
      BY <1>2, <2>4, <2>5, <3>2 DEF LeftInv
    <3>3. QED
      BY <2>1, <3>1, <3>2
  <2>8. child'[object'[s]] # s
    BY <2>6, <2>7 DEF ChildKept
  <2>9. QED
    BY <2>4, <2>5, <2>8
<1>3. ASSUME NEW c \in Calls, pc'[c] \in {"drain", "stderr"}, sentTo'[c] \in live',
             sentTo'[c] \notin stale', child'[object'[sentTo'[c]]] = sentTo'[c]
      PROVE  FALSE
  <2>0. Reading(c)
    BY NextReading
  <2>1. ~Send(c)
    BY <1>0, <1>3 DEF Send, Goto, Leave
  <2>2. sentTo'[c] = sentTo[c] /\ sentTo[c] \in Calls
    BY <1>0, <1>3, <2>0, <2>1 DEF Reading
  <2>3. PICK s \in Calls : s = sentTo[c] /\ object[s] # None
    BY <1>0, <2>2 DEF ProgressInv
  <2>4. s \in live /\ child[object[s]] = s /\ s \notin stale
    <3>1. ChildKept(s)
      BY <2>3, NextChildKept
    <3>2. s \notin stale
      BY <1>3, <2>2, <2>3, NextReading DEF Reading
    <3>3. QED
      BY <1>3, <2>2, <2>3, <3>1, <3>2 DEF ChildKept
  <2>5. pc[c] = "read" /\ (Ended(c) \/ Scanned(c))
    <3>1. pc[c] \notin {"drain", "stderr"}
      BY <2>3, <2>4 DEF LeftInv
    <3>2. ~SendFails(c)
      BY <1>0, <2>2 DEF SendFails, ProgressInv
    <3>3. QED
      BY <1>3, <2>0, <3>1, <3>2 DEF Reading
  <2>6. source[c] = s
    BY <2>3, <2>4, <2>5 DEF LeftInv
  <2>7. Scanned(c)
    BY <2>4, <2>5, <2>6, ReadersEnd
  <2>8. CASE GoesOn(c)
    BY <1>3, <2>5, <2>8 DEF GoesOn
  <2>9. CASE GivesUp(c)
    BY <1>3, <2>2, <2>3, <2>6, <2>9 DEF GivesUp
  <2>10. CASE TakesResult(c)
    BY <1>0, <1>3, <2>10 DEF TakesResult
  <2>11. QED
    BY <2>7, <2>8, <2>9, <2>10 DEF Scanned
<1>4. QED
  BY <1>1, <1>2, <1>3 DEF LeftInv, Pending, TurnsOf, Turns, InCall

LEMMA NextOwn ==
  ASSUME TypeOK, FreshInv, WiringInv, ProgressInv, AloneInv, PlaceInv, LastInv, LeftInv,
         OwnTurnInv, [Next]_vars
  PROVE  OwnTurnInv'
<1>0. /\ None \notin Calls /\ pc \in [Calls -> PC]
      /\ sentTo \in [Calls -> Calls \cup {None}] /\ source \in [Calls -> Calls \cup {None}]
      /\ buf \in [Calls -> Seq(Line)] /\ answer \in [Calls -> OrNone(Calls)]
  BY LineTypes DEF TypeOK
<1> SUFFICES ASSUME NEW c \in Calls, c \notin exposed'
             PROVE  /\ pc'[c] = "open" => child'[held'[c]] = sentTo'[c]
                    /\ pc'[c] = "read" =>
                         source'[c] = sentTo'[c] /\ Turns(buf'[c]) \subseteq {c}
                    /\ pc'[c] \in {"open", "read"} =>
                         TurnsOf(pipe'[sentTo'[c]], inbox'[sentTo'[c]]) \subseteq {c}
                    /\ answer'[c] \in {None, c}
  BY DEF OwnTurnInv, Pending, TurnsOf, Turns
<1>1. /\ Reading(c) /\ c \in Calls \ exposed
  BY NextReading DEF Reading
<1>2. pc[c] \notin {"idle", "done"} => \A d \in Calls : pc[d] \notin {"idle", "done"} => d = c
  BY <1>1 DEF AloneInv, InCall
<1>3. ASSUME Send(c) PROVE /\ child'[held'[c]] = sentTo'[c]
                           /\ TurnsOf(pipe'[sentTo'[c]], inbox'[sentTo'[c]]) \subseteq {c}
  <2> DEFINE k == child[held[c]]
  <2>1. /\ pc[c] = "send" /\ k \in live /\ UNCHANGED <<child, held>>
        /\ exposed' = IF k \in stale THEN exposed \cup {c} ELSE exposed
    BY <1>3 DEF Send, procVars
  <2>2. k \in Calls /\ sentTo'[c] = k /\ object[k] = held[c]
    BY <1>0, <1>3, SendEffect
  <2>3. Pending(k) \subseteq {c}
    BY <1>2, <2>1, <2>2 DEF LeftInv, InCall
  <2>4. NewTurn(k) \subseteq {c}
    <3> SUFFICES ASSUME NEW d \in Calls, Send(d) PROVE d = c
      BY DEF NewTurn
    <3>1. pc[d] = "send"
      BY DEF Send
    <3>2. QED
      BY <1>2, <2>1, <3>1
  <2>5. TurnsOf(pipe'[k], inbox'[k]) \subseteq {c}
    BY <2>2, <2>3, <2>4, NextTurns DEF TurnsKept
  <2>6. QED
    BY <2>1, <2>2, <2>5
<1>4. ASSUME pc[c] \in {"open", "read"}
      PROVE  /\ sentTo'[c] = sentTo[c] /\ sentTo[c] \in Calls
             /\ TurnsOf(pipe'[sentTo[c]], inbox'[sentTo[c]]) \subseteq {c}
             /\ held'[c] = held[c] /\ UNCHANGED child
  <2>1. sentTo[c] \in Calls /\ object[sentTo[c]] = held[c] /\ held[c] # None
    BY <1>0, <1>4 DEF ProgressInv
  <2>2. sentTo'[c] = sentTo[c] /\ held'[c] = held[c]
    BY <1>0, <1>1, <1>4, <2>1, SentStays DEF Reading
  <2>3. NewTurn(sentTo[c]) = {}
    <3> SUFFICES ASSUME NEW d \in Calls, Send(d) PROVE FALSE
      BY DEF NewTurn
    <3>1. pc[d] = "send"
      BY DEF Send
    <3>2. QED
      BY <1>2, <1>4, <3>1
  <2>4. TurnsOf(pipe'[sentTo[c]], inbox'[sentTo[c]]) \subseteq {c}
    BY <1>1, <1>4, <2>1, <2>3, NextTurns DEF TurnsKept, OwnTurnInv
  <2>5. UNCHANGED child
    <3> SUFFICES ASSUME NEW d \in Calls, EnsureStart(d) PROVE FALSE
      BY <2>1, NextChildKept
    <3>1. pc[d] = "ensure"
      BY DEF EnsureStart
    <3>2. QED
      BY <1>2, <1>4, <3>1
  <2>6. QED
    BY <2>1, <2>2, <2>4, <2>5
<1>5. ASSUME pc'[c] = "open" PROVE child'[held'[c]] = sentTo'[c]
  <2>1. CASE pc[c] = "open"
    BY <1>1, <1>4, <2>1 DEF OwnTurnInv
  <2>2. QED
    BY <1>1, <1>3, <1>5, <2>1 DEF Reading
<1>6. ASSUME pc'[c] = "read"
      PROVE  source'[c] = sentTo'[c] /\ Turns(buf'[c]) \subseteq {c}
  <2>1. CASE Open(c)
    <3>1. pc[c] = "open" /\ source'[c] = child[held[c]] /\ buf'[c] = <<>>
      BY <1>0, <2>1, OpenEffect DEF Open
    <3>2. QED
      BY <1>1, <1>4, <3>1 DEF OwnTurnInv, Turns
  <2>2. CASE pc[c] = "read" /\ source'[c] = source[c]
    <3>1. /\ source'[c] = sentTo'[c] /\ Turns(buf[c]) \subseteq {c}
          /\ Pending(source[c]) \subseteq {c}
      BY <1>1, <1>4, <2>2 DEF OwnTurnInv
    <3>2. LinesKept(c)
      BY NextLines
    <3>3. Turns(buf'[c]) \subseteq {c}
      <4>1. CASE buf'[c] = <<>>
        BY <4>1 DEF Turns
      <4>2. CASE \A i \in DOMAIN buf'[c] : \E j \in DOMAIN buf[c] : buf'[c][i] = buf[c][j]
        BY <3>1, <4>2 DEF Turns
      <4>3. CASE Turns(buf'[c]) \subseteq Pending(source[c])
        BY <3>1, <4>3
      <4>4. QED
        BY <3>2, <4>1, <4>2, <4>3 DEF LinesKept
    <3>4. QED
      BY <3>1, <3>3
  <2>3. QED
    BY <1>1, <1>6, <2>1, <2>2 DEF Reading
<1>7. ASSUME pc'[c] \in {"open", "read"}
      PROVE  TurnsOf(pipe'[sentTo'[c]], inbox'[sentTo'[c]]) \subseteq {c}
  <2>1. CASE pc[c] \in {"open", "read"}
    BY <1>4, <2>1
  <2>2. CASE Send(c)
    BY <1>3, <2>2
  <2>3. pc[c] \in {"open", "read"} \/ Send(c)
    BY <1>1, <1>7 DEF Reading, Open
  <2>4. QED
    BY <2>1, <2>2, <2>3
<1>8. answer'[c] \in {None, c}
  <2>1. CASE answer'[c] = answer[c]
    BY <1>1, <2>1 DEF OwnTurnInv
  <2>2. CASE pc[c] = "read" /\ buf[c] # <<>> /\ TakesResult(c)
    <3>1. buf[c] \in Seq(Line) /\ Turns(buf[c]) \subseteq {c} /\ answer'[c] = Head(buf[c]).turn
      BY <1>0, <1>1, <2>2 DEF OwnTurnInv, TakesResult
    <3>2. 1 \in DOMAIN buf[c] /\ Head(buf[c]) = buf[c][1]
      BY <2>2, <3>1, TailElements
    <3>3. QED
      BY <3>1, <3>2 DEF Turns
  <2>3. QED
    BY <1>1, <2>1, <2>2 DEF Reading
<1>9. QED
  BY <1>5, <1>6, <1>7, <1>8

LEMMA InitPlace == Init => PlaceInv /\ LastInv /\ LeftInv /\ OwnTurnInv
<1> SUFFICES ASSUME Init PROVE PlaceInv /\ LastInv /\ LeftInv /\ OwnTurnInv
  OBVIOUS
<1>1. \A k \in Calls : inbox[k] = <<>> /\ pipe[k] = <<>> /\ buf[k] = <<>>
  BY DEF Init
<1>2. \A k \in Calls : Pending(k) = {} /\ Turns(buf[k]) = {}
  BY <1>1 DEF Pending, TurnsOf, Turns
<1>3. \A k \in Calls : Once(inbox[k]) /\ LastOf(pipe[k], inbox[k])
  BY <1>1 DEF Once, LastOf
<1>4. PlaceInv /\ LastInv
  BY <1>1, <1>2, <1>3 DEF PlaceInv, LastInv
<1>5. LeftInv /\ OwnTurnInv
  BY <1>2 DEF Init, LeftInv, OwnTurnInv
<1>6. QED
  BY <1>4, <1>5

(* The inductive invariant is one.                                         *)
THEOREM InductiveInvariant == Spec => []IInv
<1>1. Init => IInv
  BY InitTypeOK, InitWiring, InitOrphan, InitMu, InitAlone, InitPlace DEF IInv
<1>2. IInv /\ [Next]_vars => IInv'
  <2> SUFFICES ASSUME IInv, [Next]_vars PROVE IInv'
    OBVIOUS
  <2> USE DEF IInv
  <2>1. TypeOK' /\ FreshInv' /\ WiringInv' /\ ProgressInv'
    BY NextTypeOK, NextFresh, NextWiring, NextProgress
  <2>2. ReapInv' /\ NoOrphan' /\ SessionSurvives' /\ MuInv' /\ PanicIsExplained'
    BY NextReap, NextSession, NextMu, NextPanic
  <2>3. AloneInv' /\ KeyInv' /\ PlaceInv' /\ LastInv'
    BY NextAlone, NextKey, NextPlace, NextLast
  <2>4. LeftInv' /\ OwnTurnInv'
    BY NextLeft, NextOwn
  <2>5. QED
    BY <2>1, <2>2, <2>3, <2>4
<1>3. QED
  BY <1>1, <1>2, PTL DEF Spec

(* Every variable keeps its type; what runs has been started.              *)
THEOREM TypeCorrect == Spec => []TypeOK
<1>1. IInv => TypeOK
  BY DEF IInv
<1>2. QED
  BY <1>1, InductiveInvariant, PTL

(* Whatever calls overlap, fail, restart, close or revive the process, the *)
(* only child that runs is the last one of m.proc, unless a Start slipped  *)
(* between a reaper's update and its close of p.reaped.                    *)
THEOREM NothingIsOrphaned == Spec => []NoOrphan
<1>1. IInv => NoOrphan
  BY DEF IInv
<1>2. QED
  BY <1>1, InductiveInvariant, PTL

(* A call that nobody overlapped is answered with its own turn and served  *)
(* with its own configuration, on a child where nobody left part of a turn *)
(* and unless the process was revived.                                     *)
THEOREM CallsGetTheirOwnAnswer == Spec => []OwnAnswer
<1>1. IInv => OwnAnswer
  <2> SUFFICES ASSUME IInv, NEW c \in Calls \ exposed
               PROVE  /\ answer[c] \in {None, c}
                      /\ sentTo[c] # None /\ held[c] \notin revived => config[held[c]] = key[c]
    BY DEF OwnAnswer
  <2>1. answer[c] \in {None, c}
    BY DEF IInv, OwnTurnInv
  <2>2. sentTo[c] # None => held[c] # None
    BY DEF IInv, ProgressInv
  <2>3. QED
    BY <2>1, <2>2 DEF IInv, KeyInv
<1>2. QED
  BY <1>1, InductiveInvariant, PTL

(* The session that RestartProcess found is resumed by the next process,   *)
(* whatever fails on the way, and by no later one.                         *)
THEOREM RestartKeepsTheSession == Spec => []SessionSurvives
<1>1. IInv => SessionSurvives
  BY DEF IInv
<1>2. QED
  BY <1>1, InductiveInvariant, PTL

(* The nil dereference in Capture and the second close of p.reaped are the *)
(* only panics, and each needs the race that the property names.           *)
THEOREM PanicsAreExplained == Spec => []PanicIsExplained
<1>1. IInv => PanicIsExplained
  BY DEF IInv
<1>2. QED
  BY <1>1, InductiveInvariant, PTL

=============================================================================
