------------------------ MODULE AppServerProcess_proofs ------------------------
(***************************************************************************)
(* Proofs about AppServerProcess, for any number of users and of Starts,   *)
(* with and without crashes of the child.                                  *)
(***************************************************************************)
EXTENDS AppServerProcess, TLAPS

(***************************************************************************)
(* The inductive invariant.                                                *)
(***************************************************************************)

Initializing == {"init", "initCall", "initSet"}
Stopping     == {"closeClient", "signal", "awaitExit", "await"}
WithLock     == {"start", "stop"} \cup Initializing \cup Stopping
InTurn       == {"start", "ready", "useCall"} \cup Initializing

(* The two mutexes, and what they keep still: the methods under m.mu and   *)
(* the turns see no Start but their own.                                   *)
LocksInv ==
  /\ \A u \in Users : pc[u] \in WithLock <=> owner = u
  /\ \A u \in Users : pc[u] \in InTurn => callMu = u
  /\ \A u \in Users : pc[u] \in {"start"} \cup Stopping => ~running
  /\ \A u \in Users : pc[u] = "start" => starts < MaxStarts
  /\ \A u \in Users : pc[u] \in Stopping => starts > 0
  /\ \A u \in Users : pc[u] \in {"initCall", "initSet", "useCall"} \cup Stopping => mine[u] = starts

(* The fields are those of the last Start, and so are those of the child.  *)
FieldsInv ==
  /\ client = starts /\ reaped = starts
  /\ running => starts > 0 /\ cmd = starts
  /\ \A k \in Runs : reaper[k] = "none" <=> k > starts
  /\ \A k \in live \cup asked \cup killed \cup crashed \cup closedChans : k <= starts
  /\ \A k \in live : k \notin crashed
  /\ \A u \in Users : mine[u] <= starts

(* As long as no Start came between a reaper's update and its close: the   *)
(* reapers are their own, the earlier ones have finished, and the last one *)
(* is as far as the fields and the owner of m.mu say.                      *)
Stopped == owner # Nobody /\ pc[owner] \in Stopping

ReapersInv ==
  /\ ~panicked
  /\ \A k \in 1..starts :
       /\ k < starts => reaper[k] = "done"
       /\ reaper[k] # "begin" => waits[k] = k
       /\ reaper[k] \in {"update", "close", "done"} => k \notin live
       /\ k \in closedChans <=> reaper[k] = "done"
  /\ running => reaper[starts] \in {"begin", "waiting", "update"}
  /\ ~running /\ starts > 0 => Stopped \/ reaper[starts] \in {"close", "done"}
  /\ starts > 0 /\ reaper[starts] = "begin" => cmd = starts

(* Without a crash the last child has gone only because it was asked to,   *)
(* and then somebody waits for it or has waited.                           *)
OrderlyInv ==
  /\ starts > 0 => starts \in live \cup asked \cup killed
  /\ starts \in asked \cup killed =>
       reaper[starts] = "done" \/ (owner # Nobody /\ pc[owner] \in {"awaitExit", "await"})

(* The child had the handshake, or an earlier one crashed.                 *)
Shaken(k) == k \in handshake \/ \E j \in crashed : j < k

HandshakeInv ==
  /\ \A u \in Users : ~running /\ pc[u] \in Initializing => crashed # {}
  /\ initialized /\ ~running => crashed # {}
  /\ initialized => Shaken(starts)
  /\ running => \/ Shaken(starts)
                \/ owner # Nobody /\ pc[owner] \in {"stop"} \cup Initializing
  /\ \A u \in Users : pc[u] = "initSet" => starts \in handshake
  /\ \A u \in Users : pc[u] = "ready" /\ running => Shaken(starts)
  /\ \A u \in Users : pc[u] = "useCall" => Shaken(starts)

IInv ==
  /\ TypeOK /\ LocksInv /\ FieldsInv
  /\ ~overlap => ReapersInv
  /\ crashed = {} => ~overlap /\ OrderlyInv
  /\ HandshakeInv /\ HandshakeUnlessCrash

(* The next-state relation with every action of its own.                   *)
LEMMA NextCases ==
  ASSUME Next
  PROVE  \/ \E u \in Users :
              \/ EnsureReuse(u) \/ EnsureStart(u) \/ CloseModel(u) \/ WaitBegin(u)
              \/ Start(u) \/ StartFails(u)
              \/ InitializeBegin(u) \/ InitializeReturns(u) \/ InitializeSet(u)
              \/ StartThreadBegin(u) \/ StartThreadCall(u)
              \/ StopNotRunning(u) \/ StopRunning(u) \/ StopClosesClient(u) \/ StopSignals(u)
              \/ StopTimeout(u) \/ StopReturns(u) \/ WaitReturns(u)
         \/ \E k \in Runs :
              ReaperBegin(k) \/ ReaperWaited(k) \/ ReaperUpdate(k) \/ ReaperClose(k) \/ Exit(k)
  BY DEF Next, User, Proceed, Reaper

(***************************************************************************)
(* Typing.                                                                 *)
(***************************************************************************)

LEMMA InitTypeOK == Init => TypeOK
<1> SUFFICES ASSUME Init PROVE TypeOK
  OBVIOUS
<1>1. 0 \in 0..MaxStarts
  BY StartsAssumption
<1>2. /\ pc \in [Users -> UserPC] /\ mine \in [Users -> 0..MaxStarts]
      /\ reaper \in [Runs -> ReaperPC] /\ waits \in [Runs -> 0..MaxStarts]
  BY <1>1 DEF Init, UserPC, ReaperPC
<1>3. QED
  BY <1>1, <1>2 DEF Init, TypeOK

LEMMA NextTypeOK == TypeOK /\ LocksInv /\ FieldsInv /\ [Next]_vars => TypeOK'
<1> SUFFICES ASSUME TypeOK, LocksInv, FieldsInv, [Next]_vars PROVE TypeOK'
  OBVIOUS
<1> USE StartsAssumption
    DEF TypeOK, UserPC, ReaperPC, Runs, fieldVars, userVars, reapVars, childVars
<1>0. /\ client = starts /\ reaped = starts
      /\ \A u \in Users : pc[u] = "start" => starts < MaxStarts
      /\ \A u \in Users : pc[u] \in {"closeClient", "signal", "awaitExit", "await"} =>
           starts \in Runs /\ mine[u] = starts
      /\ \A k \in Runs : reaper[k] = "close" => starts \in Runs
  BY DEF FieldsInv, LocksInv, Stopping
<1>1. ASSUME NEW u \in Users, EnsureReuse(u) PROVE TypeOK'
  BY <1>0, <1>1 DEF EnsureReuse, Move, Goto, Take
<1>2. ASSUME NEW u \in Users, EnsureStart(u) PROVE TypeOK'
  BY <1>0, <1>2 DEF EnsureStart, Move, Goto, Take
<1>3. ASSUME NEW u \in Users, Start(u) PROVE TypeOK'
  BY <1>0, <1>3 DEF Start, Move, Goto, Take
<1>4. ASSUME NEW u \in Users, StartFails(u) PROVE TypeOK'
  <2>1. cmd' \in 0..MaxStarts /\ owner' \in Users \cup {Nobody}
    BY <1>4 DEF StartFails
  <2>2. pc' \in [Users -> UserPC] /\ callMu' \in Users \cup {Nobody}
    BY <1>4 DEF StartFails, Goto, Move
  <2>3. QED
    BY <1>4, <2>1, <2>2 DEF StartFails
<1>5. ASSUME NEW u \in Users, InitializeBegin(u) PROVE TypeOK'
  BY <1>0, <1>5 DEF InitializeBegin, Move, Goto, Take
<1>6. ASSUME NEW u \in Users, InitializeReturns(u) PROVE TypeOK'
  BY <1>0, <1>6 DEF InitializeReturns, Move, Goto, Take
<1>7. ASSUME NEW u \in Users, InitializeSet(u) PROVE TypeOK'
  BY <1>0, <1>7 DEF InitializeSet, Move, Goto, Take
<1>8. ASSUME NEW u \in Users, StartThreadBegin(u) PROVE TypeOK'
  BY <1>0, <1>8 DEF StartThreadBegin, Move, Goto, Take
<1>9. ASSUME NEW u \in Users, StartThreadCall(u) PROVE TypeOK'
  BY <1>0, <1>9 DEF StartThreadCall, Move, Goto, Take
<1>10. ASSUME NEW u \in Users, CloseModel(u) PROVE TypeOK'
  BY <1>0, <1>10 DEF CloseModel, Move, Goto, Take
<1>11. ASSUME NEW u \in Users, StopNotRunning(u) PROVE TypeOK'
  BY <1>0, <1>11 DEF StopNotRunning, Move, Goto, Take
<1>12. ASSUME NEW u \in Users, StopRunning(u) PROVE TypeOK'
  BY <1>0, <1>12 DEF StopRunning, Move, Goto, Take
<1>13. ASSUME NEW u \in Users, StopClosesClient(u) PROVE TypeOK'
  BY <1>0, <1>13 DEF StopClosesClient, Move, Goto, Take
<1>14. ASSUME NEW u \in Users, StopSignals(u) PROVE TypeOK'
  BY <1>0, <1>14 DEF StopSignals, Move, Goto, Take
<1>15. ASSUME NEW u \in Users, StopTimeout(u) PROVE TypeOK'
  BY <1>0, <1>15 DEF StopTimeout, Move, Goto, Take
<1>16. ASSUME NEW u \in Users, StopReturns(u) PROVE TypeOK'
  BY <1>0, <1>16 DEF StopReturns, Move, Goto, Take
<1>17. ASSUME NEW u \in Users, WaitBegin(u) PROVE TypeOK'
  BY <1>0, <1>17 DEF WaitBegin, Move, Goto, Take
<1>18. ASSUME NEW u \in Users, WaitReturns(u) PROVE TypeOK'
  BY <1>0, <1>18 DEF WaitReturns, Move, Goto, Take
<1>19. ASSUME NEW k \in Runs, ReaperBegin(k) PROVE TypeOK'
  BY <1>0, <1>19 DEF ReaperBegin, Advance
<1>20. ASSUME NEW k \in Runs, ReaperWaited(k) PROVE TypeOK'
  BY <1>0, <1>20 DEF ReaperWaited, Advance
<1>21. ASSUME NEW k \in Runs, ReaperUpdate(k) PROVE TypeOK'
  BY <1>0, <1>21 DEF ReaperUpdate, Advance
<1>22. ASSUME NEW k \in Runs, ReaperClose(k) PROVE TypeOK'
  <2>1. closedChans' \subseteq Runs /\ panicked' \in BOOLEAN
    BY <1>0, <1>22 DEF ReaperClose
  <2>2. reaper' \in [Runs -> ReaperPC]
    BY <1>22 DEF ReaperClose, Advance
  <2>3. QED
    BY <1>22, <2>1, <2>2 DEF ReaperClose
<1>23. ASSUME NEW k \in Runs, Exit(k) PROVE TypeOK'
  BY <1>0, <1>23 DEF Exit
<1>24. CASE UNCHANGED vars
  BY <1>24 DEF vars
<1>25. QED
  BY <1>1, <1>2, <1>3, <1>4, <1>5, <1>6, <1>7, <1>8, <1>9, <1>10, <1>11,
     <1>12, <1>13, <1>14, <1>15, <1>16, <1>17, <1>18, <1>19, <1>20, <1>21,
     <1>22, <1>23, <1>24, NextCases
(***************************************************************************)
(* The mutexes and the fields.                                             *)
(***************************************************************************)

LEMMA InitLocks == Init => LocksInv /\ FieldsInv
<1> SUFFICES ASSUME Init PROVE LocksInv /\ FieldsInv
  OBVIOUS
<1>1. \A u \in Users : pc[u] = "idle" /\ owner # u /\ mine[u] = 0
  BY UsersAssumption DEF Init
<1>2. LocksInv
  BY <1>1 DEF LocksInv, WithLock, InTurn, Initializing, Stopping
<1>3. FieldsInv
  BY <1>1 DEF Init, FieldsInv, Runs
<1>4. QED
  BY <1>2, <1>3

LEMMA NextLocks == TypeOK /\ LocksInv /\ FieldsInv /\ [Next]_vars => LocksInv'
<1> SUFFICES ASSUME TypeOK, LocksInv, FieldsInv, [Next]_vars PROVE LocksInv'
  OBVIOUS
<1> USE StartsAssumption, UsersAssumption
    DEF LocksInv, WithLock, InTurn, Initializing, Stopping, fieldVars, userVars, reapVars, childVars
<1>0. /\ pc \in [Users -> UserPC] /\ mine \in [Users -> 0..MaxStarts] /\ starts \in 0..MaxStarts
      /\ client = starts /\ reaped = starts /\ (running => starts > 0)
      /\ callMu \in Users \cup {Nobody} /\ owner \in Users \cup {Nobody}
  BY DEF TypeOK, FieldsInv
<1>1. ASSUME NEW u \in Users, EnsureReuse(u) PROVE LocksInv'
  BY <1>0, <1>1 DEF EnsureReuse, Move, Goto, Take
<1>2. ASSUME NEW u \in Users, EnsureStart(u) PROVE LocksInv'
  BY <1>0, <1>2 DEF EnsureStart, Move, Goto, Take
<1>3. ASSUME NEW u \in Users, Start(u) PROVE LocksInv'
  BY <1>0, <1>3 DEF Start, Move, Goto, Take
<1>4. ASSUME NEW u \in Users, StartFails(u) PROVE LocksInv'
  BY <1>0, <1>4 DEF StartFails, Move, Goto, Take
<1>5. ASSUME NEW u \in Users, InitializeBegin(u) PROVE LocksInv'
  BY <1>0, <1>5 DEF InitializeBegin, Move, Goto, Take
<1>6. ASSUME NEW u \in Users, InitializeReturns(u) PROVE LocksInv'
  BY <1>0, <1>6 DEF InitializeReturns, Move, Goto, Take
<1>7. ASSUME NEW u \in Users, InitializeSet(u) PROVE LocksInv'
  BY <1>0, <1>7 DEF InitializeSet, Move, Goto, Take
<1>8. ASSUME NEW u \in Users, StartThreadBegin(u) PROVE LocksInv'
  BY <1>0, <1>8 DEF StartThreadBegin, Move, Goto, Take
<1>9. ASSUME NEW u \in Users, StartThreadCall(u) PROVE LocksInv'
  BY <1>0, <1>9 DEF StartThreadCall, Move, Goto, Take
<1>10. ASSUME NEW u \in Users, CloseModel(u) PROVE LocksInv'
  BY <1>0, <1>10 DEF CloseModel, Move, Goto, Take
<1>11. ASSUME NEW u \in Users, StopNotRunning(u) PROVE LocksInv'
  BY <1>0, <1>11 DEF StopNotRunning, Move, Goto, Take
<1>12. ASSUME NEW u \in Users, StopRunning(u) PROVE LocksInv'
  BY <1>0, <1>12 DEF StopRunning, Move, Goto, Take
<1>13. ASSUME NEW u \in Users, StopClosesClient(u) PROVE LocksInv'
  BY <1>0, <1>13 DEF StopClosesClient, Move, Goto, Take
<1>14. ASSUME NEW u \in Users, StopSignals(u) PROVE LocksInv'
  BY <1>0, <1>14 DEF StopSignals, Move, Goto, Take
<1>15. ASSUME NEW u \in Users, StopTimeout(u) PROVE LocksInv'
  BY <1>0, <1>15 DEF StopTimeout, Move, Goto, Take
<1>16. ASSUME NEW u \in Users, StopReturns(u) PROVE LocksInv'
  BY <1>0, <1>16 DEF StopReturns, Move, Goto, Take
<1>17. ASSUME NEW u \in Users, WaitBegin(u) PROVE LocksInv'
  BY <1>0, <1>17 DEF WaitBegin, Move, Goto, Take
<1>18. ASSUME NEW u \in Users, WaitReturns(u) PROVE LocksInv'
  BY <1>0, <1>18 DEF WaitReturns, Move, Goto, Take
<1>19. ASSUME NEW k \in Runs, ReaperBegin(k) PROVE LocksInv'
  BY <1>0, <1>19 DEF ReaperBegin, Advance
<1>20. ASSUME NEW k \in Runs, ReaperWaited(k) PROVE LocksInv'
  BY <1>0, <1>20 DEF ReaperWaited, Advance
<1>21. ASSUME NEW k \in Runs, ReaperUpdate(k) PROVE LocksInv'
  BY <1>0, <1>21 DEF ReaperUpdate, Advance
<1>22. ASSUME NEW k \in Runs, ReaperClose(k) PROVE LocksInv'
  BY <1>0, <1>22 DEF ReaperClose, Advance
<1>23. ASSUME NEW k \in Runs, Exit(k) PROVE LocksInv'
  BY <1>0, <1>23 DEF Exit
<1>24. CASE UNCHANGED vars
  BY <1>24 DEF vars
<1>25. QED
  BY <1>1, <1>2, <1>3, <1>4, <1>5, <1>6, <1>7, <1>8, <1>9, <1>10, <1>11,
     <1>12, <1>13, <1>14, <1>15, <1>16, <1>17, <1>18, <1>19, <1>20, <1>21,
     <1>22, <1>23, <1>24, NextCases

LEMMA NextFields == TypeOK /\ LocksInv /\ FieldsInv /\ [Next]_vars => FieldsInv'
<1> SUFFICES ASSUME TypeOK, LocksInv, FieldsInv, [Next]_vars PROVE FieldsInv'
  OBVIOUS
<1> USE StartsAssumption DEF FieldsInv, Runs, fieldVars, userVars, reapVars, childVars
<1>0. /\ mine \in [Users -> 0..MaxStarts] /\ starts \in 0..MaxStarts
      /\ reaper \in [1..MaxStarts -> ReaperPC]
      /\ live \subseteq 1..MaxStarts /\ asked \subseteq 1..MaxStarts
      /\ killed \subseteq 1..MaxStarts /\ crashed \subseteq 1..MaxStarts
      /\ closedChans \subseteq 1..MaxStarts
      /\ \A u \in Users : pc[u] = "start" => ~running /\ starts < MaxStarts
  BY DEF TypeOK, LocksInv
<1>1. ASSUME NEW u \in Users, EnsureReuse(u) PROVE FieldsInv'
  BY <1>0, <1>1 DEF EnsureReuse, Move, Goto, Take
<1>2. ASSUME NEW u \in Users, EnsureStart(u) PROVE FieldsInv'
  BY <1>0, <1>2 DEF EnsureStart, Move, Goto, Take
<1>3. ASSUME NEW u \in Users, Start(u) PROVE FieldsInv'
  BY <1>0, <1>3 DEF Start, Move, Goto, Take
<1>4. ASSUME NEW u \in Users, StartFails(u) PROVE FieldsInv'
  BY <1>0, <1>4 DEF StartFails, Move, Goto, Take
<1>5. ASSUME NEW u \in Users, InitializeBegin(u) PROVE FieldsInv'
  BY <1>0, <1>5 DEF InitializeBegin, Move, Goto, Take
<1>6. ASSUME NEW u \in Users, InitializeReturns(u) PROVE FieldsInv'
  BY <1>0, <1>6 DEF InitializeReturns, Move, Goto, Take
<1>7. ASSUME NEW u \in Users, InitializeSet(u) PROVE FieldsInv'
  BY <1>0, <1>7 DEF InitializeSet, Move, Goto, Take
<1>8. ASSUME NEW u \in Users, StartThreadBegin(u) PROVE FieldsInv'
  BY <1>0, <1>8 DEF StartThreadBegin, Move, Goto, Take
<1>9. ASSUME NEW u \in Users, StartThreadCall(u) PROVE FieldsInv'
  BY <1>0, <1>9 DEF StartThreadCall, Move, Goto, Take
<1>10. ASSUME NEW u \in Users, CloseModel(u) PROVE FieldsInv'
  BY <1>0, <1>10 DEF CloseModel, Move, Goto, Take
<1>11. ASSUME NEW u \in Users, StopNotRunning(u) PROVE FieldsInv'
  BY <1>0, <1>11 DEF StopNotRunning, Move, Goto, Take
<1>12. ASSUME NEW u \in Users, StopRunning(u) PROVE FieldsInv'
  BY <1>0, <1>12 DEF StopRunning, Move, Goto, Take
<1>13. ASSUME NEW u \in Users, StopClosesClient(u) PROVE FieldsInv'
  BY <1>0, <1>13 DEF StopClosesClient, Move, Goto, Take
<1>14. ASSUME NEW u \in Users, StopSignals(u) PROVE FieldsInv'
  BY <1>0, <1>14 DEF StopSignals, Move, Goto, Take
<1>15. ASSUME NEW u \in Users, StopTimeout(u) PROVE FieldsInv'
  BY <1>0, <1>15 DEF StopTimeout, Move, Goto, Take
<1>16. ASSUME NEW u \in Users, StopReturns(u) PROVE FieldsInv'
  BY <1>0, <1>16 DEF StopReturns, Move, Goto, Take
<1>17. ASSUME NEW u \in Users, WaitBegin(u) PROVE FieldsInv'
  BY <1>0, <1>17 DEF WaitBegin, Move, Goto, Take
<1>18. ASSUME NEW u \in Users, WaitReturns(u) PROVE FieldsInv'
  BY <1>0, <1>18 DEF WaitReturns, Move, Goto, Take
<1>19. ASSUME NEW k \in Runs, ReaperBegin(k) PROVE FieldsInv'
  BY <1>0, <1>19 DEF ReaperBegin, Advance
<1>20. ASSUME NEW k \in Runs, ReaperWaited(k) PROVE FieldsInv'
  BY <1>0, <1>20 DEF ReaperWaited, Advance
<1>21. ASSUME NEW k \in Runs, ReaperUpdate(k) PROVE FieldsInv'
  BY <1>0, <1>21 DEF ReaperUpdate, Advance
<1>22. ASSUME NEW k \in Runs, ReaperClose(k) PROVE FieldsInv'
  BY <1>0, <1>22 DEF ReaperClose, Advance
<1>23. ASSUME NEW k \in Runs, Exit(k) PROVE FieldsInv'
  BY <1>0, <1>23 DEF Exit
<1>24. CASE UNCHANGED vars
  BY <1>24 DEF vars
<1>25. QED
  BY <1>1, <1>2, <1>3, <1>4, <1>5, <1>6, <1>7, <1>8, <1>9, <1>10, <1>11,
     <1>12, <1>13, <1>14, <1>15, <1>16, <1>17, <1>18, <1>19, <1>20, <1>21,
     <1>22, <1>23, <1>24, NextCases
(***************************************************************************)
(* The reapers, as long as no Start comes between two steps of one.        *)
(***************************************************************************)

LEMMA InitReapers == Init => ReapersInv
  BY DEF Init, ReapersInv

(* What went wrong is remembered: only Start sets overlap, only Exit adds  *)
(* to crashed.                                                             *)
LEMMA HistoryStays == [Next]_vars => (overlap => overlap') /\ crashed \subseteq crashed'
<1> USE DEF fieldVars, userVars, reapVars, childVars
<1> SUFFICES ASSUME [Next]_vars PROVE (overlap => overlap') /\ crashed \subseteq crashed'
  OBVIOUS
<1>1. ASSUME NEW u \in Users, Start(u) PROVE (overlap => overlap') /\ UNCHANGED crashed
  BY <1>1 DEF Start
<1>2. ASSUME NEW u \in Users, User(u), ~Start(u) PROVE UNCHANGED <<overlap, crashed>>
  BY <1>2 DEF User, Proceed, EnsureReuse, EnsureStart, CloseModel, WaitBegin, StartFails,
         InitializeBegin, InitializeReturns, InitializeSet, StartThreadBegin, StartThreadCall,
         StopNotRunning, StopRunning, StopClosesClient, StopSignals, StopTimeout, StopReturns,
         WaitReturns
<1>3. ASSUME NEW k \in Runs, Reaper(k) PROVE UNCHANGED <<overlap, crashed>>
  BY <1>3 DEF Reaper, ReaperBegin, ReaperWaited, ReaperUpdate, ReaperClose
<1>4. ASSUME NEW k \in Runs, Exit(k) PROVE UNCHANGED overlap /\ crashed \subseteq crashed'
  BY <1>4 DEF Exit
<1>5. CASE UNCHANGED vars
  BY <1>5 DEF vars
<1>6. QED
  BY <1>1, <1>2, <1>3, <1>4, <1>5 DEF Next

LEMMA NextReapers ==
  ASSUME TypeOK, LocksInv, FieldsInv, ReapersInv, [Next]_vars, ~overlap'
  PROVE  ReapersInv'
<1> USE StartsAssumption
    DEF ReapersInv, Stopped, Stopping, Runs, fieldVars, userVars, reapVars, childVars
<1>0. /\ pc \in [Users -> UserPC] /\ mine \in [Users -> 0..MaxStarts] /\ starts \in 0..MaxStarts
      /\ reaper \in [1..MaxStarts -> ReaperPC] /\ waits \in [1..MaxStarts -> 0..MaxStarts]
      /\ live \subseteq 1..MaxStarts
      /\ \A k \in 1..MaxStarts : reaper[k] = "none" <=> k > starts
      /\ \A k \in live \cup closedChans : k <= starts
      /\ client = starts /\ reaped = starts
      /\ running => starts > 0 /\ cmd = starts
      /\ owner # Nobody => owner \in Users
      /\ \A u \in Users : pc[u] \in {"start", "init", "initCall", "initSet", "stop",
                                     "closeClient", "signal", "awaitExit", "await"} <=> owner = u
      /\ \A u \in Users : pc[u] \in {"start", "closeClient", "signal", "awaitExit", "await"} => ~running
      /\ \A u \in Users : pc[u] \in {"closeClient", "signal", "awaitExit", "await"} => mine[u] = starts
      /\ \A u \in Users : pc[u] = "start" => starts < MaxStarts
      /\ Nobody \notin Users
  BY UsersAssumption DEF TypeOK, LocksInv, FieldsInv, WithLock, Initializing
<1>1. ASSUME NEW u \in Users, EnsureReuse(u) PROVE ReapersInv'
  BY <1>0, <1>1 DEF EnsureReuse, Move, Goto, Take
<1>2. ASSUME NEW u \in Users, EnsureStart(u) PROVE ReapersInv'
  BY <1>0, <1>2 DEF EnsureStart, Move, Goto, Take
<1>3. ASSUME NEW u \in Users, Start(u) PROVE ReapersInv'
  <2>1. /\ owner = u /\ ~running /\ starts + 1 \in 1..MaxStarts
        /\ starts' = starts + 1 /\ cmd' = starts + 1 /\ live' = live \cup {starts + 1}
        /\ reaper' = [reaper EXCEPT ![starts + 1] = "begin"]
        /\ UNCHANGED <<waits, closedChans, panicked>> /\ running'
        /\ \A j \in Runs : reaper[j] # "close"
    <3>1. pc[u] = "start" /\ starts < MaxStarts
      BY <1>0, <1>3 DEF Start
    <3>2. \A j \in Runs : reaper[j] # "close"
      BY <1>3 DEF Start
    <3>3. QED
      BY <1>0, <1>3, <3>1, <3>2 DEF Start
  <2>2. starts > 0 => reaper[starts] = "done"
    BY <1>0, <1>3, <2>1 DEF Start
  <2>3. \A j \in 1..starts : reaper[j] = "done" /\ reaper'[j] = "done"
    BY <1>0, <2>1, <2>2
  <2>4. reaper'[starts + 1] = "begin" /\ \A j \in 1..starts + 1 : j = starts + 1 \/ j \in 1..starts
    BY <1>0, <2>1
  <2>5. starts + 1 \notin closedChans
    BY <1>0, <2>1
  <2>6. QED
    BY <1>0, <2>1, <2>3, <2>4, <2>5
<1>4. ASSUME NEW u \in Users, StartFails(u) PROVE ReapersInv'
  BY <1>0, <1>4 DEF StartFails, Move, Goto, Take
<1>5. ASSUME NEW u \in Users, InitializeBegin(u) PROVE ReapersInv'
  BY <1>0, <1>5 DEF InitializeBegin, Move, Goto, Take
<1>6. ASSUME NEW u \in Users, InitializeReturns(u) PROVE ReapersInv'
  BY <1>0, <1>6 DEF InitializeReturns, Move, Goto, Take
<1>7. ASSUME NEW u \in Users, InitializeSet(u) PROVE ReapersInv'
  BY <1>0, <1>7 DEF InitializeSet, Move, Goto, Take
<1>8. ASSUME NEW u \in Users, StartThreadBegin(u) PROVE ReapersInv'
  BY <1>0, <1>8 DEF StartThreadBegin, Move, Goto, Take
<1>9. ASSUME NEW u \in Users, StartThreadCall(u) PROVE ReapersInv'
  BY <1>0, <1>9 DEF StartThreadCall, Move, Goto, Take
<1>10. ASSUME NEW u \in Users, CloseModel(u) PROVE ReapersInv'
  BY <1>0, <1>10 DEF CloseModel, Move, Goto, Take
<1>11. ASSUME NEW u \in Users, StopNotRunning(u) PROVE ReapersInv'
  BY <1>0, <1>11 DEF StopNotRunning, Move, Goto, Take
<1>12. ASSUME NEW u \in Users, StopRunning(u) PROVE ReapersInv'
  BY <1>0, <1>12 DEF StopRunning, Move, Goto, Take
<1>13. ASSUME NEW u \in Users, StopClosesClient(u) PROVE ReapersInv'
  BY <1>0, <1>13 DEF StopClosesClient, Move, Goto, Take
<1>14. ASSUME NEW u \in Users, StopSignals(u) PROVE ReapersInv'
  BY <1>0, <1>14 DEF StopSignals, Move, Goto, Take
<1>15. ASSUME NEW u \in Users, StopTimeout(u) PROVE ReapersInv'
  BY <1>0, <1>15 DEF StopTimeout, Move, Goto, Take
<1>16. ASSUME NEW u \in Users, StopReturns(u) PROVE ReapersInv'
  BY <1>0, <1>16 DEF StopReturns, Move, Goto, Take
<1>17. ASSUME NEW u \in Users, WaitBegin(u) PROVE ReapersInv'
  BY <1>0, <1>17 DEF WaitBegin, Move, Goto, Take
<1>18. ASSUME NEW u \in Users, WaitReturns(u) PROVE ReapersInv'
  BY <1>0, <1>18 DEF WaitReturns, Move, Goto, Take
<1>19. ASSUME NEW k \in Runs, ReaperBegin(k) PROVE ReapersInv'
  BY <1>0, <1>19 DEF ReaperBegin, Advance
<1>20. ASSUME NEW k \in Runs, ReaperWaited(k) PROVE ReapersInv'
  BY <1>0, <1>20 DEF ReaperWaited, Advance
<1>21. ASSUME NEW k \in Runs, ReaperUpdate(k) PROVE ReapersInv'
  BY <1>0, <1>21 DEF ReaperUpdate, Advance
<1>22. ASSUME NEW k \in Runs, ReaperClose(k) PROVE ReapersInv'
  <2>1. k = starts
    BY <1>0, <1>22 DEF ReaperClose
  <2>2. reaper[starts] = "close" /\ starts \in 1..starts /\ starts \notin closedChans
    BY <1>0, <1>22, <2>1 DEF ReaperClose
  <2>3. /\ closedChans' = closedChans \cup {starts} /\ ~panicked'
        /\ reaper' = [reaper EXCEPT ![starts] = "done"]
        /\ UNCHANGED <<running, cmd, starts, live, waits, owner, pc>>
    BY <1>0, <1>22, <2>1, <2>2 DEF ReaperClose, Advance
  <2>4. QED
    BY <1>0, <2>2, <2>3
<1>23. ASSUME NEW k \in Runs, Exit(k) PROVE ReapersInv'
  BY <1>0, <1>23 DEF Exit
<1>24. CASE UNCHANGED vars
  BY <1>24 DEF vars
<1>25. QED
  BY <1>1, <1>2, <1>3, <1>4, <1>5, <1>6, <1>7, <1>8, <1>9, <1>10, <1>11,
     <1>12, <1>13, <1>14, <1>15, <1>16, <1>17, <1>18, <1>19, <1>20, <1>21,
     <1>22, <1>23, <1>24, NextCases
(***************************************************************************)
(* Without a crash nothing is out of order.                                *)
(***************************************************************************)

LEMMA InitOrderly == Init => ~overlap /\ OrderlyInv
  BY DEF Init, OrderlyInv

(* A Start finds every reaper finished.                                    *)
LEMMA StartIsOrderly ==
  ASSUME TypeOK, LocksInv, FieldsInv, ReapersInv, OrderlyInv, NEW u \in Users, pc[u] = "start"
  PROVE  \A k \in Runs : reaper[k] # "close"
<1>1. owner = u /\ u # Nobody /\ ~running /\ starts \in 0..MaxStarts
  BY UsersAssumption DEF TypeOK, LocksInv, WithLock
<1>2. starts > 0 => reaper[starts] = "done"
  BY <1>1 DEF ReapersInv, OrderlyInv, Stopped, Stopping
<1>3. \A k \in Runs : k > starts => reaper[k] = "none"
  BY DEF FieldsInv
<1>4. QED
  BY <1>1, <1>2, <1>3 DEF ReapersInv, Runs

LEMMA NextOrderly ==
  ASSUME TypeOK, LocksInv, FieldsInv, ReapersInv, OrderlyInv, [Next]_vars,
         ~overlap, crashed' = {}
  PROVE  ~overlap' /\ OrderlyInv'
<1> USE StartsAssumption
    DEF OrderlyInv, Runs, fieldVars, userVars, reapVars, childVars
<1>0. /\ pc \in [Users -> UserPC] /\ mine \in [Users -> 0..MaxStarts] /\ starts \in 0..MaxStarts
      /\ reaper \in [1..MaxStarts -> ReaperPC]
      /\ live \subseteq 1..MaxStarts
      /\ \A k \in live \cup asked \cup killed : k <= starts
      /\ reaped = starts
      /\ owner # Nobody => owner \in Users
      /\ \A u \in Users : pc[u] \in {"start", "init", "initCall", "initSet", "stop",
                                     "closeClient", "signal", "awaitExit", "await"} <=> owner = u
      /\ \A u \in Users : pc[u] \in {"closeClient", "signal", "awaitExit", "await"} =>
           mine[u] = starts
      /\ \A k \in closedChans : k \in 1..starts => reaper[k] = "done"
      /\ closedChans \subseteq 1..starts
      /\ Nobody \notin Users
  BY UsersAssumption DEF TypeOK, LocksInv, FieldsInv, ReapersInv, WithLock, Initializing, Stopping
<1>1. ASSUME NEW u \in Users, EnsureReuse(u) PROVE ~overlap' /\ OrderlyInv'
  BY <1>0, <1>1 DEF EnsureReuse, Move, Goto, Take
<1>2. ASSUME NEW u \in Users, EnsureStart(u) PROVE ~overlap' /\ OrderlyInv'
  BY <1>0, <1>2 DEF EnsureStart, Move, Goto, Take
<1>3. ASSUME NEW u \in Users, Start(u) PROVE ~overlap' /\ OrderlyInv'
  <2>1. ~overlap'
    BY <1>3, StartIsOrderly DEF Start
  <2>2. starts' \in live'
    BY <1>3 DEF Start
  <2>3. starts' \notin asked \cup killed /\ UNCHANGED <<asked, killed>>
    BY <1>0, <1>3 DEF Start
  <2>4. QED
    BY <2>1, <2>2, <2>3
<1>4. ASSUME NEW u \in Users, StartFails(u) PROVE ~overlap' /\ OrderlyInv'
  BY <1>0, <1>4 DEF StartFails, Move, Goto, Take
<1>5. ASSUME NEW u \in Users, InitializeBegin(u) PROVE ~overlap' /\ OrderlyInv'
  BY <1>0, <1>5 DEF InitializeBegin, Move, Goto, Take
<1>6. ASSUME NEW u \in Users, InitializeReturns(u) PROVE ~overlap' /\ OrderlyInv'
  BY <1>0, <1>6 DEF InitializeReturns, Move, Goto, Take
<1>7. ASSUME NEW u \in Users, InitializeSet(u) PROVE ~overlap' /\ OrderlyInv'
  BY <1>0, <1>7 DEF InitializeSet, Move, Goto, Take
<1>8. ASSUME NEW u \in Users, StartThreadBegin(u) PROVE ~overlap' /\ OrderlyInv'
  BY <1>0, <1>8 DEF StartThreadBegin, Move, Goto, Take
<1>9. ASSUME NEW u \in Users, StartThreadCall(u) PROVE ~overlap' /\ OrderlyInv'
  BY <1>0, <1>9 DEF StartThreadCall, Move, Goto, Take
<1>10. ASSUME NEW u \in Users, CloseModel(u) PROVE ~overlap' /\ OrderlyInv'
  BY <1>0, <1>10 DEF CloseModel, Move, Goto, Take
<1>11. ASSUME NEW u \in Users, StopNotRunning(u) PROVE ~overlap' /\ OrderlyInv'
  BY <1>0, <1>11 DEF StopNotRunning, Move, Goto, Take
<1>12. ASSUME NEW u \in Users, StopRunning(u) PROVE ~overlap' /\ OrderlyInv'
  BY <1>0, <1>12 DEF StopRunning, Move, Goto, Take
<1>13. ASSUME NEW u \in Users, StopClosesClient(u) PROVE ~overlap' /\ OrderlyInv'
  BY <1>0, <1>13 DEF StopClosesClient, Move, Goto, Take
<1>14. ASSUME NEW u \in Users, StopSignals(u) PROVE ~overlap' /\ OrderlyInv'
  BY <1>0, <1>14 DEF StopSignals, Move, Goto, Take
<1>15. ASSUME NEW u \in Users, StopTimeout(u) PROVE ~overlap' /\ OrderlyInv'
  BY <1>0, <1>15 DEF StopTimeout, Move, Goto, Take
<1>16. ASSUME NEW u \in Users, StopReturns(u) PROVE ~overlap' /\ OrderlyInv'
  BY <1>0, <1>16 DEF StopReturns, Move, Goto, Take
<1>17. ASSUME NEW u \in Users, WaitBegin(u) PROVE ~overlap' /\ OrderlyInv'
  BY <1>0, <1>17 DEF WaitBegin, Move, Goto, Take
<1>18. ASSUME NEW u \in Users, WaitReturns(u) PROVE ~overlap' /\ OrderlyInv'
  BY <1>0, <1>18 DEF WaitReturns, Move, Goto, Take
<1>19. ASSUME NEW k \in Runs, ReaperBegin(k) PROVE ~overlap' /\ OrderlyInv'
  BY <1>0, <1>19 DEF ReaperBegin, Advance
<1>20. ASSUME NEW k \in Runs, ReaperWaited(k) PROVE ~overlap' /\ OrderlyInv'
  BY <1>0, <1>20 DEF ReaperWaited, Advance
<1>21. ASSUME NEW k \in Runs, ReaperUpdate(k) PROVE ~overlap' /\ OrderlyInv'
  BY <1>0, <1>21 DEF ReaperUpdate, Advance
<1>22. ASSUME NEW k \in Runs, ReaperClose(k) PROVE ~overlap' /\ OrderlyInv'
  BY <1>0, <1>22 DEF ReaperClose, Advance
<1>23. ASSUME NEW k \in Runs, Exit(k) PROVE ~overlap' /\ OrderlyInv'
  BY <1>0, <1>23 DEF Exit
<1>24. CASE UNCHANGED vars
  BY <1>24 DEF vars
<1>25. QED
  BY <1>1, <1>2, <1>3, <1>4, <1>5, <1>6, <1>7, <1>8, <1>9, <1>10, <1>11,
     <1>12, <1>13, <1>14, <1>15, <1>16, <1>17, <1>18, <1>19, <1>20, <1>21,
     <1>22, <1>23, <1>24, NextCases
(***************************************************************************)
(* The handshake.                                                          *)
(***************************************************************************)

LEMMA InitHandshake == Init => HandshakeInv /\ HandshakeUnlessCrash
  BY DEF Init, HandshakeInv, HandshakeUnlessCrash, Initializing

(* What keeps everything as it is but for more handshakes and crashes      *)
(* keeps a child shaken.                                                   *)
LEMMA ShakenGrows ==
  ASSUME NEW k, Shaken(k), handshake \subseteq handshake', crashed \subseteq crashed'
  PROVE  Shaken(k)'
  BY DEF Shaken

(* Without a crash a reaper that comes to its update finds that Stop has   *)
(* been there before.                                                      *)
LEMMA UpdateIsOrderly ==
  ASSUME TypeOK, LocksInv, FieldsInv, ReapersInv, OrderlyInv,
         NEW k \in Runs, reaper[k] = "update"
  PROVE  ~running
<1>1. k = starts /\ starts > 0 /\ starts \in 1..starts
  BY StartsAssumption DEF TypeOK, FieldsInv, ReapersInv, Runs
<1>2. starts \in asked \cup killed
  BY <1>1 DEF ReapersInv, OrderlyInv
<1>3. owner \in Users /\ pc[owner] \in Stopping
  BY <1>1, <1>2 DEF OrderlyInv, TypeOK, Stopping
<1>4. QED
  BY <1>3 DEF LocksInv

LEMMA NextHandshake ==
  ASSUME TypeOK, LocksInv, FieldsInv, [Next]_vars,
         crashed = {} => ReapersInv /\ OrderlyInv,
         HandshakeInv
  PROVE  HandshakeInv'
<1> USE StartsAssumption
    DEF HandshakeInv, Initializing, Shaken, fieldVars, userVars, reapVars, childVars
<1>0. /\ pc \in [Users -> UserPC] /\ mine \in [Users -> 0..MaxStarts] /\ starts \in 0..MaxStarts
      /\ client = starts /\ reaped = starts
      /\ \A j \in crashed : j \in Nat /\ j <= starts
      /\ owner # Nobody => owner \in Users
      /\ \A u \in Users : pc[u] \in {"start", "init", "initCall", "initSet", "stop",
                                     "closeClient", "signal", "awaitExit", "await"} <=> owner = u
      /\ \A u \in Users : pc[u] \in {"start", "init", "initCall", "initSet", "ready", "useCall"} =>
           callMu = u
      /\ \A u \in Users : pc[u] \in {"start", "closeClient", "signal", "awaitExit", "await"} => ~running
      /\ \A u \in Users : pc[u] \in {"initCall", "initSet", "useCall"} => mine[u] = starts
      /\ Nobody \notin Users
  BY UsersAssumption DEF TypeOK, LocksInv, FieldsInv, WithLock, InTurn, Stopping, Runs
<1>1. ASSUME NEW u \in Users, EnsureReuse(u) PROVE HandshakeInv'
  BY <1>0, <1>1 DEF EnsureReuse, Move, Goto, Take
<1>2. ASSUME NEW u \in Users, EnsureStart(u) PROVE HandshakeInv'
  BY <1>0, <1>2 DEF EnsureStart, Move, Goto, Take
<1>3. ASSUME NEW u \in Users, Start(u) PROVE HandshakeInv'
  BY <1>0, <1>3 DEF Start, Move, Goto, Take
<1>4. ASSUME NEW u \in Users, StartFails(u) PROVE HandshakeInv'
  BY <1>0, <1>4 DEF StartFails, Move, Goto, Take
<1>5. ASSUME NEW u \in Users, InitializeBegin(u) PROVE HandshakeInv'
  BY <1>0, <1>5 DEF InitializeBegin, Move, Goto, Take
<1>6. ASSUME NEW u \in Users, InitializeReturns(u) PROVE HandshakeInv'
  BY <1>0, <1>6 DEF InitializeReturns, Move, Goto, Take
<1>7. ASSUME NEW u \in Users, InitializeSet(u) PROVE HandshakeInv'
  BY <1>0, <1>7 DEF InitializeSet, Move, Goto, Take
<1>8. ASSUME NEW u \in Users, StartThreadBegin(u) PROVE HandshakeInv'
  BY <1>0, <1>8 DEF StartThreadBegin, Move, Goto, Take
<1>9. ASSUME NEW u \in Users, StartThreadCall(u) PROVE HandshakeInv'
  BY <1>0, <1>9 DEF StartThreadCall, Move, Goto, Take
<1>10. ASSUME NEW u \in Users, CloseModel(u) PROVE HandshakeInv'
  BY <1>0, <1>10 DEF CloseModel, Move, Goto, Take
<1>11. ASSUME NEW u \in Users, StopNotRunning(u) PROVE HandshakeInv'
  BY <1>0, <1>11 DEF StopNotRunning, Move, Goto, Take
<1>12. ASSUME NEW u \in Users, StopRunning(u) PROVE HandshakeInv'
  BY <1>0, <1>12 DEF StopRunning, Move, Goto, Take
<1>13. ASSUME NEW u \in Users, StopClosesClient(u) PROVE HandshakeInv'
  BY <1>0, <1>13 DEF StopClosesClient, Move, Goto, Take
<1>14. ASSUME NEW u \in Users, StopSignals(u) PROVE HandshakeInv'
  BY <1>0, <1>14 DEF StopSignals, Move, Goto, Take
<1>15. ASSUME NEW u \in Users, StopTimeout(u) PROVE HandshakeInv'
  BY <1>0, <1>15 DEF StopTimeout, Move, Goto, Take
<1>16. ASSUME NEW u \in Users, StopReturns(u) PROVE HandshakeInv'
  BY <1>0, <1>16 DEF StopReturns, Move, Goto, Take
<1>17. ASSUME NEW u \in Users, WaitBegin(u) PROVE HandshakeInv'
  BY <1>0, <1>17 DEF WaitBegin, Move, Goto, Take
<1>18. ASSUME NEW u \in Users, WaitReturns(u) PROVE HandshakeInv'
  BY <1>0, <1>18 DEF WaitReturns, Move, Goto, Take
<1>19. ASSUME NEW k \in Runs, ReaperBegin(k) PROVE HandshakeInv'
  BY <1>0, <1>19 DEF ReaperBegin, Advance
<1>20. ASSUME NEW k \in Runs, ReaperWaited(k) PROVE HandshakeInv'
  BY <1>0, <1>20 DEF ReaperWaited, Advance
<1>21. ASSUME NEW k \in Runs, ReaperUpdate(k) PROVE HandshakeInv'
  <2>1. CASE crashed = {}
    <3>1. ~running
      BY <1>21, <2>1, UpdateIsOrderly DEF ReaperUpdate
    <3>2. QED
      BY <1>0, <1>21, <3>1 DEF ReaperUpdate
  <2>2. CASE crashed # {}
    BY <1>0, <1>21, <2>2 DEF ReaperUpdate
  <2>3. QED
    BY <2>1, <2>2
<1>22. ASSUME NEW k \in Runs, ReaperClose(k) PROVE HandshakeInv'
  BY <1>0, <1>22 DEF ReaperClose, Advance
<1>23. ASSUME NEW k \in Runs, Exit(k) PROVE HandshakeInv'
  BY <1>0, <1>23 DEF Exit
<1>24. CASE UNCHANGED vars
  BY <1>24 DEF vars
<1>25. QED
  BY <1>1, <1>2, <1>3, <1>4, <1>5, <1>6, <1>7, <1>8, <1>9, <1>10, <1>11,
     <1>12, <1>13, <1>14, <1>15, <1>16, <1>17, <1>18, <1>19, <1>20, <1>21,
     <1>22, <1>23, <1>24, NextCases

(* A child is used by StartThread only, after the handshake or after the   *)
(* crash of an earlier child.                                              *)
LEMMA NextUsed ==
  ASSUME TypeOK, LocksInv, HandshakeInv, HandshakeUnlessCrash, [Next]_vars
  PROVE  HandshakeUnlessCrash'
<1> USE DEF HandshakeUnlessCrash, fieldVars, userVars, reapVars, childVars
<1>1. ASSUME NEW u \in Users, StartThreadCall(u) PROVE HandshakeUnlessCrash'
  <2>1. Shaken(mine[u])
    BY <1>1 DEF StartThreadCall, LocksInv, HandshakeInv
  <2>2. QED
    BY <1>1, <2>1 DEF StartThreadCall, Shaken
<1>2. ASSUME NEW u \in Users, User(u), ~StartThreadCall(u)
      PROVE  UNCHANGED <<used, crashed>> /\ handshake \subseteq handshake'
  BY <1>2 DEF User, Proceed, EnsureReuse, EnsureStart, CloseModel, WaitBegin, Start, StartFails,
         InitializeBegin, InitializeReturns, InitializeSet, StartThreadBegin,
         StopNotRunning, StopRunning, StopClosesClient, StopSignals, StopTimeout, StopReturns,
         WaitReturns
<1>3. ASSUME NEW k \in Runs, Reaper(k) PROVE UNCHANGED <<used, crashed, handshake>>
  BY <1>3 DEF Reaper, ReaperBegin, ReaperWaited, ReaperUpdate, ReaperClose
<1>4. ASSUME NEW k \in Runs, Exit(k) PROVE UNCHANGED <<used, handshake>> /\ crashed \subseteq crashed'
  BY <1>4 DEF Exit
<1>5. CASE UNCHANGED vars
  BY <1>5 DEF vars
<1>6. QED
  BY <1>1, <1>2, <1>3, <1>4, <1>5 DEF Next

(***************************************************************************)
(* The theorems.                                                           *)
(***************************************************************************)

(* The inductive invariant is one.                                         *)
THEOREM InductiveInvariant == Spec => []IInv
<1>1. Init => IInv
  BY InitTypeOK, InitLocks, InitReapers, InitOrderly, InitHandshake DEF IInv
<1>2. IInv /\ [Next]_vars => IInv'
  <2> SUFFICES ASSUME IInv, [Next]_vars PROVE IInv'
    OBVIOUS
  <2>1. TypeOK' /\ LocksInv' /\ FieldsInv'
    BY NextTypeOK, NextLocks, NextFields DEF IInv
  <2>2. ~overlap' => ReapersInv'
    BY NextReapers, HistoryStays DEF IInv
  <2>3. crashed' = {} => crashed = {}
    BY HistoryStays
  <2>4. crashed' = {} => ~overlap' /\ OrderlyInv'
    BY <2>3, NextOrderly DEF IInv
  <2>5. HandshakeInv' /\ HandshakeUnlessCrash'
    BY NextHandshake, NextUsed DEF IInv
  <2>6. QED
    BY <2>1, <2>2, <2>4, <2>5 DEF IInv
<1>3. QED
  BY <1>1, <1>2, PTL DEF Spec

(* Every variable keeps its type, and a process that runs was started.     *)
THEOREM TypeCorrect == Spec => []TypeOK
<1>1. IInv => TypeOK
  BY DEF IInv
<1>2. QED
  BY <1>1, InductiveInvariant, PTL

(* As long as no Start slips between a reaper's update and its close: one  *)
(* child at most, the fields tell the truth about it, and every reaper     *)
(* waits for its own child and closes its own channel, once.               *)
THEOREM ProcessIsAlwaysReal == Spec => []ProcessIsReal
<1>1. IInv => ProcessIsReal
  <2> SUFFICES ASSUME IInv, ~overlap PROVE OneLiveChild /\ RunningIsReal /\ ReaperIsOwn
    BY DEF ProcessIsReal
  <2> USE StartsAssumption DEF IInv, TypeOK, FieldsInv, ReapersInv
  <2>1. \A k \in live : k = starts /\ starts > 0
    BY DEF Runs
  <2>2. OneLiveChild
    BY <2>1 DEF OneLiveChild
  <2>3. RunningIsReal
    <3>1. running => cmd = starts /\ reaped = cmd /\ reaper[cmd] \in {"begin", "waiting", "update"}
      OBVIOUS
    <3>2. ASSUME ~running, NEW k \in live
          PROVE  owner # Nobody /\ mine[owner] = k /\ pc[owner] \in Stopping
      <4>1. Stopped
        BY <2>1, <3>2 DEF Runs
      <4>2. QED
        BY <2>1, <3>2, <4>1 DEF Stopped, LocksInv
    <3>3. QED
      BY <3>1, <3>2 DEF RunningIsReal, Stopping
  <2>4. ReaperIsOwn
    BY DEF ReaperIsOwn, Runs
  <2>5. QED
    BY <2>2, <2>3, <2>4
<1>2. QED
  BY <1>1, InductiveInvariant, PTL

(* A child is never used before its handshake, unless an earlier child     *)
(* crashed: then initialized may be left over from that one.               *)
THEOREM HandshakeComesFirst == Spec => []HandshakeUnlessCrash
<1>1. IInv => HandshakeUnlessCrash
  BY DEF IInv
<1>2. QED
  BY <1>1, InductiveInvariant, PTL
=============================================================================
