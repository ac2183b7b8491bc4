-------------------------- MODULE AppServerProcess ---------------------------
(***************************************************************************)
(* The life of the codex app-server child: process/appserver.go (Start,    *)
(* Initialize, StartThread, Stop, Wait and the reaper goroutine) under the *)
(* users of llm.go: a turn holds m.callMu, ensureProcess (in a turn) and   *)
(* Close (at any time) hold m.mu, the RPCs of a turn do not.  One          *)
(* AppServerProcess object is restarted many times; its k-th successful    *)
(* Start makes child k, client k, reaper k and channel k of p.reaped.      *)
(*                                                                         *)
(* p.mu is held across one operation that may block, Stop's client.Close,  *)
(* which waits for the c.mu of a call that is writing; it changes nothing  *)
(* before it has it, so a critical section is one action (see Stuck).      *)
(***************************************************************************)
EXTENDS Integers, FiniteSets

CONSTANTS
  Users,      (* goroutines that use the LanguageModel                     *)
  Nobody,     (* the holder of a free m.mu                                 *)
  MaxStarts,  (* bound: successful Starts                                  *)
  Crashes     (* TRUE: a child may exit without being asked to             *)

ASSUME UsersAssumption  == Users # {} /\ Nobody \notin Users
ASSUME StartsAssumption == MaxStarts \in Nat /\ Crashes \in BOOLEAN

VARIABLES
  running,      (* p.running                                               *)
  initialized,  (* p.initialized                                           *)
  cmd,          (* p.cmd: the child it started, 0 for one not started      *)
  client,       (* p.client, 0 for nil                                     *)
  reaped,       (* p.reaped, 0 for nil                                     *)
  starts,       (* successful Starts so far                                *)
  callMu,       (* who holds m.callMu: the turn in progress                *)
  owner,        (* who holds m.mu                                          *)
  pc,           (* where each user is                                      *)
  mine,         (* the incarnation a user took from the fields             *)
  reaper,       (* where each reaper goroutine is                          *)
  waits,        (* the child each reaper waits for                         *)
  closedChans,  (* the reaped channels that were closed                    *)
  clientClosed, (* the JSON-RPC clients that were closed                   *)
  live,         (* the children that run                                   *)
  asked,        (* the children whose stdin was closed and interrupted     *)
  killed,       (* the children that were killed                           *)
  handshake,    (* the children that received "initialize"                 *)
  used,         (* the children that received "thread/start"               *)
  crashed,      (* the children that exited without being asked            *)
  overlap,      (* a Start ran between a reaper's update and its close     *)
  panicked      (* a reaper closed a closed channel                        *)

fieldVars == <<running, initialized, cmd, client, reaped, starts>>
userVars  == <<callMu, owner, pc, mine>>
reapVars  == <<reaper, waits, closedChans>>
childVars == <<clientClosed, live, asked, killed, handshake, used, crashed>>
vars == <<fieldVars, userVars, reapVars, childVars, overlap, panicked>>

Runs == 1..MaxStarts

UserPC == {"idle", "start", "init", "initCall", "initSet", "ready", "useCall",
           "stop", "closeClient", "signal", "awaitExit", "await", "waitOp"}
ReaperPC == {"none", "begin", "waiting", "update", "close", "done"}

Init ==
  /\ running = FALSE /\ initialized = FALSE /\ cmd = 0 /\ client = 0 /\ reaped = 0
  /\ starts = 0 /\ owner = Nobody /\ callMu = Nobody
  /\ pc = [u \in Users |-> "idle"] /\ mine = [u \in Users |-> 0]
  /\ reaper = [k \in Runs |-> "none"] /\ waits = [k \in Runs |-> 0]
  /\ closedChans = {} /\ clientClosed = {} /\ live = {} /\ asked = {} /\ killed = {}
  /\ handshake = {} /\ used = {} /\ crashed = {} /\ overlap = FALSE /\ panicked = FALSE

-----------------------------------------------------------------------------
(* Steps of a user. *)

(* A panic ends the program: nobody moves after it. *)
Move(u, l) == ~panicked /\ pc' = [pc EXCEPT ![u] = l]
(* The turn that goes back to "idle" gives m.callMu back. *)
Goto(u, l) == Move(u, l) /\ callMu' = IF l = "idle" /\ callMu = u THEN Nobody ELSE callMu
Take(u, k) == mine' = [mine EXCEPT ![u] = k]

(* ensureProcess with the right config: the running child is reused.       *)
EnsureReuse(u) ==
  /\ pc[u] = "idle" /\ callMu = Nobody /\ owner = Nobody /\ running
  /\ callMu' = u
  /\ Move(u, "ready")
  /\ UNCHANGED <<fieldVars, owner, mine, reapVars, childVars, overlap, panicked>>

EnsureStart(u) ==
  /\ pc[u] = "idle" /\ callMu = Nobody /\ owner = Nobody /\ ~running /\ starts < MaxStarts
  /\ callMu' = u /\ owner' = u
  /\ Move(u, "start")
  /\ UNCHANGED <<fieldVars, mine, reapVars, childVars, overlap, panicked>>

(* Start: a new command, client and reaped channel; initialized is kept.   *)
Start(u) ==
  /\ pc[u] = "start"
  /\ starts' = starts + 1
  /\ cmd' = starts' /\ client' = starts' /\ reaped' = starts'
  /\ running' = TRUE
  /\ live' = live \cup {starts'}
  /\ reaper' = [reaper EXCEPT ![starts'] = "begin"]
  /\ overlap' = (overlap \/ \E k \in Runs : reaper[k] = "close")
  /\ Goto(u, "init")
  /\ UNCHANGED <<initialized, owner, mine, waits, closedChans, clientClosed, asked, killed,
                 handshake, used, crashed, panicked>>

(* exec fails: p.cmd and the pipes are replaced, the rest is not.          *)
StartFails(u) ==
  /\ pc[u] = "start"
  /\ cmd' = 0
  /\ owner' = Nobody
  /\ Goto(u, "idle")
  /\ UNCHANGED <<running, initialized, client, reaped, starts, mine, reapVars, childVars,
                 overlap, panicked>>

(* Initialize: the early returns, and the client it captures.              *)
InitializeBegin(u) ==
  /\ pc[u] = "init"
  /\ \/ ~running /\ Goto(u, "stop") /\ UNCHANGED <<owner, mine>>
     \/ running /\ initialized /\ owner' = Nobody /\ Goto(u, "ready") /\ UNCHANGED mine
     \/ running /\ ~initialized /\ Take(u, client) /\ Goto(u, "initCall") /\ UNCHANGED owner
  /\ UNCHANGED <<fieldVars, reapVars, childVars, overlap, panicked>>

(* client.Call returns: with a result, or with an error (the child or the  *)
(* connection is gone, the ctx ended, the child refused) whether or not    *)
(* the request was received.                                               *)
InitializeReturns(u) ==
  /\ pc[u] = "initCall"
  /\ \/ /\ mine[u] \in live /\ mine[u] \notin clientClosed
        /\ handshake' = handshake \cup {mine[u]}
        /\ \E l \in {"initSet", "stop"} : Goto(u, l)
     \/ Goto(u, "stop") /\ UNCHANGED handshake
  /\ UNCHANGED <<fieldVars, owner, mine, reapVars, clientClosed, live, asked, killed,
                 used, crashed, overlap, panicked>>

InitializeSet(u) ==
  /\ pc[u] = "initSet"
  /\ initialized' = TRUE
  /\ owner' = Nobody
  /\ Goto(u, "ready")
  /\ UNCHANGED <<running, cmd, client, reaped, starts, mine, reapVars, childVars,
                 overlap, panicked>>

(* StartThread, without m.mu: check running and capture the client, ...    *)
StartThreadBegin(u) ==
  /\ pc[u] = "ready"
  /\ \/ ~running /\ Goto(u, "idle") /\ UNCHANGED mine
     \/ running /\ Take(u, client) /\ Goto(u, "useCall")
  /\ UNCHANGED <<fieldVars, owner, reapVars, childVars, overlap, panicked>>

(* ... then call.                                                          *)
StartThreadCall(u) ==
  /\ pc[u] = "useCall"
  /\ \/ mine[u] \in live /\ mine[u] \notin clientClosed /\ used' = used \cup {mine[u]}
     \/ UNCHANGED used
  /\ Goto(u, "idle")
  /\ UNCHANGED <<fieldVars, owner, mine, reapVars, clientClosed, live, asked, killed,
                 handshake, crashed, overlap, panicked>>

(* LanguageModel.Close takes m.mu and stops the process, keeping it.       *)
CloseModel(u) ==
  /\ pc[u] = "idle" /\ owner = Nobody
  /\ owner' = u
  /\ Goto(u, "stop")
  /\ UNCHANGED <<fieldVars, mine, reapVars, childVars, overlap, panicked>>

(* Stop when nothing runs: wait for the reaper that is still at work.      *)
StopNotRunning(u) ==
  /\ pc[u] = "stop" /\ ~running
  /\ IF reaped = 0
       THEN Goto(u, "idle") /\ owner' = Nobody /\ UNCHANGED mine
       ELSE Goto(u, "await") /\ Take(u, reaped) /\ UNCHANGED owner
  /\ UNCHANGED <<fieldVars, reapVars, childVars, overlap, panicked>>

(* A slip: initialized survives an orderly Stop.                           *)
StopRunning_KeepsInitialized(u) ==
  /\ pc[u] = "stop" /\ running
  /\ running' = FALSE
  /\ Take(u, reaped)
  /\ Goto(u, "closeClient")
  /\ UNCHANGED <<initialized, cmd, client, reaped, starts, owner, reapVars, childVars,
                 overlap, panicked>>

(* A slip: the reaped channel is cleared with the other fields.            *)
StopRunning_ClearsReaped(u) ==
  /\ pc[u] = "stop" /\ running
  /\ running' = FALSE /\ initialized' = FALSE /\ reaped' = 0
  /\ Take(u, reaped)
  /\ Goto(u, "closeClient")
  /\ UNCHANGED <<cmd, client, starts, owner, reapVars, childVars, overlap, panicked>>

(* Stop: running is cleared first, the child still lives.  cmd, stdin and  *)
(* reaped are captured; they belong to the same Start.                     *)
StopRunning(u) ==
  /\ pc[u] = "stop" /\ running
  /\ running' = FALSE /\ initialized' = FALSE
  /\ Take(u, reaped)
  /\ Goto(u, "closeClient")
  /\ UNCHANGED <<cmd, client, reaped, starts, owner, reapVars, childVars, overlap, panicked>>

StopClosesClient(u) ==
  /\ pc[u] = "closeClient"
  /\ clientClosed' = clientClosed \cup {client}
  /\ Goto(u, "signal")
  /\ UNCHANGED <<fieldVars, owner, mine, reapVars, live, asked, killed,
                 handshake, used, crashed, overlap, panicked>>

(* A slip: Stop returns once the child was asked to exit.                  *)
StopSignals_NoWait(u) ==
  /\ pc[u] = "signal"
  /\ asked' = asked \cup {mine[u]}
  /\ owner' = Nobody
  /\ Goto(u, "idle")
  /\ UNCHANGED <<fieldVars, mine, reapVars, clientClosed, live, killed,
                 handshake, used, crashed, overlap, panicked>>

(* stdin.Close() and SIGINT.                                               *)
StopSignals(u) ==
  /\ pc[u] = "signal"
  /\ asked' = asked \cup {mine[u]}
  /\ Goto(u, "awaitExit")
  /\ UNCHANGED <<fieldVars, owner, mine, reapVars, clientClosed, live, killed,
                 handshake, used, crashed, overlap, panicked>>

(* A slip: the timeout gives up waiting without killing.                   *)
StopTimeout_NoKill(u) ==
  /\ pc[u] = "awaitExit" /\ mine[u] \notin closedChans
  /\ Goto(u, "await")
  /\ UNCHANGED <<fieldVars, owner, mine, reapVars, childVars, overlap, panicked>>

(* Ten seconds passed.                                                     *)
StopTimeout(u) ==
  /\ pc[u] = "awaitExit" /\ mine[u] \notin closedChans
  /\ killed' = killed \cup {mine[u]}
  /\ Goto(u, "await")
  /\ UNCHANGED <<fieldVars, owner, mine, reapVars, clientClosed, live, asked,
                 handshake, used, crashed, overlap, panicked>>

(* <-reaped: Stop returns, and with it the method that holds m.mu.         *)
StopReturns(u) ==
  /\ pc[u] \in {"awaitExit", "await"} /\ mine[u] \in closedChans
  /\ owner' = Nobody
  /\ Goto(u, "idle")
  /\ UNCHANGED <<fieldVars, mine, reapVars, childVars, overlap, panicked>>

(* Wait: captures the channel, then blocks on it, without m.mu.            *)
WaitBegin(u) ==
  /\ pc[u] = "idle" /\ reaped # 0
  /\ Take(u, reaped)
  /\ Goto(u, "waitOp")
  /\ UNCHANGED <<fieldVars, owner, reapVars, childVars, overlap, panicked>>

WaitReturns(u) ==
  /\ pc[u] = "waitOp" /\ mine[u] \in closedChans
  /\ Goto(u, "idle")
  /\ UNCHANGED <<fieldVars, owner, mine, reapVars, childVars, overlap, panicked>>

(* What a user in a method does next, whatever it chose to call.           *)
Proceed(u) ==
  \/ Start(u) \/ StartFails(u)
  \/ InitializeBegin(u) \/ InitializeReturns(u) \/ InitializeSet(u)
  \/ StartThreadBegin(u) \/ StartThreadCall(u)
  \/ StopNotRunning(u) \/ StopRunning(u) \/ StopClosesClient(u) \/ StopSignals(u)
  \/ StopTimeout(u) \/ StopReturns(u)
  \/ WaitReturns(u)

User(u) == EnsureReuse(u) \/ EnsureStart(u) \/ CloseModel(u) \/ WaitBegin(u) \/ Proceed(u)

-----------------------------------------------------------------------------
(* The reaper goroutine of Start k.  It reads the fields of p when it gets *)
(* to them, not when it was created.                                       *)

Advance(k, l) == ~panicked /\ reaper' = [reaper EXCEPT ![k] = l]

ReaperBegin(k) ==
  /\ reaper[k] = "begin"
  /\ waits' = [waits EXCEPT ![k] = cmd]
  /\ Advance(k, "waiting")
  /\ UNCHANGED <<fieldVars, userVars, closedChans, childVars, overlap, panicked>>

(* p.cmd.Wait() returns.                                                   *)
ReaperWaited(k) ==
  /\ reaper[k] = "waiting" /\ waits[k] \notin live
  /\ Advance(k, "update")
  /\ UNCHANGED <<fieldVars, userVars, waits, closedChans, childVars, overlap, panicked>>

(* A slip: the state is left as it was.                                    *)
ReaperUpdate_Forgotten(k) ==
  /\ reaper[k] = "update"
  /\ Advance(k, "close")
  /\ UNCHANGED <<fieldVars, userVars, waits, closedChans, childVars, overlap, panicked>>

ReaperUpdate(k) ==
  /\ reaper[k] = "update"
  /\ running' = FALSE
  /\ Advance(k, "close")
  /\ UNCHANGED <<initialized, cmd, client, reaped, starts, userVars, waits, closedChans,
                 childVars, overlap, panicked>>

(* close(p.reaped), after the unlock, on whatever channel is there now.    *)
ReaperClose(k) ==
  /\ reaper[k] = "close"
  /\ closedChans' = closedChans \cup {reaped}
  /\ panicked' = (reaped \in closedChans)
  /\ Advance(k, "done")
  /\ UNCHANGED <<fieldVars, userVars, waits, childVars, overlap>>

Reaper(k) == ReaperBegin(k) \/ ReaperWaited(k) \/ ReaperUpdate(k) \/ ReaperClose(k)

(* The child exits: it was asked to, was killed, or crashes (the end of    *)
(* the ctx given to Start kills it too).                                   *)
Exit(k) ==
  /\ k \in live
  /\ k \in asked \cup killed \/ Crashes
  /\ live' = live \ {k}
  /\ crashed' = IF k \in asked \cup killed THEN crashed ELSE crashed \cup {k}
  /\ UNCHANGED <<fieldVars, userVars, reapVars, clientClosed, asked, killed, handshake, used,
                 overlap, panicked>>

Next == \/ \E u \in Users : User(u)
        \/ \E k \in Runs : Reaper(k) \/ Exit(k)

Spec == Init /\ [][Next]_vars

(* A call that writes to a child which lives but does not read waits for   *)
(* ever when the pipe is full, with c.mu; and Close waits for c.mu.  (The  *)
(* handshake is shorter than a pipe.)                                      *)
InCall(k, u) == k \in live /\ pc[u] = "useCall" /\ mine[u] = k

CloseWaits(u) == pc[u] = "closeClient" /\ \E v \in Users : InCall(client, v)

Stuck(u) == InCall(mine[u], u) \/ CloseWaits(u)

(* Goroutines run unless they are stuck, the timer fires, Call returns; a  *)
(* killed child exits, an interrupted one need not.                        *)
Fairness == /\ \A u \in Users : WF_vars(~Stuck(u) /\ Proceed(u))
            /\ \A k \in Runs : /\ WF_vars(Reaper(k))
                               /\ WF_vars(k \in killed /\ Exit(k))

FairSpec == Spec /\ Fairness
-----------------------------------------------------------------------------
(* Properties. *)

(* Every variable keeps its type, and a process that runs was started.     *)
TypeOK ==
  /\ running \in BOOLEAN /\ initialized \in BOOLEAN /\ overlap \in BOOLEAN /\ panicked \in BOOLEAN
  /\ cmd \in 0..MaxStarts /\ client \in 0..MaxStarts /\ reaped \in 0..MaxStarts
  /\ starts \in 0..MaxStarts
  /\ callMu \in Users \cup {Nobody} /\ owner \in Users \cup {Nobody}
  /\ pc \in [Users -> UserPC] /\ mine \in [Users -> 0..MaxStarts]
  /\ reaper \in [Runs -> ReaperPC] /\ waits \in [Runs -> 0..MaxStarts]
  /\ closedChans \subseteq Runs /\ clientClosed \subseteq Runs /\ live \subseteq Runs
  /\ asked \subseteq Runs /\ killed \subseteq Runs /\ handshake \subseteq Runs
  /\ used \subseteq Runs /\ crashed \subseteq Runs

(* As long as no Start slips between a reaper's update and its close:      *)
(*   - at most one child lives: a Stop returns only after its child was    *)
(*     reaped, and a restart follows it;                                   *)
(*   - the fields tell the truth: what runs is the last child started      *)
(*     (alive, or with its reaper on the way to say so), and when nothing  *)
(*     runs no child lives but the one the owner of m.mu is stopping;      *)
(*   - each reaper waits for its own child and closes its own channel,     *)
(*     once.                                                               *)
OneLiveChild == \A j, k \in live : j = k

RunningIsReal ==
  /\ running => cmd = starts /\ reaped = cmd /\ reaper[cmd] \in {"begin", "waiting", "update"}
  /\ ~running => \A k \in live :
       owner # Nobody /\ mine[owner] = k
         /\ pc[owner] \in {"closeClient", "signal", "awaitExit", "await"}

ReaperIsOwn ==
  /\ ~panicked
  /\ \A k \in Runs : /\ reaper[k] \in {"update", "close", "done"} => waits[k] = k
                     /\ k \in closedChans <=> reaper[k] = "done"

ProcessIsReal == ~overlap => OneLiveChild /\ RunningIsReal /\ ReaperIsOwn

(* A child is used without the handshake only if an earlier child crashed: *)
(* every child started after an orderly Stop is initialized first.         *)
HandshakeUnlessCrash ==
  \A k \in used \ handshake : \E j \in crashed : j < k

(* m.mu is not kept for ever: a method that owns it returns, even when the *)
(* child ignores the interrupt.  It may stay only in Stop's client.Close   *)
(* (appserver.go:274), before anything has been sent to the child, while   *)
(* another call writes to a child that lives.                              *)
OwnerReturns ==
  \A u \in Users : []<>(owner # u \/ CloseWaits(u) \/ overlap)
=============================================================================
