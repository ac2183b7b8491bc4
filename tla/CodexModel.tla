------------------------------ MODULE CodexModel ------------------------------
(***************************************************************************)
(* provider/openai-codex/llm.go: the LanguageModel that shares one codex   *)
(* app-server between concurrent Generate and Stream calls, with           *)
(* RestartProcess and Close at any time.  The app-server is seen through   *)
(* its interface (AppServerProcess and JsonRpcClient model the rest).      *)
(* RestartProcess and Close hold m.mu from end to end, so each is one      *)
(* action; ensureProcess does too, and of its two steps the second finds   *)
(* what the first one left.                                                *)
(*                                                                         *)
(* A call runs once.  What it creates is named after it: the process       *)
(* object that ensureProcess made in it, the child that Start launched in  *)
(* it, with the context of the call, and the turn it started.              *)
(***************************************************************************)
EXTENDS Integers, Sequences, FiniteSets

CONSTANTS
  Calls,     (* the calls of Generate and Stream                           *)
  Streams,   (* the calls of Stream among them                             *)
  None,      (* no call: nil, or the holder of a free mutex                *)
  Keys,      (* configurations: model and system prompt                    *)
  NoKey,     (* the zero ConfigKey                                         *)
  Cap,       (* capacity of a notification channel                         *)
  Budget,    (* of the cost monitor; every turn uses one token             *)
  Faults     (* which of AllFaults may happen in this instance             *)

(* cancel: the context of a call ends while it runs; expire: after it      *)
(* returned; break: the consumer of a stream stops early; crash: the child *)
(* dies; restart, close: RestartProcess and Close are called; garbled: a   *)
(* notification that DecodeNotification refuses; refuse: Start or an RPC   *)
(* fails; abandon: nobody ranges over a stream.                            *)
AllFaults == {"cancel", "expire", "break", "crash", "restart", "close", "garbled", "refuse",
              "abandon"}

ASSUME CallsAssumption  == Calls # {} /\ None \notin Calls /\ Streams \subseteq Calls
ASSUME KeysAssumption   == NoKey \notin Keys
ASSUME BoundsAssumption == Cap \in Nat \ {0} /\ Budget \in Nat
ASSUME FaultsAssumption == Faults \subseteq AllFaults

VARIABLES
  callMu,     (* the call that holds m.callMu                              *)
  proc,       (* m.proc                                                    *)
  cachedKey,  (* m.cachedKey                                               *)
  config,     (* the config each process object was created with           *)
  child,      (* the last child each process object started                *)
  live,       (* the children that run                                     *)
  channel,    (* the notifications buffered for each child                 *)
  ended,      (* the children whose notification channel was closed        *)
  pc,         (* where each call is                                        *)
  key,        (* the config each call asks for                             *)
  object,     (* the process each call took from m.proc                    *)
  turnChild,  (* the child each call's turn runs in                        *)
  emitted,    (* how many notifications were sent for each turn            *)
  seen,       (* the turns whose notifications each call consumed          *)
  ctxDone,    (* the calls whose context has ended                         *)
  result,     (* what each call returned, or its stream ended with         *)
  monitored,  (* the turns the cost monitor recorded                       *)
  lost,       (* the turns whose completion was dropped or garbled         *)
  revived     (* process objects started again                             *)

procVars == <<proc, cachedKey, config, child, revived>>
outVars  == <<live, channel, ended>>
callVars == <<callMu, pc, key, object, turnChild, seen, result>>
rest     == <<emitted, ctxDone, lost>>
vars == <<procVars, outVars, callVars, monitored, rest>>

PC == {"idle", "ensure", "capture", "thread", "turn", "streamed", "consume", "done"}
Results == {"none", "response", "overBudget", "stopped", "error", "panic"}

Notif == [turn : Calls, kind : {"delta", "completed", "garbled"}]

Init ==
  /\ callMu = None /\ proc = None /\ cachedKey = NoKey
  /\ config = [o \in Calls |-> NoKey] /\ child = [o \in Calls |-> None]
  /\ live = {} /\ channel = [k \in Calls |-> <<>>] /\ ended = {}
  /\ pc = [c \in Calls |-> "idle"]
  /\ key = [c \in Calls |-> NoKey] /\ object = [c \in Calls |-> None]
  /\ turnChild = [c \in Calls |-> None] /\ emitted = [c \in Calls |-> 0]
  /\ seen = [c \in Calls |-> {}] /\ ctxDone = {}
  /\ result = [c \in Calls |-> "none"]
  /\ monitored = {} /\ lost = {} /\ revived = {}

-----------------------------------------------------------------------------
(* IsRunning. *)
Running(o) == o # None /\ child[o] \in live

(* Stop: the child exits and readPump closes the notification channel, or  *)
(* does not, when a last line came after the client was closed.            *)
StopChild(k) ==
  /\ live' = live \ {k}
  /\ \/ ended' = ended \cup {k}
     \/ k \in live /\ UNCHANGED ended
  /\ UNCHANGED channel

-----------------------------------------------------------------------------
(* One call. *)

Goto(c, l) == pc' = [pc EXCEPT ![c] = l]

(* Generate, a failed Stream, or the iterator of a stream ends.            *)
Leave(c, r) ==
  /\ Goto(c, "done")
  /\ result' = [result EXCEPT ![c] = r]
  /\ callMu' = None

(* m.callMu.Lock(), and the config of the call.                            *)
Begin(c) ==
  /\ pc[c] = "idle" /\ callMu = None
  /\ callMu' = c
  /\ \E k \in Keys : key' = [key EXCEPT ![c] = k]
  /\ Goto(c, "ensure")
  /\ UNCHANGED <<object, turnChild, seen, result, procVars, outVars, monitored, rest>>

(* ensureProcess: the running process was started with this key, ...       *)
EnsureReuse(c) ==
  /\ pc[c] = "ensure" /\ Running(proc) /\ cachedKey = key[c]
  /\ Goto(c, "capture")
  /\ UNCHANGED <<callMu, key, object, turnChild, seen, result,
                 procVars, outVars, monitored, rest>>

(* A slip: the old process is forgotten but not stopped.                   *)
EnsureStop_Forgotten(c) ==
  /\ pc[c] = "ensure" /\ Running(proc) /\ cachedKey # key[c]
  /\ proc' = None
  /\ UNCHANGED <<cachedKey, config, child, revived, outVars, callVars, monitored, rest>>

(* ... or with another one: it is stopped and given up, ...                *)
EnsureStop(c) ==
  /\ pc[c] = "ensure" /\ Running(proc) /\ cachedKey # key[c]
  /\ StopChild(child[proc])
  /\ proc' = None
  /\ UNCHANGED <<cachedKey, config, child, revived, callVars, monitored, rest>>

(* ... or nothing runs: a process is made unless there is one, whose       *)
(* config stays what it was.                                               *)
MakeProcess(c) ==
  IF proc = None
    THEN proc' = c /\ config' = [config EXCEPT ![c] = key[c]] /\ UNCHANGED revived
    ELSE revived' = revived \cup {proc} /\ UNCHANGED <<proc, config>>

(* A slip: the key of the new process is not remembered.                   *)
EnsureStart_KeyKept(c) ==
  /\ pc[c] = "ensure" /\ ~Running(proc) /\ c \notin ctxDone
  /\ MakeProcess(c)
  /\ child' = [child EXCEPT ![proc'] = c]
  /\ live' = live \cup {c}
  /\ cachedKey' = IF cachedKey = NoKey THEN key[c] ELSE cachedKey
  /\ Goto(c, "capture")
  /\ UNCHANGED <<callMu, key, object, turnChild, seen, result, channel, ended,
                 monitored, rest>>

(* Start and Initialize succeed, at once or in a later attempt of the      *)
(* retry policy.                                                           *)
EnsureStart(c) ==
  /\ pc[c] = "ensure" /\ ~Running(proc) /\ c \notin ctxDone
  /\ MakeProcess(c)
  /\ child' = [child EXCEPT ![proc'] = c]
  /\ live' = live \cup {c}
  /\ cachedKey' = key[c]
  /\ Goto(c, "capture")
  /\ UNCHANGED <<callMu, key, object, turnChild, seen, result, channel, ended,
                 monitored, rest>>

(* Every attempt failed, and what was started was stopped again.           *)
EnsureFails(c) ==
  /\ pc[c] = "ensure" /\ ~Running(proc)
  /\ c \in ctxDone \/ "refuse" \in Faults
  /\ MakeProcess(c)
  /\ Leave(c, "error")
  /\ UNCHANGED <<cachedKey, child, key, object, turnChild, seen, outVars, monitored, rest>>

(* proc := m.proc; a method of a nil interface panics.                     *)
Capture(c) ==
  /\ pc[c] = "capture"
  /\ IF proc = None
       THEN Leave(c, "panic") /\ UNCHANGED object
       ELSE object' = [object EXCEPT ![c] = proc] /\ Goto(c, "thread") /\ UNCHANGED <<result, callMu>>
  /\ UNCHANGED <<key, turnChild, seen, procVars, outVars, monitored, rest>>

(* The RPCs fail when the child is gone, the context ended, or it refuses. *)
MayFail(c) == ~Running(object[c]) \/ c \in ctxDone \/ "refuse" \in Faults

StartThread(c) ==
  /\ pc[c] = "thread"
  /\ \/ Running(object[c]) /\ Goto(c, "turn") /\ UNCHANGED <<result, callMu>>
     \/ MayFail(c) /\ Leave(c, "error")
  /\ UNCHANGED <<key, object, turnChild, seen, procVars, outVars, monitored, rest>>

(* A slip: Stream gives the lock back with the response.                   *)
AfterTurn_Unlocked(c) ==
  IF c \notin Streams THEN Goto(c, "consume") /\ UNCHANGED callMu
                          ELSE Goto(c, "streamed") /\ callMu' = None

(* Generate goes on to its loop, Stream returns the iterator.              *)
AfterTurn(c) ==
  /\ Goto(c, IF c \notin Streams THEN "consume" ELSE "streamed")
  /\ UNCHANGED callMu

(* StartTurn: a request that was written may start a turn though the call  *)
(* gave it up.                                                             *)
StartTurn(c) ==
  /\ pc[c] = "turn"
  /\ \/ /\ Running(object[c])
        /\ turnChild' = [turnChild EXCEPT ![c] = child[object[c]]]
        /\ \/ AfterTurn(c) /\ UNCHANGED result
           \/ c \in ctxDone /\ Leave(c, "error")
     \/ MayFail(c) /\ Leave(c, "error") /\ UNCHANGED turnChild
  /\ UNCHANGED <<key, object, seen, procVars, outVars, monitored, rest>>

(* The consumer ranges over the stream and may stop at the metadata event. *)
Range(c) ==
  /\ pc[c] = "streamed"
  /\ \/ Goto(c, "consume") /\ UNCHANGED <<result, callMu>>
     \/ "break" \in Faults /\ Leave(c, "stopped")
  /\ UNCHANGED <<key, object, turnChild, seen, procVars, outVars, monitored, rest>>

(* <-ctx.Done() *)
ConsumeCancelled(c) ==
  /\ pc[c] = "consume" /\ c \in ctxDone
  /\ Leave(c, "error")
  /\ UNCHANGED <<key, object, turnChild, seen, procVars, outVars, monitored, rest>>

(* A slip: the ok of the receive is ignored, and nil notifications skipped.*)
ConsumeClosed_Ignored(c) == FALSE /\ UNCHANGED vars

(* The channel is closed and drained.                                      *)
ConsumeClosed(c) ==
  /\ pc[c] = "consume" /\ turnChild[c] \in ended /\ channel[turnChild[c]] = <<>>
  /\ Leave(c, "error")
  /\ UNCHANGED <<key, object, turnChild, seen, procVars, outVars, monitored, rest>>

(* A notification is received, whichever turn it belongs to.               *)
Take(c, k) ==
  LET ch == turnChild[c] IN
  /\ pc[c] = "consume" /\ channel[ch] # <<>> /\ Head(channel[ch]).kind = k
  /\ channel' = [channel EXCEPT ![ch] = Tail(@)]
  /\ seen' = [seen EXCEPT ![c] = @ \cup {Head(channel[ch]).turn}]
  /\ UNCHANGED <<live, ended, procVars, key, object, turnChild, rest>>

ConsumeDelta(c) ==
  /\ Take(c, "delta")
  /\ \/ UNCHANGED <<pc, result, callMu>>
     \/ c \in Streams /\ "break" \in Faults /\ Leave(c, "stopped")
  /\ UNCHANGED monitored

(* Generate gives up, a stream goes on when its consumer does.             *)
ConsumeGarbled(c) ==
  /\ Take(c, "garbled")
  /\ \/ c \notin Streams /\ Leave(c, "error")
     \/ c \in Streams /\ UNCHANGED <<pc, result, callMu>>
     \/ c \in Streams /\ "break" \in Faults /\ Leave(c, "stopped")
  /\ UNCHANGED monitored

OverBudget(m) == Cardinality(m) >= Budget

(* TrackUsage refuses a turn that reaches the budget: it is recorded, and  *)
(* the response is dropped.                                                *)
ConsumeFinish(c) ==
  /\ Take(c, "completed")
  /\ monitored' = monitored \cup {Head(channel[turnChild[c]]).turn}
  /\ Leave(c, IF OverBudget(monitored') THEN "overBudget" ELSE "response")

(* What a call does next once it was made; the consumer may never range    *)
(* over its stream.                                                        *)
Proceed(c) ==
  \/ EnsureReuse(c) \/ EnsureStop(c) \/ EnsureStart(c) \/ EnsureFails(c)
  \/ Capture(c) \/ StartThread(c) \/ StartTurn(c)
  \/ ConsumeCancelled(c) \/ ConsumeClosed(c)
  \/ ConsumeDelta(c) \/ ConsumeGarbled(c) \/ ConsumeFinish(c)

-----------------------------------------------------------------------------
(* Others. *)

(* RestartProcess: the object goes too.                                    *)
RestartProcess ==
  /\ "restart" \in Faults /\ proc # None
  /\ IF Running(proc) THEN StopChild(child[proc]) ELSE UNCHANGED outVars
  /\ proc' = None
  /\ UNCHANGED <<cachedKey, config, child, revived, callVars, monitored, rest>>

(* Close: the object stays.                                                *)
Close ==
  /\ "close" \in Faults /\ Running(proc)
  /\ StopChild(child[proc])
  /\ UNCHANGED <<procVars, callVars, monitored, rest>>

(* The context of a call ends, while it runs or later (defer cancel()).    *)
(* The child that was started with it is killed: exec.CommandContext.      *)
CtxEnds(c) ==
  /\ c \notin ctxDone
  /\ \/ pc[c] \notin {"idle", "done"} /\ "cancel" \in Faults
     \/ pc[c] = "done" /\ c \in live /\ "expire" \in Faults
  /\ ctxDone' = ctxDone \cup {c}
  /\ live' = live \ {c}
  /\ ended' = ended \cup ({c} \cap live)
  /\ UNCHANGED <<procVars, channel, callVars, monitored, emitted, lost>>

(* The child dies; readPump closes the channel at the end of its output.   *)
Crash(k) ==
  /\ "crash" \in Faults /\ k \in live
  /\ live' = live \ {k}
  /\ ended' = ended \cup {k}
  /\ UNCHANGED <<channel, procVars, callVars, monitored, rest>>

(* A slip: there is always room in the channel.                            *)
Emit_Unbounded(t) ==
  LET k == turnChild[t] IN
  /\ k \in live /\ emitted[t] < 2
  /\ emitted' = [emitted EXCEPT ![t] = @ + 1]
  /\ channel' = [channel EXCEPT ![k] = Append(@,
       [turn |-> t, kind |-> IF emitted[t] = 0 THEN "delta" ELSE "completed"])]
  /\ UNCHANGED <<live, ended, procVars, callVars, monitored, ctxDone, lost>>

(* The app-server works on a turn, whether or not anybody still wants it,  *)
(* and the JSON-RPC client drops what does not fit in the channel.         *)
Emit(t) ==
  LET k == turnChild[t] IN
  /\ k \in live /\ emitted[t] < 2
  /\ emitted' = [emitted EXCEPT ![t] = @ + 1]
  /\ \E n \in Notif :
       /\ n.turn = t
       /\ \/ n.kind = (IF emitted[t] = 0 THEN "delta" ELSE "completed")
          \/ n.kind = "garbled" /\ "garbled" \in Faults
       /\ channel' = IF Len(channel[k]) < Cap THEN [channel EXCEPT ![k] = Append(@, n)] ELSE channel
       /\ lost' = IF emitted[t] = 1 /\ (n.kind = "garbled" \/ Len(channel[k]) >= Cap)
                    THEN lost \cup {t} ELSE lost
  /\ UNCHANGED <<live, ended, procVars, callVars, monitored, ctxDone>>

Panicked == \E c \in Calls : result[c] = "panic"

Next ==
  /\ ~Panicked
  /\ \/ \E c \in Calls : Begin(c) \/ Proceed(c) \/ Range(c) \/ CtxEnds(c) \/ Emit(c) \/ Crash(c)
     \/ RestartProcess \/ Close

Spec == Init /\ [][Next]_vars

(* Goroutines run, RPCs return, the child works on the turns it has, and a *)
(* stream is ranged over.                                                  *)
Fairness ==
  /\ \A c \in Calls : WF_vars(~Panicked /\ Proceed(c)) /\ WF_vars(~Panicked /\ Emit(c))
  /\ "abandon" \in Faults \/ \A c \in Calls : WF_vars(~Panicked /\ Range(c))

FairSpec == Spec /\ Fairness

-----------------------------------------------------------------------------
(* Properties. *)

(* Every variable keeps its type and no channel exceeds its capacity.      *)
TypeOK ==
  /\ callMu \in Calls \cup {None} /\ proc \in Calls \cup {None} /\ cachedKey \in Keys \cup {NoKey}
  /\ config \in [Calls -> Keys \cup {NoKey}] /\ child \in [Calls -> Calls \cup {None}]
  /\ live \subseteq Calls /\ ended \subseteq Calls
  /\ channel \in [Calls -> Seq(Notif)] /\ \A k \in Calls : Len(channel[k]) <= Cap
  /\ pc \in [Calls -> PC]
  /\ key \in [Calls -> Keys \cup {NoKey}]
  /\ object \in [Calls -> Calls \cup {None}] /\ turnChild \in [Calls -> Calls \cup {None}]
  /\ emitted \in [Calls -> 0..2] /\ seen \in [Calls -> SUBSET Calls]
  /\ result \in [Calls -> Results]
  /\ ctxDone \subseteq Calls /\ monitored \subseteq Calls
  /\ lost \subseteq Calls /\ revived \subseteq Calls

InCall == {c \in Calls : pc[c] \notin {"idle", "done"}}

(* One call at a time is between its ensureProcess and its end, so that a  *)
(* call never reads the notifications of a turn somebody still waits for:  *)
(* what it reads of another turn is the rest of one that was given up, in  *)
(* the same child.                                                         *)
SingleFlight ==
  /\ \A c \in InCall : callMu = c
  /\ \A c \in Calls : \A d \in seen[c] \ {c} :
       pc[d] = "done" /\ turnChild[d] = turnChild[c]

(* A child outlives its usefulness never: the only one that may run is the *)
(* last one of the process in m.proc (a config change, a restart, a failed *)
(* start and a revival all leave no orphan), and the process a call has    *)
(* taken stays m.proc until the call ends, unless RestartProcess removed   *)
(* it: no other call replaces it.                                          *)
NoOrphan == \A k \in live : proc # None /\ child[proc] = k

ProcessIsStable ==
  /\ NoOrphan
  /\ \A c \in InCall : pc[c] \in {"thread", "turn", "streamed", "consume"} =>
       proc \in {object[c], None}

(* A turn runs with the config its call asked for, unless the process was  *)
(* started again after its child had gone.                                 *)
ConfigUnlessRevived ==
  \A c \in Calls : turnChild[c] # None /\ object[c] \notin revived =>
    config[object[c]] = key[c]

(* A call ends, and m.callMu with it, unless the completion of its turn    *)
(* was lost on the way or the process was stopped under it without its     *)
(* channel being closed.                                                   *)
CallEnds ==
  \A c \in Calls :
    pc[c] = "ensure" ~> \/ pc[c] = "done"
                        \/ Panicked
                        \/ c \in lost
                        \/ pc[c] = "consume" /\ turnChild[c] \notin live \cup ended

(* llm.go:56 "callMu serializes calls that consume the shared app-server   *)
(* notification stream": what a call consumes is its own turn.             *)
OwnTurn == \A c \in Calls : seen[c] \subseteq {c}
=============================================================================
