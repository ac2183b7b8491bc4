--------------------------- MODULE ClaudeCodeModel ---------------------------
(***************************************************************************)
(* provider/anthropic-claudecode: the LanguageModel of llm.go, which shares *)
(* one claude CLI process between calls that no lock orders, and the        *)
(* CLIProcess of process/process.go under it.  A call runs once, and what   *)
(* it creates is named after it: the process object, the child that Start   *)
(* launched with its context (and the session of that child), and the turn  *)
(* the child makes of its messages.                                         *)
(*                                                                         *)
(* RestartProcess and Close hold m.mu from end to end, so each is one       *)
(* action; ensureProcess does too, and keeps it between the stop of one     *)
(* process and the start of the next.  A line of output is [turn, kind].    *)
(***************************************************************************)
EXTENDS Integers, Sequences, FiniteSets

CONSTANTS
  Calls,     (* the calls of Generate and Stream                           *)
  Streams,   (* the calls of Stream among them                             *)
  None,      (* no call: nil                                               *)
  Keys,      (* configurations: system prompt and temperature              *)
  NoKey,     (* the zero ConfigKey                                         *)
  Scenarios  (* bounds of a behaviour: the calls in the order in which     *)
             (* they are made, how many of them at a time, with which      *)
             (* configurations, and which of AllFaults may happen          *)

(* cancel: the context of a call ends while it runs; expire: after it      *)
(* returned; break: the consumer of a stream stops early; crash: the child *)
(* dies; restart, close: RestartProcess and Close are called; garbled: a   *)
(* line that ParseEvent refuses; long: a line over the limit of the        *)
(* scanner; failed: a result with is_error; refuse: Start fails, or a      *)
(* message cannot be encoded.                                              *)
AllFaults == {"cancel", "expire", "break", "crash", "restart", "close", "garbled", "long",
              "failed", "refuse"}

ASSUME CallsAssumption  == Calls # {} /\ None \notin Calls /\ Streams \subseteq Calls
ASSUME KeysAssumption   == NoKey \notin Keys
ASSUME ScenariosAssumption ==
  Scenarios \subseteq
    [calls : Seq(Calls), width : Nat \ {0}, keys : SUBSET Keys, faults : SUBSET AllFaults]

VARIABLES
  scenario,    (* the bounds of this behaviour                             *)
  (* The model.                                                            *)
  mu,          (* the call that holds m.mu between two steps               *)
  proc,        (* m.proc                                                   *)
  cachedKey,   (* m.cachedKey                                              *)
  saved,       (* m.resumeSessionID                                        *)
  (* The process objects.                                                  *)
  config,      (* the configuration an object was made with                *)
  resume,      (* the session its arguments resume                         *)
  session,     (* p.sessionID                                              *)
  running,     (* the objects with p.running                               *)
  child,       (* p.cmd, p.stdin, p.stdout, p.reaped: those of this child  *)
  (* The children and their reaper goroutines.                             *)
  object,      (* the object that started a child                          *)
  live,        (* the children that run                                    *)
  inbox,       (* the turns asked of a child that it has not finished      *)
  pipe,        (* the lines in its stdout                                  *)
  greeted,     (* the children that have sent system/init                  *)
  reaper,      (* where the reaper of a child is                           *)
  reapedChans, (* the children whose reaped channel is closed              *)
  (* The calls.                                                            *)
  pc,          (* where each call is                                       *)
  key,         (* the configuration it asks for                            *)
  held,        (* the object it took from m.proc                           *)
  sentTo,      (* the child that has its messages                          *)
  source,      (* the child whose stdout it scans, or whose stderr it reads *)
  buf,         (* the lines its scanner has read ahead                     *)
  answer,      (* the turn whose result line it took for its own           *)
  result,      (* how it ended                                             *)
  ctxDone,     (* the calls whose context has ended                        *)
  (* What happened, for the properties only.                               *)
  told,        (* the turns of which the child has sent the first line     *)
  exposed,  (* the calls that ran while another one did                 *)
  stale,       (* the children with a turn that its call gave up           *)
  taken,       (* the turns with a line that a call other than theirs took *)
  revived,     (* the objects started again                                *)
  pulled,      (* the calls under which RestartProcess took the process    *)
  due,         (* the session the last RestartProcess found                *)
  late,        (* a Start ran between a reaper's update and its close      *)
  panicked     (* nil dereference, or close of a closed channel            *)

modelVars == <<mu, proc, cachedKey, saved>>
procVars  == <<config, resume, session, running, child>>
childVars == <<object, live, reaper, reapedChans>>
pipeVars  == <<inbox, pipe, greeted, told>>
callVars  == <<pc, key, held, sentTo, source, buf, answer, result>>
ghostVars == <<exposed, stale, taken>>
startVars == <<revived, pulled, due, late>>
vars == <<scenario, modelVars, procVars, childVars, pipeVars, callVars, ctxDone, ghostVars, startVars,
          panicked>>

PC == {"idle", "ensure", "capture", "send", "open", "read", "drain", "stderr", "done"}
Results == {"none", "response", "error", "stopped", "silent", "panic"}
Line == [turn : Calls, kind : {"init", "delta", "result", "failed", "garbled", "long"}]
OrNone(S) == S \cup {None}

Init ==
  /\ scenario \in Scenarios
  /\ mu = None /\ proc = None /\ cachedKey = NoKey /\ saved = None
  /\ config = [o \in Calls |-> NoKey] /\ resume = [o \in Calls |-> None]
  /\ session = [o \in Calls |-> None] /\ running = {} /\ child = [o \in Calls |-> None]
  /\ object = [k \in Calls |-> None] /\ live = {} /\ inbox = [k \in Calls |-> <<>>]
  /\ pipe = [k \in Calls |-> <<>>] /\ greeted = {}
  /\ reaper = [k \in Calls |-> "none"] /\ reapedChans = {}
  /\ pc = [c \in Calls |-> "idle"] /\ key = [c \in Calls |-> NoKey]
  /\ held = [c \in Calls |-> None] /\ sentTo = [c \in Calls |-> None]
  /\ source = [c \in Calls |-> None] /\ buf = [c \in Calls |-> <<>>]
  /\ answer = [c \in Calls |-> None] /\ result = [c \in Calls |-> "none"] /\ ctxDone = {}
  /\ told = {} /\ exposed = {} /\ stale = {} /\ taken = {} /\ revived = {} /\ pulled = {} /\ due = None
  /\ late = FALSE /\ panicked = FALSE

faults == scenario.faults

Begun == Cardinality({c \in Calls : pc[c] # "idle"})
InCall == {c \in Calls : pc[c] \notin {"idle", "done"}}

-----------------------------------------------------------------------------
(* CLIProcess. *)

(* A slip: Stop signals the child and returns.                             *)
Stop_NoWait(o) ==
  /\ running' = running \ {o}
  /\ UNCHANGED <<live, reaper, reapedChans>>

(* Stop: clear running, close stdin, interrupt, and wait for the reaped    *)
(* channel of the last child, whether or not it still runs.  When that     *)
(* channel is closed already nobody waits for the child.                   *)
Stop(o) ==
  LET k == child[o] IN
  /\ running' = running \ {o}
  /\ IF k = None \/ k \in reapedChans
       THEN UNCHANGED <<live, reaper, reapedChans>>
       ELSE /\ live' = live \ {k}
            /\ reaper' = [reaper EXCEPT ![k] = "done"]
            /\ reapedChans' = reapedChans \cup {k}

(* Start: a new command, pipes and reaped channel, in the context of call  *)
(* c.  The reaper of the last child may be between its update of the state *)
(* and the close of p.reaped.                                              *)
Start(c, o) ==
  /\ child' = [child EXCEPT ![o] = c]
  /\ object' = [object EXCEPT ![c] = o]
  /\ live' = live \cup {c}
  /\ reaper' = [reaper EXCEPT ![c] = "waiting"]
  /\ late' = (late \/ \E k \in Calls : object[k] = o /\ reaper[k] = "closing")

(* The reaper of child k: cmd.Wait() returns, which closes stdout with     *)
(* whatever is in it; under p.mu the process stops running, ...            *)
ReaperUpdate(k) ==
  /\ reaper[k] = "waiting" /\ k \notin live
  /\ running' = running \ {object[k]}
  /\ reaper' = [reaper EXCEPT ![k] = "closing"]
  /\ UNCHANGED <<modelVars, config, resume, session, child, object, live, reapedChans, pipeVars,
                 callVars, ctxDone, ghostVars, startVars, panicked>>

(* ... and without it the channel that p.reaped now is gets closed.        *)
ReaperClose(k) ==
  LET ch == child[object[k]] IN
  /\ reaper[k] = "closing"
  /\ reaper' = [reaper EXCEPT ![k] = "done"]
  /\ reapedChans' = reapedChans \cup {ch}
  /\ panicked' = (ch \in reapedChans)
  /\ UNCHANGED <<modelVars, procVars, object, live, pipeVars, callVars, ctxDone, ghostVars,
                 startVars>>

(* stdout is closed under a reader.                                        *)
StdoutClosed(k) == reaper[k] \in {"closing", "done"}

-----------------------------------------------------------------------------
(* One call. *)

Goto(c, l) == pc' = [pc EXCEPT ![c] = l]

(* The call ends; the lines its scanner has read ahead are gone, and its   *)
(* turn, if nobody took the result, stays with the child.                  *)
Leave(c, r) ==
  /\ Goto(c, "done")
  /\ result' = [result EXCEPT ![c] = r]

Turns(s) == {s[i].turn : i \in DOMAIN s}

Begin(c) ==
  /\ pc[c] = "idle" /\ Begun < Len(scenario.calls) /\ c = scenario.calls[Begun + 1]
  /\ Cardinality(InCall) < scenario.width
  /\ \E k \in scenario.keys : key' = [key EXCEPT ![c] = k]
  /\ Goto(c, "ensure")
  /\ exposed' = IF InCall = {} THEN exposed ELSE exposed \cup InCall \cup {c}
  /\ UNCHANGED <<held, sentTo, source, buf, answer, result, modelVars, procVars, childVars,
                 pipeVars, ctxDone, stale, taken, startVars, panicked>>

(* ensureProcess: the running process was started with this key, ...       *)
EnsureReuse(c) ==
  /\ pc[c] = "ensure" /\ mu = None /\ proc \in running /\ cachedKey = key[c]
  /\ Goto(c, "capture")
  /\ UNCHANGED <<key, held, sentTo, source, buf, answer, result, modelVars, procVars, childVars,
                 pipeVars, ctxDone, ghostVars, startVars, panicked>>

(* ... or with another one: it is stopped and given up, ...                *)
EnsureStop(c) ==
  /\ pc[c] = "ensure" /\ mu = None /\ proc \in running /\ cachedKey # key[c]
  /\ Stop(proc)
  /\ mu' = c /\ proc' = None /\ due' = None
  /\ UNCHANGED <<cachedKey, saved, config, resume, session, child, object, pipeVars, callVars,
                 ctxDone, ghostVars, revived, pulled, late, panicked>>

(* A slip: the saved session is not spent.                                 *)
MakeProcess_Unspent(c) ==
  IF proc = None
    THEN /\ proc' = c
         /\ config' = [config EXCEPT ![c] = key[c]]
         /\ resume' = [resume EXCEPT ![c] = saved]
         /\ UNCHANGED <<revived, saved>>
    ELSE /\ revived' = revived \cup {proc}
         /\ UNCHANGED <<proc, config, resume, saved>>

(* ... or nothing runs: a process is made, and takes the saved session     *)
(* over, unless there is one, which keeps what it was made with.           *)
MakeProcess(c) ==
  IF proc = None
    THEN /\ proc' = c
         /\ config' = [config EXCEPT ![c] = key[c]]
         /\ resume' = [resume EXCEPT ![c] = saved]
         /\ saved' = None
         /\ UNCHANGED revived
    ELSE /\ revived' = revived \cup {proc}
         /\ UNCHANGED <<proc, config, resume, saved>>

(* A slip: the key of the new process is not remembered.                   *)
EnsureStart_KeyKept(c) ==
  /\ pc[c] = "ensure" /\ mu \in {None, c} /\ proc \notin running /\ c \notin ctxDone
  /\ MakeProcess(c)
  /\ Start(c, proc')
  /\ running' = running \cup {proc'}
  /\ cachedKey' = IF cachedKey = NoKey THEN key[c] ELSE cachedKey
  /\ mu' = None
  /\ Goto(c, "capture")
  /\ UNCHANGED <<session, reapedChans, pipeVars, key, held, sentTo, source, buf, answer, result,
                 ctxDone, ghostVars, pulled, due, panicked>>

(* Start succeeds, at once or in a later attempt of the retry policy.      *)
EnsureStart(c) ==
  /\ pc[c] = "ensure" /\ mu \in {None, c} /\ proc \notin running /\ c \notin ctxDone
  /\ MakeProcess(c)
  /\ Start(c, proc')
  /\ running' = running \cup {proc'}
  /\ cachedKey' = key[c]
  /\ mu' = None
  /\ Goto(c, "capture")
  /\ UNCHANGED <<session, reapedChans, pipeVars, key, held, sentTo, source, buf, answer, result,
                 ctxDone, ghostVars, pulled, due, panicked>>

(* A slip: p.running is set before the command has started.                *)
EnsureFails_Running(c) ==
  /\ pc[c] = "ensure" /\ mu \in {None, c} /\ proc \notin running
  /\ c \in ctxDone \/ "refuse" \in faults
  /\ MakeProcess(c)
  /\ running' = running \cup {proc'}
  /\ mu' = None
  /\ Leave(c, "error")
  /\ UNCHANGED <<cachedKey, session, child, childVars, pipeVars, key, held, sentTo,
                 source, buf, answer, ctxDone, ghostVars, pulled, due, late, panicked>>

(* Every attempt failed.  The process that was made stays, not started.    *)
EnsureFails(c) ==
  /\ pc[c] = "ensure" /\ mu \in {None, c} /\ proc \notin running
  /\ c \in ctxDone \/ "refuse" \in faults
  /\ MakeProcess(c)
  /\ mu' = None
  /\ Leave(c, "error")
  /\ UNCHANGED <<cachedKey, session, running, child, childVars, pipeVars, key, held, sentTo,
                 source, buf, answer, ctxDone, ghostVars, pulled, due, late, panicked>>

(* A slip: m.proc is read without the lock.                                *)
Capture_Unlocked(c) ==
  /\ pc[c] = "capture"
  /\ IF proc = None
       THEN Leave(c, "panic") /\ panicked' = TRUE /\ UNCHANGED held
       ELSE held' = [held EXCEPT ![c] = proc] /\ Goto(c, "send") /\ UNCHANGED <<result, panicked>>
  /\ UNCHANGED <<key, sentTo, source, buf, answer, modelVars, procVars, childVars, pipeVars,
                 ctxDone, ghostVars, startVars>>

(* proc := m.proc, in a critical section of its own: another call may have *)
(* replaced it, or RestartProcess removed it.                              *)
Capture(c) ==
  /\ pc[c] = "capture" /\ mu = None
  /\ IF proc = None
       THEN Leave(c, "panic") /\ panicked' = TRUE /\ UNCHANGED held
       ELSE held' = [held EXCEPT ![c] = proc] /\ Goto(c, "send") /\ UNCHANGED <<result, panicked>>
  /\ UNCHANGED <<key, sentTo, source, buf, answer, modelVars, procVars, childVars, pipeVars,
                 ctxDone, ghostVars, startVars>>

(* A slip: a message is written twice.                                     *)
Send_Twice(c) ==
  LET k == child[held[c]] IN
  /\ pc[c] = "send" /\ k \in live
  /\ inbox' = [inbox EXCEPT ![k] = @ \o <<c, c>>]
  /\ sentTo' = [sentTo EXCEPT ![c] = k]
  /\ exposed' = IF k \in stale THEN exposed \cup {c} ELSE exposed
  /\ Goto(c, "open")
  /\ UNCHANGED <<result, stale, key, held, source, buf, answer, modelVars, procVars, childVars,
                 pipe, greeted, told, ctxDone, taken, startVars, panicked>>

(* The messages are written; the call goes on or, when a later one cannot  *)
(* be encoded, leaves the child with the first ones.                       *)
Send(c) ==
  LET k == child[held[c]] IN
  /\ pc[c] = "send" /\ k \in live
  /\ inbox' = [inbox EXCEPT ![k] = Append(@, c)]
  /\ sentTo' = [sentTo EXCEPT ![c] = k]
  /\ exposed' = IF k \in stale THEN exposed \cup {c} ELSE exposed
  /\ \/ Goto(c, "open") /\ UNCHANGED <<result, stale>>
     \/ "refuse" \in faults /\ Leave(c, "error") /\ stale' = stale \cup {k}
  /\ UNCHANGED <<key, held, source, buf, answer, modelVars, procVars, childVars, pipe, greeted,
                 told, ctxDone, taken, startVars, panicked>>

(* The pipe is broken, or the first message cannot be encoded.             *)
SendFails(c) ==
  /\ pc[c] = "send"
  /\ \/ child[held[c]] \notin live /\ Goto(c, "drain") /\ UNCHANGED result
     \/ "refuse" \in faults /\ Leave(c, "error")
  /\ UNCHANGED <<key, held, sentTo, source, buf, answer, modelVars, procVars, childVars, pipeVars,
                 ctxDone, ghostVars, startVars, panicked>>

(* A scanner of its own on the stdout of the moment: at once in Generate,  *)
(* when the stream is ranged over in Stream.                               *)
Open(c) ==
  /\ pc[c] = "open"
  /\ source' = [source EXCEPT ![c] = child[held[c]]]
  /\ Goto(c, "read")
  /\ UNCHANGED <<key, held, sentTo, buf, answer, result, modelVars, procVars, childVars, pipeVars,
                 ctxDone, ghostVars, startVars, panicked>>

(* The scanner reads what the pipe has, up to the size of its buffer.      *)
Fill(c) ==
  LET k == source[c] IN
  /\ pc[c] = "read" /\ buf[c] = <<>> /\ k # None /\ ~StdoutClosed(k)
  /\ \E n \in 1..Len(pipe[k]) :
       /\ buf' = [buf EXCEPT ![c] = SubSeq(pipe[k], 1, n)]
       /\ pipe' = [pipe EXCEPT ![k] = SubSeq(@, n + 1, Len(@))]
       /\ taken' = taken \cup (Turns(SubSeq(pipe[k], 1, n)) \ {c})
  /\ UNCHANGED <<pc, key, held, sentTo, source, answer, result, inbox, greeted, told, modelVars,
                 procVars, childVars, ctxDone, exposed, stale, startVars, panicked>>

(* A slip: the end of the output is not taken for the end of the call.     *)
ReadEnds_Ignored(c) == FALSE /\ UNCHANGED vars

(* Scan returns FALSE: the output ended, which a stream does not tell its  *)
(* consumer, or reading failed.                                            *)
ReadEnds(c) ==
  LET k     == source[c]
      atEOF == k # None /\ k \notin live /\ ~StdoutClosed(k) /\ pipe[k] = <<>>
  IN
  /\ pc[c] = "read" /\ buf[c] = <<>>
  /\ \/ atEOF /\ c \in Streams /\ Leave(c, "silent")
     \/ atEOF /\ c \notin Streams /\ Goto(c, "drain") /\ UNCHANGED result
     \/ (k = None \/ StdoutClosed(k)) /\ Goto(c, "drain") /\ UNCHANGED result
  /\ UNCHANGED <<key, held, sentTo, source, buf, answer, modelVars, procVars, childVars, pipeVars,
                 ctxDone, ghostVars, startVars, panicked>>

(* drainStderr, before the error is told: the stderr of the moment, which  *)
(* is that of another child when the object was started again, is read to  *)
(* its end at once when the child has gone; ...                            *)
DrainStderr(c) ==
  LET k == child[held[c]] IN
  /\ pc[c] = "drain"
  /\ \/ k \notin live /\ Leave(c, "error") /\ UNCHANGED source
     \/ k \in live /\ source' = [source EXCEPT ![c] = k] /\ Goto(c, "stderr") /\ UNCHANGED result
  /\ UNCHANGED <<key, held, sentTo, buf, answer, modelVars, procVars, childVars, pipeVars, ctxDone,
                 ghostVars, startVars, panicked>>

StderrRead(c) ==
  /\ pc[c] = "stderr"
  /\ Leave(c, "error")
  /\ UNCHANGED <<key, held, sentTo, source, buf, answer, modelVars, procVars, childVars, pipeVars,
                 ctxDone, ghostVars, startVars, panicked>>

(* ... of a child that runs, until it has gone, or has written 4096 bytes  *)
(* to its stderr, which it need not do.                                    *)
StderrEnds(c) == source[c] \notin live /\ StderrRead(c)
StderrFull(c) == source[c] \in live /\ StderrRead(c)

(* The next line of the scanner.                                           *)
Scan(c, kinds) ==
  /\ pc[c] = "read" /\ buf[c] # <<>> /\ Head(buf[c]).kind \in kinds
  /\ UNCHANGED <<key, held, sentTo, source, modelVars, config, resume, running, child, childVars,
                 pipeVars, ctxDone, exposed, taken, startVars, panicked>>

(* The call gives the rest of its turn up.                                 *)
Abandon(c) ==
  /\ buf' = [buf EXCEPT ![c] = <<>>]
  /\ stale' = stale \cup {source[c]}

GiveUp(c, r) == Leave(c, r) /\ Abandon(c)

GoOn(c) == buf' = [buf EXCEPT ![c] = Tail(@)] /\ UNCHANGED <<pc, result, stale>>

SessionOf(k) == IF resume[object[k]] = None THEN k ELSE resume[object[k]]

(* system/init: the session of the child, told to the object of the call.  *)
ScanInit(c) ==
  /\ Scan(c, {"init"})
  /\ session' = [session EXCEPT ![held[c]] = SessionOf(source[c])]
  /\ GoOn(c)
  /\ UNCHANGED answer

(* Generate skips the delta, the consumer of a stream may stop after it.   *)
ScanDelta(c) ==
  /\ Scan(c, {"delta"})
  /\ \/ GoOn(c)
     \/ c \in Streams /\ "break" \in faults /\ GiveUp(c, "stopped")
  /\ UNCHANGED <<session, answer>>

(* A line that is not an event ends Generate; a stream tells and goes on.  *)
ScanGarbled(c) ==
  /\ Scan(c, {"garbled"})
  /\ \/ c \notin Streams /\ GiveUp(c, "error")
     \/ c \in Streams /\ GoOn(c)
     \/ c \in Streams /\ "break" \in faults /\ GiveUp(c, "stopped")
  /\ UNCHANGED <<session, answer>>

(* A line over the limit is an error of the scanner, while the child runs. *)
ScanLong(c) ==
  /\ Scan(c, {"long"})
  /\ Goto(c, "drain") /\ Abandon(c)
  /\ UNCHANGED <<session, answer, result>>

(* The result line, whichever turn it belongs to, ends the call.           *)
ScanResult(c) ==
  /\ Scan(c, {"result", "failed"})
  /\ LET l == Head(buf[c]) IN
     /\ answer' = [answer EXCEPT ![c] = l.turn]
     /\ Leave(c, IF l.kind = "result" THEN "response" ELSE "error")
     /\ stale' = IF l.turn = c THEN stale ELSE stale \cup {source[c]}
  /\ buf' = [buf EXCEPT ![c] = <<>>]
  /\ UNCHANGED session

Proceed(c) ==
  \/ EnsureReuse(c) \/ EnsureStop(c) \/ EnsureStart(c) \/ EnsureFails(c)
  \/ Capture(c) \/ Send(c) \/ SendFails(c)
  \/ Open(c) \/ Fill(c) \/ ReadEnds(c) \/ DrainStderr(c) \/ StderrEnds(c)
  \/ ScanInit(c) \/ ScanDelta(c) \/ ScanGarbled(c) \/ ScanLong(c) \/ ScanResult(c)

-----------------------------------------------------------------------------
(* Others. *)

(* RestartProcess: the session is kept for the next start, empty or not.   *)
RestartProcess ==
  /\ "restart" \in faults /\ mu = None /\ proc # None
  /\ saved' = session[proc] /\ due' = session[proc]
  /\ pulled' = pulled \cup {c \in Calls : pc[c] = "capture"}
  /\ Stop(proc)
  /\ proc' = None
  /\ UNCHANGED <<mu, cachedKey, config, resume, session, child, object, pipeVars, callVars,
                 ctxDone, ghostVars, revived, late, panicked>>

(* Close: the object stays.                                                *)
Close ==
  /\ "close" \in faults /\ mu = None /\ proc \in running
  /\ Stop(proc)
  /\ UNCHANGED <<modelVars, config, resume, session, child, object, pipeVars, callVars, ctxDone,
                 ghostVars, startVars, panicked>>

(* The context of a call ends, and kills the child that was started in it. *)
CtxEnds(c) ==
  /\ c \notin ctxDone
  /\ \/ pc[c] \notin {"idle", "done"} /\ "cancel" \in faults
     \/ pc[c] = "done" /\ c \in live /\ "expire" \in faults
  /\ ctxDone' = ctxDone \cup {c}
  /\ live' = live \ {c}
  /\ UNCHANGED <<modelVars, procVars, object, reaper, reapedChans, pipeVars, callVars, ghostVars,
                 startVars, panicked>>

(* The child dies, or one that nobody waited for exits.                    *)
Exit(k) ==
  /\ k \in live
  /\ "crash" \in faults \/ k \in reapedChans
  /\ live' = live \ {k}
  /\ UNCHANGED <<modelVars, procVars, object, reaper, reapedChans, pipeVars, callVars, ctxDone,
                 ghostVars, startVars, panicked>>

(* The child answers the turns asked of it one after the other, whether or *)
(* not anybody still waits: system/init once, a delta, the result.         *)
Emit(k) ==
  LET c == Head(inbox[k]) IN
  /\ k \in live /\ inbox[k] # <<>>
  /\ \E l \in Line :
       /\ l.turn = c
       /\ CASE k \notin greeted -> l.kind = "init" /\ greeted' = greeted \cup {k}
                                   /\ UNCHANGED <<inbox, told>>
            [] k \in greeted /\ c \notin told ->
                 /\ l.kind = "delta" \/ l.kind \in {"garbled", "long"} \cap faults
                 /\ told' = told \cup {c} /\ UNCHANGED <<inbox, greeted>>
            [] OTHER ->
                 /\ l.kind = "result" \/ l.kind \in {"failed"} \cap faults
                 /\ inbox' = [inbox EXCEPT ![k] = Tail(@)] /\ UNCHANGED <<greeted, told>>
       /\ pipe' = [pipe EXCEPT ![k] = Append(@, l)]
  /\ UNCHANGED <<modelVars, procVars, childVars, callVars, ctxDone, ghostVars, startVars, panicked>>

Next ==
  /\ ~panicked /\ UNCHANGED scenario
  /\ \/ \E c \in Calls : Begin(c) \/ Proceed(c) \/ StderrFull(c) \/ CtxEnds(c)
     \/ \E k \in Calls : ReaperUpdate(k) \/ ReaperClose(k) \/ Exit(k) \/ Emit(k)
     \/ RestartProcess \/ Close

Spec == Init /\ [][Next]_vars

(* Goroutines run and the child works on the turns it has.                 *)
Go(A) == ~panicked /\ UNCHANGED scenario /\ A

Fairness ==
  /\ \A c \in Calls : WF_vars(Go(Proceed(c)))
  /\ \A k \in Calls : WF_vars(Go(Emit(k) \/ ReaperUpdate(k) \/ ReaperClose(k)))

FairSpec == Spec /\ Fairness

-----------------------------------------------------------------------------
(* Properties. *)

(* Every variable keeps its type; what runs has been started.              *)
TypeOK ==
  /\ scenario \in Scenarios
  /\ mu \in OrNone(Calls) /\ proc \in OrNone(Calls) /\ cachedKey \in Keys \cup {NoKey}
  /\ saved \in OrNone(Calls) /\ due \in OrNone(Calls)
  /\ config \in [Calls -> Keys \cup {NoKey}] /\ key \in [Calls -> Keys \cup {NoKey}]
  /\ resume \in [Calls -> OrNone(Calls)] /\ session \in [Calls -> OrNone(Calls)]
  /\ child \in [Calls -> OrNone(Calls)] /\ object \in [Calls -> OrNone(Calls)]
  /\ held \in [Calls -> OrNone(Calls)] /\ sentTo \in [Calls -> OrNone(Calls)]
  /\ source \in [Calls -> OrNone(Calls)] /\ answer \in [Calls -> OrNone(Calls)]
  /\ running \subseteq Calls /\ live \subseteq Calls /\ greeted \subseteq Calls
  /\ reapedChans \subseteq Calls /\ ctxDone \subseteq Calls /\ told \subseteq Calls
  /\ exposed \subseteq Calls /\ stale \subseteq Calls /\ taken \subseteq Calls
  /\ revived \subseteq Calls /\ pulled \subseteq Calls
  /\ \A o \in running : child[o] # None
  /\ inbox \in [Calls -> Seq(Calls)]
  /\ pipe \in [Calls -> Seq(Line)] /\ buf \in [Calls -> Seq(Line)]
  /\ reaper \in [Calls -> {"none", "waiting", "closing", "done"}]
  /\ pc \in [Calls -> PC] /\ result \in [Calls -> Results]
  /\ late \in BOOLEAN /\ panicked \in BOOLEAN

(* As long as no Start slips between a reaper's update and its close, the  *)
(* only child that may run is the last one of the process in m.proc: a     *)
(* config change, a restart, a failed start and a revival leave no orphan. *)
NoOrphan == ~late => \A k \in live : proc # None /\ child[proc] = k

(* A call that nobody overlapped, on a child where nobody left part of a   *)
(* turn, is answered with the result of its own turn (early stops, errors  *)
(* and crashes elsewhere do not reach it), and served with the             *)
(* configuration it asked for, unless its process was started again after  *)
(* its child had gone.                                                     *)
OwnAnswer ==
  \A c \in Calls \ exposed :
    /\ answer[c] \in {None, c}
    /\ sentTo[c] # None /\ held[c] \notin revived => config[held[c]] = key[c]

(* The session that RestartProcess found is resumed by the next process,   *)
(* however many calls fail to start it, and by no later one.               *)
SessionSurvives ==
  /\ due # None => IF proc = None THEN saved = due ELSE resume[proc] = due
  /\ saved # None => proc = None /\ saved = due

(* The program panics for two reasons only: RestartProcess took the        *)
(* process between ensureProcess and the read of m.proc, or a Start came   *)
(* between a reaper's update and its close.                                *)
PanicIsExplained == panicked => late \/ \E c \in pulled : result[c] = "panic"

(* A call ends, when its stream is ranged over, unless lines of its turn   *)
(* were taken by another call, it listens to another child than the one    *)
(* that has its messages, or it waits for what a child that still runs has *)
(* to say on its stderr (llm.go:241, though llm.go:234 speaks of what is   *)
(* "available"): the child that sent it a line over the limit, or the one  *)
(* with which its object was started again.                                *)
CallEnds ==
  \A c \in Calls :
    pc[c] = "ensure" ~> \/ pc[c] = "done"
                        \/ panicked
                        \/ c \in taken
                        \/ pc[c] = "read" /\ source[c] # sentTo[c]
                        \/ /\ pc[c] = "stderr" /\ source[c] \in live
                           /\ source[c] \in stale \/ held[c] \in revived

-----------------------------------------------------------------------------
(* A claim that the code does not keep. *)

(* process.go:30 says of the reaped channel "closed by the reaper          *)
(* goroutine after cmd.Wait() returns": no child with a closed channel     *)
(* runs.                                                                   *)
ReapedHasExited == reapedChans \cap live = {}
=============================================================================
