------------------------------ MODULE RemoteCalls ------------------------------
(***************************************************************************)
(* What jsonrpc.Client promises the goroutines that use Call, without      *)
(* channels, pipes, pump or mutex: every call has an id of its own; it     *)
(* ends once, with the reply the server made to that very id, or with an   *)
(* error that says the truth: the context had ended, the request could not *)
(* be written any more or be encoded at all, the connection was over, the  *)
(* client was closed.                                                      *)
(***************************************************************************)
EXTENDS Integers

CONSTANTS
  Callers,    (* goroutines that use Call                                  *)
  MaxCalls,   (* bound: calls that get an id                               *)
  encodable   (* every request of these callers can be encoded             *)

VARIABLES
  issued,     (* how many ids were given out                               *)
  busy,       (* the callers inside a call                                 *)
  id,         (* the id of each caller's last call                         *)
  cancelled,  (* the callers whose context has ended                       *)
  result,     (* what each caller's last call returned                     *)
  served,     (* the ids the server has replied to                         *)
  closed,     (* Close was called                                          *)
  writable,   (* requests can still be written                             *)
  over        (* replies are no longer read                                *)

connection == <<served, closed, writable, over>>
vars == <<issued, busy, id, cancelled, result, connection>>

Reply(i) == [kind |-> "reply", id |-> i]
Failure(kind) == [kind |-> kind, id |-> 0]

Init ==
  /\ issued = 0 /\ busy = {} /\ id = [c \in Callers |-> 0] /\ cancelled = {}
  /\ result = [c \in Callers |-> Failure("none")]
  /\ served = {} /\ closed = FALSE /\ writable = TRUE /\ over = FALSE

Begin(c) ==
  /\ c \notin busy /\ ~closed /\ issued < MaxCalls
  /\ issued' = issued + 1
  /\ busy' = busy \cup {c}
  /\ id' = [id EXCEPT ![c] = issued']
  /\ UNCHANGED <<cancelled, result, connection>>

EndContext(c) ==
  /\ c \in busy
  /\ cancelled' = cancelled \cup {c}
  /\ UNCHANGED <<issued, busy, id, result, connection>>

(* The server replies to an id that was given out, perhaps more than once. *)
Serve(i) ==
  /\ i \in 1..issued
  /\ served' = served \cup {i}
  /\ UNCHANGED <<issued, busy, id, cancelled, result, closed, writable, over>>

Return(c, r) ==
  /\ busy' = busy \ {c}
  /\ cancelled' = cancelled \ {c}
  /\ result' = [result EXCEPT ![c] = r]
  /\ UNCHANGED <<issued, id, connection>>

ReturnReply(c)     == c \in busy /\ id[c] \in served /\ Return(c, Reply(id[c]))
ReturnCancelled(c) == c \in busy /\ c \in cancelled /\ Return(c, Failure("cancelled"))
ReturnUnsent(c)    == c \in busy /\ (~writable \/ ~encodable) /\ Return(c, Failure("sendFailed"))
ReturnLost(c)      == c \in busy /\ over /\ Return(c, Failure("connectionClosed"))
Refuse(c)          == c \notin busy /\ closed /\ Return(c, Failure("closedClient"))

CloseClient ==
  /\ closed' = TRUE
  /\ UNCHANGED <<issued, busy, id, cancelled, result, served, writable, over>>

EndWriting ==
  /\ writable' = FALSE
  /\ UNCHANGED <<issued, busy, id, cancelled, result, served, closed, over>>

EndReading ==
  /\ over' = TRUE
  /\ UNCHANGED <<issued, busy, id, cancelled, result, served, closed, writable>>

Next ==
  \/ \E c \in Callers :
       \/ Begin(c) \/ EndContext(c) \/ Refuse(c)
       \/ ReturnReply(c) \/ ReturnCancelled(c) \/ ReturnUnsent(c) \/ ReturnLost(c)
  \/ \E i \in 1..MaxCalls : Serve(i)
  \/ CloseClient \/ EndWriting \/ EndReading

Spec == Init /\ [][Next]_vars
=============================================================================
