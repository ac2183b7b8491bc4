--------------------------- MODULE ProcessManager ---------------------------
(***************************************************************************)
(* ProcessManager of provider/internal/cli/config.go: callers that share   *)
(* one process, which is replaced when the configuration changes.  A call  *)
(* holds the lock from its check to its return; processes may exit at any  *)
(* moment of it.                                                           *)
(***************************************************************************)
EXTENDS Integers, FiniteSets

CONSTANTS
  Callers,   (* goroutines, each of which asks once for a process          *)
  Procs,     (* the processes the factory can make                         *)
  Keys,      (* configuration keys, as ConfigKeysEqual tells them apart    *)
  None,
  Initializes  (* whether an initialize function is given: set of BOOLEAN  *)

ASSUME ManagerAssumption == None \notin Procs /\ None \notin Callers

VARIABLES
  managed,     (* m.proc, or None                                          *)
  cachedKey,   (* m.cachedKey                                              *)
  mu,          (* the caller that holds m.mu, or None                      *)
  pc,          (* where each caller is                                     *)
  wanted,      (* ConfigKey of each caller's configuration                 *)
  created,     (* the process a caller made, or None                       *)
  returned,    (* what each caller got: a process, or None                 *)
  state,       (* of a process: "none", "new", "running" or "ended"        *)
  startedWith, (* the configuration a process was started with             *)
  withInit,    (* initialize # nil                                         *)
  displaced    (* processes SetProcess took the manager's eyes off         *)

managerVars == <<managed, cachedKey, mu, pc, wanted, created, returned, state, startedWith,
                 withInit, displaced>>

ManagerInit ==
  /\ managed = None /\ cachedKey = None /\ mu = None
  /\ pc = [c \in Callers |-> "idle"] /\ wanted \in [Callers -> Keys]
  /\ created = [c \in Callers |-> None] /\ returned = [c \in Callers |-> None]
  /\ state = [p \in Procs |-> "none"] /\ startedWith = [p \in Procs |-> None]
  /\ withInit \in Initializes
  /\ displaced = {}

IsRunning(p) == p # None /\ state[p] = "running"

NeedsRestart(k) == ~IsRunning(managed) \/ cachedKey # k

Go(c, here, there) == pc[c] = here /\ pc' = [pc EXCEPT ![c] = there]

(* Stop of a process: it ends, if it has not already.                      *)
Stopped(p) == [state EXCEPT ![p] = IF @ = "running" THEN "ended" ELSE @]

Lock(c) ==
  /\ Go(c, "idle", "check") /\ mu = None /\ mu' = c
  /\ UNCHANGED <<managed, cachedKey, wanted, created, returned, state, startedWith, withInit, displaced>>

(* The process is there and does what is wanted.                           *)
Reuse(c) ==
  /\ Go(c, "check", "done")
  /\ ~NeedsRestart(wanted[c])
  /\ returned' = [returned EXCEPT ![c] = managed]
  /\ mu' = None
  /\ UNCHANGED <<managed, cachedKey, wanted, created, state, startedWith, withInit, displaced>>

(* There is none, or it was started with another configuration: it is      *)
(* stopped, though it stays the managed one until there is another.        *)
Replace(c) ==
  /\ Go(c, "check", "create")
  /\ NeedsRestart(wanted[c])
  /\ state' = IF IsRunning(managed) THEN Stopped(managed) ELSE state
  /\ UNCHANGED <<managed, cachedKey, mu, wanted, created, returned, startedWith, withInit, displaced>>

Fail(c) ==
  /\ pc' = [pc EXCEPT ![c] = "failed"] /\ mu' = None

Create(c) ==
  /\ pc[c] = "create"
  /\ \/ /\ Fail(c) /\ UNCHANGED <<created, state>>
     \/ \E p \in {q \in Procs : state[q] = "none"} :
          /\ created' = [created EXCEPT ![c] = p] /\ state' = [state EXCEPT ![p] = "new"]
          /\ pc' = [pc EXCEPT ![c] = "start"] /\ UNCHANGED mu
  /\ UNCHANGED <<managed, cachedKey, wanted, returned, startedWith, withInit, displaced>>

Start(c) ==
  /\ pc[c] = "start"
  /\ LET p == created[c] IN
     \/ /\ Fail(c) /\ UNCHANGED <<state, startedWith>>
     \/ /\ state' = [state EXCEPT ![p] = "running"]
        /\ startedWith' = [startedWith EXCEPT ![p] = wanted[c]]
        /\ pc' = [pc EXCEPT ![c] = IF withInit THEN "initialize" ELSE "install"] /\ UNCHANGED mu
  /\ UNCHANGED <<managed, cachedKey, wanted, created, returned, withInit, displaced>>

(* A slip: a process that cannot be initialized is dropped as it is.       *)
InitializeFails_Dropped(c) ==
  /\ pc[c] = "initialize" /\ Fail(c)
  /\ UNCHANGED <<state, managed, cachedKey, wanted, created, returned, startedWith, withInit, displaced>>

InitializeFails(c) ==
  /\ pc[c] = "initialize" /\ Fail(c)
  /\ state' = Stopped(created[c])
  /\ UNCHANGED <<managed, cachedKey, wanted, created, returned, startedWith, withInit, displaced>>

Initialize(c) ==
  /\ Go(c, "initialize", "install")
  /\ IsRunning(created[c])
  /\ UNCHANGED <<managed, cachedKey, mu, wanted, created, returned, state, startedWith, withInit, displaced>>

Install(c) ==
  /\ Go(c, "install", "done")
  /\ managed' = created[c] /\ cachedKey' = wanted[c]
  /\ returned' = [returned EXCEPT ![c] = created[c]]
  /\ mu' = None
  /\ UNCHANGED <<wanted, created, state, startedWith, withInit, displaced>>

GetOrCreateProcess(c) ==
  Lock(c) \/ Reuse(c) \/ Replace(c) \/ Create(c) \/ Start(c) \/ InitializeFails(c)
    \/ Initialize(c) \/ Install(c)

(* Stop of the manager: the process stays the managed one.                 *)
StopManager ==
  /\ mu = None /\ IsRunning(managed)
  /\ state' = Stopped(managed)
  /\ UNCHANGED <<managed, cachedKey, mu, pc, wanted, created, returned, startedWith, withInit, displaced>>

(* SetProcess: a process made elsewhere, with the key it was started with. *)
SetProcess ==
  /\ mu = None
  /\ \E p \in Procs, k \in Keys :
       /\ state[p] = "none"
       /\ state' = [state EXCEPT ![p] = "running"]
       /\ startedWith' = [startedWith EXCEPT ![p] = k]
       /\ managed' = p /\ cachedKey' = k
  /\ displaced' = displaced \cup ({managed} \ {None})
  /\ UNCHANGED <<mu, pc, wanted, created, returned, withInit>>

(* A process may exit by itself.                                           *)
Exit ==
  /\ \E p \in Procs : state[p] = "running" /\ state' = [state EXCEPT ![p] = "ended"]
  /\ UNCHANGED <<managed, cachedKey, mu, pc, wanted, created, returned, startedWith, withInit, displaced>>

ManagerNext == (\E c \in Callers : GetOrCreateProcess(c)) \/ StopManager \/ SetProcess \/ Exit

-----------------------------------------------------------------------------
(* A caller is only given a process that was started with its              *)
(* configuration, whoever started it and whatever was tried in between.    *)
ConfigIsOwn ==
  \A c \in Callers : returned[c] # None => startedWith[returned[c]] = wanted[c]

(* While no call is in progress no process runs that Stop would not reach, *)
(* except one that SetProcess replaced.                                    *)
NothingLeftRunning ==
  mu = None => \A p \in Procs : state[p] = "running" => p = managed \/ p \in displaced
=============================================================================
