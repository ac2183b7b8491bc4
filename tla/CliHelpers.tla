------------------------------ MODULE CliHelpers ------------------------------
(***************************************************************************)
(* The helpers that both CLI providers are built from.  They share no      *)
(* state, so each is explored on its own: a behaviour is a scene of one of *)
(* them, while the others stay as they were made.                          *)
(***************************************************************************)
EXTENDS RetryPolicy, UsageAccounts, ProcessManager, ChannelStream

CONSTANTS Scenes   (* of "retry", "usage", "manager" and "channel"         *)

VARIABLES scene

vars == <<scene, retryVars, usageVars, managerVars, channelVars>>

(* A helper that is not looked at is in one of its initial states.         *)
Fixed(v, vs) == v = CHOOSE x \in vs : TRUE

Init ==
  /\ scene \in Scenes
  /\ RetryInit /\ (scene # "retry" => Fixed(policy, Policies))
  /\ UsageInit /\ (scene # "usage" => Fixed(budget, Budgets) /\
       Fixed([i \in DOMAIN thresholds |-> thresholds[i].threshold], Thresholds))
  /\ ManagerInit /\ (scene # "manager" => Fixed(wanted, [Callers -> Keys]) /\ Fixed(withInit, Initializes))
  /\ ChannelInit /\ (scene # "channel" => Fixed(onFinish, OnFinishes))

Next ==
  /\ UNCHANGED scene
  /\ \/ scene = "retry" /\ RetryNext /\ UNCHANGED <<usageVars, managerVars, channelVars>>
     \/ scene = "usage" /\ UsageNext /\ UNCHANGED <<retryVars, managerVars, channelVars>>
     \/ scene = "manager" /\ ManagerNext /\ UNCHANGED <<retryVars, usageVars, channelVars>>
     \/ scene = "channel" /\ ChannelNext /\ UNCHANGED <<retryVars, usageVars, managerVars>>

Spec == Init /\ [][Next]_vars

(* An alert is sent once for each limit, with the response that reached    *)
(* it, and again only after a reset: for the thresholds of a TokenTracker  *)
(* (cli/tokens.go:88), the warning of a CostMonitor and the budget itself  *)
(* (openai-codex/cost_monitor.go:128 and 142).  A limit is reached when it *)
(* is met exactly: that is the code, and the one case in which it is at    *)
(* odds with CanAfford and with a documentation that says exceeded.        *)
AlertsOnce == TrackerAlertsOnce /\ MonitorAlertsOnce

(* A process manager hands out processes of the right configuration only   *)
(* and leaves none behind (cli/config.go:88).                              *)
ManagerOwnsProcess == ConfigIsOwn /\ NothingLeftRunning
=============================================================================
