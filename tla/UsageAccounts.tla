---------------------------- MODULE UsageAccounts ----------------------------
(***************************************************************************)
(* The accounts of tokens: TokenTracker (provider/internal/cli/tokens.go), *)
(* which sends an alert per threshold, and CostMonitor (provider/          *)
(* openai-codex/cost_monitor.go), which warns before the budget is used up *)
(* and refuses after.  Every operation holds the lock of its account, so   *)
(* it is one step; alerts are sent from within it.                         *)
(***************************************************************************)
EXTENDS Integers, Sequences

CONSTANTS
  Usages,      (* of a response: records [input, output, total]            *)
  Thresholds,  (* sequences of numbers of tokens, one for each tracker     *)
  Budgets,     (* of a cost monitor                                        *)
  WarnAt,      (* the warning threshold, in percent                        *)
  MaxUsages    (* bound: responses between two resets                      *)

ASSUME TokensAssumption ==
  /\ Usages \subseteq [input : Int, output : Int, total : Int]
  /\ Thresholds \subseteq Seq(Int) /\ Budgets \subseteq Int /\ WarnAt \in Int

VARIABLES
  thresholds,    (* TokenTracker.thresholds: [threshold, fired]            *)
  counted,       (* TokenTracker.inputTokens and outputTokens              *)
  added,         (* what was added since the last reset, and the counts    *)
  alerts,        (* with which of it each threshold's callback was called  *)
  budget,        (* CostMonitor.budget                                     *)
  used,          (* CostMonitor.used                                       *)
  warningFired,  (* CostMonitor.warningFired                               *)
  history,       (* CostMonitor.history, and what was used by then         *)
  warnings,      (* the alerts of the monitor since its last reset:        *)
  criticals,     (* ... the warnings, and the others                       *)
  refusals       (* the records TrackUsage returned an error for           *)

trackerVars == <<thresholds, counted, added, alerts>>
monitorVars == <<budget, used, warningFired, history, warnings, criticals, refusals>>
usageVars == <<trackerVars, monitorVars>>

NewTokenTracker(limits) ==
  /\ thresholds = [i \in DOMAIN limits |-> [threshold |-> limits[i], fired |-> FALSE]]
  /\ counted = [input |-> 0, output |-> 0]
  /\ added = <<>> /\ alerts = [i \in DOMAIN limits |-> <<>>]

NewCostMonitor(b) ==
  /\ budget = b /\ used = 0 /\ warningFired = FALSE
  /\ history = <<>> /\ warnings = <<>> /\ criticals = <<>> /\ refusals = {}

UsageInit == (\E l \in Thresholds : NewTokenTracker(l)) /\ (\E b \in Budgets : NewCostMonitor(b))

Total(c) == c.input + c.output

(* TokenTracker.Add: every entry has a callback of its own.                *)
Add(u) ==
  LET c == [input |-> counted.input + u.input, output |-> counted.output + u.output]
      hit == {i \in DOMAIN thresholds :
                ~thresholds[i].fired /\ Total(c) >= thresholds[i].threshold}
  IN  /\ counted' = c
      /\ added' = Append(added, [tokens |-> Total(u), sum |-> Total(c)])
      /\ thresholds' = [i \in DOMAIN thresholds |->
           [threshold |-> thresholds[i].threshold, fired |-> thresholds[i].fired \/ i \in hit]]
      /\ alerts' = [i \in DOMAIN thresholds |->
           IF i \in hit THEN Append(alerts[i], Len(added) + 1) ELSE alerts[i]]

(* TokenTracker.Reset                                                      *)
ResetTracker ==
  /\ counted' = [input |-> 0, output |-> 0]
  /\ thresholds' = [i \in DOMAIN thresholds |->
       [threshold |-> thresholds[i].threshold, fired |-> FALSE]]
  /\ added' = <<>> /\ alerts' = [i \in DOMAIN thresholds |-> <<>>]
  /\ UNCHANGED monitorVars

(* percentUsed: no part of a budget of nothing is used.                    *)
ReachedPercent(n, p) ==
  IF budget = 0 THEN 0 >= p ELSE n * 100 >= p * budget

(* TrackUsage: records the usage whether or not it refuses it.             *)
TrackUsage(u) ==
  LET n == used + u.total
      warns == ReachedPercent(n, WarnAt) /\ ~warningFired
      exceeded == n >= budget
      alert == [call |-> Len(history) + 1, used |-> n]
  IN  /\ used' = n
      /\ history' = Append(history, [tokens |-> u.total, sum |-> n])
      /\ warningFired' = (warningFired \/ warns)
      /\ warnings' = IF warns THEN Append(warnings, alert) ELSE warnings
      /\ criticals' = IF exceeded THEN Append(criticals, alert) ELSE criticals
      /\ refusals' = IF exceeded THEN refusals \cup {Len(history) + 1} ELSE refusals
      /\ UNCHANGED budget

(* A slip: the warning stays sent.                                         *)
ResetMonitor_StaysWarned ==
  /\ used' = 0 /\ history' = <<>> /\ warnings' = <<>> /\ criticals' = <<>> /\ refusals' = {}
  /\ UNCHANGED <<budget, warningFired, trackerVars>>

(* CostMonitor.Reset                                                       *)
ResetMonitor ==
  /\ used' = 0 /\ warningFired' = FALSE
  /\ history' = <<>> /\ warnings' = <<>> /\ criticals' = <<>> /\ refusals' = {}
  /\ UNCHANGED <<budget, trackerVars>>

(* CanAfford, of an account in which n tokens are used.                    *)
CanAfford(n, tokens) == n + tokens <= budget

(* A response is recorded in both accounts.                                *)
Record ==
  /\ Len(added) < MaxUsages /\ Len(history) < MaxUsages
  /\ \E u \in Usages : Add(u) /\ TrackUsage(u)

UsageNext == Record \/ ResetTracker \/ ResetMonitor

-----------------------------------------------------------------------------
(* Every sum is that of the record before and the tokens of this one.      *)
AddsUp(s) == \A i \in DOMAIN s : s[i].sum = s[i].tokens + (IF i = 1 THEN 0 ELSE s[i - 1].sum)

Earliest(S) == {i \in S : \A j \in S : i <= j}

(* The count of the tracker is the sum of what was added, and each         *)
(* threshold is reported once, with the record that reached it, be it      *)
(* exactly (tokens.go:88), for which tokens.go:52 says "exceeds".          *)
TrackerAlertsOnce ==
  /\ AddsUp(added)
  /\ \A k \in DOMAIN thresholds :
       LET reached == {i \in DOMAIN added : added[i].sum >= thresholds[k].threshold} IN
       /\ Len(alerts[k]) <= 1
       /\ {alerts[k][i] : i \in DOMAIN alerts[k]} = Earliest(reached)

(* CanAfford, asked for the tokens of a record just before it.             *)
WasAffordable(i) == CanAfford(history[i].sum - history[i].tokens, history[i].tokens)

(* The warning is sent once, with the record that reached its part of the  *)
(* budget; the records that leave nothing of the budget are refused, each  *)
(* with an alert of its own; each alert says what was used by then.        *)
(* CanAfford foretells a refusal but for one that meets the budget exactly *)
(* (cost_monitor.go:142 against 239): its request was "safe to make"       *)
(* (README.md:324), its tokens were "allowed" (line 39), and the error     *)
(* that refuses it is documented for a budget that is "exceeded" (108).    *)
MonitorAlertsOnce ==
  LET warned == {i \in DOMAIN history : ReachedPercent(history[i].sum, WarnAt)} IN
  /\ AddsUp(history)
  /\ Len(warnings) <= 1
  /\ {warnings[i].call : i \in DOMAIN warnings} = Earliest(warned)
  /\ refusals = {i \in DOMAIN history : history[i].sum >= budget}
  /\ \A i \in DOMAIN history : i \in refusals <=> ~WasAffordable(i) \/ history[i].sum = budget
  /\ {criticals[i].call : i \in DOMAIN criticals} = refusals
  /\ \A i, j \in DOMAIN criticals : i < j => criticals[i].call < criticals[j].call
  /\ \A i \in DOMAIN warnings : warnings[i].used = history[warnings[i].call].sum
  /\ \A i \in DOMAIN criticals : criticals[i].used = history[criticals[i].call].sum
=============================================================================
