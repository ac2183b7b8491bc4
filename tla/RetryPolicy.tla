----------------------------- MODULE RetryPolicy -----------------------------
(***************************************************************************)
(* provider/internal/cli/retry.go: Execute runs a function until it        *)
(* succeeds, fails for good, or has been tried often enough, and waits     *)
(* longer and longer in between.  ensureProcess of both CLI providers      *)
(* starts its process under such a policy.  Time is counted in             *)
(* nanoseconds, of which there are few here.                               *)
(***************************************************************************)
EXTENDS ErrorClassifier

CONSTANTS
  Policies,  (* records of the fields of a RetryPolicy                     *)
  Errors     (* what the function may fail with                            *)

(* No option of NewRetryPolicy takes a number below one.                   *)
ASSUME PoliciesAssumption ==
  \A p \in Policies : /\ {p.maxAttempts, p.initialDelay, p.maxDelay} \subseteq Nat \ {0}
                      /\ p.multiplier \in Nat \ {0}

VARIABLES
  policy,     (* p                                                         *)
  attempt,    (* attempt                                                   *)
  delay,      (* delay                                                     *)
  phase,      (* "call", "wait" or "done"                                  *)
  failures,   (* what each call of the function failed with                *)
  waits,      (* the delay of each wait, and how long it was meant to be   *)
  cancelled,  (* the context has ended                                     *)
  outcome     (* what Execute returns                                      *)

retryVars == <<policy, attempt, delay, phase, failures, waits, cancelled, outcome>>

NoOutcome == [kind |-> "none", info |-> Unknown]

RetryInit ==
  /\ policy \in Policies
  /\ attempt = 1 /\ delay = policy.initialDelay
  /\ phase = "call" /\ failures = <<>> /\ waits = <<>> /\ cancelled = FALSE
  /\ outcome = NoOutcome

Finish(k, i) == phase' = "done" /\ outcome' = [kind |-> k, info |-> i]

CallSucceeds ==
  /\ phase = "call"
  /\ Finish("nil", Unknown)
  /\ UNCHANGED <<policy, attempt, delay, failures, waits, cancelled>>

(* addJitter: half of the delay, and a random part of the other half; the  *)
(* random number generator panics when that half is empty.                 *)
Jittered(d) == {d \div 2 + j : j \in 0..(d \div 2 - 1)}

Delays == IF policy.jitter THEN Jittered(delay) ELSE {delay}

Panics == policy.jitter /\ delay \div 2 = 0

(* The function fails: the error is final, or the attempts are used up, or *)
(* there is a wait.                                                        *)
CallFails ==
  /\ phase = "call"
  /\ \E e \in Errors :
       /\ failures' = Append(failures, e)
       /\ IF ~ShouldRetry(policy.classifier, policy.categories, e)
            THEN Finish("error", ClassifyError(policy.classifier, e)) /\ UNCHANGED waits
          ELSE IF attempt >= policy.maxAttempts
            THEN Finish("exhausted", Unknown) /\ UNCHANGED waits
          ELSE IF Panics THEN Finish("panic", Unknown) /\ UNCHANGED waits
          ELSE /\ \E d \in Delays : waits' = Append(waits, [delay |-> delay, timer |-> d])
               /\ phase' = "wait" /\ UNCHANGED outcome
  /\ UNCHANGED <<policy, attempt, delay, cancelled>>

MinOf(a, b) == IF a <= b THEN a ELSE b

(* A slip: the delay is capped before it is multiplied.                    *)
WaitEnds_CapEarly ==
  /\ phase = "wait"
  /\ phase' = "call"
  /\ delay' = MinOf(delay, policy.maxDelay) * policy.multiplier
  /\ attempt' = attempt + 1
  /\ UNCHANGED <<policy, failures, waits, cancelled, outcome>>

(* The timer fires, and is seen though the context may have ended too.     *)
WaitEnds ==
  /\ phase = "wait"
  /\ phase' = "call"
  /\ delay' = MinOf(delay * policy.multiplier, policy.maxDelay)
  /\ attempt' = attempt + 1
  /\ UNCHANGED <<policy, failures, waits, cancelled, outcome>>

WaitCancelled ==
  /\ phase = "wait" /\ cancelled
  /\ Finish("ctx", Unknown)
  /\ UNCHANGED <<policy, attempt, delay, failures, waits, cancelled>>

Cancel ==
  /\ phase # "done" /\ ~cancelled
  /\ cancelled' = TRUE
  /\ UNCHANGED <<policy, attempt, delay, phase, failures, waits, outcome>>

Execute == CallSucceeds \/ CallFails \/ WaitEnds \/ WaitCancelled

RetryNext == Execute \/ Cancel

-----------------------------------------------------------------------------
(* Phrases of a failure that no later attempt can mend, as each classifier *)
(* is documented to tell them.                                             *)
Permanent(classifier) ==
  {"quota", "auth", "model"} \cup (IF classifier = "claude" THEN {"creditBalance"} ELSE {})

(* Phrases that the same classifier looks for earlier, and retries: claude *)
(* code's own before those of the base classifier (claudecode/errors.go),  *)
(* the base one's in its order.                                            *)
Masks(classifier, mark) ==
  (IF classifier = "claude" /\ mark # "creditBalance"
     THEN {"overloaded", "startClaude", "brokenPipe", "stderr"} ELSE {})
  \cup (IF classifier = "claude" /\ mark = "creditBalance" THEN {"overloaded"} ELSE {})
  \cup (IF classifier = "codex" /\ mark # "model" THEN {"codexServer"} ELSE {})
  \cup (IF mark = "auth" THEN {"rate"} ELSE {})
  \cup (IF mark = "model" /\ classifier # "codex" THEN {"rate", "service"} ELSE {})

(* No call is repeated after a failure that is permanent, unless its text  *)
(* also says something the classifier takes for temporary first: a retry   *)
(* policy follows the order of the rules, the code of an RPC error and the *)
(* caller's own categories.                                                *)
PermanentIsFinal ==
  \A i \in DOMAIN failures :
    LET e == failures[i] IN
    (/\ policy.classifier # "nil"
     /\ e.kind = "text"
     /\ \E m \in e.marks \cap Permanent(policy.classifier) :
          e.marks \cap Masks(policy.classifier, m) = {})
    => i = Len(failures) /\ phase = "done" /\ outcome.kind = "error"
                         /\ ~outcome.info.retryable

(* Execute makes at most MaxAttempts calls, and waits between any two of   *)
(* them, once.                                                             *)
AttemptsAreBounded ==
  /\ Len(failures) <= policy.maxAttempts
  /\ Len(waits) \in {Len(failures) - 1, Len(failures)} \/ failures = <<>>
  /\ phase = "wait" => Len(waits) = Len(failures)

(* Each delay is that of the wait before, multiplied, and from the second  *)
(* one on never over MaxDelay; the wait is at least half of the delay and  *)
(* at most all of it.                                                      *)
DelaysGrow ==
  \A i \in DOMAIN waits :
    LET w == waits[i] IN
    /\ w.delay = IF i = 1 THEN policy.initialDelay
                 ELSE MinOf(waits[i - 1].delay * policy.multiplier, policy.maxDelay)
    /\ IF policy.jitter THEN w.timer \in (w.delay \div 2)..w.delay ELSE w.timer = w.delay

(* The attempts, the delays between them and the error that ends them keep *)
(* to the policy (cli/retry.go:131).                                       *)
RetriesAreSound == PermanentIsFinal /\ AttemptsAreBounded /\ DelaysGrow
=============================================================================
