--------------------------- MODULE CliHelpers_proofs ---------------------------
(***************************************************************************)
(* Proofs about the helpers of CliHelpers, each for any scenes of them.    *)
(***************************************************************************)
EXTENDS CliHelpers, TLAPS

(***************************************************************************)
(* The process manager.                                                    *)
(***************************************************************************)

Locked == {"check", "create", "start", "initialize", "install"}

ManagerTypes ==
  /\ managed \in Procs \cup {None} /\ mu \in Callers \cup {None}
  /\ pc \in [Callers -> Locked \cup {"idle", "done", "failed"}]
  /\ created \in [Callers -> Procs \cup {None}] /\ returned \in [Callers -> Procs \cup {None}]
  /\ state \in [Procs -> {"none", "new", "running", "ended"}]
  /\ DOMAIN startedWith = Procs

(* From its check to its return, a call has the lock.                      *)
LockInv == \A c \in Callers : pc[c] \in Locked <=> mu = c

(* What a call has made is new, or started with what it wants; by then the *)
(* process that it replaces runs no more.                                  *)
CreatedInv ==
  \A c \in Callers :
    /\ pc[c] = "start" => created[c] # None /\ state[created[c]] = "new"
    /\ pc[c] \in {"initialize", "install"} =>
         /\ created[c] # None /\ startedWith[created[c]] = wanted[c]
         /\ state[created[c]] \in {"running", "ended"}
    /\ pc[c] \in {"create", "start", "initialize", "install"} => ~IsRunning(managed)

(* The manager knows what its process was started with.                    *)
KeyInv ==
  managed # None => startedWith[managed] = cachedKey /\ state[managed] \in {"running", "ended"}

ReturnedInv ==
  \A c \in Callers : returned[c] # None =>
    startedWith[returned[c]] = wanted[c] /\ state[returned[c]] \in {"running", "ended"}

(* What runs is managed, was given up by SetProcess, or is being made.     *)
RunningInv ==
  \A p \in Procs : state[p] = "running" =>
    \/ p = managed \/ p \in displaced
    \/ \E c \in Callers : pc[c] \in {"initialize", "install"} /\ created[c] = p

ManagerInv == ManagerTypes /\ LockInv /\ CreatedInv /\ KeyInv /\ ReturnedInv /\ RunningInv

LEMMA InitManager == ManagerInit => ManagerInv
<1> SUFFICES ASSUME ManagerInit PROVE ManagerInv
  OBVIOUS
<1> USE DEF ManagerInit
<1>1. ManagerTypes
  BY DEF ManagerTypes, Locked
<1>2. LockInv /\ CreatedInv /\ KeyInv /\ ReturnedInv /\ RunningInv
  BY ManagerAssumption DEF LockInv, CreatedInv, KeyInv, ReturnedInv, RunningInv, Locked
<1>3. QED
  BY <1>1, <1>2 DEF ManagerInv
LEMMA NextManager == ManagerInv /\ [ManagerNext]_managerVars => ManagerInv'
<1> SUFFICES ASSUME ManagerInv, [ManagerNext]_managerVars PROVE ManagerInv'
  OBVIOUS
<1>0. /\ None \notin Procs /\ None \notin Callers
      /\ ManagerTypes /\ LockInv /\ CreatedInv /\ KeyInv /\ ReturnedInv /\ RunningInv
  BY ManagerAssumption DEF ManagerInv
<1>1. ASSUME NEW c \in Callers, Lock(c) PROVE ManagerInv'
  <2>1. ManagerTypes'
    BY <1>0, <1>1 DEF Lock, Go, ManagerTypes, Locked
  <2>2. LockInv'
    BY <1>0, <1>1 DEF Lock, Go, LockInv, Locked, ManagerTypes
  <2>3. CreatedInv'
    BY <1>0, <1>1 DEF Lock, Go, CreatedInv, LockInv, KeyInv, ManagerTypes, Locked, IsRunning
  <2>4. KeyInv'
    BY <1>0, <1>1 DEF Lock, Go, KeyInv, CreatedInv, ManagerTypes
  <2>5. ReturnedInv'
    BY <1>0, <1>1 DEF Lock, Go, ReturnedInv, CreatedInv, KeyInv, ManagerTypes
  <2>6. RunningInv'
    BY <1>0, <1>1 DEF Lock, Go, RunningInv, CreatedInv, LockInv, ManagerTypes, Locked, IsRunning
  <2>7. QED
    BY <2>1, <2>2, <2>3, <2>4, <2>5, <2>6 DEF ManagerInv
<1>2. ASSUME NEW c \in Callers, Reuse(c) PROVE ManagerInv'
  <2>1. ManagerTypes'
    BY <1>0, <1>2 DEF Reuse, Go, NeedsRestart, IsRunning, ManagerTypes, Locked
  <2>2. LockInv'
    BY <1>0, <1>2 DEF Reuse, Go, NeedsRestart, IsRunning, LockInv, Locked, ManagerTypes
  <2>3. CreatedInv'
    BY <1>0, <1>2
    DEF Reuse, Go, NeedsRestart, IsRunning, CreatedInv, LockInv, KeyInv, ManagerTypes, Locked
  <2>4. KeyInv'
    BY <1>0, <1>2 DEF Reuse, Go, NeedsRestart, IsRunning, KeyInv, CreatedInv, ManagerTypes
  <2>5. ReturnedInv'
    BY <1>0, <1>2
    DEF Reuse, Go, NeedsRestart, IsRunning, ReturnedInv, CreatedInv, KeyInv, ManagerTypes
  <2>6. RunningInv'
    BY <1>0, <1>2
    DEF Reuse, Go, NeedsRestart, IsRunning, RunningInv, CreatedInv, LockInv, ManagerTypes,
        Locked
  <2>7. QED
    BY <2>1, <2>2, <2>3, <2>4, <2>5, <2>6 DEF ManagerInv
<1>3. ASSUME NEW c \in Callers, Replace(c) PROVE ManagerInv'
  <2>1. ManagerTypes'
    BY <1>0, <1>3 DEF Replace, Go, Stopped, IsRunning, ManagerTypes, Locked
  <2>2. LockInv'
    BY <1>0, <1>3 DEF Replace, Go, Stopped, IsRunning, LockInv, Locked, ManagerTypes
  <2>3. CreatedInv'
    BY <1>0, <1>3
    DEF Replace, Go, Stopped, IsRunning, CreatedInv, LockInv, KeyInv, ManagerTypes, Locked
  <2>4. KeyInv'
    BY <1>0, <1>3 DEF Replace, Go, Stopped, IsRunning, KeyInv, CreatedInv, ManagerTypes
  <2>5. ReturnedInv'
    BY <1>0, <1>3
    DEF Replace, Go, Stopped, IsRunning, ReturnedInv, CreatedInv, KeyInv, ManagerTypes
  <2>6. RunningInv'
    BY <1>0, <1>3
    DEF Replace, Go, Stopped, IsRunning, RunningInv, CreatedInv, LockInv, ManagerTypes, Locked
  <2>7. QED
    BY <2>1, <2>2, <2>3, <2>4, <2>5, <2>6 DEF ManagerInv
<1>4. ASSUME NEW c \in Callers, Create(c) PROVE ManagerInv'
  <2>1. ManagerTypes'
    BY <1>0, <1>4 DEF Create, Fail, ManagerTypes, Locked
  <2>2. LockInv'
    BY <1>0, <1>4 DEF Create, Fail, LockInv, Locked, ManagerTypes
  <2>3. CreatedInv'
    BY <1>0, <1>4 DEF Create, Fail, CreatedInv, LockInv, KeyInv, ManagerTypes, Locked, IsRunning
  <2>4. KeyInv'
    BY <1>0, <1>4 DEF Create, Fail, KeyInv, CreatedInv, ManagerTypes
  <2>5. ReturnedInv'
    BY <1>0, <1>4 DEF Create, Fail, ReturnedInv, CreatedInv, KeyInv, ManagerTypes
  <2>6. RunningInv'
    BY <1>0, <1>4
    DEF Create, Fail, RunningInv, CreatedInv, LockInv, ManagerTypes, Locked, IsRunning
  <2>7. QED
    BY <2>1, <2>2, <2>3, <2>4, <2>5, <2>6 DEF ManagerInv
<1>5. ASSUME NEW c \in Callers, Start(c) PROVE ManagerInv'
  <2>1. ManagerTypes'
    BY <1>0, <1>5 DEF Start, Fail, ManagerTypes, Locked
  <2>2. LockInv'
    BY <1>0, <1>5 DEF Start, Fail, LockInv, Locked, ManagerTypes
  <2>3. CreatedInv'
    BY <1>0, <1>5 DEF Start, Fail, CreatedInv, LockInv, KeyInv, ManagerTypes, Locked, IsRunning
  <2>4. KeyInv'
    BY <1>0, <1>5 DEF Start, Fail, KeyInv, CreatedInv, ManagerTypes
  <2>5. ReturnedInv'
    BY <1>0, <1>5 DEF Start, Fail, ReturnedInv, CreatedInv, KeyInv, ManagerTypes
  <2>6. RunningInv'
    BY <1>0, <1>5
    DEF Start, Fail, RunningInv, CreatedInv, LockInv, ManagerTypes, Locked, IsRunning
  <2>7. QED
    BY <2>1, <2>2, <2>3, <2>4, <2>5, <2>6 DEF ManagerInv
<1>6. ASSUME NEW c \in Callers, InitializeFails(c) PROVE ManagerInv'
  <2>1. ManagerTypes'
    BY <1>0, <1>6 DEF InitializeFails, Fail, Stopped, ManagerTypes, Locked
  <2>2. LockInv'
    BY <1>0, <1>6 DEF InitializeFails, Fail, Stopped, LockInv, Locked, ManagerTypes
  <2>3. CreatedInv'
    BY <1>0, <1>6
    DEF InitializeFails, Fail, Stopped, CreatedInv, LockInv, KeyInv, ManagerTypes, Locked,
        IsRunning
  <2>4. KeyInv'
    BY <1>0, <1>6 DEF InitializeFails, Fail, Stopped, KeyInv, CreatedInv, ManagerTypes
  <2>5. ReturnedInv'
    BY <1>0, <1>6
    DEF InitializeFails, Fail, Stopped, ReturnedInv, CreatedInv, KeyInv, ManagerTypes
  <2>6. RunningInv'
    BY <1>0, <1>6
    DEF InitializeFails, Fail, Stopped, RunningInv, CreatedInv, LockInv, ManagerTypes, Locked,
        IsRunning
  <2>7. QED
    BY <2>1, <2>2, <2>3, <2>4, <2>5, <2>6 DEF ManagerInv
<1>7. ASSUME NEW c \in Callers, Initialize(c) PROVE ManagerInv'
  <2>1. ManagerTypes'
    BY <1>0, <1>7 DEF Initialize, Go, ManagerTypes, Locked
  <2>2. LockInv'
    BY <1>0, <1>7 DEF Initialize, Go, LockInv, Locked, ManagerTypes
  <2>3. CreatedInv'
    BY <1>0, <1>7 DEF Initialize, Go, CreatedInv, LockInv, KeyInv, ManagerTypes, Locked, IsRunning
  <2>4. KeyInv'
    BY <1>0, <1>7 DEF Initialize, Go, KeyInv, CreatedInv, ManagerTypes
  <2>5. ReturnedInv'
    BY <1>0, <1>7 DEF Initialize, Go, ReturnedInv, CreatedInv, KeyInv, ManagerTypes
  <2>6. RunningInv'
    BY <1>0, <1>7
    DEF Initialize, Go, RunningInv, CreatedInv, LockInv, ManagerTypes, Locked, IsRunning
  <2>7. QED
    BY <2>1, <2>2, <2>3, <2>4, <2>5, <2>6 DEF ManagerInv
<1>8. ASSUME NEW c \in Callers, Install(c) PROVE ManagerInv'
  <2>1. ManagerTypes'
    BY <1>0, <1>8 DEF Install, Go, ManagerTypes, Locked
  <2>2. LockInv'
    BY <1>0, <1>8 DEF Install, Go, LockInv, Locked, ManagerTypes
  <2>3. CreatedInv'
    BY <1>0, <1>8 DEF Install, Go, CreatedInv, LockInv, KeyInv, ManagerTypes, Locked, IsRunning
  <2>4. KeyInv'
    BY <1>0, <1>8 DEF Install, Go, KeyInv, CreatedInv, ManagerTypes
  <2>5. ReturnedInv'
    BY <1>0, <1>8 DEF Install, Go, ReturnedInv, CreatedInv, KeyInv, ManagerTypes
  <2>6. RunningInv'
    BY <1>0, <1>8
    DEF Install, Go, RunningInv, CreatedInv, LockInv, ManagerTypes, Locked, IsRunning
  <2>7. QED
    BY <2>1, <2>2, <2>3, <2>4, <2>5, <2>6 DEF ManagerInv
<1>9. CASE StopManager
  <2>1. ManagerTypes'
    BY <1>0, <1>9 DEF StopManager, Stopped, IsRunning, ManagerTypes, Locked
  <2>2. LockInv'
    BY <1>0, <1>9 DEF StopManager, Stopped, IsRunning, LockInv, Locked, ManagerTypes
  <2>3. CreatedInv'
    BY <1>0, <1>9
    DEF StopManager, Stopped, IsRunning, CreatedInv, LockInv, KeyInv, ManagerTypes, Locked
  <2>4. KeyInv'
    BY <1>0, <1>9 DEF StopManager, Stopped, IsRunning, KeyInv, CreatedInv, ManagerTypes
  <2>5. ReturnedInv'
    BY <1>0, <1>9
    DEF StopManager, Stopped, IsRunning, ReturnedInv, CreatedInv, KeyInv, ManagerTypes
  <2>6. RunningInv'
    BY <1>0, <1>9
    DEF StopManager, Stopped, IsRunning, RunningInv, CreatedInv, LockInv, ManagerTypes, Locked
  <2>7. QED
    BY <2>1, <2>2, <2>3, <2>4, <2>5, <2>6 DEF ManagerInv
<1>10. CASE SetProcess
  <2>1. ManagerTypes'
    BY <1>0, <1>10 DEF SetProcess, ManagerTypes, Locked
  <2>2. LockInv'
    BY <1>0, <1>10 DEF SetProcess, LockInv, Locked, ManagerTypes
  <2>3. CreatedInv'
    BY <1>0, <1>10 DEF SetProcess, CreatedInv, LockInv, KeyInv, ManagerTypes, Locked, IsRunning
  <2>4. KeyInv'
    BY <1>0, <1>10 DEF SetProcess, KeyInv, CreatedInv, ManagerTypes
  <2>5. ReturnedInv'
    BY <1>0, <1>10 DEF SetProcess, ReturnedInv, CreatedInv, KeyInv, ManagerTypes
  <2>6. RunningInv'
    BY <1>0, <1>10
    DEF SetProcess, RunningInv, CreatedInv, LockInv, ManagerTypes, Locked, IsRunning
  <2>7. QED
    BY <2>1, <2>2, <2>3, <2>4, <2>5, <2>6 DEF ManagerInv
<1>11. CASE Exit
  <2>1. ManagerTypes'
    BY <1>0, <1>11 DEF Exit, ManagerTypes, Locked
  <2>2. LockInv'
    BY <1>0, <1>11 DEF Exit, LockInv, Locked, ManagerTypes
  <2>3. CreatedInv'
    BY <1>0, <1>11 DEF Exit, CreatedInv, LockInv, KeyInv, ManagerTypes, Locked, IsRunning
  <2>4. KeyInv'
    BY <1>0, <1>11 DEF Exit, KeyInv, CreatedInv, ManagerTypes
  <2>5. ReturnedInv'
    BY <1>0, <1>11 DEF Exit, ReturnedInv, CreatedInv, KeyInv, ManagerTypes
  <2>6. RunningInv'
    BY <1>0, <1>11 DEF Exit, RunningInv, CreatedInv, LockInv, ManagerTypes, Locked, IsRunning
  <2>7. QED
    BY <2>1, <2>2, <2>3, <2>4, <2>5, <2>6 DEF ManagerInv
<1>12. CASE UNCHANGED managerVars
  BY <1>0, <1>12
  DEF managerVars, ManagerInv, ManagerTypes, LockInv, CreatedInv, KeyInv, ReturnedInv,
      RunningInv, IsRunning
<1>13. QED
  BY <1>1, <1>2, <1>3, <1>4, <1>5, <1>6, <1>7, <1>8, <1>9, <1>10, <1>11, <1>12
  DEF ManagerNext, GetOrCreateProcess

(***************************************************************************)
(* The retry policy.                                                       *)
(***************************************************************************)

(* The first rule that applies, for lists as long as those of the code.    *)
FirstApplies(rules, n, marks, default) ==
  \/ /\ \A i \in 1..n : rules[i].mark \notin marks
     /\ FirstOf(rules, marks, default) = default
  \/ \E i \in 1..n :
       /\ rules[i].mark \in marks /\ FirstOf(rules, marks, default) = rules[i].info
       /\ \A j \in 1..n : rules[j].mark \in marks => i <= j

LEMMA FirstRule ==
  ASSUME NEW rules, NEW n \in 1..7, DOMAIN rules = 1..n, NEW marks, NEW default
  PROVE  FirstApplies(rules, n, marks, default)
<1> USE DEF FirstApplies
<1> DEFINE hits == {i \in DOMAIN rules : rules[i].mark \in marks}
<1>1. CASE hits = {}
  BY <1>1 DEF FirstOf
<1>2. CASE hits # {}
  <2>1. hits \subseteq 1..7
    OBVIOUS
  <2> HIDE DEF hits
  <2>2. \E i \in hits : \A j \in hits : i <= j
    <3>1. \A m \in 1..7 : m \in hits /\ (\A i \in 1..7 : i < m => i \notin hits) =>
            \A j \in hits : m <= j
      BY <2>1
    <3>2. \E m \in 1..7 : m \in hits /\ \A i \in 1..7 : i < m => i \notin hits
      <4>1. 1 \in hits \/ 2 \in hits \/ 3 \in hits \/ 4 \in hits \/ 5 \in hits \/ 6 \in hits
            \/ 7 \in hits
        <5>1. PICK i \in 1..7 : i \in hits
          BY <1>2, <2>1
        <5>2. i \in {1, 2, 3, 4, 5, 6, 7}
          OBVIOUS
        <5>3. QED
          BY <5>1, <5>2
      <4>2. QED
        BY <4>1
    <3>3. QED
      BY <3>1, <3>2
  <2> DEFINE first == CHOOSE i \in hits : \A j \in hits : i <= j
  <2>3. first \in hits /\ \A j \in hits : first <= j
    BY <2>2
  <2>4. FirstOf(rules, marks, default) = rules[first].info
    BY <1>2 DEF FirstOf, hits
  <2> HIDE DEF first
  <2>5. QED
    BY <2>3, <2>4 DEF hits
<1>3. QED
  BY <1>1, <1>2

(* An error with a permanent rule that no retryable one precedes.          *)
LEMMA FirstIsFinal ==
  ASSUME NEW rules, NEW n \in 1..7, DOMAIN rules = 1..n, NEW marks, NEW default,
         NEW r \in 1..n, rules[r].mark \in marks, ~rules[r].info.retryable,
         \A i \in 1..n : i < r /\ rules[i].info.retryable => rules[i].mark \notin marks
  PROVE  ~FirstOf(rules, marks, default).retryable
<1>0. FirstApplies(rules, n, marks, default)
  BY FirstRule
<1>1. PICK i \in 1..n :
        /\ rules[i].mark \in marks /\ FirstOf(rules, marks, default) = rules[i].info
        /\ \A j \in 1..n : rules[j].mark \in marks => i <= j
  BY <1>0 DEF FirstApplies
<1>2. i = r \/ i < r
  BY <1>1
<1>3. QED
  BY <1>1, <1>2

(* An error that none of the rules applies to.                             *)
LEMMA NoRule ==
  ASSUME NEW rules, NEW n \in 1..7, DOMAIN rules = 1..n, NEW marks, NEW default,
         \A i \in 1..n : rules[i].mark \notin marks
  PROVE  FirstOf(rules, marks, default) = default
  BY FirstRule DEF FirstApplies

LEMMA BaseIsFinal ==
  ASSUME NEW e, e.kind = "text", NEW m \in {"quota", "auth", "model"}, m \in e.marks,
         m = "auth" => "rate" \notin e.marks,
         m = "model" => "rate" \notin e.marks /\ "service" \notin e.marks
  PROVE  ~BaseClassify(e).retryable
<1>0. DOMAIN BaseRules = 1..7 /\ BaseClassify(e) = FirstOf(BaseRules, e.marks, Unknown)
  BY DEF BaseRules, BaseClassify
<1>1. /\ BaseRules[1] = Rule("quota", "quota_exceeded", FALSE)
      /\ BaseRules[2] = Rule("rate", "rate_limited", TRUE)
      /\ BaseRules[3] = Rule("auth", "authentication_failed", FALSE)
      /\ BaseRules[4] = Rule("service", "service_unavailable", TRUE)
      /\ BaseRules[5] = Rule("model", "model_not_available", FALSE)
  BY DEF BaseRules
<1>2. /\ BaseRules[1].mark = "quota" /\ ~BaseRules[1].info.retryable
      /\ BaseRules[2].mark = "rate"
      /\ BaseRules[3].mark = "auth" /\ ~BaseRules[3].info.retryable
      /\ BaseRules[4].mark = "service"
      /\ BaseRules[5].mark = "model" /\ ~BaseRules[5].info.retryable
  BY <1>1 DEF Rule, Info
<1> DEFINE r == IF m = "quota" THEN 1 ELSE IF m = "auth" THEN 3 ELSE 5
<1>3. r \in 1..7 /\ BaseRules[r].mark \in e.marks /\ ~BaseRules[r].info.retryable
  BY <1>2
<1>4. ASSUME NEW i \in 1..7, i < r, BaseRules[i].info.retryable
      PROVE  BaseRules[i].mark \notin e.marks
  <2>1. i \in {1, 2, 3, 4}
    BY <1>4
  <2>2. QED
    BY <1>2, <1>4, <2>1
<1>5. QED
  BY <1>0, <1>3, <1>4, FirstIsFinal

(* No classifier calls a permanent failure retryable, but for its masks.   *)
PermanentError(classifier, e) ==
  /\ classifier # "nil" /\ e.kind = "text"
  /\ \E m \in e.marks \cap Permanent(classifier) : e.marks \cap Masks(classifier, m) = {}

LEMMA PermanentNotRetryable ==
  ASSUME NEW classifier, NEW e, PermanentError(classifier, e)
  PROVE  ~ClassifyError(classifier, e).retryable
<1>1. PICK m \in e.marks : m \in Permanent(classifier) /\ e.marks \cap Masks(classifier, m) = {}
  BY DEF PermanentError
<1>2. e.kind = "text" /\ m \in {"quota", "auth", "model", "creditBalance"}
      /\ (m = "creditBalance" => classifier = "claude")
  BY <1>1 DEF PermanentError, Permanent
<1>3. ~Unknown.retryable
  BY DEF Unknown, Info
<1>4. m = "auth" => "rate" \notin e.marks
  BY <1>1 DEF Masks
<1>5. CASE classifier = "codex"
  <2>1. ClassifyError(classifier, e) = FirstOf(CodexRules, e.marks, BaseClassify(e))
    BY <1>2, <1>5 DEF ClassifyError, CodexClassify
  <2>2. /\ DOMAIN CodexRules = 1..2 /\ CodexRules[1].mark = "model"
        /\ ~CodexRules[1].info.retryable /\ CodexRules[2].mark = "codexServer"
    BY DEF CodexRules, Rule, Info
  <2>3. CASE "model" \in e.marks
    <3>1. \A i \in 1..2 : ~(i < 1)
      OBVIOUS
    <3>2. ~FirstOf(CodexRules, e.marks, BaseClassify(e)).retryable
      BY <2>2, <2>3, <3>1, FirstIsFinal
    <3>3. QED
      BY <2>1, <3>2
  <2>4. CASE "model" \notin e.marks
    <3>1. m \in {"quota", "auth"} /\ "codexServer" \notin e.marks
      BY <1>1, <1>2, <1>5, <2>4 DEF Masks
    <3>2. \A i \in 1..2 : CodexRules[i].mark \notin e.marks
      BY <2>2, <2>4, <3>1
    <3>3. FirstOf(CodexRules, e.marks, BaseClassify(e)) = BaseClassify(e)
      BY <2>2, <3>2, NoRule
    <3>4. QED
      BY <1>2, <1>4, <2>1, <3>1, <3>3, BaseIsFinal
  <2>5. QED
    BY <2>3, <2>4
<1>6. CASE classifier = "claude"
  <2>1. ClassifyError(classifier, e) = FirstOf(ClaudeRules, e.marks, BaseClassify(e))
    BY <1>2, <1>6 DEF ClassifyError, ClaudeClassify
  <2>2. /\ DOMAIN ClaudeRules = 1..5 /\ ClaudeRules[1].mark = "overloaded"
        /\ ClaudeRules[2].mark = "creditBalance" /\ ~ClaudeRules[2].info.retryable
        /\ ClaudeRules[3].mark = "startClaude" /\ ClaudeRules[4].mark = "brokenPipe"
        /\ ClaudeRules[5].mark = "stderr"
    BY DEF ClaudeRules, Rule, Info
  <2>3. "overloaded" \notin e.marks
    BY <1>1, <1>6 DEF Masks
  <2>4. CASE "creditBalance" \in e.marks
    <3>1. \A i \in 1..5 : i < 2 => ClaudeRules[i].mark \notin e.marks
      BY <2>2, <2>3
    <3>2. ~FirstOf(ClaudeRules, e.marks, BaseClassify(e)).retryable
      BY <2>2, <2>4, <3>1, FirstIsFinal
    <3>3. QED
      BY <2>1, <3>2
  <2>5. CASE "creditBalance" \notin e.marks
    <3>1. /\ m \in {"quota", "auth", "model"} /\ "startClaude" \notin e.marks
          /\ "brokenPipe" \notin e.marks /\ "stderr" \notin e.marks
      BY <1>1, <1>2, <1>6, <2>5 DEF Masks
    <3>2. \A i \in 1..5 : ClaudeRules[i].mark \notin e.marks
      <4>1. \A i \in 1..5 : i \in {1, 2, 3, 4, 5}
        OBVIOUS
      <4>2. QED
        BY <2>2, <2>3, <2>5, <3>1, <4>1
    <3>3. FirstOf(ClaudeRules, e.marks, BaseClassify(e)) = BaseClassify(e)
      BY <2>2, <3>2, NoRule
    <3>4. m = "model" => "rate" \notin e.marks /\ "service" \notin e.marks
      BY <1>1, <1>6 DEF Masks
    <3>5. QED
      BY <1>2, <1>4, <2>1, <3>1, <3>3, <3>4, BaseIsFinal
  <2>6. QED
    BY <2>4, <2>5
<1>7. CASE classifier = "base"
  <2>1. ClassifyError(classifier, e) = BaseClassify(e)
    BY <1>2, <1>7 DEF ClassifyError
  <2>2. m = "model" => "rate" \notin e.marks /\ "service" \notin e.marks
    BY <1>1, <1>7 DEF Masks
  <2>3. QED
    BY <1>2, <1>4, <1>7, <2>1, <2>2, BaseIsFinal
<1>8. CASE classifier \notin {"codex", "claude", "base"}
  BY <1>2, <1>3, <1>8 DEF ClassifyError
<1>9. QED
  BY <1>5, <1>6, <1>7, <1>8

(* What Execute has done where it is in its loop.                          *)
Wait == [delay : Nat, timer : Int]

AttemptInv ==
  /\ policy \in Policies /\ phase \in {"call", "wait", "done"}
  /\ failures \in Seq(Errors) /\ waits \in Seq(Wait) /\ delay \in Nat /\ attempt \in Nat
  /\ 1 <= attempt /\ attempt <= policy.maxAttempts
  /\ phase = "call" => Len(failures) = attempt - 1 /\ Len(waits) = attempt - 1
  /\ phase = "wait" =>
       Len(failures) = attempt /\ Len(waits) = attempt /\ attempt < policy.maxAttempts

(* The delay of the next wait follows from that of the last.               *)
DelayInv ==
  /\ phase = "call" =>
       delay = IF attempt = 1 THEN policy.initialDelay
               ELSE MinOf(waits[attempt - 1].delay * policy.multiplier, policy.maxDelay)
  /\ phase = "wait" => waits[attempt].delay = delay

RetryInv == AttemptInv /\ DelayInv /\ RetriesAreSound

LEMMA PolicyTypes ==
  ASSUME policy \in Policies
  PROVE  /\ policy.maxAttempts \in Nat /\ policy.maxAttempts >= 1
         /\ policy.initialDelay \in Nat /\ policy.maxDelay \in Nat /\ policy.multiplier \in Nat
  BY PoliciesAssumption

LEMMA InitRetry == RetryInit => RetryInv
<1> SUFFICES ASSUME RetryInit PROVE RetryInv
  OBVIOUS
<1>1. policy \in Policies /\ failures = <<>> /\ waits = <<>> /\ attempt = 1 /\ phase = "call"
      /\ delay = policy.initialDelay
  BY DEF RetryInit
<1>2. AttemptInv /\ DelayInv
  BY <1>1, PolicyTypes DEF AttemptInv, DelayInv
<1>3. AttemptsAreBounded
  BY <1>1, PolicyTypes DEF AttemptsAreBounded
<1>4. PermanentIsFinal /\ DelaysGrow
  BY <1>1 DEF PermanentIsFinal, DelaysGrow
<1>5. QED
  BY <1>2, <1>3, <1>4 DEF RetryInv, RetriesAreSound

(* A timer is set to the delay, or to a half and something of it.          *)
LEMMA DelaysOfTurn ==
  ASSUME AttemptInv, NEW d \in Delays
  PROVE  /\ [delay |-> delay, timer |-> d] \in Wait
         /\ IF policy.jitter THEN d \in (delay \div 2)..delay ELSE d = delay
<1>1. delay \in Nat /\ delay \div 2 \in Nat /\ 2 * (delay \div 2) <= delay
  BY DEF AttemptInv
<1>2. CASE policy.jitter
  <2>1. PICK j \in 0..(delay \div 2 - 1) : d = delay \div 2 + j
    BY <1>2 DEF Delays, Jittered
  <2>2. d \in (delay \div 2)..delay
    BY <1>1, <2>1
  <2>3. QED
    BY <1>1, <1>2, <2>2 DEF Wait
<1>3. CASE ~policy.jitter
  BY <1>1, <1>3 DEF Delays, Wait
<1>4. QED
  BY <1>2, <1>3

LEMMA NextRetry == RetryInv /\ [RetryNext]_retryVars => RetryInv'
<1> SUFFICES ASSUME RetryInv, [RetryNext]_retryVars PROVE RetryInv'
  OBVIOUS
<1>0. AttemptInv /\ DelayInv /\ AttemptsAreBounded /\ PermanentIsFinal /\ DelaysGrow
  BY DEF RetryInv, RetriesAreSound
<1>1. /\ policy \in Policies /\ policy.maxAttempts \in Nat /\ policy.maxAttempts >= 1
      /\ failures \in Seq(Errors) /\ waits \in Seq(Wait) /\ Len(failures) \in Nat
      /\ Len(waits) \in Nat /\ attempt \in Nat /\ delay \in Nat
  BY <1>0, PolicyTypes DEF AttemptInv
<1>2. CASE CallSucceeds
  <2>1. AttemptInv' /\ DelayInv'
    BY <1>0, <1>2 DEF CallSucceeds, Finish, AttemptInv, DelayInv
  <2>2. AttemptsAreBounded' /\ DelaysGrow'
    BY <1>0, <1>2 DEF CallSucceeds, Finish, AttemptsAreBounded, DelaysGrow
  <2>3. PermanentIsFinal'
    BY <1>0, <1>2 DEF CallSucceeds, Finish, PermanentIsFinal
  <2>4. QED
    BY <2>1, <2>2, <2>3 DEF RetryInv, RetriesAreSound
<1>3. CASE CallFails
  <2>0. phase = "call" /\ UNCHANGED <<policy, attempt, delay>>
    BY <1>3 DEF CallFails
  <2>1. PICK e \in Errors :
          /\ failures' = Append(failures, e)
          /\ \/ /\ ~ShouldRetry(policy.classifier, policy.categories, e) /\ UNCHANGED waits
                /\ phase' = "done" /\ outcome'.kind = "error"
                /\ outcome'.info = ClassifyError(policy.classifier, e)
             \/ /\ ShouldRetry(policy.classifier, policy.categories, e) /\ UNCHANGED waits
                /\ phase' = "done"
             \/ /\ ShouldRetry(policy.classifier, policy.categories, e) /\ phase' = "wait"
                /\ attempt < policy.maxAttempts
                /\ \E d \in Delays : waits' = Append(waits, [delay |-> delay, timer |-> d])
    <3>1. PICK e \in Errors :
            /\ failures' = Append(failures, e)
            /\ IF ~ShouldRetry(policy.classifier, policy.categories, e)
                 THEN Finish("error", ClassifyError(policy.classifier, e)) /\ UNCHANGED waits
               ELSE IF attempt >= policy.maxAttempts
                 THEN Finish("exhausted", Unknown) /\ UNCHANGED waits
               ELSE IF Panics THEN Finish("panic", Unknown) /\ UNCHANGED waits
               ELSE /\ \E d \in Delays : waits' = Append(waits, [delay |-> delay, timer |-> d])
                    /\ phase' = "wait" /\ UNCHANGED outcome
      BY <1>3 DEF CallFails
    <3>2. CASE ~ShouldRetry(policy.classifier, policy.categories, e)
      BY <3>1, <3>2 DEF Finish
    <3>3. CASE ShouldRetry(policy.classifier, policy.categories, e) /\ attempt >= policy.maxAttempts
      BY <3>1, <3>3 DEF Finish
    <3>4. CASE /\ ShouldRetry(policy.classifier, policy.categories, e)
               /\ attempt < policy.maxAttempts /\ Panics
      BY <1>1, <3>1, <3>4 DEF Finish
    <3>5. CASE /\ ShouldRetry(policy.classifier, policy.categories, e)
               /\ attempt < policy.maxAttempts /\ ~Panics
      <4>1. /\ \E d \in Delays : waits' = Append(waits, [delay |-> delay, timer |-> d])
            /\ phase' = "wait"
        BY <1>1, <3>1, <3>5
      <4>2. QED
        BY <3>1, <3>5, <4>1
    <3>6. attempt >= policy.maxAttempts \/ attempt < policy.maxAttempts
      BY <1>1
    <3>7. QED
      BY <3>1, <3>2, <3>3, <3>4, <3>5, <3>6, Zenon
  <2>2. /\ failures' \in Seq(Errors) /\ Len(failures') = Len(failures) + 1
        /\ DOMAIN failures' = 1..(Len(failures) + 1) /\ failures'[Len(failures) + 1] = e
        /\ \A i \in DOMAIN failures : failures'[i] = failures[i]
        /\ DOMAIN failures = 1..Len(failures)
    BY <1>1, <2>1
  <2>3. \/ waits' = waits /\ phase' = "done"
        \/ /\ waits' \in Seq(Wait) /\ Len(waits') = Len(waits) + 1
           /\ \A i \in DOMAIN waits : waits'[i] = waits[i]
           /\ waits'[Len(waits) + 1].delay = delay
           /\ LET d == waits'[Len(waits) + 1].timer IN
              IF policy.jitter THEN d \in (delay \div 2)..delay ELSE d = delay
           /\ phase' = "wait" /\ attempt < policy.maxAttempts
    <3>1. ASSUME NEW d \in Delays, waits' = Append(waits, [delay |-> delay, timer |-> d])
          PROVE  /\ waits' \in Seq(Wait) /\ Len(waits') = Len(waits) + 1
                 /\ \A i \in DOMAIN waits : waits'[i] = waits[i]
                 /\ waits'[Len(waits) + 1] = [delay |-> delay, timer |-> d]
                 /\ IF policy.jitter THEN d \in (delay \div 2)..delay ELSE d = delay
      BY <1>0, <1>1, <3>1, DelaysOfTurn
    <3>2. CASE UNCHANGED waits /\ phase' = "done"
      BY <3>2
    <3>3. CASE /\ phase' = "wait" /\ attempt < policy.maxAttempts
               /\ \E d \in Delays : waits' = Append(waits, [delay |-> delay, timer |-> d])
      <4>1. PICK d \in Delays : waits' = Append(waits, [delay |-> delay, timer |-> d])
        BY <3>3
      <4>2. QED
        BY <3>1, <3>3, <4>1
    <3>4. QED
      BY <2>1, <3>2, <3>3
  <2>4. /\ Len(failures) = attempt - 1 /\ Len(waits) = attempt - 1 /\ attempt >= 1
        /\ attempt <= policy.maxAttempts /\ policy' = policy
        /\ delay = IF attempt = 1 THEN policy.initialDelay
                   ELSE MinOf(waits[attempt - 1].delay * policy.multiplier, policy.maxDelay)
    BY <1>0, <1>1, <2>0 DEF AttemptInv, DelayInv
  <2>5. AttemptInv' /\ DelayInv'
    <3>1. AttemptInv'
      BY <1>0, <1>1, <2>0, <2>2, <2>3, <2>4 DEF AttemptInv
    <3>2. DelayInv'
      BY <1>1, <2>0, <2>3, <2>4 DEF DelayInv
    <3>3. QED
      BY <3>1, <3>2
  <2>6. AttemptsAreBounded'
    <3>1. Len(failures') = attempt /\ Len(waits') \in {attempt - 1, attempt}
          /\ (phase' = "wait" => Len(waits') = attempt)
      BY <1>1, <2>2, <2>3, <2>4
    <3>2. QED
      BY <1>1, <2>4, <3>1 DEF AttemptsAreBounded
  <2>7. DelaysGrow'
    <3>1. CASE waits' = waits
      BY <1>0, <2>0, <3>1 DEF DelaysGrow
    <3>2. CASE waits' # waits
      <4> SUFFICES ASSUME NEW i \in DOMAIN waits'
                   PROVE  /\ waits'[i].delay = IF i = 1 THEN policy.initialDelay
                               ELSE MinOf(waits'[i - 1].delay * policy.multiplier, policy.maxDelay)
                          /\ IF policy.jitter
                             THEN waits'[i].timer \in (waits'[i].delay \div 2)..waits'[i].delay
                             ELSE waits'[i].timer = waits'[i].delay
        BY <2>0 DEF DelaysGrow
      <4>1. CASE i \in DOMAIN waits
        <5>1. i # 1 => i - 1 \in DOMAIN waits
          BY <1>1, <4>1
        <5>2. waits'[i] = waits[i] /\ (i # 1 => waits'[i - 1] = waits[i - 1])
          BY <2>3, <3>2, <4>1, <5>1
        <5>3. QED
          BY <1>0, <4>1, <5>2 DEF DelaysGrow
      <4>2. CASE i = attempt
        <5>1. i # 1 => i - 1 \in DOMAIN waits
          BY <1>1, <2>4, <4>2
        <5>2. /\ i = Len(waits) + 1 /\ (i # 1 => waits'[i - 1] = waits[i - 1])
          BY <1>1, <2>3, <2>4, <3>2, <4>2, <5>1
        <5>3. QED
          BY <2>3, <2>4, <3>2, <4>2, <5>2
      <4>3. QED
        BY <1>1, <2>3, <2>4, <3>2, <4>1, <4>2
    <3>3. QED
      BY <3>1, <3>2
  <2>8. PermanentIsFinal'
    <3> SUFFICES ASSUME NEW i \in DOMAIN failures', PermanentError(policy.classifier, failures'[i])
                 PROVE  i = Len(failures') /\ phase' = "done" /\ outcome'.kind = "error"
                        /\ ~outcome'.info.retryable
      BY <2>0 DEF PermanentIsFinal, PermanentError
    <3>1. CASE i \in DOMAIN failures
      BY <1>0, <2>0, <2>2, <3>1 DEF PermanentIsFinal, PermanentError
    <3>2. CASE i = Len(failures) + 1
      <4>1. ~ClassifyError(policy.classifier, e).retryable
        BY <2>2, <3>2, PermanentNotRetryable
      <4>2. ~ShouldRetry(policy.classifier, policy.categories, e)
        BY <4>1 DEF ShouldRetry
      <4>3. QED
        BY <2>1, <2>2, <3>2, <4>1, <4>2
    <3>3. QED
      BY <1>1, <2>2, <3>1, <3>2
  <2>9. QED
    BY <2>5, <2>6, <2>7, <2>8 DEF RetryInv, RetriesAreSound
<1>4. CASE WaitEnds
  <2>0. /\ phase = "wait" /\ phase' = "call" /\ attempt' = attempt + 1
        /\ delay' = MinOf(delay * policy.multiplier, policy.maxDelay)
        /\ UNCHANGED <<policy, failures, waits, outcome>>
    BY <1>4 DEF WaitEnds
  <2>1. delay' \in Nat
    <3>1. policy.multiplier \in Nat /\ policy.maxDelay \in Nat
      BY <1>1, PolicyTypes
    <3>2. delay * policy.multiplier \in Nat
      BY <1>1, <3>1
    <3>3. QED
      BY <2>0, <3>1, <3>2 DEF MinOf
  <2>2. AttemptInv'
    BY <1>0, <1>1, <2>0, <2>1 DEF AttemptInv
  <2>3. DelayInv'
    <3>1. waits[attempt].delay = delay /\ attempt' # 1 /\ attempt' - 1 = attempt
      BY <1>0, <1>1, <2>0 DEF DelayInv, AttemptInv
    <3>2. QED
      BY <2>0, <3>1 DEF DelayInv
  <2>4. AttemptsAreBounded' /\ DelaysGrow'
    BY <1>0, <2>0 DEF AttemptsAreBounded, DelaysGrow
  <2>5. PermanentIsFinal'
    BY <1>0, <2>0 DEF PermanentIsFinal
  <2>6. QED
    BY <2>2, <2>3, <2>4, <2>5 DEF RetryInv, RetriesAreSound
<1>5. CASE WaitCancelled
  <2>1. AttemptInv' /\ DelayInv'
    BY <1>0, <1>5 DEF WaitCancelled, Finish, AttemptInv, DelayInv
  <2>2. AttemptsAreBounded' /\ DelaysGrow'
    BY <1>0, <1>5 DEF WaitCancelled, Finish, AttemptsAreBounded, DelaysGrow
  <2>3. PermanentIsFinal'
    BY <1>0, <1>5 DEF WaitCancelled, Finish, PermanentIsFinal
  <2>4. QED
    BY <2>1, <2>2, <2>3 DEF RetryInv, RetriesAreSound
<1>6. CASE Cancel
  <2>1. UNCHANGED <<policy, attempt, delay, phase, failures, waits, outcome>>
    BY <1>6 DEF Cancel
  <2>2. QED
    BY <1>0, <2>1
    DEF RetryInv, RetriesAreSound, AttemptInv, DelayInv, AttemptsAreBounded, DelaysGrow,
        PermanentIsFinal
<1>7. CASE UNCHANGED retryVars
  BY <1>0, <1>7
  DEF retryVars, RetryInv, RetriesAreSound, AttemptInv, DelayInv, AttemptsAreBounded, DelaysGrow,
      PermanentIsFinal
<1>8. QED
  BY <1>2, <1>3, <1>4, <1>5, <1>6, <1>7 DEF RetryNext, Execute

(***************************************************************************)
(* The stream that is made of a channel.                                   *)
(***************************************************************************)

(* The log grows; an event is received that is for the consumer, or not.   *)
LEMMA GivesLonger ==
  ASSUME NEW S, NEW l \in Seq(S), NEW s \in Seq(S), NEW n \in 0..Len(l), NEW e \in S,
         Gives(l, s, n)
  PROVE  Gives(Append(l, e), s, n)
<1> DEFINE w == Append(l, e)
<1>1. \A i \in 1..n : w[i] = l[i]
  OBVIOUS
<1> HIDE DEF w
<1>2. PICK from \in [DOMAIN s -> 1..n] :
        /\ \A i, j \in DOMAIN s : i < j => from[i] < from[j]
        /\ \A i \in DOMAIN s : s[i] = l[from[i]] /\ ForConsumer(s[i])
        /\ \A k \in 1..n : ForConsumer(l[k]) => \E i \in DOMAIN s : from[i] = k
  BY DEF Gives
<1>3. \A i \in DOMAIN s : s[i] = w[from[i]] /\ ForConsumer(s[i])
  BY <1>1, <1>2
<1>4. \A k \in 1..n : ForConsumer(w[k]) => \E i \in DOMAIN s : from[i] = k
  BY <1>1, <1>2
<1>5. QED
  BY <1>2, <1>3, <1>4 DEF Gives, w

LEMMA GivesSkipped ==
  ASSUME NEW S, NEW l \in Seq(S), NEW s \in Seq(S), NEW n \in Nat, n < Len(l),
         ~ForConsumer(l[n + 1]), Gives(l, s, n)
  PROVE  Gives(l, s, n + 1)
<1>1. PICK from \in [DOMAIN s -> 1..n] :
        /\ \A i, j \in DOMAIN s : i < j => from[i] < from[j]
        /\ \A i \in DOMAIN s : s[i] = l[from[i]] /\ ForConsumer(s[i])
        /\ \A k \in 1..n : ForConsumer(l[k]) => \E i \in DOMAIN s : from[i] = k
  BY DEF Gives
<1>2. from \in [DOMAIN s -> 1..(n + 1)]
  BY <1>1
<1>3. \A k \in 1..(n + 1) : ForConsumer(l[k]) => \E i \in DOMAIN s : from[i] = k
  BY <1>1
<1>4. QED
  BY <1>1, <1>2, <1>3 DEF Gives

LEMMA GivesNext ==
  ASSUME NEW S, NEW l \in Seq(S), NEW s \in Seq(S), NEW n \in Nat, n < Len(l),
         ForConsumer(l[n + 1]), Gives(l, s, n)
  PROVE  Gives(l, Append(s, l[n + 1]), n + 1)
<1>1. PICK from \in [DOMAIN s -> 1..n] :
        /\ \A i, j \in DOMAIN s : i < j => from[i] < from[j]
        /\ \A i \in DOMAIN s : s[i] = l[from[i]] /\ ForConsumer(s[i])
        /\ \A k \in 1..n : ForConsumer(l[k]) => \E i \in DOMAIN s : from[i] = k
  BY DEF Gives
<1> DEFINE t == Append(s, l[n + 1])
           m == Len(s)
           more == [i \in DOMAIN t |-> IF i \in DOMAIN s THEN from[i] ELSE n + 1]
<1>2. /\ DOMAIN s = 1..m /\ DOMAIN t = 1..(m + 1) /\ m \in Nat
      /\ \A i \in DOMAIN s : t[i] = s[i]
      /\ t[m + 1] = l[n + 1]
  OBVIOUS
<1> HIDE DEF t, m
<1>3. /\ \A i \in DOMAIN s : i \in DOMAIN t /\ more[i] = from[i] /\ from[i] \in 1..n
      /\ more[m + 1] = n + 1 /\ m + 1 \in DOMAIN t /\ m + 1 \notin DOMAIN s
      /\ \A i \in DOMAIN t : i \in DOMAIN s \/ i = m + 1
  BY <1>1, <1>2
<1>4. more \in [DOMAIN t -> 1..(n + 1)]
  BY <1>3
<1> HIDE DEF more
<1>5. \A i, j \in DOMAIN t : i < j => more[i] < more[j]
  <2> SUFFICES ASSUME NEW i \in DOMAIN t, NEW j \in DOMAIN t, i < j PROVE more[i] < more[j]
    OBVIOUS
  <2>1. CASE i \in DOMAIN s /\ j \in DOMAIN s
    BY <1>1, <1>3, <2>1
  <2>2. CASE i \in DOMAIN s /\ j = m + 1
    BY <1>3, <2>2
  <2>3. CASE i = m + 1
    BY <1>2, <2>3
  <2>4. QED
    BY <1>3, <2>1, <2>2, <2>3
<1>6. \A i \in DOMAIN t : t[i] = l[more[i]] /\ ForConsumer(t[i])
  BY <1>1, <1>2, <1>3
<1>7. \A k \in 1..(n + 1) : ForConsumer(l[k]) => \E i \in DOMAIN t : more[i] = k
  <2> SUFFICES ASSUME NEW k \in 1..(n + 1), ForConsumer(l[k])
               PROVE  \E i \in DOMAIN t : more[i] = k
    OBVIOUS
  <2>1. CASE k \in 1..n
    BY <1>1, <1>3, <2>1
  <2>2. CASE k = n + 1
    BY <1>3, <2>2
  <2>3. QED
    BY <2>1, <2>2
<1>8. QED
  BY <1>4, <1>5, <1>6, <1>7 DEF Gives, t

(* v is what the last of a kind among the first n events of l says.        *)
Noted(l, n, kind, v) ==
  \/ v = 0 /\ \A i \in 1..n : l[i].kind # kind
  \/ \E i \in 1..n : /\ l[i].kind = kind /\ v = l[i].n
                     /\ \A j \in 1..n : i < j => l[j].kind # kind

Numbers == {0} \cup {e.n : e \in Sent}

Events == Sent \cup {Event("ctx", 0)}
            \cup [kind : {"finish"}, n : {0}, usage : Numbers, reason : Numbers]

ChannelInv ==
  /\ log \in Seq(Sent) /\ taken \in 0..Len(log) /\ yielded \in Seq(Events)
  /\ usage \in Numbers /\ reason \in Numbers
  /\ over \in {"no", "ctx", "stopped", "finish", "closed"}
  /\ Gives(log, Given, taken)
  /\ Noted(log, taken, "usage", usage) /\ Noted(log, taken, "reason", reason)
  /\ over = "closed" =>
       /\ closed /\ taken = Len(log)
       /\ onFinish => yielded # <<>> /\ yielded[Len(yielded)] = FinishEvent

LEMMA InitChannel == ChannelInit => ChannelInv
<1> SUFFICES ASSUME ChannelInit PROVE ChannelInv
  OBVIOUS
<1>1. /\ log = <<>> /\ taken = 0 /\ Given = <<>> /\ usage = 0 /\ reason = 0
      /\ yielded = <<>> /\ over = "no"
  BY DEF ChannelInit, Given
<1>2. Gives(log, Given, taken)
  <2>1. [i \in {} |-> 0] \in [DOMAIN Given -> 1..taken]
    BY <1>1
  <2>2. DOMAIN Given = {} /\ 1..taken = {}
    BY <1>1
  <2>3. QED
    BY <2>1, <2>2 DEF Gives
<1>3. Noted(log, taken, "usage", usage) /\ Noted(log, taken, "reason", reason)
  BY <1>1 DEF Noted
<1>4. QED
  BY <1>1, <1>2, <1>3 DEF ChannelInv, Numbers

LEMMA FrontOfAppend ==
  ASSUME NEW S, NEW s \in Seq(S), NEW e \in S
  PROVE  /\ Append(s, e) \in Seq(S) /\ Append(s, e) # <<>>
         /\ Append(s, e)[Len(Append(s, e))] = e
         /\ SubSeq(Append(s, e), 1, Len(Append(s, e)) - 1) = s
<1>1. Len(Append(s, e)) = Len(s) + 1 /\ Len(s) \in Nat
  OBVIOUS
<1>2. SubSeq(Append(s, e), 1, Len(s)) = s
  OBVIOUS
<1>3. Len(Append(s, e)) - 1 = Len(s)
  BY <1>1
<1>4. QED
  BY <1>1, <1>2, <1>3

(* A call of yield gives the consumer one event more.                      *)
LEMMA YieldEffect ==
  ASSUME ChannelInv, over = "no", NEW e \in Events, NEW then, Yield(e, then)
  PROVE  /\ yielded \in Seq(Events) /\ yielded' \in Seq(Events) /\ yielded' = Append(yielded, e)
         /\ yielded' # <<>> /\ yielded'[Len(yielded')] = e
         /\ SubSeq(yielded', 1, Len(yielded') - 1) = yielded
         /\ Given = yielded /\ over' \in {then, IF then = "no" THEN "stopped" ELSE then}
  BY FrontOfAppend DEF ChannelInv, Given, Yield

(* What was noted stays so when more is sent, and when an event of another *)
(* kind is received; one of the kind takes its place.                      *)
LEMMA NotedLonger ==
  ASSUME NEW l, NEW m, NEW n \in Nat, \A i \in 1..n : m[i] = l[i], NEW kind, NEW v,
         Noted(l, n, kind, v)
  PROVE  Noted(m, n, kind, v)
<1>1. CASE v = 0 /\ \A i \in 1..n : l[i].kind # kind
  BY <1>1 DEF Noted
<1>2. CASE \E i \in 1..n : /\ l[i].kind = kind /\ v = l[i].n
                         /\ \A j \in 1..n : i < j => l[j].kind # kind
  BY <1>2 DEF Noted
<1>3. QED
  BY <1>1, <1>2 DEF Noted

LEMMA NotedNext ==
  ASSUME NEW l, NEW n \in Nat, NEW kind, NEW v, Noted(l, n, kind, v),
         NEW w, w = IF l[n + 1].kind = kind THEN l[n + 1].n ELSE v
  PROVE  Noted(l, n + 1, kind, w)
<1>0. 1..(n + 1) = 1..n \cup {n + 1} /\ \A j \in 1..(n + 1) : ~(n + 1 < j)
  OBVIOUS
<1>1. CASE l[n + 1].kind = kind
  BY <1>0, <1>1 DEF Noted
<1>2. CASE l[n + 1].kind # kind
  BY <1>0, <1>2 DEF Noted
<1>3. QED
  BY <1>1, <1>2

LEMMA NextChannel == ChannelInv /\ [ChannelNext]_channelVars => ChannelInv'
<1> SUFFICES ASSUME ChannelInv, [ChannelNext]_channelVars PROVE ChannelInv'
  OBVIOUS
<1>0. /\ log \in Seq(Sent) /\ log \in Seq(Events) /\ taken \in 0..Len(log) /\ taken \in Nat
      /\ yielded \in Seq(Events) /\ usage \in Numbers /\ reason \in Numbers
      /\ Gives(log, Given, taken)
      /\ Noted(log, taken, "usage", usage) /\ Noted(log, taken, "reason", reason)
      /\ Given \in Seq(Events) /\ Sent \subseteq Events
  <2>1. Sent \subseteq Events
    BY DEF Events
  <2>2. yielded \in Seq(Events) /\ log \in Seq(Sent)
    BY DEF ChannelInv
  <2>3. Given \in Seq(Events)
    <3>1. CASE Given = yielded
      BY <2>2, <3>1
    <3>2. CASE Given # yielded
      <4>1. Given = SubSeq(yielded, 1, Len(yielded) - 1) /\ yielded # <<>>
        BY <3>2 DEF Given, ChannelInv
      <4>2. QED
        BY <2>2, <4>1
    <3>3. QED
      BY <3>1, <3>2
  <2>4. QED
    BY <2>1, <2>2, <2>3 DEF ChannelInv
<1>1. CASE Send
  <2>1. PICK e \in Sent : log' = Append(log, e)
    BY <1>1 DEF Send
  <2>2. /\ UNCHANGED <<taken, closed, ended, onFinish, usage, reason, yielded, over>>
        /\ ~closed /\ Given' = Given
    BY <1>1 DEF Send, Given
  <2>3. /\ log' \in Seq(Sent) /\ Len(log') = Len(log) + 1
        /\ \A i \in 1..taken : log'[i] = log[i]
    BY <1>0, <2>1
  <2>4. Gives(log', Given', taken')
    BY <1>0, <2>1, <2>2, GivesLonger
  <2>5. Noted(log', taken, "usage", usage) /\ Noted(log', taken, "reason", reason)
    BY <1>0, <2>3, NotedLonger
  <2>6. QED
    BY <1>0, <2>2, <2>3, <2>4, <2>5 DEF ChannelInv
<1>2. CASE CloseChannel
  BY <1>2 DEF CloseChannel, ChannelInv, Given, FinishEvent
<1>3. CASE EndContext
  BY <1>3 DEF EndContext, ChannelInv, Given, FinishEvent
<1>4. CASE Done
  <2>1. /\ over = "no" /\ Yield(Event("ctx", 0), "ctx") /\ Event("ctx", 0) \in Events
        /\ UNCHANGED <<log, taken, closed, ended, onFinish, usage, reason>>
    BY <1>4 DEF Done, Events
  <2>2. /\ yielded' \in Seq(Events) /\ over' = "ctx"
        /\ SubSeq(yielded', 1, Len(yielded') - 1) = Given
    BY <2>1, YieldEffect
  <2>3. Given' = Given
    BY <2>2 DEF Given
  <2>4. Noted(log', taken', "usage", usage') /\ Noted(log', taken', "reason", reason')
    BY <1>0, <2>1
  <2>5. QED
    BY <1>0, <2>1, <2>2, <2>3, <2>4 DEF ChannelInv
<1>5. CASE Receive
  <2> DEFINE e == log[taken + 1]
  <2>0. /\ over = "no" /\ taken < Len(log) /\ taken' = taken + 1 /\ Note(e)
        /\ UNCHANGED <<log, closed, ended, onFinish>>
        /\ CASE e.kind \in {"usage", "reason"} -> UNCHANGED <<yielded, over>>
             [] e.kind \in {"text", "bad"} -> Yield(e, "no")
             [] e.kind = "finish" -> Yield(e, "finish")
    BY <1>5 DEF Receive
  <2>1. /\ e \in Sent /\ e \in Events /\ Given = yielded
        /\ e.kind \in {"usage", "reason", "text", "bad", "finish"}
    BY <1>0, <2>0, SentAssumption DEF Given
  <2> HIDE DEF e
  <2>2. usage' \in Numbers /\ reason' \in Numbers
    BY <1>0, <2>0, <2>1 DEF Note, Numbers
  <2>3. Noted(log', taken', "usage", usage')
    <3>1. usage' = IF e.kind = "usage" THEN e.n ELSE usage
      BY <2>0 DEF Note
    <3>2. Noted(log, taken + 1, "usage", usage')
      BY <1>0, <3>1, NotedNext DEF e
    <3>3. QED
      BY <2>0, <3>2
  <2>4. Noted(log', taken', "reason", reason')
    <3>1. reason' = IF e.kind = "reason" THEN e.n ELSE reason
      BY <2>0 DEF Note
    <3>2. Noted(log, taken + 1, "reason", reason')
      BY <1>0, <3>1, NotedNext DEF e
    <3>3. QED
      BY <2>0, <3>2
  <2>5. /\ yielded' \in Seq(Events) /\ over' \in {"no", "stopped", "finish"}
        /\ Gives(log', Given', taken')
    <3>1. CASE e.kind \in {"usage", "reason"}
      <4>1. UNCHANGED <<yielded, over>> /\ ~ForConsumer(e) /\ Given' = Given
        BY <2>0, <3>1 DEF ForConsumer, Given
      <4>2. Gives(log, Given, taken + 1)
        BY <1>0, <2>0, <4>1, GivesSkipped DEF e
      <4>3. QED
        BY <1>0, <2>0, <4>1, <4>2
    <3>2. CASE e.kind \in {"text", "bad", "finish"}
      <4>1. PICK then \in {"no", "finish"} : Yield(e, then)
        BY <2>0, <3>2
      <4>2. /\ yielded' \in Seq(Events) /\ yielded' = Append(yielded, e)
            /\ over' \in {"no", "stopped", "finish"}
        BY <2>0, <2>1, <4>1, YieldEffect
      <4>3. Given' = Append(Given, e) /\ ForConsumer(e)
        BY <2>1, <3>2, <4>2 DEF Given, ForConsumer
      <4>4. Gives(log, Append(Given, e), taken + 1)
        BY <1>0, <2>0, <4>3, GivesNext DEF e
      <4>5. QED
        BY <2>0, <4>2, <4>3, <4>4
    <3>3. QED
      BY <2>1, <3>1, <3>2
  <2>6. taken' \in 0..Len(log)
    BY <1>0, <2>0
  <2>7. QED
    BY <1>0, <2>0, <2>2, <2>3, <2>4, <2>5, <2>6 DEF ChannelInv
<1>6. CASE Drained
  <2>1. /\ over = "no" /\ closed /\ taken = Len(log) /\ FinishEvent \in Events
        /\ UNCHANGED <<log, taken, closed, ended, onFinish, usage, reason>>
        /\ FinishEvent' = FinishEvent
    BY <1>0, <1>6 DEF Drained, FinishEvent, Events
  <2>2. /\ yielded' \in Seq(Events) /\ over' = "closed" /\ Given' = Given
        /\ onFinish => yielded' # <<>> /\ yielded'[Len(yielded')] = FinishEvent
    <3>1. CASE onFinish
      <4>1. Yield(FinishEvent, "closed")
        BY <1>6, <3>1 DEF Drained
      <4>2. /\ yielded' \in Seq(Events) /\ over' = "closed"
            /\ yielded' # <<>> /\ yielded'[Len(yielded')] = FinishEvent
            /\ SubSeq(yielded', 1, Len(yielded') - 1) = Given
        BY <2>1, <4>1, YieldEffect
      <4>3. QED
        BY <2>1, <3>1, <4>2 DEF Given
    <3>2. CASE ~onFinish
      BY <1>0, <1>6, <2>1, <3>2 DEF Drained, Given
    <3>3. QED
      BY <3>1, <3>2
  <2>3. Noted(log', taken', "usage", usage') /\ Noted(log', taken', "reason", reason')
    BY <1>0, <2>1
  <2>4. QED
    BY <1>0, <2>1, <2>2, <2>3 DEF ChannelInv
<1>7. CASE UNCHANGED channelVars
  BY <1>7 DEF channelVars, ChannelInv, Given, FinishEvent
<1>8. QED
  BY <1>1, <1>2, <1>3, <1>4, <1>5, <1>6, <1>7 DEF ChannelNext

(* At the end of the log, the last that was received is the last.          *)
LEMMA NotedIsLast ==
  ASSUME ChannelInv, taken = Len(log), NEW kind, NEW v, Noted(log, taken, kind, v)
  PROVE  v = LastOf(kind)
<1> DEFINE at == {i \in DOMAIN log : log[i].kind = kind}
<1>0. DOMAIN log = 1..taken /\ taken \in Nat
  BY DEF ChannelInv
<1>1. CASE at = {}
  BY <1>0, <1>1 DEF Noted, LastOf
<1>2. CASE at # {}
  <2>1. PICK i \in at : v = log[i].n /\ \A j \in at : j <= i
    BY <1>0, <1>2 DEF Noted
  <2>2. at \subseteq Nat
    BY <1>0
  <2> HIDE DEF at
  <2>3. (CHOOSE x \in at : \A j \in at : j <= x) = i
    <3> DEFINE x == CHOOSE x \in at : \A j \in at : j <= x
    <3>1. x \in at /\ \A j \in at : j <= x
      BY <2>1
    <3> HIDE DEF x
    <3>2. x <= i /\ i <= x /\ x \in Nat /\ i \in Nat
      BY <2>1, <2>2, <3>1
    <3>3. x = i
      BY <3>2
    <3>4. QED
      BY <3>3 DEF x
  <2>4. QED
    BY <1>2, <2>1, <2>3 DEF LastOf, at
<1>3. QED
  BY <1>1, <1>2

LEMMA ChannelIsFaithful == ChannelInv => StreamIsFaithful
<1> SUFFICES ASSUME ChannelInv PROVE StreamIsFaithful
  OBVIOUS
<1>1. Gives(log, Given, taken)
  BY DEF ChannelInv
<1>2. ASSUME over = "closed"
      PROVE  taken = Len(log) /\ usage = LastOf("usage") /\ reason = LastOf("reason")
  BY <1>2, NotedIsLast DEF ChannelInv
<1>3. ASSUME over = "closed", onFinish
      PROVE  /\ yielded[Len(yielded)].usage = usage /\ yielded[Len(yielded)].reason = reason
  BY <1>3 DEF ChannelInv, FinishEvent
<1>4. QED
  BY <1>1, <1>2, <1>3 DEF StreamIsFaithful

(***************************************************************************)
(* The accounts of tokens.                                                 *)
(***************************************************************************)

Records   == [tokens : Int, sum : Int]
LastSum(s) == IF s = <<>> THEN 0 ELSE s[Len(s)].sum

(* The records of an account, one of whose counters is n.                  *)
SumInv(s, n) == s \in Seq(Records) /\ n \in Int /\ AddsUp(s) /\ n = LastSum(s)

(* r is s and one more record, whose sum is m.                             *)
Grows(s, r, m) ==
  /\ DOMAIN s = 1..Len(s) /\ DOMAIN r = 1..(Len(s) + 1) /\ Len(s) \in Nat
  /\ r[Len(s) + 1].sum = m /\ \A i \in DOMAIN s : r[i] = s[i]

LEMMA AddsUpNext ==
  ASSUME NEW s, NEW n, SumInv(s, n), NEW t \in Int, NEW m \in Int, m = n + t
  PROVE  LET r == Append(s, [tokens |-> t, sum |-> m]) IN
         SumInv(r, m) /\ Grows(s, r, m)
<1> DEFINE r == Append(s, [tokens |-> t, sum |-> m])
<1>1. s \in Seq(Records) /\ [tokens |-> t, sum |-> m] \in Records /\ Len(s) \in Nat
  BY DEF SumInv, Records
<1>2. /\ r \in Seq(Records) /\ DOMAIN r = 1..(Len(s) + 1) /\ DOMAIN s = 1..Len(s)
      /\ r[Len(s) + 1] = [tokens |-> t, sum |-> m] /\ \A i \in DOMAIN s : r[i] = s[i]
      /\ Len(r) = Len(s) + 1 /\ r # <<>>
  BY <1>1
<1> HIDE DEF r
<1>3. m = LastSum(r)
  BY <1>1, <1>2 DEF LastSum
<1>4. ASSUME NEW i \in DOMAIN r
      PROVE  r[i].sum = r[i].tokens + (IF i = 1 THEN 0 ELSE r[i - 1].sum)
  <2>1. CASE i \in DOMAIN s
    <3>1. i # 1 => i - 1 \in DOMAIN s
      BY <1>1, <1>2, <2>1
    <3>2. QED
      BY <1>2, <2>1, <3>1 DEF SumInv, AddsUp
  <2>2. CASE i = Len(s) + 1
    <3>1. CASE s = <<>>
      BY <1>1, <1>2, <2>2, <3>1 DEF SumInv, LastSum
    <3>2. CASE s # <<>>
      <4>1. Len(s) \in DOMAIN s /\ i - 1 = Len(s) /\ i # 1
        BY <1>1, <1>2, <2>2, <3>2
      <4>2. n = s[Len(s)].sum
        BY <3>2 DEF SumInv, LastSum
      <4>3. r[i].sum = m /\ r[i].tokens = t
        BY <1>2, <2>2
      <4>4. r[i - 1].sum = n
        BY <1>2, <4>1, <4>2
      <4>5. n \in Int
        BY DEF SumInv
      <4>6. QED
        BY <4>1, <4>3, <4>4, <4>5
    <3>3. QED
      BY <3>1, <3>2
  <2>3. QED
    BY <1>1, <1>2, <2>1, <2>2
<1>5. SumInv(r, m)
  BY <1>2, <1>3, <1>4 DEF SumInv, AddsUp
<1>6. Grows(s, r, m)
  BY <1>1, <1>2 DEF Grows
<1>7. QED
  BY <1>5, <1>6 DEF r

(* An alert that is sent once: nothing has reached its limit and nothing   *)
(* was sent, or the first record that did is what was sent.                *)
OnceInv(fired, sent, reached) ==
  \/ ~fired /\ reached = {} /\ sent = <<>>
  \/ fired /\ \E c \in reached : sent = <<c>> /\ \A j \in reached : c <= j

LEMMA OnceIsEarliest ==
  ASSUME NEW fired, NEW sent, NEW reached \in SUBSET Nat, OnceInv(fired, sent, reached)
  PROVE  Len(sent) <= 1 /\ {sent[i] : i \in DOMAIN sent} = Earliest(reached)
<1>1. CASE reached = {} /\ sent = <<>>
  BY <1>1 DEF Earliest
<1>2. ASSUME NEW c \in reached, sent = <<c>>, \A j \in reached : c <= j
      PROVE  Len(sent) <= 1 /\ {sent[i] : i \in DOMAIN sent} = Earliest(reached)
  <2>1. Len(sent) = 1 /\ {sent[i] : i \in DOMAIN sent} = {c}
    BY <1>2
  <2>2. \A i \in Earliest(reached) : i = c
    BY <1>2 DEF Earliest
  <2>3. c \in Earliest(reached)
    BY <1>2 DEF Earliest
  <2>4. Earliest(reached) = {c}
    BY <2>2, <2>3
  <2>5. QED
    BY <2>1, <2>4
<1>3. QED
  BY <1>1, <1>2 DEF OnceInv

(* The next record reaches the limit, or not.                              *)
LEMMA OnceNext ==
  ASSUME NEW n \in Nat, NEW fired \in BOOLEAN, NEW sent, NEW reached \in SUBSET (1..n),
         OnceInv(fired, sent, reached), NEW hit \in BOOLEAN
  PROVE  LET more == IF hit THEN reached \cup {n + 1} ELSE reached IN
         OnceInv(fired \/ hit, IF ~fired /\ hit THEN Append(sent, n + 1) ELSE sent, more)
<1>1. CASE ~fired
  <2>1. reached = {} /\ sent = <<>> /\ Append(<<>>, n + 1) = <<n + 1>>
    BY <1>1 DEF OnceInv
  <2>2. QED
    BY <1>1, <2>1 DEF OnceInv
<1>2. CASE fired
  <2>1. PICK c \in reached : sent = <<c>> /\ \A j \in reached : c <= j
    BY <1>2 DEF OnceInv
  <2>2. c <= n + 1
    BY <2>1
  <2>3. QED
    BY <1>2, <2>1, <2>2 DEF OnceInv
<1>3. QED
  BY <1>1, <1>2

(* The tracker's entries, and what each of them has reached.               *)
Entries == [threshold : Int, fired : BOOLEAN]
Reached(s, t) == {i \in DOMAIN s : s[i].sum >= t}

TrackerInv ==
  /\ counted.input \in Int /\ counted.output \in Int /\ SumInv(added, Total(counted))
  /\ thresholds \in Seq(Entries) /\ DOMAIN alerts = DOMAIN thresholds
  /\ \A k \in DOMAIN thresholds :
       OnceInv(thresholds[k].fired, alerts[k], Reached(added, thresholds[k].threshold))

LEMMA EntryTypes ==
  ASSUME NEW s \in Seq(Entries), NEW k \in DOMAIN s
  PROVE  s[k].threshold \in Int /\ s[k].fired \in BOOLEAN
<1>1. s[k] \in Entries
  OBVIOUS
<1>2. QED
  BY <1>1 DEF Entries

(* Nothing was added: after New and Reset.                                 *)
LEMMA TrackerEmpty ==
  ASSUME counted = [input |-> 0, output |-> 0], added = <<>>, thresholds \in Seq(Entries),
         \A k \in DOMAIN thresholds : ~thresholds[k].fired,
         alerts = [i \in DOMAIN thresholds |-> <<>>]
  PROVE  TrackerInv
<1>1. SumInv(added, Total(counted))
  BY DEF SumInv, AddsUp, LastSum, Total
<1>2. \A t : Reached(added, t) = {}
  BY DEF Reached
<1>3. QED
  BY <1>1, <1>2 DEF TrackerInv, OnceInv

LEMMA InitTracker == UsageInit => TrackerInv
<1> SUFFICES ASSUME UsageInit PROVE TrackerInv
  OBVIOUS
<1>1. PICK l \in Thresholds : NewTokenTracker(l)
  BY DEF UsageInit
<1>2. l \in Seq(Int)
  BY TokensAssumption
<1>3. thresholds = [i \in 1..Len(l) |-> [threshold |-> l[i], fired |-> FALSE]]
  BY <1>1, <1>2 DEF NewTokenTracker
<1>4. thresholds \in Seq(Entries)
  BY <1>2, <1>3 DEF Entries
<1>5. QED
  BY <1>1, <1>2, <1>3, <1>4, TrackerEmpty DEF NewTokenTracker

LEMMA NextTracker == TrackerInv /\ [UsageNext]_usageVars => TrackerInv'
<1> SUFFICES ASSUME TrackerInv, [UsageNext]_usageVars PROVE TrackerInv'
  OBVIOUS
<1>1. ASSUME NEW u \in Usages, Add(u) PROVE TrackerInv'
  <2> DEFINE n == Total(counted) + Total(u)
             hit(k) == n >= thresholds[k].threshold
  <2>1. /\ u.input \in Int /\ u.output \in Int /\ counted.input \in Int /\ counted.output \in Int
        /\ Total(u) \in Int /\ Total(counted) \in Int /\ n \in Int
    BY TokensAssumption DEF TrackerInv, Total
  <2>2. /\ counted'.input \in Int /\ counted'.output \in Int /\ Total(counted') = n
        /\ counted' = [input |-> counted.input + u.input, output |-> counted.output + u.output]
    <3>1. counted' = [input |-> counted.input + u.input, output |-> counted.output + u.output]
      BY <1>1 DEF Add
    <3>2. Total(counted') = (counted.input + u.input) + (counted.output + u.output)
      BY <3>1 DEF Total
    <3>3. n = (counted.input + counted.output) + (u.input + u.output)
      BY DEF Total
    <3>4. QED
      BY <2>1, <3>1, <3>2, <3>3
  <2>3. added' = Append(added, [tokens |-> Total(u), sum |-> n])
    BY <1>1, <2>2 DEF Add
  <2> HIDE DEF n
  <2>4. /\ SumInv(added', n) /\ DOMAIN added' = 1..(Len(added) + 1) /\ Len(added) \in Nat
        /\ DOMAIN added = 1..Len(added) /\ added'[Len(added) + 1].sum = n
        /\ \A i \in DOMAIN added : added'[i] = added[i]
    BY <2>1, <2>3, AddsUpNext DEF TrackerInv, n, Grows
  <2>5. /\ DOMAIN thresholds' = DOMAIN thresholds /\ DOMAIN alerts' = DOMAIN thresholds
        /\ \A k \in DOMAIN thresholds :
             /\ thresholds'[k].threshold = thresholds[k].threshold
             /\ thresholds'[k].fired = (thresholds[k].fired \/ hit(k))
             /\ alerts'[k] = IF ~thresholds[k].fired /\ hit(k)
                             THEN Append(alerts[k], Len(added) + 1) ELSE alerts[k]
    BY <1>1, <2>2 DEF Add, TrackerInv
  <2>6. thresholds' \in Seq(Entries)
    <3>1. \A k \in DOMAIN thresholds :
            /\ thresholds[k].threshold \in Int /\ thresholds[k].fired \in BOOLEAN
      BY EntryTypes DEF TrackerInv
    <3>2. thresholds' \in [1..Len(thresholds) -> Entries] /\ Len(thresholds) \in Nat
      BY <1>1, <3>1 DEF TrackerInv, Add, Entries
    <3>3. QED
      BY <3>2
  <2>7. ASSUME NEW k \in DOMAIN thresholds
        PROVE  OnceInv(thresholds'[k].fired, alerts'[k], Reached(added', thresholds'[k].threshold))
    <3> DEFINE t == thresholds[k].threshold
               f == thresholds[k].fired
    <3>1. t \in Int /\ f \in BOOLEAN /\ OnceInv(f, alerts[k], Reached(added, t))
      BY EntryTypes DEF TrackerInv
    <3>2. Reached(added', t) = IF hit(k) THEN Reached(added, t) \cup {Len(added) + 1}
                               ELSE Reached(added, t)
      BY <2>4, <3>1 DEF Reached
    <3>3. Reached(added, t) \in SUBSET (1..Len(added)) /\ hit(k) \in BOOLEAN
      BY <2>4 DEF Reached
    <3>4. /\ thresholds'[k].threshold = t /\ thresholds'[k].fired = (f \/ hit(k))
          /\ alerts'[k] = IF ~f /\ hit(k) THEN Append(alerts[k], Len(added) + 1) ELSE alerts[k]
      BY <2>5
    <3> DEFINE h == hit(k)
               more == IF h THEN Reached(added, t) \cup {Len(added) + 1} ELSE Reached(added, t)
               then == IF ~f /\ h THEN Append(alerts[k], Len(added) + 1) ELSE alerts[k]
    <3>5. h \in BOOLEAN /\ Len(added) \in Nat
      BY <2>4, <3>3
    <3> HIDE DEF t, f, hit, h
    <3>6. OnceInv(f \/ h, then, more)
      BY <3>1, <3>3, <3>5, OnceNext
    <3>7. Reached(added', t) = more /\ alerts'[k] = then
      BY <3>2, <3>4 DEF h
    <3>8. thresholds'[k].threshold = t /\ thresholds'[k].fired = (f \/ h)
      BY <3>4 DEF h
    <3> HIDE DEF more, then
    <3>9. QED
      BY <3>6, <3>7, <3>8, Zenon
  <2>8. QED
    BY <2>2, <2>4, <2>5, <2>6, <2>7 DEF TrackerInv
<1>2. CASE ResetTracker
  <2>1. /\ thresholds' = [i \in DOMAIN thresholds |->
             [threshold |-> thresholds[i].threshold, fired |-> FALSE]]
        /\ counted' = [input |-> 0, output |-> 0] /\ added' = <<>>
        /\ alerts' = [i \in DOMAIN thresholds |-> <<>>]
    BY <1>2 DEF ResetTracker
  <2>2. \A k \in DOMAIN thresholds : thresholds[k].threshold \in Int
    BY EntryTypes DEF TrackerInv
  <2>3. thresholds' \in [1..Len(thresholds) -> Entries] /\ Len(thresholds) \in Nat
    BY <2>1, <2>2 DEF TrackerInv, Entries
  <2>4. /\ thresholds' \in Seq(Entries) /\ DOMAIN thresholds' = DOMAIN thresholds
        /\ \A k \in DOMAIN thresholds' : ~thresholds'[k].fired
    BY <2>1, <2>3
  <2>5. SumInv(added', Total(counted')) /\ counted'.input \in Int /\ counted'.output \in Int
    BY <2>1 DEF SumInv, AddsUp, LastSum, Total
  <2>6. \A t : Reached(added', t) = {}
    BY <2>1 DEF Reached
  <2>7. \A k \in DOMAIN thresholds' : alerts'[k] = <<>>
    BY <2>1, <2>4
  <2>8. DOMAIN alerts' = DOMAIN thresholds'
    BY <2>1, <2>4
  <2>9. QED
    BY <2>4, <2>5, <2>6, <2>7, <2>8 DEF TrackerInv, OnceInv
<1>3. CASE UNCHANGED trackerVars
  BY <1>3 DEF trackerVars, TrackerInv
<1>4. QED
  BY <1>1, <1>2, <1>3 DEF UsageNext, Record, ResetMonitor, usageVars

(* The alerts of the monitor: those of a history s that reached the        *)
(* warning, the one warning sent for them, and the critical ones.          *)
Alerts == [call : Int, used : Int]
ReachesWarning(n, b) == IF b = 0 THEN 0 >= WarnAt ELSE n * 100 >= WarnAt * b
Warned(s, b) == {i \in DOMAIN s : ReachesWarning(s[i].sum, b)}
Exceeded(s, b) == {i \in DOMAIN s : s[i].sum >= b}

NotWarned(sent, s, b)  == Warned(s, b) = {} /\ sent = <<>>
WarnedOnce(sent, s, b) == \E c \in Warned(s, b) : /\ sent = <<[call |-> c, used |-> s[c].sum]>>
                                                  /\ \A j \in Warned(s, b) : c <= j

EachCritical(sent, s, b) ==
  /\ sent \in Seq(Alerts)
  /\ \A i \in DOMAIN sent : /\ sent[i].call \in Exceeded(s, b)
                            /\ sent[i].used = s[sent[i].call].sum
  /\ \A c \in Exceeded(s, b) : \E i \in DOMAIN sent : sent[i].call = c
  /\ \A i, j \in DOMAIN sent : i < j => sent[i].call < sent[j].call

MonitorInv ==
  /\ SumInv(history, used) /\ budget \in Int /\ warningFired \in BOOLEAN
  /\ warningFired => WarnedOnce(warnings, history, budget)
  /\ ~warningFired => NotWarned(warnings, history, budget)
  /\ EachCritical(criticals, history, budget)
  /\ refusals = Exceeded(history, budget)

LEMMA WarnedNext ==
  ASSUME NEW s, NEW r, NEW m, Grows(s, r, m), NEW b, NEW sent
  PROVE  /\ NotWarned(sent, s, b) =>
              IF ReachesWarning(m, b)
              THEN WarnedOnce(Append(sent, [call |-> Len(s) + 1, used |-> m]), r, b)
              ELSE NotWarned(sent, r, b)
         /\ WarnedOnce(sent, s, b) => WarnedOnce(sent, r, b)
<1> DEFINE n == Len(s)
           hit == ReachesWarning(m, b)
           a == [call |-> n + 1, used |-> m]
<1>0. /\ n \in Nat /\ DOMAIN s = 1..n /\ DOMAIN r = 1..(n + 1) /\ r[n + 1].sum = m
      /\ \A i \in DOMAIN s : r[i] = s[i]
  BY DEF Grows
<1> HIDE DEF n
<1>1. Warned(r, b) = IF hit THEN Warned(s, b) \cup {n + 1} ELSE Warned(s, b)
  <2>1. \A i \in DOMAIN s : ReachesWarning(r[i].sum, b) <=> ReachesWarning(s[i].sum, b)
    BY <1>0
  <2>2. ReachesWarning(r[n + 1].sum, b) <=> hit
    BY <1>0
  <2>3. DOMAIN r = DOMAIN s \cup {n + 1} /\ n + 1 \notin DOMAIN s
    BY <1>0
  <2> HIDE DEF hit
  <2>4. QED
    BY <2>1, <2>2, <2>3 DEF Warned
<1>2. Warned(s, b) \subseteq 1..n
  BY <1>0 DEF Warned
<1>3. hit \in BOOLEAN
  <2>1. CASE b = 0
    BY <2>1 DEF ReachesWarning
  <2>2. CASE b # 0
    BY <2>2 DEF ReachesWarning
  <2>3. QED
    BY <2>1, <2>2
<1>4. ASSUME NotWarned(sent, s, b)
      PROVE  IF hit THEN WarnedOnce(Append(sent, a), r, b) ELSE NotWarned(sent, r, b)
  <2>1. Warned(s, b) = {} /\ sent = <<>> /\ Append(<<>>, a) = <<a>>
    BY <1>4 DEF NotWarned
  <2> HIDE DEF hit
  <2>2. CASE hit
    <3>1. Warned(r, b) = {n + 1}
      BY <1>1, <2>1, <2>2
    <3>2. \E c \in Warned(r, b) : /\ <<a>> = <<[call |-> c, used |-> r[c].sum]>>
                                  /\ \A j \in Warned(r, b) : c <= j
      BY <1>0, <3>1
    <3>3. QED
      BY <2>1, <2>2, <3>2 DEF WarnedOnce
  <2>3. CASE ~hit
    <3>1. Warned(r, b) = {}
      BY <1>1, <2>1, <2>3
    <3>2. QED
      BY <2>1, <2>3, <3>1 DEF NotWarned
  <2>4. QED
    BY <1>3, <2>2, <2>3
<1>5. ASSUME WarnedOnce(sent, s, b) PROVE WarnedOnce(sent, r, b)
  <2>1. PICK c \in Warned(s, b) : /\ sent = <<[call |-> c, used |-> s[c].sum]>>
                                  /\ \A j \in Warned(s, b) : c <= j
    BY <1>5 DEF WarnedOnce
  <2>2. c \in Warned(r, b) /\ r[c].sum = s[c].sum /\ \A j \in Warned(r, b) : c <= j
    BY <1>0, <1>1, <1>2, <2>1
  <2>3. \E d \in Warned(r, b) : /\ sent = <<[call |-> d, used |-> r[d].sum]>>
                                /\ \A j \in Warned(r, b) : d <= j
    BY <2>1, <2>2
  <2>4. QED
    BY <2>3 DEF WarnedOnce
<1>6. QED
  BY <1>4, <1>5 DEF n

LEMMA CriticalNext ==
  ASSUME NEW s, NEW r, NEW m \in Int, Grows(s, r, m), NEW b, NEW sent, EachCritical(sent, s, b)
  PROVE  /\ Exceeded(r, b) = IF m >= b THEN Exceeded(s, b) \cup {Len(s) + 1} ELSE Exceeded(s, b)
         /\ EachCritical(IF m >= b THEN Append(sent, [call |-> Len(s) + 1, used |-> m]) ELSE sent,
                         r, b)
<1> DEFINE n == Len(s)
           a == [call |-> n + 1, used |-> m]
<1>0. /\ n \in Nat /\ DOMAIN s = 1..n /\ DOMAIN r = 1..(n + 1) /\ r[n + 1].sum = m
      /\ \A i \in DOMAIN s : r[i] = s[i]
  BY DEF Grows
<1> HIDE DEF n
<1>1. Exceeded(r, b) = IF m >= b THEN Exceeded(s, b) \cup {n + 1} ELSE Exceeded(s, b)
  BY <1>0 DEF Exceeded
<1>2. Exceeded(s, b) \subseteq 1..n /\ a \in Alerts /\ sent \in Seq(Alerts)
  BY <1>0 DEF Exceeded, Alerts, EachCritical
<1>3. \A i \in DOMAIN sent : /\ sent[i].call \in Exceeded(s, b)
                             /\ sent[i].used = r[sent[i].call].sum
  BY <1>0, <1>2 DEF EachCritical
<1>4. CASE ~(m >= b)
  BY <1>1, <1>3, <1>4 DEF EachCritical
<1>5. CASE m >= b
  <2> DEFINE more == Append(sent, a)
  <2>1. /\ more \in Seq(Alerts) /\ DOMAIN more = 1..(Len(sent) + 1) /\ DOMAIN sent = 1..Len(sent)
        /\ Len(sent) \in Nat /\ more[Len(sent) + 1] = a
        /\ \A i \in DOMAIN sent : more[i] = sent[i]
    BY <1>2
  <2> HIDE DEF more
  <2>2. \A i \in DOMAIN more : /\ more[i].call \in Exceeded(r, b)
                               /\ more[i].used = r[more[i].call].sum
    <3> TAKE i \in DOMAIN more
    <3>1. CASE i \in DOMAIN sent
      BY <1>1, <1>3, <1>5, <2>1, <3>1
    <3>2. CASE i = Len(sent) + 1
      BY <1>0, <1>1, <1>5, <2>1, <3>2
    <3>3. QED
      BY <2>1, <3>1, <3>2
  <2>3. ASSUME NEW c \in Exceeded(r, b) PROVE \E i \in DOMAIN more : more[i].call = c
    <3>1. CASE c \in Exceeded(s, b)
      <4>1. PICK i \in DOMAIN sent : sent[i].call = c
        BY <3>1 DEF EachCritical
      <4>2. i \in DOMAIN more /\ more[i].call = c
        BY <2>1, <4>1
      <4>3. QED
        BY <4>2
    <3>2. CASE c = n + 1
      <4>1. Len(sent) + 1 \in DOMAIN more /\ more[Len(sent) + 1].call = c
        BY <2>1, <3>2
      <4>2. QED
        BY <4>1
    <3>3. QED
      BY <1>1, <1>5, <3>1, <3>2
  <2>4. ASSUME NEW i \in DOMAIN more, NEW j \in DOMAIN more, i < j
        PROVE  more[i].call < more[j].call
    <3>1. i \in DOMAIN sent /\ more[i].call = sent[i].call /\ sent[i].call \in 1..n
      BY <1>2, <1>3, <2>1, <2>4
    <3>2. CASE j \in DOMAIN sent
      BY <2>1, <2>4, <3>1, <3>2 DEF EachCritical
    <3>3. CASE j = Len(sent) + 1
      BY <1>0, <2>1, <3>1, <3>3
    <3>4. QED
      BY <2>1, <3>2, <3>3
  <2>5. EachCritical(more, r, b)
    BY <2>1, <2>2, <2>3, <2>4 DEF EachCritical
  <2>6. QED
    BY <1>1, <1>5, <2>5 DEF more, n
<1>6. QED
  BY <1>1, <1>4, <1>5 DEF n

(* After New and Reset.                                                    *)
LEMMA NothingYet ==
  ASSUME NEW b
  PROVE  /\ SumInv(<<>>, 0) /\ NotWarned(<<>>, <<>>, b) /\ EachCritical(<<>>, <<>>, b)
         /\ Exceeded(<<>>, b) = {}
<1>1. SumInv(<<>>, 0)
  BY DEF SumInv, AddsUp, LastSum
<1>2. Warned(<<>>, b) = {} /\ Exceeded(<<>>, b) = {}
  BY DEF Warned, Exceeded
<1>3. NotWarned(<<>>, <<>>, b)
  BY <1>2 DEF NotWarned
<1>4. EachCritical(<<>>, <<>>, b)
  BY <1>2 DEF EachCritical
<1>5. QED
  BY <1>1, <1>2, <1>3, <1>4

LEMMA InitMonitor == UsageInit => MonitorInv
<1> SUFFICES ASSUME UsageInit PROVE MonitorInv
  OBVIOUS
<1>1. PICK b \in Budgets : NewCostMonitor(b)
  BY DEF UsageInit
<1>2. QED
  BY <1>1, TokensAssumption, NothingYet DEF NewCostMonitor, MonitorInv

LEMMA NextMonitor == MonitorInv /\ [UsageNext]_usageVars => MonitorInv'
<1> SUFFICES ASSUME MonitorInv, [UsageNext]_usageVars PROVE MonitorInv'
  OBVIOUS
<1>1. ASSUME NEW u \in Usages, TrackUsage(u) PROVE MonitorInv'
  <2> DEFINE m == used + u.total
             n == Len(history)
             warns == ReachesWarning(m, budget) /\ ~warningFired
             alert == [call |-> n + 1, used |-> m]
  <2>1. u.total \in Int /\ used \in Int /\ m \in Int /\ budget' = budget
    BY <1>1, TokensAssumption DEF MonitorInv, SumInv, TrackUsage
  <2>2. used' = m /\ history' = Append(history, [tokens |-> u.total, sum |-> m])
    BY <1>1 DEF TrackUsage
  <2>3. /\ warningFired' = (warningFired \/ warns)
        /\ warnings' = IF warns THEN Append(warnings, alert) ELSE warnings
    BY <1>1 DEF TrackUsage, ReachedPercent, ReachesWarning
  <2>4. /\ criticals' = IF m >= budget THEN Append(criticals, alert) ELSE criticals
        /\ refusals' = IF m >= budget THEN refusals \cup {n + 1} ELSE refusals
    BY <1>1 DEF TrackUsage
  <2>5. SumInv(history', m) /\ Grows(history, history', m)
    BY <2>1, <2>2, AddsUpNext DEF MonitorInv
  <2> HIDE DEF m
  <2>6. /\ NotWarned(warnings, history, budget) =>
             IF ReachesWarning(m, budget) THEN WarnedOnce(Append(warnings, alert), history', budget)
             ELSE NotWarned(warnings, history', budget)
        /\ WarnedOnce(warnings, history, budget) => WarnedOnce(warnings, history', budget)
    BY <2>5, WarnedNext
  <2>7. /\ Exceeded(history', budget) = IF m >= budget THEN Exceeded(history, budget) \cup {n + 1}
                                        ELSE Exceeded(history, budget)
        /\ EachCritical(IF m >= budget THEN Append(criticals, alert) ELSE criticals,
                        history', budget)
    BY <2>1, <2>5, CriticalNext DEF MonitorInv
  <2>8. warningFired' \in BOOLEAN /\ budget' \in Int /\ SumInv(history', used')
    BY <2>1, <2>2, <2>3, <2>5 DEF MonitorInv, m
  <2> HIDE DEF alert
  <2>9. /\ warningFired' => WarnedOnce(warnings', history', budget')
        /\ ~warningFired' => NotWarned(warnings', history', budget')
    <3>1. CASE warningFired
      BY <2>1, <2>3, <2>6, <3>1 DEF MonitorInv
    <3>2. CASE ~warningFired
      BY <2>1, <2>3, <2>6, <3>2 DEF MonitorInv
    <3>3. QED
      BY <3>1, <3>2
  <2>10. EachCritical(criticals', history', budget') /\ refusals' = Exceeded(history', budget')
    BY <2>1, <2>4, <2>7 DEF MonitorInv
  <2>11. QED
    BY <2>8, <2>9, <2>10 DEF MonitorInv
<1>2. CASE ResetMonitor
  BY <1>2, NothingYet DEF ResetMonitor, MonitorInv
<1>3. CASE UNCHANGED monitorVars
  BY <1>3 DEF monitorVars, MonitorInv
<1>4. QED
  BY <1>1, <1>2, <1>3 DEF UsageNext, Record, ResetTracker, usageVars

-----------------------------------------------------------------------------
(* The helpers together: a step of one leaves the others alone.            *)
LEMMA InitOfEach == Init => ManagerInit /\ RetryInit /\ UsageInit /\ ChannelInit
  BY DEF Init

LEMMA NextOfEach ==
  [Next]_vars =>
    /\ [ManagerNext]_managerVars /\ [RetryNext]_retryVars
    /\ [UsageNext]_usageVars /\ [ChannelNext]_channelVars
<1> SUFFICES ASSUME [Next]_vars
             PROVE  /\ ManagerNext \/ UNCHANGED managerVars
                    /\ RetryNext \/ UNCHANGED retryVars
                    /\ UsageNext \/ UNCHANGED usageVars
                    /\ ChannelNext \/ UNCHANGED channelVars
  OBVIOUS
<1>1. CASE Next
  BY <1>1 DEF Next
<1>2. CASE UNCHANGED vars
  BY <1>2 DEF vars
<1>3. QED
  BY <1>1, <1>2

LEMMA TrackerAlerts == TrackerInv => TrackerAlertsOnce
<1> SUFFICES ASSUME TrackerInv PROVE TrackerAlertsOnce
  OBVIOUS
<1>1. ASSUME NEW k \in DOMAIN thresholds
      PROVE  LET reached == Reached(added, thresholds[k].threshold) IN
             /\ Len(alerts[k]) <= 1
             /\ {alerts[k][i] : i \in DOMAIN alerts[k]} = Earliest(reached)
  <2>1. Reached(added, thresholds[k].threshold) \in SUBSET Nat
    BY DEF TrackerInv, SumInv, Reached
  <2>2. QED
    BY <2>1, OnceIsEarliest DEF TrackerInv
<1>2. AddsUp(added)
  BY DEF TrackerInv, SumInv
<1>3. QED
  BY <1>1, <1>2 DEF TrackerAlertsOnce, Reached

LEMMA WarnedIsEarliest ==
  ASSUME NEW s \in Seq(Records), NEW b, NEW sent, NotWarned(sent, s, b) \/ WarnedOnce(sent, s, b)
  PROVE  /\ Len(sent) <= 1 /\ {sent[i].call : i \in DOMAIN sent} = Earliest(Warned(s, b))
         /\ \A i \in DOMAIN sent : sent[i].used = s[sent[i].call].sum
<1>1. CASE NotWarned(sent, s, b)
  <2>1. sent = <<>> /\ Warned(s, b) = {}
    BY <1>1 DEF NotWarned
  <2>2. Len(sent) = 0 /\ DOMAIN sent = {} /\ Earliest(Warned(s, b)) = {}
    BY <2>1 DEF Earliest
  <2>3. QED
    BY <2>2
<1>2. CASE WarnedOnce(sent, s, b)
  <2>1. PICK c \in Warned(s, b) : /\ sent = <<[call |-> c, used |-> s[c].sum]>>
                                  /\ \A j \in Warned(s, b) : c <= j
    BY <1>2 DEF WarnedOnce
  <2>2. Len(sent) = 1 /\ DOMAIN sent = {1} /\ sent[1].call = c /\ sent[1].used = s[c].sum
    BY <2>1
  <2>3. Warned(s, b) \subseteq Nat
    BY DEF Warned
  <2>4. Earliest(Warned(s, b)) = {c}
    BY <2>1, <2>3 DEF Earliest
  <2>5. QED
    BY <2>2, <2>4
<1>3. QED
  BY <1>1, <1>2

LEMMA MonitorAlerts == MonitorInv => MonitorAlertsOnce
<1> SUFFICES ASSUME MonitorInv PROVE MonitorAlertsOnce
  OBVIOUS
<1>1. {i \in DOMAIN history : ReachedPercent(history[i].sum, WarnAt)} = Warned(history, budget)
  BY DEF Warned, ReachedPercent, ReachesWarning
<1>2. AddsUp(history) /\ history \in Seq(Records)
  BY DEF MonitorInv, SumInv
<1>3. NotWarned(warnings, history, budget) \/ WarnedOnce(warnings, history, budget)
  BY DEF MonitorInv
<1>4. /\ Len(warnings) <= 1
      /\ {warnings[i].call : i \in DOMAIN warnings} = Earliest(Warned(history, budget))
      /\ \A i \in DOMAIN warnings : warnings[i].used = history[warnings[i].call].sum
  BY <1>2, <1>3, WarnedIsEarliest
<1>5. /\ {criticals[i].call : i \in DOMAIN criticals} = Exceeded(history, budget)
      /\ \A i, j \in DOMAIN criticals : i < j => criticals[i].call < criticals[j].call
      /\ \A i \in DOMAIN criticals : criticals[i].used = history[criticals[i].call].sum
  BY DEF MonitorInv, EachCritical
<1>6. refusals = {i \in DOMAIN history : history[i].sum >= budget}
      /\ refusals = Exceeded(history, budget)
  BY DEF MonitorInv, Exceeded
<1>7. ASSUME NEW i \in DOMAIN history
      PROVE  i \in refusals <=> ~WasAffordable(i) \/ history[i].sum = budget
  <2> DEFINE r == history[i]
  <2>1. r \in [tokens : Int, sum : Int] /\ budget \in Int
    <3>1. history \in Seq(Records) => history[i] \in Records
      OBVIOUS
    <3>2. QED
      BY <1>2, <3>1 DEF MonitorInv, Records
  <2>2. WasAffordable(i) <=> history[i].sum <= budget
    BY <2>1 DEF WasAffordable, CanAfford
  <2>3. QED
    BY <1>6, <2>1, <2>2
<1>8. QED
  BY <1>1, <1>2, <1>4, <1>5, <1>6, <1>7 DEF MonitorAlertsOnce

LEMMA ManagerOwns == ManagerInv => ManagerOwnsProcess
<1> SUFFICES ASSUME ManagerInv PROVE ConfigIsOwn /\ NothingLeftRunning
  BY DEF ManagerOwnsProcess
<1>1. ConfigIsOwn
  BY DEF ManagerInv, ReturnedInv, ConfigIsOwn
<1>2. NothingLeftRunning
  BY ManagerAssumption
  DEF ManagerInv, ManagerTypes, LockInv, RunningInv, NothingLeftRunning, Locked
<1>3. QED
  BY <1>1, <1>2

(* A process manager hands out processes of the right configuration only,  *)
(* and while no call is in progress leaves none running that Stop would    *)
(* not reach, except those SetProcess replaced (cli/config.go:88).         *)
THEOREM ManagerOwnsItsProcess == Spec => []ManagerOwnsProcess
<1>1. Init => ManagerInv
  BY InitOfEach, InitManager
<1>2. ManagerInv /\ [Next]_vars => ManagerInv'
  BY NextOfEach, NextManager
<1>3. QED
  BY <1>1, <1>2, ManagerOwns, PTL DEF Spec

(* Execute ends with the error of the first failure that is permanent,     *)
(* whatever the policy and the errors, unless the text of the failure also *)
(* says something its classifier takes for temporary first; it makes at    *)
(* most MaxAttempts calls, and waits between any two of them exactly once, *)
(* as long as the policy says (cli/retry.go:131, cli/errors.go, and the    *)
(* rules of both providers).                                               *)
THEOREM RetriesKeepToThePolicy == Spec => []RetriesAreSound
<1>1. Init => RetryInv
  BY InitOfEach, InitRetry
<1>2. RetryInv /\ [Next]_vars => RetryInv'
  BY NextOfEach, NextRetry
<1>3. RetryInv => RetriesAreSound
  BY DEF RetryInv
<1>4. QED
  BY <1>1, <1>2, <1>3, PTL DEF Spec

(* An alert is sent once for each limit, with the response that reached    *)
(* it, and again only after a reset, however many thresholds a tracker has *)
(* and whatever the budget and the responses (cli/tokens.go:88,            *)
(* openai-codex/cost_monitor.go:128).                                      *)
THEOREM AlertsAreSentOnce == Spec => []AlertsOnce
<1>1. Init => TrackerInv /\ MonitorInv
  BY InitOfEach, InitTracker, InitMonitor
<1>2. TrackerInv /\ [Next]_vars => TrackerInv'
  BY NextOfEach, NextTracker
<1>3. MonitorInv /\ [Next]_vars => MonitorInv'
  BY NextOfEach, NextMonitor
<1>4. TrackerInv /\ MonitorInv => AlertsOnce
  BY TrackerAlerts, MonitorAlerts DEF AlertsOnce
<1>5. QED
  BY <1>1, <1>2, <1>3, <1>4, PTL DEF Spec

(* A channel of events becomes a stream that gives the consumer what was   *)
(* sent for it, in order and once, up to where it ended; a finish event is *)
(* made only of all that was sent, with the last usage and reason          *)
(* (cli/stream.go).                                                        *)
THEOREM StreamsAreFaithful == Spec => []StreamIsFaithful
<1>1. Init => ChannelInv
  BY InitOfEach, InitChannel
<1>2. ChannelInv /\ [Next]_vars => ChannelInv'
  BY NextOfEach, NextChannel
<1>3. QED
  BY <1>1, <1>2, ChannelIsFaithful, PTL DEF Spec

=============================================================================
