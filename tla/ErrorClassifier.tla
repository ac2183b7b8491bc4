--------------------------- MODULE ErrorClassifier ---------------------------
(***************************************************************************)
(* The classification of errors by provider/internal/cli/errors.go and by  *)
(* the classifiers of the two CLI providers.  They look for phrases in the *)
(* text of an error, in an order that decides when an error has several.   *)
(* An error is a record [kind, marks, code, info]:                         *)
(*   "text"     an error of Go, with the groups of phrases in its text     *)
(*   "rpc"      a *jsonrpc.Error with a code, or an error that wraps one   *)
(*   "info"     an *ErrorInfo                                              *)
(*   "wrapped"  an error that wraps an *ErrorInfo, with its own text       *)
(***************************************************************************)
EXTENDS Integers, Sequences, FiniteSets

(* Groups of phrases, each named for the category or the words it stands   *)
(* for: quota (quota, credits, billing), rate (rate limit, 429), auth      *)
(* (authentication, 401), service (503, timeout, connection), model (model *)
(* ... not found), process (failed to start, process, cli), context        *)
(* (context canceled), and those of one provider.                          *)
Marks == {"quota", "rate", "auth", "service", "model", "process", "context",
          "overloaded", "creditBalance", "startClaude", "brokenPipe", "stderr", "codexServer"}

Codes == {429, 401, 503, -32600, -32602, -32603, 0}

Categories == {"quota_exceeded", "rate_limited", "service_unavailable", "authentication_failed",
               "invalid_request", "model_not_available", "process_failure", "context_canceled",
               "unknown"}

Info(c, r) == [category |-> c, retryable |-> r]
Infos == [category : Categories, retryable : BOOLEAN]
Unknown == Info("unknown", FALSE)

(* A rule: errors with this mark are of this category.                     *)
Rule(m, c, r) == [mark |-> m, info |-> Info(c, r)]

(* The first rule that applies, or else the default.                       *)
FirstOf(rules, marks, default) ==
  LET hits == {i \in DOMAIN rules : rules[i].mark \in marks} IN
  IF hits = {} THEN default
  ELSE rules[CHOOSE i \in hits : \A j \in hits : i <= j].info

(* A slip: rate limits are looked for before quotas, though a 429 is sent  *)
(* for both.                                                               *)
BaseRules_RateFirst ==
  <<Rule("rate", "rate_limited", TRUE),
    Rule("quota", "quota_exceeded", FALSE),
    Rule("auth", "authentication_failed", FALSE),
    Rule("service", "service_unavailable", TRUE),
    Rule("model", "model_not_available", FALSE),
    Rule("process", "process_failure", TRUE),
    Rule("context", "context_canceled", TRUE)>>

BaseRules ==
  <<Rule("quota", "quota_exceeded", FALSE),
    Rule("rate", "rate_limited", TRUE),
    Rule("auth", "authentication_failed", FALSE),
    Rule("service", "service_unavailable", TRUE),
    Rule("model", "model_not_available", FALSE),
    Rule("process", "process_failure", TRUE),
    Rule("context", "context_canceled", TRUE)>>

ClaudeRules ==
  <<Rule("overloaded", "service_unavailable", TRUE),
    Rule("creditBalance", "quota_exceeded", FALSE),
    Rule("startClaude", "process_failure", TRUE),
    Rule("brokenPipe", "process_failure", TRUE),
    Rule("stderr", "process_failure", TRUE)>>

CodexRules ==
  <<Rule("model", "model_not_available", FALSE),
    Rule("codexServer", "process_failure", TRUE)>>

(* BaseClassifier.Classify: only an *ErrorInfo itself is taken as it is.   *)
BaseClassify(e) ==
  IF e.kind = "info" THEN e.info ELSE FirstOf(BaseRules, e.marks, Unknown)

(* classifyJSONRPCError: by the code, and for two of them by the message.  *)
ClassifyRpc(e) ==
  CASE e.code = 429 /\ "quota" \in e.marks -> Info("quota_exceeded", FALSE)
    [] e.code = 429 /\ "quota" \notin e.marks -> Info("rate_limited", TRUE)
    [] e.code = 401 -> Info("authentication_failed", FALSE)
    [] e.code = 503 \/ e.code = -32603 -> Info("service_unavailable", TRUE)
    [] e.code \in {-32600, -32602} /\ "model" \in e.marks -> Info("model_not_available", FALSE)
    [] e.code \in {-32600, -32602} /\ "model" \notin e.marks -> Info("invalid_request", FALSE)
    [] OTHER -> Unknown

(* The providers look through wrapped errors, then at their own phrases.   *)
CodexClassify(e) ==
  CASE e.kind \in {"info", "wrapped"} -> e.info
    [] e.kind = "rpc" -> ClassifyRpc(e)
    [] OTHER -> FirstOf(CodexRules, e.marks, BaseClassify(e))

ClaudeClassify(e) ==
  IF e.kind \in {"info", "wrapped"} THEN e.info
  ELSE FirstOf(ClaudeRules, e.marks, BaseClassify(e))

(* classifyError of a retry policy, whose classifier is that of a provider *)
(* or nil.                                                                 *)
ClassifyError(classifier, e) ==
  CASE e.kind = "info" -> e.info
    [] e.kind # "info" /\ classifier = "codex" -> CodexClassify(e)
    [] e.kind # "info" /\ classifier = "claude" -> ClaudeClassify(e)
    [] e.kind # "info" /\ classifier = "base" -> BaseClassify(e)
    [] OTHER -> Unknown

(* shouldRetry, with the categories a policy says something about.         *)
ShouldRetry(classifier, categories, e) ==
  LET i == ClassifyError(classifier, e) IN
  i.retryable /\ (i.category \in DOMAIN categories => categories[i.category])

DefaultRetryableCategories ==
  [c \in {"rate_limited", "service_unavailable", "process_failure"} |-> TRUE]
=============================================================================
