---------------------------- MODULE MCCliHelpers ----------------------------
EXTENDS CliHelpers

CONSTANTS c1, c2, p1, p2, p3, k1, k2

Policy(classifier, attempts, initial, max, jitter, categories) ==
  [classifier |-> classifier, maxAttempts |-> attempts, initialDelay |-> initial,
   maxDelay |-> max, multiplier |-> 2, jitter |-> jitter, categories |-> categories]

(* One retry for every kind of error, and several for the delays: below,   *)
(* at and over the largest, and too short to be halved.                    *)
ThePolicies ==
  {Policy(c, 2, 4, 8, FALSE, DefaultRetryableCategories) : c \in {"claude", "codex", "base"}}
  \cup {Policy("codex", 2, 4, 8, FALSE, [DefaultRetryableCategories EXCEPT !["process_failure"] = FALSE])}
  \cup {Policy("nil", 4, i, m, j, DefaultRetryableCategories) : i \in {1, 2, 4}, m \in {3, 10}, j \in BOOLEAN}
  \cup {Policy("claude", 1, 4, 8, TRUE, DefaultRetryableCategories)}

Err(k, m, c, i) == [kind |-> k, marks |-> m, code |-> c, info |-> i]

TheErrors ==
  {Err("text", {a, b}, 0, Unknown) : a \in {"quota", "auth", "model", "creditBalance"}, b \in Marks}
  \cup {Err("text", m, 0, Unknown) : m \in {{}, {"rate"}, {"service"}, {"process"}, {"context"}, {"rate", "service"}}}
  \cup {Err("rpc", m, c, Unknown) : m \in {{}, {"quota"}, {"model"}}, c \in Codes}
  \cup {Err("info", {}, 0, i) : i \in {Info("service_unavailable", TRUE), Info("quota_exceeded", FALSE)}}
  \cup {Err("wrapped", {"rate"}, 0, i) : i \in {Info("rate_limited", TRUE), Info("quota_exceeded", FALSE)}}

Usage(i, o, t) == [input |-> i, output |-> o, total |-> t]
TheUsages == {Usage(0, 0, 0), Usage(1, 0, 1), Usage(1, 2, 3), Usage(1, 1, 3)}
TheThresholds == {<<2, 4>>, <<3, 3>>, <<0, 5>>}

TheEvents ==
  {[kind |-> k, n |-> 0] : k \in {"text", "bad", "finish"}}
  \cup {[kind |-> "usage", n |-> n] : n \in 1..2} \cup {[kind |-> "reason", n |-> 1]}
=============================================================================
