------------------------- MODULE MCClaudeCodeModel -------------------------
EXTENDS ClaudeCodeModel

CONSTANTS g1, s1, s2, k1, k2

(* Three calls one after the other, or two at a time, under the faults     *)
(* that matter there; a second configuration where the first one is not    *)
(* kept by the faults themselves.                                          *)
Several ==
  [calls : {<<g1, s1, s2>>}, width : {1}, keys : {{k1}},
   faults : {{"break", "restart"}, {"refuse", "restart"}, {"failed", "expire"}}]
  \cup [calls : {<<s1, g1>>}, width : {1}, keys : {{k1, k2}},
        faults : {{"crash"}, {"cancel"}}]
  \cup [calls : {<<g1, s1, s2>>}, width : {1}, keys : {{k1, k2}}, faults : {{"garbled", "long"}}]
  \cup [calls : {<<g1, s1>>}, width : {2}, keys : {{k1}},
        faults : {{"close"}, {"crash"}, {"restart"}}]
  \cup [calls : {<<s1, g1>>}, width : {2}, keys : {{k1, k2}}, faults : {{}}]
=============================================================================
