---------------------------- MODULE MCCodexModel -----------------------------
(* Instances of CodexModel for TLC. *)
EXTENDS CodexModel, TLC

(* Calls and keys are interchangeable in the safety runs. *)
CallSymmetry == Permutations(Streams) \cup Permutations(Keys)
=============================================================================
