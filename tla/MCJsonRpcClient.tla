--------------------------- MODULE MCJsonRpcClient ---------------------------
(* Instances of JsonRpcClient for TLC. *)
EXTENDS JsonRpcClient, TLC

(* Callers are interchangeable in the safety runs. *)
CallerSymmetry == Permutations(Callers)
=============================================================================
