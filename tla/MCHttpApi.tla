----------------------------- MODULE MCHttpApi -----------------------------
(* Instances of HttpApi for TLC. *)
EXTENDS HttpApi, TLC

RequestSymmetry == Permutations(Requests)
=============================================================================
