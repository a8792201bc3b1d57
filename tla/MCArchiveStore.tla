--------------------------- MODULE MCArchiveStore ---------------------------
(* Instances of ArchiveStore for TLC.                                      *)
EXTENDS ArchiveStore, TLC

CONSTANTS k1, k2, a, b, x, y

(* One archive, whose checksum changes upstream from a to b. *)
OneKey == k1 :> {a, b}

RequestSymmetry == Permutations(Requests)

(* Two archives. *)
TwoKeys == k1 :> {a} @@ k2 :> {b}
=============================================================================
