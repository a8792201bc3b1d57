-------------------------- MODULE MCMetadataCache --------------------------
(* Instances of MetadataCache for TLC. *)
EXTENDS MetadataCache, Names, TLC

CONSTANTS c1, c2, p1, p2, v1, v2, linux, darwin

OneListing == {{linux}}
BothListed == {{linux, darwin}}

(* Whenever packages of a version are fetched, the names in them that pass  *)
(* validation are the ones a later download will be found and stored by.   *)
NamesAgree ==
  (\E c \in Callers : pc[c] = "packages") => ArchiveNamesExact /\ PackagesServable

CallerSymmetry == Permutations(Callers)
=============================================================================
