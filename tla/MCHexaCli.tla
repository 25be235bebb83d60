----------------------------- MODULE MCHexaCli -----------------------------
(* Two sessions of the command line tool that may overlap, two accounts.   *)
EXTENDS HexaCli, TLC

CONSTANTS s1, s2, gcp, opa, o1, o2, o3, work, test, p1, p2

MCOwner == o1 :> gcp @@ o2 :> gcp @@ o3 :> opa

Symmetry == Permutations({s1, s2}) \cup Permutations({o1, o2})
                \cup Permutations({work, test}) \cup Permutations({p1, p2})
=============================================================================
