---------------------------- MODULE MCOpaBundle ----------------------------
(* Instances of OpaBundle, one for each kind of bundle service: two          *)
(* administrators repeat their sets more often than faults and the other's   *)
(* sets can make them fail.                                                  *)
EXTENDS OpaBundle
=============================================================================
