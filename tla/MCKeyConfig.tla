---------------------------- MODULE MCKeyConfig ----------------------------
(* Instances of KeyConfig: two replicas that share the files "web", a third  *)
(* server with files of its own, and one that may not generate keys.         *)
EXTENDS KeyConfig

MCnameOf == [s \in Servers |-> IF s = "bundle" THEN "bundle" ELSE "web"]
MCauto == [s \in Servers |-> s # "manual"]
=============================================================================
