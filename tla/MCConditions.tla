---------------------------- MODULE MCConditions ----------------------------
(* Rules and clauses of up to four leaves, one of which is out of the ordinary. *)
EXTENDS Conditions

MCPlain == <<"a", "b", "c", "d">>
MCFilterOf == [p \in {"emails"} |-> "type"]
MCSpecial ==
  {Clause(c) : c \in {"cannot", "notBefore", "has", "hasIt", "wide", "inList", "if"}}
    \cup {Path("emails", c) : c \in {Bare, Present, Own, "inList"}}
MCBeheaded == [c \in {"notBefore"} |-> "Before"]
=============================================================================
