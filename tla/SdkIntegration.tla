--------------------------- MODULE SdkIntegration ---------------------------
(***************************************************************************)
(* One integration of the SDK (sdk/provderTools.go): the table it keeps of *)
(* the policy application points (PAPs) of an account, and the two ways a  *)
(* caller names one of them.                                               *)
(*                                                                         *)
(* `apps' is Integration.Apps without the details of the applications: a   *)
(* function from the local aliases in use to the object ids they stand     *)
(* for.  An application listed twice by its platform is left out.          *)
(***************************************************************************)
EXTENDS Functions

CONSTANTS
    Objects,      \* object ids of the applications of every account
    PapAliases    \* aliases the generator of the caller can return

\* Mutant: every discovery generates the aliases anew.
Namings_Anew(apps, found) == [found -> PapAliases]

(* The alias under which each application that was found goes into the new *)
(* table: the one it had before, otherwise a generated one.  The generator *)
(* is not told which aliases are taken.                                    *)
Namings(apps, found) ==
    {name \in [found -> PapAliases] :
        \A a \in DOMAIN apps : apps[a] \in found => name[apps[a]] = a}

(* GetPolicyApplicationPoints: the tables a discovery can leave.  Of two   *)
(* applications with one alias the one listed last stays, whichever it is. *)
TablesOf(name) ==
    {t \in [Range(name) -> DOMAIN name] : \A a \in DOMAIN t : name[t[a]] = a}

(* GetApplicationInfo: the alias first, then the object id; the empty set  *)
(* is the error `alias not found'.                                         *)
Lookup(apps, n) ==
    IF n \in DOMAIN apps THEN {apps[n]} ELSE {o \in Range(apps) : o = n}
=============================================================================
