------------------------------ MODULE Platforms ------------------------------
(***************************************************************************)
(* Who has a role or is in a group, on the platforms where SetPolicyInfo   *)
(* sets it user by user, item by item or at once; and the parallel calls   *)
(* by which Cognito and Azure look users up.  Each behaviour is one of the *)
(* five modules at work, by platform; the others' variables rest.          *)
(***************************************************************************)
EXTENDS ProcessAsync, ResourceRoles

CONSTANTS
  Admins, MaxRuns, MaxFaults,                  \* bounds of runs and of failing calls
  GatewayRuns, GatewayFaults,                  \* the same for the API gateway
  PageSizes,                                   \* of Cognito's and the gateway's listings
  Groups, Users, NoEmail, emailOf, Members, Wants,  \* Cognito
  AzureMembers, AzureWants, Page,
  Bindings, Policies, NoCondition, celOf, idqlOf, Unmappable, Object,  \* Google's IAP
  Tables, GatewayWants

VARIABLES
  platform,  \* "lookups" | "cognito" | "azure" | "iap" | "gateway"
  member, bindings, table,
  want, phase, pos, known, existing, asked, wanted, toRemove, toAdd,
  updates, result, runs, faults, sound, whole, alone, seen

C == INSTANCE Cognito
A == INSTANCE Azure WITH Members <- AzureMembers, Wants <- AzureWants
G == INSTANCE GoogleIap
W == INSTANCE ApiGateway WITH
       MaxRuns <- GatewayRuns, MaxFaults <- GatewayFaults, Wants <- GatewayWants

-----------------------------------------------------------------------------
calls == <<succeeds, launched, step, wg, closed, results, returned>>
gateway == <<table, updates, seen>>
cognito == <<known, existing, whole>>
members == <<member, cognito, asked, wanted, toRemove, toAdd>>
sets == <<gateway, members, bindings, want, phase, pos, result, runs, faults, sound, alone>>
all == <<platform, calls, sets>>

\* ProcessAsync after its return, and administrators who set nothing.
CallsRest ==
  /\ succeeds = {} /\ launched = N /\ step = [i \in Inputs |-> "gone"] /\ wg = 0
  /\ closed = TRUE /\ results = <<>> /\ returned = TRUE
Rests(v) == v = {}
CognitoRests == Rests(known) /\ Rests(existing) /\ Rests(whole)
MembersRest ==
  /\ Rests(member) /\ CognitoRests /\ Rests(asked) /\ Rests(wanted)
  /\ Rests(toRemove) /\ Rests(toAdd)
GatewayRests == Rests(table) /\ Rests(updates) /\ Rests(seen)
SetsRest ==
  /\ MembersRest /\ GatewayRests /\ Rests(bindings) /\ Rests(want) /\ Rests(phase) /\ Rests(pos)
  /\ Rests(result) /\ Rests(runs) /\ Rests(faults) /\ Rests(sound) /\ Rests(alone)

PInit ==
  \/ platform = "lookups" /\ Init /\ SetsRest
  \/ platform = "cognito" /\ C!Init /\ CallsRest /\ Rests(bindings) /\ GatewayRests
  \/ /\ platform = "azure" /\ A!Init /\ CallsRest
     /\ Rests(bindings) /\ CognitoRests /\ GatewayRests
  \/ platform = "iap" /\ G!Init /\ CallsRest /\ MembersRest /\ GatewayRests
  \/ /\ platform = "gateway" /\ W!Init /\ CallsRest /\ MembersRest
     /\ Rests(bindings) /\ Rests(pos) /\ Rests(sound)

PNext ==
  /\ UNCHANGED platform
  /\ \/ platform = "lookups" /\ Next /\ UNCHANGED sets
     \/ platform = "cognito" /\ C!Next /\ UNCHANGED <<calls, bindings, gateway>>
     \/ platform = "azure" /\ A!Next /\ UNCHANGED <<calls, bindings, cognito, gateway>>
     \/ platform = "iap" /\ G!Next /\ UNCHANGED <<calls, members, gateway>>
     \/ platform = "gateway" /\ W!Next /\ UNCHANGED <<calls, members, bindings, pos, sound>>

PSpec == PInit /\ [][PNext]_all

PFairSpec ==
  /\ PSpec
  /\ WF_vars(Launch) /\ WF_vars(Close) /\ WF_vars(Return)
  /\ \A i \in Inputs : WF_vars(Goroutine(i))

-----------------------------------------------------------------------------
\* SetPolicyInfo that returns 201 to an administrator who was alone, for whom
\* every call worked and every listing was whole, has made the subjects of the
\* policies, no more and no less, the members of the groups and roles they
\* name; on Google's IAP of the last policy only, and of the API gateway's
\* items those with a name of their own.
CreatedMeansApplied ==
  CASE platform = "cognito" -> C!CreatedMeansApplied
    [] platform = "azure" -> A!CreatedMeansApplied
    [] platform = "iap" -> G!CreatedMeansLast
    [] platform = "gateway" -> W!CreatedMeansApplied
    [] OTHER -> TRUE

\* Of two administrators and whatever failed before, no step takes from a user
\* what the policy at hand gives, or gives what it does not.
ChangesAreWanted ==
  [][ /\ platform = "cognito" => C!ChangesAreWanted
      /\ platform = "azure" => A!ChangesAreWanted ]_all

\* Once all administrators of an API gateway, each with a scan of the whole
\* table, succeeded, items that they all want something of have what one of
\* them wants.
SettledOnSuccess == platform = "gateway" => W!SettledOnSuccess

\* Setting the policies that were read from the API gateway's table updates no
\* item, resources whose names differ only in "/" and "-" included.
ReadBackIsClean == platform = "gateway" => W!ReadBackIsClean

\* An update of the table makes a new item only beside one for the same method
\* whose name differs in the case of the action, a missing "/" or a "-".
NewItemsHaveTwins ==
  [][platform = "gateway" => W!Twins]_all
=============================================================================
