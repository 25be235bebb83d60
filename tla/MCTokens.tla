------------------------------ MODULE MCTokens ------------------------------
(***************************************************************************)
(* Who is let in: an issuer and the services that check its tokens, or a   *)
(* browser that logs in and out.  Each behaviour is one of the two, by     *)
(* part; the other's variables rest.                                       *)
(***************************************************************************)
EXTENDS TokenKeys

CONSTANTS Requests, MaxLogins, MaxSessions, MaxFaults

VARIABLES
  part,  \* "keys" | "login"
  store, cookie, request, answers, exchanged, logins, sessions, faults,
  expected, calm, ended

MCkeep == [i \in Issuers |-> TRUE]

L == INSTANCE Login

browser == <<store, cookie, request, answers, exchanged, logins, sessions, faults,
             expected, calm, ended>>
all == <<part, vars, browser>>

\* An issuer and services that are up and do nothing more.
KeysRest ==
  /\ private = 1 /\ public = 1 /\ issued = 1 /\ tokens = {1} /\ crashes = 0
  /\ step = [p \in Processes |-> "ready"]
  /\ fresh = [i \in Issuers |-> 1]
  /\ loaded = [p \in Processes |-> 1]

MCInit ==
  \/ part = "keys" /\ Init /\ L!Init
  \/ part = "login" /\ KeysRest /\ L!Init

MCNext ==
  /\ UNCHANGED part
  /\ \/ part = "keys" /\ Next /\ UNCHANGED browser
     \/ part = "login" /\ L!Next /\ UNCHANGED vars

MCSpec ==
  /\ MCInit /\ [][MCNext]_all
  /\ \A i \in Issuers : WF_vars(Run(i)) /\ WF_vars(IssueToken(i))
  /\ \A s \in Services : WF_vars(StartService(s))

-----------------------------------------------------------------------------
\* See Login: requests that come in turn log in and out as asked, and no login
\* outlives a logout that no request overlapped.
LoginsInTurn == L!LoginsInTurn
EndedStaysEnded == L!EndedStaysEnded
=============================================================================
