----------------------------- MODULE TokenKeys -----------------------------
(***************************************************************************)
(* The token issuer's keys of pkg/tokensupport and the services of         *)
(* pkg/oauth2support that check tokens with them. GenerateIssuerKeys loads *)
(* the private key from the key directory or generates a pair and writes   *)
(* the private, then the public key file, without a lock; a service loads  *)
(* the public key once, when it starts. A token is named by the key that   *)
(* signed it; os.WriteFile empties a file before it writes it (Blank).     *)
(***************************************************************************)
EXTENDS Naturals

CONSTANTS
  Issuers,     \* the processes that call GenerateIssuerKeys
  Services,    \* the processes that call NewResourceJwtAuthorizer
  keep,        \* keep[i]: the argument keepExisting
  Absent,      \* no such file, or no key loaded
  Blank,       \* a file without content
  MaxCrashes,  \* bound: crashes
  MaxKeys      \* bound: keys generated

ASSUME KeepAssumption == keep \in [Issuers -> BOOLEAN]
ASSUME FilesAssumption == {Absent, Blank} \intersect Nat = {}

VARIABLES
  private, public,  \* the key files: Absent, Blank or a key
  step,     \* step[p]: what issuer or service p does next
  fresh,    \* fresh[i]: the pair issuer i generates
  loaded,   \* loaded[p]: the key process p works with
  tokens,   \* the keys that signed the tokens issued
  issued,   \* keys 1..issued have been generated
  crashes   \* how many processes crashed

vars == <<private, public, step, fresh, loaded, tokens, issued, crashes>>
Processes == Issuers \union Services

Init ==
  /\ private = Absent /\ public = Absent
  /\ step = [p \in Processes |-> "down"]
  /\ fresh = [i \in Issuers |-> Absent]
  /\ loaded = [p \in Processes |-> Absent]
  /\ tokens = {}
  /\ issued = 0 /\ crashes = 0

Goto(p, next) == step' = [step EXCEPT ![p] = next]

\* Mutant: an existing key is not kept.
Keeps_Never(i) == FALSE

Keeps(i) == private # Absent /\ keep[i]

\* loadIssuer, when the key is there and to be kept; it panics for a file
\* without a PEM block.
LoadIssuer(i) ==
  /\ step[i] = "down" /\ Keeps(i)
  /\ IF private = Blank
     THEN Goto(i, "failed") /\ UNCHANGED loaded
     ELSE Goto(i, "ready") /\ loaded' = [loaded EXCEPT ![i] = private]
  /\ UNCHANGED <<private, public, fresh, tokens, issued, crashes>>

Generate(i) ==
  /\ step[i] = "down" /\ ~Keeps(i)
  /\ issued < MaxKeys
  /\ issued' = issued + 1
  /\ fresh' = [fresh EXCEPT ![i] = issued + 1]
  /\ Goto(i, "private")
  /\ UNCHANGED <<private, public, loaded, tokens, crashes>>

\* The two WriteFile calls, each emptying its file first.
EmptyPrivate(i) ==
  /\ step[i] = "private"
  /\ private' = Blank
  /\ Goto(i, "writePrivate")
  /\ UNCHANGED <<public, fresh, loaded, tokens, issued, crashes>>

WritePrivate(i) ==
  /\ step[i] = "writePrivate"
  /\ private' = fresh[i]
  /\ Goto(i, "public")
  /\ UNCHANGED <<public, fresh, loaded, tokens, issued, crashes>>

EmptyPublic(i) ==
  /\ step[i] = "public"
  /\ public' = Blank
  /\ Goto(i, "writePublic")
  /\ UNCHANGED <<private, fresh, loaded, tokens, issued, crashes>>

\* Mutant: the handler gets the private key and forgets the public one.
WritePublic_Missing(i) ==
  /\ step[i] = "writePublic"
  /\ loaded' = [loaded EXCEPT ![i] = fresh[i]]
  /\ Goto(i, "ready")
  /\ UNCHANGED <<private, public, fresh, tokens, issued, crashes>>

WritePublic(i) ==
  /\ step[i] = "writePublic"
  /\ public' = fresh[i]
  /\ loaded' = [loaded EXCEPT ![i] = fresh[i]]
  /\ Goto(i, "ready")
  /\ UNCHANGED <<private, fresh, tokens, issued, crashes>>

IssueToken(i) ==
  /\ step[i] = "ready"
  /\ tokens' = tokens \union {loaded[i]}
  /\ UNCHANGED <<private, public, step, fresh, loaded, issued, crashes>>

\* NewResourceJwtAuthorizer returns an error without the file and panics for
\* one without a PEM block; a service that failed is started again.
StartService(s) ==
  /\ step[s] = "down"
  /\ public \notin {Absent, Blank}
  /\ loaded' = [loaded EXCEPT ![s] = public]
  /\ Goto(s, "ready")
  /\ UNCHANGED <<private, public, fresh, tokens, issued, crashes>>

Crash(p) ==
  /\ crashes < MaxCrashes /\ step[p] # "down"
  /\ crashes' = crashes + 1
  /\ Goto(p, "down")
  /\ loaded' = [loaded EXCEPT ![p] = Absent]
  /\ UNCHANGED <<private, public, fresh, tokens, issued>>

Run(i) ==
  \/ LoadIssuer(i) \/ Generate(i) \/ EmptyPrivate(i) \/ WritePrivate(i)
  \/ EmptyPublic(i) \/ WritePublic(i)

Next ==
  \/ \E i \in Issuers : Run(i) \/ IssueToken(i)
  \/ \E s \in Services : StartService(s)
  \/ \E p \in Processes : Crash(p)

Spec == Init /\ [][Next]_vars

FairSpec ==
  /\ Spec
  /\ \A i \in Issuers : WF_vars(Run(i)) /\ WF_vars(IssueToken(i))
  /\ \A s \in Services : WF_vars(StartService(s))
----------------------------------------------------------------------------
Verifies(s, token) == loaded[s] = token

\* Any token that was issued is one that every running service accepts, and
\* goes on accepting, through crashes and restarts of issuer and services.
TokensVerify ==
  \A s \in Services : step[s] = "ready" => \A t \in tokens : Verifies(s, t)

\* Unless one crashes, services get to check the tokens that are issued.
ServicesStart ==
  [](crashes = 0) =>
    <>[](\A s \in Services : \E t \in tokens : Verifies(s, t))
=============================================================================
