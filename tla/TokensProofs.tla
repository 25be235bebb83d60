---------------------------- MODULE TokensProofs ----------------------------
(***************************************************************************)
(* Proofs about who is let in: TokenKeys with one issuer that keeps its    *)
(* key, for any services, crashes and keys; Login for any number of        *)
(* requests under way, logins, sessions, expiries and restarts.            *)
(***************************************************************************)
EXTENDS MCTokens, TLAPS

-----------------------------------------------------------------------------
(* TokenKeys. Of two issuers on one directory each may generate a pair and *)
(* sign with a key whose public half the other one has replaced.           *)

OneKeeper == \A i, j \in Issuers : i = j /\ keep[i]
Keys == 1..issued

KeysTypeOK ==
  /\ issued \in Nat
  /\ private \in Keys \union {Absent, Blank}
  /\ step \in [Processes -> {"down", "private", "writePrivate", "public", "writePublic",
                            "ready", "failed"}]
  /\ fresh \in [Issuers -> Keys \union {Absent}]
  /\ loaded \in [Processes -> Keys \union {Absent}]

\* The issuer writes where no key was, and then only the key's other half.
IssuerWrites ==
  \A i \in Issuers :
    /\ step[i] = "private" => private = Absent
    /\ step[i] = "writePrivate" => private = Blank
    /\ step[i] \in {"private", "writePrivate"} => fresh[i] \in Keys
    /\ step[i] \in {"public", "writePublic"} => private \in Keys /\ private = fresh[i]

\* There is one key, in the files and in use, from the time it was written.
OneKey ==
  /\ public \in {Absent, Blank, private}
  /\ tokens \subseteq {private} \intersect Keys
  /\ \A p \in Processes : step[p] = "ready" => loaded[p] = private /\ private \in Keys

KeysInv == KeysTypeOK /\ IssuerWrites /\ OneKey

LEMMA KeysStep ==
  ASSUME OneKeeper, KeysInv, [Next]_vars
  PROVE  KeysInv'
<1> USE FilesAssumption DEF KeysInv, KeysTypeOK, Keys, Processes, Goto
<1>1. ASSUME NEW i \in Issuers, LoadIssuer(i) PROVE KeysInv'
  <2>1. UNCHANGED <<private, public, fresh, tokens, issued>> BY <1>1 DEF LoadIssuer
  <2>2. KeysTypeOK' BY <1>1, <2>1 DEF LoadIssuer, Keeps
  <2>3. IssuerWrites' BY <1>1, <2>1 DEF LoadIssuer, IssuerWrites
  <2>4. OneKey' BY <1>1, <2>1 DEF LoadIssuer, Keeps, OneKey
  <2> QED BY <2>2, <2>3, <2>4
<1>2. ASSUME NEW i \in Issuers, Generate(i) PROVE KeysInv'
  <2>1. private = Absent BY <1>2 DEF Generate, Keeps, OneKeeper
  <2>2. KeysTypeOK' BY <1>2 DEF Generate
  <2>3. IssuerWrites' BY <1>2, <2>1 DEF Generate, OneKeeper, IssuerWrites
  <2>4. OneKey' BY <1>2, <2>1 DEF Generate, OneKey
  <2> QED BY <2>2, <2>3, <2>4
<1>3. ASSUME NEW i \in Issuers, EmptyPrivate(i) PROVE KeysInv'
  <2>1. private = Absent BY <1>3 DEF EmptyPrivate, IssuerWrites
  <2>2. KeysTypeOK' BY <1>3 DEF EmptyPrivate
  <2>3. IssuerWrites' BY <1>3, <2>1 DEF EmptyPrivate, OneKeeper, IssuerWrites
  <2>4. OneKey' BY <1>3, <2>1 DEF EmptyPrivate, OneKey
  <2> QED BY <2>2, <2>3, <2>4
<1>4. ASSUME NEW i \in Issuers, WritePrivate(i) PROVE KeysInv'
  <2>1. private = Blank /\ fresh[i] \in Keys BY <1>4 DEF WritePrivate, IssuerWrites
  <2>2. KeysTypeOK' BY <1>4, <2>1 DEF WritePrivate
  <2>3. IssuerWrites' BY <1>4, <2>1 DEF WritePrivate, OneKeeper, IssuerWrites
  <2>4. OneKey' BY <1>4, <2>1 DEF WritePrivate, OneKey
  <2> QED BY <2>2, <2>3, <2>4
<1>5. ASSUME NEW i \in Issuers, EmptyPublic(i) PROVE KeysInv'
  <2>1. KeysTypeOK' BY <1>5 DEF EmptyPublic
  <2>2. IssuerWrites' BY <1>5 DEF EmptyPublic, OneKeeper, IssuerWrites
  <2>3. OneKey' BY <1>5 DEF EmptyPublic, OneKey
  <2> QED BY <2>1, <2>2, <2>3
<1>6. ASSUME NEW i \in Issuers, WritePublic(i) PROVE KeysInv'
  <2>1. private \in Keys /\ private = fresh[i] BY <1>6 DEF WritePublic, IssuerWrites
  <2>2. KeysTypeOK' BY <1>6 DEF WritePublic
  <2>3. IssuerWrites' BY <1>6 DEF WritePublic, OneKeeper, IssuerWrites
  <2>4. OneKey' BY <1>6, <2>1 DEF WritePublic, OneKey
  <2> QED BY <2>2, <2>3, <2>4
<1>7. ASSUME NEW i \in Issuers, IssueToken(i) PROVE KeysInv'
  BY <1>7 DEF IssueToken, IssuerWrites, OneKey
<1>8. ASSUME NEW s \in Services, StartService(s) PROVE KeysInv'
  <2>1. public = private /\ private \in Keys BY <1>8 DEF StartService, OneKey
  <2>2. KeysTypeOK' BY <1>8, <2>1 DEF StartService
  <2>3. IssuerWrites' BY <1>8 DEF StartService, IssuerWrites
  <2>4. OneKey' BY <1>8, <2>1 DEF StartService, OneKey
  <2> QED BY <2>2, <2>3, <2>4
<1>9. ASSUME NEW p \in Processes, Crash(p) PROVE KeysInv'
  <2>1. KeysTypeOK' BY <1>9 DEF Crash
  <2>2. IssuerWrites' BY <1>9 DEF Crash, IssuerWrites
  <2>3. OneKey' BY <1>9 DEF Crash, OneKey
  <2> QED BY <2>1, <2>2, <2>3
<1>10. CASE UNCHANGED vars
  BY <1>10 DEF vars, IssuerWrites, OneKey
<1> QED
  BY <1>1, <1>2, <1>3, <1>4, <1>5, <1>6, <1>7, <1>8, <1>9, <1>10 DEF Next, Run

\* Every token that was issued verifies with every running service, however
\* GenerateIssuerKeys and the services that load its public key crash and
\* start again.
THEOREM IssuedTokensVerify ==
  ASSUME OneKeeper
  PROVE  Spec => []TokensVerify
<1>1. Init => KeysInv
  BY FilesAssumption DEF Init, KeysInv, KeysTypeOK, Keys, Processes, IssuerWrites, OneKey
<1>2. KeysInv /\ [Next]_vars => KeysInv' BY KeysStep
<1>3. KeysInv => TokensVerify
  BY DEF KeysInv, OneKey, TokensVerify, Verifies, Processes
<1> QED BY <1>1, <1>2, <1>3, PTL DEF Spec

\* An issuer that has not crashed starts where there is no key yet, and has
\* written the files when it begins to issue tokens.
UncrashedServes ==
  crashes = 0 => \A i \in Issuers :
    /\ step[i] = "down" => private = Absent
    /\ step[i] # "failed"
    /\ step[i] = "ready" => public \notin {Absent, Blank} /\ public = loaded[i]

\* What an issuer needs for its services to start is in the files from its first
\* token on, and no blank file fails it, unless it crashes: of ServicesStart,
\* what does not hang on fairness.
THEOREM UncrashedServesCorrect ==
  ASSUME OneKeeper
  PROVE  Spec => [](crashes \in Nat /\ UncrashedServes)
<1> DEFINE CInv == KeysInv /\ crashes \in Nat /\ UncrashedServes
<1>1. Init => CInv
  BY FilesAssumption
  DEF Init, KeysInv, KeysTypeOK, Keys, Processes, IssuerWrites, OneKey, UncrashedServes
<1>2. CInv /\ [Next]_vars => CInv'
  <2> SUFFICES ASSUME CInv, [Next]_vars PROVE crashes' \in Nat /\ UncrashedServes'
    BY KeysStep
  <2> USE FilesAssumption DEF UncrashedServes, Processes, Goto, KeysInv, KeysTypeOK, Keys
  <2>1. ASSUME NEW i \in Issuers, LoadIssuer(i) PROVE crashes' \in Nat /\ UncrashedServes'
    BY <2>1 DEF LoadIssuer, Keeps
  <2>2. ASSUME NEW i \in Issuers, Generate(i) PROVE crashes' \in Nat /\ UncrashedServes'
    BY <2>2 DEF Generate
  <2>3. ASSUME NEW i \in Issuers, EmptyPrivate(i) \/ WritePrivate(i) \/ EmptyPublic(i)
        PROVE  crashes' \in Nat /\ UncrashedServes'
    <3>1. step[i] \notin {"down", "ready"} /\ step'[i] \notin {"down", "ready", "failed"}
          /\ UNCHANGED <<crashes, loaded>>
      BY <2>3 DEF EmptyPrivate, WritePrivate, EmptyPublic
    <3> QED BY <3>1 DEF OneKeeper
  <2>4. ASSUME NEW i \in Issuers, WritePublic(i) PROVE crashes' \in Nat /\ UncrashedServes'
    <3>1. fresh[i] \in Keys BY <2>4 DEF WritePublic, IssuerWrites
    <3> QED BY <2>4, <3>1 DEF WritePublic, OneKeeper
  <2>5. ASSUME NEW i \in Issuers, IssueToken(i) PROVE crashes' \in Nat /\ UncrashedServes'
    BY <2>5 DEF IssueToken
  <2>6. ASSUME NEW s \in Services, StartService(s) PROVE crashes' \in Nat /\ UncrashedServes'
    BY <2>6 DEF StartService
  <2>7. ASSUME NEW p \in Processes, Crash(p) PROVE crashes' \in Nat /\ UncrashedServes'
    BY <2>7 DEF Crash
  <2>8. CASE UNCHANGED vars BY <2>8 DEF vars
  <2> QED BY <2>1, <2>2, <2>3, <2>4, <2>5, <2>6, <2>7, <2>8 DEF Next, Run
<1> QED BY <1>1, <1>2, PTL DEF Spec

-----------------------------------------------------------------------------
(* Login: types. *)

SessionData ==
  [id : BOOLEAN, state : 0..logins, nonce : 0..logins, sub : exchanged \union {0}]

RequestData ==
  [at : {"idle", "begun", "handled", "destroyed"}, kind : L!Kinds, token : 0..sessions,
   data : SessionData, login : answers \union {0}, put : BOOLEAN]

LoginTypeOK ==
  /\ logins \in Nat /\ sessions \in Nat /\ calm \in BOOLEAN
  /\ answers \subseteq 1..logins /\ exchanged \subseteq answers /\ ended \subseteq exchanged
  /\ DOMAIN store \subseteq 1..sessions /\ store \in [DOMAIN store -> SessionData]
  /\ request \in [Requests -> RequestData]
  /\ \A r \in Requests : L!At(r, "handled", "authorize") => request[r].data.state # 0

LEMMA LoginInitTyped == L!Init => LoginTypeOK
BY DEF L!Init, LoginTypeOK, SessionData, RequestData, L!NoSession, L!Idle, L!None, L!Kinds, L!At

\* Logins, answers and sessions only become more.
Growing ==
  /\ logins' \in Nat /\ logins <= logins' /\ sessions' \in Nat /\ sessions <= sessions'
  /\ answers \subseteq answers' /\ exchanged \subseteq exchanged'

LEMMA TypesGrow ==
  ASSUME LoginTypeOK, Growing
  PROVE  SessionData \subseteq SessionData' /\ RequestData \subseteq RequestData'
<1>1. SessionData \subseteq SessionData' BY DEF LoginTypeOK, Growing, SessionData
<1>2. 0..sessions \subseteq 0..sessions' BY DEF LoginTypeOK, Growing
<1>3. answers \union {0} \subseteq answers' \union {0} BY DEF Growing
<1> HIDE DEF SessionData
<1> QED BY <1>1, <1>2, <1>3 DEF RequestData

LEMMA StoreTyped == ASSUME LoginTypeOK, Growing, UNCHANGED store PROVE store' \in [DOMAIN store' -> SessionData']
BY TypesGrow DEF LoginTypeOK

LEMMA NoSessionTyped == ASSUME LoginTypeOK PROVE L!NoSession \in SessionData /\ L!Idle \in RequestData
BY DEF LoginTypeOK, SessionData, RequestData, L!NoSession, L!Idle, L!None, L!Kinds

\* What a handler that is over leaves of its request.
LEMMA HandledRequest ==
  ASSUME LoginTypeOK, Growing, NEW r \in Requests, NEW data \in SessionData', NEW put \in BOOLEAN,
         request' = [request EXCEPT ![r].at = "handled", ![r].data = data, ![r].put = put]
  PROVE  /\ request' \in [Requests -> RequestData']
         /\ \A q \in Requests : q # r => request'[q] = request[q]
         /\ request'[r] = [request[r] EXCEPT !.at = "handled", !.data = data, !.put = put]
<1>1. request \in [Requests -> RequestData'] BY TypesGrow DEF LoginTypeOK
<1>2. request'[r] = [request[r] EXCEPT !.at = "handled", !.data = data, !.put = put]
  BY <1>1
<1>3. request'[r] \in RequestData'
  <2>1. request[r] \in RequestData' BY <1>1
  <2>2. \A q \in RequestData' : [q EXCEPT !.at = "handled", !.data = data, !.put = put] \in RequestData'
    BY DEF RequestData
  <2> HIDE DEF RequestData
  <2> QED BY <1>2, <2>1, <2>2
<1>4. \A q \in Requests : q # r => request'[q] = request[q] BY <1>1
<1>5. request' \in [Requests -> RequestData'] BY <1>1, <1>3, <1>4 
<1> QED BY <1>2, <1>4, <1>5

LEMMA LoginStepTyped == LoginTypeOK /\ [L!Next]_L!vars => LoginTypeOK'
<1> SUFFICES ASSUME LoginTypeOK, [L!Next]_L!vars PROVE LoginTypeOK'
  OBVIOUS
<1> USE DEF L!None, L!At
<1>1. ASSUME NEW r \in Requests, NEW kind \in L!Kinds, NEW login \in answers \union {L!None},
             L!Begin(r, kind, login)
      PROVE  LoginTypeOK'
  <2>1. request'[r] \in RequestData /\ request'[r].at = "begun"
    BY <1>1, NoSessionTyped DEF L!Begin, LoginTypeOK, RequestData
  <2>2. \A q \in Requests : q # r => request'[q] = request[q]
    BY <1>1 DEF L!Begin, LoginTypeOK
  <2>3. request' \in [Requests -> RequestData] BY <1>1, <2>1, <2>2 DEF L!Begin, LoginTypeOK
  <2> QED BY <1>1, <2>1, <2>2, <2>3 DEF L!Begin, LoginTypeOK, SessionData, RequestData
<1>2. ASSUME NEW r \in Requests, L!HandleAuthorize(r) PROVE LoginTypeOK'
  <2>1. Growing BY <1>2 DEF L!HandleAuthorize, LoginTypeOK, Growing
  <2> DEFINE new == L!StartLogin(r, logins + 1)
  <2>2. request[r].data \in SessionData' /\ logins + 1 \in 0..logins' /\ logins + 1 # 0
    BY <1>2, <2>1, TypesGrow DEF L!HandleAuthorize, LoginTypeOK, RequestData
  <2>3. new \in SessionData' BY <2>2, Zenon DEF L!StartLogin, SessionData
  <2>4. new.state # 0 BY <2>2 DEF L!StartLogin, SessionData
  <2>5. request' = [request EXCEPT ![r].at = "handled", ![r].data = new, ![r].put = TRUE]
    BY <1>2 DEF L!HandleAuthorize, L!Handled
  <2> HIDE DEF new
  <2>6. /\ request' \in [Requests -> RequestData']
        /\ \A q \in Requests : q # r => request'[q] = request[q]
        /\ request'[r] = [request[r] EXCEPT !.at = "handled", !.data = new, !.put = TRUE]
    BY <2>1, <2>3, <2>5, HandledRequest
  <2>7. request'[r].data.state # 0 BY <2>4, <2>6 DEF LoginTypeOK, RequestData
  <2>8. store' \in [DOMAIN store' -> SessionData']
    BY <1>2, <2>1, StoreTyped DEF L!HandleAuthorize
  <2>9. logins' = logins + 1 /\ UNCHANGED <<store, answers, exchanged, sessions, calm, ended>>
    BY <1>2 DEF L!HandleAuthorize
  <2> HIDE DEF L!At
  <2>10. \A q \in Requests : L!At(q, "handled", "authorize")' => request'[q].data.state # 0
    BY <2>6, <2>7 DEF LoginTypeOK, L!At
  <2> QED BY <2>6, <2>8, <2>9, <2>10 DEF LoginTypeOK
<1>3. ASSUME NEW r \in Requests, L!Unchanged(r), request[r].kind # "authorize",
             UNCHANGED <<store, answers, exchanged, logins, sessions, calm, ended>>
      PROVE  LoginTypeOK'
  <2>1. Growing BY <1>3 DEF LoginTypeOK, Growing
  <2> DEFINE data == request[r].data
             put == request[r].put
  <2>2. data \in SessionData' /\ put \in BOOLEAN
    BY <1>3, <2>1, TypesGrow DEF LoginTypeOK, RequestData
  <2>3. request' = [request EXCEPT ![r].at = "handled", ![r].data = data, ![r].put = put]
    BY <1>3 DEF L!Unchanged, L!Handled
  <2> HIDE DEF data, put
  <2>4. /\ request' \in [Requests -> RequestData']
        /\ \A q \in Requests : q # r => request'[q] = request[q]
        /\ request'[r] = [request[r] EXCEPT !.at = "handled", !.data = data, !.put = put]
    BY <2>1, <2>2, <2>3, HandledRequest
  <2>5. request'[r].kind # "authorize" BY <1>3, <2>4 DEF LoginTypeOK, RequestData
  <2>6. store' \in [DOMAIN store' -> SessionData'] BY <1>3, <2>1, StoreTyped
  <2> QED BY <1>3, <2>4, <2>5, <2>6 DEF LoginTypeOK
<1>4. ASSUME NEW r \in Requests, L!Exchange(r) PROVE LoginTypeOK'
  <2>1. request[r].login \in answers
    BY <1>4 DEF L!Exchange, L!StateMatches, LoginTypeOK, RequestData
  <2>2. Growing BY <1>4 DEF L!Exchange, LoginTypeOK, Growing
  <2> DEFINE new == L!StoreLoginSession(r)
  <2>3. request[r].data \in SessionData' /\ 0 \in 0..logins' /\ request[r].login \in exchanged' \union {0}
    BY <1>4, <2>2, TypesGrow DEF L!Exchange, LoginTypeOK, RequestData, Growing
  <2>4. new \in SessionData' BY <2>3, Zenon DEF L!StoreLoginSession, SessionData
  <2>5. request' = [request EXCEPT ![r].at = "handled", ![r].data = new, ![r].put = TRUE]
    BY <1>4 DEF L!Exchange, L!Handled
  <2> HIDE DEF new
  <2>6. /\ request' \in [Requests -> RequestData']
        /\ \A q \in Requests : q # r => request'[q] = request[q]
        /\ request'[r] = [request[r] EXCEPT !.at = "handled", !.data = new, !.put = TRUE]
    BY <2>2, <2>4, <2>5, HandledRequest
  <2>7. request'[r].kind # "authorize" BY <1>4, <2>6 DEF L!Exchange, LoginTypeOK, RequestData
  <2>8. store' \in [DOMAIN store' -> SessionData'] BY <1>4, <2>2, StoreTyped DEF L!Exchange
  <2> QED BY <1>4, <2>1, <2>6, <2>7, <2>8 DEF L!Exchange, LoginTypeOK
<1>5. ASSUME NEW r \in Requests, L!HandleLogout(r), request[r].data.id PROVE LoginTypeOK'
  <2>1. request'[r] \in RequestData /\ request'[r].at = "destroyed"
    BY <1>5 DEF L!HandleLogout, LoginTypeOK, RequestData
  <2>2. \A q \in Requests : q # r => request'[q] = request[q]
    BY <1>5 DEF L!HandleLogout, LoginTypeOK
  <2>3. request' \in [Requests -> RequestData] BY <1>5, <2>1, <2>2 DEF L!HandleLogout, LoginTypeOK
  <2>4. store' \in [DOMAIN store' -> SessionData] /\ DOMAIN store' \subseteq DOMAIN store
    BY <1>5 DEF L!HandleLogout, L!Destroyed, L!Restrict, LoginTypeOK
  <2>5. request[r].data.sub \in exchanged \union {0}
    BY DEF LoginTypeOK, RequestData, SessionData
  <2> QED BY <1>5, <2>1, <2>2, <2>3, <2>4, <2>5 DEF L!HandleLogout, LoginTypeOK, SessionData, RequestData
<1>6. ASSUME NEW r \in Requests, L!Commit(r) PROVE LoginTypeOK'
  <2>1. Growing BY <1>6 DEF L!Commit, LoginTypeOK, Growing, RequestData
  <2>2. request' \in [Requests -> RequestData'] /\ request'[r].at = "idle"
    BY <1>6, <2>1, TypesGrow, NoSessionTyped DEF L!Commit, LoginTypeOK, L!Idle
  <2>3. \A q \in Requests : q # r => request'[q] = request[q]
    BY <1>6 DEF L!Commit, LoginTypeOK
  <2>4. store' \in [DOMAIN store' -> SessionData] /\ DOMAIN store' \subseteq 1..sessions'
    BY <1>6 DEF L!Commit, LoginTypeOK, RequestData
  <2>5. answers' \subseteq 1..logins
    BY <1>6 DEF L!Commit, LoginTypeOK, RequestData, SessionData
  <2> QED BY <1>6, <2>1, <2>2, <2>3, <2>4, <2>5, TypesGrow DEF L!Commit, LoginTypeOK
<1>7. ASSUME NEW r \in Requests, L!ExpireCookie(r) PROVE LoginTypeOK'
  <2>1. request' \in [Requests -> RequestData] /\ request'[r].at = "idle"
    BY <1>7, NoSessionTyped DEF L!ExpireCookie, LoginTypeOK, L!Idle
  <2>2. \A q \in Requests : q # r => request'[q] = request[q]
    BY <1>7 DEF L!ExpireCookie, LoginTypeOK
  <2> QED BY <1>7, <2>1, <2>2 DEF L!ExpireCookie, LoginTypeOK, SessionData, RequestData
<1>8. CASE L!Expire
  <2>1. store' \in [DOMAIN store' -> SessionData] /\ DOMAIN store' \subseteq DOMAIN store
    BY <1>8 DEF L!Expire, L!Destroyed, L!Restrict, LoginTypeOK
  <2> QED BY <1>8, <2>1 DEF L!Expire, LoginTypeOK, SessionData, RequestData
<1>9. CASE L!Restart
  <2>1. request' \in [Requests -> RequestData]
    BY <1>9, NoSessionTyped DEF L!Restart, LoginTypeOK
  <2> QED BY <1>9, <2>1 DEF L!Restart, LoginTypeOK, L!Idle, SessionData, RequestData
<1>10. CASE UNCHANGED L!vars
  BY <1>10 DEF L!vars, LoginTypeOK, SessionData, RequestData
<1> QED
  BY <1>1, <1>2, <1>3, <1>4, <1>5, <1>6, <1>7, <1>8, <1>9, <1>10
  DEF L!Next, L!RefuseCallback, L!ServePage, L!ExchangeFails, L!HandleLogout

-----------------------------------------------------------------------------
(* Login: what holds when requests overlap. *)

Live(r) == request[r].at \in {"begun", "handled"}
Bound(data, login) == data.state = login \/ data.sub = login

\* A login is waited for, and then logged in, in one session at most.
Of(l) == {t \in DOMAIN store : Bound(store[t], l)}
By(l) == {r \in Requests : Live(r) /\ Bound(request[r].data, l)}

OneSession ==
  \A l \in 1..logins :
    /\ \A t, u \in Of(l) : t = u
    /\ \A r \in By(l) : \A t \in Of(l) : request[r].token = t
    /\ \A q, r \in By(l) : q # r => request[q].token = request[r].token /\ request[r].token # 0

\* No copy of a session that is still to be stored is in an ended login.
EndedGone == \A r \in Requests : Live(r) => request[r].data.sub \notin ended

EndedInv == LoginTypeOK /\ OneSession /\ EndedGone /\ L!EndedStaysEnded

LEMMA RequestFields ==
  ASSUME LoginTypeOK, NEW r \in Requests
  PROVE  /\ request[r] \in RequestData /\ request[r].data \in SessionData
         /\ request[r].token \in 0..sessions /\ request[r].login \in answers \union {0}
         /\ request[r].data.state \in 0..logins /\ request[r].data.sub \in exchanged \union {0}
BY DEF LoginTypeOK, RequestData, SessionData

LEMMA StoreFields ==
  ASSUME LoginTypeOK, NEW t \in DOMAIN store
  PROVE  /\ store[t] \in SessionData /\ t \in 1..sessions
         /\ store[t].state \in 0..logins /\ store[t].sub \in exchanged \union {0}
BY DEF LoginTypeOK, SessionData

\* A handler that starts no login and destroys no session.
Handler(r) ==
  \/ L!RefuseCallback(r) \/ L!Exchange(r) \/ L!ExchangeFails(r) \/ L!ServePage(r)
  \/ L!HandleLogout(r) /\ ~request[r].data.id

\* The request that Handled leaves, field by field.
HandlesWith(r, data, put) ==
  /\ \A q \in Requests : q # r => request'[q] = request[q]
  /\ request'[r].at = "handled" /\ request'[r].data = data /\ request'[r].put = put
  /\ request'[r].token = request[r].token /\ request'[r].kind = request[r].kind
  /\ request'[r].login = request[r].login

LEMMA HandledWith ==
  ASSUME LoginTypeOK, NEW r \in Requests, NEW data, NEW put, L!Handled(r, data, put)
  PROVE  HandlesWith(r, data, put)
<1>1. request \in [Requests -> RequestData] BY DEF LoginTypeOK
<1>2. request' = [request EXCEPT ![r].at = "handled", ![r].data = data, ![r].put = put]
  BY DEF L!Handled
<1>3. \A q \in Requests : q # r => request'[q] = request[q] BY <1>1, <1>2
<1>4. request'[r] = [request[r] EXCEPT !.at = "handled", !.data = data, !.put = put]
  BY <1>1, <1>2
<1>5. request[r] \in RequestData BY <1>1
<1> QED BY <1>3, <1>4, <1>5 DEF HandlesWith, RequestData

LEMMA HandlerKeeps ==
  ASSUME LoginTypeOK, NEW r \in Requests, Handler(r)
  PROVE  /\ UNCHANGED <<store, cookie, logins, sessions, expected, calm, ended>>
         /\ \A q \in Requests : q # r => request'[q] = request[q]
         /\ request[r].at = "begun" /\ request'[r].at = "handled"
         /\ request'[r].token = request[r].token /\ request'[r].kind = request[r].kind
         /\ request'[r].login = request[r].login /\ request[r].kind # "authorize"
         /\ \/ request'[r].data = request[r].data /\ request'[r].put = request[r].put
            \/ /\ request[r].kind = "callback" /\ request'[r].put
               /\ request[r].data.state = request[r].login /\ request[r].data.id
               /\ request'[r].data.state = 0 /\ request'[r].data.sub = request[r].login
               /\ request[r].login \notin exchanged /\ request[r].login # 0
<1> USE DEF L!At, L!None
<1>0. request[r] \in RequestData /\ request[r].data \in SessionData BY RequestFields
<1>1. CASE L!Unchanged(r) /\ ~L!Exchange(r)
  <2>1. HandlesWith(r, request[r].data, request[r].put) BY <1>1, HandledWith DEF L!Unchanged
  <2>2. /\ UNCHANGED <<store, cookie, logins, sessions, expected, calm, ended>>
        /\ request[r].at = "begun" /\ request[r].kind # "authorize"
    BY <1>1 DEF Handler, L!RefuseCallback, L!ExchangeFails, L!ServePage, L!HandleLogout
  <2> QED BY <2>1, <2>2 DEF HandlesWith
<1>2. CASE L!Exchange(r)
  <2> DEFINE data == L!StoreLoginSession(r)
  <2>1. /\ UNCHANGED <<store, cookie, logins, sessions, expected, calm, ended>>
        /\ request[r].at = "begun" /\ request[r].kind = "callback" /\ L!StateMatches(r)
        /\ request[r].login \notin exchanged /\ L!Handled(r, data, TRUE)
    BY <1>2 DEF L!Exchange
  <2>2. HandlesWith(r, data, TRUE) BY <2>1, HandledWith
  <2>3. data.state = 0 /\ data.sub = request[r].login
    BY <1>0 DEF L!StoreLoginSession, SessionData
  <2>4. request[r].data.id /\ request[r].data.state = request[r].login /\ request[r].login # 0
    BY <2>1 DEF L!StateMatches
  <2> QED BY <2>1, <2>2, <2>3, <2>4 DEF HandlesWith
<1> QED
  BY <1>1, <1>2
  DEF Handler, L!RefuseCallback, L!ExchangeFails, L!ServePage, L!HandleLogout
LEMMA BeginCopies ==
  ASSUME LoginTypeOK, NEW r \in Requests, NEW kind \in L!Kinds, NEW login \in answers \union {0},
         L!Begin(r, kind, login)
  PROVE  /\ UNCHANGED <<store, cookie, logins, sessions, expected, ended>>
         /\ calm' = (calm /\ L!UnderWay = {})
         /\ \A q \in Requests : q # r => request'[q] = request[q]
         /\ request[r].at = "idle" /\ request'[r].at = "begun"
         /\ IF cookie \in DOMAIN store
            THEN request'[r].token = cookie /\ request'[r].data = store[cookie] /\ request'[r].put
            ELSE request'[r].token = 0 /\ request'[r].data = L!NoSession /\ ~request'[r].put
BY DEF L!Begin, LoginTypeOK, L!None

LEMMA AuthorizeStarts ==
  ASSUME LoginTypeOK, NEW r \in Requests, L!HandleAuthorize(r)
  PROVE  /\ UNCHANGED <<store, cookie, sessions, expected, calm, ended>> /\ logins' = logins + 1
         /\ \A q \in Requests : q # r => request'[q] = request[q]
         /\ request[r].at = "begun" /\ request'[r].at = "handled" /\ request'[r].put
         /\ request[r].kind = "authorize" /\ request'[r].kind = "authorize"
         /\ request'[r].token = request[r].token
         /\ request'[r].data.state = logins + 1 /\ request'[r].data.sub = request[r].data.sub
BY RequestFields
DEF L!HandleAuthorize, L!StartLogin, L!Handled, L!At, LoginTypeOK, RequestData, SessionData

LEMMA LogoutDestroys ==
  ASSUME LoginTypeOK, NEW r \in Requests, L!HandleLogout(r), request[r].data.id
  PROVE  /\ UNCHANGED <<cookie, logins, sessions, expected, calm>>
         /\ \A q \in Requests : q # r => request'[q] = request[q]
         /\ request[r].at = "begun" /\ request'[r].at = "destroyed"
         /\ DOMAIN store' = DOMAIN store \ {request[r].token}
         /\ \A t \in DOMAIN store' : store'[t] = store[t]
         /\ ended' = IF L!UnderWay = {r} THEN (ended \union {request[r].data.sub}) \ {0} ELSE ended
<1>1. store' = [t \in DOMAIN store \ {request[r].token} |-> store[t]]
  BY DEF L!HandleLogout, L!Destroyed, L!Restrict
<1>2. DOMAIN store' = DOMAIN store \ {request[r].token} BY <1>1
<1>3. \A t \in DOMAIN store' : store'[t] = store[t] BY <1>1
<1>4. /\ request'[r] = [request[r] EXCEPT !.at = "destroyed"]
      /\ \A q \in Requests : q # r => request'[q] = request[q]
  BY DEF L!HandleLogout, LoginTypeOK
<1>5. request[r].at = "begun" /\ request'[r].at = "destroyed"
  BY <1>4, RequestFields DEF L!HandleLogout, L!At, RequestData
<1>6. /\ UNCHANGED <<cookie, logins, sessions, expected, calm>>
      /\ ended' = IF L!UnderWay = {r} THEN (ended \union {request[r].data.sub}) \ {0} ELSE ended
  BY DEF L!HandleLogout, L!None
<1> QED BY <1>2, <1>3, <1>4, <1>5, <1>6

StoredAs(r) == IF request[r].token = 0 THEN sessions + 1 ELSE request[r].token

LEMMA CommitStores ==
  ASSUME LoginTypeOK, NEW r \in Requests, L!Commit(r)
  PROVE  /\ UNCHANGED <<logins, calm, ended>>
         /\ \A q \in Requests : q # r => request'[q] = request[q]
         /\ request[r].at = "handled" /\ request'[r].at = "idle"
         /\ ~request[r].put => UNCHANGED <<store, cookie>>
         /\ request[r].put =>
              /\ cookie' = StoredAs(r) /\ DOMAIN store' = DOMAIN store \union {StoredAs(r)}
              /\ store'[StoredAs(r)] = request[r].data
              /\ \A t \in DOMAIN store : t # StoredAs(r) => store'[t] = store[t]
         /\ expected' = IF /\ request[r].kind = "callback" /\ request[r].login = logins
                           /\ request[r].data.sub = request[r].login
                        THEN request[r].login ELSE expected
BY DEF L!Commit, L!None, L!Idle, StoredAs, LoginTypeOK

\* Whatever stores nothing, starts nothing and loads nothing.
LEMMA OneSessionShrinks ==
  ASSUME OneSession, UNCHANGED logins, DOMAIN store' \subseteq DOMAIN store,
         \A t \in DOMAIN store' : store'[t] = store[t],
         \A r \in Requests : Live(r)' =>
           /\ Live(r) /\ request'[r].token = request[r].token
           /\ \A l \in 1..logins : Bound(request'[r].data, l) => Bound(request[r].data, l)
  PROVE  OneSession'
<1>1. \A l \in 1..logins : Of(l)' \subseteq Of(l) BY DEF Of
<1>2. \A l \in 1..logins : By(l)' \subseteq By(l) BY DEF By
<1>3. \A r \in Requests : Live(r)' => request'[r].token = request[r].token OBVIOUS
<1> QED BY <1>1, <1>2, <1>3 DEF OneSession, By

LEMMA OneSessionStep ==
  ASSUME LoginTypeOK, OneSession, [L!Next]_L!vars
  PROVE  OneSession'
<1>1. ASSUME NEW r \in Requests, NEW kind \in L!Kinds, NEW login \in answers \union {L!None},
             L!Begin(r, kind, login)
      PROVE  OneSession'
  <2>1. \A l \in 1..logins : Of(l)' = Of(l) BY <1>1, BeginCopies DEF Of, L!None
  <2>2. \A l \in 1..logins : By(l)' \subseteq By(l) \union {r} BY <1>1, BeginCopies DEF By, Live, L!None
  <2>3. \A l \in 1..logins : r \in By(l)' => request'[r].token \in Of(l)
    BY <1>1, BeginCopies DEF By, Of, Bound, L!None, L!NoSession
  <2>4. \A q \in Requests : q # r => request'[q] = request[q] BY <1>1, BeginCopies DEF L!None
  <2>5. \A l \in 1..logins : \A t \in Of(l) : t # 0 BY StoreFields DEF Of
  <2>6. UNCHANGED logins BY <1>1, BeginCopies DEF L!None
  <2>7. \A l \in 1..logins : r \notin By(l) BY <1>1, BeginCopies DEF By, Live, L!None
  <2> SUFFICES ASSUME NEW l \in 1..logins
               PROVE  /\ \A t, u \in Of(l)' : t = u
                      /\ \A q \in By(l)' : \A t \in Of(l)' : request'[q].token = t
                      /\ \A q, p \in By(l)' : q # p =>
                           request'[q].token = request'[p].token /\ request'[p].token # 0
    BY <2>6 DEF OneSession
  <2>8. \A t, u \in Of(l)' : t = u BY <2>1 DEF OneSession
  <2>9. \A q \in By(l)' : \A t \in Of(l)' : request'[q].token = t
    BY <2>1, <2>2, <2>3, <2>4, <2>7 DEF OneSession, By
  <2>10. ASSUME NEW q \in By(l)', NEW p \in By(l)', q # p
         PROVE  request'[q].token = request'[p].token /\ request'[p].token # 0
    <3>1. CASE r \in {q, p} BY <2>1, <2>3, <2>5, <2>9, <3>1
    <3>2. CASE r \notin {q, p} BY <2>2, <2>4, <2>10, <3>2 DEF OneSession, By
    <3> QED BY <3>1, <3>2
  <2> QED BY <2>8, <2>9, <2>10
<1>2. ASSUME NEW r \in Requests, L!HandleAuthorize(r) PROVE OneSession'
  <2>1. \A l \in 1..logins : Of(l)' = Of(l) /\ By(l)' \subseteq By(l)
    BY <1>2, AuthorizeStarts DEF Of, By, Live, Bound, LoginTypeOK
  <2>2. Of(logins)' = {}
    BY <1>2, AuthorizeStarts, StoreFields DEF Of, Bound, LoginTypeOK
  <2>3. By(logins)' \subseteq {r}
    BY <1>2, AuthorizeStarts, RequestFields DEF By, Bound, LoginTypeOK
  <2>4. \A q \in Requests : request'[q].token = request[q].token
    BY <1>2, AuthorizeStarts
  <2>5. 1..logins' = 1..logins \union {logins'} BY <1>2, AuthorizeStarts DEF LoginTypeOK
  <2> QED BY <2>1, <2>2, <2>3, <2>4, <2>5 DEF OneSession, By
<1>3. ASSUME NEW r \in Requests, Handler(r) PROVE OneSession'
  <2>1. \A l \in 1..logins : Bound(request'[r].data, l) => Bound(request[r].data, l)
    BY <1>3, HandlerKeeps DEF Bound
  <2> QED BY <1>3, <2>1, HandlerKeeps, OneSessionShrinks DEF Live
<1>4. ASSUME NEW r \in Requests, L!HandleLogout(r), request[r].data.id PROVE OneSession'
  BY <1>4, LogoutDestroys, OneSessionShrinks DEF Live
<1>5. ASSUME NEW r \in Requests, L!Commit(r) PROVE OneSession'
  <2>1. CASE ~request[r].put
    BY <1>5, <2>1, CommitStores, OneSessionShrinks DEF Live
  <2>2. CASE request[r].put
    <3>1. \A l \in 1..logins : Of(l)' \subseteq Of(l) \union {StoredAs(r)}
      BY <1>5, <2>2, CommitStores DEF Of
    <3>2. \A l \in 1..logins : StoredAs(r) \in Of(l)' => r \in By(l)
      BY <1>5, <2>2, CommitStores DEF Of, By, Live
    <3>3. \A l \in 1..logins : By(l)' = By(l) \ {r}
      BY <1>5, CommitStores DEF By, Live
    <3>4. \A q \in Requests : q # r => request'[q] = request[q] BY <1>5, CommitStores
    <3>5. \A l \in 1..logins : \A t \in Of(l) : t # 0 BY StoreFields DEF Of
    <3>6. UNCHANGED logins BY <1>5, CommitStores
    <3> QED BY <3>1, <3>2, <3>3, <3>4, <3>5, <3>6 DEF OneSession, StoredAs, By
  <2> QED BY <2>1, <2>2
<1>6. ASSUME NEW r \in Requests, L!ExpireCookie(r) PROVE OneSession'
  BY <1>6, OneSessionShrinks DEF L!ExpireCookie, L!Idle, Live, LoginTypeOK
<1>7. CASE L!Expire
  <2>1. DOMAIN store' \subseteq DOMAIN store /\ \A t \in DOMAIN store' : store'[t] = store[t]
    BY <1>7 DEF L!Expire, L!Destroyed, L!Restrict
  <2> QED BY <1>7, <2>1, OneSessionShrinks DEF L!Expire, Live
<1>8. CASE L!Restart
  BY <1>8, OneSessionShrinks DEF L!Restart, L!Idle, Live
<1>9. CASE UNCHANGED L!vars
  BY <1>9, OneSessionShrinks DEF L!vars, Live
<1> QED
  BY <1>1, <1>2, <1>3, <1>4, <1>5, <1>6, <1>7, <1>8, <1>9 DEF L!Next, Handler

LEMMA EndedStep ==
  ASSUME EndedInv, [L!Next]_L!vars
  PROVE  EndedGone' /\ L!EndedStaysEnded'
<1> USE DEF EndedInv
<1>1. ended \subseteq exchanged /\ ended \subseteq 1..logins /\ 0 \notin ended
  BY DEF LoginTypeOK
<1>2. ASSUME UNCHANGED ended, DOMAIN store' \subseteq DOMAIN store,
             \A t \in DOMAIN store' : store'[t] = store[t],
             \A r \in Requests : Live(r)' => request'[r].data.sub \notin ended
      PROVE  EndedGone' /\ L!EndedStaysEnded'
  BY <1>2 DEF EndedGone, L!EndedStaysEnded
<1>3. ASSUME NEW r \in Requests, NEW kind \in L!Kinds, NEW login \in answers \union {L!None},
             L!Begin(r, kind, login)
      PROVE  EndedGone' /\ L!EndedStaysEnded'
  <2>1. request'[r].data.sub \notin ended
    BY <1>1, <1>3, BeginCopies DEF L!None, L!NoSession, L!EndedStaysEnded
  <2> QED BY <1>2, <1>3, <2>1, BeginCopies DEF L!None, Live, EndedGone
<1>4. ASSUME NEW r \in Requests, L!HandleAuthorize(r) PROVE EndedGone' /\ L!EndedStaysEnded'
  BY <1>2, <1>4, AuthorizeStarts DEF Live, EndedGone
<1>5. ASSUME NEW r \in Requests, Handler(r) PROVE EndedGone' /\ L!EndedStaysEnded'
  BY <1>1, <1>2, <1>5, HandlerKeeps DEF Live, EndedGone
<1>6. ASSUME NEW r \in Requests, L!HandleLogout(r), request[r].data.id
      PROVE  EndedGone' /\ L!EndedStaysEnded'
  <2>1. CASE L!UnderWay # {r}
    BY <1>2, <1>6, <2>1, LogoutDestroys DEF Live, EndedGone
  <2>2. CASE L!UnderWay = {r}
    <3> DEFINE sub == request[r].data.sub
    <3>1. \A q \in Requests : ~Live(q)'
      <4>1. \A q \in Requests : q # r => request[q].at = "idle" BY <2>2 DEF L!UnderWay
      <4> QED BY <1>6, <4>1, LogoutDestroys DEF Live
    <3>2. \A t \in DOMAIN store : sub # 0 /\ store[t].sub = sub => t = request[r].token
      <4>1. sub # 0 => sub \in 1..logins BY RequestFields DEF LoginTypeOK
      <4>2. sub # 0 => r \in By(sub) BY <1>6, LogoutDestroys DEF By, Live, Bound
      <4>3. \A t \in DOMAIN store : store[t].sub = sub => t \in Of(sub) BY DEF Of, Bound
      <4> HIDE DEF sub
      <4> QED BY <4>1, <4>2, <4>3 DEF OneSession
    <3>3. \A t \in DOMAIN store' : store'[t] = store[t] /\ t # request[r].token /\ t \in DOMAIN store
      BY <1>6, LogoutDestroys
    <3>4. ended' = (ended \union {sub}) \ {0} BY <1>6, <2>2, LogoutDestroys
    <3>5. L!EndedStaysEnded'
      BY <3>2, <3>3, <3>4 DEF L!EndedStaysEnded
    <3> QED BY <3>1, <3>5 DEF EndedGone
  <2> QED BY <2>1, <2>2
<1>7. ASSUME NEW r \in Requests, L!Commit(r) PROVE EndedGone' /\ L!EndedStaysEnded'
  <2>1. \A t \in DOMAIN store' : store'[t].sub \notin ended
    <3>1. \A t \in DOMAIN store : store[t].sub \notin ended BY DEF L!EndedStaysEnded
    <3>2. request[r].data.sub \notin ended
      <4>1. Live(r) BY <1>7, CommitStores DEF Live
      <4> QED BY <4>1 DEF EndedGone
    <3>3. CASE request[r].put
      <4>1. /\ DOMAIN store' = DOMAIN store \union {StoredAs(r)}
            /\ store'[StoredAs(r)] = request[r].data
            /\ \A t \in DOMAIN store : t # StoredAs(r) => store'[t] = store[t]
        BY <1>7, <3>3, CommitStores
      <4> QED BY <3>1, <3>2, <4>1
    <3>4. CASE ~request[r].put
      <4>1. store' = store BY <1>7, <3>4, CommitStores
      <4> QED BY <3>1, <4>1
    <3> QED BY <3>3, <3>4
  <2> QED BY <1>7, <2>1, CommitStores DEF Live, EndedGone, L!EndedStaysEnded
<1>8. ASSUME NEW r \in Requests, L!ExpireCookie(r) PROVE EndedGone' /\ L!EndedStaysEnded'
  BY <1>2, <1>8 DEF L!ExpireCookie, L!Idle, Live, LoginTypeOK, EndedGone
<1>9. CASE L!Expire
  <2>1. DOMAIN store' \subseteq DOMAIN store /\ \A t \in DOMAIN store' : store'[t] = store[t]
    BY <1>9 DEF L!Expire, L!Destroyed, L!Restrict
  <2> QED BY <1>2, <1>9, <2>1 DEF L!Expire, Live, EndedGone
<1>10. CASE L!Restart
  BY <1>2, <1>10 DEF L!Restart, L!Idle, Live
<1>11. CASE UNCHANGED L!vars
  BY <1>2, <1>11 DEF L!vars, Live, EndedGone
<1> QED
  BY <1>3, <1>4, <1>5, <1>6, <1>7, <1>8, <1>9, <1>10, <1>11 DEF L!Next, Handler

\* A login that a logout ended, while no other request was under way, is in no
\* stored session again: HandleLogout and Destroy against every copy of the
\* session that a request has loaded and may still store.
THEOREM LogoutEndsLogin == L!Spec => [](LoginTypeOK /\ EndedStaysEnded)
<1>1. L!Init => EndedInv
  BY LoginInitTyped
  DEF L!Init, L!Idle, EndedInv, OneSession, Of, By, Live, EndedGone, L!EndedStaysEnded
<1>2. EndedInv /\ [L!Next]_L!vars => EndedInv'
  BY LoginStepTyped, OneSessionStep, EndedStep DEF EndedInv
<1>3. EndedInv => LoginTypeOK /\ EndedStaysEnded BY DEF EndedInv, EndedStaysEnded
<1> QED BY <1>1, <1>2, <1>3, PTL DEF L!Spec

-----------------------------------------------------------------------------
(* Login: what holds when they do not. *)

\* A request that began in its turn has the session of the browser's cookie.
HasTheSession(q) ==
  IF cookie \in DOMAIN store
  THEN q.token = cookie /\ q.data = store[cookie] /\ q.put
  ELSE q.token = 0 /\ q.data = L!NoSession /\ ~q.put

\* One that is handled stores it in the browser's login, or in the newest one.
HandledInTurn(q) ==
  /\ q.token = IF cookie \in DOMAIN store THEN cookie ELSE 0
  /\ q.data.state \in {0, logins}
  /\ q.put \/ (q.token = 0 /\ q.data.sub = 0 /\ q.kind # "authorize")
  /\ \/ q.data.sub = expected
     \/ q.kind = "callback" /\ q.data.sub = q.login /\ q.login = logins

StateInTurn == store[cookie].state \in {0, logins}

InTurn ==
  /\ \A q, r \in L!UnderWay : q = r
  /\ (\A r \in Requests : request[r].at # "destroyed") => L!LoggedIn = expected
  /\ cookie \in DOMAIN store /\ (\A r \in Requests : ~L!At(r, "handled", "authorize"))
       => StateInTurn
  /\ \A r \in Requests :
       /\ request[r].at = "begun" => HasTheSession(request[r])
       /\ request[r].at = "handled" => HandledInTurn(request[r])
       /\ request[r].at = "destroyed" => cookie \notin DOMAIN store

CalmInv == LoginTypeOK /\ (calm => InTurn)

LEMMA InTurnStep ==
  ASSUME LoginTypeOK, calm => InTurn, L!Next, calm'
  PROVE  InTurn'
<1> USE DEF L!At
<1>1. ASSUME NEW r \in Requests, r \in L!UnderWay, calm
      PROVE  \A q \in Requests : q # r => request[q].at = "idle"
  BY <1>1 DEF InTurn, L!UnderWay
\* What is left to show of a step of the only request under way.
<1>2. ASSUME NEW r \in Requests, \A q \in Requests : q # r => request'[q].at = "idle",
             request'[r].at # "destroyed" => L!LoggedIn' = expected',
             cookie' \in DOMAIN store' /\ ~L!At(r, "handled", "authorize")' => StateInTurn',
             request'[r].at = "begun" => HasTheSession(request[r])',
             request'[r].at = "handled" => HandledInTurn(request[r])',
             request'[r].at = "destroyed" => cookie' \notin DOMAIN store'
      PROVE  InTurn'
  <2>1. \A p, q \in L!UnderWay' : p = q BY <1>2 DEF L!UnderWay
  <2> QED BY <1>2, <2>1 DEF InTurn
<1>3. ASSUME NEW r \in Requests, NEW kind \in L!Kinds, NEW login \in answers \union {L!None},
             L!Begin(r, kind, login)
      PROVE  InTurn'
  <2>1. calm /\ L!UnderWay = {} BY <1>3, BeginCopies DEF L!None
  <2>2. InTurn /\ \A q \in Requests : request[q].at = "idle" BY <2>1 DEF L!UnderWay
  <2>3. UNCHANGED <<store, cookie, logins, expected>> BY <1>3, BeginCopies DEF L!None
  <2>4. L!LoggedIn' = expected' BY <2>2, <2>3 DEF InTurn, L!LoggedIn
  <2>5. cookie' \in DOMAIN store' => StateInTurn' BY <2>2, <2>3 DEF InTurn, StateInTurn
  <2>6. HasTheSession(request[r])' BY <1>3, <2>3, BeginCopies DEF HasTheSession, L!None
  <2>7. request'[r].at = "begun" /\ \A q \in Requests : q # r => request'[q].at = "idle"
    BY <1>3, <2>2, BeginCopies DEF L!None
  <2> QED BY <1>2, <2>4, <2>5, <2>6, <2>7
<1>4. ASSUME NEW r \in Requests, L!HandleAuthorize(r) PROVE InTurn'
  <2>1. calm /\ InTurn /\ request[r].at = "begun" /\ request'[r].at = "handled"
    BY <1>4, AuthorizeStarts
  <2>2. \A q \in Requests : q # r => request'[q].at = "idle"
    BY <1>1, <1>4, <2>1, AuthorizeStarts DEF L!UnderWay
  <2>3. HasTheSession(request[r]) /\ L!LoggedIn = expected
    BY <1>1, <2>1 DEF InTurn, L!UnderWay
  <2>4. L!LoggedIn' = expected' BY <1>4, <2>3, AuthorizeStarts DEF L!LoggedIn
  <2>5. HandledInTurn(request[r])'
    <3>1. request[r].data.sub = expected /\ request[r].token = IF cookie \in DOMAIN store THEN cookie ELSE 0
      BY <2>3 DEF HasTheSession, L!LoggedIn, L!NoSession, L!None
    <3>2. /\ UNCHANGED <<store, cookie, expected>> /\ logins' = logins + 1
          /\ request'[r].put /\ request'[r].token = request[r].token
          /\ request'[r].data.state = logins + 1 /\ request'[r].data.sub = request[r].data.sub
      BY <1>4, AuthorizeStarts
    <3> QED BY <3>1, <3>2 DEF HandledInTurn
  <2>6. L!At(r, "handled", "authorize")' BY <1>4, AuthorizeStarts
  <2> QED BY <1>2, <2>1, <2>2, <2>4, <2>5, <2>6
<1>5. ASSUME NEW r \in Requests, Handler(r) PROVE InTurn'
  <2>1. calm /\ InTurn /\ request[r].at = "begun" /\ request'[r].at = "handled"
    BY <1>5, HandlerKeeps
  <2>2. \A q \in Requests : q # r => request[q].at = "idle" /\ request'[q].at = "idle"
    BY <1>1, <1>5, <2>1, HandlerKeeps DEF L!UnderWay
  <2>3. HasTheSession(request[r]) /\ L!LoggedIn = expected BY <2>1, <2>2 DEF InTurn
  <2>4. L!LoggedIn' = expected' BY <1>5, <2>3, HandlerKeeps DEF L!LoggedIn
  <2>5. cookie \in DOMAIN store => StateInTurn BY <2>1, <2>2 DEF InTurn
  <2>6. cookie' \in DOMAIN store' => StateInTurn' BY <1>5, <2>5, HandlerKeeps DEF StateInTurn
  <2>7. HandledInTurn(request[r])'
    <3>1. /\ request[r].data.sub = expected /\ request[r].data.state \in {0, logins}
          /\ request[r].token = IF cookie \in DOMAIN store THEN cookie ELSE 0
          /\ request[r].put \/ (request[r].token = 0 /\ request[r].data.sub = 0)
      BY <2>3, <2>5 DEF HasTheSession, StateInTurn, L!LoggedIn, L!NoSession, L!None
    <3>2. /\ UNCHANGED <<store, cookie, expected, logins>> /\ request'[r].token = request[r].token
          /\ request'[r].kind = request[r].kind /\ request'[r].kind # "authorize"
          /\ request'[r].login = request[r].login
      BY <1>5, HandlerKeeps
    <3>3. CASE request'[r].data = request[r].data /\ request'[r].put = request[r].put
      BY <3>1, <3>2, <3>3 DEF HandledInTurn
    <3>4. CASE /\ request[r].kind = "callback" /\ request'[r].put /\ request[r].login # 0
               /\ request[r].data.state = request[r].login
               /\ request'[r].data.state = 0 /\ request'[r].data.sub = request[r].login
      BY <3>1, <3>2, <3>4 DEF HandledInTurn
    <3> QED BY <1>5, <3>3, <3>4, HandlerKeeps
  <2> QED BY <1>2, <2>1, <2>2, <2>4, <2>6, <2>7
<1>6. ASSUME NEW r \in Requests, L!HandleLogout(r), request[r].data.id PROVE InTurn'
  <2>1. calm /\ InTurn /\ request[r].at = "begun" /\ request'[r].at = "destroyed"
    BY <1>6, LogoutDestroys
  <2>2. \A q \in Requests : q # r => request'[q].at = "idle"
    <3>1. \A q \in Requests : q # r => request[q].at = "idle" BY <1>1, <2>1 DEF L!UnderWay
    <3> QED BY <1>6, <3>1, LogoutDestroys
  <2>3. HasTheSession(request[r]) BY <2>1 DEF InTurn
  <2>4. cookie' \notin DOMAIN store'
    <3>1. cookie' = cookie /\ DOMAIN store' = DOMAIN store \ {request[r].token}
      BY <1>6, LogoutDestroys
    <3>2. cookie \in DOMAIN store => request[r].token = cookie BY <2>3 DEF HasTheSession
    <3> QED BY <3>1, <3>2
  <2> QED BY <1>2, <2>1, <2>2, <2>4
<1>7. ASSUME NEW r \in Requests, L!Commit(r) PROVE InTurn'
  <2>1. calm /\ InTurn /\ request[r].at = "handled" /\ request'[r].at = "idle"
    BY <1>7, CommitStores
  <2>2. \A q \in Requests : q # r => request[q].at = "idle" /\ request'[q].at = "idle"
    <3>1. \A q \in Requests : q # r => request'[q] = request[q] BY <1>7, CommitStores
    <3>2. \A q \in Requests : q # r => request[q].at = "idle" BY <1>1, <2>1 DEF L!UnderWay
    <3> QED BY <3>1, <3>2
  <2>3. HandledInTurn(request[r]) /\ L!LoggedIn = expected BY <2>1, <2>2 DEF InTurn
  <2>4. CASE request[r].put
    <3>1. cookie' = StoredAs(r) /\ cookie' \in DOMAIN store' /\ store'[cookie'] = request[r].data
      BY <1>7, <2>4, CommitStores
    <3>2. L!LoggedIn' = expected'
      BY <1>7, <2>3, <3>1, CommitStores DEF HandledInTurn, L!LoggedIn
    <3>3. StateInTurn'
      BY <1>7, <2>3, <3>1, CommitStores DEF HandledInTurn, StateInTurn
    <3> QED BY <1>2, <2>1, <2>2, <3>2, <3>3
  <2>5. CASE ~request[r].put
    <3>1. request[r].token = 0 /\ request[r].data.sub = 0 BY <2>3, <2>5 DEF HandledInTurn
    <3>2. cookie \notin DOMAIN store BY <2>3, <3>1, StoreFields DEF HandledInTurn
    <3>3. UNCHANGED <<store, cookie>> BY <1>7, <2>5, CommitStores
    <3>4. expected = 0 BY <2>3, <3>2 DEF L!LoggedIn, L!None
    <3>5. expected' = 0 BY <1>7, <3>1, <3>4, CommitStores
    <3>6. L!LoggedIn' = expected' BY <3>2, <3>3, <3>5 DEF L!LoggedIn, L!None
    <3> QED BY <1>2, <2>1, <2>2, <3>2, <3>3, <3>6
  <2> QED BY <2>4, <2>5
<1>8. ASSUME NEW r \in Requests, L!ExpireCookie(r) PROVE InTurn'
  <2>1. calm /\ InTurn /\ request[r].at = "destroyed" BY <1>8 DEF L!ExpireCookie
  <2>2. /\ \A q \in Requests : request'[q].at = "idle"
        /\ cookie' = 0 /\ expected' = 0 /\ UNCHANGED <<store, logins>>
    BY <1>1, <1>8, <2>1 DEF L!ExpireCookie, L!UnderWay, L!Idle, L!None, LoginTypeOK
  <2>3. cookie' \notin DOMAIN store' BY <2>2, StoreFields
  <2>4. L!LoggedIn' = expected' BY <2>2, <2>3 DEF L!LoggedIn, L!None
  <2> QED BY <1>2, <2>2, <2>3, <2>4
<1>9. ASSUME L!Expire \/ L!Restart PROVE InTurn'
  <2>1. \A q \in Requests : request'[q].at = "idle"
    <3>1. CASE L!Restart BY <3>1 DEF L!Restart, L!Idle
    <3>2. CASE L!Expire
      <4>1. L!UnderWay = {} /\ UNCHANGED request BY <3>2 DEF L!Expire
      <4> QED BY <4>1 DEF L!UnderWay
    <3> QED BY <1>9, <3>1, <3>2
  <2>2. CASE L!Restart
    <3>1. cookie' \notin DOMAIN store' /\ expected' = 0 BY <2>2 DEF L!Restart, L!None
    <3>2. L!LoggedIn' = expected' BY <3>1 DEF L!LoggedIn, L!None
    <3> QED BY <2>1, <3>1, <3>2 DEF InTurn, L!UnderWay
  <2>3. CASE L!Expire
    <3>1. PICK t \in DOMAIN store : store' = [u \in DOMAIN store \ {t} |-> store[u]]
                                  /\ expected' = IF t = cookie THEN 0 ELSE expected
      BY <2>3 DEF L!Expire, L!Destroyed, L!Restrict, L!None
    <3>2. calm /\ InTurn /\ UNCHANGED <<cookie, logins, request>> BY <2>3 DEF L!Expire
    <3>3. L!LoggedIn = expected /\ (cookie \in DOMAIN store => StateInTurn)
      BY <2>1, <3>2 DEF InTurn
    <3>4. L!LoggedIn' = expected' BY <3>1, <3>2, <3>3 DEF L!LoggedIn, L!None
    <3>5. cookie' \in DOMAIN store' => StateInTurn' BY <3>1, <3>2, <3>3 DEF StateInTurn
    <3> QED BY <2>1, <3>4, <3>5 DEF InTurn, L!UnderWay
  <2> QED BY <1>9, <2>2, <2>3
<1> QED
  BY <1>3, <1>4, <1>5, <1>6, <1>7, <1>8, <1>9 DEF L!Next, Handler

\* As long as requests do not overlap, the browser is in the login whose
\* callback ended last, and in none after a logout, an expiry or a restart:
\* HandleAuthorize, HandleOAuth2Callback and HandleLogout on the session that
\* LoadAndSave loads and stores.
THEOREM RequestsInTurnLogIn == L!Spec => [](LoginTypeOK /\ LoginsInTurn)
<1>1. L!Init => CalmInv
  BY LoginInitTyped
  DEF L!Init, L!Idle, CalmInv, InTurn, L!UnderWay, L!LoggedIn, L!At
<1>2. CalmInv /\ [L!Next]_L!vars => CalmInv'
  <2> SUFFICES ASSUME CalmInv, [L!Next]_L!vars PROVE CalmInv'
    OBVIOUS
  <2>1. LoginTypeOK' BY LoginStepTyped DEF CalmInv
  <2>2. CASE L!Next BY <2>1, <2>2, InTurnStep DEF CalmInv
  <2>3. CASE UNCHANGED L!vars
    BY <2>1, <2>3
    DEF CalmInv, L!vars, InTurn, L!UnderWay, L!LoggedIn, L!At, HasTheSession, HandledInTurn, StateInTurn
  <2> QED BY <2>2, <2>3
<1>3. CalmInv => LoginTypeOK /\ LoginsInTurn
  <2> SUFFICES ASSUME CalmInv, calm, L!UnderWay = {} PROVE L!LoggedIn = expected
    BY DEF CalmInv, LoginsInTurn, L!LoginsInTurn
  <2> QED BY DEF CalmInv, InTurn, L!UnderWay
<1> QED BY <1>1, <1>2, <1>3, PTL DEF L!Spec
=============================================================================
