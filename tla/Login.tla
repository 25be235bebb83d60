-------------------------------- MODULE Login --------------------------------
(***************************************************************************)
(* Login and logout of one browser: pkg/oidcSupport and pkg/sessionSupport *)
(* over the session store of alexedwards/scs.  Each request works on the   *)
(* copy of the session that it loaded by its cookie when it began; because *)
(* the session manager has an idle timeout, it writes that copy back when  *)
(* it ends, changed or not.  A login is named by the state (and nonce) of  *)
(* its redirect to the provider, and the user it logs in by that login.    *)
(* The store is in memory: a restart of the server empties it.             *)
(***************************************************************************)
EXTENDS Naturals, FiniteSets, Functions

CONSTANTS
  Requests,     \* the requests that may be under way at one time
  MaxLogins,    \* bound: redirects to the provider
  MaxSessions,  \* bound: sessions created
  MaxFaults     \* bound: token exchanges that fail, expiries and restarts

None == 0
Logins == 1..MaxLogins
Kinds == {"authorize", "callback", "logout", "page"}

VARIABLES
  store,     \* the stored sessions, by token
  cookie,    \* the token in the browser's cookie, or None
  request,   \* request[r]: what request r is at
  answers,   \* the logins that the provider has answered with a code
  exchanged, \* those whose code was exchanged: it is valid once
  logins,    \* logins 1..logins were started
  sessions,  \* tokens 1..sessions were given out
  faults,
  expected,  \* history: the login that this browser should be in, or None
  calm,      \* history: no two requests, nor a request and an expiry, overlapped
  ended      \* history: logins ended by a logout that no request overlapped

vars == <<store, cookie, request, answers, exchanged, logins, sessions, faults,
          expected, calm, ended>>

\* KeySessionId, KeyHexaState, KeyHexaNonce and KeySubject of a session.
NoSession == [id |-> FALSE, state |-> None, nonce |-> None, sub |-> None]
Idle == [at |-> "idle", kind |-> "page", token |-> None, data |-> NoSession,
         login |-> None, put |-> FALSE]

Init ==
  /\ store = [t \in {} |-> NoSession]
  /\ cookie = None
  /\ request = [r \in Requests |-> Idle]
  /\ answers = {} /\ exchanged = {}
  /\ logins = 0 /\ sessions = 0 /\ faults = 0
  /\ expected = None /\ calm = TRUE /\ ended = {}

UnderWay == {r \in Requests : request[r].at # "idle"}
Fault == faults < MaxFaults /\ faults' = faults + 1

\* LoadAndSave: the request gets a copy of the session its cookie names.
Begin(r, kind, login) ==
  /\ request[r].at = "idle"
  /\ login \in IF kind = "callback" THEN answers ELSE {None}
  /\ LET found == cookie \in DOMAIN store
     IN request' = [request EXCEPT ![r] =
          [at |-> "begun", kind |-> kind, login |-> login,
           token |-> IF found THEN cookie ELSE None,
           data |-> IF found THEN store[cookie] ELSE NoSession,
           put |-> found]]
  /\ calm' = (calm /\ UnderWay = {})
  /\ UNCHANGED <<store, cookie, answers, exchanged, logins, sessions, faults,
                 expected, ended>>

At(r, at, kind) == request[r].at = at /\ request[r].kind = kind

\* The handler is over; data is written when the response is.
Handled(r, data, put) ==
  request' = [request EXCEPT ![r].at = "handled", ![r].data = data, ![r].put = put]
Unchanged(r) == Handled(r, request[r].data, request[r].put)

\* Mutant: a login that waits for its answer is not replaced.
StartLogin_Waits(r, login) ==
  [request[r].data EXCEPT !.id = TRUE, !.state = IF @ = None THEN login ELSE @,
                          !.nonce = IF @ = None THEN login ELSE @]

StartLogin(r, login) ==
  [request[r].data EXCEPT !.id = TRUE, !.state = login, !.nonce = login]

\* HandleAuthorize; the provider may answer as soon as the browser gets there.
HandleAuthorize(r) ==
  /\ At(r, "begun", "authorize") /\ logins < MaxLogins
  /\ logins' = logins + 1
  /\ Handled(r, StartLogin(r, logins + 1), TRUE)
  /\ UNCHANGED <<store, cookie, answers, exchanged, sessions, faults, expected, calm, ended>>

\* HandleOAuth2Callback up to the token exchange.
StateMatches(r) ==
  LET d == request[r].data
  IN d.id /\ d.state # None /\ d.nonce # None /\ request[r].login = d.state

RefuseCallback(r) ==
  /\ At(r, "begun", "callback") /\ ~StateMatches(r)
  /\ Unchanged(r)
  /\ UNCHANGED <<store, cookie, answers, exchanged, logins, sessions, faults, expected,
                 calm, ended>>

\* StoreLoginSession: the state is used up.
StoreLoginSession(r) == [request[r].data EXCEPT !.state = None, !.sub = request[r].login]

\* The exchange and what follows it in the handler: the id token carries the
\* nonce of its login.
Exchange(r) ==
  /\ At(r, "begun", "callback") /\ StateMatches(r)
  /\ request[r].login \notin exchanged /\ request[r].data.nonce = request[r].login
  /\ exchanged' = exchanged \union {request[r].login}
  /\ Handled(r, StoreLoginSession(r), TRUE)
  /\ UNCHANGED <<store, cookie, answers, logins, sessions, faults, expected, calm, ended>>

ExchangeFails(r) ==
  /\ At(r, "begun", "callback") /\ StateMatches(r)
  /\ IF request[r].login \in exchanged \/ request[r].data.nonce # request[r].login
     THEN UNCHANGED faults ELSE Fault
  /\ Unchanged(r)
  /\ UNCHANGED <<store, cookie, answers, exchanged, logins, sessions, expected, calm, ended>>

\* Mutant: the session stays in the store, only the cookie is taken back.
Destroyed_Cookie(token) == store

Destroyed(token) == Restrict(store, DOMAIN store \ {token})

\* HandleLogout, and Destroy of the session at once in the store; a session
\* without an id is left alone.
HandleLogout(r) ==
  /\ At(r, "begun", "logout")
  /\ IF request[r].data.id
     THEN /\ store' = Destroyed(request[r].token)
          /\ request' = [request EXCEPT ![r].at = "destroyed"]
          /\ ended' = IF UnderWay = {r} THEN (ended \union {request[r].data.sub}) \ {None}
                      ELSE ended
     ELSE Unchanged(r) /\ UNCHANGED <<store, ended>>
  /\ UNCHANGED <<cookie, answers, exchanged, logins, sessions, faults, expected, calm>>

\* HandleSessionScope: any other page, which may take as long as it likes.
ServePage(r) ==
  /\ At(r, "begun", "page")
  /\ Unchanged(r)
  /\ UNCHANGED <<store, cookie, answers, exchanged, logins, sessions, faults, expected,
                 calm, ended>>

\* Commit: the copy is stored, under a new token if it had none, the cookie is
\* set and the browser goes where the answer sends it.
Commit(r) ==
  LET q == request[r]
      token == IF q.token = None THEN sessions + 1 ELSE q.token
  IN /\ q.at = "handled"
     /\ IF q.put
        THEN /\ token <= MaxSessions
             /\ store' = [t \in DOMAIN store \union {token} |->
                            IF t = token THEN q.data ELSE store[t]]
             /\ cookie' = token
             /\ sessions' = IF q.token = None THEN token ELSE sessions
        ELSE UNCHANGED <<store, cookie, sessions>>
     /\ answers' = answers \union (IF q.kind = "authorize" THEN {q.data.state} ELSE {})
     /\ expected' = IF q.kind = "callback" /\ q.login = logins /\ q.data.sub = q.login
                    THEN q.login ELSE expected
     /\ request' = [request EXCEPT ![r] = Idle]
     /\ UNCHANGED <<exchanged, logins, faults, calm, ended>>

\* The answer to a logout takes the cookie back.
ExpireCookie(r) ==
  /\ request[r].at = "destroyed"
  /\ cookie' = None
  /\ expected' = None
  /\ request' = [request EXCEPT ![r] = Idle]
  /\ UNCHANGED <<store, answers, exchanged, logins, sessions, faults, calm, ended>>

\* The idle timeout or the lifetime of a session passes.
Expire ==
  /\ Fault
  /\ \E t \in DOMAIN store :
       /\ store' = Destroyed(t)
       /\ expected' = IF t = cookie THEN None ELSE expected
  /\ calm' = (calm /\ UnderWay = {})
  /\ UNCHANGED <<cookie, request, answers, exchanged, logins, sessions, ended>>

Restart ==
  /\ Fault
  /\ store' = [t \in {} |-> NoSession]
  /\ request' = [r \in Requests |-> Idle]
  /\ expected' = None
  /\ UNCHANGED <<cookie, answers, exchanged, logins, sessions, calm, ended>>

Next ==
  \/ \E r \in Requests :
       \/ \E kind \in Kinds : \E login \in answers \union {None} : Begin(r, kind, login)
       \/ HandleAuthorize(r) \/ RefuseCallback(r) \/ Exchange(r) \/ ExchangeFails(r)
       \/ HandleLogout(r) \/ ServePage(r) \/ Commit(r) \/ ExpireCookie(r)
  \/ Expire \/ Restart

Spec == Init /\ [][Next]_vars
-----------------------------------------------------------------------------
LoggedIn == IF cookie \in DOMAIN store THEN store[cookie].sub ELSE None

\* As long as requests do not overlap, the browser is in the login whose
\* callback ended last, of those started when no later one was, and in none
\* after a logout, an expiry or a restart: whatever callbacks are refused, come
\* twice or fail, and however many logins are started in other tabs.
LoginsInTurn == calm /\ UnderWay = {} => LoggedIn = expected

\* A login that a logout ended, while no other request was under way, is never
\* in a stored session again, whatever copies and cookies there are.
EndedStaysEnded == \A t \in DOMAIN store : store[t].sub \notin ended
=============================================================================
