--------------------------- MODULE HexaCliProofs ---------------------------
(***************************************************************************)
(* Proofs about HexaCli, for any number of sessions, accounts, aliases,    *)
(* applications and commands.                                              *)
(***************************************************************************)
EXTENDS HexaCli, FiniteSetTheorems, TLAPS

-----------------------------------------------------------------------------
(* Tables, integrations and configurations. *)

\* A table has an application of its account under one alias at most.
TableOf(x, t) ==
  /\ t = [b \in DOMAIN t |-> t[b]] /\ IsInjective(t)
  /\ \A b \in DOMAIN t : t[b] \in Objects /\ Owner[t[b]] = x

IntegrationOK(i) ==
  /\ i = [account |-> i.account, apps |-> i.apps]
  /\ i.account \in Accounts /\ TableOf(i.account, i.apps)

ConfigOK(c) ==
  /\ c = [a \in DOMAIN c |-> c[a]]
  /\ \A a \in DOMAIN c : IntegrationOK(c[a])

Phases == {"off", "ready", "open", "write"}

SessionOK(r) ==
  /\ r = [phase |-> r.phase, exit |-> r.exit, fresh |-> r.fresh, unsaved |-> r.unsaved,
          data |-> r.data]
  /\ r.phase \in Phases
  /\ r.exit \in BOOLEAN /\ r.fresh \in BOOLEAN /\ r.unsaved \in BOOLEAN
  /\ ConfigOK(r.data)
  /\ r.phase = "off" => r = Off

TypeOK ==
  /\ file = [kind |-> file.kind, data |-> file.data] /\ ConfigOK(file.data)
  /\ session = [s \in Sessions |-> session[s]]
  /\ \A s \in Sessions : SessionOK(session[s])
  /\ present \in SUBSET Objects

LEMMA NoConfigOK == ConfigOK(NoConfig) /\ DOMAIN NoConfig = {}
BY DEF ConfigOK, NoConfig

\* A discovery fills a table with what it found.
LEMMA DiscoveredTable ==
  ASSUME present \in SUBSET Objects, NEW x, NEW apps, NEW name \in Namings(apps, PresentIn(x)),
         NEW t \in TablesOf(name)
  PROVE  TableOf(x, t)
<1>1. name \in [PresentIn(x) -> PapAliases] BY DEF Namings
<1>2. t \in [Range(name) -> PresentIn(x)] /\ \A b \in DOMAIN t : name[t[b]] = b
  BY <1>1 DEF TablesOf
<1>3. IsInjective(t) BY <1>2 DEF IsInjective
<1>4. \A b \in DOMAIN t : t[b] \in PresentIn(x) BY <1>2
<1> QED BY <1>2, <1>3, <1>4 DEF TableOf, PresentIn

LEMMA OpenedOK ==
  ASSUME present \in SUBSET Objects, NEW x \in Accounts, NEW i \in Opened(x)
  PROVE  IntegrationOK(i)
<1>1. PICK t \in UNION {TablesOf(name) : name \in Namings(<<>>, PresentIn(x))} :
        i = [account |-> x, apps |-> t]
  BY DEF Opened
<1>2. PICK name \in Namings(<<>>, PresentIn(x)) : t \in TablesOf(name) BY <1>1
<1>3. TableOf(x, t) BY <1>2, DiscoveredTable
<1> QED BY <1>1, <1>3 DEF IntegrationOK

LEMMA WithOK ==
  ASSUME NEW c, ConfigOK(c), NEW a, NEW i, IntegrationOK(i)
  PROVE  ConfigOK(With(c, a, i))
BY DEF ConfigOK, With

LEMMA WithoutOK == ASSUME NEW c, ConfigOK(c), NEW a PROVE ConfigOK(Without(c, a))
<1> DEFINE d == Without(c, a)
<1>1. DOMAIN d = DOMAIN c \ {a} /\ \A b \in DOMAIN d : d[b] = c[b]
  BY DEF Without, Restrict
<1>2. d = [x \in DOMAIN d |-> d[x]] BY DEF Without, Restrict
<1> HIDE DEF d
<1>3. ConfigOK(d) BY <1>1, <1>2 DEF ConfigOK
<1> QED BY <1>3 DEF d

\* Another table for one integration.
LEMMA RetabledOK ==
  ASSUME NEW c, ConfigOK(c), NEW a \in DOMAIN c, NEW t, TableOf(c[a].account, t)
  PROVE  /\ ConfigOK([c EXCEPT ![a].apps = t])
         /\ [c EXCEPT ![a].apps = t][a].apps = t
<1> DEFINE d == [c EXCEPT ![a].apps = t]
<1>1. d = [b \in DOMAIN c |-> IF b = a THEN [c[a] EXCEPT !.apps = t] ELSE c[b]] BY DEF ConfigOK
<1>2. [c[a] EXCEPT !.apps = t] = [account |-> c[a].account, apps |-> t]
  BY DEF ConfigOK, IntegrationOK
<1>3. IntegrationOK([account |-> c[a].account, apps |-> t])
  BY DEF ConfigOK, IntegrationOK
<1> HIDE DEF d
<1>4. DOMAIN d = DOMAIN c /\ d = [b \in DOMAIN d |-> d[b]] BY <1>1
<1>5. d[a] = [account |-> c[a].account, apps |-> t] BY <1>1, <1>2
<1>6. \A b \in DOMAIN c : b # a => d[b] = c[b] BY <1>1
<1>7. ConfigOK(d) BY <1>3, <1>4, <1>5, <1>6 DEF ConfigOK
<1> QED BY <1>5, <1>7 DEF d

LEMMA RestrictedOK ==
  ASSUME NEW x, NEW t, TableOf(x, t), NEW B \in SUBSET DOMAIN t
  PROVE  TableOf(x, Restrict(t, B))
BY DEF TableOf, Restrict, IsInjective

\* Deleting an application by its alias and deleting what it stands for are
\* the same.
LEMMA ByAlias ==
  ASSUME NEW c, ConfigOK(c), NEW n, n \notin Objects, NEW p \in Targets(c, n)
  PROVE  /\ p[1] \in DOMAIN c
         /\ Without(c[p[1]].apps, n)
              = Restrict(c[p[1]].apps, {b \in DOMAIN c[p[1]].apps : c[p[1]].apps[b] # p[2]})
<1>1. PICK a \in DOMAIN c : p \in {<<a, o>> : o \in Lookup(c[a].apps, n)} BY DEF Targets
<1>2. PICK o \in Lookup(c[a].apps, n) : p = <<a, o>> BY <1>1
<1>3. PICK t : t = c[a].apps OBVIOUS
<1>4. IsInjective(t) /\ \A b \in DOMAIN t : t[b] \in Objects
  BY <1>3 DEF ConfigOK, IntegrationOK, TableOf
<1>5. n \in DOMAIN t /\ o = t[n]
  <2>1. o \in IF n \in DOMAIN t THEN {t[n]} ELSE {q \in Range(t) : q = n} BY <1>2, <1>3 DEF Lookup
  <2>2. n \notin Range(t) BY <1>4 DEF Range
  <2> QED BY <2>1, <2>2
<1>6. DOMAIN t \ {n} = {b \in DOMAIN t : t[b] # o} BY <1>4, <1>5 DEF IsInjective
<1>7. p[1] = a /\ p[2] = o BY <1>2
<1>8. Without(t, n) = Restrict(t, {b \in DOMAIN t : t[b] # o}) BY <1>6 DEF Without
<1> QED BY <1>3, <1>7, <1>8

-----------------------------------------------------------------------------
(* What commands do to their session. *)

\* A command says what it leaves in its session, and a session that is not
\* saved is known for it.
CommandLeaves(s, state, tells, mistakes) ==
  /\ SessionOK(state) /\ state.phase \in {"ready", "open"} /\ state.fresh = session[s].fresh
  /\ mistakes = {} => tells = state.data
  /\ state.phase = "ready" => /\ session[s].unsaved => state.unsaved
                              /\ state.unsaved \/ state.data = Data(s)

LEMMA SavingLeaves ==
  ASSUME TypeOK, NEW s \in Sessions, NEW c, ConfigOK(c), NEW tells, NEW mistakes,
         mistakes = {} => tells = c
  PROVE  CommandLeaves(s, Saving(s, c), tells, mistakes)
<1>1. PICK r : r = session[s] OBVIOUS
<1>2. SessionOK(r) BY <1>1 DEF TypeOK
<1>3. PICK state : state = [session[s] EXCEPT !.phase = "open", !.data = c] OBVIOUS
<1>4. state
        = [phase |-> "open", exit |-> r.exit, fresh |-> r.fresh, unsaved |-> r.unsaved, data |-> c]
  BY <1>1, <1>2, <1>3 DEF SessionOK
<1>5. SessionOK(state) BY <1>2, <1>4 DEF SessionOK, Phases
<1> QED BY <1>1, <1>3, <1>4, <1>5 DEF CommandLeaves, Saving

LEMMA CommandFacts ==
  ASSUME TypeOK, NEW s \in Sessions, Command(s)
  PROVE  \E state, tells, mistakes :
           Run(s, state, tells, mistakes) /\ CommandLeaves(s, state, tells, mistakes)
<1>1. SessionOK(session[s]) /\ ConfigOK(Data(s)) BY DEF TypeOK, SessionOK, Data
<1>2. ASSUME NEW a, NEW x \in Accounts, AddAsked(s, a, x) \/ AddOpa(s, a, x)
      PROVE  \E state, tells, mistakes :
               Run(s, state, tells, mistakes) /\ CommandLeaves(s, state, tells, mistakes)
  <2>01. PICK i \in Opened(x) :
           \E mistakes : Run(s, Saving(s, With(Data(s), a, i)), With(Data(s), a, i), mistakes)
    BY <1>2 DEF AddAsked, AddOpa
  <2>1. PICK mistakes : Run(s, Saving(s, With(Data(s), a, i)), With(Data(s), a, i), mistakes)
    BY <2>01
  <2>2. ConfigOK(With(Data(s), a, i)) BY <1>1, OpenedOK, WithOK DEF TypeOK
  <2> QED BY <2>1, <2>2, SavingLeaves
<1>3. ASSUME NEW a, GetPaps(s, a)
      PROVE  \E state, tells, mistakes :
               Run(s, state, tells, mistakes) /\ CommandLeaves(s, state, tells, mistakes)
  <2>0. a \in DOMAIN Data(s) BY <1>3 DEF GetPaps
  <2>1. PICK i : i = Data(s)[a] OBVIOUS
  <2> DEFINE Shown(t) == [Data(s) EXCEPT ![a].apps = t]
             Left(t) == [session[s] EXCEPT !.data = Shown(t), !.unsaved = @ \/ t # i.apps]
  <2>02. PICK name \in Namings(i.apps, PresentIn(i.account)) :
           \E t \in TablesOf(name) : Run(s, Left(t), Shown(t), {})
    BY <1>3, <2>1 DEF GetPaps
  <2>2. PICK t \in TablesOf(name) : Run(s, Left(t), Shown(t), {}) BY <2>02
  <2>3. PICK c : c = [Data(s) EXCEPT ![a].apps = t] OBVIOUS
  <2>4. ConfigOK(c)
    <3>1. TableOf(Data(s)[a].account, t) BY <2>1, <2>2, DiscoveredTable DEF TypeOK
    <3> QED BY <1>1, <2>0, <2>3, <3>1, RetabledOK
  <2>5. t = i.apps => c = Data(s)
    <3>1. [i EXCEPT !.apps = i.apps] = i BY <1>1, <2>0, <2>1 DEF ConfigOK, IntegrationOK
    <3>2. t = i.apps => c = [b \in DOMAIN Data(s) |-> IF b = a THEN i ELSE Data(s)[b]]
      BY <1>1, <2>1, <2>3, <3>1 DEF ConfigOK
    <3> QED BY <1>1, <2>1, <3>2 DEF ConfigOK
  <2>6. PICK r : r = session[s] OBVIOUS
  <2>7. PICK u \in BOOLEAN : u = (r.unsaved \/ t # i.apps) OBVIOUS
  <2>8. PICK state : state = [session[s] EXCEPT !.data = c, !.unsaved = @ \/ t # i.apps] OBVIOUS
  <2>9. state = [phase |-> r.phase, exit |-> r.exit, fresh |-> r.fresh, unsaved |-> u, data |-> c]
    BY <1>1, <2>6, <2>7, <2>8 DEF SessionOK
  <2>10. Run(s, state, c, {}) BY <2>2, <2>3, <2>8
  <2>11. r.phase = "ready" BY <2>6, <2>10 DEF Run, Ready
  <2>12. SessionOK(state) BY <1>1, <2>4, <2>6, <2>9, <2>11 DEF SessionOK, Phases
  <2>13. CommandLeaves(s, state, c, {})
    BY <1>1, <2>5, <2>6, <2>7, <2>9, <2>11, <2>12 DEF CommandLeaves
  <2> QED BY <2>10, <2>13
<1>4. ASSUME NEW a, DeleteIntegration(s, a)
      PROVE  \E state, tells, mistakes :
               Run(s, state, tells, mistakes) /\ CommandLeaves(s, state, tells, mistakes)
  <2>1. ConfigOK(Without(Data(s), a)) BY <1>1, WithoutOK
  <2> QED BY <1>4, <2>1, SavingLeaves DEF DeleteIntegration
<1>5. ASSUME NEW n, DeletePap(s, n)
      PROVE  \E state, tells, mistakes :
               Run(s, state, tells, mistakes) /\ CommandLeaves(s, state, tells, mistakes)
  <2>1. PICK p \in Targets(Data(s), n) :
          Run(s, Saving(s, RemoveApplication(Data(s), p[1], n)),
              [Data(s) EXCEPT ![p[1]].apps = Restrict(@, {b \in DOMAIN @ : @[b] # p[2]})],
              IF n \in Objects THEN {"by id"} ELSE {})
    BY <1>5 DEF DeletePap
  <2>2. p[1] \in DOMAIN Data(s) BY DEF Targets
  <2>3. PICK t : t = Data(s)[p[1]].apps OBVIOUS
  <2>4. RemoveApplication(Data(s), p[1], n) = [Data(s) EXCEPT ![p[1]].apps = Without(t, n)]
    BY <2>3 DEF RemoveApplication
  <2>5. TableOf(Data(s)[p[1]].account, Without(t, n))
    <3>1. TableOf(Data(s)[p[1]].account, t) BY <1>1, <2>2, <2>3 DEF ConfigOK, IntegrationOK
    <3> QED BY <3>1, RestrictedOK DEF Without
  <2>6. ConfigOK(RemoveApplication(Data(s), p[1], n)) BY <1>1, <2>2, <2>4, <2>5, RetabledOK
  <2>7. n \notin Objects =>
          [Data(s) EXCEPT ![p[1]].apps = Restrict(@, {b \in DOMAIN @ : @[b] # p[2]})]
            = RemoveApplication(Data(s), p[1], n)
    BY <1>1, <2>3, <2>4, ByAlias
  <2> QED BY <2>1, <2>6, <2>7, SavingLeaves
<1>6. CASE Exit(s)
  <2>1. PICK r : r = session[s] OBVIOUS
  <2>2. PICK state : state = [session[s] EXCEPT !.phase = "open", !.exit = TRUE] OBVIOUS
  <2>3. state = [phase |-> "open", exit |-> TRUE, fresh |-> r.fresh, unsaved |-> r.unsaved,
                 data |-> r.data]
    BY <1>1, <2>1, <2>2 DEF SessionOK
  <2>4. SessionOK(state) BY <1>1, <2>1, <2>3 DEF SessionOK, Phases
  <2>5. CommandLeaves(s, state, Data(s), {}) BY <2>1, <2>3, <2>4 DEF CommandLeaves, Data
  <2> QED BY <1>6, <2>2, <2>5 DEF Exit
<1> QED BY <1>2, <1>3, <1>4, <1>5, <1>6 DEF Command

-----------------------------------------------------------------------------
(* What a step does to the sessions and the file. *)

\* Only session s changes, to r.
Becomes(s, r) ==
  /\ SessionOK(r) /\ session' = [session EXCEPT ![s] = r]

LEMMA BecomesTyped ==
  ASSUME TypeOK, NEW s \in Sessions, NEW r, Becomes(s, r), UNCHANGED <<file, present>>
  PROVE  TypeOK'
BY DEF TypeOK, Becomes

LEMMA OffOK == SessionOK(Off)
BY NoConfigOK DEF SessionOK, Off, Phases

LEMMA LoadOK == ASSUME TypeOK PROVE ConfigOK(Load)
BY NoConfigOK DEF TypeOK, Load

LEMMA StartFacts ==
  ASSUME TypeOK, NEW s \in Sessions, Start(s)
  PROVE  \E fresh \in BOOLEAN :
           LET r == [phase |-> "ready", exit |-> FALSE, fresh |-> fresh, unsaved |-> FALSE,
                     data |-> Load]
           IN  /\ fresh <=> \A t \in Sessions : session[t] = Off \/ Unchanged(t)
               /\ Becomes(s, r) /\ session[s] = Off /\ UNCHANGED <<file, present, told, slips>>
<1>1. PICK fresh \in BOOLEAN : fresh <=> \A t \in Sessions : session[t] = Off \/ Unchanged(t)
  OBVIOUS
<1> DEFINE r == [phase |-> "ready", exit |-> FALSE, fresh |-> fresh, unsaved |-> FALSE,
                 data |-> Load]
<1>2. [Off EXCEPT !.phase = "ready", !.data = Load, !.fresh = fresh] = r
  <2>1. PICK l : l = Load OBVIOUS
  <2>2. PICK o : o = Off OBVIOUS
  <2>3. PICK q : q = [o EXCEPT !.phase = "ready", !.data = l, !.fresh = fresh] OBVIOUS
  <2>4. q = [phase |-> "ready", exit |-> o.exit, fresh |-> fresh, unsaved |-> o.unsaved, data |-> l]
    BY <2>2, <2>3, OffOK DEF SessionOK
  <2>5. o.exit = FALSE /\ o.unsaved = FALSE BY <2>2 DEF Off
  <2> QED BY <2>1, <2>2, <2>3, <2>4, <2>5
<1>3. session' = [session EXCEPT ![s] =
                    [Off EXCEPT !.phase = "ready", !.data = Load,
                                !.fresh = \A t \in Sessions : session[t] = Off \/ Unchanged(t)]]
  BY DEF Start
<1>4. fresh = (\A t \in Sessions : session[t] = Off \/ Unchanged(t)) BY <1>1
<1>5. session' = [session EXCEPT ![s] = r] BY <1>2, <1>3, <1>4
<1>6. SessionOK(r) BY LoadOK DEF SessionOK, Phases
<1>7. session[s] = Off BY DEF Start, TypeOK, SessionOK
<1> HIDE DEF r
<1>8. Becomes(s, r) /\ session[s] = Off /\ UNCHANGED <<file, present, told, slips>>
  BY <1>5, <1>6, <1>7 DEF Start, Becomes
<1> QED BY <1>1, <1>8 DEF r

\* After a command the others' copies are as they were, if not up to date.
LEMMA RunFacts ==
  ASSUME TypeOK, NEW s \in Sessions, NEW state, NEW tells, NEW mistakes,
         Run(s, state, tells, mistakes), SessionOK(state)
  PROVE  /\ Ready(s) /\ UNCHANGED <<file, present>> /\ session'[s] = state
         /\ session' = [t \in Sessions |-> session'[t]]
         /\ \A t \in Sessions \ {s} :
              /\ SessionOK(session'[t])
              /\ session'[t].phase = session[t].phase /\ session'[t].data = session[t].data
              /\ session'[t].unsaved = session[t].unsaved
              /\ session'[t].fresh <=> session[t].fresh /\ state.data = Data(s)
<1>1. Ready(s) /\ UNCHANGED <<file, present>> /\ session'[s] = state
      /\ session' = [t \in Sessions |-> session'[t]]
  BY DEF Run
<1>2. ASSUME NEW t \in Sessions \ {s}
      PROVE  /\ SessionOK(session'[t])
             /\ session'[t].phase = session[t].phase /\ session'[t].data = session[t].data
             /\ session'[t].unsaved = session[t].unsaved
             /\ session'[t].fresh <=> session[t].fresh /\ state.data = Data(s)
  <2>1. SessionOK(session[t]) BY DEF TypeOK
  <2>2. PICK r : r = session[t] OBVIOUS
  <2>3. session'[t] = [session[t] EXCEPT !.fresh = @ /\ state.data = Data(s)] BY DEF Run
  <2>4. PICK u \in BOOLEAN : u = (r.fresh /\ state.data = Data(s)) OBVIOUS
  <2>5. session'[t] = [phase |-> r.phase, exit |-> r.exit, fresh |-> u, unsaved |-> r.unsaved,
                       data |-> r.data]
    BY <2>1, <2>2, <2>3, <2>4 DEF SessionOK
  <2>6. r.phase = "off" => session'[t] = Off BY <2>1, <2>2, <2>4, <2>5 DEF SessionOK, Off
  <2>7. SessionOK(session'[t]) BY <2>1, <2>2, <2>5, <2>6 DEF SessionOK
  <2>8. /\ session'[t].phase = r.phase /\ session'[t].data = r.data
        /\ session'[t].unsaved = r.unsaved /\ session'[t].fresh = u
    BY <2>5
  <2>9. r.fresh \in BOOLEAN BY <2>1, <2>2 DEF SessionOK
  <2>10. u <=> r.fresh /\ state.data = Data(s) BY <2>4, <2>9
  <2> QED BY <2>2, <2>7, <2>8, <2>10
<1> QED BY <1>1, <1>2

LEMMA OpenFacts ==
  ASSUME TypeOK, NEW s \in Sessions, OpenFile(s)
  PROVE  \E r : /\ Becomes(s, r) /\ r.phase = "write" /\ r.fresh = session[s].fresh
                /\ r.data = Data(s)
<1>1. PICK r : r = [session[s] EXCEPT !.phase = "write"] OBVIOUS
<1>2. SessionOK(session[s]) BY DEF TypeOK
<1>3. r = [phase |-> "write", exit |-> session[s].exit, fresh |-> session[s].fresh,
           unsaved |-> session[s].unsaved, data |-> session[s].data]
  BY <1>1, <1>2 DEF SessionOK
<1>4. SessionOK(r) BY <1>2, <1>3 DEF SessionOK, Phases
<1>5. session' = [session EXCEPT ![s] = r] BY <1>1 DEF OpenFile, TypeOK
<1>6. r.phase = "write" /\ r.fresh = session[s].fresh /\ r.data = session[s].data BY <1>3
<1> QED BY <1>4, <1>5, <1>6 DEF Becomes, Data

LEMMA WriteFacts ==
  ASSUME TypeOK, NEW s \in Sessions, WriteFile(s)
  PROVE  \E r : /\ Becomes(s, r)
                /\ r = Off \/ (/\ r.phase = "ready" /\ r.fresh = session[s].fresh
                               /\ r.data = Data(s))
<1>1. PICK r : r = AfterSave(s) OBVIOUS
<1>2. SessionOK(session[s]) BY DEF TypeOK
<1>3. r = Off \/ r = [phase |-> "ready", exit |-> session[s].exit, fresh |-> session[s].fresh,
                      unsaved |-> FALSE, data |-> session[s].data]
  BY <1>1, <1>2 DEF SessionOK, AfterSave
<1>4. CASE r = Off BY <1>1, <1>4, OffOK DEF WriteFile, Becomes
<1>5. CASE r # Off
  <2>0. r = [phase |-> "ready", exit |-> session[s].exit, fresh |-> session[s].fresh,
             unsaved |-> FALSE, data |-> session[s].data]
    BY <1>3, <1>5
  <2>1. SessionOK(r) BY <1>2, <2>0 DEF SessionOK, Phases
  <2>2. r.phase = "ready" /\ r.fresh = session[s].fresh /\ r.data = session[s].data BY <1>3, <1>5
  <2> QED BY <1>1, <2>1, <2>2 DEF WriteFile, Becomes, Data
<1> QED BY <1>4, <1>5

LEMMA SaveFailsFacts ==
  ASSUME TypeOK, NEW s \in Sessions, SaveFails(s)
  PROVE  \E r : Becomes(s, r)
<1>1. PICK r : r = [session[s] EXCEPT !.phase = "ready", !.exit = FALSE] OBVIOUS
<1>2. SessionOK(session[s]) BY DEF TypeOK
<1>3. r = [phase |-> "ready", exit |-> FALSE, fresh |-> session[s].fresh,
           unsaved |-> session[s].unsaved, data |-> session[s].data]
  BY <1>1, <1>2 DEF SessionOK
<1>4. SessionOK(r) BY <1>2, <1>3 DEF SessionOK, Phases
<1>5. [session EXCEPT ![s].phase = "ready", ![s].exit = FALSE] = [session EXCEPT ![s] = r]
  BY <1>1, <1>2 DEF TypeOK
<1>6. \/ session' = [session EXCEPT ![s] = r]
      \/ session' = [session EXCEPT ![s] = Off]
  BY <1>5 DEF SaveFails
<1> QED BY <1>4, <1>6, OffOK DEF Becomes

LEMMA TypeInit == Init => TypeOK
BY OffOK, NoConfigOK DEF Init, TypeOK

LEMMA TypeStep == TypeOK /\ [Next]_vars => TypeOK'
<1> SUFFICES ASSUME TypeOK, [Next]_vars PROVE TypeOK'
  OBVIOUS
<1>1. ASSUME NEW s \in Sessions, Start(s) PROVE TypeOK'
  BY <1>1, StartFacts, BecomesTyped
<1>2. ASSUME NEW s \in Sessions, Command(s) PROVE TypeOK'
  <2>1. PICK state, tells, mistakes :
          Run(s, state, tells, mistakes) /\ CommandLeaves(s, state, tells, mistakes)
    BY <1>2, CommandFacts
  <2>2. SessionOK(state) BY <2>1 DEF CommandLeaves
  <2> QED BY <2>1, <2>2, RunFacts DEF TypeOK
<1>3. ASSUME NEW s \in Sessions, NEW r, Becomes(s, r), UNCHANGED present,
             file' = [kind |-> file'.kind, data |-> file'.data], ConfigOK(file'.data)
      PROVE  TypeOK'
  BY <1>3 DEF TypeOK, Becomes
<1>4. ASSUME NEW s \in Sessions, OpenFile(s) PROVE TypeOK'
  <2>1. file' = [kind |-> "empty", data |-> NoConfig] /\ UNCHANGED present BY <1>4 DEF OpenFile
  <2>2. ConfigOK(file'.data) /\ file' = [kind |-> file'.kind, data |-> file'.data]
    BY <2>1, NoConfigOK
  <2> QED BY <1>3, <1>4, <2>1, <2>2, OpenFacts
<1>5. ASSUME NEW s \in Sessions, WriteFile(s) PROVE TypeOK'
  <2>1. PICK c \in {Data(s), NoConfig}, k \in {"saved", "torn"} : file' = [kind |-> k, data |-> c]
    BY <1>5 DEF WriteFile, Saved
  <2>2. ConfigOK(c) BY NoConfigOK DEF TypeOK, SessionOK, Data
  <2>3. ConfigOK(file'.data) /\ file' = [kind |-> file'.kind, data |-> file'.data]
    BY <2>1, <2>2
  <2> QED BY <1>3, <1>5, <2>3, WriteFacts DEF WriteFile
<1>6. ASSUME NEW s \in Sessions, SaveFails(s) PROVE TypeOK'
  BY <1>6, SaveFailsFacts, BecomesTyped DEF SaveFails
<1>7. ASSUME NEW s \in Sessions, Quit(s) \/ Crash(s) PROVE TypeOK'
  BY <1>7, OffOK, BecomesTyped DEF Quit, Crash, Becomes
<1>8. ASSUME NEW o \in Objects, Change(o) PROVE TypeOK'
  BY <1>8 DEF Change, TypeOK
<1>9. CASE UNCHANGED vars BY <1>9 DEF vars, TypeOK
<1> QED BY <1>1, <1>2, <1>4, <1>5, <1>6, <1>7, <1>8, <1>9 DEF Next, Save

-----------------------------------------------------------------------------
(* What the user was told of and what the file holds. *)

\* A session that knows what the user was told of and has yet to save it.
Pending(s) ==
  /\ session[s].fresh
  /\ \/ session[s].phase \in {"open", "write"}
     \/ session[s].phase = "ready" /\ session[s].unsaved

\* As long as nothing went wrong, copies that are up to date are what the user
\* was told of, the file is or a session has yet to save it, and who is about
\* to write finds the file emptied or as it would be written.
FileInv ==
  slips = {} =>
    /\ \A s \in Sessions : session[s].fresh => Data(s) = told
    /\ Load # told => \E s \in Sessions : Pending(s)
    /\ \A s \in Sessions :
         session[s].fresh /\ session[s].phase = "write" =>
           file.kind = "empty" \/ file = Saved(Data(s))

LEMMA SlipFacts ==
  ASSUME NEW tells, NEW mistakes, Slip(tells, mistakes), slips' = {}
  PROVE  slips = {} /\ mistakes = {} /\ told' = tells
BY DEF Slip

LEMMA FileInit == Init => FileInv
BY DEF Init, FileInv, Off, Load

LEMMA FileStep == TypeOK /\ FileInv /\ [Next]_vars => FileInv'
<1> SUFFICES ASSUME TypeOK, FileInv, [Next]_vars, slips' = {} PROVE FileInv'
  BY DEF FileInv
<1> USE DEF Data
<1>0. UNCHANGED file => UNCHANGED Load BY DEF Load
<1>1. ASSUME NEW s \in Sessions, Start(s) PROVE FileInv'
  <2>1. PICK fresh \in BOOLEAN :
          LET r == [phase |-> "ready", exit |-> FALSE, fresh |-> fresh, unsaved |-> FALSE,
                    data |-> Load]
          IN  /\ fresh <=> \A t \in Sessions : session[t] = Off \/ Unchanged(t)
              /\ Becomes(s, r) /\ session[s] = Off /\ UNCHANGED <<file, present, told, slips>>
    BY <1>1, StartFacts
  <2>2. /\ session'[s].phase = "ready" /\ session'[s].fresh = fresh /\ session'[s].data = Load
        /\ \A t \in Sessions \ {s} : session'[t] = session[t]
    BY <2>1 DEF Becomes, TypeOK
  <2>3. slips = {} /\ UNCHANGED <<told, file, Load>> BY <1>0, <2>1
  <2>4. fresh => Load = told
    <3>1. SUFFICES ASSUME fresh, NEW t \in Sessions, Pending(t) PROVE Load = told
      BY <2>3 DEF FileInv
    <3>2. session[t] # Off BY <3>1 DEF Pending, Off
    <3>3. Unchanged(t) BY <2>1, <3>1, <3>2
    <3> QED BY <2>3, <3>1, <3>3 DEF FileInv, Pending, Unchanged
  <2>5. ~Pending(s) BY <2>1 DEF Pending, Off
  <2>6. \A t \in Sessions : Pending(t) => Pending(t)' BY <2>2, <2>5 DEF Pending
  <2>7. Load' # told' => \E t \in Sessions : Pending(t)' BY <2>3, <2>6 DEF FileInv
  <2>8. \A t \in Sessions : session'[t].fresh => session'[t].data = told'
    BY <2>2, <2>3, <2>4 DEF FileInv
  <2>9. \A t \in Sessions :
          session'[t].fresh /\ session'[t].phase = "write" =>
            file'.kind = "empty" \/ file' = Saved(session'[t].data)
    BY <2>2, <2>3 DEF FileInv
  <2> QED BY <2>7, <2>8, <2>9 DEF FileInv, Saved
<1>2. ASSUME NEW s \in Sessions, Command(s) PROVE FileInv'
  <2>1. PICK state, tells, mistakes :
          Run(s, state, tells, mistakes) /\ CommandLeaves(s, state, tells, mistakes)
    BY <1>2, CommandFacts
  <2>2. /\ SessionOK(state) /\ state.phase \in {"ready", "open"} /\ state.fresh = session[s].fresh
        /\ mistakes = {} => tells = state.data
        /\ state.phase = "ready" => /\ session[s].unsaved => state.unsaved
                                    /\ state.unsaved \/ state.data = session[s].data
    BY <2>1 DEF CommandLeaves
  <2>3. slips = {} /\ session[s].fresh /\ told' = state.data
    <3>1. Slip(tells, mistakes \cup (IF session[s].fresh THEN {} ELSE {"overlap"})) BY <2>1 DEF Run
    <3>2. slips = {} /\ mistakes \cup (IF session[s].fresh THEN {} ELSE {"overlap"}) = {} /\ told' = tells
      BY <3>1, SlipFacts
    <3> QED BY <2>2, <3>2
  <2>4. /\ Ready(s) /\ UNCHANGED <<file, present>> /\ session'[s] = state
        /\ \A t \in Sessions \ {s} :
             /\ session'[t].phase = session[t].phase /\ session'[t].data = session[t].data
             /\ session'[t].unsaved = session[t].unsaved
             /\ session'[t].fresh <=> session[t].fresh /\ state.data = session[s].data
    BY <2>1, <2>2, RunFacts
  <2>5. session[s].data = told BY <2>3 DEF FileInv
  <2>6. \A t \in Sessions : session'[t].fresh => session'[t].data = told'
    <3> SUFFICES ASSUME NEW t \in Sessions, t # s, session'[t].fresh PROVE session'[t].data = told'
      BY <2>3, <2>4
    <3> QED BY <2>3, <2>4, <2>5 DEF FileInv
  <2>7. Load' # told' => \E t \in Sessions : Pending(t)'
    <3>1. CASE state.phase = "open" \/ state.unsaved
      BY <2>2, <2>3, <2>4, <3>1 DEF Pending
    <3>2. CASE state.phase = "ready" /\ ~state.unsaved
      <4>1. told' = told /\ state.data = session[s].data BY <2>2, <2>3, <2>5, <3>2
      <4>2. ASSUME NEW t \in Sessions, Pending(t) PROVE Pending(t)'
        <5>1. t # s BY <2>2, <2>4, <3>2, <4>2 DEF Pending, Ready
        <5> QED BY <2>4, <4>1, <4>2, <5>1 DEF Pending
      <4> QED BY <1>0, <2>3, <2>4, <4>1, <4>2 DEF FileInv
    <3> QED BY <2>2, <3>1, <3>2
  <2>8. \A t \in Sessions :
          session'[t].fresh /\ session'[t].phase = "write" =>
            file'.kind = "empty" \/ file' = Saved(session'[t].data)
    <3> SUFFICES ASSUME NEW t \in Sessions, session'[t].fresh, session'[t].phase = "write"
                 PROVE  file.kind = "empty" \/ file = Saved(session'[t].data)
      BY <2>4
    <3>1. t # s BY <2>2, <2>4
    <3> QED BY <2>3, <2>4, <3>1 DEF FileInv
  <2> QED BY <2>6, <2>7, <2>8 DEF FileInv, Saved
<1>3. ASSUME NEW s \in Sessions, OpenFile(s) PROVE FileInv'
  <2>1. PICK r : Becomes(s, r) /\ r.phase = "write" /\ r.fresh = session[s].fresh
                 /\ r.data = Data(s)
    BY <1>3, OpenFacts
  <2>2. slips = {} /\ session[s].fresh /\ told' = told
    <3>1. Slip(told, IF session[s].fresh THEN {} ELSE {"overlap"}) BY <1>3 DEF OpenFile
    <3> QED BY <3>1, SlipFacts
  <2>3. session'[s] = r /\ \A t \in Sessions \ {s} : session'[t] = session[t]
    BY <2>1 DEF Becomes, TypeOK
  <2>4. file'.kind = "empty" BY <1>3 DEF OpenFile
  <2>5. Pending(s)' BY <2>1, <2>2, <2>3 DEF Pending
  <2>6. \A t \in Sessions : session'[t].fresh => session'[t].data = told'
    BY <2>1, <2>2, <2>3 DEF FileInv
  <2> QED BY <2>4, <2>5, <2>6 DEF FileInv
<1>4. ASSUME NEW s \in Sessions, WriteFile(s) PROVE FileInv'
  <2>1. PICK r : /\ Becomes(s, r)
                 /\ r = Off \/ (r.phase = "ready" /\ r.fresh = session[s].fresh /\ r.data = Data(s))
    BY <1>4, WriteFacts
  <2>2. slips = {} /\ session[s].fresh /\ told' = told
    <3>1. Slip(told, IF session[s].fresh THEN {} ELSE {"overlap"}) BY <1>4 DEF WriteFile
    <3> QED BY <3>1, SlipFacts
  <2>3. session'[s] = r /\ \A t \in Sessions \ {s} : session'[t] = session[t]
    BY <2>1 DEF Becomes, TypeOK
  <2>4. session[s].data = told BY <2>2 DEF FileInv
  <2>5. file' = Saved(told)
    <3>1. file.kind = "empty" \/ file = Saved(session[s].data)
      BY <1>4, <2>2 DEF FileInv, WriteFile
    <3> QED BY <1>4, <2>4, <3>1 DEF WriteFile
  <2>6. Load' = told' BY <2>2, <2>5 DEF Load, Saved
  <2>7. ASSUME NEW t \in Sessions, session'[t].fresh PROVE session'[t].data = told'
    <3>1. CASE t # s BY <2>2, <2>3, <2>7, <3>1 DEF FileInv
    <3>2. CASE t = s
      <4>1. r # Off BY <2>3, <2>7, <3>2 DEF Off
      <4> QED BY <2>1, <2>2, <2>3, <2>4, <3>2, <4>1
    <3> QED BY <3>1, <3>2
  <2>8. \A t \in Sessions :
          session'[t].fresh /\ session'[t].phase = "write" => file' = Saved(session'[t].data)
    BY <2>2, <2>5, <2>7
  <2> QED BY <2>6, <2>7, <2>8 DEF FileInv, Saved
<1>5. ASSUME NEW s \in Sessions, Quit(s) PROVE FileInv'
  <2>1. slips = {} /\ ~session[s].unsaved /\ told' = told
    <3>1. Slip(told, IF session[s].unsaved THEN {"unsaved"} ELSE {}) BY <1>5 DEF Quit
    <3> QED BY <3>1, SlipFacts
  <2>2. session'[s] = Off /\ (\A t \in Sessions \ {s} : session'[t] = session[t]) /\ UNCHANGED file
    BY <1>5 DEF Quit, TypeOK
  <2>3. ASSUME NEW t \in Sessions, Pending(t) PROVE Pending(t)'
    <3>1. t # s BY <1>5, <2>1, <2>3 DEF Quit, Ready, Pending
    <3> QED BY <2>2, <2>3, <3>1 DEF Pending
  <2>4. Load' # told' => \E t \in Sessions : Pending(t)' BY <1>0, <2>1, <2>2, <2>3 DEF FileInv
  <2>5. \A t \in Sessions : session'[t].fresh => t # s BY <2>2 DEF Off
  <2> QED BY <2>1, <2>2, <2>4, <2>5 DEF FileInv, Saved
<1>6. ASSUME NEW s \in Sessions PROVE ~SaveFails(s) /\ ~Crash(s)
  BY SlipFacts DEF SaveFails, Crash
<1>7. CASE UNCHANGED <<file, session, told, slips>>
  BY <1>0, <1>7 DEF FileInv, Pending, Saved
<1>8. ASSUME NEW o \in Objects, Change(o) PROVE FileInv'
  BY <1>7, <1>8 DEF Change
<1> QED BY <1>1, <1>2, <1>3, <1>4, <1>5, <1>6, <1>7, <1>8 DEF Next, Save, vars

\* Once no session is up the configuration file holds what the commands last
\* told the user of, unless a save was cut short or failed, sessions overlapped,
\* a discovery was not saved, or `add opa' or a deletion by id slipped.
THEOREM FileIsTold == Spec => []FileIsWhatWasTold
<1>1. TypeOK /\ FileInv => FileIsWhatWasTold
  <2> SUFFICES ASSUME TypeOK, FileInv, slips = {}, \A s \in Sessions : session[s].phase = "off"
               PROVE  Load = told
    BY DEF FileIsWhatWasTold
  <2> QED BY DEF FileInv, Pending
<1> QED BY TypeInit, TypeStep, FileInit, FileStep, <1>1, PTL DEF Spec

-----------------------------------------------------------------------------
(* What a discovery leaves in the table of its integration. *)

LEMMA DiscoveryKeeps ==
  ASSUME present \in SUBSET Objects, NEW x, NEW apps, TableOf(x, apps),
         NEW name \in Namings(apps, PresentIn(x)), NEW t \in TablesOf(name)
  PROVE  /\ \A b \in DOMAIN apps : apps[b] \in present => b \in DOMAIN t
         /\ Cardinality(DOMAIN t) = Cardinality(PresentIn(x)) =>
              /\ Range(t) = PresentIn(x)
              /\ \A b \in DOMAIN apps : apps[b] \in present => t[b] = apps[b]
<1> DEFINE found == PresentIn(x)
<1>1. name \in [found -> PapAliases] /\ \A b \in DOMAIN apps : apps[b] \in found => name[apps[b]] = b
  BY DEF Namings
<1>2. t \in [Range(name) -> found] /\ \A b \in DOMAIN t : name[t[b]] = b
  BY <1>1 DEF TablesOf
<1>3. \A b \in DOMAIN apps : apps[b] \in present => apps[b] \in found BY DEF TableOf, PresentIn
<1>4. \A b \in DOMAIN apps : apps[b] \in present => b \in DOMAIN t BY <1>1, <1>2, <1>3 DEF Range
<1>5. IsFiniteSet(found)
  <2>1. found \in SUBSET Objects BY DEF PresentIn
  <2> QED BY <2>1, ObjectsAssumption, FS_Subset
<1>6. ASSUME Cardinality(DOMAIN t) = Cardinality(found)
      PROVE  /\ Range(t) = found
             /\ \A b \in DOMAIN apps : apps[b] \in present => t[b] = apps[b]
  <2> HIDE DEF found
  <2>1. t \in Injection(DOMAIN t, found) BY <1>2 DEF Injection, IsInjective
  <2>2. t \in Surjection(DOMAIN t, found) BY <1>5, <1>6, <2>1, FS_Injection
  <2>3. Range(t) = found BY <1>2, <2>2 DEF Surjection, Range
  <2>4. ASSUME NEW b \in DOMAIN apps, apps[b] \in present PROVE t[b] = apps[b]
    <3>1. PICK d \in DOMAIN t : t[d] = apps[b] BY <1>3, <2>3, <2>4 DEF Range
    <3> QED BY <1>1, <1>2, <1>3, <2>4, <3>1
  <2> QED BY <2>3, <2>4
<1> QED BY <1>4, <1>6

\* A discovery keeps every alias whose application still exists, and one that
\* repeats no alias leaves each application under one, the known ones under
\* their own.
THEOREM DiscoveryIsComplete == Spec => DiscoveryNamesEach
<1> DEFINE Kept(s, a) ==
      LET i == Data(s)[a]
          t == session'[s].data[a].apps
      IN  /\ \A b \in DOMAIN i.apps : i.apps[b] \in present => b \in DOMAIN t
          /\ Cardinality(DOMAIN t) = Cardinality(PresentIn(i.account)) =>
                  /\ Range(t) = PresentIn(i.account)
                  /\ \A b \in DOMAIN i.apps :
                          i.apps[b] \in present => t[b] = i.apps[b]
<1>1. ASSUME TypeOK, NEW s \in Sessions, NEW a \in IntAliases, GetPaps(s, a) PROVE Kept(s, a)
  <2>1. a \in DOMAIN Data(s) /\ ConfigOK(Data(s)) BY <1>1 DEF GetPaps, TypeOK, SessionOK, Data
  <2>2. PICK i : i = Data(s)[a] OBVIOUS
  <2>3. TableOf(i.account, i.apps) BY <2>1, <2>2 DEF ConfigOK, IntegrationOK
  <2> DEFINE Shown(t) == [Data(s) EXCEPT ![a].apps = t]
             Left(t) == [session[s] EXCEPT !.data = Shown(t), !.unsaved = @ \/ t # i.apps]
  <2>4. PICK name \in Namings(i.apps, PresentIn(i.account)) :
          \E t \in TablesOf(name) : Run(s, Left(t), Shown(t), {})
    BY <1>1, <2>2 DEF GetPaps
  <2>5. PICK t \in TablesOf(name) : Run(s, Left(t), Shown(t), {}) BY <2>4
  <2>6. session'[s].data[a].apps = t
    <3>1. PICK c : c = Shown(t) OBVIOUS
    <3>2. session'[s] = Left(t) BY <2>5 DEF Run
    <3>3. session'[s].data = c
      <4>1. SessionOK(session[s]) BY <1>1 DEF TypeOK
      <4>2. Left(t) = [session[s] EXCEPT !.data = c, !.unsaved = @ \/ t # i.apps] BY <3>1
      <4> HIDE DEF Left
      <4> QED BY <3>2, <4>1, <4>2 DEF SessionOK
    <3>4. TableOf(Data(s)[a].account, t) BY <1>1, <2>2, <2>4, <2>5, DiscoveredTable DEF TypeOK
    <3>5. c[a].apps = t BY <2>1, <3>1, <3>4, RetabledOK
    <3> QED BY <3>3, <3>5
  <2>7. /\ \A b \in DOMAIN i.apps : i.apps[b] \in present => b \in DOMAIN t
        /\ Cardinality(DOMAIN t) = Cardinality(PresentIn(i.account)) =>
             /\ Range(t) = PresentIn(i.account)
             /\ \A b \in DOMAIN i.apps : i.apps[b] \in present => t[b] = i.apps[b]
    BY <1>1, <2>3, <2>4, <2>5, DiscoveryKeeps DEF TypeOK
  <2> QED BY <2>2, <2>6, <2>7
<1>2. TypeOK /\ [Next]_vars =>
        [\A s \in Sessions, a \in IntAliases : GetPaps(s, a) => Kept(s, a)]_vars
  BY <1>1
<1> QED BY <1>2, TypeInit, TypeStep, PTL DEF Spec, DiscoveryNamesEach
=============================================================================
