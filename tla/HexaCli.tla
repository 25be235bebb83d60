------------------------------ MODULE HexaCli ------------------------------
(***************************************************************************)
(* The command line tool (cmd/hexa): sessions that read the configuration  *)
(* file when they start, change their copy of it command by command and    *)
(* write the copy back as a whole, beside platforms whose applications     *)
(* come and go.  A session is one run of the program, one command or many. *)
(* Commands that change nothing (show, export, map, reconcile, validate,   *)
(* set and get policies) are only here as readers of `Targets'.            *)
(***************************************************************************)
EXTENDS SdkIntegration, FiniteSets

CONSTANTS
    Sessions,     \* runs of the program that may overlap
    Accounts,     \* administrative accounts an integration can open
    OpaAccounts,  \* those added with `add opa'
    Owner,        \* the account of each application
    IntAliases,   \* aliases of integrations
    MaxStarts,    \* bound: sessions started
    MaxCommands,  \* bound: commands run
    MaxChanges    \* bound: applications created or removed at the platforms

ASSUME ObjectsAssumption == IsFiniteSet(Objects)

VARIABLES
    file,      \* the configuration file
    session,   \* the sessions: their phase and their copy of the configuration
    present,   \* the applications that exist at the platforms
    told,      \* history: the configuration the user was last told of
    slips,     \* history: what went wrong between the user and the file, of
               \* crash, failed, overlap, unsaved, replaced and by id
    starts,    \* sessions started so far
    commands,  \* commands run so far
    changes    \* changes at the platforms so far

vars == <<file, session, present, told, slips, starts, changes, commands>>

NoConfig == <<>>

(* A configuration maps the aliases of integrations to records of an       *)
(* account and the tables of applications, apps.  The file is of a kind:   *)
(* missing, empty (truncated by a save that has not written yet), torn     *)
(* (the mixed output of two saves) or saved, with a configuration.         *)
Saved(c) == [kind |-> "saved", data |-> c]

(* The phases of a session: off; ready for a command; open, the file of a  *)
(* save is to be opened and truncated; write, it is truncated and not      *)
(* written yet.  `exit' says that the save is the one of the exit command, *)
(* `fresh' that no other session changed its copy since, `unsaved' that a  *)
(* discovery was not saved.                                                *)
Off == [phase |-> "off", exit |-> FALSE, fresh |-> FALSE, unsaved |-> FALSE,
        data |-> NoConfig]

Init ==
    /\ file = [kind |-> "missing", data |-> NoConfig]
    /\ session = [s \in Sessions |-> Off]
    /\ present = Objects
    /\ told = NoConfig
    /\ slips = {}
    /\ starts = 0
    /\ commands = 0
    /\ changes = 0

Ready(s) == session[s].phase = "ready"
Data(s) == session[s].data
PresentIn(x) == {o \in present : Owner[o] = x}

With(f, a, v) == [b \in DOMAIN f \cup {a} |-> IF b = a THEN v ELSE f[b]]
Without(f, a) == Restrict(f, DOMAIN f \ {a})

(* The applications a PAP name can stand for: the integrations are tried   *)
(* in the order of a Go map, which is any order.                           *)
Targets(c, n) ==
    UNION {{<<a, o>> : o \in Lookup(c[a].apps, n)} : a \in DOMAIN c}
-----------------------------------------------------------------------------
(* main: the file is read once; one that is missing, empty or no JSON      *)
(* gives a session without integrations, and no error stops the program.   *)
Load == IF file.kind = "saved" THEN file.data ELSE NoConfig

(* Another session has nothing to save that the file does not hold.        *)
Unchanged(t) == Ready(t) /\ Data(t) = Load

Start(s) ==
    /\ session[s].phase = "off"
    /\ starts < MaxStarts
    /\ starts' = starts + 1
    /\ session' = [session EXCEPT ![s] =
            [Off EXCEPT !.phase = "ready", !.data = Load,
                        !.fresh = \A t \in Sessions : session[t] = Off \/ Unchanged(t)]]
    /\ UNCHANGED <<file, present, told, slips, changes, commands>>

(* What a step tells the user and what goes wrong with it; the history     *)
(* ends with the first slip.                                               *)
Slip(tells, mistakes) ==
    IF slips # {} THEN UNCHANGED <<told, slips>>
    ELSE /\ slips' = mistakes
         /\ told' = IF mistakes = {} THEN tells ELSE NoConfig

(* A command: what it leaves in the session, what it tells the user and    *)
(* what goes wrong, `overlap' when the copy it works on is out of date.    *)
Run(s, state, tells, mistakes) ==
    /\ Ready(s)
    /\ commands < MaxCommands
    /\ commands' = commands + 1
    /\ session' = [t \in Sessions |->
            IF t = s THEN state
            ELSE [session[t] EXCEPT !.fresh = @ /\ state.data = Data(s)]]
    /\ Slip(tells, mistakes \cup (IF session[s].fresh THEN {} ELSE {"overlap"}))
    /\ UNCHANGED <<file, present, starts, changes>>

\* Mutant: the command forgets to save.
Saving_Forgotten(s, c) == [session[s] EXCEPT !.data = c]

(* The session of a command that ends in ConfigData.Save.                  *)
Saving(s, c) == [session[s] EXCEPT !.phase = "open", !.data = c]

(* add gcp, aws, azure and opa: the account is opened and its applications *)
(* are discovered; without one the command fails.  An integration that has *)
(* the alias, given or generated, is replaced.                             *)
Opened(x) ==
    {[account |-> x, apps |-> t] :
        t \in UNION {TablesOf(name) : name \in Namings(<<>>, PresentIn(x))} \ {<<>>}}

(* add gcp, aws, azure: the user is asked before an integration is         *)
(* replaced, and a `no' ends the command.                                  *)
AddAsked(s, a, x) ==
    /\ x \notin OpaAccounts
    /\ \E i \in Opened(x) :
            LET c == With(Data(s), a, i) IN Run(s, Saving(s, c), c, {})

(* add opa: the user is not asked.                                         *)
AddOpa(s, a, x) ==
    /\ x \in OpaAccounts
    /\ \E i \in Opened(x) :
            LET c == With(Data(s), a, i) IN
            Run(s, Saving(s, c), c, IF a \in DOMAIN Data(s) THEN {"replaced"} ELSE {})

(* get paps: the applications are discovered again and shown; the new      *)
(* table is not saved.                                                     *)
GetPaps(s, a) ==
    /\ a \in DOMAIN Data(s)
    /\ LET i == Data(s)[a] IN
       \E name \in Namings(i.apps, PresentIn(i.account)) : \E t \in TablesOf(name) :
            LET c == [Data(s) EXCEPT ![a].apps = t] IN
            Run(s, [session[s] EXCEPT !.data = c, !.unsaved = @ \/ t # i.apps], c, {})

DeleteIntegration(s, a) ==
    /\ a \in DOMAIN Data(s)
    /\ LET c == Without(Data(s), a) IN Run(s, Saving(s, c), c, {})

(* RemoveApplication: the entry whose alias is the given name is deleted   *)
(* from the integration the name was found in; a name that is an object id *)
(* is no key of the table, and the deletion does nothing.                  *)
RemoveApplication(c, a, n) == [c EXCEPT ![a].apps = Without(@, n)]

DeletePap(s, n) ==
    \E p \in Targets(Data(s), n) :
        Run(s, Saving(s, RemoveApplication(Data(s), p[1], n)),
            [Data(s) EXCEPT ![p[1]].apps = Restrict(@, {b \in DOMAIN @ : @[b] # p[2]})],
            IF n \in Objects THEN {"by id"} ELSE {})

(* exit: saves, then ends the program.                                     *)
Exit(s) == Run(s, [session[s] EXCEPT !.phase = "open", !.exit = TRUE], Data(s), {})

(* ConfigData.Save: os.WriteFile empties the file, then writes the copy.   *)
OpenFile(s) ==
    /\ session[s].phase = "open"
    /\ file' = [kind |-> "empty", data |-> NoConfig]
    /\ session' = [session EXCEPT ![s].phase = "write"]
    /\ Slip(told, IF session[s].fresh THEN {} ELSE {"overlap"})
    /\ UNCHANGED <<present, starts, changes, commands>>

AfterSave(s) ==
    IF session[s].exit THEN Off
    ELSE [session[s] EXCEPT !.phase = "ready", !.unsaved = FALSE]

(* The copy is written from the start of the file: over the output of a    *)
(* session that wrote since it was emptied, what is left of the longer one *)
(* stays behind the shorter.                                               *)
WriteFile(s) ==
    /\ session[s].phase = "write"
    /\ file' \in {Saved(Data(s))}
                    \cup (IF file.kind = "empty" \/ file = Saved(Data(s)) THEN {}
                          ELSE {[kind |-> "torn", data |-> NoConfig]})
    /\ session' = [session EXCEPT ![s] = AfterSave(s)]
    /\ Slip(told, IF session[s].fresh THEN {} ELSE {"overlap"})
    /\ UNCHANGED <<present, starts, changes, commands>>

(* The file cannot be opened or written: the error is shown, the copy      *)
(* stays in the session.  After `exit' the program ends all the same,      *)
(* unless the user aborts the exit.                                        *)
SaveFails(s) ==
    /\ session[s].phase \in {"open", "write"}
    /\ session' \in {[session EXCEPT ![s].phase = "ready", ![s].exit = FALSE]}
                      \cup (IF session[s].exit THEN {[session EXCEPT ![s] = Off]} ELSE {})
    /\ Slip(told, {"failed"})
    /\ UNCHANGED <<file, present, starts, changes, commands>>

(* The program ends without a save: the one command it was called with is  *)
(* done, or its input is closed.                                           *)
Quit(s) ==
    /\ Ready(s)
    /\ session' = [session EXCEPT ![s] = Off]
    /\ Slip(told, IF session[s].unsaved THEN {"unsaved"} ELSE {})
    /\ UNCHANGED <<file, present, starts, changes, commands>>

Crash(s) ==
    /\ session[s].phase \in {"open", "write"}
    /\ session' = [session EXCEPT ![s] = Off]
    /\ Slip(told, {"crash"})
    /\ UNCHANGED <<file, present, starts, changes, commands>>

(* The platforms: applications are created and removed by others.          *)
Change(o) ==
    /\ changes < MaxChanges
    /\ changes' = changes + 1
    /\ present' = IF o \in present THEN present \ {o} ELSE present \cup {o}
    /\ UNCHANGED <<file, session, told, slips, starts, commands>>

Command(s) ==
    \/ \E a \in IntAliases, x \in Accounts : AddAsked(s, a, x) \/ AddOpa(s, a, x)
    \/ \E a \in IntAliases : GetPaps(s, a) \/ DeleteIntegration(s, a)
    \/ \E n \in PapAliases \cup Objects : DeletePap(s, n)
    \/ Exit(s)

Save(s) == OpenFile(s) \/ WriteFile(s) \/ SaveFails(s)

Next ==
    \/ \E s \in Sessions : Start(s) \/ Command(s) \/ Save(s) \/ Quit(s) \/ Crash(s)
    \/ \E o \in Objects : Change(o)

Spec == Init /\ [][Next]_vars
-----------------------------------------------------------------------------
(* What the user was last told of is what the next session will load: once *)
(* no session is up, the file holds every integration and alias the        *)
(* commands showed and none they deleted.  That is lost only when a save   *)
(* is cut short or fails, a session worked on a copy that another had      *)
(* replaced in the file, a discovery was shown and not saved, an OPA       *)
(* integration replaced another unasked, or a PAP was deleted by its id    *)
(* (config.go:46-129, commands.go:278-343, 542-563).                          *)
FileIsWhatWasTold ==
    slips = {} /\ (\A s \in Sessions : session[s].phase = "off") => Load = told

(* A discovery that repeats no alias leaves exactly the applications that  *)
(* exist, each under one alias, and no alias the user knows of moves to    *)
(* another application (provderTools.go:90-126).                          *)
DiscoveryNamesEach ==
    [][\A s \in Sessions, a \in IntAliases :
            GetPaps(s, a) =>
                LET i == Data(s)[a]
                    t == session'[s].data[a].apps
                IN  /\ \A b \in DOMAIN i.apps : i.apps[b] \in present => b \in DOMAIN t
                    /\ Cardinality(DOMAIN t) = Cardinality(PresentIn(i.account)) =>
                            /\ Range(t) = PresentIn(i.account)
                            /\ \A b \in DOMAIN i.apps :
                                    i.apps[b] \in present => t[b] = i.apps[b]]_vars
=============================================================================
