----------------------------- MODULE OpaBundle -----------------------------
(***************************************************************************)
(* OpaProvider.SetPolicyInfo of providers/openpolicyagent: the policies    *)
(* become one bundle that PostBundle uploads to a Github repository, a GCP *)
(* or AWS bucket or an HTTP bundle server, from where OPA servers load it. *)
(* The clients of Github and GCP first fetch the version of the bundle     *)
(* they replace; those of AWS and of HTTP servers upload without.          *)
(*                                                                         *)
(* No two bundles are equal (SetPolicyInfo writes the time into each       *)
(* policy), so a bundle is named by the run that made it and is its own    *)
(* version, for Github's sha as for GCP's generation. A client that gives  *)
(* up waiting leaves its upload on the way, to be served late or never;    *)
(* AWS's SDK, whose retries the client leaves on, sends it again first.    *)
(***************************************************************************)
EXTENDS Naturals

CONSTANTS
  Admins,      \* those who run SetPolicyInfo for one bundle
  Services,    \* subset of {"Github", "GCP", "AWS", "HTTP"}
  TextErrors,  \* the services that may refuse an upload in other than JSON
  NoBundle,    \* nothing was stored yet
  FirstBundle, \* a bundle stored before
  AnyVersion,  \* an upload that replaces whatever there is
  MaxTries,    \* the SDK's limit: how often it sends one upload to AWS
  MaxFaults,   \* bound: failures of the network and of the service
  MaxRuns      \* bound: runs of one administrator

ServicesAssumption ==
  /\ Services \subseteq {"Github", "GCP", "AWS", "HTTP"}
  /\ TextErrors \subseteq Services
ASSUME ServicesAssumption

\* A run of one administrator.
Runs == Admins \X (1..MaxRuns)
Versions == Runs \union {NoBundle, FirstBundle, AnyVersion}

ASSUME RunsAssumption ==
  /\ Admins # {} /\ MaxRuns \in Nat /\ MaxFaults \in Nat
  /\ MaxTries \in Nat \ {0}
  /\ NoBundle \notin Runs /\ FirstBundle \notin Runs
  /\ AnyVersion \notin Runs \union {NoBundle, FirstBundle}

VARIABLES
  service,  \* the kind of bundle service the integration names
  bundle,   \* the service's bundle
  flight,   \* uploads on the way: [run, version, try]
  phase,    \* phase[a]: "idle" | "fetch" | "post" | "wait" | "done"
  version,  \* version[a]: the sha or generation fetched
  tries,    \* tries[a]: how often the upload of a's run was sent
  answer,   \* answer[a]: the service's to the last try, "none" while a waits
  result,   \* result[a]: SetPolicyInfo's [status, err]
  runs,     \* runs[a]: how often a has started
  faults,   \* how many failures there were
  written   \* history: the runs whose bundle was stored

vars == <<service, bundle, flight, phase, version, tries, answer, result, runs,
          faults, written>>

Latest(a) == <<a, runs[a]>>
Versioned == service \in {"Github", "GCP"}
NoResult == [status |-> 0, err |-> TRUE]
Returned(status) == [status |-> status, err |-> FALSE]
Failed(status) == [status |-> status, err |-> TRUE]

\* PostBundle panicked; SetPolicyInfo's deferred recover logs that and lets
\* it return its results' zero values.
Recovered == Returned(0)

\* The caller reads the result as success.
Success(a) ==
  phase[a] = "done" /\ ~result[a].err /\ result[a].status \in {200, 201}

Init ==
  /\ service \in Services
  /\ bundle \in {NoBundle, FirstBundle}
  /\ flight = {}
  /\ phase = [a \in Admins |-> "idle"]
  /\ version = [a \in Admins |-> AnyVersion]
  /\ tries = [a \in Admins |-> 0]
  /\ answer = [a \in Admins |-> "none"]
  /\ result = [a \in Admins |-> NoResult]
  /\ runs = [a \in Admins |-> 0]
  /\ faults = 0
  /\ written = {}

Fault == faults < MaxFaults /\ faults' = faults + 1

\* SetPolicyInfo is called, first or again because it did not succeed.
Start(a) ==
  /\ phase[a] = "idle" \/ (phase[a] = "done" /\ ~Success(a))
  /\ runs[a] < MaxRuns
  /\ runs' = [runs EXCEPT ![a] = @ + 1]
  /\ phase' = [phase EXCEPT ![a] = IF Versioned THEN "fetch" ELSE "post"]
  /\ version' = [version EXCEPT ![a] = AnyVersion]
  /\ tries' = [tries EXCEPT ![a] = 0]
  /\ answer' = [answer EXCEPT ![a] = "none"]
  /\ result' = [result EXCEPT ![a] = NoResult]
  /\ UNCHANGED <<service, bundle, flight, faults, written>>

Return(a, res) ==
  /\ phase' = [phase EXCEPT ![a] = "done"]
  /\ result' = [result EXCEPT ![a] = res]
  /\ UNCHANGED <<service, bundle, version, tries, runs, written>>

----------------------------------------------------------------------------
FetchedVersion(a, v) ==
  /\ phase' = [phase EXCEPT ![a] = "post"]
  /\ version' = [version EXCEPT ![a] = v]
  /\ UNCHANGED <<service, bundle, flight, tries, answer, result, runs, written>>

\* Mutant: a bundle that is not there is an error like any other.
Fetch_NotFoundFails(a) ==
  /\ phase[a] = "fetch"
  /\ IF service = "Github" /\ bundle = NoBundle
     THEN Return(a, Failed(0)) /\ UNCHANGED <<flight, answer>>
     ELSE FetchedVersion(a, bundle)
  /\ UNCHANGED faults

\* The sha of the file or the generation of the object, empty when there is
\* none.
Fetch(a) ==
  /\ phase[a] = "fetch"
  /\ FetchedVersion(a, bundle)
  /\ UNCHANGED faults

\* Github: any other answer is an error. GCP: PostBundle panics when there is
\* no answer, fails for one that is not JSON, and does not look at the status:
\* an error in JSON passes for an object without a generation.
FetchFails(a) ==
  /\ phase[a] = "fetch" /\ Fault
  /\ \/ /\ service = "Github" /\ Return(a, Failed(0))
        /\ UNCHANGED <<flight, answer>>
     \/ /\ service = "GCP" /\ Return(a, Recovered)
        /\ UNCHANGED <<flight, answer>>
     \/ /\ service = "GCP" /\ Return(a, Failed(500))
        /\ UNCHANGED <<flight, answer>>
     \/ service = "GCP" /\ FetchedVersion(a, NoBundle)

\* Mutant: the GCP client leaves the generation out of the upload.
SentVersion_NoGeneration(a) == IF service = "GCP" THEN AnyVersion ELSE version[a]

SentVersion(a) == IF Versioned THEN version[a] ELSE AnyVersion

Upload(a, try) == [run |-> Latest(a), version |-> SentVersion(a), try |-> try]

Post(a) ==
  /\ phase[a] = "post"
  /\ tries' = [tries EXCEPT ![a] = @ + 1]
  /\ flight' = flight \union {Upload(a, tries[a] + 1)}
  /\ phase' = [phase EXCEPT ![a] = "wait"]
  /\ UNCHANGED <<service, bundle, version, answer, result, runs, faults, written>>

\* The services' side. Github creates a file when no sha is given and there is
\* none; GCP does not take an empty generation.
Accepts(v) ==
  \/ v = AnyVersion
  \/ v = bundle /\ (service = "GCP" => v # NoBundle)

\* The answer reaches the client if it still waits for that of this try.
Answer(m, with) ==
  answer' = [a \in Admins |->
               IF phase[a] = "wait" /\ Latest(a) = m.run /\ tries[a] = m.try
               THEN with ELSE answer[a]]

Serve(m) ==
  /\ flight' = flight \ {m}
  /\ IF Accepts(m.version)
     THEN /\ bundle' = m.run /\ written' = written \union {m.run}
          /\ Answer(m, "stored")
     ELSE Answer(m, "refused") /\ UNCHANGED <<bundle, written>>
  /\ UNCHANGED <<service, phase, version, tries, result, runs, faults>>

\* The service is unavailable, or the credentials do not suffice.
ServeFails(m) ==
  /\ Fault
  /\ flight' = flight \ {m}
  /\ Answer(m, "refused") \/ (service \in TextErrors /\ Answer(m, "text"))
  /\ UNCHANGED <<service, bundle, phase, version, tries, result, runs, written>>

\* Mutant: the clients do not look at what was answered.
Outcome_Unchecked(ans) ==
  IF service = "HTTP" THEN Returned(200) ELSE Returned(201)

\* What PostBundle makes of an answer: the GCP client knows an error only by
\* its JSON body, the HTTP client leaves the status to its caller.
Outcome(ans) ==
  IF service = "HTTP" THEN Returned(IF ans = "stored" THEN 200 ELSE 403)
  ELSE IF ans = "stored" \/ (ans = "text" /\ service = "GCP") THEN Returned(201)
  ELSE Failed(IF service = "Github" THEN 409 ELSE 500)

Answered(a) ==
  /\ phase[a] = "wait" /\ answer[a] # "none"
  /\ Return(a, Outcome(answer[a]))
  /\ UNCHANGED <<flight, answer, faults>>

\* Mutant: every client sends its upload again.
CanResend_Any(a) == tries[a] < MaxTries

\* Only the AWS client has the SDK's retryer, which may send an upload again
\* that was refused or whose answer did not come.
CanResend(a) == service = "AWS" /\ tries[a] < MaxTries

Resent(a) ==
  /\ CanResend(a)
  /\ phase' = [phase EXCEPT ![a] = "post"]
  /\ answer' = [answer EXCEPT ![a] = "none"]
  /\ UNCHANGED <<service, bundle, version, tries, result, runs, written>>

Resend(a) ==
  /\ phase[a] = "wait" /\ answer[a] \in {"refused", "text"}
  /\ Resent(a)
  /\ UNCHANGED <<flight, faults>>

\* No answer: the Github client reads the body of a response it did not get.
Unanswered == IF service = "Github" THEN Recovered ELSE Failed(500)

\* The client gives up waiting, or the connection breaks, while its upload is
\* lost, still on the way, or served already.
NoAnswer(a) ==
  /\ phase[a] = "wait" /\ Fault
  /\ Resent(a) \/ (Return(a, Unanswered) /\ UNCHANGED answer)
  /\ UNCHANGED flight \/ flight' = flight \ {Upload(a, tries[a])}

Run(a) == Start(a) \/ Fetch(a) \/ Post(a) \/ Answered(a) \/ Resend(a)

Next ==
  \/ \E a \in Admins : Run(a) \/ FetchFails(a) \/ NoAnswer(a)
  \/ \E m \in flight : Serve(m) \/ ServeFails(m)

Spec == Init /\ [][Next]_vars

\* Administrators go on until they succeed, the service until it has served
\* what it received.
FairSpec ==
  /\ Spec
  /\ \A a \in Admins : WF_vars(Run(a))
  /\ WF_vars(\E m \in flight : Serve(m))
----------------------------------------------------------------------------
\* The type invariant, with what ties a run's uploads and answer to its phase:
\* only with AWS is an upload on its way whose run has been stored already.
TypeOK ==
  /\ service \in Services
  /\ written \subseteq Runs
  /\ bundle \in {NoBundle, FirstBundle} \union written
  /\ flight \subseteq [run : Runs, version : Versions, try : 1..MaxTries]
  /\ phase \in [Admins -> {"idle", "fetch", "post", "wait", "done"}]
  /\ version \in [Admins -> Versions]
  /\ tries \in [Admins -> 0..MaxTries]
  /\ answer \in [Admins -> {"none", "stored", "refused", "text"}]
  /\ result \in [Admins -> [status : Nat, err : BOOLEAN]]
  /\ runs \in [Admins -> 0..MaxRuns]
  /\ faults \in 0..MaxFaults
  /\ \A c \in written \union {m.run : m \in flight} : c[2] <= runs[c[1]]
  /\ service # "AWS" => \A m \in flight : m.run \notin written
  /\ \A a \in Admins :
       /\ (phase[a] = "idle") <=> (runs[a] = 0)
       /\ phase[a] = "fetch" => Versioned
       /\ phase[a] \in {"fetch", "post"} => tries[a] < MaxTries
       /\ phase[a] \in {"fetch", "post"} /\ service # "AWS" =>
            Latest(a) \notin written \union {m.run : m \in flight}
       /\ answer[a] = "stored" => Latest(a) \in written

\* With Github and GCP an upload that its administrator gave up on never takes
\* the place of what a later run of the same administrator stored: the version
\* it carries is out of date by then, however late it arrives.
LateUploadRefused ==
  [][Versioned /\ bundle' # bundle =>
       \A a \in Admins : \A r, s \in 1..MaxRuns :
         bundle' = <<a, r>> /\ s > r => <<a, s>> \notin written]_vars

\* With Github and GCP, once every administrator has been told that the set
\* succeeded, the bundle is the one of the last run of one of them.
SettledOnSuccess ==
  Versioned /\ (\A a \in Admins : Success(a)) =>
    \E a \in Admins : bundle = Latest(a)

\* SetPolicyInfo implements the promise of a policy store: uploads replace the
\* bundle one at a time, at most once per run unless AWS's SDK repeats them,
\* and success is only reported for a bundle that was stored.
callState ==
  [c \in Runs |->
     IF c[2] > runs[c[1]] THEN "new"
     ELSE IF c[2] < runs[c[1]] THEN "failed"
     ELSE IF phase[c[1]] # "done" THEN "open"
     ELSE IF Success(c[1]) THEN "ok" ELSE "failed"]

Promise == INSTANCE PolicyStore WITH
  Calls <- Runs, Initials <- {NoBundle, FirstBundle},
  content <- bundle, call <- callState, taken <- written,
  repeats <- service = "AWS"

Implements == Promise!Spec

\* Two administrators who repeat their sets until they succeed both do, although
\* the sets of one make those of the other fail. A bundle in a GCP bucket has
\* to be there before: it cannot be created.
Converges ==
  (service = "GCP" => bundle # NoBundle) =>
    <>[](\A a \in Admins : Success(a))

\* PostBundle returns "created" for a bundle that was stored and only then:
\* the GCP client logs "wrote bundle object" on its way there.
CreatedMeansWritten == \A a \in Admins : Success(a) => Latest(a) \in written
=============================================================================
