-------------------------- MODULE OpaBundleProofs --------------------------
(***************************************************************************)
(* Proofs about OpaBundle, for any number of administrators, runs and      *)
(* failures: the versions of Github and GCP keep late uploads out, and     *)
(* SetPolicyInfo implements PolicyStore, unless GCP refuses in other than  *)
(* JSON.                                                                   *)
(***************************************************************************)
EXTENDS OpaBundle, FiniteSetTheorems, TLAPS

Known(v) == v \in {NoBundle, FirstBundle} \union written

\* A later run of the same administrator was stored.
Overtaken(c) == \E s \in 1..MaxRuns : s > c[2] /\ <<c[1], s>> \in written

\* What makes the versions work: an upload carries a version that the bundle
\* has now or had before, and one of an overtaken run carries one from before.
VersionsKnown ==
  Versioned =>
    /\ \A a \in Admins : phase[a] = "post" => Known(version[a])
    /\ \A m \in flight : Known(m.version)
    /\ \A m \in flight : Overtaken(m.run) => m.version # bundle
    /\ bundle \in written => ~Overtaken(bundle)
    /\ bundle \notin written => written = {}

\* A run has one upload on its way, unless AWS's SDK sends it again.
OneUpload ==
  service # "AWS" => \A m, n \in flight : m.run = n.run => m = n

\* Where every refusal is told as one, success is only reported for what was
\* stored.
Honest ==
  /\ \A a \in Admins : answer[a] = "text" => service \in TextErrors
  /\ "GCP" \notin TextErrors => CreatedMeansWritten

IInv == TypeOK /\ OneUpload /\ VersionsKnown /\ Honest

\* A run is a pair.
LEMMA RunIsPair ==
  ASSUME NEW c \in Runs
  PROVE  /\ c[1] \in Admins /\ c[2] \in 1..MaxRuns /\ c = <<c[1], c[2]>>
BY DEF Runs

LEMMA PairIsRun ==
  ASSUME NEW a \in Admins, NEW r \in 1..MaxRuns
  PROVE  <<a, r>> \in Runs /\ <<a, r>>[1] = a /\ <<a, r>>[2] = r
BY DEF Runs

LEMMA InitHolds == Init => IInv
<1> SUFFICES ASSUME Init PROVE IInv
  OBVIOUS
<1>1. TypeOK
  <2>1. /\ version \in [Admins -> Versions]
        /\ runs \in [Admins -> 0..MaxRuns]
        /\ faults \in 0..MaxFaults
        /\ tries \in [Admins -> 0..MaxTries]
        /\ \A a \in Admins : tries[a] < MaxTries
    BY RunsAssumption DEF Init, Versions
  <2>2. result \in [Admins -> [status : Nat, err : BOOLEAN]]
    BY DEF Init, NoResult
  <2>3. \A c \in written \union {m.run : m \in flight} : c[2] <= runs[c[1]]
    BY DEF Init
  <2> QED BY <2>1, <2>2, <2>3 DEF Init, TypeOK
<1>2. OneUpload BY DEF Init, OneUpload
<1>3. VersionsKnown BY DEF Init, VersionsKnown, Known, Overtaken
<1>4. Honest BY DEF Init, Honest, CreatedMeansWritten, Success
<1> QED BY <1>1, <1>2, <1>3, <1>4 DEF IInv

\* A new run of an administrator is no run stored or on its way.
LEMMA StartKeeps == ASSUME NEW a \in Admins, IInv, Start(a) PROVE IInv'
<1> USE RunsAssumption
<1> DEFINE new == <<a, runs[a] + 1>>
<1>1. runs[a] \in 0..MaxRuns /\ runs[a] + 1 \in 1..MaxRuns
  BY DEF IInv, TypeOK, Start
<1>2. /\ runs'[a] = runs[a] + 1 /\ Latest(a)' = new
      /\ \A b \in Admins : b # a => runs'[b] = runs[b] /\ phase'[b] = phase[b]
      /\ phase'[a] \in {"fetch", "post"} /\ (phase'[a] = "fetch" => Versioned)
  BY <1>1 DEF IInv, TypeOK, Start, Latest
<1>3. new \in Runs /\ new[1] = a /\ new[2] = runs[a] + 1
  BY <1>1, PairIsRun
<1>4. new \notin written \union {m.run : m \in flight}
  BY <1>1, <1>3 DEF IInv, TypeOK
<1>5. \A c \in written \union {m.run : m \in flight} :
        c \in Runs /\ c[2] <= runs'[c[1]]
  <2> SUFFICES ASSUME NEW c \in written \union {m.run : m \in flight}
      PROVE c \in Runs /\ c[2] <= runs'[c[1]]
    OBVIOUS
  <2>1. c \in Runs /\ c[2] <= runs[c[1]] BY DEF IInv, TypeOK
  <2>2. c[1] \in Admins /\ c[2] \in 1..MaxRuns BY <2>1, RunIsPair
  <2> QED BY <1>1, <1>2, <2>1, <2>2 DEF IInv, TypeOK
<1>6. TypeOK'
  <2>1. /\ service' \in Services /\ written' \subseteq Runs
        /\ bundle' \in {NoBundle, FirstBundle} \union written'
        /\ flight' \subseteq [run : Runs, version : Versions, try : 1..MaxTries]
        /\ service' # "AWS" => \A m \in flight' : m.run \notin written'
        /\ faults' \in 0..MaxFaults
        /\ tries' \in [Admins -> 0..MaxTries]
    BY DEF IInv, TypeOK, Start, Versions
  <2>2. phase' \in [Admins -> {"idle", "fetch", "post", "wait", "done"}]
    BY DEF IInv, TypeOK, Start
  <2>3. version' \in [Admins -> Versions] BY DEF IInv, TypeOK, Start, Versions
  <2>4. answer' \in [Admins -> {"none", "stored", "refused", "text"}]
    BY DEF IInv, TypeOK, Start
  <2>5. result' \in [Admins -> [status : Nat, err : BOOLEAN]]
    BY DEF IInv, TypeOK, Start, NoResult
  <2>6. runs' \in [Admins -> 0..MaxRuns] BY <1>1 DEF IInv, TypeOK, Start
  <2>7. \A c \in written' \union {m.run : m \in flight'} : c[2] <= runs'[c[1]]
    BY <1>5 DEF Start
  <2>8. ASSUME NEW b \in Admins
        PROVE  /\ (phase'[b] = "idle") <=> (runs'[b] = 0)
               /\ phase'[b] = "fetch" => Versioned'
               /\ phase'[b] \in {"fetch", "post"} => tries'[b] < MaxTries
               /\ phase'[b] \in {"fetch", "post"} /\ service' # "AWS" =>
                    Latest(b)' \notin written' \union {m.run : m \in flight'}
               /\ answer'[b] = "stored" => Latest(b)' \in written'
    <3>1. CASE b = a
      <4>1. tries'[a] = 0 /\ answer'[a] = "none" BY DEF IInv, TypeOK, Start
      <4> QED BY <3>1, <4>1, <1>1, <1>2, <1>4 DEF IInv, TypeOK, Start, Versioned
    <3>2. CASE b # a
      <4>1. tries'[b] = tries[b] /\ answer'[b] = answer[b] BY <3>2 DEF IInv, TypeOK, Start
      <4> QED BY <3>2, <4>1, <1>2 DEF IInv, TypeOK, Start, Versioned, Latest
    <3> QED BY <3>1, <3>2
  <2> QED BY <2>1, <2>2, <2>3, <2>4, <2>5, <2>6, <2>7, <2>8 DEF TypeOK
<1>7. OneUpload' BY DEF IInv, OneUpload, Start
<1>8. VersionsKnown'
  BY <1>2 DEF IInv, TypeOK, VersionsKnown, Versioned, Known, Overtaken, Start
<1>9. Honest'
  <2>1. \A b \in Admins : b # a => (Success(b)' <=> Success(b)) /\ Latest(b)' = Latest(b)
    BY <1>2 DEF IInv, TypeOK, Start, Success, Latest
  <2>2. ~Success(a)' BY <1>2 DEF Success
  <2>3. \A b \in Admins : answer'[b] = "text" => answer[b] = "text"
    BY DEF IInv, TypeOK, Start
  <2> QED
    BY <2>1, <2>2, <2>3 DEF IInv, Honest, CreatedMeansWritten, Start
<1> QED BY <1>6, <1>7, <1>8, <1>9 DEF IInv

\* The version an administrator fetches is the bundle's, or that of no bundle.
LEMMA FetchedKeeps ==
  ASSUME NEW a \in Admins, NEW v, IInv, phase[a] = "fetch",
         v = bundle \/ v = NoBundle,
         FetchedVersion(a, v), faults' \in 0..MaxFaults
  PROVE  IInv'
<1>1. v \in Versions /\ Known(v)
  BY DEF IInv, TypeOK, Versions, Known
<1>2. TypeOK'
  <2>1. version' \in [Admins -> Versions]
    BY <1>1 DEF IInv, TypeOK, FetchedVersion
  <2>2. phase' \in [Admins -> {"idle", "fetch", "post", "wait", "done"}]
    BY DEF IInv, TypeOK, FetchedVersion
  <2> QED
    BY <2>1, <2>2 DEF IInv, TypeOK, FetchedVersion, Versioned, Latest
<1>3. OneUpload' BY DEF IInv, OneUpload, FetchedVersion
<1>4. VersionsKnown'
  BY <1>1 DEF IInv, TypeOK, VersionsKnown, Versioned, Known, Overtaken, FetchedVersion
<1>5. Honest'
  <2>1. \A b \in Admins : Success(b)' => Success(b)
    BY DEF IInv, TypeOK, FetchedVersion, Success
  <2> QED
    BY <2>1 DEF IInv, Honest, CreatedMeansWritten, Latest, FetchedVersion
<1> QED BY <1>2, <1>3, <1>4, <1>5 DEF IInv

\* A run ends; its upload may leave the way.
LEMMA ReturnKeeps ==
  ASSUME NEW a \in Admins, NEW res \in [status : Nat, err : BOOLEAN],
         IInv, phase[a] \in {"fetch", "wait"}, Return(a, res),
         flight' \subseteq flight, UNCHANGED answer, faults' \in 0..MaxFaults,
         "GCP" \notin TextErrors /\ ~res.err /\ res.status \in {200, 201} =>
           Latest(a) \in written
  PROVE  IInv'
<1>1. TypeOK'
  <2>1. result' \in [Admins -> [status : Nat, err : BOOLEAN]]
    BY DEF IInv, TypeOK, Return
  <2>2. phase' \in [Admins -> {"idle", "fetch", "post", "wait", "done"}]
    BY DEF IInv, TypeOK, Return
  <2>3. \A b \in Admins :
          /\ (phase'[b] = "idle") <=> (runs[b] = 0)
          /\ phase'[b] \in {"fetch", "post"} => phase'[b] = phase[b]
    BY DEF IInv, TypeOK, Return
  <2> QED
    BY <2>1, <2>2, <2>3 DEF IInv, TypeOK, Return, Versioned, Latest
<1>2. OneUpload' BY DEF IInv, OneUpload, Return
<1>3. VersionsKnown'
  <2>1. \A b \in Admins : phase'[b] = "post" => phase[b] = "post"
    BY DEF IInv, TypeOK, Return
  <2> QED
    BY <2>1 DEF IInv, VersionsKnown, Versioned, Known, Overtaken, Return
<1>4. Honest'
  <2>1. \A b \in Admins : b # a /\ Success(b)' => Success(b)
    BY DEF IInv, TypeOK, Return, Success
  <2>2. Success(a)' => ~res.err /\ res.status \in {200, 201}
    BY DEF IInv, TypeOK, Return, Success
  <2> QED
    BY <2>1, <2>2 DEF IInv, Honest, CreatedMeansWritten, Latest, Return
<1> QED BY <1>1, <1>2, <1>3, <1>4 DEF IInv

LEMMA FetchKeeps == ASSUME NEW a \in Admins, IInv, Fetch(a) PROVE IInv'
BY FetchedKeeps DEF Fetch, IInv, TypeOK

LEMMA FetchFailsKeeps == ASSUME NEW a \in Admins, IInv, FetchFails(a) PROVE IInv'
<1>1. faults' \in 0..MaxFaults /\ phase[a] = "fetch"
  BY RunsAssumption DEF IInv, TypeOK, FetchFails, Fault
<1>2. CASE FetchedVersion(a, NoBundle) BY <1>1, <1>2, FetchedKeeps
<1>3. ASSUME NEW res, res \in {Failed(0), Failed(500), Recovered},
             UNCHANGED <<flight, answer>>, Return(a, res)
      PROVE  IInv'
  <2>1. res \in [status : Nat, err : BOOLEAN]
    <3>1. CASE res = Failed(0) BY <3>1 DEF Failed
    <3>2. CASE res = Failed(500) BY <3>2 DEF Failed
    <3>3. CASE res = Recovered BY <3>3 DEF Recovered, Returned
    <3> QED BY <1>3, <3>1, <3>2, <3>3
  <2>2. res.err \/ res.status \notin {200, 201}
    BY <1>3 DEF Failed, Recovered, Returned
  <2> QED BY <1>1, <1>3, <2>1, <2>2, ReturnKeeps
<1> QED BY <1>2, <1>3 DEF FetchFails

\* What the clients return is success only for an upload that was stored, or
\* for GCP's refusal in a text.
LEMMA AnsweredKeeps == ASSUME NEW a \in Admins, IInv, Answered(a) PROVE IInv'
<1> DEFINE res == Outcome(answer[a])
<1>1. res \in [status : Nat, err : BOOLEAN]
  BY DEF Outcome, Returned, Failed
<1>2. "GCP" \notin TextErrors /\ ~res.err /\ res.status \in {200, 201} =>
        answer[a] = "stored"
  <2>1. answer[a] \in {"stored", "refused", "text"} BY DEF IInv, TypeOK, Answered
  <2>2. answer[a] = "text" /\ "GCP" \notin TextErrors => service # "GCP"
    BY DEF IInv, Honest
  <2>3. answer[a] # "stored" /\ service # "GCP" =>
          res.err \/ res.status \notin {200, 201}
    BY <2>1 DEF Outcome, Returned, Failed
  <2>4. answer[a] = "refused" => res.err \/ res.status \notin {200, 201}
    BY DEF Outcome, Returned, Failed
  <2> QED BY <2>1, <2>2, <2>3, <2>4
<1>3. answer[a] = "stored" => Latest(a) \in written BY DEF IInv, TypeOK
<1> HIDE DEF res
<1> QED
  BY <1>1, <1>2, <1>3, ReturnKeeps DEF Answered, IInv, TypeOK, res

\* AWS's SDK sends the upload of a run again, another may have been stored.
LEMMA ResentKeeps ==
  ASSUME NEW a \in Admins, IInv, phase[a] = "wait", Resent(a),
         flight' \subseteq flight, faults' \in 0..MaxFaults
  PROVE  IInv'
<1>1. service = "AWS" /\ ~Versioned /\ tries[a] < MaxTries
  BY DEF Resent, CanResend, Versioned
<1>2. TypeOK'
  <2>1. phase' \in [Admins -> {"idle", "fetch", "post", "wait", "done"}]
    BY DEF IInv, TypeOK, Resent
  <2>2. /\ answer' \in [Admins -> {"none", "stored", "refused", "text"}]
        /\ \A b \in Admins : answer'[b] = "stored" => answer[b] = "stored"
    BY DEF IInv, TypeOK, Resent
  <2>3. ASSUME NEW b \in Admins
        PROVE  /\ (phase'[b] = "idle") <=> (runs[b] = 0)
               /\ phase'[b] # "fetch"
               /\ phase'[b] \in {"fetch", "post"} => tries[b] < MaxTries
    BY <1>1 DEF IInv, TypeOK, Resent
  <2> QED
    BY <1>1, <2>1, <2>2, <2>3 DEF IInv, TypeOK, Resent, Versioned, Latest
<1>3. OneUpload' BY <1>1 DEF OneUpload, Resent
<1>4. VersionsKnown' BY <1>1 DEF VersionsKnown, Versioned, Resent
<1>5. Honest'
  <2>1. \A b \in Admins : Success(b)' => Success(b)
    BY DEF IInv, TypeOK, Resent, Success
  <2>2. \A b \in Admins : answer'[b] = "text" => answer[b] = "text"
    BY DEF IInv, TypeOK, Resent
  <2> QED
    BY <2>1, <2>2 DEF IInv, Honest, CreatedMeansWritten, Latest, Resent
<1> QED BY <1>2, <1>3, <1>4, <1>5 DEF IInv

LEMMA ResendKeeps == ASSUME NEW a \in Admins, IInv, Resend(a) PROVE IInv'
BY ResentKeeps DEF Resend, IInv, TypeOK

LEMMA NoAnswerKeeps == ASSUME NEW a \in Admins, IInv, NoAnswer(a) PROVE IInv'
<1>1. faults' \in 0..MaxFaults
  BY RunsAssumption DEF IInv, TypeOK, NoAnswer, Fault
<1>2. Unanswered \in [status : Nat, err : BOOLEAN]
  BY DEF Unanswered, Recovered, Returned, Failed
<1>3. Unanswered.err \/ Unanswered.status \notin {200, 201}
  BY DEF Unanswered, Recovered, Returned, Failed
<1>4. flight' \subseteq flight BY DEF NoAnswer
<1>5. CASE Resent(a) BY <1>1, <1>4, <1>5, ResentKeeps DEF NoAnswer
<1>6. CASE Return(a, Unanswered) /\ UNCHANGED answer
  BY <1>1, <1>2, <1>3, <1>4, <1>6, ReturnKeeps DEF NoAnswer
<1> QED BY <1>5, <1>6 DEF NoAnswer

LEMMA PostKeeps == ASSUME NEW a \in Admins, IInv, Post(a) PROVE IInv'
<1> DEFINE m == Upload(a, tries[a] + 1)
<1>1. /\ Latest(a) \in Runs /\ Latest(a)[1] = a /\ Latest(a)[2] = runs[a]
      /\ service # "AWS" => Latest(a) \notin written \union {n.run : n \in flight}
      /\ tries[a] + 1 \in 1..MaxTries
  <2>1. runs[a] \in 1..MaxRuns BY DEF IInv, TypeOK, Post
  <2>2. tries[a] + 1 \in 1..MaxTries BY RunsAssumption DEF IInv, TypeOK, Post
  <2> QED BY <2>1, <2>2, PairIsRun DEF IInv, TypeOK, Post, Latest
<1>2. SentVersion(a) \in Versions
  BY DEF SentVersion, IInv, TypeOK, Versions
<1>3. /\ m \in [run : Runs, version : Versions, try : 1..MaxTries]
      /\ m.run = Latest(a) /\ m.version = SentVersion(a)
  BY <1>1, <1>2 DEF Upload
<1>4. flight' = flight \union {m} BY DEF Post
<1>5. \A b \in Admins : /\ b # a => phase'[b] = phase[b] /\ tries'[b] = tries[b]
                        /\ Latest(b)' = Latest(b)
                        /\ Latest(b) = Latest(a) => b = a
  BY DEF IInv, TypeOK, Post, Latest
<1>6. phase'[a] = "wait" BY DEF IInv, TypeOK, Post
<1> HIDE DEF m
<1>7. TypeOK'
  <2>1. /\ phase' \in [Admins -> {"idle", "fetch", "post", "wait", "done"}]
        /\ tries' \in [Admins -> 0..MaxTries]
    BY <1>1 DEF IInv, TypeOK, Post
  <2>2. \A c \in written' \union {n.run : n \in flight'} : c[2] <= runs'[c[1]]
    BY <1>1, <1>3, <1>4 DEF IInv, TypeOK, Post
  <2>3. ASSUME NEW b \in Admins
        PROVE  /\ (phase'[b] = "idle") <=> (runs'[b] = 0)
               /\ phase'[b] = "fetch" => Versioned'
               /\ phase'[b] \in {"fetch", "post"} => tries'[b] < MaxTries
               /\ phase'[b] \in {"fetch", "post"} /\ service' # "AWS" =>
                    Latest(b)' \notin written' \union {n.run : n \in flight'}
               /\ answer'[b] = "stored" => Latest(b)' \in written'
    <3>1. CASE b = a BY <3>1, <1>5, <1>6 DEF IInv, TypeOK, Post
    <3>2. CASE b # a
      <4>1. phase'[b] = phase[b] /\ tries'[b] = tries[b] /\ Latest(b)' = Latest(b)
            /\ Latest(b) # Latest(a)
        BY <3>2, <1>5
      <4> QED BY <4>1, <1>3, <1>4 DEF IInv, TypeOK, Post, Versioned
    <3> QED BY <3>1, <3>2
  <2>4. service' # "AWS" => \A n \in flight' : n.run \notin written'
    BY <1>1, <1>3, <1>4 DEF IInv, TypeOK, Post
  <2>5. flight' \subseteq [run : Runs, version : Versions, try : 1..MaxTries]
    BY <1>3, <1>4 DEF IInv, TypeOK
  <2> QED
    BY <2>1, <2>2, <2>3, <2>4, <2>5 DEF IInv, TypeOK, Post
<1>8. OneUpload'
  BY <1>1, <1>3, <1>4 DEF IInv, OneUpload, Post
<1>9. ~Overtaken(Latest(a))
  <2> SUFFICES ASSUME NEW s \in 1..MaxRuns, s > runs[a], <<a, s>> \in written
      PROVE FALSE
    BY <1>1 DEF Overtaken
  <2>1. s <= runs[a] BY PairIsRun DEF IInv, TypeOK
  <2> QED BY <2>1 DEF IInv, TypeOK
<1>10. VersionsKnown'
  <2> SUFFICES ASSUME Versioned' PROVE VersionsKnown'
    BY DEF VersionsKnown
  <2>1. Versioned /\ SentVersion(a) = version[a] /\ Known(version[a])
    BY DEF Post, Versioned, IInv, VersionsKnown, SentVersion
  <2>2. \A b \in Admins : phase'[b] = "post" => phase[b] = "post"
    BY <1>5, <1>6
  <2>3. \A c : Overtaken(c)' <=> Overtaken(c) BY DEF Overtaken, Post
  <2>4. \A v : Known(v)' <=> Known(v) BY DEF Known, Post
  <2> QED
    BY <1>3, <1>4, <1>9, <2>1, <2>2, <2>3, <2>4 DEF IInv, VersionsKnown, Post
<1>11. Honest'
  <2>1. \A b \in Admins : Success(b)' => Success(b)
    BY <1>5, <1>6 DEF Success, Post
  <2> QED
    BY <1>5, <2>1 DEF IInv, Honest, CreatedMeansWritten, Post
<1> QED BY <1>7, <1>8, <1>10, <1>11 DEF IInv

\* The parts that any answer to an upload leaves alone.
LEMMA AnswerKeeps ==
  ASSUME NEW m \in flight, NEW with \in {"stored", "refused", "text"},
         IInv, Answer(m, with),
         with = "stored" => m.run \in written', written \subseteq written'
  PROVE  /\ answer' \in [Admins -> {"none", "stored", "refused", "text"}]
         /\ \A a \in Admins : answer'[a] = "stored" => Latest(a) \in written'
         /\ \A a \in Admins :
              answer'[a] = "text" => answer[a] = "text" \/ with = "text"
BY DEF IInv, TypeOK, Answer

LEMMA ServeFailsKeeps == ASSUME NEW m \in flight, IInv, ServeFails(m) PROVE IInv'
<1>1. PICK with \in {"refused", "text"} :
        Answer(m, with) /\ (with = "text" => service \in TextErrors)
  BY DEF ServeFails
<1>2. /\ answer' \in [Admins -> {"none", "stored", "refused", "text"}]
      /\ \A a \in Admins : answer'[a] = "stored" => Latest(a) \in written
      /\ \A a \in Admins :
           answer'[a] = "text" => answer[a] = "text" \/ with = "text"
  BY <1>1, AnswerKeeps DEF ServeFails
<1>3. faults' \in 0..MaxFaults
  BY RunsAssumption DEF IInv, TypeOK, ServeFails, Fault
<1>4. flight' \subseteq flight BY DEF ServeFails
<1>5. TypeOK'
  BY <1>2, <1>3, <1>4 DEF IInv, TypeOK, ServeFails, Versioned, Latest
<1>6. OneUpload' BY <1>4 DEF IInv, OneUpload, ServeFails
<1>7. VersionsKnown'
  BY <1>4 DEF IInv, VersionsKnown, Versioned, Known, Overtaken, ServeFails
<1>8. Honest'
  <2>1. \A a \in Admins : (Success(a)' <=> Success(a)) /\ Latest(a)' = Latest(a)
    BY DEF ServeFails, Success, Latest
  <2> QED
    BY <1>1, <1>2, <2>1 DEF IInv, Honest, CreatedMeansWritten, ServeFails
<1> QED BY <1>5, <1>6, <1>7, <1>8 DEF IInv

\* An upload that is stored was not overtaken, and is by no upload on its way
\* that is.
LEMMA StoreKeeps ==
  ASSUME NEW m \in flight, IInv, Serve(m), Accepts(m.version)
  PROVE  IInv'
<1>1. /\ bundle' = m.run /\ written' = written \union {m.run}
      /\ flight' = flight \ {m} /\ Answer(m, "stored")
      /\ UNCHANGED <<service, phase, version, tries, result, runs, faults>>
  BY DEF Serve
<1>2. /\ m.run \in Runs /\ m.version \in Versions
      /\ m.run \notin {NoBundle, FirstBundle}
      /\ service # "AWS" =>
           m.run \notin written /\ \A n \in flight' : n.run # m.run
  BY <1>1, RunsAssumption DEF IInv, TypeOK, OneUpload
<1>3. /\ answer' \in [Admins -> {"none", "stored", "refused", "text"}]
      /\ \A a \in Admins : answer'[a] = "stored" => Latest(a) \in written'
      /\ \A a \in Admins : answer'[a] = "text" => answer[a] = "text"
  <2>1. /\ answer' \in [Admins -> {"none", "stored", "refused", "text"}]
        /\ \A a \in Admins : answer'[a] = "stored" => Latest(a) \in written'
        /\ \A a \in Admins :
             answer'[a] = "text" => answer[a] = "text" \/ "stored" = "text"
    BY <1>1, AnswerKeeps
  <2> QED BY <2>1
<1>4. \A a \in Admins : Latest(a)' = Latest(a) /\ (Success(a)' <=> Success(a))
  BY <1>1 DEF Latest, Success
<1>5. TypeOK'
  <2>1. /\ flight' \subseteq [run : Runs, version : Versions, try : 1..MaxTries]
        /\ service' # "AWS" => \A n \in flight' : n.run \notin written'
    BY <1>1, <1>2 DEF IInv, TypeOK
  <2>2. \A c \in written' \union {n.run : n \in flight'} : c[2] <= runs'[c[1]]
    BY <1>1 DEF IInv, TypeOK
  <2>3. \A a \in Admins :
          phase[a] \in {"fetch", "post"} /\ service # "AWS" =>
            Latest(a) \notin written' \union {n.run : n \in flight'}
    BY <1>1 DEF IInv, TypeOK
  <2> QED
    BY <1>1, <1>2, <1>3, <1>4, <2>1, <2>2, <2>3
    DEF IInv, TypeOK, Versioned, Versions
<1>6. OneUpload' BY <1>1 DEF IInv, OneUpload
<1>7. VersionsKnown'
  <2> SUFFICES ASSUME Versioned PROVE VersionsKnown'
    BY <1>1 DEF VersionsKnown, Versioned
  <2>1. m.version = bundle /\ ~Overtaken(m.run) /\ Known(m.version)
    <3>1. Known(m.version) BY DEF IInv, VersionsKnown
    <3>2. m.version # AnyVersion
      BY <3>1, RunsAssumption DEF Known, IInv, TypeOK
    <3> QED BY <3>1, <3>2 DEF IInv, VersionsKnown, Accepts
  <2>2. \A v : Known(v) => Known(v)' /\ v # bundle'
    BY <1>1, <1>2 DEF Known, Versioned
  <2>3. \A n \in flight' : Known(n.version)' /\ n.version # bundle'
    BY <1>1, <2>2 DEF IInv, VersionsKnown
  <2>4. \A a \in Admins : phase[a] = "post" => Known(version[a])'
    BY <1>1, <2>2 DEF IInv, VersionsKnown
  <2>5. ~Overtaken(bundle)'
    <3>1. m.run = <<m.run[1], m.run[2]>> BY <1>2, RunIsPair
    <3>2. \A s \in 1..MaxRuns : s > m.run[2] => <<m.run[1], s>> # m.run
      BY <1>2, RunIsPair, PairIsRun
    <3> QED BY <1>1, <2>1, <3>2 DEF Overtaken
  <2>6. bundle' \in written' BY <1>1
  <2> QED
    BY <1>1, <2>3, <2>4, <2>5, <2>6 DEF VersionsKnown
<1>8. Honest'
  BY <1>1, <1>3, <1>4 DEF IInv, Honest, CreatedMeansWritten
<1> QED BY <1>5, <1>6, <1>7, <1>8 DEF IInv

LEMMA RefuseKeeps ==
  ASSUME NEW m \in flight, IInv, Serve(m), ~Accepts(m.version)
  PROVE  IInv'
<1>1. /\ UNCHANGED <<bundle, written, service, phase, version, tries, result,
                     runs, faults>>
      /\ flight' \subseteq flight /\ Answer(m, "refused")
  BY DEF Serve
<1>2. /\ answer' \in [Admins -> {"none", "stored", "refused", "text"}]
      /\ \A a \in Admins : answer'[a] = "stored" => Latest(a) \in written
      /\ \A a \in Admins : answer'[a] = "text" => answer[a] = "text"
  <2>1. /\ answer' \in [Admins -> {"none", "stored", "refused", "text"}]
        /\ \A a \in Admins : answer'[a] = "stored" => Latest(a) \in written'
        /\ \A a \in Admins :
             answer'[a] = "text" => answer[a] = "text" \/ "refused" = "text"
    BY <1>1, AnswerKeeps
  <2> QED BY <1>1, <2>1
<1>3. TypeOK' BY <1>1, <1>2 DEF IInv, TypeOK, Versioned, Latest
<1>4. OneUpload' BY <1>1 DEF IInv, OneUpload
<1>5. VersionsKnown'
  BY <1>1 DEF IInv, VersionsKnown, Versioned, Known, Overtaken
<1>6. Honest'
  <2>1. \A a \in Admins : (Success(a)' <=> Success(a)) /\ Latest(a)' = Latest(a)
    BY <1>1 DEF Success, Latest
  <2> QED BY <1>1, <1>2, <2>1 DEF IInv, Honest, CreatedMeansWritten
<1> QED BY <1>3, <1>4, <1>5, <1>6 DEF IInv

LEMMA StepKeeps == IInv /\ [Next]_vars => IInv'
<1> SUFFICES ASSUME IInv, [Next]_vars PROVE IInv'
  OBVIOUS
<1>1. ASSUME NEW a \in Admins, Run(a) \/ FetchFails(a) \/ NoAnswer(a) PROVE IInv'
  BY <1>1, StartKeeps, FetchKeeps, PostKeeps, AnsweredKeeps, ResendKeeps,
     FetchFailsKeeps, NoAnswerKeeps DEF Run
<1>2. ASSUME NEW m \in flight, Serve(m) \/ ServeFails(m) PROVE IInv'
  BY <1>2, StoreKeeps, RefuseKeeps, ServeFailsKeeps
<1>3. CASE UNCHANGED vars
  <2>1. TypeOK' BY <1>3 DEF vars, IInv, TypeOK, Versioned, Latest
  <2>2. OneUpload' BY <1>3 DEF vars, IInv, OneUpload
  <2>3. VersionsKnown'
    BY <1>3 DEF vars, IInv, VersionsKnown, Versioned, Known, Overtaken
  <2>4. Honest'
    BY <1>3 DEF vars, IInv, Honest, CreatedMeansWritten, Success, Latest
  <2> QED BY <2>1, <2>2, <2>3, <2>4 DEF IInv
<1> QED BY <1>1, <1>2, <1>3 DEF Next

\* A run's upload, and what is answered to it, agree with what the run is at.
THEOREM TypeCorrect == Spec => []TypeOK
<1>1. IInv => TypeOK BY DEF IInv
<1> QED BY <1>1, InitHolds, StepKeeps, PTL DEF Spec

\* An upload that its administrator gave up on never takes the place of what
\* a later run of the same administrator stored.
THEOREM LateUploadRefusedCorrect == Spec => LateUploadRefused
<1> DEFINE Late == Versioned /\ bundle' # bundle =>
                     \A a \in Admins : \A r, s \in 1..MaxRuns :
                       bundle' = <<a, r>> /\ s > r => <<a, s>> \notin written
<1>1. IInv /\ [Next]_vars => [Late]_vars
  <2> SUFFICES ASSUME IInv, Next, Versioned, bundle' # bundle,
                      NEW a \in Admins, NEW r \in 1..MaxRuns, NEW s \in 1..MaxRuns,
                      bundle' = <<a, r>>, s > r
      PROVE  <<a, s>> \notin written
    BY DEF vars
  <2>1. PICK m \in flight : Serve(m) /\ Accepts(m.version)
    BY DEF Next, Run, Start, Fetch, FetchedVersion, FetchFails, Post, Answered,
           Resend, Resent, NoAnswer, Return, Serve, ServeFails
  <2>2. m.run = <<a, r>> BY <2>1 DEF Serve
  <2>3. m.version = bundle
    BY <2>1, RunsAssumption DEF IInv, TypeOK, VersionsKnown, Known, Accepts
  <2>4. ~Overtaken(m.run) BY <2>3 DEF IInv, VersionsKnown
  <2> QED BY <2>2, <2>4, PairIsRun DEF Overtaken
<1> QED BY <1>1, InitHolds, StepKeeps, PTL DEF Spec, LateUploadRefused

\* SetPolicyInfo reports success only for a bundle that was stored, if GCP
\* refuses uploads in JSON.
THEOREM CreatedMeansWrittenCorrect ==
  ASSUME "GCP" \notin TextErrors
  PROVE  Spec => []CreatedMeansWritten
<1>1. IInv => CreatedMeansWritten BY DEF IInv, Honest
<1> QED BY <1>1, InitHolds, StepKeeps, PTL DEF Spec

\* Once all administrators succeeded the bundle is one's last.
THEOREM SettledOnSuccessCorrect ==
  ASSUME "GCP" \notin TextErrors
  PROVE  Spec => []SettledOnSuccess
<1>1. IInv => SettledOnSuccess
  <2> SUFFICES ASSUME IInv, Versioned, \A a \in Admins : Success(a)
      PROVE  \E a \in Admins : bundle = Latest(a)
    BY DEF SettledOnSuccess
  <2>1. \A a \in Admins : Latest(a) \in written
    BY DEF IInv, Honest, CreatedMeansWritten
  <2>2. bundle \in written /\ ~Overtaken(bundle)
    BY <2>1, RunsAssumption DEF IInv, VersionsKnown
  <2>3. bundle \in Runs /\ bundle[2] <= runs[bundle[1]]
    BY <2>2 DEF IInv, TypeOK
  <2>4. /\ bundle[1] \in Admins /\ bundle[2] \in 1..MaxRuns
        /\ bundle = <<bundle[1], bundle[2]>>
    BY <2>3, RunIsPair
  <2>5. runs[bundle[1]] \in 1..MaxRuns
    BY <2>3, <2>4 DEF IInv, TypeOK
  <2>6. <<bundle[1], runs[bundle[1]]>> \in written
    BY <2>1, <2>4 DEF Latest
  <2>7. bundle[2] = runs[bundle[1]]
    BY <2>2, <2>3, <2>4, <2>5, <2>6 DEF Overtaken
  <2> QED BY <2>4, <2>7 DEF Latest
<1> QED BY <1>1, InitHolds, StepKeeps, PTL DEF Spec
----------------------------------------------------------------------------
\* The refinement of PolicyStore. Where a run is, as PolicyStore sees it.
LEMMA CallOf ==
  ASSUME NEW c \in Runs
  PROVE  callState[c] = IF c[2] > runs[c[1]] THEN "new"
                        ELSE IF c[2] < runs[c[1]] THEN "failed"
                        ELSE IF phase[c[1]] # "done" THEN "open"
                        ELSE IF Success(c[1]) THEN "ok" ELSE "failed"
BY DEF callState

LEMMA CallsTotal ==
  /\ callState = [c \in Runs |-> callState[c]]
  /\ callState' = [c \in Runs |-> callState'[c]]
BY DEF callState

\* Runs of those who make no step, and whose result is as before, stay.
LEMMA CallsStay ==
  ASSUME IInv, IInv', UNCHANGED runs,
         \A a \in Admins : /\ (phase'[a] = "done") <=> (phase[a] = "done")
                           /\ phase[a] = "done" => result'[a] = result[a]
  PROVE  callState' = callState
<1>1. ASSUME NEW a \in Admins
      PROVE  /\ (phase'[a] = "done") <=> (phase[a] = "done")
             /\ phase[a] = "done" => (Success(a)' <=> Success(a))
  BY DEF Success
<1>2. ASSUME NEW c \in Runs PROVE callState'[c] = callState[c]
  <2>1. c[1] \in Admins BY RunIsPair
  <2>2. callState'[c] = IF c[2] > runs[c[1]] THEN "new"
                        ELSE IF c[2] < runs[c[1]] THEN "failed"
                        ELSE IF phase'[c[1]] # "done" THEN "open"
                        ELSE IF Success(c[1])' THEN "ok" ELSE "failed"
    BY DEF callState
  <2> QED BY <1>1, <2>1, <2>2, CallOf
<1> QED BY <1>2 DEF callState

LEMMA StartOpens ==
  ASSUME NEW a \in Admins, IInv, Start(a)
  PROVE  \E c \in Runs : Promise!Open(c)
<1> DEFINE new == <<a, runs[a] + 1>>
<1>1. runs[a] \in 0..MaxRuns /\ runs[a] + 1 \in 1..MaxRuns
  BY RunsAssumption DEF IInv, TypeOK, Start
<1>2. new \in Runs /\ new[1] = a /\ new[2] = runs[a] + 1
  BY <1>1, PairIsRun
<1>3. callState[new] = "new"
  BY <1>1, <1>2, CallOf
<1>4. callState' = [callState EXCEPT ![new] = "open"]
  <2> SUFFICES ASSUME NEW c \in Runs
      PROVE callState'[c] = IF c = new THEN "open" ELSE callState[c]
    BY CallsTotal
  <2>1. /\ runs'[a] = runs[a] + 1 /\ phase'[a] # "done"
        /\ \A b \in Admins \ {a} :
             /\ runs'[b] = runs[b] /\ phase'[b] = phase[b]
             /\ result'[b] = result[b]
    BY DEF IInv, TypeOK, Start
  <2>2. c[1] \in Admins /\ c[2] \in 1..MaxRuns /\ c = <<c[1], c[2]>>
    BY RunIsPair
  <2>3. callState'[c] = IF c[2] > runs'[c[1]] THEN "new"
                        ELSE IF c[2] < runs'[c[1]] THEN "failed"
                        ELSE IF phase'[c[1]] # "done" THEN "open"
                        ELSE IF Success(c[1])' THEN "ok" ELSE "failed"
    BY DEF callState
  <2>4. CASE c[1] # a
    BY <2>1, <2>2, <2>3, <2>4, <1>2, CallOf DEF Success
  <2>5. CASE c[1] = a
    <3>1. CASE c[2] = runs[a] + 1
      BY <1>1, <2>1, <2>2, <2>3, <2>5, <3>1
    <3>2. CASE c[2] > runs[a] + 1
      BY <1>1, <1>2, <2>1, <2>2, <2>3, <2>5, <3>2, CallOf
    <3>3. CASE c[2] = runs[a]
      <4>1. phase[a] # "idle" BY <2>2, <3>3 DEF IInv, TypeOK
      <4>2. phase[a] = "done" /\ ~Success(a) BY <4>1 DEF Start
      <4> QED BY <1>1, <1>2, <2>1, <2>2, <2>3, <2>5, <3>3, <4>2, CallOf
    <3>4. CASE c[2] < runs[a]
      BY <1>1, <1>2, <2>1, <2>2, <2>3, <2>5, <3>4, CallOf
    <3> QED BY <1>1, <2>2, <3>1, <3>2, <3>3, <3>4
  <2> QED BY <2>4, <2>5
<1>5. UNCHANGED <<bundle, written, service>> BY DEF Start
<1> QED BY <1>2, <1>3, <1>4, <1>5 DEF Promise!Open

\* A return succeeds or fails the run, according to what it returns.
LEMMA ReturnCloses ==
  ASSUME NEW a \in Admins, NEW res, IInv, phase[a] \in {"fetch", "wait"},
         Return(a, res), Success(a)' => Latest(a) \in written
  PROVE  \E c \in Runs : Promise!Succeed(c) \/ Promise!Fail(c)
<1> DEFINE c == Latest(a)
<1>1. c \in Runs /\ c[1] = a /\ c[2] = runs[a]
  <2>1. runs[a] \in 1..MaxRuns BY DEF IInv, TypeOK
  <2> QED BY <2>1, PairIsRun DEF Latest
<1>2. callState[c] = "open" BY <1>1, CallOf DEF IInv, TypeOK
<1>3. callState' = [callState EXCEPT ![c] = IF Success(a)' THEN "ok" ELSE "failed"]
  <2> SUFFICES ASSUME NEW d \in Runs
      PROVE callState'[d] = IF d = c THEN IF Success(a)' THEN "ok" ELSE "failed"
                            ELSE callState[d]
    BY CallsTotal
  <2>1. /\ runs' = runs /\ phase'[a] = "done"
        /\ \A b \in Admins \ {a} : phase'[b] = phase[b] /\ result'[b] = result[b]
    BY DEF IInv, TypeOK, Return
  <2>2. d[1] \in Admins /\ d[2] \in 1..MaxRuns /\ d = <<d[1], d[2]>>
    BY RunIsPair
  <2>3. callState'[d] = IF d[2] > runs'[d[1]] THEN "new"
                        ELSE IF d[2] < runs'[d[1]] THEN "failed"
                        ELSE IF phase'[d[1]] # "done" THEN "open"
                        ELSE IF Success(d[1])' THEN "ok" ELSE "failed"
    BY DEF callState
  <2>4. CASE d[1] # a
    BY <1>1, <2>1, <2>2, <2>3, <2>4, CallOf DEF Success
  <2>5. CASE d[1] = a
    <3>1. CASE d[2] = runs[a]
      BY <1>1, <2>1, <2>2, <2>3, <2>5, <3>1 DEF Latest
    <3>2. CASE d[2] # runs[a]
      <4>1. runs[a] \in 0..MaxRuns BY DEF IInv, TypeOK
      <4>2. d # c BY <1>1, <3>2
      <4>3. d[2] > runs[a] \/ d[2] < runs[a]
        BY <2>2, <3>2, <4>1, RunsAssumption
      <4> QED BY <2>1, <2>2, <2>3, <2>5, <3>2, <4>1, <4>2, <4>3, CallOf
    <3> QED BY <3>1, <3>2
  <2> QED BY <2>4, <2>5
<1>4. UNCHANGED <<bundle, written, service>> BY DEF Return
<1>5. CASE Success(a)'
  BY <1>1, <1>2, <1>3, <1>4, <1>5 DEF Promise!Succeed
<1>6. CASE ~Success(a)'
  BY <1>1, <1>2, <1>3, <1>4, <1>6 DEF Promise!Fail
<1> QED BY <1>5, <1>6

\* A bundle is stored for a run that is open, or failed since it gave up on
\* it; where uploads are repeated it may be stored again.
LEMMA StoreTakesEffect ==
  ASSUME NEW m \in flight, IInv, IInv', CreatedMeansWritten,
         Serve(m), Accepts(m.version)
  PROVE  \E c \in Runs : Promise!TakeEffect(c) \/ Promise!TakeAgain(c)
<1>1. /\ m.run \in Runs /\ (m.run \in written => service = "AWS")
      /\ m.run[2] <= runs[m.run[1]]
  BY DEF IInv, TypeOK
<1>2. m.run[1] \in Admins /\ m.run[2] \in 1..MaxRuns /\ m.run = <<m.run[1], m.run[2]>>
  BY <1>1, RunIsPair
<1>3. m.run \notin written => callState[m.run] \in {"open", "failed"}
  <2> SUFFICES ASSUME m.run \notin written
               PROVE  callState[m.run] \in {"open", "failed"}
    OBVIOUS
  <2>1. CASE m.run[2] < runs[m.run[1]]
    BY <1>1, <1>2, <2>1, CallOf DEF IInv, TypeOK
  <2>2. CASE m.run[2] = runs[m.run[1]]
    <3>1. ~Success(m.run[1])
      BY <1>1, <1>2, <2>2 DEF CreatedMeansWritten, Latest
    <3> QED BY <1>1, <1>2, <2>2, <3>1, CallOf DEF IInv, TypeOK
  <2>3. runs[m.run[1]] \in 0..MaxRuns BY <1>2 DEF IInv, TypeOK
  <2> QED BY <1>1, <1>2, <2>1, <2>2, <2>3, RunsAssumption
<1>4. callState' = callState BY CallsStay DEF Serve
<1>5. /\ bundle' = m.run /\ written' = written \union {m.run}
      /\ UNCHANGED service
  BY DEF Serve
<1>6. CASE m.run \in written
  <2>1. written' = written BY <1>5, <1>6
  <2> QED BY <1>1, <1>4, <1>5, <1>6, <2>1 DEF Promise!TakeAgain
<1>7. CASE m.run \notin written
  BY <1>1, <1>3, <1>4, <1>5, <1>7 DEF Promise!TakeEffect
<1> QED BY <1>6, <1>7

\* SetPolicyInfo implements the promise of a policy store, if GCP refuses
\* uploads in JSON.
THEOREM ImplementsCorrect ==
  ASSUME "GCP" \notin TextErrors
  PROVE  Spec => Implements
<1>1. Init => Promise!Init
  <2> SUFFICES ASSUME Init PROVE Promise!Init
    OBVIOUS
  <2>1. \A c \in Runs : callState[c] = "new"
    <3> SUFFICES ASSUME NEW c \in Runs PROVE callState[c] = "new"
      OBVIOUS
    <3>1. c[1] \in Admins /\ c[2] \in 1..MaxRuns BY RunIsPair
    <3>2. runs[c[1]] = 0 BY <3>1 DEF Init
    <3> QED BY <3>1, <3>2, CallOf
  <2>2. callState = [c \in Runs |-> "new"] BY <2>1 DEF callState
  <2> QED BY <2>2 DEF Init, Promise!Init
<1>2. IInv /\ IInv' /\ [Next]_vars =>
        [Promise!Next]_<<bundle, callState, written, service = "AWS">>
  <2> SUFFICES ASSUME IInv, IInv', [Next]_vars
      PROVE  Promise!Next \/ UNCHANGED <<bundle, callState, written, service>>
    <3>1. service' = service => (service = "AWS")' = (service = "AWS") OBVIOUS
    <3> QED BY <3>1
  <2>1. CreatedMeansWritten /\ CreatedMeansWritten' BY DEF IInv, Honest
  <2>2. ASSUME NEW a \in Admins, Start(a) PROVE Promise!Next
    BY <2>2, StartOpens DEF Promise!Next
  <2>3. ASSUME NEW a \in Admins, NEW res, phase[a] \in {"fetch", "wait"},
               Return(a, res)
        PROVE  Promise!Next
    <3>1. Success(a)' => Latest(a) \in written
      BY <2>1, <2>3 DEF CreatedMeansWritten, Return, Latest
    <3> QED BY <2>3, <3>1, ReturnCloses DEF Promise!Next
  <2>4. ASSUME NEW a \in Admins, NEW v, phase[a] = "fetch", FetchedVersion(a, v)
        PROVE  UNCHANGED <<bundle, callState, written, service>>
    <3>1. \A b \in Admins : (phase'[b] = "done") <=> (phase[b] = "done")
      BY <2>4 DEF FetchedVersion, IInv, TypeOK
    <3> QED BY <2>4, <3>1, CallsStay DEF FetchedVersion
  <2>5. ASSUME NEW a \in Admins, Post(a)
        PROVE  UNCHANGED <<bundle, callState, written, service>>
    <3>1. \A b \in Admins : (phase'[b] = "done") <=> (phase[b] = "done")
      BY <2>5 DEF Post, IInv, TypeOK
    <3> QED BY <2>5, <3>1, CallsStay DEF Post
  <2>10. ASSUME NEW a \in Admins, phase[a] = "wait", Resent(a)
         PROVE  UNCHANGED <<bundle, callState, written, service>>
    <3>1. \A b \in Admins : (phase'[b] = "done") <=> (phase[b] = "done")
      BY <2>10 DEF Resent, IInv, TypeOK
    <3> QED BY <2>10, <3>1, CallsStay DEF Resent
  <2>6. ASSUME NEW m \in flight, Serve(m)
        PROVE  Promise!Next \/ UNCHANGED <<bundle, callState, written, service>>
    <3>1. CASE Accepts(m.version)
      BY <2>1, <2>6, <3>1, StoreTakesEffect DEF Promise!Next
    <3>2. CASE ~Accepts(m.version)
      BY <2>6, <3>2, CallsStay DEF Serve
    <3> QED BY <3>1, <3>2
  <2>7. ASSUME NEW m \in flight, ServeFails(m)
        PROVE  UNCHANGED <<bundle, callState, written, service>>
    BY <2>7, CallsStay DEF ServeFails
  <2>8. CASE UNCHANGED vars
    BY <2>8, CallsStay DEF vars
  <2>9. ASSUME NEW a \in Admins, Run(a) \/ FetchFails(a) \/ NoAnswer(a)
        PROVE  Promise!Next \/ UNCHANGED <<bundle, callState, written, service>>
    <3>1. CASE Start(a) BY <2>2, <3>1
    <3>2. CASE Fetch(a) BY <2>4, <3>2 DEF Fetch
    <3>3. CASE Post(a) BY <2>5, <3>3
    <3>4. CASE Answered(a) BY <2>3, <3>4 DEF Answered
    <3>5. CASE NoAnswer(a) BY <2>3, <2>10, <3>5 DEF NoAnswer
    <3>7. CASE Resend(a) BY <2>10, <3>7 DEF Resend
    <3>6. CASE FetchFails(a) BY <2>3, <2>4, <3>6 DEF FetchFails
    <3> QED BY <2>9, <3>1, <3>2, <3>3, <3>4, <3>5, <3>6, <3>7 DEF Run
  <2> QED BY <2>6, <2>7, <2>8, <2>9 DEF Next
<1> QED BY <1>1, <1>2, InitHolds, StepKeeps, PTL DEF Spec, Implements, Promise!Spec
----------------------------------------------------------------------------
(* How often a set has to be repeated. *)

\* A bundle in a GCP bucket has to be there before.
CanStore == service = "GCP" => bundle # NoBundle

Uploads == {m.run : m \in flight}

\* Those whose bundles may make a's run fail; AWS refuses no upload for them.
Others(a) == IF service = "AWS" THEN {} ELSE written \ {Latest(a)}

\* The latest run of a has failed, or is going to.
Lost(a) ==
  \/ phase[a] = "done" /\ ~Success(a)
  \/ phase[a] = "wait" /\ answer[a] \in {"refused", "text"}
  \/ /\ Versioned /\ phase[a] \in {"post", "wait"}
     /\ Latest(a) \notin written /\ version[a] # bundle

\* The uploads whose administrator gave up on them, stored or on their way.
Pending(c) == c = Latest(c[1]) /\ (phase[c[1]] = "wait" \/ Success(c[1]))
Abandoned ==
  IF service = "AWS" THEN {} ELSE {c \in written \union Uploads : ~Pending(c)}

AnswersOK ==
  \A a \in Admins :
    /\ phase[a] \in {"idle", "fetch", "post"} => answer[a] = "none"
    /\ service # "AWS" /\ answer[a] \in {"refused", "text"} =>
         Latest(a) \notin written \union Uploads
    /\ \A m \in flight : m.run = Latest(a) => m.version = SentVersion(a)

\* Giving up takes a failure,
FewAbandoned == IsFiniteSet(Abandoned) /\ Cardinality(Abandoned) <= faults

\* and losing a run takes one too, or somebody else's bundle.
FewLost ==
  /\ IsFiniteSet(written)
  /\ CanStore => \A a \in Admins :
       /\ runs[a] <= 1 + Cardinality(Others(a)) + faults
       /\ Lost(a) => runs[a] <= Cardinality(Others(a)) + faults

CountInv == IInv /\ AnswersOK /\ FewAbandoned /\ FewLost

Step(a) == Run(a) \/ FetchFails(a) \/ NoAnswer(a)

\* What a step of a leaves alone.
LEMMA OwnStep ==
  ASSUME IInv, NEW a \in Admins, Step(a)
  PROVE  /\ UNCHANGED <<service, bundle, written>>
         /\ \A b \in Admins \ {a} :
              /\ phase'[b] = phase[b] /\ answer'[b] = answer[b] /\ version'[b] = version[b]
              /\ runs'[b] = runs[b] /\ result'[b] = result[b] /\ tries'[b] = tries[b]
         /\ ~Start(a) => runs' = runs
         /\ faults' \in {faults, faults + 1}
<1> USE DEF IInv, TypeOK
<1>1. CASE Start(a) BY <1>1 DEF Start
<1>2. CASE Fetch(a) BY <1>2 DEF Fetch, FetchedVersion
<1>3. CASE Post(a) BY <1>3 DEF Post
<1>4. CASE Answered(a) BY <1>4 DEF Answered, Return
<1>5. CASE FetchFails(a) BY <1>5 DEF FetchFails, FetchedVersion, Return, Fault
<1>6. CASE NoAnswer(a) BY <1>6 DEF NoAnswer, Resent, Return, Fault
<1>7. CASE Resend(a) BY <1>7 DEF Resend, Resent
<1> QED BY <1>1, <1>2, <1>3, <1>4, <1>5, <1>6, <1>7 DEF Step, Run

LEMMA LatestOwn ==
  ASSUME IInv, NEW a \in Admins, NEW b \in Admins
  PROVE  /\ Latest(a)[1] = a /\ Latest(a)[2] = runs[a]
         /\ Latest(a) = Latest(b) => a = b
BY DEF Latest

LEMMA AnswersStep == ASSUME IInv, AnswersOK, [Next]_vars PROVE AnswersOK'
<1> DEFINE P(b) ==
      /\ phase[b] \in {"idle", "fetch", "post"} => answer[b] = "none"
      /\ service # "AWS" /\ answer[b] \in {"refused", "text"} =>
           Latest(b) \notin written \union Uploads
      /\ \A m \in flight : m.run = Latest(b) => m.version = SentVersion(b)
<1>1. ASSUME NEW a \in Admins, Step(a), NEW b \in Admins PROVE P(b)'
  <2>1. CASE b # a
    <3>1. /\ Latest(b)' = Latest(b) /\ SentVersion(b)' = SentVersion(b)
          /\ phase'[b] = phase[b] /\ answer'[b] = answer[b] /\ written' = written
          /\ service' = service
      BY <1>1, <2>1, OwnStep DEF Latest, SentVersion, Versioned
    <3>2. \A m \in flight' : m \in flight \/ m.run = Latest(a)
      BY <1>1, LatestOwn
      DEF Step, Run, Start, Fetch, FetchedVersion, Post, Upload, Answered, Resend,
          Resent, Return, FetchFails, NoAnswer
    <3>3. \A m \in flight' : m.run = Latest(b) => m \in flight BY <2>1, <3>2, LatestOwn
    <3> QED BY <3>1, <3>3 DEF AnswersOK, Uploads
  <2>2. CASE b = a /\ Start(a)
    <3>1. runs[a] \in 0..MaxRuns /\ runs'[a] = runs[a] + 1 BY <2>2 DEF Start, IInv, TypeOK
    <3>2. \A c \in written \union Uploads : c # Latest(a)'
      <4> SUFFICES ASSUME NEW c \in written \union Uploads, c = <<a, runs[a] + 1>> PROVE FALSE
        BY <3>1 DEF Latest
      <4>1. c[2] <= runs[c[1]] BY DEF IInv, TypeOK, Uploads
      <4> QED BY <3>1, <4>1
    <3>3. flight' = flight /\ answer'[a] = "none" BY <2>2 DEF Start, IInv, TypeOK
    <3> QED BY <2>2, <3>2, <3>3 DEF Uploads
  <2>3. CASE b = a /\ Post(a)
    <3>1. Latest(a)' = Latest(a) /\ SentVersion(a)' = SentVersion(a) /\ answer'[a] = "none"
      BY <2>3 DEF Post, Latest, SentVersion, Versioned, AnswersOK
    <3>2. flight' = flight \union {Upload(a, tries[a] + 1)} /\ phase'[a] = "wait"
      BY <2>3 DEF Post, IInv, TypeOK
    <3>3. Upload(a, tries[a] + 1).version = SentVersion(a) BY DEF Upload
    <3> QED BY <2>3, <3>1, <3>2, <3>3 DEF AnswersOK
  <2>4. CASE b = a /\ phase[a] = "fetch" /\ \E v : FetchedVersion(a, v)
    <3>1. /\ phase'[a] = "post" /\ answer'[a] = "none" /\ flight' = flight
          /\ Latest(a)' = Latest(a)
      BY <2>4 DEF FetchedVersion, IInv, TypeOK, AnswersOK, Latest
    <3>2. \A m \in flight : m.run # Latest(a)
      BY <2>4 DEF IInv, TypeOK, Versioned
    <3> QED BY <2>4, <3>1, <3>2
  <2>5. CASE b = a /\ flight' \subseteq flight /\ answer' = answer /\ \E res : Return(a, res)
    <3>1. /\ phase'[a] = "done" /\ Latest(a)' = Latest(a) /\ SentVersion(a)' = SentVersion(a)
          /\ written' = written /\ service' = service
      BY <2>5 DEF Return, IInv, TypeOK, Latest, SentVersion, Versioned
    <3> QED BY <2>5, <3>1 DEF AnswersOK, Uploads
  <2>6. CASE b = a /\ flight' \subseteq flight /\ Resent(a)
    <3>1. /\ phase'[a] = "post" /\ answer'[a] = "none"
          /\ Latest(a)' = Latest(a) /\ SentVersion(a)' = SentVersion(a)
      BY <2>6 DEF Resent, IInv, TypeOK, Latest, SentVersion, Versioned
    <3> QED BY <2>6, <3>1 DEF AnswersOK
  <2> QED
    BY <1>1, <2>1, <2>2, <2>3, <2>4, <2>5, <2>6
    DEF Step, Run, Fetch, FetchFails, Answered, Resend, NoAnswer
<1>2. ASSUME NEW m \in flight, Serve(m) \/ ServeFails(m), NEW b \in Admins PROVE P(b)'
  <2>1. /\ Latest(b)' = Latest(b) /\ SentVersion(b)' = SentVersion(b)
        /\ phase'[b] = phase[b] /\ flight' = flight \ {m} /\ service' = service
        /\ written' = written \/ written' = written \union {m.run}
    BY <1>2 DEF Serve, ServeFails, Latest, SentVersion, Versioned
  <2>2. CASE m.run = Latest(b)
    <3>1. PICK with \in {"stored", "refused", "text"} :
            Answer(m, with) /\ (with # "stored" => written' = written)
      BY <1>2 DEF Serve, ServeFails
    <3>2. answer'[b] = answer[b] \/ (phase[b] = "wait" /\ answer'[b] = with)
      BY <3>1 DEF Answer
    <3>3. service # "AWS" => Latest(b) \notin written \union Uploads'
      BY <2>1, <2>2 DEF IInv, TypeOK, OneUpload, Uploads
    <3>4. service # "AWS" => answer[b] \notin {"refused", "text"}
      BY <2>2 DEF AnswersOK, Uploads
    <3> QED BY <2>1, <3>1, <3>2, <3>3, <3>4 DEF AnswersOK
  <2>3. CASE m.run # Latest(b)
    <3>1. answer'[b] = answer[b] BY <1>2, <2>3 DEF Serve, ServeFails, Answer
    <3> QED BY <2>1, <2>3, <3>1 DEF AnswersOK, Uploads
  <2> QED BY <2>2, <2>3
<1>3. CASE UNCHANGED vars
  BY <1>3 DEF vars, AnswersOK, Uploads, Latest, SentVersion, Versioned
<1>4. ASSUME \A b \in Admins : P(b)' PROVE AnswersOK' BY <1>4 DEF AnswersOK
<1> HIDE DEF P
<1> QED BY <1>1, <1>2, <1>3, <1>4 DEF Next, Step

LEMMA StoredSucceeds ==
  ASSUME IInv, NEW a \in Admins, answer[a] = "stored", Return(a, Outcome(answer[a]))
  PROVE  Success(a)'
<1>1. Outcome("stored") = Returned(IF service = "HTTP" THEN 200 ELSE 201) BY DEF Outcome
<1>2. ~Outcome("stored").err /\ Outcome("stored").status \in {200, 201} BY <1>1 DEF Returned
<1>3. phase'[a] = "done" /\ result'[a] = Outcome("stored") BY DEF Return, IInv, TypeOK
<1> QED BY <1>2, <1>3 DEF Success

\* A run is abandoned only when its client gives up waiting for it.
LEMMA AbandonedStep ==
  ASSUME IInv, AnswersOK, [Next]_vars
  PROVE  \/ Abandoned' \subseteq Abandoned /\ faults <= faults'
         \/ /\ faults' = faults + 1
            /\ \E c : Abandoned' \subseteq Abandoned \union {c}
<1>8. UNCHANGED service /\ faults \in Nat /\ faults' \in {faults, faults + 1}
  BY OwnStep DEF Next, Step, Serve, ServeFails, Fault, vars, IInv, TypeOK
<1>9. CASE service = "AWS" BY <1>8, <1>9 DEF Abandoned
<1> SUFFICES ASSUME service # "AWS"
             PROVE  \/ Abandoned' \subseteq Abandoned /\ faults <= faults'
                    \/ /\ faults' = faults + 1
                       /\ \E c : Abandoned' \subseteq Abandoned \union {c}
  BY <1>9
<1> DEFINE A == written \union Uploads
           Gone == {c \in A : ~Pending(c)}
<1>10. Abandoned = Gone /\ Abandoned' = Gone' BY <1>8 DEF Abandoned
<1>11. service # "AWS" OBVIOUS
<1>0. A \subseteq Runs /\ faults \in Nat BY DEF IInv, TypeOK, Uploads
<1>1. ASSUME NEW a \in Admins, Step(a), NEW c \in A, c[1] # a
      PROVE  Pending(c)' <=> Pending(c)
  <2>1. c[1] \in Admins BY <1>0, RunIsPair
  <2> QED BY <1>1, <2>1, OwnStep DEF Pending, Success, Latest
<1>2. ASSUME NEW a \in Admins, NEW c \in A, c[1] = a, c # Latest(a) PROVE c \in Gone
  BY <1>2 DEF Pending
<1>3. ASSUME NEW a \in Admins, Step(a) PROVE faults <= faults'
  BY <1>0, <1>3, OwnStep
<1>4. ASSUME NEW a \in Admins, Step(a), NEW last, last = Latest(a),
             A' \subseteq A \union {last},
             last \in A' => last \in Gone \/ Pending(last)'
      PROVE  Gone' \subseteq Gone /\ faults <= faults'
  <2> SUFFICES ASSUME NEW c \in A', ~Pending(c)' PROVE c \in Gone
    BY <1>3, <1>4
  <2>1. CASE c = last BY <1>4, <2>1
  <2>2. CASE c # last BY <1>1, <1>2, <1>4, <2>2
  <2> QED BY <2>1, <2>2
<1>5. ASSUME NEW a \in Admins, Step(a)
      PROVE  \/ Gone' \subseteq Gone /\ faults <= faults'
             \/ /\ faults' = faults + 1
                /\ \E c : Gone' \subseteq Gone \union {c}
  <2>0. PICK last : last = Latest(a) /\ last[1] = a BY LatestOwn
  <2>1. CASE Start(a)
    <3>1. A' = A BY <2>1 DEF Start, Uploads
    <3>2. ~Pending(last) BY <2>0, <2>1 DEF Pending, Start, Success
    <3> QED BY <1>4, <1>5, <2>0, <3>1, <3>2
  <2>2. CASE phase[a] = "fetch" /\ UNCHANGED <<flight, written>>
    <3>1. A' = A /\ last \notin A BY <1>11, <2>0, <2>2 DEF IInv, TypeOK, Uploads
    <3> QED BY <1>4, <1>5, <2>0, <3>1
  <2>3. CASE Post(a)
    <3>1. PICK m : flight' = flight \union {m} /\ m.run = last
      <4>1. Upload(a, tries[a] + 1).run = last BY <2>0 DEF Upload
      <4> QED BY <2>3, <4>1 DEF Post
    <3>2. A' = A \union {last} BY <2>3, <3>1 DEF Post, Uploads
    <3>3. Pending(last)' BY <2>0, <2>3 DEF Post, Pending, Latest, IInv, TypeOK
    <3> QED BY <1>4, <1>5, <2>0, <3>2, <3>3
  <2>4. CASE Answered(a)
    <3>1. A' = A BY <2>4 DEF Answered, Return, Uploads
    <3>2. ASSUME last \in A PROVE Pending(last)'
      <4>1. answer[a] = "stored" BY <1>11, <2>0, <2>4, <3>2 DEF Answered, AnswersOK, IInv, TypeOK
      <4>2. Success(a)' BY <2>4, <4>1, StoredSucceeds DEF Answered
      <4>3. Latest(a)' = Latest(a) BY <2>4 DEF Answered, Return, Latest
      <4> QED BY <2>0, <4>2, <4>3 DEF Pending
    <3> QED BY <1>4, <1>5, <2>0, <3>1, <3>2
  <2>5. CASE NoAnswer(a)
    <3>1. A' \subseteq A BY <1>11, <2>5 DEF NoAnswer, Resent, CanResend, Return, Uploads
    <3>2. faults' = faults + 1 BY <2>5 DEF NoAnswer, Fault
    <3>3. \A c \in A' : c # Latest(a) /\ ~Pending(c)' => c \in Gone
      BY <1>1, <1>2, <1>5, <3>1
    <3>4. Gone' \subseteq Gone \union {Latest(a)} BY <3>3
    <3> QED BY <3>2, <3>4
  <2> QED
    BY <1>11, <1>5, <2>1, <2>2, <2>3, <2>4, <2>5
    DEF Step, Run, Resend, Resent, CanResend, Fetch, FetchFails, FetchedVersion, Return
<1>6. ASSUME NEW m \in flight, Serve(m) \/ ServeFails(m)
      PROVE  Gone' \subseteq Gone /\ faults <= faults'
  <2>1. A' \subseteq A BY <1>6 DEF Serve, ServeFails, Uploads
  <2>2. \A c : Pending(c)' <=> Pending(c) BY <1>6 DEF Serve, ServeFails, Pending, Latest, Success
  <2>3. faults' \in {faults, faults + 1} BY <1>6 DEF Serve, ServeFails, Fault
  <2> QED BY <1>0, <1>10, <2>1, <2>2, <2>3
<1>7. CASE UNCHANGED vars
  <2>1. A' = A /\ faults' = faults BY <1>7 DEF vars, Uploads
  <2>2. \A c : Pending(c)' <=> Pending(c) BY <1>7 DEF vars, Pending, Latest, Success
  <2> QED BY <1>0, <1>10, <2>1, <2>2
<1> HIDE DEF A, Gone
<1> QED BY <1>10, <1>5, <1>6, <1>7 DEF Next, Step

LEMMA FewAbandonedStep ==
  ASSUME IInv, AnswersOK, FewAbandoned, [Next]_vars
  PROVE  FewAbandoned'
<1>1. IsFiniteSet(Abandoned) /\ Cardinality(Abandoned) <= faults /\ faults \in Nat
  BY DEF FewAbandoned, IInv, TypeOK
<1>2. Cardinality(Abandoned) \in Nat BY <1>1, FS_CardinalityType
<1>3. CASE Abandoned' \subseteq Abandoned /\ faults <= faults'
  <2>1. faults' \in Nat BY StepKeeps DEF IInv, TypeOK
  <2>2. /\ IsFiniteSet(Abandoned') /\ Cardinality(Abandoned') <= Cardinality(Abandoned)
        /\ Cardinality(Abandoned') \in Nat
    BY <1>1, <1>3, FS_Subset, FS_CardinalityType
  <2> QED BY <1>1, <1>2, <1>3, <2>1, <2>2 DEF FewAbandoned
<1>4. ASSUME NEW c, Abandoned' \subseteq Abandoned \union {c}, faults' = faults + 1
      PROVE  FewAbandoned'
  <2>0. /\ IsFiniteSet(Abandoned \union {c})
        /\ Cardinality(Abandoned \union {c}) \in {Cardinality(Abandoned), Cardinality(Abandoned) + 1}
    BY <1>1, FS_AddElement
  <2>1. /\ IsFiniteSet(Abandoned \union {c})
        /\ Cardinality(Abandoned \union {c}) <= Cardinality(Abandoned) + 1
        /\ Cardinality(Abandoned \union {c}) \in Nat
    BY <1>2, <2>0
  <2>2. /\ IsFiniteSet(Abandoned') /\ Cardinality(Abandoned') <= Cardinality(Abandoned \union {c})
        /\ Cardinality(Abandoned') \in Nat
    BY <1>4, <2>1, FS_Subset, FS_CardinalityType
  <2> QED BY <1>1, <1>2, <1>4, <2>1, <2>2 DEF FewAbandoned
<1> QED BY <1>3, <1>4, AbandonedStep

\* Where a bundle can be stored one could be before.
LEMMA CanStoreBefore == ASSUME IInv, [Next]_vars, CanStore' PROVE CanStore
<1>1. ASSUME NEW m \in flight, Serve(m) PROVE CanStore
  <2>1. m.version # AnyVersion \/ service # "GCP"
    BY RunsAssumption DEF IInv, TypeOK, VersionsKnown, Versioned, Known
  <2> QED BY <1>1, <2>1 DEF Serve, Accepts, CanStore
<1>2. CASE UNCHANGED <<service, bundle>> BY <1>2 DEF CanStore
<1> QED BY <1>1, <1>2, OwnStep DEF Next, Step, ServeFails, vars

\* How a run that has not failed comes to fail.
Setback(a) ==
  \/ faults' = faults + 1
  \/ \E c : c \notin Others(a) /\ Others(a)' = Others(a) \union {c}

LEMMA LosesByOwn ==
  ASSUME IInv, AnswersOK, NEW a \in Admins, Step(a), ~Start(a), ~Lost(a), Lost(a)'
  PROVE  faults' = faults + 1
<1> USE DEF IInv, TypeOK
<1>1. CASE Fetch(a)
  <2>1. phase'[a] = "post" /\ version'[a] = bundle' BY <1>1 DEF Fetch, FetchedVersion
  <2> QED BY <2>1 DEF Lost
<1>2. CASE Post(a)
  <2>1. answer'[a] = "none" /\ phase'[a] = "wait" /\ phase[a] = "post"
    BY <1>2 DEF Post, AnswersOK
  <2>2. UNCHANGED <<service, written, runs, version, bundle>> BY <1>2 DEF Post
  <2> QED BY <2>1, <2>2 DEF Lost, Versioned, Latest
<1>3. CASE Answered(a)
  <2>1. phase[a] = "wait" /\ phase'[a] = "done" /\ answer[a] # "none" BY <1>3 DEF Answered, Return
  <2>2. answer[a] = "stored" => Success(a)' BY <1>3, StoredSucceeds DEF Answered
  <2> QED BY <2>1, <2>2 DEF Lost
<1>4. CASE FetchFails(a) \/ NoAnswer(a) BY <1>4 DEF FetchFails, NoAnswer, Fault
<1>5. CASE Resend(a)
  <2>1. phase'[a] = "post" /\ ~Versioned'
    BY <1>5 DEF Resend, Resent, CanResend, Versioned
  <2> QED BY <2>1 DEF Lost
<1> QED BY <1>1, <1>2, <1>3, <1>4, <1>5 DEF Step, Run

LEMMA LosesByOther ==
  ASSUME IInv, NEW a \in Admins, NEW b \in Admins, Step(b), b # a, Lost(a)'
  PROVE  Lost(a)
BY OwnStep DEF Lost, Success, Versioned, Latest

LEMMA LosesByService ==
  ASSUME IInv, AnswersOK, CanStore, NEW a \in Admins, NEW m \in flight, Serve(m),
         ~Lost(a), Lost(a)'
  PROVE  Setback(a)
<1>1. /\ UNCHANGED <<service, phase, version, result, runs, faults>>
      /\ Latest(a)' = Latest(a)
      /\ m.run # Latest(a) => answer'[a] = answer[a]
      /\ answer'[a] # answer[a] => phase[a] = "wait"
      /\ Versioned => m.run \notin written
  BY DEF Serve, Answer, Versioned, Latest, IInv, TypeOK
<1>2. CASE m.run = Latest(a) /\ Accepts(m.version)
  <2>1. Latest(a) \in written' /\ answer'[a] \in {"stored", answer[a]}
    BY <1>2 DEF Serve, Answer, IInv, TypeOK
  <2> QED BY <1>1, <2>1 DEF Lost, Success
<1>3. CASE m.run # Latest(a) /\ Accepts(m.version)
  <2>1. written' = written \union {m.run} BY <1>3 DEF Serve
  <2>2. CASE service = "AWS" BY <1>1, <1>3, <2>2 DEF Lost, Success, Versioned
  <2>3. CASE service # "AWS" /\ m.run \in written
    BY <2>3 DEF IInv, TypeOK
  <2>4. CASE service # "AWS" /\ m.run \notin written
    BY <1>1, <1>3, <2>1, <2>4 DEF Setback, Others
  <2> QED BY <2>2, <2>3, <2>4
<1>4. CASE ~Accepts(m.version)
  <2>1. UNCHANGED <<written, bundle>> /\ Answer(m, "refused") BY <1>4 DEF Serve
  <2>2. m.run = Latest(a) /\ phase[a] = "wait"
    BY <1>1, <2>1 DEF Lost, Success, Versioned, Answer, IInv, TypeOK
  <2>3. m.version = SentVersion(a) BY <2>2 DEF AnswersOK
  <2>4. Versioned /\ version[a] # bundle
    BY <1>4, <2>3 DEF SentVersion, Accepts, Versioned, CanStore
  <2> QED BY <1>1, <2>2, <2>4 DEF Lost
<1> QED BY <1>2, <1>3, <1>4

LEMMA FewLostStep == ASSUME IInv, AnswersOK, FewLost, [Next]_vars PROVE FewLost'
<1> DEFINE n(a) == Cardinality(Others(a))
<1>0. UNCHANGED service BY OwnStep DEF Next, Step, Serve, ServeFails, vars
<1>1. IsFiniteSet(written')
  <2>1. written' = written \/ \E c : written' = written \union {c}
    BY OwnStep DEF Next, Step, Serve, ServeFails, vars
  <2> QED BY <2>1, FS_AddElement DEF FewLost
<1>2. written \subseteq written' BY OwnStep DEF Next, Step, Serve, ServeFails, vars
<1>3. faults \in Nat /\ faults' \in Nat /\ faults <= faults'
  <2>1. faults' \in {faults, faults + 1}
    BY OwnStep DEF Next, Step, Serve, ServeFails, Fault, vars
  <2> QED BY <2>1 DEF IInv, TypeOK
<1>4. ASSUME NEW a \in Admins PROVE n(a) \in Nat /\ n(a)' \in Nat /\ IsFiniteSet(Others(a))
  <2>1. Others(a) \subseteq written /\ Others(a)' \subseteq written' BY DEF Others
  <2>2. IsFiniteSet(Others(a)) /\ IsFiniteSet(Others(a)') BY <1>1, <2>1, FS_Subset DEF FewLost
  <2> QED BY <2>2, FS_CardinalityType
<1>5. ASSUME NEW a \in Admins, Others(a) \subseteq Others(a)' PROVE n(a) <= n(a)'
  <2>1. IsFiniteSet(Others(a)')
    <3>1. Others(a)' \subseteq written' BY DEF Others
    <3> QED BY <1>1, <3>1, FS_Subset
  <2> QED BY <1>5, <2>1, FS_Subset
<1> SUFFICES ASSUME CanStore', NEW a \in Admins
             PROVE  /\ runs'[a] <= 1 + n(a)' + faults'
                    /\ Lost(a)' => runs'[a] <= n(a)' + faults'
  BY <1>1 DEF FewLost
<1>6. /\ runs[a] <= 1 + n(a) + faults /\ runs[a] \in Nat
      /\ Lost(a) => runs[a] <= n(a) + faults
  BY CanStoreBefore DEF FewLost, IInv, TypeOK
<1>7. CASE Start(a)
  <2>1. runs[a] \in 0..MaxRuns /\ runs'[a] = runs[a] + 1 /\ written' = written
    BY <1>7 DEF Start, IInv, TypeOK
  <2>2. runs[a] = 0 \/ Lost(a) BY <1>7 DEF Start, Lost, IInv, TypeOK
  <2>3. Others(a) \subseteq Others(a)'
    <3>1. Latest(a)' \notin written
      <4> SUFFICES ASSUME <<a, runs[a] + 1>> \in written PROVE FALSE
        BY <2>1 DEF Latest
      <4>1. runs[a] + 1 <= runs[a] BY DEF IInv, TypeOK
      <4> QED BY <2>1, <4>1
    <3> QED BY <1>0, <2>1, <3>1 DEF Others
  <2>4. ~Lost(a)'
    <3>1. phase'[a] \in {"fetch", "post"} /\ (phase'[a] = "post" => ~Versioned')
      BY <1>7 DEF Start, Versioned, IInv, TypeOK
    <3> QED BY <3>1 DEF Lost
  <2> HIDE DEF n
  <2> QED BY <1>3, <1>4, <1>5, <1>6, <2>1, <2>2, <2>3, <2>4
<1>8. CASE ~Start(a)
  <2>1. runs'[a] = runs[a]
    BY <1>8, OwnStep DEF Next, Step, Serve, ServeFails, vars, Start
  <2>2. Others(a) \subseteq Others(a)' BY <1>0, <1>2, <2>1 DEF Others, Latest
  <2>3. n(a) <= n(a)' BY <1>5, <2>2
  <2>4. ASSUME ~Lost(a), Lost(a)' PROVE Setback(a)
    <3>1. ASSUME NEW b \in Admins, Step(b) PROVE Setback(a)
      BY <1>8, <2>4, <3>1, LosesByOwn, LosesByOther DEF Setback
    <3>2. ASSUME NEW m \in flight, Serve(m) PROVE Setback(a)
      BY <2>4, <3>2, LosesByService, CanStoreBefore
    <3>3. ASSUME NEW m \in flight, ServeFails(m) PROVE Setback(a)
      BY <3>3 DEF ServeFails, Fault, Setback
    <3>4. CASE UNCHANGED vars
      BY <2>4, <3>4 DEF vars, Lost, Success, Versioned, Latest
    <3> QED BY <3>1, <3>2, <3>3, <3>4 DEF Next, Step
  <2>5. ASSUME Setback(a) PROVE n(a)' + faults' >= n(a) + faults + 1
    <3>1. CASE faults' = faults + 1
      <4> HIDE DEF n
      <4> QED BY <1>3, <1>4, <2>3, <3>1
    <3>2. ASSUME NEW c, c \notin Others(a), Others(a)' = Others(a) \union {c}
          PROVE  n(a)' = n(a) + 1
      BY <1>4, <3>2, FS_AddElement
    <3>3. CASE n(a)' = n(a) + 1
      <4> HIDE DEF n
      <4> QED BY <1>3, <1>4, <3>3
    <3> QED BY <2>5, <3>1, <3>2, <3>3 DEF Setback
  <2> HIDE DEF n
  <2> QED BY <1>3, <1>4, <1>6, <2>1, <2>3, <2>4, <2>5
<1> HIDE DEF n
<1> QED BY <1>7, <1>8

LEMMA CountInit == Init => AnswersOK /\ FewAbandoned /\ FewLost
<1> SUFFICES ASSUME Init PROVE AnswersOK /\ FewAbandoned /\ FewLost
  OBVIOUS
<1>1. IsFiniteSet({}) /\ Cardinality({}) = 0 BY FS_EmptySet
<1>2. Abandoned = {} /\ \A a \in Admins : Others(a) = {}
  BY DEF Init, Abandoned, Uploads, Others
<1>3. AnswersOK BY DEF Init, AnswersOK
<1>4. FewAbandoned BY <1>1, <1>2 DEF Init, FewAbandoned
<1>5. FewLost BY <1>1, <1>2 DEF Init, FewLost, Lost
<1> QED BY <1>3, <1>4, <1>5

LEMMA CountAlways == Spec => []CountInv
<1>1. Init => CountInv BY InitHolds, CountInit DEF CountInv
<1>2. CountInv /\ [Next]_vars => CountInv'
  BY StepKeeps, AnswersStep, FewAbandonedStep, FewLostStep DEF CountInv
<1> QED BY <1>1, <1>2, PTL DEF Spec

FewRuns ==
  CanStore => \A a \in Admins : runs[a] <= Cardinality(Admins) + 2 * faults

\* Nobody needs more runs than there are administrators, and two for each
\* failure of the network or the service: a set that was refused lost to
\* another's that succeeded, who then is done, or to one that was given up on.
THEOREM FewRunsCorrect ==
  ASSUME IsFiniteSet(Admins)
  PROVE  Spec => []FewRuns
<1>1. CountInv => FewRuns
  <2> SUFFICES ASSUME CountInv, CanStore, NEW a \in Admins
               PROVE  runs[a] <= Cardinality(Admins) + 2 * faults
    BY DEF FewRuns
  <2> DEFINE rest == Admins \ {a}
             f == [b \in rest |-> Latest(b)]
             last == {Latest(b) : b \in rest}
  <2>1. /\ IsFiniteSet(rest) /\ Cardinality(rest) \in Nat
        /\ Cardinality(Admins) = Cardinality(rest) + 1
    <3>1. IsFiniteSet(rest) /\ Cardinality(rest) = Cardinality(Admins) - 1
      BY FS_RemoveElement
    <3>2. Cardinality(rest) \in Nat /\ Cardinality(Admins) \in Nat
      BY <3>1, FS_CardinalityType
    <3> HIDE DEF rest
    <3> QED BY <3>1, <3>2
  <2>2. IsFiniteSet(last) /\ Cardinality(last) <= Cardinality(rest) /\ Cardinality(last) \in Nat
    <3>1. f \in Surjection(rest, last) BY DEF Surjection
    <3> HIDE DEF f, rest, last
    <3> QED BY <2>1, <3>1, FS_Surjection, FS_CardinalityType
  <2>3. Others(a) \subseteq Abandoned \union last
    <3> SUFFICES ASSUME NEW c \in written, c # Latest(a), Pending(c) PROVE c \in last
      BY DEF Others, Abandoned
    <3>1. c[1] \in Admins /\ c = Latest(c[1])
      BY RunIsPair DEF CountInv, IInv, TypeOK, Pending
    <3> QED BY <3>1
  <2>4. /\ IsFiniteSet(Abandoned) /\ Cardinality(Abandoned) <= faults
        /\ Cardinality(Abandoned) \in Nat
    BY FS_CardinalityType DEF CountInv, FewAbandoned
  <2>5. Cardinality(Others(a)) <= faults + Cardinality(rest) /\ Cardinality(Others(a)) \in Nat
    <3> HIDE DEF rest, last
    <3>1. /\ IsFiniteSet(Abandoned \union last)
          /\ Cardinality(Abandoned \union last) =
               Cardinality(Abandoned) + Cardinality(last) - Cardinality(Abandoned \intersect last)
          /\ Cardinality(Abandoned \intersect last) \in Nat
      BY <2>2, <2>4, FS_Union, FS_Intersection, FS_CardinalityType
    <3>2. /\ IsFiniteSet(Others(a))
          /\ Cardinality(Others(a)) <= Cardinality(Abandoned \union last)
      BY <2>3, <3>1, FS_Subset
    <3>3. Cardinality(Others(a)) \in Nat BY <3>2, FS_CardinalityType
    <3>4. faults \in Nat BY DEF CountInv, IInv, TypeOK
    <3> QED BY <2>1, <2>2, <2>4, <3>1, <3>2, <3>3, <3>4
  <2>6. runs[a] <= 1 + Cardinality(Others(a)) + faults BY DEF CountInv, FewLost
  <2>7. runs[a] \in Nat /\ faults \in Nat BY DEF CountInv, IInv, TypeOK
  <2> HIDE DEF rest
  <2> QED BY <2>1, <2>5, <2>6, <2>7
<1> QED BY <1>1, CountAlways, PTL

Awaited ==
  \A a \in Admins : phase[a] = "wait" /\ answer[a] = "none" =>
    \E m \in flight : m.run = Latest(a) /\ m.try = tries[a]

\* A client that waits has its answer, or the upload it waits for is on the way
\* to be served: with FewRuns, what Converges needs besides fairness.
THEOREM AwaitedCorrect == Spec => []Awaited
<1>1. Init => Awaited BY DEF Init, Awaited
<1>2. IInv /\ Awaited /\ [Next]_vars => Awaited'
  <2> DEFINE Sent(a) == \E m \in flight : m.run = Latest(a) /\ m.try = tries[a]
  <2> SUFFICES ASSUME IInv, Awaited, [Next]_vars, NEW a \in Admins,
                      phase'[a] = "wait", answer'[a] = "none"
               PROVE  Sent(a)'
    BY DEF Awaited
  <2>1. ASSUME NEW b \in Admins, Step(b), b # a PROVE Sent(a)'
    <3>1. Latest(a)' = Latest(a) /\ tries'[a] = tries[a] /\ Sent(a)
      BY <2>1, OwnStep DEF Latest, Awaited
    <3>2. \A m \in flight : m \in flight' \/ m.run = Latest(b)
      BY <2>1
      DEF Step, Run, Start, Fetch, FetchedVersion, Post, Upload, Answered, Resend,
          Resent, Return, FetchFails, NoAnswer
    <3> QED BY <2>1, <3>1, <3>2, LatestOwn
  <2>2. ASSUME Step(a) PROVE Sent(a)'
    <3>1. Post(a)
      BY <2>2 DEF Step, Run, Start, Fetch, FetchedVersion, Answered, Resend, Resent,
                  Return, FetchFails, NoAnswer, IInv, TypeOK
    <3>2. /\ Latest(a)' = Latest(a) /\ tries'[a] = tries[a] + 1
          /\ Upload(a, tries[a] + 1) \in flight'
      BY <3>1 DEF Post, Latest, IInv, TypeOK
    <3> QED BY <3>2 DEF Upload
  <2>3. ASSUME NEW m \in flight, Serve(m) \/ ServeFails(m) PROVE Sent(a)'
    <3>1. PICK with \in {"stored", "refused", "text"} : Answer(m, with)
      BY <2>3 DEF Serve, ServeFails
    <3>2. /\ phase' = phase /\ tries' = tries /\ Latest(a)' = Latest(a)
          /\ flight' = flight \ {m}
      BY <2>3 DEF Serve, ServeFails, Latest
    <3>3. ~(m.run = Latest(a) /\ m.try = tries[a]) /\ answer[a] = "none"
      BY <3>1, <3>2 DEF Answer
    <3> QED BY <3>2, <3>3 DEF Awaited
  <2>4. CASE UNCHANGED vars BY <2>4 DEF vars, Awaited, Latest
  <2> QED BY <2>1, <2>2, <2>3, <2>4 DEF Next, Step
<1> QED BY <1>1, <1>2, InitHolds, StepKeeps, PTL DEF Spec
=============================================================================
