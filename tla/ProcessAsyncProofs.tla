------------------------- MODULE ProcessAsyncProofs -------------------------
(***************************************************************************)
(* Proofs about ProcessAsync, for any number of inputs: the wait group     *)
(* counts the goroutines that are not gone, so the channel is closed after *)
(* the last send, and the results are the successes, each once.            *)
(***************************************************************************)
EXTENDS ProcessAsync, FiniteSetTheorems, TLAPS

\* The inductive invariant. A goroutine sends only what succeeded; its result
\* is collected exactly when it is past its send; the channel is closed only
\* when no goroutine is left.
Progress ==
  /\ \A i \in Inputs : (step[i] = "none") <=> (i > launched)
  /\ \A i \in Inputs : step[i] = "send" => i \in succeeds
  /\ \A i \in Inputs :
       (\E n \in DOMAIN results : results[n] = i) <=>
          (i \in succeeds /\ step[i] \in {"return", "gone"})
  /\ IsInjective(results)
  /\ closed => launched = N /\ wg = 0
  /\ returned => closed

IInv == TypeOK /\ Progress

\* The goroutines are finitely many, so that the wait group's counter is the
\* cardinality of a finite set.
LEMMA InputsFinite == IsFiniteSet(Inputs) /\ IsFiniteSet(Active)
<1>1. IsFiniteSet(Inputs) BY FS_Interval, NAssumption DEF Inputs
<1>2. Active \subseteq Inputs BY DEF Active
<1> QED BY <1>1, <1>2, FS_Subset

LEMMA InitHolds == Init => IInv
<1> SUFFICES ASSUME Init PROVE IInv
  OBVIOUS
<1> USE NAssumption DEF Init
<1>1. Active = {} BY DEF Active
<1>2. wg = Cardinality(Active) BY <1>1, FS_EmptySet
<1>3. results \in Seq(Inputs) /\ DOMAIN results = {} OBVIOUS
<1>4. TypeOK
  <2>1. launched \in 0..N OBVIOUS
  <2>2. step \in [Inputs -> {"none", "block", "send", "return", "gone"}] OBVIOUS
  <2>3. succeeds \subseteq Inputs OBVIOUS
  <2>4. closed \in BOOLEAN /\ returned \in BOOLEAN OBVIOUS
  <2> QED BY <1>2, <1>3, <2>1, <2>2, <2>3, <2>4 DEF TypeOK
<1>5. IsInjective(results) BY <1>3 DEF IsInjective
<1>6. Progress BY <1>3, <1>5 DEF Progress, Inputs
<1> QED BY <1>4, <1>6 DEF IInv

\* Starting a goroutine raises the counter with it.
LEMMA LaunchKeeps == IInv /\ Launch => IInv'
<1> SUFFICES ASSUME IInv, Launch PROVE IInv'
  OBVIOUS
<1> USE NAssumption
<1> DEFINE new == launched + 1
<1>1. new \in Inputs /\ step[new] = "none" /\ launched' = new
  BY DEF IInv, TypeOK, Progress, Launch, Inputs
<1>2. Active' = Active \union {new} /\ new \notin Active
  BY <1>1 DEF Active, Launch, IInv, TypeOK
<1>3. Cardinality(Active') = Cardinality(Active) + 1
  BY <1>2, InputsFinite, FS_AddElement
<1>4. TypeOK'
  BY <1>1, <1>3 DEF IInv, TypeOK, Launch, Inputs
<1>5. ~closed
  BY DEF IInv, TypeOK, Progress, Launch
<1>6. Progress'
  <2>1. \A i \in Inputs : i # new => step'[i] = step[i] BY DEF Launch, IInv, TypeOK
  <2>2. step'[new] = "block" BY <1>1 DEF Launch, IInv, TypeOK
  <2>3. \A i \in Inputs : (step'[i] = "none") <=> (i > launched')
    BY <1>1, <2>1, <2>2 DEF IInv, TypeOK, Progress, Inputs
  <2>4. \A i \in Inputs : step'[i] = "send" => i \in succeeds
    BY <1>1, <2>1, <2>2 DEF IInv, Progress
  <2>5. \A i \in Inputs :
          (\E n \in DOMAIN results : results[n] = i) <=>
             (i \in succeeds /\ step'[i] \in {"return", "gone"})
    BY <1>1, <2>1, <2>2 DEF IInv, Progress
  <2> QED
    BY <1>5, <2>3, <2>4, <2>5 DEF IInv, Progress, Launch, IsInjective
<1> QED BY <1>4, <1>6 DEF IInv

\* What a goroutine does to the counter: Block and Send leave it running, Done
\* takes it away with its place in the wait group.
LEMMA BlockKeeps == ASSUME NEW i \in Inputs, IInv, Block(i) PROVE IInv'
<1>1. Active' = Active BY DEF Active, Block, IInv, TypeOK
<1>2. TypeOK' BY <1>1 DEF Block, IInv, TypeOK
<1>3. Progress'
  BY DEF Block, IInv, TypeOK, Progress, IsInjective
<1> QED BY <1>2, <1>3 DEF IInv

LEMMA SendKeeps == ASSUME NEW i \in Inputs, IInv, Send(i) PROVE IInv'
<1>1. Active' = Active BY DEF Active, Send, IInv, TypeOK
<1>2. TypeOK' BY <1>1 DEF Send, IInv, TypeOK
<1>3. /\ DOMAIN results' = DOMAIN results \union {Len(results) + 1}
      /\ \A n \in DOMAIN results : results'[n] = results[n]
      /\ results'[Len(results) + 1] = i
      /\ Len(results) + 1 \notin DOMAIN results
  BY DEF Send, IInv, TypeOK
<1>4. \A n \in DOMAIN results : results[n] # i
  BY DEF Send, IInv, TypeOK, Progress
<1>5. IsInjective(results')
  BY <1>3, <1>4 DEF IInv, Progress, IsInjective
<1>6. \A j \in Inputs :
        (\E n \in DOMAIN results' : results'[n] = j) <=>
           (j \in succeeds /\ step'[j] \in {"return", "gone"})
  <2> SUFFICES ASSUME NEW j \in Inputs
      PROVE (\E n \in DOMAIN results' : results'[n] = j) <=>
              (j \in succeeds /\ step'[j] \in {"return", "gone"})
    OBVIOUS
  <2>1. CASE j = i BY <2>1, <1>3 DEF Send, IInv, TypeOK, Progress
  <2>2. CASE j # i
    <3>1. step'[j] = step[j] BY <2>2 DEF Send, IInv, TypeOK
    <3>2. (\E n \in DOMAIN results' : results'[n] = j) <=>
            (\E n \in DOMAIN results : results[n] = j)
      BY <2>2, <1>3
    <3> QED BY <3>1, <3>2 DEF IInv, Progress
  <2> QED BY <2>1, <2>2
<1>7. Progress'
  BY <1>5, <1>6 DEF Send, IInv, TypeOK, Progress
<1> QED BY <1>2, <1>7 DEF IInv

LEMMA DoneKeeps == ASSUME NEW i \in Inputs, IInv, Done(i) PROVE IInv'
<1>1. Active' = Active \ {i} /\ i \in Active
  BY DEF Active, Done, IInv, TypeOK
<1>2. Cardinality(Active') = Cardinality(Active) - 1
  BY <1>1, InputsFinite, FS_RemoveElement
<1>3. TypeOK' BY <1>2 DEF Done, IInv, TypeOK
<1>4. Cardinality(Active) # 0
  BY <1>1, InputsFinite, FS_EmptySet
<1>5. Progress'
  BY <1>4 DEF Done, IInv, TypeOK, Progress, IsInjective
<1> QED BY <1>3, <1>5 DEF IInv

\* The invariant holds of every step: the counter can only be 0, with all
\* goroutines launched, when all of them are gone.
LEMMA StepKeeps == IInv /\ [Next]_vars => IInv'
<1> SUFFICES ASSUME IInv, [Next]_vars PROVE IInv'
  OBVIOUS
<1>1. CASE Launch BY <1>1, LaunchKeeps
<1>2. CASE Close
  <2>1. TypeOK' BY <1>2 DEF Close, IInv, TypeOK, Active
  <2>2. Progress' BY <1>2 DEF Close, IInv, Progress, IsInjective
  <2> QED BY <2>1, <2>2 DEF IInv
<1>3. CASE Return
  <2>1. TypeOK' BY <1>3 DEF Return, IInv, TypeOK, Active
  <2>2. Progress' BY <1>3 DEF Return, IInv, Progress, IsInjective
  <2> QED BY <2>1, <2>2 DEF IInv
<1>4. ASSUME NEW i \in Inputs, Goroutine(i) PROVE IInv'
  BY <1>4, BlockKeeps, SendKeeps, DoneKeeps DEF Goroutine
<1>5. CASE UNCHANGED vars
  <2>1. TypeOK' BY <1>5 DEF vars, IInv, TypeOK, Active
  <2>2. Progress' BY <1>5 DEF vars, IInv, Progress, IsInjective
  <2> QED BY <2>1, <2>2 DEF IInv
<1> QED BY <1>1, <1>2, <1>3, <1>4, <1>5 DEF Next

\* Once the channel is closed no goroutine is left to send to it; a result is
\* then there for each input that succeeded.
LEMMA InvImplies == IInv => ResultsAreSuccesses
<1> SUFFICES ASSUME IInv PROVE ResultsAreSuccesses
  OBVIOUS
<1> USE NAssumption
<1>1. ASSUME closed PROVE \A i \in Inputs : step[i] = "gone"
  <2>1. Active = {}
    BY <1>1, InputsFinite, FS_EmptySet DEF IInv, TypeOK, Progress
  <2>2. \A i \in Inputs : step[i] # "none"
    BY <1>1 DEF IInv, Progress, Inputs
  <2> QED BY <2>1, <2>2 DEF Active, IInv, TypeOK
<1>2. ASSUME returned PROVE IsInjective(results) /\ ToSet(results) = succeeds
  <2>1. closed BY <1>2 DEF IInv, Progress
  <2>2. \A n \in DOMAIN results : results[n] \in Inputs
    BY DEF IInv, TypeOK
  <2>3. ToSet(results) = {results[n] : n \in DOMAIN results} BY DEF ToSet
  <2>4. ToSet(results) = succeeds
    BY <1>1, <2>1, <2>2, <2>3 DEF IInv, TypeOK, Progress
  <2> QED BY <2>4 DEF IInv, Progress
<1> QED BY <1>1, <1>2 DEF ResultsAreSuccesses

\* The wait group's counter is the number of goroutines that are not gone.
THEOREM TypeCorrect == Spec => []TypeOK
<1>1. IInv => TypeOK BY DEF IInv
<1> QED BY <1>1, InitHolds, StepKeeps, PTL DEF Spec

\* ProcessAsync returns the successes, each once, and no goroutine ever sends
\* to the closed channel.
THEOREM ResultsAreSuccessesCorrect == Spec => []ResultsAreSuccesses
<1> QED BY InitHolds, StepKeeps, InvImplies, PTL DEF Spec

-----------------------------------------------------------------------------
(* Why ProcessAsync returns: there is always a next step until it is over, *)
(* and no more steps than tasks. Returns itself, which needs fairness, is  *)
(* checked by TLC.                                                         *)

GoroutineTasks == {"launch", "block", "send", "done"}
CallerTasks == {"close", "return"}
Tasks == (Inputs \X GoroutineTasks) \union ({0} \X CallerTasks)

\* The steps of a goroutine before task t is behind it.
Before(t) ==
  CASE t = "launch" -> {"none"}
    [] t = "block" -> {"none", "block"}
    [] t = "send" -> {"none", "block", "send"}
    [] OTHER -> {"none", "block", "send", "return"}

\* What is still to be done; nobody sends for an input that failed.
ToDo ==
  {x \in Inputs \X GoroutineTasks : step[x[1]] \in Before(x[2])}
    \union {x \in {0} \X CallerTasks : IF x[2] = "close" THEN ~closed ELSE ~returned}

Over == returned /\ \A i \in Inputs : step[i] = "gone"

\* The conditions under which the caller, a goroutine and the one that closes
\* the channel go on: a send waits for the caller to receive.
CallerGoesOn == launched < N \/ (launched = N /\ closed /\ ~returned)
GoroutineGoesOn(i) == step[i] \in {"block", "return"} \/ (step[i] = "send" /\ launched = N /\ ~returned)
CloserGoesOn == launched = N /\ wg = 0 /\ ~closed

NeverStuck == Over \/ CallerGoesOn \/ CloserGoesOn \/ \E i \in Inputs : GoroutineGoesOn(i)

LEMMA ToDoBounded ==
  /\ IsFiniteSet(ToDo) /\ Cardinality(ToDo) \in Nat /\ Cardinality(ToDo) <= 4 * N + 2
<1> USE NAssumption
<1>1. IsFiniteSet(Inputs) /\ Cardinality(Inputs) = N
  BY FS_Interval DEF Inputs
<1>2. IsFiniteSet(GoroutineTasks) /\ Cardinality(GoroutineTasks) = 4
  <2>1. IsFiniteSet({}) /\ Cardinality({}) = 0 BY FS_EmptySet
  <2>2. IsFiniteSet({"launch"}) /\ Cardinality({"launch"}) = 1 BY FS_Singleton
  <2>3. IsFiniteSet({"launch", "block"}) /\ Cardinality({"launch", "block"}) = 2
    <3>1. {"launch", "block"} = {"launch"} \union {"block"} /\ "block" \notin {"launch"} OBVIOUS
    <3> QED BY <2>2, <3>1, FS_AddElement
  <2>4. IsFiniteSet({"launch", "block", "send"}) /\ Cardinality({"launch", "block", "send"}) = 3
    <3>1. /\ {"launch", "block", "send"} = {"launch", "block"} \union {"send"}
          /\ "send" \notin {"launch", "block"}
      OBVIOUS
    <3> QED BY <2>3, <3>1, FS_AddElement
  <2>5. /\ GoroutineTasks = {"launch", "block", "send"} \union {"done"}
        /\ "done" \notin {"launch", "block", "send"}
    BY DEF GoroutineTasks
  <2> QED BY <2>4, <2>5, FS_AddElement
<1>3. IsFiniteSet({0} \X CallerTasks) /\ Cardinality({0} \X CallerTasks) = 2
  <2>1. IsFiniteSet({0}) /\ Cardinality({0}) = 1 BY FS_Singleton
  <2>2. IsFiniteSet({"close"}) /\ Cardinality({"close"}) = 1 BY FS_Singleton
  <2>3. CallerTasks = {"close"} \union {"return"} /\ "return" \notin {"close"} BY DEF CallerTasks
  <2>4. IsFiniteSet(CallerTasks) /\ Cardinality(CallerTasks) = 2 BY <2>2, <2>3, FS_AddElement
  <2>5. Cardinality({0} \X CallerTasks) = 1 * 2 BY <2>1, <2>4, FS_Product
  <2> QED BY <2>1, <2>4, <2>5, FS_Product
<1>4. IsFiniteSet(Inputs \X GoroutineTasks) /\ Cardinality(Inputs \X GoroutineTasks) = N * 4
  BY <1>1, <1>2, FS_Product
<1>5. (Inputs \X GoroutineTasks) \intersect ({0} \X CallerTasks) = {}
  BY DEF Inputs
<1>6. IsFiniteSet(Tasks) /\ Cardinality(Tasks) = N * 4 + 2 - 0
  <2> DEFINE S == Inputs \X GoroutineTasks
             T == {0} \X CallerTasks
  <2>1. Cardinality(S \intersect T) = 0 BY <1>5, FS_EmptySet
  <2>2. Tasks = S \union T BY DEF Tasks
  <2>3. IsFiniteSet(S) /\ IsFiniteSet(T) BY <1>3, <1>4
  <2> HIDE DEF S, T
  <2>4. /\ IsFiniteSet(S \union T)
        /\ Cardinality(S \union T) = Cardinality(S) + Cardinality(T) - Cardinality(S \intersect T)
    BY <2>3, FS_Union
  <2> QED BY <1>3, <1>4, <2>1, <2>2, <2>4 DEF S, T
<1>7. ToDo \subseteq Tasks BY DEF ToDo, Tasks
<1>8. IsFiniteSet(ToDo) /\ Cardinality(ToDo) <= Cardinality(Tasks) BY <1>6, <1>7, FS_Subset
<1>9. Cardinality(ToDo) \in Nat BY <1>8, FS_CardinalityType
<1> QED BY <1>6, <1>8, <1>9

\* A set of which something goes and to which nothing comes is smaller.
LEMMA Shrinks ==
  ASSUME NEW S, NEW T, NEW x, IsFiniteSet(S), T \subseteq S, x \in S, x \notin T
  PROVE  Cardinality(T) < Cardinality(S)
<1>1. IsFiniteSet(T) /\ Cardinality(T) <= Cardinality(S) /\ Cardinality(T) # Cardinality(S)
  BY FS_Subset
<1>2. Cardinality(S) \in Nat /\ Cardinality(T) \in Nat BY <1>1, FS_CardinalityType
<1> QED BY <1>1, <1>2

LEMMA GoroutineDoes ==
  ASSUME IInv, NEW i \in Inputs, NEW next \in {"block", "send", "return", "gone"},
         NEW task \in GoroutineTasks, step[i] \in Before(task), next \notin Before(task),
         \A t \in GoroutineTasks : next \in Before(t) => step[i] \in Before(t),
         step' = [step EXCEPT ![i] = next], UNCHANGED <<closed, returned>>
  PROVE  Cardinality(ToDo') < Cardinality(ToDo)
<1>1. step'[i] = next /\ \A j \in Inputs : j # i => step'[j] = step[j] BY DEF IInv, TypeOK
<1> HIDE DEF Before, GoroutineTasks, CallerTasks
<1>2. ToDo' \subseteq ToDo BY <1>1 DEF ToDo
<1>3. <<i, task>> \in ToDo BY DEF ToDo
<1>4. <<i, task>> \notin ToDo' BY <1>1 DEF ToDo, Inputs
<1> QED BY <1>2, <1>3, <1>4, ToDoBounded, Shrinks

LEMMA CallerDoes ==
  ASSUME UNCHANGED step, closed => closed', returned => returned',
         closed' # closed \/ returned' # returned, IInv, IInv'
  PROVE  Cardinality(ToDo') < Cardinality(ToDo)
<1> USE DEF IInv, TypeOK
<1>1. ToDo' \subseteq ToDo BY DEF ToDo
<1>2. PICK t \in CallerTasks : <<0, t>> \in ToDo /\ <<0, t>> \notin ToDo'
  <2>1. CASE closed' # closed
    <3>1. <<0, "close">> \in ToDo BY <2>1 DEF ToDo, CallerTasks
    <3>2. <<0, "close">> \notin ToDo' BY <2>1 DEF ToDo, CallerTasks, Inputs
    <3> QED BY <3>1, <3>2 DEF CallerTasks
  <2>2. CASE returned' # returned
    <3>1. <<0, "return">> \in ToDo BY <2>2 DEF ToDo, CallerTasks
    <3>2. <<0, "return">> \notin ToDo' BY <2>2 DEF ToDo, CallerTasks, Inputs
    <3> QED BY <3>1, <3>2 DEF CallerTasks
  <2> QED BY <2>1, <2>2
<1> QED BY <1>1, <1>2, ToDoBounded, Shrinks

LEMMA StepDoes == IInv /\ Next => Cardinality(ToDo') < Cardinality(ToDo)
<1> SUFFICES ASSUME IInv, Next PROVE Cardinality(ToDo') < Cardinality(ToDo)
  OBVIOUS
<1>0. IInv' BY StepKeeps
<1>1. CASE Launch
  <2> DEFINE new == launched + 1
  <2>1. new \in Inputs /\ step[new] = "none"
    BY <1>1, NAssumption DEF IInv, TypeOK, Progress, Launch, Inputs
  <2>2. step' = [step EXCEPT ![new] = "block"] /\ UNCHANGED <<closed, returned>> BY <1>1 DEF Launch
  <2> HIDE DEF new
  <2> QED BY <2>1, <2>2, GoroutineDoes DEF Before, GoroutineTasks
<1>2. ASSUME NEW i \in Inputs, Block(i) PROVE Cardinality(ToDo') < Cardinality(ToDo)
  <2>1. step[i] = "block" /\ UNCHANGED <<closed, returned>> BY <1>2 DEF Block
  <2>2. PICK next \in {"send", "return"} : step' = [step EXCEPT ![i] = next] BY <1>2 DEF Block
  <2> QED BY <2>1, <2>2, GoroutineDoes DEF Before, GoroutineTasks
<1>3. ASSUME NEW i \in Inputs, Send(i) PROVE Cardinality(ToDo') < Cardinality(ToDo)
  BY <1>3, GoroutineDoes DEF Send, Before, GoroutineTasks
<1>4. ASSUME NEW i \in Inputs, Done(i) PROVE Cardinality(ToDo') < Cardinality(ToDo)
  BY <1>4, GoroutineDoes DEF Done, Before, GoroutineTasks
<1>5. CASE Close BY <1>0, <1>5, CallerDoes DEF Close
<1>6. CASE Return BY <1>0, <1>6, CallerDoes DEF Return
<1> QED BY <1>1, <1>2, <1>3, <1>4, <1>5, <1>6 DEF Next, Goroutine

\* However goroutines interleave and fail, ProcessAsync and its goroutines
\* take at most 4N + 2 steps: the loops cannot go on for ever.
THEOREM StepsAreBounded ==
  Spec => [](Cardinality(ToDo) \in 0..(4 * N + 2)) /\ [][Cardinality(ToDo') < Cardinality(ToDo)]_vars
<1>1. IInv => Cardinality(ToDo) \in 0..(4 * N + 2) BY ToDoBounded, NAssumption
<1>2. IInv /\ [Next]_vars => [Cardinality(ToDo') < Cardinality(ToDo)]_vars BY StepDoes
<1> QED BY <1>1, <1>2, InitHolds, StepKeeps, PTL DEF Spec

\* Nobody waits for ever: until ProcessAsync has returned and no goroutine is
\* left behind, the caller, a goroutine or the one that closes the channel can
\* go on.
THEOREM NeverStuckCorrect == Spec => []NeverStuck
<1>1. IInv => NeverStuck
  <2> SUFFICES ASSUME IInv, ~CallerGoesOn, ~CloserGoesOn, \A i \in Inputs : ~GoroutineGoesOn(i)
               PROVE  Over
    BY DEF NeverStuck
  <2>1. launched = N BY NAssumption DEF CallerGoesOn, IInv, TypeOK
  <2>2. \A i \in Inputs : step[i] # "none" BY <2>1, NAssumption DEF IInv, Progress, Inputs
  <2>3. ASSUME closed PROVE Over
    <3>1. returned BY <2>1, <2>3 DEF CallerGoesOn
    <3>2. Active = {} BY <2>3, InputsFinite, FS_EmptySet DEF IInv, TypeOK, Progress
    <3>3. \A i \in Inputs : step[i] = "gone" BY <2>2, <3>2 DEF Active, IInv, TypeOK
    <3> QED BY <3>1, <3>3 DEF Over
  <2>4. ASSUME ~closed PROVE FALSE
    <3>1. ~returned BY <2>4 DEF IInv, Progress
    <3>2. Cardinality(Active) # 0 BY <2>1, <2>4 DEF CloserGoesOn, IInv, TypeOK
    <3>3. PICK i \in Active : TRUE BY <3>2, FS_EmptySet
    <3> QED BY <2>1, <3>1, <3>3 DEF Active, GoroutineGoesOn
  <2> QED BY <2>3, <2>4 DEF IInv, TypeOK
<1> QED BY <1>1, InitHolds, StepKeeps, PTL DEF Spec
=============================================================================
