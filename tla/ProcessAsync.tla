---------------------------- MODULE ProcessAsync ----------------------------
(***************************************************************************)
(* ProcessAsync of pkg/workflowsupport: runs a function on every input in  *)
(* a goroutine of its own and collects the results over an unbuffered      *)
(* channel that is closed once all goroutines are done. An input for which *)
(* the function fails has no result.                                       *)
(***************************************************************************)
EXTENDS Integers, Sequences, FiniteSets, SequencesExt

CONSTANT N  \* the number of inputs
ASSUME NAssumption == N \in Nat

Inputs == 1..N

VARIABLES
  succeeds,  \* the inputs for which the function block will succeed
  launched,  \* the loop has started goroutines 1..launched
  step,      \* step[i]: "none" | "block" | "send" | "return" | "gone"
  wg,        \* the wait group's counter
  closed,    \* resultChannel is closed
  results,   \* the results, as the inputs they belong to
  returned   \* ProcessAsync has returned

vars == <<succeeds, launched, step, wg, closed, results, returned>>

Init ==
  /\ succeeds \in SUBSET Inputs
  /\ launched = 0
  /\ step = [i \in Inputs |-> "none"]
  /\ wg = 0
  /\ closed = FALSE
  /\ results = << >>
  /\ returned = FALSE

\* Mutant: wg.Add is left to the goroutine and comes too late.
Launch_NoAdd ==
  /\ launched < N
  /\ launched' = launched + 1
  /\ step' = [step EXCEPT ![launched + 1] = "block"]
  /\ UNCHANGED <<succeeds, wg, closed, results, returned>>

Launch ==
  /\ launched < N
  /\ launched' = launched + 1
  /\ wg' = wg + 1
  /\ step' = [step EXCEPT ![launched + 1] = "block"]
  /\ UNCHANGED <<succeeds, closed, results, returned>>

\* Mutant: a goroutine that fails does not tell the wait group.
Block_NoDone(i) ==
  /\ step[i] = "block"
  /\ step' = [step EXCEPT ![i] = IF i \in succeeds THEN "send" ELSE "gone"]
  /\ UNCHANGED <<succeeds, launched, wg, closed, results, returned>>

\* block returns.
Block(i) ==
  /\ step[i] = "block"
  /\ step' = [step EXCEPT ![i] = IF i \in succeeds THEN "send" ELSE "return"]
  /\ UNCHANGED <<succeeds, launched, wg, closed, results, returned>>

\* A goroutine hands its result to the loop that collects them, which starts
\* when all goroutines are launched.
Send(i) ==
  /\ step[i] = "send" /\ launched = N /\ ~returned
  /\ results' = Append(results, i)
  /\ step' = [step EXCEPT ![i] = "return"]
  /\ UNCHANGED <<succeeds, launched, wg, closed, returned>>

\* The deferred wg.Done.
Done(i) ==
  /\ step[i] = "return"
  /\ wg' = wg - 1
  /\ step' = [step EXCEPT ![i] = "gone"]
  /\ UNCHANGED <<succeeds, launched, closed, results, returned>>

\* The goroutine that waits for the others.
Close ==
  /\ launched = N /\ wg = 0 /\ ~closed
  /\ closed' = TRUE
  /\ UNCHANGED <<succeeds, launched, step, wg, results, returned>>

Return ==
  /\ launched = N /\ closed /\ ~returned
  /\ returned' = TRUE
  /\ UNCHANGED <<succeeds, launched, step, wg, closed, results>>

Goroutine(i) == Block(i) \/ Send(i) \/ Done(i)

Next == Launch \/ Close \/ Return \/ \E i \in Inputs : Goroutine(i)

Spec == Init /\ [][Next]_vars

FairSpec ==
  /\ Spec /\ WF_vars(Launch) /\ WF_vars(Close) /\ WF_vars(Return)
  /\ \A i \in Inputs : WF_vars(Goroutine(i))
----------------------------------------------------------------------------
Active == {i \in Inputs : step[i] \in {"block", "send", "return"}}

\* The type invariant; the wait group counts the goroutines that are not gone.
TypeOK ==
  /\ succeeds \subseteq Inputs
  /\ launched \in 0..N
  /\ step \in [Inputs -> {"none", "block", "send", "return", "gone"}]
  /\ wg = Cardinality(Active)
  /\ closed \in BOOLEAN /\ returned \in BOOLEAN
  /\ results \in Seq(Inputs)

\* ProcessAsync returns, whichever inputs fail, with one result for each input
\* that succeeded: none is lost or sent to the closed channel.
ResultsAreSuccesses ==
  /\ returned => IsInjective(results) /\ ToSet(results) = succeeds
  /\ closed => \A i \in Inputs : step[i] # "send"

Returns == <>returned
=============================================================================
