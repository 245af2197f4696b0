---------------------------- MODULE ReplayProofs ----------------------------
(***************************************************************************)
(* The isolation argument of replay, for any documents and any sandbox,    *)
(* and the algebra of the documents it compares.                           *)
(***************************************************************************)
EXTENDS Replay, SequenceFacts, FiniteSetTheorems, TLAPS

(* What the sandbox makes of an attempt is one of its treatments, and a    *)
(* call that has ended has no child running.                               *)
BoundaryOK == \A p \in Probes : boundary[p] \in Treatments
Reaped == stage = "done" => child \notin Running

(* An effect means the sandbox did not deny; a child that says it was      *)
(* denied although the sandbox did not has had its effect before.          *)
EffectsTell ==
    /\ \A p \in effects : boundary[p] # "denied"
    /\ stage \in Probes /\ child = "77" /\ boundary[stage] # "denied"
         => stage \in effects /\ boundary[stage] = "leaky"

(* A control that tripped was denied, and the comparison is reached only   *)
(* with all of them.                                                       *)
TrippedTell ==
    /\ \A p \in tripped : boundary[p] = "denied"
    /\ stage = "compare_documents" => tripped = Probes
    /\ outcome.kind = "completed" => tripped = Probes

(* An operation is under way only on an admissible request not yet         *)
(* answered.                                                               *)
RequestTell ==
    /\ stage \in Operations => Admissible(baseline, candidate) /\ expected = baseline
    /\ stage # "done" <=> outcome = Pending
    /\ outcome \in {Pending} \cup Answers(baseline, candidate, expected)

IInv ==
    /\ ReplayTypeOK
    /\ Reaped
    /\ BoundaryOK
    /\ EffectsTell
    /\ TrippedTell
    /\ RequestTell

-----------------------------------------------------------------------------
(* The answers differ from each other and from no answer.                  *)
LEMMA AnswersDiffer ==
    /\ Pending.kind = "pending"
    /\ \A r \in {FailedClosed, Raised} : r # Pending /\ r.kind # "completed"
    /\ \A r : /\ Completed(r).kind = "completed" /\ Completed(r).result = r
             /\ Completed(r) # Pending
BY DEF Pending, FailedClosed, Raised, Completed

(* A request may always be answered by a failure.                          *)
LEMMA MayFail == FailedClosed \in Answers(baseline, candidate, expected)
BY DEF Answers

(* Where the launcher goes from a stage.                                   *)
LEMMA Afterwards ==
    /\ After["validate"] = "network_probe"
    /\ \A p \in Probes : After[p] \in Operations
    /\ \A p \in Probes : After[p] \notin Probes => After[p] = "compare_documents"
    /\ After["symlink_output_probe"] = "compare_documents"
BY DEF After, Probes, Operations

(* Leaving with an answer the contract allows keeps the invariant, if a    *)
(* completed replay has all controls behind it.                            *)
LEMMA LeavingKeeps ==
    ASSUME IInv, stage # "done", NEW answer, Leave(answer), answer # Pending,
           answer \in Answers(baseline, candidate, expected),
           answer.kind = "completed" => tripped = Probes
    PROVE  IInv'
<1>1. ReplayTypeOK'
  BY DEF IInv, ReplayTypeOK, Leave, request, Running, ExitCodes, Operations, Probes
<1>2. Reaped'
  BY DEF Leave, Reaped, Running
<1>3. BoundaryOK' /\ EffectsTell'
  BY DEF IInv, Leave, request, BoundaryOK, EffectsTell, Probes
<1>4. TrippedTell'
  BY DEF IInv, Leave, request, TrippedTell
<1>5. RequestTell'
  BY DEF IInv, Leave, request, RequestTell, Operations, Probes
<1> QED
  BY <1>1, <1>2, <1>3, <1>4, <1>5 DEF IInv

(* So it does to fail closed, wherever that happens.                       *)
LEMMA FailureKeeps ==
    ASSUME IInv, stage # "done", FailClosed
    PROVE  IInv'
BY LeavingKeeps, AnswersDiffer, MayFail DEF FailClosed

(* And to let an exception through, on an admissible request.              *)
LEMMA EscapeKeeps ==
    ASSUME IInv, stage # "done", Escape, Admissible(baseline, candidate), expected = baseline
    PROVE  IInv'
<1>1. Raised \in Answers(baseline, candidate, expected)
  BY DEF Answers
<1> QED
  BY <1>1, LeavingKeeps, AnswersDiffer DEF Escape

(* Starting the next child keeps it, when what has tripped was denied and  *)
(* the comparison comes after all controls.                                *)
LEMMA LaunchKeeps ==
    ASSUME IInv, stage # "done", NEW results \in SUBSET Probes, Launch(results),
           After[stage] \in Operations,
           Admissible(baseline, candidate), expected = baseline,
           \A p \in results : boundary[p] = "denied",
           After[stage] = "compare_documents" => results = Probes
    PROVE  IInv'
<1>1. ReplayTypeOK'
  BY DEF IInv, ReplayTypeOK, Launch, request, Running
<1>2. Reaped' /\ BoundaryOK'
  BY DEF IInv, Launch, request, Reaped, BoundaryOK, Operations, Probes
<1>3. EffectsTell'
  BY DEF IInv, Launch, request, EffectsTell
<1>4. TrippedTell'
  BY AnswersDiffer DEF IInv, Launch, request, TrippedTell, RequestTell
<1>5. RequestTell'
  BY DEF IInv, Launch, request, RequestTell, Operations, Probes
<1> QED
  BY <1>1, <1>2, <1>3, <1>4, <1>5 DEF IInv

(* The judgement of a control: it counts only if the sandbox denied.       *)
LEMMA JudgedFairly ==
    ASSUME IInv, stage \in Probes, NEW seen \in Noticed, Tripped(stage, seen)
    PROVE  boundary[stage] = "denied"
BY DEF IInv, EffectsTell, Noticed, Tripped

(* The steps of the launcher.                                              *)
LEMMA LauncherKeeps ==
    ASSUME IInv, LauncherStep \/ LauncherFails
    PROVE  IInv'
<1>1. CASE Validate
  <2>1. CASE Admissible(baseline, candidate) /\ expected = baseline
    <3>1. stage # "done" /\ (Launch({}) \/ Escape)
      BY <1>1, <2>1 DEF Validate
    <3>2. CASE Launch({})
      BY <1>1, <2>1, <3>2, LaunchKeeps, Afterwards DEF Validate, Operations, Probes
    <3>3. CASE Escape
      BY <2>1, <3>1, <3>3, EscapeKeeps
    <3> QED
      BY <3>1, <3>2, <3>3
  <2>2. CASE ~(Admissible(baseline, candidate) /\ expected = baseline)
    BY <1>1, <2>2, FailureKeeps DEF Validate
  <2> QED
    BY <2>1, <2>2
<1>2. CASE LauncherFails
  BY <1>2, FailureKeeps DEF LauncherFails
<1>3. CASE Timeout
  BY <1>3, FailureKeeps DEF Timeout, Operations, Probes
<1>4. CASE Judge
  <2>1. stage \in Probes /\ stage # "done" /\ stage \in Operations
    BY <1>4 DEF Judge, Probes, Operations
  <2>2. PICK seen \in Noticed :
          LET results == IF Tripped(stage, seen) THEN tripped \cup {stage} ELSE tripped
          IN IF After[stage] \in Probes \/ results = Probes
               THEN Launch(results) ELSE FailClosed
    BY <1>4 DEF Judge
  <2> DEFINE results == IF Tripped(stage, seen) THEN tripped \cup {stage} ELSE tripped
  <2>3. results \in SUBSET Probes
    BY <2>1 DEF IInv, ReplayTypeOK
  <2>4. \A p \in results : boundary[p] = "denied"
    BY <2>1, JudgedFairly DEF IInv, TrippedTell
  <2>5. CASE After[stage] \in Probes \/ results = Probes
    <3>1. Launch(results)
      BY <2>2, <2>5
    <3>2. After[stage] \in Operations /\ (After[stage] = "compare_documents" => results = Probes)
      BY <2>1, <2>5, Afterwards DEF Probes
    <3>3. Admissible(baseline, candidate) /\ expected = baseline
      BY <2>1 DEF IInv, RequestTell
    <3> HIDE DEF results
    <3> QED
      BY <2>1, <2>3, <2>4, <3>1, <3>2, <3>3, LaunchKeeps
  <2>6. CASE ~(After[stage] \in Probes \/ results = Probes)
    BY <2>1, <2>2, <2>6, FailureKeeps
  <2> QED
    BY <2>5, <2>6
<1>5. CASE Collect
  <2>1. stage = "compare_documents" /\ stage # "done" /\ stage \in Operations
    BY <1>5 DEF Collect, Operations
  <2>2. CASE child = "0" /\ Accepted(output)
    <3>1. Leave(Completed(Compare(baseline, candidate, baseline)))
      BY <1>5, <2>2 DEF Collect, Accepted
    <3>2. /\ Completed(Compare(baseline, candidate, baseline))
               \in Answers(baseline, candidate, expected)
          /\ tripped = Probes
      BY <2>1 DEF IInv, RequestTell, TrippedTell, Answers
    <3> QED
      BY <2>1, <3>1, <3>2, LeavingKeeps, AnswersDiffer
  <2>3. CASE ~(child = "0" /\ Accepted(output))
    <3>1. FailClosed \/ Escape
      BY <1>5, <2>3 DEF Collect
    <3>2. Admissible(baseline, candidate) /\ expected = baseline
      BY <2>1 DEF IInv, RequestTell
    <3> QED
      BY <2>1, <3>1, <3>2, FailureKeeps, EscapeKeeps
  <2> QED
    BY <2>2, <2>3
<1> QED
  BY <1>1, <1>2, <1>3, <1>4, <1>5 DEF LauncherStep

(* The steps of the child: none but an attempt has an effect, and none     *)
(* ends the child with 77 but a denial, an attempt that left a file, or,   *)
(* in the comparison, a denied output file.                                *)
LEMMA ChildKeeps ==
    ASSUME IInv, ChildStep
    PROVE  IInv'
<1>1. /\ UNCHANGED <<request, stage, tripped, outcome>>
      /\ child \in Running /\ child' \in Running \cup ExitCodes
  BY DEF ChildStep, ChildCrashes, Attempt, AttemptFails, Confess, OpenResult, OpenFails,
         WriteResult, WriteFails, Exit, Running, ExitCodes
<1>2. stage # "done"
  BY <1>1 DEF IInv, Reaped
<1>3. \/ effects' = effects
      \/ stage \in Probes /\ boundary[stage] # "denied" /\ effects' = effects \cup {stage}
  BY DEF ChildStep, ChildCrashes, Attempt, AttemptFails, Confess, OpenResult, OpenFails,
         WriteResult, WriteFails, Exit
<1>4. stage \in Probes /\ child' = "77" /\ boundary[stage] # "denied"
        => stage \in effects' /\ boundary[stage] = "leaky"
  <2>1. SUFFICES ASSUME stage \in Probes, child' = "77", boundary[stage] # "denied"
                 PROVE  stage \in effects' /\ boundary[stage] = "leaky"
    OBVIOUS
  <2>2. Attempt
    BY <2>1 DEF ChildStep, ChildCrashes, AttemptFails, Confess, OpenResult, OpenFails,
                WriteResult, WriteFails, Exit, Probes
  <2>3. boundary[stage] = "leaky" /\ effects' = effects \cup {stage}
    BY <2>1, <2>2 DEF Attempt
  <2> QED
    BY <2>1, <2>3
<1>5. ReplayTypeOK'
  BY <1>1, <1>3 DEF IInv, ReplayTypeOK, request
<1>6. Reaped' /\ BoundaryOK' /\ TrippedTell' /\ RequestTell'
  BY <1>1, <1>2 DEF IInv, Reaped, BoundaryOK, TrippedTell, RequestTell, request
<1>7. EffectsTell'
  BY <1>1, <1>3, <1>4 DEF IInv, EffectsTell, request
<1> QED
  BY <1>5, <1>6, <1>7 DEF IInv

(* Every step keeps the invariant.                                         *)
LEMMA StepKeeps ==
    ASSUME IInv, [Next]_vars
    PROVE  IInv'
<1>1. CASE UNCHANGED vars
  BY <1>1 DEF vars, request, IInv, ReplayTypeOK, Reaped, BoundaryOK, EffectsTell,
              TrippedTell, RequestTell
<1> QED
  BY <1>1, LauncherKeeps, ChildKeeps DEF Next

(* The inductive invariant holds of every behaviour.                       *)
THEOREM Invariance == Spec => []IInv
<1>1. Init => IInv
  BY AnswersDiffer DEF Init, IInv, ReplayTypeOK, Reaped, BoundaryOK, EffectsTell,
                 TrippedTell, RequestTell, Operations, Probes, Running, ExitCodes
<1> QED
  BY <1>1, StepKeeps, PTL DEF Spec

(* Types.                                                                  *)
THEOREM ReplayTypes == Spec => []ReplayTypeOK
<1>1. IInv => ReplayTypeOK
  BY DEF IInv
<1> QED
  BY <1>1, Invariance, PTL

(* No document reaches a child before all three boundaries held, whatever  *)
(* the sandbox does and however the probes end.                            *)
THEOREM IsolationFirst == Spec => []ControlsBeforeComparison
<1>1. IInv => ControlsBeforeComparison
  BY DEF IInv, ReplayTypeOK, EffectsTell, TrippedTell, ControlsBeforeComparison
<1> QED
  BY <1>1, Invariance, PTL

-----------------------------------------------------------------------------
(* A step of replay is one answer of the contract, or shows nothing.       *)
LEMMA StepAnswers ==
    ASSUME IInv, [Next]_vars
    PROVE  [Contract!Answer]_(Contract!ContractVars)
<1>1. CASE stage # "done" /\ \E answer : Leave(answer)
  <2>1. outcome = Pending /\ outcome' # Pending /\ UNCHANGED <<baseline, candidate, expected>>
    BY <1>1, StepKeeps DEF IInv, RequestTell, Leave, request
  <2>2. outcome' \in Answers(baseline, candidate, expected)
    BY <2>1, StepKeeps DEF IInv, RequestTell
  <2> QED
    BY <2>1, <2>2 DEF Contract!Answer
<1>2. CASE \E results : Launch(results)
  BY <1>2 DEF Launch, request, Contract!ContractVars
<1>3. CASE ChildStep
  BY <1>3 DEF ChildStep, ChildCrashes, Attempt, AttemptFails, Confess, OpenResult, OpenFails,
              WriteResult, WriteFails, Exit, request, Contract!ContractVars
<1>4. CASE UNCHANGED vars
  BY <1>4 DEF vars, request, Contract!ContractVars
<1>5. CASE LauncherStep \/ LauncherFails
  <2>1. CASE Validate \/ LauncherFails \/ Timeout \/ Collect
    <3>1. stage # "done"
      BY <2>1 DEF Validate, LauncherFails, Timeout, Collect, Operations, Probes
    <3>2. (\E answer : Leave(answer)) \/ \E results : Launch(results)
      BY <2>1 DEF Validate, LauncherFails, Timeout, Collect, FailClosed, Escape
    <3> QED
      BY <1>1, <1>2, <3>1, <3>2
  <2>2. CASE Judge
    <3>1. stage # "done" /\ (FailClosed \/ \E results : Launch(results))
      BY <2>2 DEF Judge, Probes
    <3> QED
      BY <1>1, <1>2, <3>1 DEF FailClosed
  <2> QED
    BY <1>5, <2>1, <2>2 DEF LauncherStep
<1> QED
  BY <1>3, <1>4, <1>5 DEF Next

(* The caller gets the exact comparison of an admissible request, or a     *)
(* failure, and the answer never changes: the safety half of               *)
(* ImplementsReplayContract.                                               *)
THEOREM AnswersExactly ==
    Spec => Contract!Request /\ [][Contract!Answer]_(Contract!ContractVars)
<1>1. Init => Contract!Request
  BY DEF Init, Contract!Request
<1>2. IInv /\ [Next]_vars => [Contract!Answer]_(Contract!ContractVars)
  BY StepAnswers
<1> QED
  BY <1>1, <1>2, Invariance, PTL DEF Spec

-----------------------------------------------------------------------------
(***************************************************************************)
(* The documents: sorting, one quarantine more, and its comparison.        *)
(***************************************************************************)
Increasing(s) == \A i, j \in 1..Len(s) : i < j => s[i] < s[j]

(* As many places as an enumeration without repetition visits.             *)
LEMMA Enumerated ==
    ASSUME NEW m \in Nat, NEW g, NEW T,
           \A j \in 1..m : g[j] \in T,
           \A t \in T : \E j \in 1..m : g[j] = t,
           \A i, j \in 1..m : g[i] = g[j] => i = j
    PROVE  Cardinality(T) = m
<1> DEFINE f == [j \in 1..m |-> g[j]]
<1>1. f \in Bijection(1..m, T)
  BY DEF Bijection, Injection, Surjection, IsInjective
<1> HIDE DEF f
<1>2. ExistsBijection(1..m, T)
  BY <1>1 DEF ExistsBijection
<1> QED
  BY <1>2, FS_CountingElements

(* Each place of 1..n once.                                                *)
Permutes(place, n) ==
    /\ \A k \in 1..n : place[k] \in 1..n
    /\ \A i, j \in 1..n : place[i] = place[j] => i = j
    /\ \A i \in 1..n : \E k \in 1..n : place[k] = i

(* An increasing rearrangement of a list is what sorting it gives.         *)
LEMMA SortedIs ==
    ASSUME NEW s \in Seq(Nat), NEW w \in Seq(Nat), Len(w) = Len(s), Increasing(w),
           NEW place, Permutes(place, Len(s)), \A k \in 1..Len(s) : w[k] = s[place[k]]
    PROVE  Sorted(s) = w
<1> DEFINE n == Len(s)
           Below(e) == {i \in DOMAIN s : s[i] < e}
           UpTo(e) == {i \in DOMAIN s : s[i] <= e}
           Kth(e, k) == Cardinality(Below(e)) < k /\ Cardinality(UpTo(e)) >= k
           v == [k \in 1..n |-> CHOOSE e \in ToSet(s) : Kth(e, k)]
<1>1. /\ n \in Nat /\ DOMAIN s = 1..n
      /\ w = [k \in 1..n |-> w[k]]
      /\ \A i \in 1..n : s[i] \in Nat /\ w[i] \in Nat
  BY LenProperties, ElementOfSeq
<1>2. Sorted(s) = v
  BY DEF Sorted
<1>3. Permutes(place, n) /\ \A k \in 1..n : w[k] = s[place[k]]
  OBVIOUS
<1>4. \A k, j \in 1..n : j < k => w[j] < w[k]
  BY DEF Increasing
<1> HIDE DEF n, v
<1>5. \A i \in 1..n : \E k \in 1..n : place[k] = i /\ s[i] = w[k]
  <2> TAKE i \in 1..n
  <2>1. PICK k \in 1..n : place[k] = i
    BY ONLY <1>3, i \in 1..n DEF Permutes
  <2> QED
    BY <1>3, <2>1
<1>6. \A k \in 1..n : place[k] \in 1..n
  BY ONLY <1>3 DEF Permutes
<1>7. \A k, j \in 1..n : (w[j] < w[k] <=> j < k) /\ (w[j] <= w[k] <=> j <= k)
  <2> TAKE k, j \in 1..n
  <2>1. j \in Nat /\ k \in Nat /\ w[j] \in Nat /\ w[k] \in Nat
    BY <1>1
  <2>2. (j < k => w[j] < w[k]) /\ (k < j => w[k] < w[j])
    BY ONLY <1>4, j \in 1..n, k \in 1..n
  <2>3. j < k \/ j = k \/ k < j
    BY <2>1
  <2> QED
    BY ONLY <2>1, <2>2, <2>3
<1>8. ASSUME NEW k \in 1..n
      PROVE  Cardinality(Below(w[k])) = k - 1 /\ Cardinality(UpTo(w[k])) = k
  <2> DEFINE below == Below(w[k])
             upTo == UpTo(w[k])
             before == k - 1
  <2>1. k \in Nat /\ k - 1 \in Nat /\ 1..k \subseteq 1..n /\ 1..(k - 1) \subseteq 1..n
        /\ \A j \in 1..n : (j \in 1..k <=> j <= k) /\ (j \in 1..(k - 1) <=> j < k)
    BY ONLY <1>1, k \in 1..n
  <2>2. /\ \A i, j \in 1..k : place[i] = place[j] => i = j
        /\ \A i, j \in 1..(k - 1) : place[i] = place[j] => i = j
    BY ONLY <1>3, <2>1 DEF Permutes
  <2>3. /\ \A j \in 1..(k - 1) : place[j] \in below
        /\ \A j \in 1..k : place[j] \in upTo
    BY ONLY <1>1, <1>3, <1>6, <1>7, <2>1, k \in 1..n
  <2>4. /\ \A i \in below : \E j \in 1..(k - 1) : place[j] = i
        /\ \A i \in upTo : \E j \in 1..k : place[j] = i
    BY ONLY <1>1, <1>5, <1>7, <2>1, k \in 1..n
  <2> HIDE DEF below, upTo, before, Below, UpTo
  <2>5. /\ before \in Nat
        /\ \A j \in 1..before : place[j] \in below
        /\ \A i \in below : \E j \in 1..before : place[j] = i
        /\ \A i, j \in 1..before : place[i] = place[j] => i = j
    BY ONLY <2>1, <2>2, <2>3, <2>4 DEF before
  <2>6. Cardinality(below) = before
    BY ONLY <2>5, Enumerated
  <2>7. /\ \A j \in 1..k : place[j] \in upTo
        /\ \A i \in upTo : \E j \in 1..k : place[j] = i
        /\ \A i, j \in 1..k : place[i] = place[j] => i = j
    BY ONLY <2>2, <2>3, <2>4
  <2>8. Cardinality(upTo) = k
    <3>1. k \in Nat
      BY <2>1
    <3> QED
      BY ONLY <3>1, <2>7, Enumerated
  <2> QED
    BY <2>6, <2>8 DEF below, upTo, before
<1>9. \A k, m \in 1..n : Kth(w[m], k) <=> m = k
  <2> TAKE k, m \in 1..n
  <2> DEFINE b == Cardinality(Below(w[m]))
             u == Cardinality(UpTo(w[m]))
  <2>1. b = m - 1 /\ u = m
    BY <1>8
  <2>2. Kth(w[m], k) <=> b < k /\ u >= k
    OBVIOUS
  <2> HIDE DEF b, u, Kth
  <2> QED
    BY ONLY <1>1, <2>1, <2>2, k \in 1..n, m \in 1..n
<1>10. \A k \in 1..n : w[k] \in ToSet(s)
  BY ONLY <1>1, <1>3, <1>6 DEF ToSet
<1>11. \A e \in ToSet(s) : \E m \in 1..n : e = w[m]
  BY ONLY <1>1, <1>5 DEF ToSet
<1> HIDE DEF Kth
<1>12. \A k \in 1..n : (CHOOSE e \in ToSet(s) : Kth(e, k)) = w[k]
  <2> TAKE k \in 1..n
  <2>1. Kth(w[k], k) /\ w[k] \in ToSet(s)
    BY <1>9, <1>10
  <2>2. ASSUME NEW e \in ToSet(s), Kth(e, k) PROVE e = w[k]
    <3>1. PICK m \in 1..n : e = w[m]
      BY <1>11
    <3>2. Kth(w[m], k)
      BY <2>2, <3>1
    <3> QED
      BY <1>9, <3>1, <3>2
  <2>3. \A e \in ToSet(s) : Kth(e, k) => e = w[k]
    BY <2>2
  <2> QED
    BY ONLY <2>1, <2>3
<1>13. v = [k \in 1..n |-> w[k]]
  BY ONLY <1>12 DEF v
<1> QED
  BY <1>1, <1>2, <1>13

(* An increasing list has as many elements as entries.                     *)
LEMMA IncreasingCount ==
    ASSUME NEW s \in Seq(Nat), Increasing(s)
    PROVE  IsFiniteSet(ToSet(s)) /\ Cardinality(ToSet(s)) = Len(s)
<1>1. Len(s) \in Nat /\ DOMAIN s = 1..Len(s) /\ \A i \in 1..Len(s) : s[i] \in Nat
  BY LenProperties, ElementOfSeq
<1>2. \A i, j \in 1..Len(s) : s[i] = s[j] => i = j
  <2> SUFFICES ASSUME NEW i \in 1..Len(s), NEW j \in 1..Len(s), s[i] = s[j], i # j
               PROVE  FALSE
    OBVIOUS
  <2>1. i < j \/ j < i
    BY <1>1
  <2>2. s[i] < s[j] \/ s[j] < s[i]
    BY <2>1 DEF Increasing
  <2> QED
    BY <1>1, <2>2
<1> DEFINE T == ToSet(s)
<1>3. s \in Bijection(1..Len(s), T)
  BY <1>1, <1>2 DEF ToSet, Bijection, Injection, Surjection, IsInjective
<1> HIDE DEF T
<1>4. ExistsBijection(1..Len(s), T)
  BY <1>3 DEF ExistsBijection
<1> QED
  BY <1>1, <1>4, FS_CountingElements, FS_NatBijection DEF T

(* Where a version that is not in an increasing list goes.                 *)
LEMMA PlaceOf ==
    ASSUME NEW q \in Seq(Nat), Increasing(q), NEW key \in Nat, key \notin ToSet(q)
    PROVE  \E p \in 1..(Len(q) + 1) :
              \A i \in 1..Len(q) : (i < p => q[i] < key) /\ (p <= i => key < q[i])
<1> DEFINE n == Len(q)
           T == {i \in 1..(n + 1) : i = n + 1 \/ key < q[i]}
<1>1. n \in Nat /\ DOMAIN q = 1..n /\ \A i \in 1..n : q[i] \in Nat /\ q[i] # key
  BY LenProperties, ElementOfSeq DEF ToSet
<1>2. T \in SUBSET Nat /\ T # {}
  BY <1>1
<1>3. PICK p \in T : \A i \in T : p <= i
  <2> HIDE DEF T
  <2> QED
    BY <1>2, Least
<1>4. p \in 1..(n + 1) /\ (p \in 1..n => key < q[p])
  BY <1>1, <1>3
<1>5. ASSUME NEW i \in 1..n, i < p PROVE q[i] < key
  <2>1. i \notin T
    BY <1>1, <1>3, <1>4, <1>5
  <2> QED
    BY <1>1, <2>1
<1>6. ASSUME NEW i \in 1..n, p <= i PROVE key < q[i]
  <2>1. p \in 1..n /\ key < q[p] /\ (p = i \/ p < i)
    BY <1>1, <1>4, <1>6
  <2>2. p < i => q[p] < q[i]
    BY <2>1 DEF Increasing
  <2> QED
    BY <1>1, <2>1, <2>2
<1> QED
  BY <1>4, <1>5, <1>6

(* Quarantining one version more: the list with it, sorted, is the list    *)
(* with it put in its place, and taking it out gives the list back.        *)
LEMMA QuarantineOne ==
    ASSUME NEW q \in Seq(Nat), Increasing(q), NEW key \in Nat, key \notin ToSet(q)
    PROVE  LET w == Sorted(Append(q, key))
           IN /\ w \in Seq(Nat) /\ Len(w) = Len(q) + 1 /\ Increasing(w)
              /\ ToSet(w) = ToSet(q) \cup {key}
              /\ Count(w, key) = 1
              /\ RemoveFirst(w, key) = q
<1> DEFINE n == Len(q)
           s == Append(q, key)
<1>1. /\ n \in Nat /\ DOMAIN q = 1..n /\ q = [i \in 1..n |-> q[i]]
      /\ \A i \in 1..n : q[i] \in Nat /\ q[i] # key
  BY LenProperties, ElementOfSeq DEF ToSet
<1>2. /\ s \in Seq(Nat) /\ Len(s) = n + 1 /\ s[n + 1] = key
      /\ \A i \in 1..n : s[i] = q[i]
  BY AppendProperties
<1>3. PICK p \in 1..(n + 1) :
         \A i \in 1..n : (i < p => q[i] < key) /\ (p <= i => key < q[i])
  BY PlaceOf
<1> DEFINE w == InsertAt(q, p, key)
           place == [k \in 1..(n + 1) |-> IF k < p THEN k ELSE IF k = p THEN n + 1 ELSE k - 1]
<1>4. /\ w \in Seq(Nat) /\ Len(w) = Len(q) + 1
      /\ \A k \in 1..(Len(q) + 1) :
           w[k] = IF k < p THEN q[k] ELSE IF k = p THEN key ELSE q[k - 1]
  <2>1. p \in 1..(Len(q) + 1) /\ q \in Seq(Nat) /\ key \in Nat
    OBVIOUS
  <2> QED
    BY ONLY <2>1, InsertAtFacts
<1>5. \A k \in 1..(n + 1) : place[k] = IF k < p THEN k ELSE IF k = p THEN n + 1 ELSE k - 1
  OBVIOUS
<1>6. Len(w) = n + 1 /\ \A k \in 1..(n + 1) :
        /\ k < p => k \in 1..n /\ w[k] = q[k] /\ place[k] = k
        /\ k = p => w[k] = key /\ place[k] = n + 1
        /\ p < k => k - 1 \in 1..n /\ w[k] = q[k - 1] /\ place[k] = k - 1
  <2>1. \A k \in 1..(n + 1) :
          w[k] = IF k < p THEN q[k] ELSE IF k = p THEN key ELSE q[k - 1]
    BY <1>4
  <2>2. \A k \in 1..(n + 1) : /\ k < p => k \in 1..n
                              /\ p < k => k - 1 \in 1..n /\ ~(k < p) /\ k # p
    BY <1>1, <1>3
  <2>3. Len(w) = n + 1
    BY <1>4
  <2> HIDE DEF n, w, place
  <2> QED
    BY ONLY <1>5, <2>1, <2>2, <2>3
<1> HIDE DEF n, s, w, place
<1>7. \A i \in 1..n : /\ i < p => i \in 1..(n + 1) /\ w[i] = q[i] /\ place[i] = i
                      /\ p <= i => /\ i + 1 \in 1..(n + 1) /\ p < i + 1
                                   /\ w[i + 1] = q[i] /\ place[i + 1] = i
  <2> TAKE i \in 1..n
  <2>1. n \in Nat /\ p \in Nat /\ i \in Nat
    BY <1>1, <1>3
  <2>2. i < p => i \in 1..(n + 1)
    BY <2>1
  <2>3. p <= i => i + 1 \in 1..(n + 1) /\ p < i + 1 /\ (i + 1) - 1 = i
    BY <2>1
  <2> QED
    BY ONLY <1>6, <2>2, <2>3
<1>8. Permutes(place, n + 1) /\ \A k \in 1..(n + 1) : w[k] = s[place[k]]
  <2>1. \A k \in 1..(n + 1) : k < p \/ k = p \/ p < k
    BY <1>1, <1>3
  <2>2. \A k \in 1..(n + 1) : place[k] \in 1..(n + 1) /\ w[k] = s[place[k]]
    <3> TAKE k \in 1..(n + 1)
    <3>1. n + 1 \in 1..(n + 1) /\ \A i \in 1..n : i \in 1..(n + 1) /\ s[i] = q[i]
      BY <1>1, <1>2
    <3>2. CASE k < p
      BY ONLY <1>6, <3>1, <3>2, k \in 1..(n + 1)
    <3>3. CASE k = p
      BY ONLY <1>2, <1>6, <3>1, <3>3, k \in 1..(n + 1)
    <3>4. CASE p < k
      BY ONLY <1>6, <3>1, <3>4, k \in 1..(n + 1)
    <3> QED
      BY <2>1, <3>2, <3>3, <3>4
  <2>3. \A i, j \in 1..(n + 1) : place[i] = place[j] => i = j
    <3> TAKE i, j \in 1..(n + 1)
    <3>1. /\ place[i] = IF i < p THEN i ELSE IF i = p THEN n + 1 ELSE i - 1
          /\ place[j] = IF j < p THEN j ELSE IF j = p THEN n + 1 ELSE j - 1
      BY <1>5
    <3>2. i \in Nat /\ j \in Nat /\ p \in Nat /\ i <= n + 1 /\ j <= n + 1 /\ p <= n + 1
      BY <1>1, <1>3
    <3> QED
      BY ONLY <1>1, <3>1, <3>2
  <2>4. \A i \in 1..(n + 1) : \E k \in 1..(n + 1) : place[k] = i
    <3> TAKE i \in 1..(n + 1)
    <3>1. i = n + 1 \/ (i \in 1..n /\ (i < p \/ p <= i))
      BY <1>1, <1>3
    <3> QED
      BY ONLY <1>3, <1>6, <1>7, <3>1
  <2> QED
    BY ONLY <2>2, <2>3, <2>4 DEF Permutes
<1>9. Increasing(w)
  <2>1. ASSUME NEW i \in 1..(n + 1), NEW j \in 1..(n + 1), i < j PROVE w[i] < w[j]
    <3>1. \A a, b \in 1..n : a < b => q[a] < q[b]
      BY DEF Increasing, n
    <3>2. /\ i \in Nat /\ j \in Nat /\ p \in Nat /\ key \in Nat
          /\ i < p \/ i = p \/ p < i
          /\ j < p \/ j = p \/ p < j
      BY <1>1, <1>3
    <3>3. CASE j < p
      BY ONLY <1>6, <2>1, <3>1, <3>2, <3>3
    <3>4. CASE j = p
      BY ONLY <1>3, <1>6, <2>1, <3>2, <3>4
    <3>5. CASE p < j /\ i = p
      <4>1. j - 1 \in 1..n /\ p <= j - 1
        BY ONLY <1>6, <2>1, <3>2, <3>5
      <4> QED
        BY ONLY <1>3, <1>6, <2>1, <3>5, <4>1
    <3>6. CASE p < j /\ i < p
      <4>1. /\ j - 1 \in 1..n /\ p <= j - 1 /\ i \in 1..n
            /\ w[i] = q[i] /\ w[j] = q[j - 1]
        BY ONLY <1>6, <2>1, <3>2, <3>6
      <4>2. q[i] < key /\ key < q[j - 1] /\ q[i] \in Nat /\ q[j - 1] \in Nat
        BY ONLY <1>1, <1>3, <3>6, <4>1
      <4> QED
        BY ONLY <3>2, <4>1, <4>2
    <3>7. CASE p < i
      <4>1. /\ i - 1 \in 1..n /\ j - 1 \in 1..n /\ i - 1 < j - 1
            /\ w[i] = q[i - 1] /\ w[j] = q[j - 1]
        <5>1. p < j /\ i - 1 < j - 1
          BY ONLY <2>1, <3>2, <3>7
        <5> QED
          BY ONLY <1>6, <2>1, <3>7, <5>1
      <4> QED
        BY ONLY <3>1, <4>1
    <3> QED
      BY ONLY <2>1, <3>2, <3>3, <3>4, <3>5, <3>6, <3>7
  <2> QED
    BY ONLY <1>6, <2>1 DEF Increasing
<1>10. Sorted(s) = w
  <2>1. /\ Len(w) = Len(s) /\ Permutes(place, Len(s))
        /\ \A k \in 1..Len(s) : w[k] = s[place[k]]
    BY ONLY <1>2, <1>6, <1>8
  <2> QED
    BY ONLY <1>2, <1>4, <1>9, <2>1, SortedIs
<1>11. DOMAIN w = 1..(n + 1)
  BY <1>4, <1>6, LenProperties
<1>12. \A k \in 1..(n + 1) : k < p \/ k = p \/ p < k
  BY <1>1, <1>3
<1>13. ToSet(w) = ToSet(q) \cup {key}
  <2>1. \A k \in 1..(n + 1) : w[k] = key \/ \E i \in 1..n : w[k] = q[i]
    BY ONLY <1>6, <1>12
  <2>2. \A i \in 1..n : \E k \in 1..(n + 1) : w[k] = q[i]
    <3>1. \A i \in 1..n : i < p \/ p <= i
      BY <1>1, <1>3
    <3> QED
      BY ONLY <1>7, <3>1
  <2>3. w[p] = key /\ p \in 1..(n + 1)
    BY <1>3, <1>6
  <2>4. \A e : e \in ToSet(w) <=> \E k \in 1..(n + 1) : w[k] = e
    BY ONLY <1>11 DEF ToSet
  <2>5. \A e : e \in ToSet(q) <=> \E i \in 1..n : q[i] = e
    BY ONLY <1>1 DEF ToSet
  <2> QED
    BY ONLY <2>1, <2>2, <2>3, <2>4, <2>5
<1>14. {i \in 1..(n + 1) : w[i] = key} = {p}
  <2>1. \A k \in 1..(n + 1) : w[k] = key <=> k = p
    <3> TAKE k \in 1..(n + 1)
    <3>1. \A i \in 1..n : q[i] # key
      BY ONLY <1>1
    <3>2. k < p => w[k] # key
      BY ONLY <1>6, <3>1, k \in 1..(n + 1)
    <3>3. p < k => w[k] # key
      BY ONLY <1>6, <3>1, k \in 1..(n + 1)
    <3>4. k < p => k # p
      BY <1>1, <1>3
    <3> QED
      BY <1>6, <1>12, <3>2, <3>3, <3>4
  <2> QED
    BY ONLY <1>3, <2>1
<1>15. Count(w, key) = 1
  BY <1>11, <1>14, FS_Singleton DEF Count
<1>16. RemoveFirst(w, key) = q
  <2> DEFINE r == RemoveAt(w, p)
  <2>1. RemoveFirst(w, key) = RemoveAt(w, Min({p}))
    <3>1. \E i \in 1..Len(w) : w[i] = key
      BY <1>3, <1>6
    <3>2. {i \in 1..Len(w) : w[i] = key} = {p}
      BY <1>6, <1>14
    <3> QED
      BY ONLY <3>1, <3>2 DEF RemoveFirst, SelectInSeq
  <2>2. Min({p}) = p
    BY <1>1, <1>3 DEF Min
  <2>3. r \in Seq(Nat) /\ Len(r) = n /\ \A k \in 1..n : r[k] = IF k < p THEN w[k] ELSE w[k + 1]
    <3>1. p \in 1..Len(w) /\ Len(w) - 1 = n
      BY <1>1, <1>3, <1>6
    <3>2. /\ r \in Seq(Nat) /\ Len(r) = Len(w) - 1
          /\ \A k \in 1..(Len(w) - 1) : r[k] = IF k < p THEN w[k] ELSE w[k + 1]
      BY ONLY <1>4, <3>1, RemoveAtFacts
    <3> HIDE DEF r
    <3> QED
      BY ONLY <3>1, <3>2
  <2> HIDE DEF r
  <2>4. \A k \in 1..n : r[k] = q[k]
    <3> TAKE k \in 1..n
    <3>1. k < p \/ (p <= k /\ ~(k < p))
      BY <1>1, <1>3
    <3> QED
      BY ONLY <1>7, <2>3, <3>1, k \in 1..n
  <2>5. r = [k \in 1..n |-> r[k]]
    BY <2>3, LenProperties
  <2> QED
    BY <1>1, <2>1, <2>2, <2>4, <2>5 DEF r
<1>17. Sorted(Append(q, key)) = w
  BY <1>10 DEF s
<1> QED
  BY <1>4, <1>9, <1>13, <1>15, <1>16, <1>17

(* A set with nothing or one version in it, as a list.                     *)
LEMMA OrderedSmall ==
    ASSUME NEW key \in Nat
    PROVE  Ordered({}) = <<>> /\ Ordered({key}) = <<key>>
<1>1. SetToSeq({}) = <<>>
  <2>1. Cardinality({}) = 0 /\ 1..0 = {}
    BY FS_EmptySet
  <2>2. <<>> \in [1..0 -> {}] /\ IsInjective(<<>>) /\ \A f \in [1..0 -> {}] : f = <<>>
    BY DEF IsInjective
  <2> QED
    BY <2>1, <2>2 DEF SetToSeq
<1>2. SetToSeq({key}) = <<key>>
  <2>1. Cardinality({key}) = 1
    BY FS_Singleton
  <2>2. \A f \in [1..1 -> {key}] : f = <<key>>
    OBVIOUS
  <2>3. <<key>> \in [1..1 -> {key}] /\ IsInjective(<<key>>)
    BY DEF IsInjective
  <2> QED
    BY <2>1, <2>2, <2>3 DEF SetToSeq
<1>3. Sorted(<<>>) = <<>>
  BY DEF Sorted
<1>4. Sorted(<<key>>) = <<key>>
  <2> DEFINE w == <<key>>
  <2>1. w \in Seq(Nat) /\ Len(w) = 1 /\ w[1] = key
    OBVIOUS
  <2> HIDE DEF w
  <2>2. Increasing(w)
    BY <2>1 DEF Increasing
  <2>3. Permutes([k \in 1..1 |-> 1], Len(w))
    BY <2>1 DEF Permutes
  <2>4. \A k \in 1..Len(w) : w[k] = w[[i \in 1..1 |-> 1][k]]
    BY <2>1
  <2> QED
    BY <2>1, <2>2, <2>3, <2>4, SortedIs DEF w
<1> QED
  BY <1>1, <1>2, <1>3, <1>4 DEF Ordered

(* A patch on any document of any size is sound.                           *)
LEMMA PatchesSound ==
    ASSUME NEW doc \in Document, NEW key \in Keys
    PROVE  PatchSound(doc, key)
<1> DEFINE patch == BuildPatch(doc, key)
           patched == ApplyPatch(doc, patch)
           items == doc.items
           q == doc.quarantine
           w == Sorted(Append(q, key))
<1> SUFFICES ASSUME ValidDocument(doc), Applicable(doc, patch)
             PROVE  /\ Admissible(doc, patched)
                    /\ Compare(doc, patched, patch.base).added = <<key>>
                    /\ Compare(doc, patched, patch.base).removed = <<>>
                    /\ Reversible(patched, patch)
                    /\ ReversePatch(patched, patch) = doc
  BY DEF PatchSound
<1>1. /\ doc = [items |-> items, quarantine |-> q]
      /\ items \in Seq(Nat) /\ q \in Seq(Nat) /\ key \in Nat
      /\ patch.base = doc /\ patch.target = key
  <2>1. doc \in [items : Seq(Keys), quarantine : Seq(Keys)]
    BY DEF Document
  <2>2. doc = [items |-> items, quarantine |-> q] /\ items \in Seq(Keys) /\ q \in Seq(Keys)
    BY ONLY <2>1
  <2> HIDE DEF items, q
  <2>3. items \in Seq(Nat) /\ q \in Seq(Nat) /\ key \in Nat
    BY <2>2, KeysAssumption, SeqOfMore
  <2> QED
    BY <2>2, <2>3 DEF BuildPatch
<1>2. /\ Len(items) <= MaxEntries /\ Len(items) \in Nat /\ Len(q) \in Nat
      /\ Increasing(items) /\ Increasing(q)
      /\ ToSet(q) \subseteq ToSet(items)
  BY <1>1, LenProperties DEF ValidDocument, IsSorted, Increasing
<1>3. key \notin ToSet(q) /\ key \in ToSet(items)
  <2>1. key \notin ToSet(q)
    BY <1>1, LenProperties DEF Applicable, Contains, ToSet
  <2>2. {i \in DOMAIN items : items[i] = key} # {}
    <3>1. Cardinality({i \in DOMAIN items : items[i] = key}) = 1
      BY <1>1 DEF Applicable, Count
    <3> QED
      BY <3>1, FS_EmptySet
  <2> QED
    BY <2>1, <2>2 DEF ToSet
<1>4. /\ w \in Seq(Nat) /\ Len(w) = Len(q) + 1 /\ Increasing(w)
      /\ ToSet(w) = ToSet(q) \cup {key}
      /\ Count(w, key) = 1 /\ RemoveFirst(w, key) = q
  BY <1>1, <1>2, <1>3, QuarantineOne
<1>5. patched = [items |-> items, quarantine |-> w]
  BY <1>1 DEF ApplyPatch
<1>6. Len(w) <= MaxEntries
  <2>1. /\ IsFiniteSet(ToSet(items)) /\ Cardinality(ToSet(items)) = Len(items)
        /\ Cardinality(ToSet(w)) = Len(w)
    BY <1>1, <1>2, <1>4, IncreasingCount
  <2>2. ToSet(w) \in SUBSET ToSet(items)
    BY <1>2, <1>3, <1>4
  <2>3. Cardinality(ToSet(w)) <= Cardinality(ToSet(items))
    BY <2>1, <2>2, FS_Subset
  <2> QED
    BY <1>1, <1>2, <1>4, <2>1, <2>3, EntriesAssumption
<1> HIDE DEF w, q, items, patched, patch
<1>7. patched.items = doc.items /\ patched.quarantine = w /\ doc.quarantine = q
      /\ doc.items = items
  BY <1>5 DEF q, items
<1>8. ToSet(w) \ ToSet(q) = {key} /\ ToSet(q) \ ToSet(w) = {}
  BY <1>3, <1>4
<1>9. Admissible(doc, patched)
  <2>1. ValidDocument(patched)
    BY <1>2, <1>3, <1>4, <1>6, <1>7 DEF ValidDocument, IsSorted, Increasing
  <2>2. Cardinality(ToSet(w) \ ToSet(q)) <= 1
    BY <1>8, FS_Singleton
  <2> QED
    BY <1>4, <1>7, <2>1, <2>2 DEF Admissible
<1>10. /\ Compare(doc, patched, patch.base).added = <<key>>
       /\ Compare(doc, patched, patch.base).removed = <<>>
  BY <1>1, <1>7, <1>8, OrderedSmall DEF Compare
<1>11. Reversible(patched, patch)
  BY <1>1, <1>4, <1>7 DEF Reversible
<1>12. ReversePatch(patched, patch) = doc
  BY <1>1, <1>4, <1>5 DEF ReversePatch
<1> QED
  BY <1>9, <1>10, <1>11, <1>12

(* A patch on whatever baseline is asked about gives documents the replay  *)
(* admits, shows as exactly its target, and comes off again entry for      *)
(* entry, for lists of any length.                                         *)
THEOREM PatchesReplay == Spec => []PatchReplays
<1>1. IInv => PatchReplays
  BY InputsAssumption, PatchesSound DEF IInv, ReplayTypeOK, PatchReplays
<1> QED
  BY <1>1, Invariance, PTL

(* Two increasing lists of the same numbers are one.                       *)
LEMMA IncreasingSame ==
    ASSUME NEW c \in Seq(Nat), NEW w \in Seq(Nat), Increasing(c), Increasing(w),
           ToSet(c) = ToSet(w)
    PROVE  c = w
<1> DEFINE n == Len(c)
           place == [k \in 1..n |-> CHOOSE i \in 1..n : c[i] = w[k]]
<1>1. /\ n \in Nat /\ Len(w) = n /\ DOMAIN c = 1..n /\ DOMAIN w = 1..n
      /\ \A k \in 1..n : c[k] \in Nat /\ w[k] \in Nat
  <2>1. Cardinality(ToSet(c)) = Len(c) /\ Cardinality(ToSet(w)) = Len(w)
    BY IncreasingCount
  <2> QED
    BY <2>1, LenProperties, ElementOfSeq
<1>2. /\ \A k \in 1..n : \E i \in 1..n : c[i] = w[k]
      /\ \A i \in 1..n : \E k \in 1..n : w[k] = c[i]
  BY ONLY <1>1, ToSet(c) = ToSet(w) DEF ToSet
<1>3. \A k \in 1..n : place[k] \in 1..n /\ c[place[k]] = w[k]
  BY <1>2
<1>4. /\ \A i, j \in 1..n : c[i] = c[j] => i = j
      /\ \A i, j \in 1..n : w[i] = w[j] => i = j
  BY <1>1 DEF Increasing
<1> HIDE DEF place
<1>5. Permutes(place, n)
  <2>1. \A i, j \in 1..n : place[i] = place[j] => i = j
    BY ONLY <1>3, <1>4
  <2>2. \A i \in 1..n : \E k \in 1..n : place[k] = i
    <3> TAKE i \in 1..n
    <3>1. PICK k \in 1..n : w[k] = c[i]
      BY <1>2
    <3>2. place[k] \in 1..n /\ c[place[k]] = c[i]
      BY <1>3, <3>1
    <3> QED
      BY <1>4, <3>2
  <2> QED
    BY <1>3, <2>1, <2>2 DEF Permutes
<1>6. Sorted(c) = w
  BY <1>1, <1>3, <1>5, SortedIs
<1>7. Sorted(c) = c
  <2>1. Permutes([k \in 1..n |-> k], n)
    BY <1>1 DEF Permutes
  <2>2. \A k \in 1..n : c[k] = c[[i \in 1..n |-> i][k]]
    OBVIOUS
  <2> QED
    BY <2>1, <2>2, SortedIs
<1> QED
  BY <1>6, <1>7

(* A comparison meets the criteria for a version exactly when the          *)
(* candidate is what the patch of that version makes of the baseline.      *)
LEMMA CriteriaTell ==
    ASSUME NEW doc \in Document, NEW after \in Document, NEW key \in Keys,
           Admissible(doc, after)
    PROVE  MeetsCriteria(Compare(doc, after, doc), key) <=>
             /\ Applicable(doc, BuildPatch(doc, key))
             /\ after = ApplyPatch(doc, BuildPatch(doc, key))
<1> DEFINE patch == BuildPatch(doc, key)
           result == Compare(doc, after, doc)
           items == doc.items
           q == doc.quarantine
           c == after.quarantine
<1>1. /\ doc = [items |-> items, quarantine |-> q]
      /\ after = [items |-> items, quarantine |-> c]
      /\ items \in Seq(Nat) /\ q \in Seq(Nat) /\ c \in Seq(Nat) /\ key \in Nat
      /\ patch.base = doc /\ patch.target = key
  <2>1. /\ doc \in [items : Seq(Keys), quarantine : Seq(Keys)]
        /\ after \in [items : Seq(Keys), quarantine : Seq(Keys)]
        /\ after.items = items
    BY DEF Document, Admissible
  <2>2. /\ doc = [items |-> items, quarantine |-> q] /\ items \in Seq(Keys) /\ q \in Seq(Keys)
        /\ after = [items |-> items, quarantine |-> c] /\ c \in Seq(Keys)
    BY ONLY <2>1
  <2> HIDE DEF items, q, c
  <2>3. items \in Seq(Nat) /\ q \in Seq(Nat) /\ c \in Seq(Nat) /\ key \in Nat
    BY <2>2, KeysAssumption, SeqOfMore
  <2> QED
    BY <2>2, <2>3 DEF BuildPatch
<1>2. /\ Increasing(items) /\ Increasing(q) /\ Increasing(c)
      /\ ToSet(q) \subseteq ToSet(items) /\ ToSet(c) \subseteq ToSet(items)
      /\ ToSet(q) \subseteq ToSet(c) /\ Cardinality(ToSet(c) \ ToSet(q)) <= 1
  BY <1>1, LenProperties DEF Admissible, ValidDocument, IsSorted, Increasing
<1>3. /\ result.baseline = doc /\ result.candidate = after /\ result.bound
      /\ result.equal = (doc = after)
      /\ result.added = Ordered(ToSet(c) \ ToSet(q))
      /\ result.removed = Ordered(ToSet(q) \ ToSet(c))
  BY DEF Compare
<1>4. ASSUME Applicable(doc, patch), after = ApplyPatch(doc, patch)
      PROVE  MeetsCriteria(result, key)
  <2>1. result.added = <<key>> /\ result.removed = <<>>
    <3>1. /\ Compare(doc, ApplyPatch(doc, patch), patch.base).added = <<key>>
          /\ Compare(doc, ApplyPatch(doc, patch), patch.base).removed = <<>>
      BY <1>4, PatchesSound DEF PatchSound, Admissible
    <3>2. Compare(doc, ApplyPatch(doc, patch), patch.base) = result
      BY <1>1, <1>4
    <3> QED
      BY <3>1, <3>2
  <2>2. doc # after
    <3>1. doc = after => ToSet(c) \ ToSet(q) = {}
      OBVIOUS
    <3>2. Ordered({}) = <<>> /\ <<key>> # <<>>
      BY <1>1, OrderedSmall
    <3> HIDE DEF result, c, q
    <3> QED
      BY <1>3, <2>1, <3>1, <3>2
  <2> QED
    BY <1>3, <2>1, <2>2 DEF MeetsCriteria
<1>5. ASSUME MeetsCriteria(result, key)
      PROVE  Applicable(doc, patch) /\ after = ApplyPatch(doc, patch)
  <2>1. Ordered(ToSet(c) \ ToSet(q)) = <<key>>
    BY <1>3, <1>5 DEF MeetsCriteria
  <2>2. ToSet(c) \ ToSet(q) = {key}
    <3> DEFINE new == ToSet(c) \ ToSet(q)
    <3>1. /\ IsFiniteSet(ToSet(c)) /\ new \in SUBSET ToSet(c) /\ new \in SUBSET Nat
          /\ Cardinality(new) <= 1
      <4>1. IsFiniteSet(ToSet(c))
        BY <1>1, <1>2, IncreasingCount
      <4>2. ToSet(c) \subseteq Nat
        <5> HIDE DEF c
        <5> QED
          BY <1>1, LenProperties, ElementOfSeq DEF ToSet
      <4> QED
        BY <1>2, <4>1, <4>2
    <3> HIDE DEF new
    <3>2. IsFiniteSet(new) /\ Cardinality(new) \in Nat
      BY <3>1, FS_Subset, FS_CardinalityType
    <3>3. new # {}
      <4>1. Ordered({}) = <<>> /\ <<key>> # <<>>
        BY <1>1, OrderedSmall
      <4> QED
        BY <2>1, <4>1 DEF new
    <3>4. Cardinality(new) = 1
      BY <3>1, <3>2, <3>3, FS_EmptySet
    <3>5. PICK e : new = {e}
      BY <3>4, <3>2, FS_Singleton
    <3>6. e \in Nat
      BY <3>1, <3>5
    <3>7. <<e>> = <<key>>
      BY <2>1, <3>5, <3>6, OrderedSmall DEF new
    <3> QED
      BY <3>5, <3>7 DEF new
  <2>3. key \notin ToSet(q) /\ key \in ToSet(items) /\ ToSet(c) = ToSet(q) \cup {key}
    BY <1>2, <2>2
  <2> HIDE DEF items, q, c, patch, result
  <2>4. Applicable(doc, patch)
    <3>1. Count(items, key) = 1
      <4>1. PICK i \in DOMAIN items : items[i] = key
        BY <2>3 DEF ToSet
      <4>2. {j \in DOMAIN items : items[j] = key} = {i}
        <5>1. /\ DOMAIN items = 1..Len(items) /\ Len(items) \in Nat
              /\ \A j \in 1..Len(items) : items[j] \in Nat
          BY <1>1, LenProperties, ElementOfSeq
        <5>2. \A j \in 1..Len(items) : items[j] = items[i] => j = i
          BY <1>2, <4>1, <5>1 DEF Increasing
        <5> QED
          BY <4>1, <5>1, <5>2
      <4> QED
        BY <4>2, FS_Singleton DEF Count
    <3>2. ~Contains(q, key)
      BY <1>1, <2>3, LenProperties DEF Contains, ToSet
    <3> QED
      BY <1>1, <3>1, <3>2 DEF Applicable, items, q
  <2>5. c = Sorted(Append(q, key))
    <3> DEFINE w == Sorted(Append(q, key))
    <3>1. w \in Seq(Nat) /\ Increasing(w) /\ ToSet(w) = ToSet(q) \cup {key}
      BY <1>1, <1>2, <2>3, QuarantineOne
    <3> HIDE DEF w
    <3>2. c = w
      BY <1>1, <1>2, <2>3, <3>1, IncreasingSame
    <3> QED
      BY <3>2 DEF w
  <2>6. ApplyPatch(doc, patch) = [items |-> items, quarantine |-> Sorted(Append(q, key))]
    BY <1>1 DEF ApplyPatch
  <2> QED
    BY <1>1, <2>4, <2>5, <2>6
<1> QED
  BY <1>4, <1>5

(* What a completed replay shows of the quarantine alone determines the    *)
(* candidate: one patch of the baseline, and the one under review, in any  *)
(* sandbox and for documents of any length.                                *)
THEOREM CriteriaArePatches == Spec => []CriteriaMeanPatched
<1>1. IInv => CriteriaMeanPatched
  <2> SUFFICES ASSUME IInv, outcome.kind = "completed", NEW key \in Keys
               PROVE  MeetsCriteria(outcome.result, key) <=>
                        /\ Applicable(baseline, BuildPatch(baseline, key))
                        /\ candidate = ApplyPatch(baseline, BuildPatch(baseline, key))
    BY DEF CriteriaMeanPatched
  <2>1. /\ Admissible(baseline, candidate)
        /\ outcome.result = Compare(baseline, candidate, baseline)
    BY AnswersDiffer DEF IInv, RequestTell, Answers
  <2>2. baseline \in Document /\ candidate \in Document
    BY InputsAssumption DEF IInv, ReplayTypeOK
  <2> QED
    BY <2>1, <2>2, CriteriaTell
<1> QED
  BY <1>1, Invariance, PTL

-----------------------------------------------------------------------------
(* Why a call returns, as far as steps tell.  What is left of a call: its  *)
(* stages, each worth more than what a child can still do in one.          *)
StagesLeft ==
    [validate |-> 5, network_probe |-> 4, parent_write_probe |-> 3,
     symlink_output_probe |-> 2, compare_documents |-> 1, done |-> 0]
ChildLeft ==
    CASE child = "starting" -> 2
      [] child \in {"past", "writing"} -> 1
      [] OTHER -> 0
Left == 3 * StagesLeft[stage] + ChildLeft

(* The launcher's guards: a request to check, a child whose time may run   *)
(* out, a child's ending to judge or to collect.                           *)
LauncherReady ==
    \/ stage = "validate"
    \/ stage \in Operations /\ child \in Running
    \/ stage \in Probes /\ child \in ExitCodes
    \/ stage = "compare_documents" /\ child \in ExitCodes

(* What is left is a number, and each stage has one less than that before. *)
LEMMA LeftIs ==
    ASSUME ReplayTypeOK
    PROVE  /\ StagesLeft[stage] \in 0..5 /\ ChildLeft \in 0..2
           /\ stage # "done" => StagesLeft[stage] >= 1
           /\ stage = "validate" \/ stage \in Probes
                => StagesLeft[After[stage]] = StagesLeft[stage] - 1
           /\ stage = "done" /\ Reaped => Left = 0
<1>1. CASE stage = "validate"
  BY <1>1 DEF ReplayTypeOK, StagesLeft, ChildLeft, After, Probes, Running
<1>2. CASE stage \in Probes
  BY <1>2 DEF StagesLeft, ChildLeft, After, Probes
<1>3. CASE stage = "compare_documents"
  BY <1>3 DEF StagesLeft, ChildLeft, Probes
<1>4. CASE stage = "done"
  BY <1>4 DEF StagesLeft, ChildLeft, Left, Probes, Reaped, Running
<1> QED
  BY <1>1, <1>2, <1>3, <1>4 DEF ReplayTypeOK, Operations

(* Leaving leaves nothing to do.                                           *)
LEMMA LeavingEnds ==
    ASSUME IInv, stage # "done", NEW answer, Leave(answer)
    PROVE  Left' < Left
<1>1. Left' = 0
  BY DEF Leave, Left, StagesLeft, ChildLeft, Running
<1>2. Left >= 3
  BY LeftIs DEF IInv, Left
<1> QED
  BY <1>1, <1>2, LeftIs DEF IInv, Left

(* The next operation's child has less to do than a stage is worth.        *)
LEMMA LaunchUses ==
    ASSUME IInv, stage = "validate" \/ stage \in Probes, NEW results, Launch(results)
    PROVE  Left' < Left
<1>1. StagesLeft[stage'] = StagesLeft[stage] - 1 /\ ChildLeft' = 2
  BY LeftIs DEF IInv, Launch, ChildLeft
<1>2. Left' = 3 * (StagesLeft[stage] - 1) + 2
  BY <1>1 DEF Left
<1> QED
  BY <1>2, LeftIs DEF IInv, Left

(* Each step uses up some of what is left of the call.                     *)
LEMMA StepsUseUp ==
    ASSUME IInv, Next
    PROVE  Left' < Left
<1>1. CASE Validate
  BY <1>1, LaunchUses, LeavingEnds DEF Validate, FailClosed, Escape
<1>2. CASE LauncherFails
  BY <1>2, LeavingEnds DEF LauncherFails, FailClosed
<1>3. CASE Timeout
  BY <1>3, LeavingEnds DEF Timeout, Operations, Probes, FailClosed
<1>4. CASE Judge
  <2>1. stage \in Probes /\ stage # "done"
    BY <1>4 DEF Judge, Probes
  <2>2. FailClosed \/ \E results : Launch(results)
    BY <1>4 DEF Judge
  <2> QED
    BY <2>1, <2>2, LeavingEnds, LaunchUses DEF FailClosed
<1>5. CASE Collect
  BY <1>5, LeavingEnds DEF Collect, FailClosed, Escape
<1>6. CASE ChildStep
  <2>1. stage' = stage /\ ChildLeft' < ChildLeft
    BY <1>6 DEF ChildStep, ChildCrashes, Attempt, AttemptFails, Confess, OpenResult,
                OpenFails, WriteResult, WriteFails, Exit, ChildLeft, Running
  <2>2. ChildLeft' \in 0..2
    BY DEF ChildLeft
  <2> QED
    BY <2>1, <2>2, LeftIs DEF IInv, Left
<1> QED
  BY <1>1, <1>2, <1>3, <1>4, <1>5, <1>6 DEF Next, LauncherStep

(* A call takes at most seventeen steps, whatever the sandbox denies and     *)
(* however its children end, and as long as it has not answered the        *)
(* launcher has a step to take: the part of ReplayReturns that is no       *)
(* matter of fairness (replay.py:142-226).                                 *)
THEOREM CallsAreBounded ==
    Spec => /\ [](Left \in 0..17)
            /\ [][Left' < Left]_vars
            /\ [](outcome = Pending => LauncherReady)
<1>1. IInv => Left \in 0..17
  BY LeftIs DEF IInv, Left
<1>2. IInv /\ [Next]_vars => [Left' < Left]_vars
  BY StepsUseUp
<1>3. IInv => (outcome = Pending => LauncherReady)
  BY DEF IInv, RequestTell, ReplayTypeOK, LauncherReady, Operations
<1> QED
  BY <1>1, <1>2, <1>3, Invariance, PTL DEF Spec
=============================================================================
