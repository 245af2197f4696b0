----------------------- MODULE CorpusDispositionProofs -----------------------
(***************************************************************************)
(* The corpus check works out of the findings what the command worked out  *)
(* of the ledger; on evidence that resolves they agree, for every trace.   *)
(***************************************************************************)
EXTENDS CorpusDisposition, DiagnosisProofs

Blocked == NotRun("target_already_quarantined_after_violation")
ReplayRan == "bounded_declarative_document_comparison"

(* Why there is no patch, or that the replay of one was tried.             *)
Settled ==
    stage \notin Proposing =>
        \/ /\ patch # NoPatch
           /\ stage \in {"replay", "aborted"} \/ replay.mechanism \in {ReplayRan, "not_run"}
        \/ /\ patch = NoPatch
           /\ TaintFinding.result # "hypothesis" /\ replay = NoMemoryHypothesis
        \/ /\ patch = NoPatch
           /\ TaintFinding.result = "hypothesis" /\ replay = Incomplete
        \/ /\ patch = NoPatch
           /\ TaintFinding.result = "hypothesis" /\ replay = Blocked
           /\ \E i \in DOMAIN trace : /\ Matches(trace, TaintFinding.evidence[1]) = {i}
                                      /\ trace[i].key \in Manifest.quarantine

(* What the proposal step settles, for each way it may go.                 *)
LEMMA ProposeSettles ==
    ASSUME ProposalInv, Propose
    PROVE  Settled'
<1>1. /\ stage = "propose" /\ stage' \in {"gate", "replay"} /\ findings # <<>>
      /\ UNCHANGED <<trace, findings, records>> /\ replay = NoMemoryHypothesis
      /\ patch = NoPatch /\ RunInv
  BY DEF Propose, ProposalInv, Patched, Replayed, Proposing, RunInv, Staged, analysisVars,
         ledgerVars
<1>2. TaintFinding' = TaintFinding /\ Manifest' = Manifest
  BY <1>1 DEF TaintFinding, Manifest
<1>3. CASE TaintFinding.result # "hypothesis"
  BY <1>1, <1>2, <1>3 DEF Propose, Settled
<1>4. CASE TaintFinding.result = "hypothesis" /\ ~MemoryEvidenceResolves(TaintFinding)
  BY <1>1, <1>2, <1>4 DEF Propose, Settled, Incomplete
<1>5. CASE TaintFinding.result = "hypothesis" /\ MemoryEvidenceResolves(TaintFinding)
  <2> DEFINE ref == TaintFinding.evidence[1]
  <2>1. TaintResolves /\ 1 \in DOMAIN TaintFinding.evidence
    BY <1>1, <1>5, EvidenceTells DEF RunInv, Judged
  <2>2. PICK i \in DOMAIN trace : Matches(trace, ref) = {i}
    BY <2>1 DEF TaintResolves, Resolves
  <2>3. SourceOf(ref) = trace[i]
    BY <1>1, <2>2, LooksSame
  <2>4. CASE patch' # NoPatch
    <3>1. stage' = "replay"
      BY <2>4, ProposalJustified
    <3> QED
      BY <2>4, <3>1 DEF Settled
  <2>5. CASE patch' = NoPatch
    <3>1. /\ AlreadyQuarantined(SourceOf(ref).key)
          /\ replay' = Blocked /\ patch' = NoPatch
      BY <1>1, <1>5, <2>5 DEF Propose, Blocked, NoPatch
    <3>2. trace[i].key \in Manifest.quarantine
      BY <2>3, <3>1 DEF AlreadyQuarantined
    <3> QED
      BY <1>1, <1>2, <1>5, <2>2, <3>1, <3>2 DEF Settled
  <2> QED
    BY <2>4, <2>5
<1> QED
  BY <1>3, <1>4, <1>5

(* What is settled stays so.                                               *)
LEMMA SettledNext ==
    ASSUME ProposalInv, Settled, [Next]_vars
    PROVE  Settled'
<1>1. CASE Ingest \/ Analyse \/ AppendHypothesis \/ BindBase
  BY <1>1 DEF Ingest, Analyse, AppendHypothesis, BindBase, Settled, Proposing
<1>2. CASE Propose
  BY <1>2, ProposeSettles
<1>3. CASE ReplayCompletes \/ ReplayFails
  <2>1. stage = "replay" /\ patch' = patch /\ patch # NoPatch
    BY <1>3 DEF ReplayCompletes, ReplayFails, ProposalInv, Patched
  <2>2. replay'.mechanism \in {ReplayRan, "not_run"}
    BY <1>3 DEF ReplayCompletes, ReplayFails, Comparison, ReplayRan
  <2> QED
    BY <2>1, <2>2 DEF Settled
<1>4. CASE ReplayRaises
  <2>1. /\ stage = "replay" /\ stage' = "aborted"
        /\ patch' = patch /\ patch # NoPatch
    BY <1>4 DEF ReplayRaises, ProposalInv, Patched
  <2> QED
    BY <2>1 DEF Settled
<1>5. CASE AppendPatch \/ AppendReplay \/ AppendGate \/ Diagnose \/ UNCHANGED vars
  <2>1. /\ UNCHANGED <<trace, findings, patch, replay>>
        /\ \/ /\ stage \notin Proposing \cup {"replay", "aborted"}
              /\ stage' \notin {"replay", "aborted"}
           \/ UNCHANGED stage
    BY <1>5 DEF AppendPatch, AppendReplay, AppendGate, Diagnose, vars, analysisVars, Proposing
  <2>2. TaintFinding' = TaintFinding /\ Manifest' = Manifest
    BY <2>1 DEF TaintFinding, Manifest
  <2> QED
    BY <2>1, <2>2 DEF Settled
<1> QED
  BY <1>1, <1>2, <1>3, <1>4, <1>5 DEF Next

(* At the beginning nothing is.                                            *)
LEMMA SettledStart == DiagnosisInit => Settled
BY DEF DiagnosisInit, Settled, Proposing

(* A reference that resolves is borne by one memory operation at most.     *)
LEMMA FirstIsOnly ==
    ASSUME NEW ref, NEW i \in DOMAIN trace, Matches(trace, ref) = {i},
           trace[i].type = "memory_op", ScanType
    PROVE  FirstMemoryOp(ref) = trace[i]
<1> DEFINE bearers == {j \in DOMAIN trace : trace[j].type = "memory_op" /\ trace[j].id = ref}
<1>1. bearers = {i} /\ i \in Nat
  BY DEF Matches, ScanType
<1>2. FirstMemoryOp(ref) = trace[CHOOSE j \in bearers : \A k \in bearers : j <= k]
  BY DEF FirstMemoryOp
<1> HIDE DEF bearers
<1>3. (CHOOSE j \in bearers : \A k \in bearers : j <= k) = i
  BY <1>1
<1> QED
  BY <1>2, <1>3

(* The dispositions expected are those a settled run reaches.              *)
LEMMA Agreement == ProposalInv /\ Settled => CorpusAgrees
<1> SUFFICES ASSUME ProposalInv, Settled, stage = "done", ~ReplayFailed,
                    MemoryEvidenceResolves(TaintFinding)
             PROVE  /\ Expected.patch = Reached.patch
                    /\ Expected.replay = "not_run" <=> Reached.replay = "not_run"
  BY DEF CorpusAgrees
<1> DEFINE ref == TaintFinding.evidence[1]
<1>1. RunInv /\ findings # <<>> /\ stage \notin Proposing \cup {"replay"} /\ ScanInv
  BY DEF ProposalInv, RunInv, Staged, Proposing, Kept
<1>2. TaintResolves
  BY <1>1, EvidenceTells DEF ProposalInv, RunInv, Proposing
<1>3. CASE TaintFinding.result # "hypothesis"
  <2>1. patch = NoPatch /\ replay = NoMemoryHypothesis
    BY <1>1, <1>3 DEF Settled, ProposalInv, Patched, PatchJustified
  <2>2. replay # NotRun("target_already_quarantined_after_violation")
        /\ replay.mechanism = "not_run"
    BY <2>1 DEF NoMemoryHypothesis, NotRun
  <2> QED
    BY <1>3, <2>1, <2>2 DEF Expected, Reached
<1>4. CASE TaintFinding.result = "hypothesis"
  <2>1. reused # <<>> /\ ref = reused[1] /\ 1 \in DOMAIN TaintFinding.evidence
    BY <1>1, <1>4 DEF RunInv, Judged
  <2>2. PICK i \in DOMAIN trace : /\ ReusedAt(i) /\ ref = trace[i].id
                                  /\ \A j \in 1..(i - 1) : ~ReusedAt(j)
    BY <1>1, <2>1 DEF ScanInv, EarliestFirst, ReusedAt, MemoryAt
  <2>3. Matches(trace, ref) = {i}
    BY <1>2, <2>1, <2>2 DEF TaintResolves, Resolves, Matches
  <2>4. FirstMemoryOp(ref) = trace[i]
    BY <1>1, <2>2, <2>3, FirstIsOnly DEF ReusedAt, MemoryAt, ScanInv
  <2>5. Expected = IF trace[i].key \in Manifest.quarantine
                     THEN [patch |-> "blocked_already_quarantined", replay |-> "not_run"]
                     ELSE [patch |-> "emitted", replay |-> "bounded_comparison_completed"]
    BY <1>4, <2>4 DEF Expected
  <2>6. CASE patch # NoPatch
    <3>1. PICK m \in DOMAIN trace : /\ ReusedAt(m) /\ trace[m].key = patch.target
                                    /\ \A j \in 1..(m - 1) : ~ReusedAt(j)
      BY <2>6 DEF ProposalInv, Patched, PatchJustified
    <3>2. m = i
      BY <1>1, <2>2, <3>1 DEF ScanInv, ScanType
    <3>3. trace[i].key \notin Manifest.quarantine
      <4>1. \A j \in DOMAIN trace : Quarantines(j) => trace[j].key # trace[i].key
        BY <2>6, <3>1, <3>2 DEF ProposalInv, Patched, PatchJustified
      <4>2. Manifest.quarantine =
              {trace[j].key : j \in {j \in {j \in DOMAIN trace : trace[j].type = "memory_op"} :
                                       trace[j].action = "quarantine"}}
        BY DEF Manifest
      <4> QED
        BY <4>1, <4>2 DEF Quarantines, MemoryAt
    <3>4. replay.mechanism # "not_run"
      BY <2>6 DEF ReplayFailed
    <3> QED
      BY <2>5, <2>6, <3>3, <3>4 DEF Reached
  <2>7. CASE patch = NoPatch
    <3>1. /\ replay = Blocked
          /\ \E j \in DOMAIN trace : Matches(trace, ref) = {j} /\ trace[j].key \in Manifest.quarantine
      BY <1>1, <1>2, <1>4, <2>7 DEF Settled, ProposalInv, Replayed
    <3>2. trace[i].key \in Manifest.quarantine
      BY <2>3, <3>1
    <3>3. replay.mechanism = "not_run"
      BY <3>1 DEF Blocked, NotRun
    <3> QED
      BY <2>5, <2>7, <3>1, <3>2, <3>3 DEF Reached, Blocked
  <2> QED
    BY <2>6, <2>7
<1> QED
  BY <1>3, <1>4

(* The corpus check demands of a fixture with unambiguous evidence what    *)
(* the command does with it, for every trace.                              *)
THEOREM ExpectsWhatHappens == Spec => []CorpusAgrees
<1>1. ProposalInv /\ Settled /\ [Next]_vars => Settled'
  BY SettledNext
<1> QED
  BY <1>1, SettledStart, ProposalInvariant, Agreement, PTL DEF Spec
=============================================================================
