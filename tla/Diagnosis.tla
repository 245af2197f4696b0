------------------------------ MODULE Diagnosis ------------------------------
(***************************************************************************)
(* cli.run_fixture up to the rendered packet: ingest the trace, evaluate   *)
(* the invariants (module Analysis), append the hypotheses to the ledger,  *)
(* propose one quarantine, replay it, append what was derived and the      *)
(* operator's attestation, and build the diagnostic, which resolves the    *)
(* evidence a second time, over the longer ledger.                         *)
(*                                                                         *)
(* A digest is the value it is a digest of, and the digest of a record or  *)
(* of the ledger so far is its position or length: the ledger only grows.  *)
(***************************************************************************)
EXTENDS Analysis

CONSTANT Outcomes     \* what --attest may be: go, narrow, stop, abstain

VARIABLES
    stage,            \* the part of run_fixture under way
    records,          \* the ledger
    prev,             \* the local variable prev: 0 is GENESIS, n the n-th record's digest
    base,             \* proposal_base_digest
    patch,            \* the patch that was built, or none
    replay,           \* replay_result
    diagnostic        \* what build_diagnostic returns

ledgerVars == <<records, prev>>
vars == <<analysisVars, stage, records, prev, base, patch, replay, diagnostic>>

NoPatch == [target |-> "none"]
NoDiagnostic == [recommendation |-> "none"]
NotRun(why) == [mechanism |-> "not_run", reason |-> why]

DiagnosisInit ==
    /\ AnalysisInit
    /\ stage = "ingest"
    /\ records = <<>>
    /\ prev = 0
    /\ base = 0
    /\ patch = NoPatch
    /\ replay = NotRun("no_memory_quarantine_hypothesis")
    /\ diagnostic = NoDiagnostic

-----------------------------------------------------------------------------
(* make_envelope, as far as the ledger is concerned.                       *)
Envelope(type, seq, class, body, before) ==
    [type |-> type, sequence |-> seq, class |-> class, body |-> body, prev |-> before]

StrictestOf(rs) == Strictest({rs[i].class : i \in DOMAIN rs}, "unknown")

(* Mutant: what a run record without classification carries. *)
InheritedDefault == "internal"

(* The hypotheses, and everything derived after them, carry the strictest  *)
(* classification of the run and source records.                           *)
Inherited == StrictestOf(SubSeq(records, 1, Len(trace) + 1))

(* Mutant: the record is appended, prev keeps pointing before it. *)
AppendStalePrev(type, body) ==
    /\ records' = Append(records, Envelope(type, Len(records), Inherited, body, prev))
    /\ UNCHANGED prev

AppendDerived(type, body) ==
    /\ records' = Append(records, Envelope(type, Len(records), Inherited, body, prev))
    /\ prev' = Len(records) + 1

(* The run record and one envelope per source record.                      *)
Ingest ==
    /\ stage = "ingest"
    /\ LET sourceClass == Strictest({trace[i].class : i \in DOMAIN trace}, "internal")
           run == Envelope("run", 0, sourceClass, <<>>, 0)
       IN records' = <<run>> \o [i \in DOMAIN trace |->
                       Envelope(trace[i].type, i, trace[i].class, trace[i], i)]
    /\ prev' = Len(trace) + 1
    /\ stage' = "evaluate"
    /\ UNCHANGED <<analysisVars, base, patch, replay, diagnostic>>

Analyse ==
    /\ stage = "evaluate"
    /\ AnalysisNext
    /\ stage' = IF findings' = <<>> THEN "evaluate" ELSE "hypotheses"
    /\ UNCHANGED <<ledgerVars, base, patch, replay, diagnostic>>

(* One hypothesis envelope per finding, abstentions included; the base of  *)
(* the proposals is the digest of the ledger when the last one is in.      *)
Hypothesised == Len(records) - (Len(trace) + 1)

(* Mutant: a record that is not in the ledger yet is counted. *)
LedgerAndNext == Len(records) + 1

LedgerSoFar == Len(records)

AppendHypothesis ==
    /\ stage = "hypotheses"
    /\ Hypothesised < Len(findings)
    /\ AppendDerived("hypothesis", findings[Hypothesised + 1])
    /\ UNCHANGED <<analysisVars, stage, base, patch, replay, diagnostic>>

BindBase ==
    /\ stage = "hypotheses"
    /\ Hypothesised = Len(findings)
    /\ base' = LedgerSoFar
    /\ stage' = "propose"
    /\ UNCHANGED <<analysisVars, ledgerVars, patch, replay, diagnostic>>

-----------------------------------------------------------------------------
(* resolve_unique_source_record, over the ledger as it is: hypotheses and  *)
(* the rest bear no source id.                                             *)
SourceTypes == {"event", "edge", "memory_op"}
Bearers(ref) ==
    {i \in DOMAIN records : records[i].type \in SourceTypes /\ records[i].body.id = ref}
Unique(ref) == \E i \in DOMAIN records : Bearers(ref) = {i}
SourceOf(ref) == records[CHOOSE i \in DOMAIN records : Bearers(ref) = {i}].body

EvidenceResolves(f) == \A k \in DOMAIN f.evidence : Unique(f.evidence[k])

(* Mutant: only the first piece of evidence is resolved. *)
FirstEvidenceResolves(f) == f.evidence # <<>> => Unique(f.evidence[1])

(* The command also asks that the evidence be memory operations; that the  *)
(* findings' own records are already is not relied upon.                   *)
MemoryEvidenceResolves(f) ==
    /\ EvidenceResolves(f)
    /\ \A k \in DOMAIN f.evidence : SourceOf(f.evidence[k]).type = "memory_op"

(* _memory_manifest: every version the trace touches, and every version it *)
(* quarantines anywhere, before or after the reuse.                        *)
Manifest ==
    LET memory == {i \in DOMAIN trace : trace[i].type = "memory_op"}
    IN [items |-> {trace[i].key : i \in memory},
        quarantine |-> {trace[i].key : i \in {i \in memory : trace[i].action = "quarantine"}}]

Candidate(p) == [Manifest EXCEPT !.quarantine = @ \cup {p.target}]
Restored(p) == [Candidate(p) EXCEPT !.quarantine = @ \ {p.target}]

TaintFinding == findings[4]

(* Mutant: the quarantine list is not looked at. *)
NotLookedUp(key) == FALSE

AlreadyQuarantined(key) == key \in Manifest.quarantine

(* The version to quarantine is the one the first piece of evidence        *)
(* touches; record n + 5 is the hypothesis of the fourth invariant.        *)
Propose ==
    /\ stage = "propose"
    /\ \/ /\ TaintFinding.result # "hypothesis"
          /\ stage' = "gate"
          /\ UNCHANGED <<patch, replay>>
       \/ /\ TaintFinding.result = "hypothesis"
          /\ ~MemoryEvidenceResolves(TaintFinding)
          /\ replay' = NotRun("hypothesis_evidence_incomplete_or_ambiguous")
          /\ stage' = "gate"
          /\ UNCHANGED patch
       \/ /\ TaintFinding.result = "hypothesis"
          /\ MemoryEvidenceResolves(TaintFinding)
          /\ LET target == SourceOf(TaintFinding.evidence[1]).key
             IN \/ /\ AlreadyQuarantined(target)
                   /\ replay' = NotRun("target_already_quarantined_after_violation")
                   /\ stage' = "gate"
                   /\ UNCHANGED patch
                \/ /\ ~AlreadyQuarantined(target)
                   /\ patch' = [target |-> target, base |-> Manifest,
                                hypothesis |-> Len(trace) + 5]
                   /\ stage' = "replay"
                   /\ UNCHANGED replay
    /\ UNCHANGED <<analysisVars, ledgerVars, base, diagnostic>>

-----------------------------------------------------------------------------
(* What the jailed child computes and validate_replay_result insists on.   *)
Comparison ==
    LET before == Manifest
        after == Candidate(patch)
    IN [mechanism |-> "bounded_declarative_document_comparison",
        bound |-> patch.base = before,
        added |-> after.quarantine \ before.quarantine,
        removed |-> before.quarantine \ after.quarantine,
        equal |-> before = after,
        reversed |-> Restored(patch) = before]

ReplayCompletes ==
    /\ stage = "replay"
    /\ replay' = Comparison
    /\ stage' = "patch"
    /\ UNCHANGED <<analysisVars, ledgerVars, base, patch, diagnostic>>

(* No sandbox, a timeout, a control that did not trip, a result that is    *)
(* too large or does not validate: the proposal stays, the replay does not.*)
ReplayFails ==
    /\ stage = "replay"
    /\ replay' = [mechanism |-> "not_run", reason |-> "saved_task_replay_failed_closed",
                  reversed |-> FALSE]
    /\ stage' = "patch"
    /\ UNCHANGED <<analysisVars, ledgerVars, base, patch, diagnostic>>

(* An exception of the replay that run_fixture does not name goes past it: *)
(* the run ends in a traceback, with nothing more recorded, no diagnostic  *)
(* and no packet.                                                          *)
ReplayRaises ==
    /\ stage = "replay"
    /\ stage' = "aborted"
    /\ UNCHANGED <<analysisVars, ledgerVars, base, patch, replay, diagnostic>>

AppendPatch ==
    /\ stage = "patch"
    /\ AppendDerived("patch", patch)
    /\ stage' = IF replay.mechanism # "not_run" THEN "replayed" ELSE "gate"
    /\ UNCHANGED <<analysisVars, base, patch, replay, diagnostic>>

AppendReplay ==
    /\ stage = "replayed"
    /\ AppendDerived("replay", replay)
    /\ stage' = "gate"
    /\ UNCHANGED <<analysisVars, base, patch, replay, diagnostic>>

(* The operator's attestation; prev is not read again, nor moved.          *)
AppendGate ==
    /\ stage = "gate"
    /\ \E attest \in Outcomes :
         records' = Append(records, Envelope("gate_decision", Len(records), Inherited,
                                             [outcome |-> attest], prev))
    /\ stage' = "diagnose"
    /\ UNCHANGED <<analysisVars, prev, base, patch, replay, diagnostic>>

-----------------------------------------------------------------------------
(* report_document: what the report says became of patch and replay.       *)
Disposition ==
    CASE replay.mechanism = "bounded_declarative_document_comparison"
           -> "bounded_comparison_completed"
      [] replay.mechanism = "not_run" /\ replay.reason = "target_already_quarantined_after_violation"
           -> "patch_blocked_target_already_quarantined"
      [] OTHER -> "no_patch_or_replay"

(* build_diagnostic: the findings that are hypotheses, and those of them   *)
(* whose evidence resolves; findings are named by their invariant's number.*)
Points == {k \in DOMAIN findings : findings[k].result = "hypothesis"}
Supported == {k \in Points : EvidenceResolves(findings[k])}

(* Mutant: that a proposal is supported is enough. *)
CriteriaOfProposal == 4 \in Supported

(* _replay_assessment, for the version the memory proposal names.          *)
CriteriaPassed ==
    /\ replay.mechanism = "bounded_declarative_document_comparison"
    /\ replay.bound
    /\ 4 \in Supported
    /\ replay.added = {SourceOf(TaintFinding.evidence[1]).key}
    /\ replay.removed = {}
    /\ ~replay.equal
    /\ replay.reversed

(* Mutant: a truncated lineage does not stand in the way. *)
NeverLimited(k) == FALSE

Limited(k) == findings[k].limited

(* _review_decision: what stands against a recommendation.                 *)
Blockers ==
    LET stands ==
         [no_invariant_violation_observed |-> Points = {},
          evidence_support_incomplete_or_ambiguous |->
              \E k \in Points : k \notin Supported \/ Limited(k),
          multiple_supported_failure_points_require_disambiguation |->
              Cardinality(Supported) > 1,
          proposal_not_eligible_for_saved_task_comparison |->
              Cardinality(Supported) = 1 /\ 4 \notin Supported,
          saved_task_comparison_incomplete_or_failed |-> Supported = {4} /\ ~CriteriaPassed]
    IN {b \in DOMAIN stands : stands[b]}

(* Mutant: the proposals are bound to the ledger as it is at the end. *)
BaseAtEnd == Len(records)

ProposalBase == base

Diagnose ==
    /\ stage = "diagnose"
    /\ diagnostic' = [recommendation |-> IF Blockers = {} /\ Supported = {4}
                                           THEN "human_may_consider_promotion"
                                           ELSE "abstain_no_promotion_recommendation",
                      proposals |-> Supported, base |-> ProposalBase,
                      class |-> StrictestOf(records), disposition |-> Disposition]
    /\ stage' = "done"
    /\ UNCHANGED <<analysisVars, ledgerVars, base, patch, replay>>

Next ==
    \/ Ingest \/ Analyse \/ AppendHypothesis \/ BindBase
    \/ Propose \/ ReplayCompletes \/ ReplayFails \/ ReplayRaises
    \/ AppendPatch \/ AppendReplay \/ AppendGate \/ Diagnose

Spec == DiagnosisInit /\ [][Next]_vars

-----------------------------------------------------------------------------
(* PROPERTIES                                                              *)

Types == {"run", "event", "edge", "memory_op", "hypothesis", "patch", "replay",
          "gate_decision"}

(* The ledger is what RECORD_TYPES and ENUMS allow, and the run is at one  *)
(* of its stages.                                                          *)
DiagnosisTypeOK ==
    /\ TypeOK
    /\ stage \in {"ingest", "evaluate", "hypotheses", "propose", "replay", "patch",
                  "aborted", "replayed", "gate", "diagnose", "done"}
    /\ \A i \in DOMAIN records : records[i].type \in Types /\ records[i].class \in Classes
    /\ prev \in 0..Len(records) /\ base \in 0..Len(records)
    /\ patch # NoPatch => patch.target \in MemoryKeys

Positions(type) == {i \in DOMAIN records : records[i].type = type}

(* At every step of the run the ledger is one verify_ledger accepts: each  *)
(* envelope numbered by its place and chained to the one before it, across *)
(* the three places of run_fixture that append (cli.py:91-95, 144-151).    *)
LedgerChained ==
    \A i \in DOMAIN records : records[i].sequence = i - 1 /\ records[i].prev = i - 1

(* Nothing derived is classified below anything it was derived from        *)
(* (ARCHITECTURE.md:66 "Derived artifacts inherit the strictest input      *)
(* classification"), the diagnostic included.                              *)
DerivedInherit ==
    \A i \in DOMAIN trace :
        /\ \A j \in DOMAIN records :
             j > Len(trace) + 1 => Rank[records[j].class] >= Rank[trace[i].class]
        /\ stage = "done" => Rank[diagnostic.class] >= Rank[trace[i].class]

(* A patch quarantines the version of the EARLIEST forbidden reuse, which  *)
(* nothing in the trace quarantines, on evidence that is unambiguous, and  *)
(* names the ledger's own violated taint hypothesis (cli.py:99-125).       *)
PatchJustified ==
    patch # NoPatch =>
        /\ \E i \in DOMAIN trace :
             /\ ReusedAt(i) /\ trace[i].key = patch.target
             /\ \A j \in 1..(i - 1) : ~ReusedAt(j)
             /\ Matches(trace, trace[i].id) = {i}
        /\ \A i \in DOMAIN trace : Quarantines(i) => trace[i].key # patch.target
        /\ \A k \in DOMAIN TaintFinding.evidence : Resolves(trace, TaintFinding.evidence[k])
        /\ records[patch.hypothesis].type = "hypothesis"
        /\ records[patch.hypothesis].body = TaintFinding
        /\ TaintFinding.result = "hypothesis"

(* Human review is recommended only of a quarantine that was replayed and  *)
(* reversed, when the trace breaks no other invariant, its lineage was     *)
(* represented in full, and the ledger holds both patch and replay         *)
(* (EVALUATION.md:9).                                                      *)
RecommendationJustified ==
    diagnostic.recommendation = "human_may_consider_promotion" =>
        /\ \A i \in DOMAIN trace : ~BrokenParent(i) /\ ~AmbiguousParent(i)
        /\ \A i \in DOMAIN trace :
             ~(MemoryAt(i) /\ trace[i].action = "read" /\ trace[i].state = "stale")
        /\ Cardinality({i \in DOMAIN trace : trace[i].type = "edge"}) <= LineageLimit
        /\ patch # NoPatch
        /\ \E i \in Positions("patch"), j \in Positions("replay") :
             i < j /\ patch.hypothesis < i /\ records[i].body = patch
        /\ replay.mechanism # "not_run" /\ replay.reversed

(* "If isolation or comparison fails after a valid proposal is built, the  *)
(* proposal may remain available for inspection, but no replay record is   *)
(* emitted and the diagnostic must recommend abstention" (ARCHITECTURE.md: *)
(* 31).                                                                    *)
FailedReplayAbstains ==
    stage = "done" /\ patch # NoPatch /\ replay.mechanism = "not_run" =>
        /\ Positions("patch") # {} /\ Positions("replay") = {}
        /\ diagnostic.recommendation = "abstain_no_promotion_recommendation"

(* The command resolves the evidence before it appends patch and replay,   *)
(* the diagnostic after: they never disagree on whether there is a memory  *)
(* proposal (cli.py:104-117 and diagnostic.py:117-159).                    *)
LooksAgree ==
    stage = "done" =>
        (4 \in diagnostic.proposals <=>
           /\ TaintFinding.result = "hypothesis"
           /\ replay # NotRun("hypothesis_evidence_incomplete_or_ambiguous"))

(* The base the proposals are bound to covers every hypothesis and nothing *)
(* that replay or attestation decides (cli.py:96).                         *)
BasePrecedesOutcome ==
    stage = "done" =>
        {i \in DOMAIN records : i <= diagnostic.base} =
        {i \in DOMAIN records : records[i].type \notin {"patch", "replay", "gate_decision"}}

(* Said of the code, and not so.  EVALUATION.md:9: review may be           *)
(* recommended only "when evidence resolves completely": every reuse the   *)
(* trace holds, not the first EvidenceLimit of them.                       *)
EvidenceComplete ==
    diagnostic.recommendation = "human_may_consider_promotion" =>
        \A i \in DOMAIN trace : ReusedAt(i) => Resolves(trace, trace[i].id)

(* report.py:26: a report that says "no_patch_or_replay" stands beside no  *)
(* patch.                                                                  *)
DispositionTrue ==
    stage = "done" /\ diagnostic.disposition = "no_patch_or_replay" => Positions("patch") = {}
=============================================================================
