-------------------------- MODULE CorpusDisposition --------------------------
(* What corpus.validate_manifest expects the command to do with a fixture: *)
(* it works the dispositions out anew from the findings, beside the        *)
(* command, which asks more of the evidence before it builds a patch.      *)
EXTENDS Diagnosis

(* The first memory operation with the id of the first evidence.           *)
FirstMemoryOp(id) ==
    LET bearers == {i \in DOMAIN trace : trace[i].type = "memory_op" /\ trace[i].id = id}
    IN trace[CHOOSE i \in bearers : \A j \in bearers : i <= j]

(* Mutant: quarantines of the target are not looked for. *)
ExpectedAlwaysEmitted ==
    IF TaintFinding.result # "hypothesis"
      THEN [patch |-> "not_emitted", replay |-> "not_run"]
      ELSE [patch |-> "emitted", replay |-> "bounded_comparison_completed"]

Expected ==
    IF TaintFinding.result # "hypothesis"
      THEN [patch |-> "not_emitted", replay |-> "not_run"]
      ELSE IF FirstMemoryOp(TaintFinding.evidence[1]).key \in Manifest.quarantine
        THEN [patch |-> "blocked_already_quarantined", replay |-> "not_run"]
        ELSE [patch |-> "emitted", replay |-> "bounded_comparison_completed"]

(* What the run did, in the words of the corpus manifest.                  *)
Reached ==
    [patch |-> IF patch # NoPatch
                 THEN "emitted"
                 ELSE IF replay = NotRun("target_already_quarantined_after_violation")
                   THEN "blocked_already_quarantined" ELSE "not_emitted",
     replay |-> replay.mechanism]

ReplayFailed == patch # NoPatch /\ replay.mechanism = "not_run"

(* The corpus check and the command agree on a fixture whose evidence      *)
(* resolves, whatever else its trace holds, unless the sandbox failed      *)
(* (corpus.py:112-129 with cli.py:98-138).                                 *)
CorpusAgrees ==
    stage = "done" /\ ~ReplayFailed /\ MemoryEvidenceResolves(TaintFinding) =>
        /\ Expected.patch = Reached.patch
        /\ Expected.replay = "not_run" <=> Reached.replay = "not_run"

(* Said of the code, and not so.  EVALUATION.md:15: the validator enforces *)
(* "exact invariant and patch/replay dispositions", of every fixture.      *)
CorpusExact ==
    stage = "done" /\ ~ReplayFailed => Expected.patch = Reached.patch
=============================================================================
