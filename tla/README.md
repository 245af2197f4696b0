# Trajectory Ledger: specifications, model checking and proofs

Trajectory Ledger reads one inert JSON fixture (a recorded agent trace), projects it into a
hash-chained ledger, evaluates four invariants over it, proposes at most one declarative
memory quarantine, compares "before" and "after" documents in a sandboxed child, and writes
one packet of evidence for a human reviewer. This directory holds TLA+ modules of that
program, the configurations that model-check them, and proofs.

All source paths below are relative to `trajectory_ledger/` unless they name a document.

## 1. Inventory

| Part | State it keeps | Operations | What makes it correct |
|---|---|---|---|
| Bounded read, projection (`core.py:42-253`) | none; yields envelopes | `read_bounded_regular_file`, `_project_record`, `make_envelope`, `ingest_fixture` | whatever is malformed is refused before anything is written; every record has a type and a classification |
| Ledger (`core.py:186-205, 256-282`) | `records`, `prev` | append, `write_ledger`, `verify_ledger` | each envelope is numbered by its place and chained to the one before, over every place that appends |
| Lineage, evidence (`core.py:285-320`) | none | `build_lineage`, `resolve_unique_source_record` | dangling and conflicting references show, or the result says it is truncated; an ambiguous reference resolves to nothing |
| Analyzer (`analysis.py`) | `tainted_seen`, `quarantined`, `reused` | `evaluate`, `_finding` | exactly the forbidden reads are reported, the earliest first |
| Patch builder (`patching.py`) | none | `build_patch`, `apply_patch`, `reverse_patch` | one addition, bound to its base, undone exactly by its reversal |
| Replay launcher and child (`replay.py`, `replay_child.py`) | request and result files in a temporary directory; a listener | `prove_isolation`, `replay`, the child's `main` | no comparison without all three controls; a failure never turns into a result |
| Diagnostic (`diagnostic.py`) | none | `build_diagnostic`, `_review_decision` | review is recommended only of one supported, replayed memory proposal |
| Report (`report.py`) | none | `report_document`, rendering | its disposition says what happened to patch and replay |
| Pipeline (`cli.py:81-183`) | `records`, `prev`, the patch, the replay result | first half of `run_fixture` | evidence, patch, ledger and diagnostic agree with each other |
| Packet commit (`cli.py:20-62, 184-317`) | staging directory, the output path, the process status | second half of `run_fixture`, `main`, `entrypoint` | only whole packets, nothing replaced, exit statuses true, also after a crash |
| Corpus validator (`corpus.py`) | case identifiers, signatures and counters of one pass | `validate_manifest` | exactly the sound manifests pass; the dispositions it demands are those the command reaches |

How they interact: everything up to `cli.py:183` is a chain of calls in memory inside one
process; its only outside effect is the replay child, a subprocess with a time limit that
talks through files of a temporary directory. From `cli.py:184` on the process talks to the
file system, which it shares with the operator and with other runs of the command. There are
no threads, no retries and no state kept between runs: what a run leaves is the packet.

The hard behaviours follow from that. The check of the destination is stale by the time of
the rename; two runs may race; each file operation may fail and leave half its effect; what
is not synced may be lost in a crash, before or after the caller was told of success; Ctrl-C
may arrive anywhere. In memory, the order of the records decides: taint, quarantine and read
may be interleaved over several versions, limits cut lists short (16 edges, 8 references),
evidence is resolved twice over a ledger that has grown, and a replay may fail after its
proposal was built. Around the replay child everything may fail: the sandbox may let an
attempt through, or deny it after it had an effect; the child may crash, hang, or leave a
result that is damaged, partial or of other documents. `PROJECT.json` lists these as hazards, each at its line.

## 2. Modules

| Module | Models | Extends |
|---|---|---|
| `AtomicPublish` | what an operator may assume of the output path and of the reported verdicts (abstract) | |
| `PacketCommit` | the packet commit, detailed | instantiates `AtomicPublish` |
| `PacketCommitProofs` | its theorems | `PacketCommit` |
| `SequenceFacts` | facts about sequences the proofs keep needing: removal, insertion, flattening, sets of elements, induction over sets of numbers | |
| `Trace` | projected records, unique resolution, classification, lineage | |
| `Analysis` | `analysis.evaluate` | `Trace` |
| `AnalysisProofs` | its theorems | `Analysis`, `SequenceFacts` |
| `Diagnosis` | the in-memory pipeline, with patch, replay, diagnostic and report disposition | `Analysis` |
| `DiagnosisProofs` | its theorems | `Diagnosis`, `AnalysisProofs` |
| `CorpusDisposition` | the dispositions the corpus check works out beside the command | `Diagnosis` |
| `CorpusDispositionProofs` | that the two agree | `CorpusDisposition`, `DiagnosisProofs` |
| `Documents` | memory documents as lists: building, applying and reversing a patch, admissible transitions, the comparison | |
| `ReplayContract` | what `run_fixture` may rely on when it calls `replay` (abstract) | |
| `Replay` | launcher, child and sandbox | `Documents`; instantiates `ReplayContract` |
| `ReplayProofs` | its theorems, and those of `Documents` | `Replay`, `SequenceFacts` |
| `Ledger` | `make_envelope`, `write_ledger` and `verify_ledger`, and a file that changes in between | |
| `LedgerProofs` | its theorems | `Ledger`, `SequenceFacts` |
| `Corpus` | the pass of `validate_manifest` over a manifest | |
| `CorpusProofs` | its theorems | `Corpus`, `SequenceFacts` |
| `MCAnalysis`, `MCDiagnosis`, `MCReplay`, `MCCorpus` | the inputs TLC enumerates | `Analysis`, `CorpusDisposition`, `Replay`, `Corpus` |

`Diagnosis` is composed with `Analysis` (its `Analyse` step is a step of the scan), and
`CorpusDisposition` looks at the end of a run of `Diagnosis`. `PacketCommit` begins where
`Diagnosis` ends, at a computed packet, which it sees as a set of file names with contents
that are exact or not. The two share nothing else in the code either, so they are checked
apart. Of `replay`, `Diagnosis` uses one answer, the comparison, a failure or an exception
that goes past it (`ReplayCompletes`, `ReplayFails`, `ReplayRaises`): that this is all a call
can answer is what `Replay` is shown to implement of `ReplayContract`.

### PacketCommit

`pc[w]` is the place of run `w` in `run_fixture`, `status[w]` how it ended (the text after
`failed_closed=`, or the kind of exception). `content[w]` is the staging directory,
`synced`/`dirSynced` what its fsyncs covered. `entry` is the directory entry the output path
names: nothing, an empty directory, something foreign, or a run's packet. `survivors` is the
set of entries a crash may leave there: a rename or an operator entry adds to it, the fsync
of the parent reduces it to the present entry.

| Action | Code |
|---|---|
| `Compute` | everything before the destination check; in memory, it succeeds or raises |
| `ProbeDestination` | `output.exists() or output.is_symlink()`, an exception of the check included |
| `MakeStaging` | `tempfile.mkdtemp` |
| `WriteFile`, `WriteFails` | `write_ledger` first, then `_write_ascii`; the bytes may be silently wrong |
| `VerifyStaged` | `_verify_staged_packet`; may also fail on exact bytes, when it cannot read them |
| `SyncFile`, `SyncDirectory`, `SyncFails` | `_sync_directory_tree` |
| `Rename`, `RenameFails` | `os.replace`: takes an absent name or an empty directory, as rename(2) of a directory does |
| `SyncParent`, `SyncParentFails` | the fsync after the commit |
| `Receipt` | `main`: the summary reads the packet back and may raise |
| `Interrupt` | KeyboardInterrupt, exit 130 |
| `OperatorEntry`, `Crash` | the environment |

The crash model is the usual one for POSIX file systems: a file keeps its contents when it
and its directory were synced, otherwise it may come back missing or truncated ("damaged"); a
directory entry is one of those it had since its parent was last synced. A staged directory
that a crash or a failure leaves behind under its own hidden name is never looked at again
and has no further part in the model.

`AtomicPublish` says the same from outside: `Publish` in one step onto nothing or an empty
directory, `Report` of verdicts that are true when given, `Crash` that may take anything back
except what was reported published. The refinement mapping shows an entry whose packet is not
whole as `"torn"`, a value the abstract specification has no step to.

### Trace, Analysis, Diagnosis

A trace is a sequence of source records as `_project_record` leaves them; `<<namespace, item,
version>>` is one value, and fields that decide nothing (actor, state version, event
reference, the asserted flag, redacted fields) are left out. `Analysis` has one action per
kind of record for the scan (`SkipRecord`, `Quarantine`, `Touch`) and `Conclude`, which builds
the four findings. `Diagnosis` walks `run_fixture`: `Ingest`, `Analyse`, `AppendHypothesis`
four times, `BindBase`, `Propose`, `ReplayCompletes`, `ReplayFails` or `ReplayRaises` (after
which the run has ended in a traceback: stage `aborted`), `AppendPatch`, `AppendReplay`,
`AppendGate`, `Diagnose`. A digest is represented by what it is a digest of:
`prev` and `base` are lengths of the ledger, which determine its contents since it only
grows. This takes SHA-256 as injective, and canonical serialization with it.

### Documents, Replay

A version is a number, so that the lists of a document have the order the code sorts by.
`Sorted` says of each place of a sorted list which element stands there, by counting, and
`Those` of `Trace` selects with a recursive function: both say what `sorted()` and a list
comprehension do, in a form the proofs can take apart.
`Replay` is one call of `replay.replay`. `stage` is where the launcher is: before the
transition check, in one of the three probes, in the comparison, or done; `child` is the
state of the child it waits for, or its exit code (one value stands for 21, 22 and 24).
`boundary` is what the sandbox makes of each attempt: *denied*; *passed*; or *leaky*, when the
connection is made, or the file created, and the denial comes only then, so that the child
reports a denial although there was an effect. `effects` are the connections and files that got out; `output` is `result.json` in the
child's fresh root.

| Action | Code |
|---|---|
| `Validate` | `validate_transition`, the digest of the expected base, and the first sandbox profile, which may raise |
| `Launch` (within `Validate`, `Judge`) | `_write_request` and `_invoke` of the next operation in a fresh root |
| `Judge` | one control of `prove_isolation`: exit code 77 and nothing to be seen; after the third, all of them |
| `Timeout` | `subprocess.run(timeout=5)`, which kills and reaps the child before it raises |
| `LauncherFails` | no sandbox, or an `OSError` of the launcher's own |
| `Collect` | the exit code, the size limit, `json.loads`, which may raise, and `validate_replay_result` |
| `FailClosed`, `Escape` (within the others) | how a call ends without a comparison |
| `Attempt`, `AttemptFails`, `Confess` | the probe operations of the child |
| `OpenResult`, `OpenFails`, `WriteResult`, `WriteFails` | the comparison of the child, `O_EXCL` result file |
| `ChildCrashes` | a signal, or an exception `main` does not catch |

The listener's `accept` may give up before a connection that passed has come through
(`Noticed`). A leaky connection was made before its denial, and the child's exit after that, so
it is in the queue when `accept` is called; that one could still be on its way then is left
out, as the loopback interface has no such delay and nothing in the code could tell.
`WriteResult` also leaves something damaged, or the comparison of other documents: the
launcher's checks are what stands between these and the caller.

`ValidationError`, `OSError` and `SubprocessError` are one outcome, as `run_fixture` catches
them alike (`cli.py:130`). Two exceptions are not among them and are another (`Escape`, outcome
`Raised`): the `UnicodeEncodeError` of a sandbox profile written as ASCII with a path in it that
is not (`replay.py:145`), and the `RecursionError` of a result nested too deeply
(`replay.py:223`). The first needs nothing but the path, the second a child that exits with 0
and leaves something else than its comparison.

`MeetsCriteria` is what `_replay_assessment` asks of a comparison for the proposed version. Its
labels and digest formats are those `validate_replay_result` has insisted on; that the
reversal restored the baseline, which the caller adds, is in `PatchReplays`.

### Ledger

`records` is the ledger as the run appended it (`AppendRecord`, up to `MaxRecords`), `file` the
lines `WriteLedger` left (`written`), and up to `MaxChanges` accidents may befall them
afterwards: a field damaged (`Damaged`, a value no envelope of the run has) or replaced by
another line's, a line spoiled (`Garbage`), lost, repeated, or two swapped. `Digest(value)` is
the value marked as a digest. A change computes no new digests; a rewrite from genesis is what
the documents say cannot be detected. `meta` stands for what neither `content_hash` nor
`record_id` covers of an envelope: the fields outside both, and how the sequence number is
written (`core.py:272` compares it with `!=`, so `1.0` and `true` are 1).

### Corpus, CorpusDisposition

`Corpus` has one action per loop body of `validate_manifest` and carries its accumulators.
What ingestion and analysis make of a fixture is a constant of it: a structure (shapes, and
the names in them) and an observed result, `found` (the invariants broken and the dispositions)
and `class`. A case is accepted if it declares both; its signature has the first only, as
`corpus.py:75-80`. `Token` is the renaming of `_normalized_signature`.
`CorpusAssumption` says that floors are numbers for finitely many categories, that lists are
lists, and that a case names a fixture there is (the code has opened it). `Sound` says what a
sound manifest is without a word of the pass: no accumulator, no token, no sum of floors.
`CorpusDisposition` opens the observed result: `Expected` is `corpus.py:112-129` over the
state in which a run of `Diagnosis` ends.

## 3. Runs

| Run | What it asks | Bounds, and why they are enough |
|---|---|---|
| `packet_commit` | type, `OnlyCompletePackets`, `ExitCodeTruthful`, `NeverReplaced`, refinement of `AtomicPublish`, `Terminates` | 2 runs (the hazards are between a run and one rival), 2 files (one synced, one not), 2 crashes (what the first took back can be published again and lost). 94 thousand states |
| `replay` | controls before comparison, `ReplayReturns`, refinement of `ReplayContract`, `PatchReplays`, `CriteriaMeanPatched` | any two documents with lists of up to 2 entries, unsorted and duplicate ones included, and some of 3; a result limit (2 entries) that larger comparisons exceed; every sandbox. 335 thousand states |
| `ledger` | `VerifiesExactly` | ledgers of up to 3 records (a first, a middle, a last), 2 types, 2 payloads, up to 2 changes (one that hides another). 142 thousand states |
| `corpus` | `AcceptsExactlySound` | up to 3 cases over 4 fixtures and 3 categories, one of them unknown, declarations that are right, of another finding or of another classification, 6 lists of negative cases. 322 thousand states |
| `analysis` | `ScanExact`, `EarliestFirst`, `NothingHidden` | every trace of up to 4 operations out of 9 on two versions, every trace of up to 3 out of 15 edges and events; the lineage limit is 2, so the third edge is past it |
| `diagnosis` | ledger, classification, patch, recommendation, agreement of the two looks and with the corpus check | every trace of up to 4 operations out of 12 (two ids, two versions: ids may clash), traces that mix lineage, four classes and reuse; limits 2; replay succeeds, fails or raises; two attestations. 389 thousand states |
| `occupied_destination` | violated, see below | 2 runs, 2 files, 1 crash |
| `unusable_destination` | violated | the same |
| `evidence_complete` | violated | one trace at the code's own limits (8 references, 16 edges) |
| `disposition_true` | violated | as `diagnosis`, 2 operations |
| `ledger_tail` | violated | as `ledger` |
| `corpus_exact` | violated | as `diagnosis`, 2 operations |

`CHECK_DEADLOCK FALSE` everywhere: the command ends, the call returns and the pass
concludes, so the system stops.

What the passing runs show:

* **OnlyCompletePackets** - a packet at the output path is whole and exact, also after a
  crash, because read-back, fsync of files, fsync of the directory and rename happen in that
  order.
* **ExitCodeTruthful** - 0 only of a packet that no later crash can take back; 2 only when the
  path does not show this run's packet and never will, "durability uncertain" aside.
* **NeverReplaced** - no step but a crash replaces a packet or a foreign entry. The check up
  front is not what ensures this: the rename's own semantics do.
* **ImplementsAtomicPublish** - the composition of all of it.
* **Terminates** - each run ends with a status.
* **ScanExact, EarliestFirst** - the scan's two sets and list report the reads of a version
  tainted before and not quarantined before, all of them, the earliest first. A quarantine
  whose own state is "tainted" taints nothing; an operation's own taint does not count against
  its own read.
* **NothingHidden** - a dangling or conflicting parent, whichever edge it is on, gives a
  hypothesis or a finding marked as limited.
* **LedgerChained, DerivedInherit, BasePrecedesOutcome** - the ledger verifies at every step,
  derived records are never below their sources' class, and the base digest of the proposals
  covers the hypotheses and nothing later.
* **PatchJustified, LooksAgree** - a patch names the version of the earliest forbidden reuse,
  on unambiguous evidence, unless the trace quarantines it anywhere; the diagnostic, which
  resolves the evidence again, agrees.
* **RecommendationJustified, FailedReplayAbstains** - review is recommended only of a
  quarantine that was replayed and reversed, in a trace that breaks no other invariant and
  whose lineage is represented in full.
* **CorpusAgrees** - on evidence that resolves, the corpus check expects the dispositions the
  command reaches, though it works them out of the findings and the command out of the ledger.
* **ControlsBeforeComparison** - documents are compared only in a sandbox that denies all
  three attempts, and after nothing got out; the exit code of a probe alone would not do.
* **ReplayReturns** - the call ends, also when the child hangs in any operation.
* **ImplementsReplayContract** - one answer: a failure, or for an admissible request the exact
  comparison or an exception, whatever the child left behind.
* **PatchReplays** - a patch built on a valid baseline yields a document that replay admits
  as its candidate, and reverses to the baseline, lists included.
* **CriteriaMeanPatched** - the converse, for what a human is shown. The review criteria look
  at the quarantine of a completed comparison and nothing else; they are met for a version
  exactly when the candidate is the baseline, items and order included, with that version
  quarantined by a patch that applies. That no item changed beside it is not theirs to see: it
  rests on `validate_transition` in the launcher, before the sandbox is even looked at.
* **VerifiesExactly** - a file verifies exactly when it is a beginning of the run's ledger, up
  to the unprotected fields of its last line. Truncation is allowed, as documented.
* **AcceptsExactlySound** - the corpus pass accepts exactly the manifests that meet the
  floors, repeat no identifier, declare what is observed, and hold no two cases of a category
  that differ in names only.

Every property of a passing run has a mutant in `PROJECT.json`: a plausible slip in one
definition, kept beside that definition under a "Mutant:" comment and used by no
specification, under which TLC finds the property violated.

### Disagreements between the code and what is said of it

1. `evidence_complete`: evidence is cut at eight references without a mark
   (`analysis.py:23`), so "when evidence resolves completely" (EVALUATION.md:9) is judged on
   the first eight. Lineage truncation, by contrast, is marked and blocks.
2. `occupied_destination`: an empty directory created between the check (`cli.py:186`) and
   the rename (`cli.py:205`) is replaced, although the comment at `cli.py:185` and the test at
   `tests/test_phase1c.py:283` have an occupied destination refused.
3. `unusable_destination`: an `OSError` of the check itself is outside every `try`; the
   release notes (RELEASE_NOTES.md:47-50) have it end with status 2.
4. `disposition_true`: after a failed replay the report says `no_patch_or_replay` while the
   ledger and `patch.json` hold the patch.
5. `ledger_tail`: EVALUATION.md:56 has in-place modification "detected". The last line's
   envelope fields outside its hashes (times, producer, source, classification), and the
   spelling of its sequence number, can change and the ledger verifies; by `VerifiesExactly` this is the only such change.
6. `corpus_exact`: for a fixture whose evidence is ambiguous the corpus check expects a patch
   (`corpus.py:117`) and the command emits none (`cli.py:104-117`), although EVALUATION.md:15
   has the validator enforce the exact dispositions.

Two more, which no run shows:

* ARCHITECTURE.md:38-39 has a write failure leave "a partial directory" that the exclusive
  create policy keeps from being reused. This was so before packets were staged
  (`cli.py:195-198`): the output path never holds a part (`OnlyCompletePackets`). The staging
  directory does, so the sentence is out of date and not contradicted.
* ARCHITECTURE.md:31 has the proposal remain and the diagnostic abstain "if isolation or
  comparison fails after a valid proposal is built". Where the temporary directory or the
  installation has a path that is not ASCII, isolation fails with an exception `cli.py:130`
  does not name: the run ends in a traceback with status 1 and without a packet
  (`Validate`, `Escape`, `ReplayRaises`). The sentence also says that there is then no replay
  record and no recommendation, and that much holds (`FailedReplayAbstains`,
  `RecommendationJustified`).

## 4. Fairness

`FairSpec` of `PacketCommit` asks weak fairness of the run's own steps once it has left the
in-memory stages: the operating system schedules a runnable process, every file operation
returns (with success or an error), and the run blocks on nothing. Nothing is asked of the
operator, of Ctrl-C, of crashes, or of the start of a run. Which outcome an operation has is
never subject to fairness.

`FairSpec` of `Replay` asks weak fairness of the launcher's steps, the expiry of a time limit
among them: the launcher blocks only in `subprocess.run` with a time limit, and in `accept`
with one. The child owes nothing: it may hang wherever it is. No failure of the launcher is
owed either, so `ReplayReturns` does not hold by way of `LauncherFails`. `ReplayContract` has
the matching fairness on `Answer`.

Everything else is safety and needs none.

## 5. Proofs

`PacketCommitProofs`, for any set of runs, any finite packet and any number of crashes:

* `TypeCorrect`, `Invariance`, `CompletePackets`, `TruthfulExitCodes`, `NothingReplaced`,
  `Refinement`, `RunsAreBounded`.
* From `LedgerAssumption`, `NamesAssumption` (a packet has finitely many files),
  `CrashAssumption` and `WritersAssumption` (a run is not one of the markers used beside runs).
* None of the safety invariants is inductive: that the entry's packet is whole says nothing
  of the packet in flight, nor of what a crash may bring back. `IInv` adds what the places in
  the code mean (verified implies exact from the sync on; both syncs done from the rename on),
  that every run among the survivors is verified and synced, that the entry survives, that a
  place and a status match, and that a run reported "published" is the only survivor from then
  on. `OnlyCompletePackets` and `ExitCodeTruthful` follow from it, `NeverReplaced` from the
  guard of the rename under it, and the refinement maps each step to a `Publish`, a `Report`,
  an `OperatorEntry`, a `Crash` or a stutter.
* The delicate step is the rename with a rival: a packet may replace only nothing or an empty
  directory, but a crash can bring either back after another run has renamed. That a packet
  once reported cannot be lost this way needs that its parent sync left no other survivor and
  that no rename or operator entry is enabled on it (`VacantMeansUnclaimed`).
* `RunsAreBounded` is the part of `Terminates` that is no matter of fairness: what a run has
  left to do, its places, the files not written and those not synced, is a number that each of
  its own steps reduces and nobody else's step raises, a crash included (it damages only what
  was there). So a run takes at most `8 + 2 * Cardinality(Names)` steps.

`ReplayProofs`, for any documents, limits and sandbox: `ReplayTypes`, `IsolationFirst`
(`ControlsBeforeComparison`), `AnswersExactly`, the safety half of `ImplementsReplayContract`,
and `CriteriaArePatches` (`CriteriaMeanPatched`). `ControlsBeforeComparison` is not inductive: `IInv` adds that an
attempt which had an effect was not denied, that a child which reports a denial in a sandbox
that did not deny has had its effect, a connection the launcher accepts or a file where it
looks, that each tripped control was denied, and that an operation is under way only on an
admissible request not yet answered, and what is answered is what the contract allows. That effects are empty at the comparison follows from
the first and the third.

`PatchesReplay` (`PatchReplays`), in the same module, is about the lists of a document, of any
length: a strictly increasing list with one more element, sorted, is the increasing list of
the elements and that one (`QuarantineOne`); it is longer by one, holds the target once, and
taking the target out again gives the old list entry for entry. That the new list stays within
`MaxEntries` is not said by the code anywhere: it follows because the target is among the
items, which are no more than that.

`CriteriaArePatches` goes the other way. A completed replay was of an admissible request and
its comparison is exact (`RequestTell`), so if one version was added and none removed, the
candidate's quarantine is a strictly increasing list of the baseline's elements and that one;
there is only one such list (`IncreasingSame`), and applying the patch gives it.

`CallsAreBounded` is the part of `ReplayReturns` that is no matter of fairness: each step of a
call uses up some of a number that begins at no more than 17, whatever the child and the
sandbox do, and until there is an answer one of the launcher's guards holds.

`AnalysisProofs`, for traces of any length over any versions: `ScanInvariant` (the loop's
`tainted_seen` and `quarantined` are exactly the versions tainted and quarantined by the
records seen), `TypesKept`, `ReportsExactly`, `IntervenesFirst`. They rest on
`TraceAssumption` and `EvidenceAssumption`. `HidesNothing` (`NothingHidden`) is about
`build_lineage`: an edge with a dangling or conflicting parent is either among the edges
represented, and then its claim is, or beyond them, and then the result is marked; a claim
makes the list of a finding non-empty, and the mark is on every finding. What selecting and
flattening leave of a sequence is in `SequenceFacts`.

`DiagnosisProofs`, for any trace and any limits, in two layers.

* `RunInv` says which record stands where: the run record, the trace, the four hypotheses in
  the findings' order, then what replay and gate decide, each chained to the one before, each
  derived one ranked with the strictest of the trace; and how long the ledger is at each
  stage. `StaysChained` follows.
* `ProposalInv` adds the patch, what the replay left, and the diagnostic. `RunTypes`,
  `DerivedRanks`, `BaseIsInput`, `PatchesJustly`, `FailureAbstains` and `BothLooksAgree` follow.
* The delicate point is that the ledger resolves a reference exactly as the trace does,
  however many records were appended (`LooksSame`): the command and the diagnostic look at
  different ledgers and see the same. With `ReportsExactly` the evidence is then of memory
  operations, so what the command asks beyond resolving is already so (`EvidenceTells`), and
  with `IntervenesFirst` the target is the version of the earliest reuse.
* `RecommendsJustly` (`RecommendationJustified`) puts these together with what `HidesNothing`
  rests on: nothing blocks only if no other finding is violated and none is limited, so the
  trace breaks no other invariant and its lineage is represented in full.

`CorpusDispositionProofs`: `ExpectsWhatHappens` (`CorpusAgrees`), from `ProposalInv` and
`Settled`, which says of each way to end without a patch what the trace and the evidence were.

`LedgerProofs`, for ledgers of any length and any number of changes: `LedgerTypes`
(`LedgerTypeOK`) and `VerifiesOnlyBeginnings` (`VerifiesExactly`). The invariant
(`LedgerInvariance`) says that no change makes a digest: each field of a line is a field of
some envelope of the run, or damaged. From this, a line whose hash and id fit at its place is
the run's envelope there in all that these cover (`IdPinsLine`), the number that the id covers
being what ties it to the place; and a line whose digest its successor carries is the run's
envelope in everything (`NextPinsLine`). Only the last line has no successor, which is the
exception `VerifiesExactly` makes. The damaged values have to differ from every digest and
from genesis, and do (`DigestFacts`).

`CorpusProofs`, for manifests of any length, any fixtures and categories, from
`CorpusAssumption`: `CorpusTypes` (`CorpusTypeOK`) and `AcceptsExactly` (`AcceptsExactlySound`).

* Two signatures are equal exactly when the declared findings are and one fixture is a renaming of
  the other (`SignatureTells`). One direction is that tokens tell names apart
  (`TokensTell`: of two names, the one that stands first has fewer others before it); the other
  that the same pattern of equal names gives the same tokens (`TokensAlike`).
* Floors that are met add up to no more than the number of cases (`FloorsAddUp`), so the check
  of their sum up front refuses no sound manifest.
* `AcceptsExactlySound` is silent until the verdict. `IInv` says what the pass carries is what
  it has seen (`Carries`), that what was seen so far is sound (`SoFarSound`), and that a
  verdict is given for a reason (`Decided`).

Induction. The library's induction theorems take an operator, which no installed prover can
instantiate. Here induction is over sets: a set of numbers up to n that holds 0 and each
number after one it holds is all of them, from the least element it misses (`Least`,
`Induction` in `SequenceFacts`, from the well-foundedness of the order on numbers), and likewise for the
subsets of a finite set (`SubsetInduction`). Recursive functions, those within the library's
folds and `FlattenSeq` included, are reached through a function that satisfies the equations,
shown to exist (`Recursion`), and what the equations determine.

Only model-checked:

* `Terminates`, `ReplayReturns` and the liveness half of `ImplementsReplayContract`: liveness
  is outside the proof system's reach. What remains of them beside `RunsAreBounded` and
  `CallsAreBounded` is that an enabled step is taken, and that a guard that holds enables one.

Every other property of a passing run is stated by a theorem.

## 6. Not modelled

* The JSON grammar and the field checks of ingestion, and redaction: sequential parsing with
  no state, which the unit tests reach; in `PacketCommit` they are the one outcome "rejected".
  With them the bounded read (`core.py:87-114`): one process, one `read`, whose only guard
  against a file that changes meanwhile is a comparison of lengths; what a change of equal
  length yields is another input, not another state.
* `max_edges` (256) beside `max_records` (128): a limit that cannot be reached.
* Wording, layout and the language lint of reports, receipts and diagnostics.
* SHA-256, canonical serialization (taken as injective).
* The text of the sandbox profile, which macOS interprets: `Replay` takes what the sandbox
  does as a constant of the call that may be anything.
* The key sets and labels of a corpus manifest's header and cases, each refused or constant,
  and the reason a refusal gives.

Parts whose status is "partly" in `PROJECT.json` are so for these reasons: what is left of
them has no state and no order that could go wrong.

## 7. Plan

Done, in this order: `AtomicPublish`, `PacketCommit` and its proofs, because a wrong packet or
a false exit status is the worst the command can do; the analyzer; the pipeline; replay with
its contract; the ledger after the run; the corpus check; the proofs about each.

What could follow: the composition of `Diagnosis` with `Replay` in one module, in place of the
contract between them, if the two ever share more than one answer.
