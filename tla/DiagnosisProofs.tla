--------------------------- MODULE DiagnosisProofs ---------------------------
(***************************************************************************)
(* What a run puts into the ledger and proposes, for every trace.          *)
(***************************************************************************)
EXTENDS Diagnosis, AnalysisProofs

(***************************************************************************)
(* The inductive invariant, part by part.                                  *)
(***************************************************************************)
Stages == {"ingest", "evaluate", "hypotheses", "propose", "replay", "patch", "aborted",
           "replayed", "gate", "diagnose", "done"}
Outcome == {"patch", "replay", "gate_decision"}
Sources == Len(trace) + 1        \* the run record and the source records

(* The ledger is chained, and prev is its last record until the gate.      *)
Chained ==
    /\ \E S : records \in Seq(S)
    /\ LedgerChained
    /\ stage = "ingest" => records = <<>>
    /\ stage \notin {"diagnose", "done"} => prev = Len(records)
    /\ prev \in 0..Len(records)

(* It begins with the run record and the trace.                            *)
Sourced ==
    stage # "ingest" =>
        /\ Len(records) >= Sources
        /\ records[1].type = "run" /\ records[1].class \in Classes
        /\ \A i \in DOMAIN trace : /\ records[i + 1].type = trace[i].type
                                   /\ records[i + 1].class = trace[i].class
                                   /\ records[i + 1].body = trace[i]

(* Then come the four hypotheses, then what replay and gate decide.        *)
Derived ==
    \A j \in DOMAIN records : j > Sources =>
        /\ records[j].class \in Classes
        /\ \A i \in DOMAIN trace : Rank[records[j].class] >= Rank[trace[i].class]
        /\ j <= Sources + 4 => /\ records[j].type = "hypothesis"
                               /\ records[j].body = findings[j - Sources]
        /\ j > Sources + 4 => records[j].type \in Outcome

(* How far the ledger is at each stage, and where the base was taken.      *)
Staged ==
    /\ stage \in Stages
    /\ findings = <<>> <=> stage \in {"ingest", "evaluate"}
    /\ stage = "evaluate" => Len(records) = Sources
    /\ stage = "hypotheses" => Len(records) <= Sources + 4
    /\ stage \in {"propose", "replay", "patch", "aborted"} => Len(records) = Sources + 4
    /\ stage \in {"replayed", "gate", "diagnose", "done"} => Len(records) >= Sources + 4
    /\ base = IF stage \in {"ingest", "evaluate", "hypotheses"} THEN 0 ELSE Sources + 4

(* The fourth finding is the taint loop's report, cut off.                 *)
Judged ==
    findings # <<>> =>
        /\ Len(findings) = 4
        /\ TaintFinding.result = IF reused = <<>> THEN "abstention" ELSE "hypothesis"
        /\ \A k \in DOMAIN TaintFinding.evidence :
             k \in DOMAIN reused /\ TaintFinding.evidence[k] = reused[k]
        /\ reused # <<>> => 1 \in DOMAIN TaintFinding.evidence

TaintResolves ==
    \A k \in DOMAIN TaintFinding.evidence : Resolves(trace, TaintFinding.evidence[k])

Proposing == {"ingest", "evaluate", "hypotheses", "propose"}

(* There is a patch from its proposal on, justified, and then recorded.    *)
Patched ==
    /\ stage \in Proposing => patch = NoPatch
    /\ stage \in {"replay", "patch", "replayed"} => patch # NoPatch
    /\ patch # NoPatch => patch.target \in MemoryKeys /\ patch.hypothesis = Sources + 4
    /\ PatchJustified
    /\ patch # NoPatch /\ stage \in {"replayed", "gate", "diagnose", "done"}
         => Positions("patch") # {}

NoMemoryHypothesis == NotRun("no_memory_quarantine_hypothesis")
Incomplete == NotRun("hypothesis_evidence_incomplete_or_ambiguous")

(* A replay is recorded only when it ran, and the evidence is called       *)
(* incomplete exactly when the trace itself says so.                       *)
Replayed ==
    /\ stage \in Proposing => replay = NoMemoryHypothesis
    /\ stage = "replayed" => replay.mechanism # "not_run"
    /\ Positions("replay") # {} => replay.mechanism # "not_run"
    /\ stage \notin Proposing /\ TaintFinding.result = "hypothesis"
         => (TaintResolves <=> replay # Incomplete)

Diagnosed ==
    stage = "done" =>
        /\ \A i \in DOMAIN trace : Rank[diagnostic.class] >= Rank[trace[i].class]
        /\ diagnostic.base = base
        /\ LooksAgree
        /\ FailedReplayAbstains

Kept == ScanInv /\ TypeOK /\ Concluded
RunInv == Kept /\ Chained /\ Sourced /\ Derived /\ Staged /\ Judged
ProposalInv == RunInv /\ Patched /\ Replayed /\ Diagnosed

-----------------------------------------------------------------------------
(* Appending one record keeps those that are there.                        *)
LEMMA Grows ==
    ASSUME Chained, NEW e, records' = Append(records, e)
    PROVE  /\ \E S : records' \in Seq(S)
           /\ Len(records) \in Nat
           /\ Len(records') = Len(records) + 1
           /\ DOMAIN records = 1..Len(records)
           /\ DOMAIN records' = 1..(Len(records) + 1)
           /\ \A i \in DOMAIN records : records'[i] = records[i]
           /\ records'[Len(records) + 1] = e
<1>1. PICK S : records \in Seq(S)
  BY DEF Chained
<1>2. records \in Seq(S \cup {e})
  BY <1>1
<1>3. records' \in Seq(S \cup {e})
  BY <1>2
<1> QED
  BY <1>2, <1>3

(* The strictest of a set of classifications is one of them, and none of   *)
(* them ranks above it.                                                    *)
LEMMA StrictestIsHighest ==
    ASSUME NEW C \in SUBSET Classes, C # {}, NEW default
    PROVE  /\ Strictest(C, default) \in C
           /\ \A d \in C : Rank[d] <= Rank[Strictest(C, default)]
<1>1. \E c \in C : \A d \in C : Rank[d] <= Rank[c]
  <2>1. /\ Rank["public"] = 0 /\ Rank["internal"] = 1
        /\ Rank["sensitive"] = 2 /\ Rank["unknown"] = 3
    BY DEF Rank
  <2>2. C \subseteq {"public", "internal", "sensitive", "unknown"}
    BY DEF Classes
  <2>3. CASE "unknown" \in C
    BY <2>1, <2>2, <2>3
  <2>4. CASE "unknown" \notin C /\ "sensitive" \in C
    BY <2>1, <2>2, <2>4
  <2>5. CASE "unknown" \notin C /\ "sensitive" \notin C /\ "internal" \in C
    BY <2>1, <2>2, <2>5
  <2>6. CASE C = {"public"}
    BY <2>1, <2>6
  <2> QED
    BY <2>2, <2>3, <2>4, <2>5, <2>6
<1> QED
  BY <1>1 DEF Strictest

(* What every source record has.                                           *)
LEMMA SourceFields ==
    ASSUME NEW r \in SourceRecords
    PROVE  /\ r.id \in SourceIds /\ r.class \in Classes /\ r.type \in SourceTypes
           /\ r.type = "memory_op" => r.key \in MemoryKeys
BY DEF SourceRecords, Events, Edges, MemoryOps, SourceTypes

(* What a derived record is classified as.                                 *)
LEMMA InheritedIsStrictest ==
    ASSUME Kept, Chained, Sourced, stage # "ingest"
    PROVE  /\ Inherited \in Classes
           /\ \A i \in DOMAIN trace : Rank[Inherited] >= Rank[trace[i].class]
<1> DEFINE first == SubSeq(records, 1, Len(trace) + 1)
           classes == {first[i].class : i \in DOMAIN first}
<1>1. /\ Len(trace) \in Nat /\ DOMAIN trace = 1..Len(trace)
      /\ \A i \in DOMAIN trace : trace[i].class \in Classes
  BY SourceFields DEF Kept, TypeOK
<1>2. PICK S : records \in Seq(S)
  BY DEF Chained
<1>3. /\ DOMAIN first = 1..(Len(trace) + 1)
      /\ \A i \in 1..(Len(trace) + 1) : first[i] = records[i]
  BY <1>1, <1>2 DEF Sourced, Sources
<1>4. \A i \in DOMAIN trace : first[i + 1].class = trace[i].class /\ i + 1 \in DOMAIN first
  BY <1>1, <1>3 DEF Sourced
<1>5. \A j \in DOMAIN first : first[j].class \in Classes
  <2> SUFFICES ASSUME NEW j \in DOMAIN first PROVE first[j].class \in Classes
    OBVIOUS
  <2>1. CASE j = 1
    BY <2>1, <1>1, <1>3 DEF Sourced
  <2>2. CASE j # 1
    <3>1. j - 1 \in DOMAIN trace /\ j = (j - 1) + 1
      BY <2>2, <1>1, <1>3
    <3> QED
      BY <3>1, <1>1, <1>4
  <2> QED
    BY <2>1, <2>2
<1>6. classes \in SUBSET Classes /\ classes # {}
  BY <1>1, <1>3, <1>5
<1>7. Inherited = Strictest(classes, "unknown")
  BY DEF Inherited, StrictestOf
<1> HIDE DEF classes
<1>8. Inherited \in classes /\ \A d \in classes : Rank[d] <= Rank[Inherited]
  BY <1>6, <1>7, StrictestIsHighest
<1>9. \A i \in DOMAIN trace : trace[i].class \in classes
  BY <1>4 DEF classes
<1>10. \A d \in Classes : Rank[d] \in Nat
  BY DEF Rank, Classes
<1> QED
  BY <1>1, <1>6, <1>8, <1>9, <1>10

-----------------------------------------------------------------------------
(* The analyzer's own variables move by the analyzer's steps only.         *)
LEMMA AnalysisKept ==
    ASSUME Kept, [Next]_vars
    PROVE  Kept'
<1>1. [AnalysisNext]_analysisVars
  BY DEF Next, vars, Ingest, Analyse, AppendHypothesis, BindBase, Propose, ReplayCompletes,
         ReplayFails, ReplayRaises, AppendPatch, AppendReplay, AppendGate, Diagnose
<1> QED
  BY <1>1, ScanNext, TypesNext, ConcludedNext DEF Kept

(* At first the ledger is empty.                                           *)
LEMMA RunStart == DiagnosisInit => RunInv
<1> SUFFICES ASSUME DiagnosisInit PROVE RunInv
  OBVIOUS
<1>1. Kept
  BY ScanStart, TypesStart DEF DiagnosisInit, AnalysisInit, Concluded, Kept
<1>2. findings = <<>> /\ records = <<>> /\ prev = 0 /\ stage = "ingest" /\ base = 0
  BY DEF DiagnosisInit, AnalysisInit
<1>3. records \in Seq({}) /\ Len(records) = 0 /\ DOMAIN records = {}
  BY <1>2
<1> QED
  BY <1>1, <1>2, <1>3 DEF RunInv, Chained, LedgerChained, Sourced, Derived, Staged, Stages, Judged

(* Ingestion puts the run record and the trace into the ledger.            *)
LEMMA IngestKeeps ==
    ASSUME RunInv, Ingest
    PROVE  Chained' /\ Sourced' /\ Derived' /\ Staged' /\ Judged'
<1> DEFINE class == Strictest({trace[i].class : i \in DOMAIN trace}, "internal")
           run == Envelope("run", 0, class, <<>>, 0)
           rest == [i \in DOMAIN trace |-> Envelope(trace[i].type, i, trace[i].class, trace[i], i)]
           S == {run} \cup {rest[i] : i \in DOMAIN trace}
<1>1. /\ Len(trace) \in Nat /\ DOMAIN trace = 1..Len(trace)
      /\ \A i \in DOMAIN trace : trace[i].class \in Classes
      /\ findings = <<>> /\ base = 0
  BY SourceFields DEF Kept, TypeOK, RunInv, Staged, Ingest
<1>2. /\ stage' = "evaluate" /\ prev' = Len(trace) + 1 /\ records' = <<run>> \o rest
      /\ trace' = trace /\ findings' = findings /\ base' = base
  BY DEF Ingest, analysisVars
<1>3. class \in Classes
  <2>1. CASE {trace[i].class : i \in DOMAIN trace} = {}
    BY <2>1 DEF Strictest, Classes
  <2>2. CASE {trace[i].class : i \in DOMAIN trace} # {}
    BY <2>2, <1>1, StrictestIsHighest
  <2> QED
    BY <2>1, <2>2
<1>4. /\ run.type = "run" /\ run.class = class /\ run.sequence = 0 /\ run.prev = 0
      /\ \A i \in DOMAIN trace : /\ rest[i].type = trace[i].type /\ rest[i].body = trace[i]
                                 /\ rest[i].class = trace[i].class
                                 /\ rest[i].sequence = i /\ rest[i].prev = i
  BY DEF Envelope
<1>5. rest \in Seq(S) /\ Len(rest) = Len(trace) /\ <<run>> \in Seq(S)
  BY <1>1
<1> HIDE DEF class, run, rest, S
<1>6. /\ records' \in Seq(S) /\ Len(records') = Len(trace) + 1
      /\ DOMAIN records' = 1..(Len(trace) + 1)
      /\ records'[1] = run
      /\ \A i \in DOMAIN trace : records'[i + 1] = rest[i]
      /\ \A j \in 2..(Len(trace) + 1) : records'[j] = rest[j - 1] /\ j - 1 \in DOMAIN trace
  BY <1>1, <1>2, <1>5
<1>7. Chained'
  <2>1. \A j \in DOMAIN records' : records'[j].sequence = j - 1 /\ records'[j].prev = j - 1
    <3>1. \A j \in DOMAIN records' : j = 1 \/ j \in 2..(Len(trace) + 1)
      BY <1>1, <1>6
    <3> QED
      BY <3>1, <1>4, <1>6
  <2> QED
    BY <2>1, <1>1, <1>2, <1>6 DEF Chained, LedgerChained
<1>8. Sourced'
  BY <1>1, <1>2, <1>3, <1>4, <1>6 DEF Sourced, Sources
<1>9. Derived' /\ Staged' /\ Judged'
  BY <1>1, <1>2, <1>6 DEF Derived, Staged, Stages, Judged, Sources
<1> QED
  BY <1>7, <1>8, <1>9

(* The verdict: what its fourth finding says of the loop.                  *)
LEMMA ConcludeJudges ==
    ASSUME Kept, Conclude
    PROVE  Judged' /\ findings' # <<>>
<1>1. /\ reused \in Seq(SourceIds) /\ reused' = reused
      /\ Len(reused) \in Nat /\ DOMAIN reused = 1..Len(reused)
  BY DEF Kept, TypeOK, Conclude, scanVars
<1>2. PICK t : findings'[4] = Finding(Invariants[4], reused, t) /\ DOMAIN findings' = 1..4
               /\ Len(findings') = 4
  BY DEF Conclude, Evaluate, Invariants
<1> DEFINE n == Min({Len(reused), EvidenceLimit})
<1>3. /\ findings'[4].evidence = SubSeq(reused, 1, n)
      /\ n \in Nat /\ n <= Len(reused) /\ (Len(reused) > 0 => n > 0)
  <2>1. n = IF Len(reused) <= EvidenceLimit THEN Len(reused) ELSE EvidenceLimit
    BY <1>1, EvidenceAssumption, MinOfTwo
  <2>2. Finding(Invariants[4], reused, t).evidence = SubSeq(reused, 1, n)
    BY Zenon DEF Finding
  <2> HIDE DEF n
  <2> QED
    BY <1>1, <1>2, <2>1, <2>2, EvidenceAssumption
<1> HIDE DEF n
<1>4. findings'[4].result = IF reused = <<>> THEN "abstention" ELSE "hypothesis"
  BY <1>2 DEF Finding
<1>5. /\ DOMAIN SubSeq(reused, 1, n) = 1..n
      /\ \A k \in 1..n : SubSeq(reused, 1, n)[k] = reused[k] /\ k \in DOMAIN reused
  BY <1>1, <1>3
<1>6. reused # <<>> => 1 \in 1..n
  BY <1>1, <1>3
<1>7. findings' # <<>>
  BY <1>2
<1>8. /\ DOMAIN findings'[4].evidence = 1..n
      /\ \A k \in 1..n : findings'[4].evidence[k] = reused[k] /\ k \in DOMAIN reused
  BY <1>3, <1>5
<1> QED
  BY <1>1, <1>2, <1>4, <1>6, <1>7, <1>8 DEF Judged, TaintFinding

(* A step of the scan leaves the ledger alone.                             *)
LEMMA AnalyseKeeps ==
    ASSUME RunInv, Analyse
    PROVE  Chained' /\ Sourced' /\ Derived' /\ Staged' /\ Judged'
<1>1. /\ stage = "evaluate" /\ trace' = trace /\ records' = records /\ prev' = prev
      /\ base' = base /\ findings = <<>> /\ base = 0
      /\ stage' = IF findings' = <<>> THEN "evaluate" ELSE "hypotheses"
  BY DEF Analyse, RunInv, Staged, ledgerVars, AnalysisNext, SkipRecord, Quarantine, Touch, Conclude
<1>2. Judged'
  <2>1. CASE Conclude
    BY <2>1, ConcludeJudges DEF RunInv
  <2>2. CASE ~Conclude
    BY <2>2, <1>1 DEF Analyse, AnalysisNext, SkipRecord, Quarantine, Touch, Judged
  <2> QED
    BY <2>1, <2>2
<1>3. /\ Len(records) = Sources /\ Len(trace) \in Nat
      /\ \E S : records \in Seq(S)
  BY <1>1 DEF RunInv, Staged, Chained, Kept, TypeOK
<1>4. Chained' /\ Sourced'
  BY <1>1 DEF RunInv, Chained, LedgerChained, Sourced, Sources
<1>5. Derived' /\ Staged'
  BY <1>1, <1>3 DEF Derived, Staged, Stages, Sources
<1> QED
  BY <1>2, <1>4, <1>5

(* A derived record appended with prev before it: the hypotheses first, in *)
(* the findings' order, and the outcomes after them.                       *)
LEMMA AppendKeeps ==
    ASSUME RunInv, stage # "ingest", stage' # "ingest", UNCHANGED <<trace, findings>>,
           prev = Len(records),
           NEW t, NEW b,
           records' = Append(records, Envelope(t, Len(records), Inherited, b, prev)),
           prev' \in {prev, Len(records) + 1},
           stage' \notin {"diagnose", "done"} => prev' = Len(records) + 1,
           Len(records) < Sources + 4
             => t = "hypothesis" /\ b = findings[(Len(records) + 1) - Sources],
           Len(records) >= Sources + 4 => t \in Outcome
    PROVE  Chained' /\ Sourced' /\ Derived' /\ Len(records') = Len(records) + 1
<1> DEFINE e == Envelope(t, Len(records), Inherited, b, prev)
<1>1. /\ \E S : records' \in Seq(S)
      /\ Len(records) \in Nat
      /\ Len(records') = Len(records) + 1
      /\ DOMAIN records = 1..Len(records)
      /\ DOMAIN records' = 1..(Len(records) + 1)
      /\ \A i \in DOMAIN records : records'[i] = records[i]
      /\ records'[Len(records) + 1] = e
  BY Grows DEF RunInv
<1>2. /\ e.type = t /\ e.sequence = Len(records) /\ e.class = Inherited
      /\ e.body = b /\ e.prev = Len(records)
  BY DEF Envelope
<1> HIDE DEF e
<1>3. Chained'
  BY <1>1, <1>2 DEF RunInv, Chained, LedgerChained
<1>4. Len(trace) \in Nat /\ Sources' = Sources /\ Sources \in Nat
      /\ DOMAIN trace = 1..Len(trace) /\ Len(records) >= Sources
  BY DEF RunInv, Kept, TypeOK, Sourced, Sources
<1>5. Sourced'
  BY <1>1, <1>4 DEF RunInv, Sourced, Sources
<1>6. Derived'
  <2> SUFFICES ASSUME NEW j \in DOMAIN records', j > Sources'
               PROVE  Derived!(j)!2'
    BY DEF Derived
  <2>1. CASE j \in DOMAIN records
    BY <2>1, <1>1, <1>4 DEF RunInv, Derived
  <2>2. CASE j = Len(records) + 1
    <3>1. /\ Inherited \in Classes
          /\ \A i \in DOMAIN trace : Rank[Inherited] >= Rank[trace[i].class]
      BY InheritedIsStrictest DEF RunInv
    <3> QED
      BY <2>2, <3>1, <1>1, <1>2, <1>4
  <2> QED
    BY <2>1, <2>2, <1>1
<1> QED
  BY <1>1, <1>3, <1>5, <1>6

(* Steps that leave the ledger, the trace and the findings as they are.    *)
LEMMA LedgerLeft ==
    ASSUME RunInv, stage # "ingest", stage' # "ingest",
           UNCHANGED <<trace, findings, reused, records, prev>>,
           stage' \notin {"diagnose", "done"} => stage \notin {"diagnose", "done"}
    PROVE  Chained' /\ Sourced' /\ Derived' /\ Judged'
<1>1. Sources' = Sources
  BY DEF Sources
<1> QED
  BY <1>1 DEF RunInv, Chained, LedgerChained, Sourced, Derived, Judged, TaintFinding

(* The parts of the run keep each other.                                   *)
LEMMA RunNext ==
    ASSUME RunInv, [Next]_vars
    PROVE  RunInv'
<1> USE DEF RunInv
<1>1. Kept'
  BY AnalysisKept
<1>2. /\ Len(trace) \in Nat /\ Sources \in Nat /\ Len(records) \in Nat
      /\ findings # <<>> => Len(findings) = 4
  BY DEF Kept, TypeOK, Sources, Chained, Judged
<1>3. CASE Ingest
  BY <1>1, <1>3, IngestKeeps
<1>4. CASE Analyse
  BY <1>1, <1>4, AnalyseKeeps
<1>5. CASE AppendHypothesis
  <2>1. /\ stage = "hypotheses" /\ stage' = stage /\ Hypothesised < 4
        /\ UNCHANGED <<trace, findings, reused, base>> /\ prev = Len(records)
    BY <1>2, <1>5 DEF AppendHypothesis, analysisVars, Staged, Chained
  <2>2. Len(records) < Sources + 4 /\ (Len(records) + 1) - Sources = Hypothesised + 1
    BY <1>2, <2>1 DEF Hypothesised, Sources
  <2>3. Chained' /\ Sourced' /\ Derived' /\ Len(records') = Len(records) + 1
    BY <1>2, <1>5, <2>1, <2>2, AppendKeeps DEF AppendHypothesis, AppendDerived
  <2>4. Staged' /\ Judged'
    BY <1>2, <2>1, <2>2, <2>3 DEF Staged, Judged, TaintFinding, Sources
  <2> QED
    BY <1>1, <2>3, <2>4
<1>6. CASE BindBase
  <2>1. /\ stage = "hypotheses" /\ stage' = "propose" /\ base' = Len(records)
        /\ UNCHANGED <<trace, findings, reused, records, prev>>
    BY <1>6 DEF BindBase, LedgerSoFar, analysisVars, ledgerVars
  <2>2. Len(records) = Sources + 4
    <3>1. Hypothesised = 4
      BY <1>2, <1>6 DEF BindBase, Staged
    <3> QED
      BY <1>2, <3>1 DEF Hypothesised, Sources
  <2>3. Staged'
    BY <2>1, <2>2 DEF Staged, Stages, Sources
  <2> QED
    BY <1>1, <2>1, <2>3, LedgerLeft
<1>7. CASE Propose \/ ReplayCompletes \/ ReplayFails \/ ReplayRaises
  <2>1. /\ stage \in {"propose", "replay"} /\ stage' \in {"gate", "replay", "patch", "aborted"}
        /\ UNCHANGED <<trace, findings, reused, records, prev, base>>
    BY <1>7 DEF Propose, ReplayCompletes, ReplayFails, ReplayRaises, analysisVars, ledgerVars
  <2>2. Staged'
    BY <1>2, <2>1 DEF Staged, Stages, Sources
  <2> QED
    BY <1>1, <2>1, <2>2, LedgerLeft
<1>8. CASE AppendPatch \/ AppendReplay
  <2>1. /\ stage \in {"patch", "replayed"} /\ stage' \in {"replayed", "gate"}
        /\ UNCHANGED <<trace, findings, reused, base>> /\ prev = Len(records)
        /\ Len(records) >= Sources + 4 /\ prev' = Len(records) + 1
    BY <1>2, <1>8 DEF AppendPatch, AppendReplay, AppendDerived, analysisVars, Staged, Chained
  <2>2. PICK t \in Outcome, b \in {patch, replay} :
          records' = Append(records, Envelope(t, Len(records), Inherited, b, prev))
    BY <1>8 DEF AppendPatch, AppendReplay, AppendDerived, Outcome
  <2>3. Chained' /\ Sourced' /\ Derived' /\ Len(records') = Len(records) + 1
    BY <1>2, <2>1, <2>2, AppendKeeps
  <2>4. Staged' /\ Judged'
    BY <1>2, <2>1, <2>3 DEF Staged, Stages, Judged, TaintFinding, Sources
  <2> QED
    BY <1>1, <2>3, <2>4
<1>9. CASE AppendGate
  <2>1. /\ stage = "gate" /\ stage' = "diagnose" /\ prev = Len(records) /\ prev' = prev
        /\ UNCHANGED <<trace, findings, reused, base>> /\ Len(records) >= Sources + 4
    BY <1>9 DEF AppendGate, analysisVars, Staged, Chained
  <2>2. PICK b : records' = Append(records, Envelope("gate_decision", Len(records), Inherited,
                                                     b, prev))
    BY <1>9 DEF AppendGate
  <2>3. Chained' /\ Sourced' /\ Derived' /\ Len(records') = Len(records) + 1
    BY <1>2, <2>1, <2>2, AppendKeeps DEF Outcome
  <2>4. Staged' /\ Judged'
    BY <1>2, <2>1, <2>3 DEF Staged, Stages, Judged, TaintFinding, Sources
  <2> QED
    BY <1>1, <2>3, <2>4
<1>10. CASE Diagnose
  <2>1. /\ stage = "diagnose" /\ stage' = "done"
        /\ UNCHANGED <<trace, findings, reused, records, prev, base>>
    BY <1>10 DEF Diagnose, analysisVars, ledgerVars
  <2>2. Staged'
    BY <2>1 DEF Staged, Stages, Sources
  <2> QED
    BY <1>1, <2>1, <2>2, LedgerLeft
<1>11. CASE UNCHANGED vars
  <2>1. UNCHANGED <<trace, pos, reused, findings, stage, records, prev, base>>
    BY <1>11 DEF vars, analysisVars
  <2> QED
    BY <1>1, <2>1 DEF Chained, LedgerChained, Sourced, Derived, Staged, Judged, TaintFinding,
                      Sources
<1> QED
  BY <1>3, <1>4, <1>5, <1>6, <1>7, <1>8, <1>9, <1>10, <1>11 DEF Next

(* Which record stands where, and how far the run is, at every step        *)
(* (cli.py:81-151).                                                        *)
THEOREM RunInvariant == Spec => []RunInv
BY RunStart, RunNext, PTL DEF Spec

(* At every step the ledger is chained.                                    *)
THEOREM StaysChained == Spec => []LedgerChained
<1>1. RunInv => LedgerChained
  BY DEF RunInv, Chained
<1> QED
  BY <1>1, RunInvariant, PTL

-----------------------------------------------------------------------------
(* Which record stands where.                                              *)
LEMMA RecordsTell ==
    RunInv => /\ Sources \in Nat \ {0} /\ Len(records) \in Nat /\ DOMAIN records = 1..Len(records)
              /\ \A j \in DOMAIN records :
                   /\ records[j].class \in Classes
                   /\ j = 1 => records[j].type = "run"
                   /\ j \in 2..Sources => /\ j - 1 \in DOMAIN trace
                                          /\ records[j].type = trace[j - 1].type
                                          /\ records[j].body = trace[j - 1]
                                          /\ records[j].type \in SourceTypes
                   /\ j \in (Sources + 1)..(Sources + 4) => records[j].type = "hypothesis"
                   /\ j > Sources + 4 => records[j].type \in Outcome
<1> SUFFICES ASSUME RunInv
             PROVE  RecordsTell!2
  OBVIOUS
<1>1. /\ Sources \in Nat \ {0} /\ Len(records) \in Nat /\ DOMAIN records = 1..Len(records)
      /\ Len(trace) \in Nat /\ DOMAIN trace = 1..Len(trace) /\ Sources = Len(trace) + 1
  BY DEF RunInv, Kept, TypeOK, Chained, Sources
<1>2. CASE stage = "ingest"
  <2>1. DOMAIN records = {}
    BY <1>2 DEF RunInv, Chained
  <2> QED
    BY <1>1, <2>1
<1>3. CASE stage # "ingest"
  <2> SUFFICES ASSUME NEW j \in DOMAIN records
               PROVE  RecordsTell!2!2!(j)
    BY <1>1
  <2>1. CASE j \in 2..Sources
    <3>1. j - 1 \in DOMAIN trace /\ (j - 1) + 1 = j
      BY <1>1, <2>1
    <3>2. trace[j - 1].class \in Classes /\ trace[j - 1].type \in SourceTypes
      BY <3>1, SourceFields DEF RunInv, Kept, TypeOK
    <3>3. /\ records[j].type = trace[j - 1].type /\ records[j].class = trace[j - 1].class
          /\ records[j].body = trace[j - 1]
      BY <1>3, <3>1 DEF RunInv, Sourced
    <3> QED
      BY <1>1, <2>1, <3>1, <3>2, <3>3
  <2>2. CASE j \notin 2..Sources
    BY <1>1, <1>3, <2>2 DEF RunInv, Sourced, Derived
  <2> QED
    BY <2>1, <2>2
<1> QED
  BY <1>2, <1>3

(* Until the patch is recorded no outcome is.                              *)
LEMMA NoOutcomeYet ==
    RunInv /\ stage \in Proposing \cup {"replay", "patch"} =>
        \A j \in DOMAIN records : records[j].type \notin Outcome
<1> SUFFICES ASSUME RunInv, stage \in Proposing \cup {"replay", "patch"},
                    NEW j \in DOMAIN records
             PROVE  records[j].type \notin Outcome
  OBVIOUS
<1>1. CASE stage = "ingest"
  BY <1>1 DEF RunInv, Chained
<1>2. CASE stage # "ingest"
  <2>1. Len(records) <= Sources + 4
    BY <1>2, RecordsTell DEF RunInv, Staged, Proposing
  <2> QED
    BY <2>1, RecordsTell DEF Outcome, SourceTypes
<1> QED
  BY <1>1, <1>2

(* The ledger resolves a reference exactly as the trace does, however many *)
(* derived records have been appended.                                     *)
LEMMA LooksSame ==
    ASSUME RunInv, stage # "ingest", NEW ref
    PROVE  /\ Unique(ref) <=> Resolves(trace, ref)
           /\ \A i : Matches(trace, ref) = {i} => SourceOf(ref) = trace[i]
<1>1. /\ Len(trace) \in Nat /\ DOMAIN trace = 1..Len(trace) /\ Sources = Len(trace) + 1
      /\ Len(records) >= Sources
  BY DEF RunInv, Kept, TypeOK, Sources, Sourced
<1>2. \A j : j \in Bearers(ref) <=> j - 1 \in Matches(trace, ref) /\ j \in Int
  <2>1. ASSUME NEW j \in Bearers(ref) PROVE j - 1 \in Matches(trace, ref) /\ j \in Int
    <3>1. j \in DOMAIN records /\ records[j].type \in SourceTypes /\ records[j].body.id = ref
      BY DEF Bearers
    <3>2. j \in 2..Sources
      BY <3>1, RecordsTell DEF SourceTypes, Outcome
    <3> QED
      BY <3>1, <3>2, RecordsTell DEF Matches
  <2>2. ASSUME NEW j \in Int, j - 1 \in Matches(trace, ref) PROVE j \in Bearers(ref)
    <3>1. j - 1 \in DOMAIN trace /\ trace[j - 1].id = ref
      BY <2>2 DEF Matches
    <3>2. j \in DOMAIN records /\ j \in 2..Sources
      BY <1>1, <3>1, RecordsTell
    <3> QED
      BY <3>1, <3>2, RecordsTell DEF Bearers
  <2> QED
    BY <2>1, <2>2
<1>3. Bearers(ref) \subseteq DOMAIN records /\ Matches(trace, ref) \subseteq DOMAIN trace
  BY DEF Bearers, Matches
<1>4. \A i \in Int : Matches(trace, ref) = {i} <=> Bearers(ref) = {i + 1}
  <2>1. Bearers(ref) \subseteq Int /\ Matches(trace, ref) \subseteq Int
    BY <1>1, <1>3, RecordsTell
  <2>2. ASSUME NEW i \in Int, Matches(trace, ref) = {i} PROVE Bearers(ref) = {i + 1}
    <3>1. \A j \in Int : j \in Bearers(ref) <=> j - 1 = i
      BY <1>2, <2>2
    <3> QED
      BY <2>1, <3>1
  <2>3. ASSUME NEW i \in Int, Bearers(ref) = {i + 1} PROVE Matches(trace, ref) = {i}
    <3>1. \A j \in Int : j \in Matches(trace, ref) <=> j + 1 \in Bearers(ref)
      <4> SUFFICES ASSUME NEW j \in Int
                   PROVE  j \in Matches(trace, ref) <=> j + 1 \in Bearers(ref)
        OBVIOUS
      <4>1. j + 1 \in Int /\ (j + 1) - 1 = j
        OBVIOUS
      <4> QED
        BY <1>2, <4>1
    <3>2. \A j \in Int : j \in Matches(trace, ref) <=> j = i
      BY <2>3, <3>1
    <3> QED
      BY <2>1, <3>2
  <2> QED
    BY <2>2, <2>3
<1>5. Unique(ref) <=> Resolves(trace, ref)
  <2>1. ASSUME NEW j \in DOMAIN records, Bearers(ref) = {j} PROVE Resolves(trace, ref)
    <3>1. j \in Int /\ j - 1 \in Int /\ (j - 1) + 1 = j
      BY RecordsTell
    <3>2. Matches(trace, ref) = {j - 1}
      BY <1>4, <2>1, <3>1
    <3> QED
      BY <1>3, <3>2 DEF Resolves
  <2>2. ASSUME NEW i \in DOMAIN trace, Matches(trace, ref) = {i} PROVE Unique(ref)
    <3>1. i \in Int
      BY <1>1
    <3>2. Bearers(ref) = {i + 1}
      BY <1>4, <2>2, <3>1
    <3> QED
      BY <1>3, <3>2 DEF Unique
  <2> QED
    BY <2>1, <2>2 DEF Unique, Resolves
<1>6. ASSUME NEW i, Matches(trace, ref) = {i} PROVE SourceOf(ref) = trace[i]
  <2>1. i \in DOMAIN trace /\ i \in Int
    BY <1>1, <1>3, <1>6
  <2>2. Bearers(ref) = {i + 1} /\ i + 1 \in DOMAIN records
    BY <1>1, <1>4, <1>6, <2>1, RecordsTell
  <2>3. SourceOf(ref) = records[i + 1].body
    BY <2>2 DEF SourceOf
  <2> QED
    BY <2>1, <2>3 DEF RunInv, Sourced
<1> QED
  BY <1>5, <1>6

(* The reuses the verdict cites are memory operations: what the command    *)
(* asks of them beyond resolving is already so.                            *)
LEMMA EvidenceTells ==
    ASSUME RunInv, stage # "ingest", findings # <<>>
    PROVE  /\ EvidenceResolves(TaintFinding) <=> TaintResolves
           /\ MemoryEvidenceResolves(TaintFinding) <=> TaintResolves
<1>1. EvidenceResolves(TaintFinding) <=> TaintResolves
  BY LooksSame DEF EvidenceResolves, TaintResolves
<1>2. ASSUME TaintResolves, NEW k \in DOMAIN TaintFinding.evidence
      PROVE  SourceOf(TaintFinding.evidence[k]).type = "memory_op"
  <2> DEFINE ref == TaintFinding.evidence[k]
  <2>1. PICK i \in DOMAIN trace : Matches(trace, ref) = {i}
    BY <1>2 DEF TaintResolves, Resolves
  <2>2. ref \in ToSet(reused)
    BY DEF RunInv, Judged, ToSet
  <2>3. PICK m \in 1..(pos - 1) : ReusedAt(m) /\ trace[m].id = ref
    BY <2>2 DEF RunInv, Kept, ScanInv, ScanExact
  <2>4. m = i
    BY <2>1, <2>3 DEF Matches, ReusedAt, MemoryAt
  <2> QED
    BY <2>1, <2>3, <2>4, LooksSame DEF ReusedAt, MemoryAt
<1> QED
  BY <1>1, <1>2 DEF MemoryEvidenceResolves

-----------------------------------------------------------------------------
(* What is proposed is the earliest reuse, of a version nothing            *)
(* quarantines.                                                            *)
LEMMA ProposalJustified ==
    ASSUME ProposalInv, Propose, patch' # NoPatch
    PROVE  /\ stage' = "replay" /\ PatchJustified'
           /\ patch'.target \in MemoryKeys /\ patch'.hypothesis = Sources + 4
<1> USE DEF ProposalInv
<1> DEFINE ref == TaintFinding.evidence[1]
           target == SourceOf(ref).key
<1>1. /\ stage = "propose" /\ UNCHANGED <<trace, findings, records>> /\ findings # <<>>
      /\ TaintFinding' = TaintFinding
  BY DEF Propose, analysisVars, ledgerVars, RunInv, Staged, TaintFinding
<1>2. /\ stage' = "replay"
      /\ patch' = [target |-> target, base |-> Manifest, hypothesis |-> Len(trace) + 5]
      /\ TaintFinding.result = "hypothesis" /\ TaintResolves /\ target \notin Manifest.quarantine
  BY <1>1, EvidenceTells DEF Propose, Patched, Proposing, AlreadyQuarantined
<1>3. reused # <<>> /\ 1 \in DOMAIN TaintFinding.evidence /\ ref = reused[1]
  BY <1>1, <1>2 DEF RunInv, Judged
<1>4. PICK i \in 1..(pos - 1) : /\ ReusedAt(i) /\ reused[1] = trace[i].id
                                /\ \A j \in 1..(i - 1) : ~ReusedAt(j)
  BY <1>3 DEF RunInv, Kept, ScanInv, EarliestFirst
<1>5. i \in DOMAIN trace /\ trace[i].type = "memory_op"
  BY <1>4 DEF ReusedAt, MemoryAt
<1>6. Matches(trace, ref) = {i}
  <2>1. Resolves(trace, ref)
    BY <1>2, <1>3 DEF TaintResolves
  <2>2. i \in Matches(trace, ref)
    BY <1>3, <1>4, <1>5 DEF Matches
  <2> QED
    BY <2>1, <2>2 DEF Resolves
<1>7. target = trace[i].key /\ trace[i].key \in MemoryKeys
  BY <1>1, <1>5, <1>6, LooksSame, SourceFields DEF RunInv, Kept, TypeOK
<1>8. \A m \in DOMAIN trace : Quarantines(m) => trace[m].key # target
  <2>1. Manifest.quarantine =
          {trace[m].key : m \in {m \in {m \in DOMAIN trace : trace[m].type = "memory_op"} :
                                   trace[m].action = "quarantine"}}
    BY DEF Manifest
  <2> QED
    BY <1>2, <2>1 DEF Quarantines, MemoryAt
<1>9. patch'.target = target /\ patch'.hypothesis = Len(trace) + 5
  BY <1>2
<1>10. /\ Len(trace) + 5 = Sources + 4 /\ Len(trace) + 5 \in DOMAIN records
       /\ Sources \in Nat
  BY <1>1, RecordsTell DEF RunInv, Staged, Sources, Kept, TypeOK
<1>11. /\ records[Len(trace) + 5].type = "hypothesis"
       /\ records[Len(trace) + 5].body = TaintFinding
  BY <1>10 DEF RunInv, Derived, TaintFinding
<1> HIDE DEF ref, target
<1>12. PatchJustified'
  <2>1. \A m : /\ ReusedAt(m)' <=> ReusedAt(m)
               /\ Quarantines(m)' <=> Quarantines(m)
    BY <1>1 DEF ReusedAt, Quarantines, Taints, MemoryAt
  <2>2. Matches(trace, trace[i].id) = {i}
    BY <1>3, <1>4, <1>6 DEF ref
  <2>3. \A k \in DOMAIN TaintFinding.evidence : Resolves(trace, TaintFinding.evidence[k])
    BY <1>2 DEF TaintResolves
  <2> QED
    BY <1>1, <1>2, <1>4, <1>5, <1>7, <1>8, <1>9, <1>11, <2>1, <2>2, <2>3 DEF PatchJustified
<1> QED
  BY <1>2, <1>7, <1>9, <1>10, <1>12

(* A ledger that grows leaves a patch as justified as it was.              *)
LEMMA JustificationKept ==
    ASSUME RunInv, Patched, stage \notin Proposing, UNCHANGED <<trace, findings, patch>>,
           \A i \in DOMAIN records : i \in DOMAIN records' /\ records'[i] = records[i]
    PROVE  /\ PatchJustified'
           /\ patch # NoPatch => patch.target \in MemoryKeys /\ patch.hypothesis = (Sources + 4)'
           /\ Positions("patch") # {} => Positions("patch")' # {}
<1>1. \A m : ReusedAt(m)' <=> ReusedAt(m)
  BY DEF ReusedAt, Taints, Quarantines, MemoryAt
<1>2. \A m : Quarantines(m)' <=> Quarantines(m)
  BY DEF Quarantines, MemoryAt
<1>3. TaintFinding' = TaintFinding /\ Sources' = Sources
  BY DEF TaintFinding, Sources
<1>4. patch # NoPatch => patch.hypothesis \in DOMAIN records
  BY RecordsTell DEF RunInv, Staged, Stages, Patched, Proposing
<1>5. PatchJustified'
  BY <1>1, <1>2, <1>3, <1>4 DEF Patched, PatchJustified
<1>6. Positions("patch") \subseteq Positions("patch")'
  BY DEF Positions
<1> QED
  BY <1>3, <1>5, <1>6 DEF Patched

(* Before there is a patch, and when there never will be one.              *)
LEMMA EarlyKeeps ==
    ASSUME ProposalInv, RunInv', Ingest \/ Analyse \/ AppendHypothesis \/ BindBase
    PROVE  Patched' /\ Replayed' /\ Diagnosed'
<1>1. /\ stage \in Proposing /\ stage' \in Proposing /\ UNCHANGED <<patch, replay>>
      /\ patch = NoPatch /\ replay = NoMemoryHypothesis
  BY DEF Ingest, Analyse, AppendHypothesis, BindBase, Proposing, ProposalInv, Patched, Replayed
<1>2. \A j \in DOMAIN records' : records'[j].type \notin Outcome
  <2>1. (RunInv /\ stage \in Proposing \cup {"replay", "patch"} =>
           \A j \in DOMAIN records : records[j].type \notin Outcome)'
    BY NoOutcomeYet, PTL
  <2> QED
    BY <1>1, <2>1 DEF Proposing
<1>3. Positions("replay")' = {}
  BY <1>2 DEF Positions, Outcome
<1> QED
  BY <1>1, <1>3 DEF Patched, Replayed, Diagnosed, PatchJustified, Proposing, NoPatch

(* The proposal is of the earliest reuse, or there is a reason for none.   *)
LEMMA ProposeKeeps ==
    ASSUME ProposalInv, Propose
    PROVE  Patched' /\ Replayed' /\ Diagnosed'
<1>1. /\ stage = "propose" /\ stage' \in {"gate", "replay"} /\ findings # <<>>
      /\ UNCHANGED <<trace, findings, records>>
      /\ patch = NoPatch /\ replay = NoMemoryHypothesis
  BY DEF Propose, ProposalInv, Patched, Replayed, Proposing, RunInv, Staged, analysisVars,
         ledgerVars
<1>2. TaintFinding' = TaintFinding /\ (TaintResolves' <=> TaintResolves)
  BY <1>1 DEF TaintFinding, TaintResolves
<1>3. Positions("replay")' = {}
  <2>1. \A j \in DOMAIN records : records[j].type \notin Outcome
    BY <1>1, NoOutcomeYet DEF ProposalInv, Proposing
  <2> QED
    BY <1>1, <2>1 DEF Positions, Outcome
<1>4. Patched'
  <2>1. CASE patch' = NoPatch
    <3>1. stage' = "gate"
      BY <1>1, <2>1 DEF Propose, NoPatch
    <3> QED
      BY <2>1, <3>1 DEF Patched, PatchJustified, Proposing
  <2>2. CASE patch' # NoPatch
    <3>1. /\ stage' = "replay" /\ PatchJustified'
          /\ patch'.target \in MemoryKeys /\ patch'.hypothesis = (Sources + 4)'
      BY <1>1, <2>2, ProposalJustified DEF Sources
    <3> QED
      BY <2>2, <3>1 DEF Patched, Proposing
  <2> QED
    BY <2>1, <2>2
<1>5. TaintFinding.result = "hypothesis" => (TaintResolves <=> replay' # Incomplete)
  <2>1. NoMemoryHypothesis # Incomplete
    BY DEF NoMemoryHypothesis, Incomplete, NotRun
  <2>2. NotRun("target_already_quarantined_after_violation") # Incomplete
    BY DEF Incomplete, NotRun
  <2>3. stage # "ingest" /\ RunInv
    BY <1>1 DEF ProposalInv
  <2>4. MemoryEvidenceResolves(TaintFinding) <=> TaintResolves
    BY <1>1, <2>3, EvidenceTells
  <2> QED
    BY <1>1, <2>1, <2>2, <2>4 DEF Propose, Incomplete
<1> QED
  BY <1>1, <1>2, <1>3, <1>4, <1>5 DEF Replayed, Diagnosed, Proposing

(* The replay ran on the patch, or left it without a result.               *)
LEMMA ReplayKeeps ==
    ASSUME ProposalInv, ReplayCompletes \/ ReplayFails
    PROVE  Patched' /\ Replayed' /\ Diagnosed'
<1>1. /\ stage = "replay" /\ stage' = "patch"
      /\ UNCHANGED <<trace, findings, reused, records, patch>> /\ patch # NoPatch
      /\ \/ replay' = Comparison
         \/ replay' = [mechanism |-> "not_run", reason |-> "saved_task_replay_failed_closed",
                       reversed |-> FALSE]
  BY DEF ReplayCompletes, ReplayFails, ProposalInv, Patched, analysisVars, ledgerVars
<1>2. replay' # Incomplete
  <2>1. CASE replay' = Comparison
    <3>1. Comparison.mechanism = "bounded_declarative_document_comparison"
      BY DEF Comparison
    <3>2. Incomplete.mechanism = "not_run"
      BY DEF Incomplete, NotRun
    <3> QED
      BY <2>1, <3>1, <3>2
  <2>2. CASE replay' # Comparison
    BY <1>1, <2>2 DEF Incomplete, NotRun
  <2> QED
    BY <2>1, <2>2
<1>3. TaintFinding' = TaintFinding /\ (TaintResolves' <=> TaintResolves) /\ TaintResolves
  BY <1>1 DEF TaintFinding, TaintResolves, ProposalInv, Patched, PatchJustified
<1>4. Positions("replay")' = {}
  <2>1. \A j \in DOMAIN records : records[j].type \notin Outcome
    BY <1>1, NoOutcomeYet DEF ProposalInv
  <2> QED
    BY <1>1, <2>1 DEF Positions, Outcome
<1>5. /\ PatchJustified'
      /\ patch # NoPatch => patch.target \in MemoryKeys /\ patch.hypothesis = (Sources + 4)'
  BY <1>1, JustificationKept DEF ProposalInv, Proposing
<1> QED
  BY <1>1, <1>2, <1>3, <1>4, <1>5 DEF Patched, Replayed, Diagnosed, Proposing

(* A replay that raised leaves the patch unrecorded and nothing diagnosed. *)
LEMMA RaisingKeeps ==
    ASSUME ProposalInv, ReplayRaises
    PROVE  Patched' /\ Replayed' /\ Diagnosed'
<1>1. /\ stage = "replay" /\ stage' = "aborted" /\ stage \notin Proposing
      /\ UNCHANGED <<trace, findings, reused, records, patch, replay>>
  BY DEF ReplayRaises, Proposing, analysisVars, ledgerVars
<1>2. TaintFinding' = TaintFinding /\ (TaintResolves' <=> TaintResolves)
  BY <1>1 DEF TaintFinding, TaintResolves
<1>3. Positions("replay")' = Positions("replay")
  BY <1>1 DEF Positions
<1>4. /\ PatchJustified'
      /\ patch # NoPatch => patch.target \in MemoryKeys /\ patch.hypothesis = (Sources + 4)'
  BY <1>1, JustificationKept DEF ProposalInv
<1> QED
  BY <1>1, <1>2, <1>3, <1>4 DEF Patched, Replayed, Diagnosed, Proposing, ProposalInv

(* The patch is recorded; the replay after it, if it ran.                  *)
LEMMA AppendOutcomeKeeps ==
    ASSUME ProposalInv, RunInv', AppendPatch \/ AppendReplay \/ AppendGate
    PROVE  Patched' /\ Replayed' /\ Diagnosed'
<1>1. /\ stage \notin Proposing /\ stage' \in {"replayed", "gate", "diagnose"}
      /\ UNCHANGED <<trace, findings, patch, replay>>
      /\ stage' = "replayed" => replay.mechanism # "not_run"
      /\ stage' = "replayed" => patch # NoPatch
      /\ TaintFinding' = TaintFinding /\ (TaintResolves' <=> TaintResolves)
  BY DEF AppendPatch, AppendReplay, AppendGate, ProposalInv, Patched, Proposing, analysisVars,
         TaintFinding, TaintResolves
<1>2. PICK e : /\ records' = Append(records, e)
               /\ AppendPatch => e.type = "patch"
               /\ AppendReplay => e.type = "replay"
               /\ AppendGate => e.type = "gate_decision"
  <2>1. CASE AppendPatch
    BY <2>1 DEF AppendPatch, AppendReplay, AppendGate, AppendDerived, Envelope
  <2>2. CASE AppendReplay
    BY <2>2 DEF AppendPatch, AppendReplay, AppendGate, AppendDerived, Envelope
  <2>3. CASE AppendGate
    BY <2>3 DEF AppendPatch, AppendReplay, AppendGate, Envelope
  <2> QED
    BY <2>1, <2>2, <2>3
<1>3. /\ Len(records) \in Nat /\ DOMAIN records = 1..Len(records)
      /\ DOMAIN records' = 1..(Len(records) + 1)
      /\ \A i \in DOMAIN records : i \in DOMAIN records' /\ records'[i] = records[i]
      /\ records'[Len(records) + 1] = e
  BY <1>2, Grows DEF ProposalInv, RunInv
<1>4. /\ PatchJustified'
      /\ patch # NoPatch => patch.target \in MemoryKeys /\ patch.hypothesis = (Sources + 4)'
      /\ Positions("patch") # {} => Positions("patch")' # {}
  BY <1>1, <1>3, JustificationKept DEF ProposalInv
<1>5. patch # NoPatch => Positions("patch")' # {}
  <2>1. CASE AppendPatch
    BY <1>2, <1>3, <2>1 DEF Positions
  <2>2. CASE AppendReplay \/ AppendGate
    BY <1>4, <2>2 DEF AppendReplay, AppendGate, ProposalInv, Patched
  <2> QED
    BY <2>1, <2>2
<1>6. Positions("replay")' # {} => replay.mechanism # "not_run"
  <2>1. CASE AppendPatch
    <3>1. \A j \in DOMAIN records : records[j].type \notin Outcome
      BY <2>1, NoOutcomeYet DEF ProposalInv, AppendPatch
    <3> QED
      BY <1>2, <1>3, <2>1, <3>1 DEF Positions, Outcome
  <2>2. CASE AppendReplay
    BY <2>2 DEF AppendReplay, ProposalInv, Replayed
  <2>3. CASE AppendGate
    BY <1>2, <1>3, <2>3 DEF Positions, ProposalInv, Replayed, AppendGate, AppendPatch
  <2> QED
    BY <2>1, <2>2, <2>3
<1> QED
  BY <1>1, <1>4, <1>5, <1>6 DEF Patched, Replayed, Diagnosed, Proposing, ProposalInv

(* The diagnostic is classified like the strictest record of the ledger.   *)
LEMMA DiagnosticClass ==
    ASSUME RunInv, stage # "ingest"
    PROVE  /\ StrictestOf(records) \in Classes
           /\ \A i \in DOMAIN trace : Rank[StrictestOf(records)] >= Rank[trace[i].class]
<1> DEFINE classes == {records[j].class : j \in DOMAIN records}
<1>1. classes \subseteq Classes
  BY RecordsTell
<1>2. records[1].class \in classes
  BY RecordsTell DEF RunInv, Sourced
<1>3. \A i \in DOMAIN trace : trace[i].class \in classes
  <2> SUFFICES ASSUME NEW i \in DOMAIN trace PROVE trace[i].class \in classes
    OBVIOUS
  <2>1. i + 1 \in DOMAIN records
    BY RecordsTell DEF RunInv, Sourced, Sources, Kept, TypeOK
  <2>2. records[i + 1].class = trace[i].class
    BY DEF RunInv, Sourced
  <2> QED
    BY <2>1, <2>2
<1>4. StrictestOf(records) = Strictest(classes, "unknown")
  BY DEF StrictestOf
<1> HIDE DEF classes
<1>5. /\ StrictestOf(records) \in classes
      /\ \A c \in classes : Rank[c] <= Rank[StrictestOf(records)]
  BY <1>1, <1>2, <1>4, StrictestIsHighest
<1>6. \A c \in Classes : Rank[c] \in Nat
  BY DEF Rank, Classes
<1> QED
  BY <1>1, <1>3, <1>5, <1>6

(* A replay that did not run stands against the recommendation.            *)
LEMMA NotRunBlocks ==
    ASSUME replay.mechanism = "not_run", Blockers = {}
    PROVE  Supported # {4}
<1>1. ~CriteriaPassed
  BY DEF CriteriaPassed
<1>2. Supported = {4} => "saved_task_comparison_incomplete_or_failed" \in Blockers
  BY <1>1 DEF Blockers
<1> QED
  BY <1>2

(* The diagnostic is of this patch and this replay.                        *)
LEMMA DiagnoseKeeps ==
    ASSUME ProposalInv, Diagnose
    PROVE  Patched' /\ Replayed' /\ Diagnosed'
<1>1. /\ stage = "diagnose" /\ stage' = "done" /\ findings # <<>>
      /\ UNCHANGED <<trace, pos, findings, reused, records, base, patch, replay>>
      /\ TaintFinding' = TaintFinding /\ (TaintResolves' <=> TaintResolves)
  BY DEF Diagnose, analysisVars, ledgerVars, ProposalInv, RunInv, Staged, TaintFinding,
         TaintResolves
<1>2. /\ diagnostic'.proposals = Supported /\ diagnostic'.base = base
      /\ diagnostic'.class = StrictestOf(records)
      /\ diagnostic'.recommendation = IF Blockers = {} /\ Supported = {4}
                                        THEN "human_may_consider_promotion"
                                        ELSE "abstain_no_promotion_recommendation"
  BY DEF Diagnose, ProposalBase
<1>3. Positions("patch")' = Positions("patch") /\ Positions("replay")' = Positions("replay")
  BY <1>1 DEF Positions
<1>4. 4 \in Supported <=> TaintFinding.result = "hypothesis" /\ TaintResolves
  <2>1. 4 \in DOMAIN findings
    BY <1>1 DEF ProposalInv, RunInv, Kept, TypeOK
  <2>2. EvidenceResolves(findings[4]) <=> TaintResolves
    BY <1>1, EvidenceTells DEF ProposalInv, TaintFinding
  <2> QED
    BY <2>1, <2>2 DEF Supported, Points, TaintFinding
<1>5. LooksAgree'
  BY <1>1, <1>2, <1>4 DEF LooksAgree, ProposalInv, Replayed, Incomplete, Proposing
<1>6. FailedReplayAbstains'
  <2>1. ASSUME patch # NoPatch, replay.mechanism = "not_run"
        PROVE  /\ Positions("patch") # {} /\ Positions("replay") = {}
               /\ diagnostic'.recommendation = "abstain_no_promotion_recommendation"
    BY <1>1, <1>2, <2>1, NotRunBlocks DEF ProposalInv, Patched, Replayed
  <2> QED
    BY <1>1, <1>3, <2>1 DEF FailedReplayAbstains
<1>7. \A i \in DOMAIN trace : Rank[diagnostic'.class] >= Rank[trace[i].class]
  BY <1>1, <1>2, DiagnosticClass DEF ProposalInv
<1>8. PatchJustified'
  BY <1>1, JustificationKept DEF ProposalInv, Proposing
<1> QED
  BY <1>1, <1>2, <1>3, <1>5, <1>6, <1>7, <1>8
  DEF Patched, Replayed, Diagnosed, ProposalInv, Proposing, Sources

(* At first there is no proposal.                                          *)
LEMMA ProposalStart == DiagnosisInit => ProposalInv
<1> SUFFICES ASSUME DiagnosisInit PROVE ProposalInv
  OBVIOUS
<1>1. RunInv
  BY RunStart
<1>2. /\ records = <<>> /\ stage = "ingest" /\ patch = NoPatch /\ replay = NoMemoryHypothesis
  BY DEF DiagnosisInit, NoMemoryHypothesis
<1>3. Positions("replay") = {}
  BY <1>2 DEF Positions
<1> QED
  BY <1>1, <1>2, <1>3 DEF ProposalInv, Patched, Replayed, Diagnosed, PatchJustified, Proposing

(* Every step keeps what is said of the proposal.                          *)
LEMMA ProposalNext ==
    ASSUME ProposalInv, [Next]_vars
    PROVE  ProposalInv'
<1>1. RunInv'
  BY RunNext DEF ProposalInv
<1>2. CASE UNCHANGED vars
  <2>1. UNCHANGED <<trace, pos, findings, reused, stage, records, base, patch, replay, diagnostic>>
    BY <1>2 DEF vars, analysisVars
  <2>2. \A m : /\ ReusedAt(m)' <=> ReusedAt(m)
               /\ Quarantines(m)' <=> Quarantines(m)
    BY <2>1 DEF ReusedAt, Taints, Quarantines, MemoryAt
  <2>3. PatchJustified'
    BY <2>1, <2>2 DEF ProposalInv, Patched, PatchJustified, TaintFinding
  <2>4. Patched' /\ Replayed'
    BY <2>1, <2>3
    DEF ProposalInv, Patched, Replayed, Positions, TaintFinding, TaintResolves, Sources
  <2>5. Diagnosed'
    BY <2>1 DEF ProposalInv, Diagnosed, LooksAgree, FailedReplayAbstains, Positions, TaintFinding
  <2> QED
    BY <1>1, <2>4, <2>5 DEF ProposalInv
<1> QED
  BY <1>1, <1>2, EarlyKeeps, ProposeKeeps, ReplayKeeps, RaisingKeeps, AppendOutcomeKeeps,
     DiagnoseKeeps
  DEF Next, ProposalInv

(* What patch, replay and diagnostic are of each other, at every step      *)
(* (cli.py:98-183).                                                        *)
THEOREM ProposalInvariant == Spec => []ProposalInv
BY ProposalStart, ProposalNext, PTL DEF Spec

(* The ledger and the stages are what RECORD_TYPES and ENUMS allow.        *)
THEOREM RunTypes == Spec => []DiagnosisTypeOK
<1>1. ProposalInv => DiagnosisTypeOK
  <2> SUFFICES ASSUME ProposalInv PROVE DiagnosisTypeOK
    OBVIOUS
  <2>1. \A j \in DOMAIN records : records[j].type \in Types /\ records[j].class \in Classes
    BY RecordsTell DEF ProposalInv, Types, Outcome, SourceTypes
  <2>2. base \in 0..Len(records) /\ prev \in 0..Len(records)
    BY RecordsTell DEF ProposalInv, RunInv, Staged, Stages, Chained
  <2> QED
    BY <2>1, <2>2 DEF ProposalInv, RunInv, Kept, Staged, Stages, Patched, DiagnosisTypeOK
<1> QED
  BY <1>1, ProposalInvariant, PTL

(* What is derived, the diagnostic included, ranks with the strictest of   *)
(* the trace, however many classifications the trace mixes.                *)
THEOREM DerivedRanks == Spec => []DerivedInherit
<1>1. ProposalInv => DerivedInherit
  BY RecordsTell DEF ProposalInv, RunInv, Derived, Diagnosed, DerivedInherit, Sources
<1> QED
  BY <1>1, ProposalInvariant, PTL

(* The base of the proposals covers the hypotheses and nothing after them. *)
THEOREM BaseIsInput == Spec => []BasePrecedesOutcome
<1>1. ProposalInv => BasePrecedesOutcome
  <2> SUFFICES ASSUME ProposalInv, stage = "done" PROVE BasePrecedesOutcome
    BY DEF BasePrecedesOutcome
  <2>1. diagnostic.base = Sources + 4
    BY DEF ProposalInv, Diagnosed, RunInv, Staged
  <2>2. \A j \in DOMAIN records : j <= Sources + 4 <=> records[j].type \notin Outcome
    BY RecordsTell DEF ProposalInv, Outcome, SourceTypes
  <2> QED
    BY <2>1, <2>2 DEF BasePrecedesOutcome, Outcome
<1> QED
  BY <1>1, ProposalInvariant, PTL

(* A patch is of the earliest forbidden reuse and nothing else.            *)
THEOREM PatchesJustly == Spec => []PatchJustified
<1>1. ProposalInv => PatchJustified
  BY DEF ProposalInv, Patched
<1> QED
  BY <1>1, ProposalInvariant, PTL

(* A patch whose replay failed is kept without a replay record, and the    *)
(* diagnostic abstains.                                                    *)
THEOREM FailureAbstains == Spec => []FailedReplayAbstains
<1>1. ProposalInv => FailedReplayAbstains
  BY DEF ProposalInv, Diagnosed, FailedReplayAbstains
<1> QED
  BY <1>1, ProposalInvariant, PTL

(* The command and the diagnostic resolve the evidence alike.              *)
THEOREM BothLooksAgree == Spec => []LooksAgree
<1>1. ProposalInv => LooksAgree
  BY DEF ProposalInv, Diagnosed, LooksAgree
<1> QED
  BY <1>1, ProposalInvariant, PTL

-----------------------------------------------------------------------------
(* A replay that ran is recorded, right after the patch it was of; the     *)
(* diagnostic comes last.                                                  *)
Ran == replay.mechanism # "not_run"
PatchAt(i) == i \in DOMAIN records /\ records[i].type = "patch" /\ records[i].body = patch
ReplayAt(i) == i \in DOMAIN records /\ records[i].type = "replay"

Recorded ==
    /\ stage # "done" => diagnostic = NoDiagnostic
    /\ stage = "replayed" => Len(records) = Sources + 5 /\ PatchAt(Sources + 5)
    /\ stage \in {"gate", "diagnose"} /\ Ran =>
         patch # NoPatch /\ PatchAt(Sources + 5) /\ ReplayAt(Sources + 6)

RecommendInv == ProposalInv /\ Recorded /\ RecommendationJustified

(* What was replayed is recorded, and stays so.                            *)
LEMMA RecordedNext ==
    ASSUME ProposalInv, Recorded, Next
    PROVE  Recorded'
<1>1. /\ Sources \in Nat /\ Len(records) \in Nat /\ DOMAIN records = 1..Len(records)
  BY RecordsTell DEF ProposalInv
<1>2. CASE Ingest \/ Analyse \/ AppendHypothesis \/ BindBase
  BY <1>2 DEF Ingest, Analyse, AppendHypothesis, BindBase, Recorded
<1>3. CASE Propose
  <2>1. /\ stage = "propose" /\ stage' \in {"gate", "replay"} /\ diagnostic' = diagnostic
        /\ replay.mechanism = "not_run"
    BY <1>3 DEF Propose, ProposalInv, Replayed, Proposing, NoMemoryHypothesis, NotRun
  <2>2. replay'.mechanism = "not_run"
    BY <1>3, <2>1 DEF Propose, NotRun
  <2> QED
    BY <2>1, <2>2 DEF Recorded, Ran
<1>4. CASE ReplayCompletes \/ ReplayFails \/ ReplayRaises
  BY <1>4 DEF ReplayCompletes, ReplayFails, ReplayRaises, Recorded
<1>5. CASE AppendPatch
  <2> DEFINE e == Envelope("patch", Len(records), Inherited, patch, prev)
  <2>1. /\ stage = "patch" /\ records' = Append(records, e)
        /\ stage' = IF Ran THEN "replayed" ELSE "gate"
        /\ UNCHANGED <<trace, patch, replay, diagnostic>>
    BY <1>5 DEF AppendPatch, AppendDerived, analysisVars, Ran
  <2>2. e.type = "patch" /\ e.body = patch
    BY DEF Envelope
  <2> HIDE DEF e
  <2>3. /\ Len(records') = Len(records) + 1 /\ DOMAIN records' = 1..(Len(records) + 1)
        /\ records'[Len(records) + 1] = e
    BY <2>1, Grows DEF ProposalInv, RunInv
  <2>4. Len(records) = Sources + 4 /\ Sources' = Sources
    BY <2>1 DEF ProposalInv, RunInv, Staged, Sources
  <2>5. Len(records') = Sources' + 5 /\ PatchAt(Sources + 5)'
    BY <1>1, <2>1, <2>2, <2>3, <2>4 DEF PatchAt
  <2> QED
    BY <2>1, <2>5 DEF Recorded, Ran
<1>6. CASE AppendReplay
  <2> DEFINE e == Envelope("replay", Len(records), Inherited, replay, prev)
  <2>1. /\ stage = "replayed" /\ records' = Append(records, e) /\ stage' = "gate"
        /\ UNCHANGED <<trace, patch, replay, diagnostic>>
    BY <1>6 DEF AppendReplay, AppendDerived, analysisVars
  <2>2. e.type = "replay"
    BY DEF Envelope
  <2> HIDE DEF e
  <2>3. /\ DOMAIN records' = 1..(Len(records) + 1)
        /\ \A i \in DOMAIN records : records'[i] = records[i]
        /\ records'[Len(records) + 1] = e
    BY <2>1, Grows DEF ProposalInv, RunInv
  <2>4. Len(records) = Sources + 5 /\ Sources' = Sources /\ PatchAt(Sources + 5)
    BY <2>1 DEF Recorded, Sources
  <2>5. PatchAt(Sources + 5)' /\ ReplayAt(Sources + 6)'
    BY <1>1, <2>1, <2>2, <2>3, <2>4 DEF PatchAt, ReplayAt
  <2>6. patch # NoPatch
    BY <2>1 DEF ProposalInv, Patched
  <2> QED
    BY <2>1, <2>5, <2>6 DEF Recorded
<1>7. CASE AppendGate
  <2>1. PICK e : records' = Append(records, e)
    BY <1>7 DEF AppendGate
  <2>2. /\ stage = "gate" /\ stage' = "diagnose"
        /\ UNCHANGED <<trace, patch, replay, diagnostic>>
    BY <1>7 DEF AppendGate, analysisVars
  <2>3. /\ DOMAIN records' = 1..(Len(records) + 1)
        /\ \A i \in DOMAIN records : records'[i] = records[i]
    BY <2>1, Grows DEF ProposalInv, RunInv
  <2>4. Sources' = Sources /\ \A i \in DOMAIN records : i \in DOMAIN records'
    BY <1>1, <2>2, <2>3 DEF Sources
  <2>5. \A i : (PatchAt(i) => PatchAt(i)') /\ (ReplayAt(i) => ReplayAt(i)')
    BY <2>2, <2>3, <2>4 DEF PatchAt, ReplayAt
  <2>6. Ran' <=> Ran
    BY <2>2 DEF Ran
  <2> QED
    BY <2>2, <2>4, <2>5, <2>6 DEF Recorded
<1>8. CASE Diagnose
  BY <1>8 DEF Diagnose, Recorded
<1> QED
  BY <1>2, <1>3, <1>4, <1>5, <1>6, <1>7, <1>8 DEF Next

(* Nothing stands against the one proposal: it is the taint loop's, none   *)
(* of the other invariants was broken, and its replay ran and reversed.    *)
LEMMA NothingStands ==
    ASSUME ProposalInv, findings # <<>>, Blockers = {}, Supported = {4}
    PROVE  /\ \A k \in 1..3 : findings[k].result # "hypothesis"
           /\ ~BuildLineage(trace).truncated
           /\ Ran /\ replay.reversed
<1>1. /\ ~(\E k \in Points : k \notin Supported \/ Limited(k))
      /\ CriteriaPassed
  <2> DEFINE stands ==
         [no_invariant_violation_observed |-> Points = {},
          evidence_support_incomplete_or_ambiguous |->
              \E k \in Points : k \notin Supported \/ Limited(k),
          multiple_supported_failure_points_require_disambiguation |->
              Cardinality(Supported) > 1,
          proposal_not_eligible_for_saved_task_comparison |->
              Cardinality(Supported) = 1 /\ 4 \notin Supported,
          saved_task_comparison_incomplete_or_failed |-> Supported = {4} /\ ~CriteriaPassed]
  <2>1. \A b \in DOMAIN stands : ~stands[b]
    BY DEF Blockers
  <2>2. /\ ~stands["evidence_support_incomplete_or_ambiguous"]
        /\ ~stands["saved_task_comparison_incomplete_or_failed"]
    BY <2>1
  <2> QED
    BY <2>2
<1>2. /\ DOMAIN findings = 1..4
      /\ \A k \in 1..4 : findings[k].limited = BuildLineage(trace).truncated
  BY VerdictTells DEF ProposalInv, RunInv, Kept
<1>3. Points = {4}
  BY <1>1 DEF Supported
<1>4. \A k \in 1..3 : findings[k].result # "hypothesis"
  BY <1>2, <1>3 DEF Points
<1>5. ~BuildLineage(trace).truncated
  BY <1>1, <1>2, <1>3 DEF Limited
<1> QED
  BY <1>1, <1>4, <1>5 DEF CriteriaPassed, Ran

(* What a clean verdict says of the trace.                                 *)
LEMMA CleanTrace ==
    ASSUME ProposalInv, findings # <<>>,
           \A k \in 1..3 : findings[k].result # "hypothesis",
           ~BuildLineage(trace).truncated
    PROVE  /\ \A i \in DOMAIN trace : ~BrokenParent(i) /\ ~AmbiguousParent(i)
           /\ \A i \in DOMAIN trace :
                ~(MemoryAt(i) /\ trace[i].action = "read" /\ trace[i].state = "stale")
           /\ Cardinality({i \in DOMAIN trace : trace[i].type = "edge"}) <= LineageLimit
<1>1. /\ ScanInv /\ Concluded /\ trace \in Seq(SourceRecords)
  BY DEF ProposalInv, RunInv, Kept, TypeOK
<1>2. /\ findings[1].result # "hypothesis" /\ findings[2].result # "hypothesis"
      /\ findings[3].result # "hypothesis" /\ ~findings[1].limited /\ ~findings[2].limited
  BY <1>1, VerdictTells
<1>3. \A i \in DOMAIN trace : ~BrokenParent(i) /\ ~AmbiguousParent(i)
  BY <1>1, <1>2, VerdictHides DEF NothingHidden
<1>4. StaleReads(trace) = <<>>
  BY <1>1, <1>2, VerdictTells
<1>5. \A i \in DOMAIN trace :
        ~(MemoryAt(i) /\ trace[i].action = "read" /\ trace[i].state = "stale")
  BY <1>1, <1>4, StaleReadsEmpty DEF MemoryAt
<1>6. Cardinality({i \in DOMAIN trace : trace[i].type = "edge"}) <= LineageLimit
  <2> DEFINE edges == Cardinality({i \in DOMAIN trace : trace[i].type = "edge"})
  <2>1. ~(edges > LineageLimit)
    BY <1>1, LineageFacts
  <2>2. OfType(trace, "edge") \in Seq(SourceRecords) /\ Len(OfType(trace, "edge")) = edges
    BY <1>1, OfTypeFacts
  <2>3. edges \in Nat
    BY <2>2
  <2> HIDE DEF edges
  <2>4. edges <= LineageLimit
    BY <2>1, <2>3, LineageAssumption
  <2> QED
    BY <2>4 DEF edges
<1> QED
  BY <1>3, <1>5, <1>6

(* A recommendation is given with good reason only.                        *)
LEMMA RecommendNext ==
    ASSUME RecommendInv, Next
    PROVE  RecommendationJustified'
<1>1. CASE ~Diagnose
  <2>1. stage # "done" /\ diagnostic' = diagnostic
    BY <1>1 DEF Next, Ingest, Analyse, AppendHypothesis, BindBase, Propose, ReplayCompletes,
                ReplayFails, ReplayRaises, AppendPatch, AppendReplay, AppendGate
  <2>2. diagnostic'.recommendation = "none"
    BY <2>1 DEF RecommendInv, Recorded, NoDiagnostic
  <2> QED
    BY <2>2 DEF RecommendationJustified
<1>2. CASE Diagnose
  <2> SUFFICES ASSUME diagnostic'.recommendation = "human_may_consider_promotion"
               PROVE  RecommendationJustified'
    BY DEF RecommendationJustified
  <2>1. /\ UNCHANGED <<trace, records, patch, replay>>
        /\ stage = "diagnose" /\ findings # <<>>
    BY <1>2 DEF Diagnose, analysisVars, ledgerVars, RecommendInv, ProposalInv, RunInv, Staged
  <2>2. Blockers = {} /\ Supported = {4}
    BY <1>2 DEF Diagnose
  <2>3. /\ \A k \in 1..3 : findings[k].result # "hypothesis"
        /\ ~BuildLineage(trace).truncated
        /\ Ran /\ replay.reversed
    BY <2>1, <2>2, NothingStands DEF RecommendInv
  <2>4. /\ \A i \in DOMAIN trace : ~BrokenParent(i) /\ ~AmbiguousParent(i)
        /\ \A i \in DOMAIN trace :
             ~(MemoryAt(i) /\ trace[i].action = "read" /\ trace[i].state = "stale")
        /\ Cardinality({i \in DOMAIN trace : trace[i].type = "edge"}) <= LineageLimit
    BY <2>1, <2>3, CleanTrace DEF RecommendInv
  <2>5. patch # NoPatch /\ PatchAt(Sources + 5) /\ ReplayAt(Sources + 6)
    BY <2>1, <2>3 DEF RecommendInv, Recorded
  <2>6. patch.hypothesis = Sources + 4 /\ Sources \in Nat
    BY <2>5, RecordsTell DEF RecommendInv, ProposalInv, Patched
  <2>7. \E i \in Positions("patch"), j \in Positions("replay") :
          i < j /\ patch.hypothesis < i /\ records[i].body = patch
    <3>1. /\ Sources + 5 \in Positions("patch") /\ Sources + 6 \in Positions("replay")
          /\ records[Sources + 5].body = patch
      BY <2>5 DEF Positions, PatchAt, ReplayAt
    <3>2. Sources + 5 < Sources + 6 /\ patch.hypothesis < Sources + 5
      BY <2>6
    <3> QED
      BY <3>1, <3>2
  <2>8. RecommendationJustified!2
    BY <2>3, <2>4, <2>5, <2>7 DEF Ran
  <2> QED
    BY <2>1, <2>8
    DEF RecommendationJustified, BrokenParent, AmbiguousParent, MemoryAt, Positions
<1> QED
  BY <1>1, <1>2

(* Promotion is recommended only of what was replayed, and only when       *)
(* nothing else in the trace is wrong and no lineage was left out, for     *)
(* traces, ledgers and limits of every size.                               *)
THEOREM RecommendsJustly == Spec => []RecommendationJustified
<1>1. DiagnosisInit => RecommendInv
  <2>1. DiagnosisInit => stage = "ingest" /\ diagnostic.recommendation = "none"
                         /\ diagnostic = NoDiagnostic
    BY DEF DiagnosisInit, NoDiagnostic
  <2> QED
    BY <2>1, ProposalStart DEF RecommendInv, Recorded, RecommendationJustified
<1>2. RecommendInv /\ [Next]_vars => RecommendInv'
  <2> SUFFICES ASSUME RecommendInv, [Next]_vars PROVE RecommendInv'
    OBVIOUS
  <2>1. ProposalInv'
    BY ProposalNext DEF RecommendInv
  <2>2. CASE Next
    BY <2>1, <2>2, RecordedNext, RecommendNext DEF RecommendInv
  <2>3. CASE UNCHANGED vars
    <3>1. UNCHANGED <<trace, stage, records, patch, replay, diagnostic>>
      BY <2>3 DEF vars, analysisVars
    <3>2. Recorded'
      BY <3>1 DEF RecommendInv, Recorded, Ran, PatchAt, ReplayAt, Sources
    <3>3. RecommendationJustified'
      BY <3>1 DEF RecommendInv, RecommendationJustified, BrokenParent, AmbiguousParent,
                  MemoryAt, Positions
    <3> QED
      BY <2>1, <3>2, <3>3 DEF RecommendInv
  <2> QED
    BY <2>2, <2>3
<1>3. RecommendInv => RecommendationJustified
  BY DEF RecommendInv
<1> QED
  BY <1>1, <1>2, <1>3, PTL DEF Spec
=============================================================================
