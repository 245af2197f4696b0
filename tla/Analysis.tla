------------------------------ MODULE Analysis ------------------------------
(***************************************************************************)
(* analysis.evaluate: four invariants over one trace.  The taint check is  *)
(* a loop over the memory operations that carries two sets and a list from *)
(* one operation to the next; it is modelled record by record.             *)
(***************************************************************************)
EXTENDS Trace

CONSTANTS
    Traces,           \* the traces to analyse
    EvidenceLimit     \* references kept as evidence of a finding, 8 in the code

ASSUME TraceAssumption == Traces \subseteq Seq(SourceRecords)
ASSUME EvidenceAssumption == EvidenceLimit \in Nat \ {0}

VARIABLES
    trace,            \* the source records, in sequence order
    pos,              \* the next record the loop looks at
    taintedSeen, quarantined, reused,     \* the loop's own variables
    findings          \* what evaluate returns; <<>> until it does

scanVars == <<taintedSeen, quarantined, reused>>
analysisVars == <<trace, pos, taintedSeen, quarantined, reused, findings>>

Invariants == <<"parent_referent_present", "parent_edge_nonconflicting",
                "memory_read_not_stale", "tainted_memory_not_reused_unquarantined">>

AnalysisInit ==
    /\ trace \in Traces
    /\ pos = 1
    /\ taintedSeen = {}
    /\ quarantined = {}
    /\ reused = <<>>
    /\ findings = <<>>

-----------------------------------------------------------------------------
SkipRecord ==
    /\ pos \in DOMAIN trace
    /\ trace[pos].type # "memory_op"
    /\ pos' = pos + 1
    /\ UNCHANGED <<trace, scanVars, findings>>

(* A quarantine ends the iteration: its own state label taints nothing.    *)
Quarantine ==
    /\ pos \in DOMAIN trace
    /\ trace[pos].type = "memory_op"
    /\ trace[pos].action = "quarantine"
    /\ quarantined' = quarantined \cup {trace[pos].key}
    /\ pos' = pos + 1
    /\ UNCHANGED <<trace, taintedSeen, reused, findings>>

(* Mutant: the operation's own taint counts against its own read. *)
ReportedSelfTainted(op) ==
    IF op.action = "read" /\ (op.key \in taintedSeen \ quarantined \/ op.state = "tainted")
      THEN Append(reused, op.id) ELSE reused

(* Mutant: the version is reported, not the record that read it. *)
ReportedVersion(op) ==
    IF op.action = "read" /\ op.key \in taintedSeen \ quarantined
      THEN Append(reused, op.key) ELSE reused

(* Mutant: the newest reuse is put first. *)
ReportedFirst(op) ==
    IF op.action = "read" /\ op.key \in taintedSeen \ quarantined
      THEN <<op.id>> \o reused ELSE reused

Reported(op) ==
    IF op.action = "read" /\ op.key \in taintedSeen \ quarantined
      THEN Append(reused, op.id) ELSE reused

Touch ==
    /\ pos \in DOMAIN trace
    /\ trace[pos].type = "memory_op"
    /\ trace[pos].action # "quarantine"
    /\ reused' = Reported(trace[pos])
    /\ taintedSeen' = IF trace[pos].state = "tainted"
                        THEN taintedSeen \cup {trace[pos].key} ELSE taintedSeen
    /\ pos' = pos + 1
    /\ UNCHANGED <<trace, quarantined, findings>>

-----------------------------------------------------------------------------
(* _finding: a violation is a hypothesis, the first reference is where to  *)
(* intervene, and the evidence is cut off without a mark.                  *)
Finding(invariant, refs, truncated) ==
    [invariant    |-> invariant,
     result       |-> IF refs = <<>> THEN "abstention" ELSE "hypothesis",
     intervention |-> IF refs = <<>> THEN "none" ELSE refs[1],
     evidence     |-> SubSeq(refs, 1, Min({Len(refs), EvidenceLimit})),
     limited      |-> truncated]

(* The parent claims with a fault; the edge's source end is cited, not the *)
(* edge.                                                                   *)
Froms(t, fault) ==
    LET claims == BuildLineage(t).claims
        faulty == Those(claims, {c \in ToSet(claims) : c.kind = "parent" /\ c[fault]})
    IN [k \in DOMAIN faulty |-> faulty[k].from]

StaleReads(t) ==
    LET stale == Those(t, {r \in ToSet(t) : /\ r.type = "memory_op"
                                            /\ r.action = "read" /\ r.state = "stale"})
    IN [k \in DOMAIN stale |-> stale[k].id]

Evaluate ==
    LET refs == <<Froms(trace, "missing"), Froms(trace, "conflicting"),
                  StaleReads(trace), reused>>
    IN [k \in DOMAIN Invariants |->
            Finding(Invariants[k], refs[k], BuildLineage(trace).truncated)]

Conclude ==
    /\ pos = Len(trace) + 1
    /\ findings = <<>>
    /\ findings' = Evaluate
    /\ UNCHANGED <<trace, pos, scanVars>>

AnalysisNext == SkipRecord \/ Quarantine \/ Touch \/ Conclude

AnalysisSpec == AnalysisInit /\ [][AnalysisNext]_analysisVars

-----------------------------------------------------------------------------
(* PROPERTIES                                                              *)

MemoryAt(i) == i \in DOMAIN trace /\ trace[i].type = "memory_op"
Taints(i) == MemoryAt(i) /\ trace[i].action # "quarantine" /\ trace[i].state = "tainted"
Quarantines(i) == MemoryAt(i) /\ trace[i].action = "quarantine"

(* What the fourth invariant forbids: a read of a version that an earlier  *)
(* operation labelled tainted and that no earlier operation quarantined.   *)
ReusedAt(i) ==
    /\ MemoryAt(i) /\ trace[i].action = "read"
    /\ \E j \in 1..(i - 1) : Taints(j) /\ trace[j].key = trace[i].key
    /\ \A j \in 1..(i - 1) : Quarantines(j) => trace[j].key # trace[i].key

(* The scan's variables hold versions and record identifiers, and a        *)
(* verdict is four findings.                                               *)
TypeOK ==
    /\ trace \in Seq(SourceRecords)
    /\ pos \in 1..(Len(trace) + 1)
    /\ taintedSeen \subseteq MemoryKeys
    /\ quarantined \subseteq MemoryKeys
    /\ reused \in Seq(SourceIds)
    /\ findings # <<>> => DOMAIN findings = 1..4

(* The loop reports exactly the forbidden reads among the records it has   *)
(* seen: none missed, none invented (analysis.py:40-51).                   *)
ScanExact ==
    ToSet(reused) = {trace[i].id : i \in {i \in 1..(pos - 1) : ReusedAt(i)}}

(* The first reported reuse, which becomes the intervention point and the  *)
(* target of the patch, is the earliest one in the trace (analysis.py:22). *)
EarliestFirst ==
    reused # <<>> =>
        \E i \in 1..(pos - 1) : /\ ReusedAt(i) /\ reused[1] = trace[i].id
                                /\ \A j \in 1..(i - 1) : ~ReusedAt(j)

(* A parent that no record of the trace bears, and parents that differ.    *)
BrokenParent(i) ==
    \/ /\ trace[i].type = "edge" /\ trace[i].kind = "parent"
       /\ \E end \in {trace[i].from, trace[i].to} : Matches(trace, end) = {}
    \/ /\ trace[i].type = "event"
       /\ \E k \in DOMAIN trace[i].parents : Matches(trace, trace[i].parents[k]) = {}

AmbiguousParent(i) ==
    /\ trace[i].type = "edge" /\ trace[i].kind = "parent"
    /\ \E j \in DOMAIN trace : /\ trace[j].type = "edge" /\ trace[j].kind = "parent"
                               /\ trace[j].from = trace[i].from /\ trace[j].to # trace[i].to

(* An invariant the trace breaks is a hypothesis, or the finding says that *)
(* the lineage was truncated: the 17th edge is never silently clean        *)
(* (analysis.py:34-37 with core.py:305-319).                               *)
NothingHidden ==
    findings # <<>> =>
        /\ (\E i \in DOMAIN trace : BrokenParent(i))
             => findings[1].result = "hypothesis" \/ findings[1].limited
        /\ (\E i \in DOMAIN trace : AmbiguousParent(i))
             => findings[2].result = "hypothesis" \/ findings[2].limited
        /\ (\E i \in DOMAIN trace : ReusedAt(i)) <=> findings[4].result = "hypothesis"
=============================================================================
