------------------------------- MODULE Trace -------------------------------
(***************************************************************************)
(* The projected source records of one fixture and the pure functions of   *)
(* core.py over them: unique resolution of a reference, the classification *)
(* that derived records inherit, and the bounded lineage projection.       *)
(*                                                                         *)
(* A trace is the sequence of source records in file order; the run record *)
(* the program puts before them carries no source id and no lineage.       *)
(***************************************************************************)
EXTENDS Naturals, SequencesExt

CONSTANTS
    SourceIds,        \* the identifiers a fixture uses, present or not
    MemoryKeys,       \* <namespace, item, version>, as one value
    LineageLimit      \* build_lineage's max_depth, 16 in the code

ASSUME LineageAssumption == LineageLimit \in Nat \ {0}

Classes == {"public", "internal", "sensitive", "unknown"}
Rank == [public |-> 0, internal |-> 1, sensitive |-> 2, unknown |-> 3]

EdgeKinds == {"parent", "input", "output", "memory", "evaluation"}
Actions == {"read", "write", "quarantine", "expire"}
States == {"clean", "stale", "tainted", "quarantined", "expired"}

(* What _project_record keeps; actor, state_version, event and the         *)
(* source_asserted flag decide nothing below and are left out.             *)
Events == [type : {"event"}, id : SourceIds, class : Classes, parents : Seq(SourceIds)]
Edges == [type : {"edge"}, id : SourceIds, class : Classes, kind : EdgeKinds,
          from : SourceIds, to : SourceIds]
MemoryOps == [type : {"memory_op"}, id : SourceIds, class : Classes, action : Actions,
              key : MemoryKeys, state : States]
SourceRecords == Events \cup Edges \cup MemoryOps

-----------------------------------------------------------------------------
(* resolve_unique_source_record: a reference counts only when exactly one  *)
(* source record bears it.                                                 *)
Matches(t, ref) == {i \in DOMAIN t : t[i].id = ref}
Resolves(t, ref) == \E i \in DOMAIN t : Matches(t, ref) = {i}

(* The highest rank of a set of classifications, or the default of an      *)
(* empty one.                                                              *)
Strictest(classes, default) ==
    IF classes = {} THEN default
    ELSE CHOOSE c \in classes : \A d \in classes : Rank[d] <= Rank[c]

-----------------------------------------------------------------------------
(* build_lineage.  The targets an edge conflicts with are collected over   *)
(* all edges; only the first LineageLimit edges are represented, and an    *)
(* event's parent array adds derived claims without any limit.             *)
Ids(t) == {t[i].id : i \in DOMAIN t}

EdgeClaim(t, e) ==
    [from |-> e.from, kind |-> e.kind,
     missing |-> ~({e.from, e.to} \subseteq Ids(t)),
     conflicting |-> \E i \in DOMAIN t : /\ t[i].type = "edge"
                                         /\ t[i].from = e.from /\ t[i].kind = e.kind
                                         /\ t[i].to # e.to]

ParentClaims(t, e) ==
    [k \in DOMAIN e.parents |->
        [from |-> e.id, kind |-> "parent",
         missing |-> e.parents[k] \notin Ids(t), conflicting |-> FALSE]]

(* The elements of s that are wanted, in their order; recursive, so that   *)
(* it can be reasoned about.                                               *)
Those(s, wanted) ==
    LET those[i \in 0..Len(s)] ==
            IF i = 0 THEN <<>>
            ELSE IF s[i] \in wanted THEN Append(those[i - 1], s[i])
            ELSE those[i - 1]
    IN those[Len(s)]

OfType(t, type) == Those(t, {r \in ToSet(t) : r.type = type})

(* Mutant: the truncation marker comes one edge late. *)
BuildLineageLateMarker(t) ==
    LET edges == OfType(t, "edge")
        events == OfType(t, "event")
    IN [claims |-> [k \in 1..Min({Len(edges), LineageLimit}) |-> EdgeClaim(t, edges[k])]
                   \o FlattenSeq([k \in DOMAIN events |-> ParentClaims(t, events[k])]),
        truncated |-> Len(edges) > LineageLimit + 1]

BuildLineage(t) ==
    LET edges == OfType(t, "edge")
        events == OfType(t, "event")
    IN [claims |-> [k \in 1..Min({Len(edges), LineageLimit}) |-> EdgeClaim(t, edges[k])]
                   \o FlattenSeq([k \in DOMAIN events |-> ParentClaims(t, events[k])]),
        truncated |-> Len(edges) > LineageLimit]
=============================================================================
