---------------------------- MODULE MCDiagnosis ----------------------------
(* Short traces in which every stage of a run can go either way: two       *)
(* versions tainted, read and quarantined in any order, ids that repeat,   *)
(* classifications, and lineage beside the memory operations.              *)
EXTENDS CorpusDisposition

CONSTANT MemoryLength     \* bound: memory operations in a trace

MCSourceIds == {"s1", "s2", "s3", "ghost"}
MCMemoryKeys == {"k1", "k2"}

Op(id, class, action, key, state) ==
    [type |-> "memory_op", id |-> id, class |-> class, action |-> action, key |-> key,
     state |-> state]

Edge(id, from, to) ==
    [type |-> "edge", id |-> id, class |-> "public", kind |-> "parent", from |-> from, to |-> to]

Memory ==
    {Op(id, "internal", op[1], op[2], op[3]) :
        id \in {"s1", "s2"},
        op \in {<<"write", "k1", "tainted">>, <<"read", "k1", "clean">>,
                <<"read", "k1", "stale">>, <<"quarantine", "k1", "clean">>,
                <<"write", "k2", "tainted">>, <<"read", "k2", "clean">>}}

(* A tainted write, a reuse that resolves, and lineage or a classification *)
(* around them; "s3" is the reading record.                                *)
Mixed ==
    {<<Op("s1", class, "write", "k1", "tainted"), Op("s3", "public", "read", "k1", "clean")>>
        \o tail :
        class \in {"public", "sensitive", "unknown"},
        tail \in {<<Edge("s2", "s1", "s3")>>, <<Edge("s2", "s1", "ghost")>>,
                  <<Edge("s2", "s1", "s3"), Edge("ghost", "s1", "s2")>>,
                  <<Edge("s2", "s1", "s3"), Edge("s2", "s1", "s3"), Edge("s2", "s1", "s3")>>,
                  <<Edge("s2", "s1", "s3"), Edge("s2", "s1", "s3"), Edge("s2", "s1", "ghost")>>,
                  <<Edge("s2", "ghost", "s3"), Edge("s2", "s1", "s3"), Edge("s2", "s1", "s3")>>,
                  <<[type |-> "event", id |-> "s2", class |-> "internal",
                     parents |-> <<"s1">>]>>,
                  <<[type |-> "event", id |-> "s1", class |-> "internal",
                     parents |-> <<"ghost">>]>>}}

MCTraces == UNION {[1..n -> Memory] : n \in 0..MemoryLength} \cup Mixed

(* A trace of the code's own limit: nine reuses, the ninth under an id that*)
(* two records bear.                                                       *)
Nine == <<"r1", "r2", "r3", "r4", "r5", "r6", "r7", "r8", "r9">>
LongSourceIds == {Nine[i] : i \in 1..9} \cup {"w"}
LongTraces ==
    {<<Op("w", "internal", "write", "k1", "tainted")>>
      \o [i \in 1..9 |-> Op(Nine[i], "internal", "read", "k1", "clean")]
      \o <<Op("r9", "internal", "write", "k2", "clean")>>}
=============================================================================
