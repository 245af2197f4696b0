----------------------------- MODULE MCAnalysis -----------------------------
(* All short traces of two families: memory operations on two versions,    *)
(* and edges and events whose references may dangle, clash or repeat.      *)
EXTENDS Analysis

CONSTANTS MemoryLength, LineageLength     \* bounds: records in a trace

MCSourceIds == {"s1", "s2", "s3", "s4", "ghost"}
MCMemoryKeys == {"k1", "k2"}

AtPosition == <<"s1", "s2", "s3", "s4">>

(* The id is the position's, so that ids do not repeat.                    *)
Memory ==
    {[type |-> "memory_op", id |-> "ghost", class |-> "internal",
      action |-> op[1], key |-> op[2], state |-> op[3]] :
        op \in {<<"write", "k1", "tainted">>, <<"read", "k1", "clean">>,
                <<"read", "k1", "tainted">>, <<"read", "k1", "stale">>,
                <<"quarantine", "k1", "clean">>, <<"quarantine", "k1", "tainted">>,
                <<"write", "k2", "tainted">>, <<"read", "k2", "clean">>,
                <<"quarantine", "k2", "clean">>}}

Lineage ==
    {[type |-> "edge", id |-> "ghost", class |-> "internal", kind |-> kind,
      from |-> from, to |-> to] :
        kind \in {"parent", "input"}, from \in {"s1", "ghost"}, to \in {"s1", "s2", "ghost"}}
    \cup
    {[type |-> "event", id |-> "ghost", class |-> "internal", parents |-> p] :
        p \in {<<>>, <<"s1">>, <<"s2", "ghost">>}}

TracesOf(family, n) ==
    {[i \in 1..n |-> [t[i] EXCEPT !.id = AtPosition[i]]] : t \in [1..n -> family]}

MCTraces == UNION {TracesOf(Memory, n) : n \in 0..MemoryLength}
            \cup UNION {TracesOf(Lineage, n) : n \in 1..LineageLength}
=============================================================================
