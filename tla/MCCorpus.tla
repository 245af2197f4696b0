------------------------------ MODULE MCCorpus ------------------------------
(* Manifests of up to three fixtures and two negative cases.  "chain" and  *)
(* "copy" differ in their names only, "fork" and "twice" in which names    *)
(* are the same.                                                           *)
EXTENDS Corpus

Edge(from, to) == [shape |-> "edge", names |-> <<from, to>>]

MCStructure ==
    [chain |-> <<Edge("a", "b"), Edge("b", "c")>>, copy |-> <<Edge("b", "a"), Edge("a", "x")>>,
     fork |-> <<Edge("a", "b"), Edge("a", "c")>>, twice |-> <<Edge("a", "b"), Edge("a", "b")>>]
Finds(found, class) == [found |-> found, class |-> class]

MCObserved ==
    [chain |-> Finds("missing", "internal"), copy |-> Finds("missing", "internal"),
     fork |-> Finds("clean", "internal"), twice |-> Finds("clean", "internal")]
MCFloors == [lineage |-> 1, compound |-> 1]

(* Declared right, of another finding, and of another classification.      *)
Cases ==
    [fixture : DOMAIN MCStructure, category : {"lineage", "compound", "other"},
     declared : {Finds("missing", "internal"), Finds("clean", "internal")}]
    \cup [fixture : {"copy"}, category : {"lineage"}, declared : {Finds("missing", "public")}]
NegativeLists ==
    {<<>>, <<"n1">>, <<"n1", "n2">>, <<"n1", "n1">>, <<"chain">>, <<"n1", "copy">>}
MCManifests ==
    [accepted : BoundedSeq(Cases, 3), negatives : NegativeLists, prose : {"plain"}]
    \cup [accepted : BoundedSeq(Cases, 2), negatives : NegativeLists, prose : {"banned"}]
=============================================================================
