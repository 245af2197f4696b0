------------------------------- MODULE Corpus -------------------------------
(***************************************************************************)
(* corpus.validate_manifest: one pass over a manifest of fixtures, each    *)
(* said to show something, and of negative cases.  What ingestion and      *)
(* analysis make of a fixture is a constant here: its structure, and its   *)
(* observed result (module CorpusDisposition looks into the dispositions). *)
(* A refusal raises; which of the reasons it gives is left out.            *)
(***************************************************************************)
EXTENDS Naturals, FiniteSets, SequencesExt

CONSTANTS
    Structure,        \* per fixture a sequence of [shape, names], its projected records
    Observed,         \* per fixture [found, class]: what the program finds, its classification
    CategoryFloors,   \* per category the least number of fixtures
    NegativeFloor,
    Manifests         \* [accepted, negatives, prose]: cases, case ids, and the wording

(* The floors are numbers, one for each of finitely many categories; what  *)
(* is listed is a list; and an accepted case names a fixture there is.     *)
ASSUME CorpusAssumption ==
    /\ IsFiniteSet(DOMAIN CategoryFloors)
    /\ CategoryFloors \in [DOMAIN CategoryFloors -> Nat]
    /\ NegativeFloor \in Nat
    /\ \A f \in DOMAIN Structure :
         /\ Structure[f] \in Seq(ToSet(Structure[f]))
         /\ \A i \in DOMAIN Structure[f] :
              Structure[f][i].names \in Seq(ToSet(Structure[f][i].names))
    /\ \A m \in Manifests :
         /\ m.accepted \in Seq(ToSet(m.accepted))
         /\ \A i \in DOMAIN m.accepted : m.accepted[i].fixture \in DOMAIN Structure
         /\ m.negatives \in Seq(ToSet(m.negatives))

VARIABLES
    manifest, verdict,
    pos,              \* the next case, accepted ones first
    caseIds, signatures, counts, negativeIds

vars == <<manifest, verdict, pos, caseIds, signatures, counts, negativeIds>>

Categories == DOMAIN CategoryFloors
Accepted == manifest.accepted
Negatives == manifest.negatives

Names(f) == FlattenSeq([i \in DOMAIN Structure[f] |-> Structure[f][i].names])

(* Mutant: a name's token is its place in the list of its record. *)
TokenByPlace(f, name) ==
    LET i == CHOOSE i \in DOMAIN Structure[f] : Contains(Structure[f][i].names, name)
    IN CHOOSE k \in DOMAIN Structure[f][i].names : Structure[f][i].names[k] = name

(* The token of a name: how many others the fixture names before it.       *)
Token(f, name) ==
    LET first == CHOOSE k \in DOMAIN Names(f) :
                   Names(f)[k] = name /\ \A j \in 1..(k - 1) : Names(f)[j] # name
    IN Cardinality({Names(f)[j] : j \in 1..(first - 1)})

(* What is declared found belongs to the behaviour shown, the declared     *)
(* classification does not: the records' own are in their shapes.          *)
Signature(case) ==
    LET records == Structure[case.fixture]
    IN <<case.declared.found,
         [i \in DOMAIN records |->
           [shape |-> records[i].shape,
            names |-> [k \in DOMAIN records[i].names |->
                        Token(case.fixture, records[i].names[k])]]]>>

-----------------------------------------------------------------------------
Init ==
    /\ manifest \in Manifests
    /\ verdict = "pending"
    /\ pos = 0
    /\ caseIds = {} /\ negativeIds = {}
    /\ signatures = [c \in Categories |-> {}]
    /\ counts = [c \in Categories |-> 0]

Total(numbers) == FoldFunction(+, 0, numbers)

Return(how) ==
    /\ verdict' = how
    /\ UNCHANGED <<manifest, pos, caseIds, signatures, counts, negativeIds>>

CheckFloors ==
    /\ verdict = "pending" /\ pos = 0
    /\ IF /\ Len(Accepted) >= Total(CategoryFloors)
          /\ Len(Negatives) >= NegativeFloor
         THEN /\ pos' = 1
              /\ UNCHANGED <<manifest, verdict, caseIds, signatures, counts, negativeIds>>
         ELSE Return("refused")

Acceptable(case) ==
    /\ case.fixture \notin caseIds
    /\ case.category \in Categories
    /\ Observed[case.fixture] = case.declared
    /\ Signature(case) \notin signatures[case.category]

(* Mutant: the signatures of all categories are pooled. *)
Pooled(case) == [c \in Categories |-> signatures[c] \cup {Signature(case)}]

Recorded(case) == [signatures EXCEPT ![case.category] = @ \cup {Signature(case)}]

CheckCase ==
    /\ verdict = "pending" /\ pos \in DOMAIN Accepted
    /\ LET case == Accepted[pos]
       IN IF Acceptable(case)
            THEN /\ caseIds' = caseIds \cup {case.fixture}
                 /\ signatures' = Recorded(case)
                 /\ counts' = [counts EXCEPT ![case.category] = @ + 1]
                 /\ pos' = pos + 1
                 /\ UNCHANGED <<manifest, verdict, negativeIds>>
            ELSE Return("refused")

FloorsMet == \A c \in Categories : counts[c] >= CategoryFloors[c]

CheckCategories ==
    /\ verdict = "pending" /\ pos = Len(Accepted) + 1
    /\ ~FloorsMet
    /\ Return("refused")

CheckNegative ==
    /\ verdict = "pending" /\ FloorsMet
    /\ pos - Len(Accepted) \in DOMAIN Negatives
    /\ LET id == Negatives[pos - Len(Accepted)]
       IN IF id \in negativeIds \cup caseIds
            THEN Return("refused")
            ELSE /\ negativeIds' = negativeIds \cup {id}
                 /\ pos' = pos + 1
                 /\ UNCHANGED <<manifest, verdict, caseIds, signatures, counts>>

Conclude ==
    /\ verdict = "pending" /\ FloorsMet
    /\ pos = Len(Accepted) + Len(Negatives) + 1
    /\ Return(IF manifest.prose = "banned" THEN "refused" ELSE "valid")

Next == CheckFloors \/ CheckCase \/ CheckCategories \/ CheckNegative \/ Conclude

Spec == Init /\ [][Next]_vars

-----------------------------------------------------------------------------
(* PROPERTIES                                                              *)

(* What the pass carries along: as many distinct behaviours of a category  *)
(* as cases counted for it, and a case id per case.                        *)
CorpusTypeOK ==
    /\ pos \in 0..(Len(Accepted) + Len(Negatives) + 1)
    /\ verdict \in {"pending", "refused", "valid"}
    /\ \A c \in Categories : Cardinality(signatures[c]) = counts[c]
    /\ Cardinality(caseIds) = Total(counts)

(* Two fixtures are the same up to the names in them.                      *)
Renamed(f, g) ==
    /\ Len(Structure[f]) = Len(Structure[g])
    /\ \A i \in DOMAIN Structure[f] :
         /\ Structure[f][i].shape = Structure[g][i].shape
         /\ Len(Structure[f][i].names) = Len(Structure[g][i].names)
    /\ \A j, k \in DOMAIN Names(f) :
         Names(f)[j] = Names(f)[k] <=> Names(g)[j] = Names(g)[k]

(* Sound: every floor met, every identifier borne once among fixtures and  *)
(* negative cases together, every declaration what is observed, and no two *)
(* fixtures of one category the same but for the names in them.            *)
Sound ==
    /\ manifest.prose # "banned"
    /\ Len(Negatives) >= NegativeFloor
    /\ \A c \in Categories :
         Cardinality({i \in DOMAIN Accepted : Accepted[i].category = c}) >= CategoryFloors[c]
    /\ LET ids == [i \in DOMAIN Accepted |-> Accepted[i].fixture] \o Negatives
       IN \A i, j \in DOMAIN ids : ids[i] = ids[j] => i = j
    /\ \A i \in DOMAIN Accepted :
         /\ Accepted[i].category \in Categories
         /\ Accepted[i].declared = Observed[Accepted[i].fixture]
         /\ \A j \in 1..(i - 1) :
              ~(/\ Accepted[j].category = Accepted[i].category
                /\ Accepted[j].declared.found = Accepted[i].declared.found
                /\ Renamed(Accepted[j].fixture, Accepted[i].fixture))

(* A manifest is valid exactly when it is sound (EVALUATION.md:15,         *)
(* corpus.py:46-144).                                                      *)
AcceptsExactlySound == verdict # "pending" => (verdict = "valid" <=> Sound)
=============================================================================
