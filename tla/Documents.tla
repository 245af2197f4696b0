----------------------------- MODULE Documents -----------------------------
(***************************************************************************)
(* Memory documents: the versions known and those of them in quarantine,   *)
(* as the lists the program keeps.  A version <<namespace, item, version>> *)
(* is a number, the order of the tuples that of the numbers.  One patch    *)
(* quarantines one version (patching.py); the replay admits a transition   *)
(* between two documents and compares them (replay.py, replay_child.py).   *)
(* A digest is the document it is a digest of.                             *)
(***************************************************************************)
EXTENDS Integers, Sequences, FiniteSets, SequencesExt

CONSTANTS
    Keys,             \* memory versions
    MaxEntries,       \* entries a list may have (128 in the code)
    Inputs            \* the documents considered

Document == [items : Seq(Keys), quarantine : Seq(Keys)]

ASSUME KeysAssumption == Keys \subseteq Nat
ASSUME EntriesAssumption == MaxEntries \in Nat
ASSUME InputsAssumption == Inputs \subseteq Document

(* sorted() of a list: fewer than k entries are below the k-th, and k or   *)
(* more are not above it; and of a set.                                    *)
Sorted(s) ==
    [k \in 1..Len(s) |-> CHOOSE e \in ToSet(s) :
        /\ Cardinality({i \in DOMAIN s : s[i] < e}) < k
        /\ Cardinality({i \in DOMAIN s : s[i] <= e}) >= k]
Ordered(S) == Sorted(SetToSeq(S))

Count(s, key) == Cardinality({i \in DOMAIN s : s[i] = key})

-----------------------------------------------------------------------------
(* patching.py                                                             *)
BuildPatch(doc, key) == [base |-> doc, target |-> key]

Applicable(doc, patch) ==
    /\ patch.base = doc
    /\ Count(doc.items, patch.target) = 1
    /\ ~Contains(doc.quarantine, patch.target)

(* Mutant: the target is appended and the list not sorted again. *)
AppendPatchUnsorted(doc, patch) == [doc EXCEPT !.quarantine = Append(@, patch.target)]

ApplyPatch(doc, patch) ==
    [doc EXCEPT !.quarantine = Sorted(Append(@, patch.target))]

Reversible(doc, patch) == Count(doc.quarantine, patch.target) = 1

ReversePatch(doc, patch) == [doc EXCEPT !.quarantine = RemoveFirst(@, patch.target)]

-----------------------------------------------------------------------------
(* validate_document, validate_transition                                  *)
ValidDocument(doc) ==
    /\ \A s \in {doc.items, doc.quarantine} :
         Len(s) <= MaxEntries /\ IsSorted(s, <)
    /\ ToSet(doc.quarantine) \subseteq ToSet(doc.items)

(* Mutant: the quarantines are compared, the items are not. *)
AdmissibleAnyItems(baseline, candidate) ==
    /\ ValidDocument(baseline) /\ ValidDocument(candidate)
    /\ ToSet(baseline.quarantine) \subseteq ToSet(candidate.quarantine)
    /\ Cardinality(ToSet(candidate.quarantine) \ ToSet(baseline.quarantine)) <= 1

Admissible(baseline, candidate) ==
    /\ ValidDocument(baseline) /\ ValidDocument(candidate)
    /\ candidate.items = baseline.items
    /\ ToSet(baseline.quarantine) \subseteq ToSet(candidate.quarantine)
    /\ Cardinality(ToSet(candidate.quarantine) \ ToSet(baseline.quarantine)) <= 1

(* What the child writes: replay_child.main, operation compare_documents.  *)
Compare(baseline, candidate, expected) ==
    LET before == ToSet(baseline.quarantine)
        after == ToSet(candidate.quarantine)
    IN [baseline |-> baseline, candidate |-> candidate, bound |-> expected = baseline,
        added |-> Ordered(after \ before), removed |-> Ordered(before \ after),
        unchanged |-> Ordered(before \cap after), equal |-> baseline = candidate]

(* The bytes of a comparison, counted in entries.                          *)
Size(result) == Len(result.added) + Len(result.removed) + Len(result.unchanged)

(* What _replay_assessment asks of a comparison, for the version proposed. *)
MeetsCriteria(result, key) ==
    /\ result.bound
    /\ result.added = <<key>> /\ result.removed = <<>>
    /\ ~result.equal /\ result.baseline # result.candidate

(* What the caller of replay gets; an exception that it catches is one     *)
(* outcome, one that it does not catch another.                            *)
Pending == [kind |-> "pending"]
FailedClosed == [kind |-> "failed_closed"]
Raised == [kind |-> "raised"]
Completed(result) == [kind |-> "completed", result |-> result]

-----------------------------------------------------------------------------
(* PROPERTIES of the algorithms, for a document and a version              *)

(* A patch that applies to a valid document gives one the replay admits,   *)
(* whose comparison shows exactly the target added, and its reversal gives *)
(* the document back, entry for entry (patching.py:58-79 with              *)
(* replay.py:52-64 and cli.py:125-140).                                    *)
PatchSound(doc, key) ==
    LET patch == BuildPatch(doc, key)
        candidate == ApplyPatch(doc, patch)
    IN ValidDocument(doc) /\ Applicable(doc, patch) =>
         /\ Admissible(doc, candidate)
         /\ Compare(doc, candidate, patch.base).added = <<key>>
         /\ Compare(doc, candidate, patch.base).removed = <<>>
         /\ Reversible(candidate, patch)
         /\ ReversePatch(candidate, patch) = doc
=============================================================================
