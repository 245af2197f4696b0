------------------------------- MODULE Ledger -------------------------------
(***************************************************************************)
(* What core.verify_ledger makes of a ledger file that changed after it    *)
(* was written.  Each line carries the digest of the line before, and one  *)
(* of its own payload; nothing carries the digest of the last line.        *)
(*                                                                         *)
(* A digest is the value it is a digest of, marked as one: two values with *)
(* one digest are not met.  A change is an accident of storage or handling,*)
(* which damages a value or puts one line's value into another; it does    *)
(* not compute new digests ("rewrite from genesis", which the code says it *)
(* cannot detect).                                                         *)
(***************************************************************************)
EXTENDS Naturals, SequencesExt

CONSTANTS
    Types, Payloads,  \* record_type and run_id of a record; its payload
    MaxRecords,       \* bound: records in a ledger
    MaxChanges        \* bound: changes to a ledger file

ASSUME LedgerAssumption == MaxRecords \in Nat /\ MaxChanges \in Nat

VARIABLES
    records,          \* the ledger as the run appended to it
    written,          \* ledger.jsonl is there
    file,             \* its lines
    changes

vars == <<records, written, file, changes>>

Digest(value) == <<"sha256", value>>
Genesis == <<"genesis">>

(* Mutant: the payload itself is stored as its hash. *)
EnvelopeUnhashed(type, sequence, payload, before) ==
    [type |-> type, sequence |-> sequence, payload |-> payload, hash |-> <<"none", payload>>,
     id |-> Digest(<<type, sequence, Digest(payload)>>), prev |-> before, meta |-> "as_written"]

(* meta stands for what no digest of the record itself covers: the schema  *)
(* version, the two times, producer, source_ref and classification, and    *)
(* how its place is written (1.0 or true are no other place than 1).       *)
MakeEnvelope(type, sequence, payload, before) ==
    [type |-> type, sequence |-> sequence, payload |-> payload, hash |-> Digest(payload),
     id |-> Digest(<<type, sequence, Digest(payload)>>), prev |-> before, meta |-> "as_written"]

(* The digest the i-th line has to carry.                                  *)
Before(lines, i) == IF i = 1 THEN Genesis ELSE Digest(lines[i - 1])

Init ==
    /\ records = <<>>
    /\ written = FALSE /\ file = <<>>
    /\ changes = 0

AppendRecord(type, payload) ==
    /\ ~written /\ Len(records) < MaxRecords
    /\ records' = Append(records, MakeEnvelope(type, Len(records), payload,
                                               Before(records, Len(records) + 1)))
    /\ UNCHANGED <<written, file, changes>>

WriteLedger ==
    /\ ~written
    /\ written' = TRUE /\ file' = records
    /\ UNCHANGED <<records, changes>>

-----------------------------------------------------------------------------
(* Changes to the file.  Garbage is a line that is no envelope, Damaged a  *)
(* field's value that no envelope of the run has; a damaged sequence is    *)
(* still a number.                                                         *)
Fields == {"type", "sequence", "payload", "hash", "id", "prev", "meta"}
Garbage == [text |-> "garbage"]
Damaged(field) ==
    CASE field = "sequence" -> MaxRecords
      [] field = "meta" -> "damaged"
      [] OTHER -> <<"damaged">>

Change(lines) ==
    /\ written /\ changes < MaxChanges
    /\ changes' = changes + 1
    /\ file' = lines
    /\ UNCHANGED <<records, written>>

Lines == DOMAIN file

AlterField(i, field) ==
    /\ file[i] # Garbage
    /\ \E value \in {Damaged(field)} \cup
                     {file[j][field] : j \in {j \in Lines : file[j] # Garbage}} :
         Change([file EXCEPT ![i][field] = value])

SpoilLine(i) == Change([file EXCEPT ![i] = Garbage])
DropLine(i) == Change(RemoveAt(file, i))
CopyLine(i, j) == Change(InsertAt(file, j, file[i]))
SwapLines(i, j) == i < j /\ Change([file EXCEPT ![i] = file[j], ![j] = file[i]])

Next ==
    \/ \E type \in Types, payload \in Payloads : AppendRecord(type, payload)
    \/ WriteLedger
    \/ \E i \in Lines, field \in Fields : AlterField(i, field)
    \/ \E i \in Lines : SpoilLine(i) \/ DropLine(i)
    \/ \E i, j \in Lines : CopyLine(i, j) \/ SwapLines(i, j)

Spec == Init /\ [][Next]_vars

-----------------------------------------------------------------------------
(* Mutant: record_id is not recomputed. *)
VerifiesWithoutId(lines) ==
    \A i \in DOMAIN lines :
        /\ lines[i] # Garbage
        /\ lines[i].sequence = i - 1 /\ lines[i].prev = Before(lines, i)
        /\ Digest(lines[i].payload) = lines[i].hash

(* verify_ledger's answer, whatever the reason it gives for FALSE.         *)
Verifies(lines) ==
    \A i \in DOMAIN lines :
        /\ lines[i] # Garbage
        /\ lines[i].sequence = i - 1 /\ lines[i].prev = Before(lines, i)
        /\ Digest(lines[i].payload) = lines[i].hash
        /\ lines[i].id = Digest(<<lines[i].type, i - 1, lines[i].hash>>)

-----------------------------------------------------------------------------
(* PROPERTIES                                                              *)

(* Every envelope of the run is what make_envelope makes of its place.     *)
LedgerTypeOK ==
    /\ changes \in 0..MaxChanges
    /\ \A i \in DOMAIN records :
         \E type \in Types, payload \in Payloads :
           /\ records[i].type = type /\ records[i].payload = payload
           /\ records[i].hash = Digest(payload)
           /\ records[i].id = Digest(<<type, i - 1, Digest(payload)>>)

(* A ledger that verifies is a beginning of the one the run made, except   *)
(* for the unprotected fields of its last line; and each of these verifies:*)
(* no line in the middle is lost, moved, repeated or changed unnoticed, in *)
(* any field (core.py:266-282, EVALUATION.md:56).                          *)
VerifiesExactly ==
    written =>
        (Verifies(file) <=>
            /\ Len(file) <= Len(records)
            /\ \A i \in DOMAIN file :
                 IF i < Len(file)
                   THEN file[i] = records[i]
                   ELSE /\ file[i] # Garbage
                        /\ [file[i] EXCEPT !.meta = "as_written"] = records[i])

(* Said of the code, and not so.  EVALUATION.md:56: "in-place record       *)
(* modification" is "detected", and only truncation and a rewrite from     *)
(* genesis are not: what verifies is a beginning of the ledger.            *)
InPlaceChangeDetected ==
    written /\ Verifies(file) => IsPrefix(file, records)
=============================================================================
