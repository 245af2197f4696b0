---------------------------- MODULE LedgerProofs ----------------------------
(***************************************************************************)
(* What verify_ledger accepts, for ledgers of any length over any payloads *)
(* and any number of changes.                                              *)
(***************************************************************************)
EXTENDS Ledger, SequenceFacts

(***************************************************************************)
(* The inductive invariant: the records are the chain ingest_fixture makes,*)
(* and no change computes a digest, so each field of a line is damaged or  *)
(* is that of some record.                                                 *)
(***************************************************************************)
Chained ==
    /\ records \in Seq(ToSet(records))
    /\ \A i \in 1..Len(records) :
         \E type \in Types, payload \in Payloads :
            records[i] = MakeEnvelope(type, i - 1, payload, Before(records, i))

(* A line that changes can leave.                                          *)
Whole(line) == line = [field \in Fields |-> line[field]]
Possible(line) ==
    \/ line = Garbage
    \/ /\ Whole(line)
       /\ \A field \in Fields :
            line[field] = Damaged(field) \/ \E j \in DOMAIN records : line[field] = records[j][field]

FilePossible ==
    /\ file \in Seq(ToSet(file))
    /\ \A i \in 1..Len(file) : Possible(file[i])

IInv ==
    /\ Chained
    /\ written \in BOOLEAN /\ (~written => file = <<>>)
    /\ FilePossible
    /\ changes \in 0..MaxChanges

-----------------------------------------------------------------------------
(* An envelope has the seven fields, with these values.                    *)
LEMMA EnvelopeFields ==
    ASSUME NEW type, NEW sequence, NEW payload, NEW before, NEW e,
           e = MakeEnvelope(type, sequence, payload, before)
    PROVE  /\ Whole(e)
           /\ e.type = type /\ e.sequence = sequence /\ e.payload = payload
           /\ e.hash = Digest(payload) /\ e.id = Digest(<<type, sequence, Digest(payload)>>)
           /\ e.prev = before /\ e.meta = "as_written"
           /\ e # Garbage
<1>1. DOMAIN e = Fields
    BY DEF MakeEnvelope, Fields
<1>2. e = [field \in DOMAIN e |-> e[field]]
    BY DEF MakeEnvelope
<1>3. e # Garbage
    <2>1. "text" \notin DOMAIN e /\ "text" \in DOMAIN Garbage
        BY <1>1 DEF Fields, Garbage
    <2>. QED BY <2>1
<1>4. /\ e.type = type /\ e.sequence = sequence /\ e.payload = payload
      /\ e.hash = Digest(payload) /\ e.id = Digest(<<type, sequence, Digest(payload)>>)
      /\ e.prev = before /\ e.meta = "as_written"
    BY DEF MakeEnvelope
<1>. QED
    BY <1>1, <1>2, <1>3, <1>4 DEF Whole

(* Digests are of one value each, and neither the genesis mark nor damage. *)
LEMMA DigestFacts ==
    /\ \A x, y : Digest(x) = Digest(y) => x = y
    /\ \A x : Digest(x) # Genesis
    /\ \A x : \A field \in {"hash", "id", "prev", "type", "payload"} : Digest(x) # Damaged(field)
    /\ Genesis # Damaged("prev")
<1>1. \A x, y : Digest(x) = Digest(y) => x = y
    BY DEF Digest
<1>2. \A x : Digest(x) # Genesis
    BY DEF Digest, Genesis
<1>3. \A field \in {"hash", "id", "prev", "type", "payload"} : Damaged(field) = <<"damaged">>
    BY DEF Damaged
<1>4. \A x : Digest(x) # <<"damaged">>
    BY DEF Digest
<1>5. Genesis # <<"damaged">>
    BY DEF Genesis
<1>. QED
    BY <1>1, <1>2, <1>3, <1>4, <1>5

(* Where a sequence's elements come from another's, so do its lines.       *)
LEMMA LinesStayPossible ==
    ASSUME NEW S, NEW lines \in Seq(S), \A i \in 1..Len(lines) : Possible(lines[i]),
           file' = lines, records' = records
    PROVE  FilePossible'
<1>1. lines \in Seq(ToSet(lines))
    BY OfItsElements
<1>2. \A line : Possible(line)' <=> Possible(line)
    BY DEF Possible
<1>. QED
    BY <1>1, <1>2 DEF FilePossible, Possible

(* An empty ledger and no file.                                            *)
LEMMA InitHolds == Init => IInv
<1> SUFFICES ASSUME Init PROVE IInv
    OBVIOUS
<1>1. records = <<>> /\ file = <<>> /\ changes = 0 /\ written = FALSE
    BY DEF Init
<1>2. <<>> \in Seq(ToSet(<<>>)) /\ 1..Len(<<>>) = {}
    OBVIOUS
<1>3. Chained
    BY <1>1, <1>2 DEF Chained
<1>4. FilePossible
    BY <1>1, <1>2 DEF FilePossible
<1>5. written \in BOOLEAN /\ (~written => file = <<>>)
    BY <1>1
<1>6. changes \in 0..MaxChanges
    BY <1>1, LedgerAssumption
<1>. QED
    BY <1>3, <1>4, <1>5, <1>6 DEF IInv

(* The run: every record is made at its place, and the file is the ledger. *)
LEMMA RunKeeps ==
    ASSUME IInv
    PROVE  /\ \A type \in Types, payload \in Payloads : AppendRecord(type, payload) => IInv'
           /\ WriteLedger => IInv'
<1> USE DEF IInv
<1>0. Len(records) \in Nat /\ DOMAIN records = 1..Len(records)
    BY LenProperties DEF Chained
<1>1. ASSUME NEW type \in Types, NEW payload \in Payloads, AppendRecord(type, payload)
      PROVE  IInv'
    <2> DEFINE n == Len(records) + 1
               e == MakeEnvelope(type, Len(records), payload, Before(records, n))
               S == ToSet(records) \cup {e}
    <2>1. records' = Append(records, e) /\ written' = written /\ file' = file /\ changes' = changes /\ ~written
        BY <1>1 DEF AppendRecord
    <2>2. records \in Seq(S)
        BY SeqMonotonic DEF Chained
    <2> HIDE DEF e, S
    <2>3. e \in S
        BY DEF S
    <2>4. /\ records' \in Seq(S) /\ Len(records') = n
          /\ \A i \in 1..Len(records) : records'[i] = records[i]
          /\ records'[n] = e
        BY <1>0, <2>1, <2>2, <2>3, AppendProperties
    <2>5. records' \in Seq(ToSet(records'))
        BY <2>4, OfItsElements
    <2>6. ASSUME NEW i \in 1..n
          PROVE  \E t \in Types, p \in Payloads :
                    records'[i] = MakeEnvelope(t, i - 1, p, Before(records', i))
        <3>1. Before(records', i) = Before(records, i)
            BY <1>0, <2>4 DEF Before
        <3>2. CASE i = n
            <4>1. i - 1 = Len(records)
                BY <1>0, <3>2
            <4>2. records'[i] = MakeEnvelope(type, i - 1, payload, Before(records', i))
                BY <2>4, <3>1, <3>2, <4>1 DEF e
            <4>. QED BY <4>2
        <3>3. CASE i # n
            <4>1. i \in 1..Len(records) /\ records'[i] = records[i]
                BY <1>0, <2>4, <3>3
            <4>2. PICK t \in Types, p \in Payloads :
                     records[i] = MakeEnvelope(t, i - 1, p, Before(records, i))
                BY <4>1 DEF Chained
            <4>3. records'[i] = MakeEnvelope(t, i - 1, p, Before(records', i))
                BY <3>1, <4>1, <4>2
            <4>. QED BY <4>3
        <3>. QED BY <3>2, <3>3
    <2>7. Chained'
        BY <2>4, <2>5, <2>6 DEF Chained
    <2>8. FilePossible'
        <3>1. file' = <<>> /\ ToSet(file') = {} /\ Len(file') = 0
            BY <2>1 DEF ToSet
        <3>. QED BY <3>1 DEF FilePossible
    <2>. QED BY <2>1, <2>7, <2>8
<1>2. ASSUME WriteLedger PROVE IInv'
    <2>1. written' = TRUE /\ file' = records /\ records' = records /\ changes' = changes
        BY <1>2 DEF WriteLedger
    <2>2. \A i \in 1..Len(records) : Possible(records[i])
        <3>1. TAKE i \in 1..Len(records)
        <3>2. PICK t \in Types, p \in Payloads :
                 records[i] = MakeEnvelope(t, i - 1, p, Before(records, i))
            BY DEF Chained
        <3>3. Whole(records[i])
            BY ONLY <3>2, EnvelopeFields DEF MakeEnvelope
        <3>. QED BY <1>0, <3>3 DEF Possible
    <2>3. FilePossible'
        BY <2>1, <2>2, LinesStayPossible DEF Chained
    <2>4. Chained'
        BY <2>1 DEF Chained, Before
    <2>. QED BY <2>1, <2>3, <2>4
<1>. QED BY <1>1, <1>2

(* A change: it moves lines, or values between lines.                      *)
LEMMA ChangesKeep ==
    ASSUME IInv
    PROVE  /\ \A i \in Lines, field \in Fields : AlterField(i, field) => IInv'
           /\ \A i \in Lines : SpoilLine(i) \/ DropLine(i) => IInv'
           /\ \A i, j \in Lines : CopyLine(i, j) \/ SwapLines(i, j) => IInv'
<1>0. /\ Len(file) \in Nat /\ Lines = 1..Len(file)
      /\ file \in Seq(ToSet(file)) /\ \A i \in 1..Len(file) : file[i] \in ToSet(file) /\ Possible(file[i])
    BY LenProperties, ElementOfSeq DEF IInv, FilePossible, Lines
<1>1. ASSUME NEW S, NEW lines \in Seq(S), \A k \in 1..Len(lines) : Possible(lines[k]), Change(lines)
      PROVE  IInv'
    <2>1. /\ written /\ changes < MaxChanges /\ changes' = changes + 1
          /\ file' = lines /\ records' = records /\ written' = written
        BY <1>1 DEF Change
    <2>2. FilePossible'
        BY <1>1, <2>1, LinesStayPossible
    <2>3. Chained'
        BY <2>1 DEF Chained, IInv, Before
    <2>4. changes' \in 0..MaxChanges
        BY <2>1, LedgerAssumption DEF IInv
    <2>. QED BY <2>1, <2>2, <2>3, <2>4 DEF IInv
<1>2. ASSUME NEW i \in Lines, NEW line, Possible(line), NEW lines, lines = [file EXCEPT ![i] = line]
      PROVE  lines \in Seq(ToSet(file) \cup {line}) /\ \A k \in 1..Len(lines) : Possible(lines[k])
    <2> DEFINE S == ToSet(file) \cup {line}
    <2>1. file \in Seq(S)
        BY <1>0, SeqMonotonic
    <2> HIDE DEF S
    <2>2. line \in S
        BY DEF S
    <2>3. /\ lines \in Seq(S) /\ Len(lines) = Len(file)
          /\ \A k \in 1..Len(file) : lines[k] = IF k = i THEN line ELSE file[k]
        BY <1>0, <1>2, <2>1, <2>2, ExceptSeq
    <2>. QED BY <1>0, <1>2, <2>3 DEF S
<1>3. ASSUME NEW i \in Lines, NEW field \in Fields, AlterField(i, field) PROVE IInv'
    <2>1. PICK value \in {Damaged(field)} \cup
                     {file[j][field] : j \in {j \in Lines : file[j] # Garbage}} :
             Change([file EXCEPT ![i][field] = value])
        BY <1>3 DEF AlterField
    <2> DEFINE line == [file[i] EXCEPT ![field] = value]
    <2>2. file[i] = [f \in Fields |-> file[i][f]] /\ file[i] # Garbage /\ Possible(file[i])
        BY <1>0, <1>3 DEF AlterField, Possible, Whole
    <2>3. value = Damaged(field) \/ \E j \in DOMAIN records : value = records[j][field]
        <3>1. CASE value = Damaged(field)
            BY <3>1
        <3>2. CASE value # Damaged(field)
            <4>1. PICK j \in Lines : file[j] # Garbage /\ value = file[j][field]
                BY <2>1, <3>2
            <4>. QED BY <1>0, <4>1 DEF Possible
        <3>. QED BY <3>1, <3>2
    <2>4. line = [f \in Fields |-> line[f]] /\ \A f \in Fields : line[f] = IF f = field THEN value ELSE file[i][f]
        BY <2>2
    <2>5. Possible(line) 
        <3>1. \A f \in Fields : line[f] = Damaged(f) \/ \E j \in DOMAIN records : line[f] = records[j][f]
            BY <2>2, <2>3, <2>4 DEF Possible
        <3>. QED BY <2>4, <3>1 DEF Possible, Whole
    <2> DEFINE lines == [file EXCEPT ![i] = line]
    <2>6. [file EXCEPT ![i][field] = value] = lines
        OBVIOUS
    <2>7. Change(lines)
        BY <2>1, <2>6
    <2> HIDE DEF line, lines
    <2>8. lines \in Seq(ToSet(file) \cup {line}) /\ \A k \in 1..Len(lines) : Possible(lines[k])
        BY <1>2, <2>5 DEF lines
    <2>. QED BY <1>1, <2>7, <2>8
<1>4. ASSUME NEW i \in Lines, SpoilLine(i) PROVE IInv'
    <2> DEFINE lines == [file EXCEPT ![i] = Garbage]
    <2>1. Change(lines)
        BY <1>4 DEF SpoilLine
    <2>2. Possible(Garbage)
        BY DEF Possible
    <2> HIDE DEF lines
    <2>3. lines \in Seq(ToSet(file) \cup {Garbage}) /\ \A k \in 1..Len(lines) : Possible(lines[k])
        BY <1>2, <2>2 DEF lines
    <2>. QED BY <1>1, <2>1, <2>3
<1>5. ASSUME NEW i \in Lines, DropLine(i) PROVE IInv'
    <2> DEFINE lines == RemoveAt(file, i)
    <2>1. Change(lines)
        BY <1>5 DEF DropLine
    <2> HIDE DEF lines
    <2>2. /\ lines \in Seq(ToSet(file)) /\ Len(lines) = Len(file) - 1
          /\ \A k \in 1..(Len(file) - 1) : lines[k] = IF k < i THEN file[k] ELSE file[k + 1]
        BY <1>0, RemoveAtFacts DEF lines
    <2>3. \A k \in 1..Len(lines) : Possible(lines[k])
        BY <1>0, <2>2
    <2>. QED BY <1>1, <2>1, <2>2, <2>3
<1>6. ASSUME NEW i \in Lines, NEW j \in Lines, CopyLine(i, j) PROVE IInv'
    <2> DEFINE lines == InsertAt(file, j, file[i])
    <2>1. Change(lines)
        BY <1>6 DEF CopyLine
    <2> HIDE DEF lines
    <2>2. /\ lines \in Seq(ToSet(file)) /\ Len(lines) = Len(file) + 1
          /\ \A k \in 1..(Len(file) + 1) :
               lines[k] = IF k < j THEN file[k] ELSE IF k = j THEN file[i] ELSE file[k - 1]
        BY <1>0, InsertAtFacts DEF lines
    <2>3. ASSUME NEW k \in 1..Len(lines) PROVE Possible(lines[k])
        <3>1. k \in 1..(Len(file) + 1)
            BY <1>0, <2>2
        <3>2. \/ k < j /\ k \in 1..Len(file)
              \/ k = j
              \/ k > j /\ k - 1 \in 1..Len(file)
            BY <1>0, <3>1
        <3>3. lines[k] \in {file[m] : m \in 1..Len(file)}
            BY <1>0, <2>2, <3>1, <3>2
        <3>. QED BY <1>0, <3>3
    <2>. QED BY <1>1, <2>1, <2>2, <2>3
<1>7. ASSUME NEW i \in Lines, NEW j \in Lines, SwapLines(i, j) PROVE IInv'
    <2> DEFINE lines == [file EXCEPT ![i] = file[j], ![j] = file[i]]
    <2>1. Change(lines) /\ i # j
        BY <1>0, <1>7 DEF SwapLines
    <2>2. /\ lines \in Seq(ToSet(file)) /\ Len(lines) = Len(file)
          /\ \A k \in 1..Len(file) : lines[k] = IF k = j THEN file[i] ELSE IF k = i THEN file[j] ELSE file[k]
        <3> DEFINE half == [file EXCEPT ![i] = file[j]]
        <3>1. /\ half \in Seq(ToSet(file)) /\ Len(half) = Len(file)
              /\ \A k \in 1..Len(file) : half[k] = IF k = i THEN file[j] ELSE file[k]
            BY <1>0, ExceptSeq
        <3>2. lines = [half EXCEPT ![j] = file[i]]
            OBVIOUS
        <3> HIDE DEF half, lines
        <3>3. /\ lines \in Seq(ToSet(file)) /\ Len(lines) = Len(half)
              /\ \A k \in 1..Len(half) : lines[k] = IF k = j THEN file[i] ELSE half[k]
            BY <1>0, <3>1, <3>2, ExceptSeq
        <3>. QED BY <3>1, <3>3
    <2> HIDE DEF lines
    <2>3. \A k \in 1..Len(lines) : Possible(lines[k])
        BY <1>0, <2>2
    <2>. QED BY <1>1, <2>1, <2>2, <2>3
<1>. QED BY <1>3, <1>4, <1>5, <1>6, <1>7

(* The records and the file are what the run and changes to them can make. *)
THEOREM LedgerInvariance == Spec => []IInv
<1>1. ASSUME IInv, [Next]_vars PROVE IInv'
    <2>1. CASE UNCHANGED vars
        BY <1>1, <2>1 DEF IInv, Chained, Before, FilePossible, Possible, vars
    <2>2. CASE Next
        BY <1>1, <2>2, RunKeeps, ChangesKeep DEF Next
    <2>. QED BY <1>1, <2>1, <2>2
<1>. QED BY <1>1, InitHolds, PTL DEF Spec

-----------------------------------------------------------------------------
(* What the properties say of the records, without the constructor.        *)
RecordFacts(i) ==
    /\ Whole(records[i]) /\ records[i] # Garbage
    /\ records[i].sequence = i - 1
    /\ records[i].hash = Digest(records[i].payload)
    /\ records[i].id = Digest(<<records[i].type, i - 1, records[i].hash>>)
    /\ records[i].prev = Before(records, i)
    /\ records[i].meta = "as_written"
    /\ records[i].type \in Types /\ records[i].payload \in Payloads

(* What each record of the run is.                                         *)
LEMMA RecordsChained ==
    ASSUME IInv
    PROVE  /\ Len(records) \in Nat /\ DOMAIN records = 1..Len(records)
           /\ \A i \in 1..Len(records) : RecordFacts(i)
<1>1. Len(records) \in Nat /\ DOMAIN records = 1..Len(records)
    BY LenProperties DEF IInv, Chained
<1>2. ASSUME NEW i \in 1..Len(records) PROVE RecordFacts(i)
    <2>1. PICK t \in Types, p \in Payloads :
             records[i] = MakeEnvelope(t, i - 1, p, Before(records, i))
        BY DEF IInv, Chained
    <2>2. Whole(records[i]) /\ records[i] # Garbage
        BY ONLY <2>1, EnvelopeFields DEF MakeEnvelope
    <2>3. /\ records[i].sequence = i - 1 /\ records[i].type = t /\ records[i].payload = p
          /\ records[i].hash = Digest(p) /\ records[i].id = Digest(<<t, i - 1, Digest(p)>>)
          /\ records[i].prev = Before(records, i) /\ records[i].meta = "as_written"
        BY ONLY <2>1 DEF MakeEnvelope
    <2>. QED BY <2>2, <2>3 DEF RecordFacts
<1>. QED BY <1>1, <1>2

(* A line that carries the right id for its place has the record's own     *)
(* type, hash and payload: the id of another place is another digest.      *)
LEMMA IdPinsLine ==
    ASSUME IInv, NEW i \in 1..Len(file), file[i] # Garbage,
           file[i].sequence = i - 1,
           Digest(file[i].payload) = file[i].hash,
           file[i].id = Digest(<<file[i].type, i - 1, file[i].hash>>)
    PROVE  /\ i \in 1..Len(records)
           /\ \A field \in {"type", "sequence", "payload", "hash", "id"} :
                file[i][field] = records[i][field]
<1>1. Possible(file[i]) /\ Len(file) \in Nat
    BY LenProperties DEF IInv, FilePossible
<1>2. file[i].id # Damaged("id")
    BY DigestFacts
<1>3. PICK j \in 1..Len(records) : file[i].id = records[j].id
    BY <1>1, <1>2, RecordsChained DEF Possible, Fields
<1>4. RecordFacts(j) /\ j \in Nat
    BY RecordsChained
<1>5. <<file[i].type, i - 1, file[i].hash>> = <<records[j].type, j - 1, records[j].hash>>
    BY <1>3, <1>4, DigestFacts DEF RecordFacts
<1>6. i = j
    BY <1>4, <1>5, <1>1
<1>7. file[i].payload = records[i].payload
    BY <1>4, <1>5, <1>6, DigestFacts DEF RecordFacts
<1>. QED
    BY <1>3, <1>4, <1>5, <1>6, <1>7 DEF RecordFacts

(* The digest of a line that some record carries is the digest of the      *)
(* record at the line's place, so the line is that record.                 *)
LEMMA NextPinsLine ==
    ASSUME IInv, NEW i \in 1..Len(file), i + 1 \in 1..Len(file), file[i + 1] # Garbage,
           file[i].sequence = i - 1, file[i + 1].prev = Before(file, i + 1)
    PROVE  i \in 1..Len(records) /\ file[i] = records[i]
<1>1. Possible(file[i + 1]) /\ Len(file) \in Nat
    BY LenProperties DEF IInv, FilePossible
<1>2. file[i + 1].prev = Digest(file[i])
    BY <1>1 DEF Before
<1>3. file[i + 1].prev # Damaged("prev")
    BY <1>2, DigestFacts
<1>4. PICK k \in 1..Len(records) : file[i + 1].prev = records[k].prev
    BY <1>1, <1>3, RecordsChained DEF Possible, Fields
<1>5. records[k].prev = Before(records, k)
    BY RecordsChained DEF RecordFacts
<1>6. k # 1
    BY <1>2, <1>4, <1>5, DigestFacts DEF Before
<1>7. k - 1 \in 1..Len(records) /\ file[i] = records[k - 1]
    BY <1>2, <1>4, <1>5, <1>6, RecordsChained, DigestFacts DEF Before
<1>8. records[k - 1].sequence = k - 2
    <2>1. records[k - 1].sequence = (k - 1) - 1
        BY <1>7, RecordsChained DEF RecordFacts
    <2>. QED BY <1>4, <2>1, RecordsChained
<1>9. k - 1 = i
    BY <1>7, <1>8, <1>1
<1>. QED
    BY <1>7, <1>9

(* What each line of a file that is right up to its last line's meta holds.*)
AsWritten(line) == [line EXCEPT !.meta = "as_written"]

Beginning ==
    /\ Len(file) <= Len(records)
    /\ \A i \in DOMAIN file :
         IF i < Len(file)
           THEN file[i] = records[i]
           ELSE file[i] # Garbage /\ AsWritten(file[i]) = records[i]

(* What verifies is a beginning, line by line.                             *)
LEMMA OnlyBeginningsVerify ==
    ASSUME IInv, Verifies(file)
    PROVE  Beginning
<1>1. Len(file) \in Nat /\ DOMAIN file = 1..Len(file)
    BY LenProperties DEF IInv, FilePossible
<1>2. Len(records) \in Nat
    BY RecordsChained
<1>3. \A i \in 1..Len(file) :
         /\ file[i] # Garbage
         /\ file[i].sequence = i - 1 /\ file[i].prev = Before(file, i)
         /\ Digest(file[i].payload) = file[i].hash
         /\ file[i].id = Digest(<<file[i].type, i - 1, file[i].hash>>)
    BY <1>1 DEF Verifies
<1>4. \A i \in 1..Len(file) :
         /\ i \in 1..Len(records)
         /\ \A field \in {"type", "sequence", "payload", "hash", "id"} :
              file[i][field] = records[i][field]
    BY <1>3, IdPinsLine
<1>5. Len(file) <= Len(records)
    BY <1>1, <1>2, <1>4
<1>6. ASSUME NEW i \in 1..Len(file), i < Len(file)
      PROVE  file[i] = records[i]
    <2>1. i + 1 \in 1..Len(file)
        BY <1>1, <1>6
    <2>2. file[i + 1] # Garbage /\ file[i + 1].prev = Before(file, i + 1)
        BY <1>3, <2>1
    <2>3. file[i].sequence = i - 1
        BY <1>3
    <2>. QED BY <2>1, <2>2, <2>3, NextPinsLine
<1>7. ASSUME NEW i \in 1..Len(file), ~(i < Len(file))
      PROVE  AsWritten(file[i]) = records[i]
    <2>1. Whole(file[i]) /\ RecordFacts(i)
        BY <1>3, <1>4, RecordsChained DEF IInv, FilePossible, Possible
    <2>2. file[i].prev = records[i].prev
        <3>1. CASE i = 1
            BY <1>3, <2>1, <3>1 DEF Before, RecordFacts
        <3>2. CASE i # 1
            <4>1. i - 1 \in 1..Len(file) /\ i - 1 < Len(file)
                BY <1>1, <3>2
            <4>2. file[i - 1] = records[i - 1]
                BY <1>6, <4>1
            <4>. QED BY <1>3, <2>1, <3>2, <4>2 DEF Before, RecordFacts
        <3>. QED BY <3>1, <3>2
    <2> DEFINE line == AsWritten(file[i])
    <2>3. /\ line = [field \in Fields |-> line[field]]
          /\ line.meta = "as_written"
          /\ \A field \in Fields : field # "meta" => line[field] = file[i][field]
        BY <2>1 DEF AsWritten, Whole, Fields
    <2> HIDE DEF line
    <2>4. \A field \in Fields : line[field] = records[i][field]
        BY <1>4, <2>1, <2>2, <2>3 DEF Fields, RecordFacts
    <2>5. line = records[i]
        BY <2>1, <2>3, <2>4 DEF Whole, RecordFacts
    <2>. QED BY <2>5 DEF line
<1>. QED
    BY <1>1, <1>3, <1>5, <1>6, <1>7 DEF Beginning

(* And every beginning verifies.                                           *)
LEMMA BeginningsVerify ==
    ASSUME IInv, Beginning
    PROVE  Verifies(file)
<1>1. Len(file) \in Nat /\ DOMAIN file = 1..Len(file)
    BY LenProperties DEF IInv, FilePossible
<1>2. Len(records) \in Nat
    BY RecordsChained
<1>3. ASSUME NEW i \in 1..Len(file)
      PROVE  /\ file[i] # Garbage
             /\ file[i].sequence = i - 1 /\ file[i].prev = Before(file, i)
             /\ Digest(file[i].payload) = file[i].hash
             /\ file[i].id = Digest(<<file[i].type, i - 1, file[i].hash>>)
    <2>1. i \in 1..Len(records)
        BY <1>1, <1>2 DEF Beginning
    <2>2. RecordFacts(i)
        BY <2>1, RecordsChained
    <2>3. Before(file, i) = Before(records, i)
        <3>1. CASE i = 1
            BY <3>1 DEF Before
        <3>2. CASE i # 1
            <4>1. i - 1 \in DOMAIN file /\ i - 1 < Len(file)
                BY <1>1, <3>2
            <4>. QED BY <3>2, <4>1 DEF Before, Beginning
        <3>. QED BY <3>1, <3>2
    <2>4. file[i] # Garbage /\ \A field \in Fields : field # "meta" => file[i][field] = records[i][field]
        <3>1. CASE i < Len(file)
            BY <1>1, <2>2, <3>1 DEF Beginning, RecordFacts
        <3>2. CASE ~(i < Len(file))
            <4>1. file[i] # Garbage /\ AsWritten(file[i]) = records[i]
                BY <1>1, <3>2 DEF Beginning
            <4>2. Whole(file[i])
                BY <4>1 DEF IInv, FilePossible, Possible
            <4>. QED BY <4>1, <4>2 DEF AsWritten, Whole, Fields
        <3>. QED BY <3>1, <3>2
    <2>. QED BY <2>2, <2>3, <2>4 DEF RecordFacts, Fields
<1>. QED
    BY <1>1, <1>3 DEF Verifies

(* Every envelope of the run is what make_envelope makes of its place, for *)
(* runs of any length over any types and payloads.                         *)
THEOREM LedgerTypes == Spec => []LedgerTypeOK
<1>1. ASSUME IInv PROVE LedgerTypeOK
    <2>1. \A i \in DOMAIN records : RecordFacts(i)
        BY <1>1, RecordsChained
    <2>. QED BY <1>1, <2>1 DEF LedgerTypeOK, RecordFacts, IInv
<1>. QED BY <1>1, LedgerInvariance, PTL

(* A ledger file verifies exactly when it is a beginning of the ledger the *)
(* run made, up to the unprotected fields of its last line, after any      *)
(* number of changes (core.verify_ledger).                                 *)
THEOREM VerifiesOnlyBeginnings == Spec => []VerifiesExactly
<1>1. ASSUME IInv PROVE VerifiesExactly
    <2>1. Verifies(file) <=> Beginning
        BY <1>1, OnlyBeginningsVerify, BeginningsVerify
    <2>. QED BY <2>1 DEF VerifiesExactly, Beginning, AsWritten
<1>. QED BY <1>1, LedgerInvariance, PTL
=============================================================================
