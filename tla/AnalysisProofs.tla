--------------------------- MODULE AnalysisProofs ---------------------------
(***************************************************************************)
(* What the analyzer reports, for every trace.                             *)
(***************************************************************************)
EXTENDS Analysis, SequenceFacts, FiniteSetTheorems

(***************************************************************************)
(* What selecting from a trace and from its lineage yields.                *)
(***************************************************************************)
(* Those are the wanted elements, and as many as there are places of them. *)
LEMMA ThoseFacts ==
    ASSUME NEW S, NEW s \in Seq(S), NEW wanted
    PROVE  /\ Those(s, wanted) \in Seq(S)
           /\ ToSet(Those(s, wanted)) = ToSet(s) \cap wanted
           /\ Len(Those(s, wanted)) = Cardinality({i \in DOMAIN s : s[i] \in wanted})
<1> DEFINE n == Len(s)
           V == Seq(S)
           step == [p \in (1..n) \X V |->
                        IF s[p[1]] \in wanted THEN Append(p[2], s[p[1]]) ELSE p[2]]
           Is(g) == g = [i \in 0..n |-> IF i = 0 THEN <<>>
                                         ELSE IF s[i] \in wanted THEN Append(g[i - 1], s[i])
                                         ELSE g[i - 1]]
           those == CHOOSE g : Is(g)
           Wanted(i) == {j \in 1..i : s[j] \in wanted}
<1>1. n \in Nat /\ DOMAIN s = 1..n /\ \A k \in 1..n : s[k] \in S
    BY LenProperties, ElementOfSeq
<1>2. \A v \in V, e \in S : Append(v, e) \in V
    OBVIOUS
<1>3. <<>> \in V
    OBVIOUS
<1>4. \A i \in 1..n, v \in V :
        step[<<i, v>>] = IF s[i] \in wanted THEN Append(v, s[i]) ELSE v
    OBVIOUS
<1>5. \A i \in 1..n, v \in V : step[<<i, v>>] \in V
    BY <1>1, <1>2, <1>4
<1>6. Those(s, wanted) = those[n]
    BY DEF Those
<1> HIDE DEF step, V, n
<1>7. PICK f : Recurs(f, n, V, <<>>, step)
    BY <1>1, <1>3, <1>5, Recursion
<1>8. /\ f = [i \in 0..n |-> f[i]] /\ f[0] = <<>>
      /\ \A i \in 0..n : f[i] \in V
      /\ \A i \in 1..n : f[i] = step[<<i, f[i - 1]>>]
    BY <1>7 DEF Recurs
<1>9. Is(f)
    <2>1. ASSUME NEW i \in 1..n
          PROVE  f[i] = IF s[i] \in wanted THEN Append(f[i - 1], s[i]) ELSE f[i - 1]
        <3>1. i - 1 \in 0..n
            BY <1>1
        <3>. QED BY <1>4, <1>8, <3>1
    <2>2. \A i \in 0..n : i # 0 => i \in 1..n
        BY <1>1
    <2>. QED BY <1>8, <2>1, <2>2
<1>10. Is(those)
    <2> HIDE DEF Is
    <2>. QED BY <1>9
<1> HIDE DEF those
<1>11. /\ those[0] = <<>>
       /\ \A i \in 1..n :
            those[i] = IF s[i] \in wanted THEN Append(those[i - 1], s[i]) ELSE those[i - 1]
    <2>1. 0 \in 0..n /\ \A i \in 1..n : i \in 0..n /\ i # 0
        BY <1>1
    <2>2. \A i \in 0..n : those[i] = IF i = 0 THEN <<>>
                                     ELSE IF s[i] \in wanted THEN Append(those[i - 1], s[i])
                                     ELSE those[i - 1]
        BY <1>10
    <2>3. those[0] = <<>>
        BY <2>1, <2>2
    <2>. QED BY <2>1, <2>2, <2>3
<1> DEFINE Good(i) == /\ those[i] \in V
                      /\ ToSet(those[i]) = {s[j] : j \in Wanted(i)}
                      /\ IsFiniteSet(Wanted(i)) /\ Len(those[i]) = Cardinality(Wanted(i))
           T == {i \in 0..n : Good(i)}
<1>12. Good(0)
    <2>1. Wanted(0) = {} /\ ToSet(<<>>) = {}
        BY DEF ToSet
    <2>. QED BY <1>3, <1>11, <2>1, FS_EmptySet
<1>13. ASSUME NEW i \in 1..n, Good(i - 1) PROVE Good(i)
    <2>1. /\ 1..i = (1..(i - 1)) \cup {i} /\ i \notin 1..(i - 1)
          /\ those[i - 1] \in Seq(S) /\ s[i] \in S
        BY <1>1, <1>13 DEF V
    <2>2. CASE s[i] \in wanted
        <3>1. Wanted(i) = Wanted(i - 1) \cup {i} /\ i \notin Wanted(i - 1)
            BY <2>1, <2>2
        <3>2. those[i] = Append(those[i - 1], s[i])
            BY <1>11, <2>2
        <3> HIDE DEF Wanted
        <3>3. /\ IsFiniteSet(Wanted(i)) /\ Cardinality(Wanted(i)) = Cardinality(Wanted(i - 1)) + 1
            <4> DEFINE W == Wanted(i - 1)
            <4>1. IsFiniteSet(W) /\ i \notin W /\ Wanted(i) = W \cup {i}
                BY <1>13, <3>1
            <4> HIDE DEF W
            <4>2. IsFiniteSet(W \cup {i}) /\ Cardinality(W \cup {i}) = Cardinality(W) + 1
                BY <4>1, FS_AddElement
            <4>. QED BY <4>1, <4>2 DEF W
        <3>4. /\ those[i] \in V /\ Len(those[i]) = Len(those[i - 1]) + 1
              /\ ToSet(those[i]) = ToSet(those[i - 1]) \cup {s[i]}
            BY <2>1, <3>2, AppendToSet, AppendProperties DEF V
        <3>5. {s[j] : j \in Wanted(i)} = {s[j] : j \in Wanted(i - 1)} \cup {s[i]}
            BY <3>1
        <3>. QED BY <1>13, <3>3, <3>4, <3>5
    <2>3. CASE s[i] \notin wanted
        <3>1. Wanted(i) = Wanted(i - 1)
            BY <2>1, <2>3
        <3>2. those[i] = those[i - 1]
            BY <1>11, <2>3
        <3> HIDE DEF Wanted
        <3>. QED BY <1>13, <3>1, <3>2
    <2>. QED BY <2>2, <2>3
<1> HIDE DEF Good
<1>14. T = 0..n
    <2>1. 0 \in T /\ T \in SUBSET (0..n)
        BY <1>1, <1>12
    <2>2. ASSUME NEW i \in 1..n, i - 1 \in T PROVE i \in T
        BY <1>1, <1>13, <2>2
    <2> HIDE DEF T
    <2>. QED BY <1>1, <2>1, <2>2, Induction
<1>15. Good(n)
    BY <1>1, <1>14
<1>16. Wanted(n) = {i \in DOMAIN s : s[i] \in wanted}
    BY <1>1
<1>17. {s[j] : j \in Wanted(n)} = ToSet(s) \cap wanted
    BY <1>1 DEF ToSet
<1> HIDE DEF Wanted
<1>. QED
    BY <1>6, <1>15, <1>16, <1>17 DEF Good, V

-----------------------------------------------------------------------------
(* What the lineage holds of a trace: a claim for every parent of an event,*)
(* and for every edge unless it says that it is truncated.                 *)
Claims == [from : SourceIds, kind : EdgeKinds, missing : BOOLEAN, conflicting : BOOLEAN]

(* The smaller of two numbers.                                             *)
LEMMA MinOfTwo ==
    ASSUME NEW a \in Nat, NEW b \in Nat
    PROVE  Min({a, b}) = IF a <= b THEN a ELSE b
<1>1. \E x \in {a, b} : \A y \in {a, b} : x <= y
    OBVIOUS
<1>2. Min({a, b}) \in {a, b} /\ \A y \in {a, b} : Min({a, b}) <= y
    BY <1>1 DEF Min
<1>. QED
    BY <1>2

(* The records of a type are those of the trace, as many as it holds.      *)
LEMMA OfTypeFacts ==
    ASSUME NEW t \in Seq(SourceRecords), NEW type
    PROVE  /\ OfType(t, type) \in Seq(SourceRecords)
           /\ ToSet(OfType(t, type)) = {r \in ToSet(t) : r.type = type}
           /\ Len(OfType(t, type)) = Cardinality({i \in DOMAIN t : t[i].type = type})
<1> DEFINE wanted == {r \in ToSet(t) : r.type = type}
<1>1. /\ OfType(t, type) = Those(t, wanted)
      /\ {i \in DOMAIN t : t[i] \in wanted} = {i \in DOMAIN t : t[i].type = type}
      /\ ToSet(t) \cap wanted = wanted
    BY DEF OfType, ToSet
<1> HIDE DEF wanted
<1>2. /\ Those(t, wanted) \in Seq(SourceRecords)
      /\ ToSet(Those(t, wanted)) = ToSet(t) \cap wanted
      /\ Len(Those(t, wanted)) = Cardinality({i \in DOMAIN t : t[i] \in wanted})
    BY ThoseFacts
<1>. QED
    BY <1>1, <1>2 DEF wanted

(* The type of a record tells its fields.                                  *)
LEMMA RecordKinds ==
    ASSUME NEW r \in SourceRecords
    PROVE  /\ r.type = "edge" => r \in Edges
           /\ r.type = "event" => r \in Events
           /\ r.type = "memory_op" => r \in MemoryOps
BY DEF SourceRecords, Events, Edges, MemoryOps

(* What build_lineage returns holds each edge's claim unless it is marked  *)
(* as truncated, and the parents of each event always.                     *)
LEMMA LineageFacts ==
    ASSUME NEW t \in Seq(SourceRecords)
    PROVE  LET lineage == BuildLineage(t)
           IN /\ lineage.claims \in Seq(Claims)
              /\ lineage.truncated <=>
                    Cardinality({i \in DOMAIN t : t[i].type = "edge"}) > LineageLimit
              /\ ~lineage.truncated =>
                    \A i \in DOMAIN t :
                       t[i].type = "edge" => EdgeClaim(t, t[i]) \in ToSet(lineage.claims)
              /\ \A i \in DOMAIN t : t[i].type = "event" =>
                    \A k \in DOMAIN t[i].parents :
                       ParentClaims(t, t[i])[k] \in ToSet(lineage.claims)
<1> DEFINE edges == OfType(t, "edge")
           events == OfType(t, "event")
           shown == Min({Len(edges), LineageLimit})
           first == [k \in 1..shown |-> EdgeClaim(t, edges[k])]
           derived == [k \in DOMAIN events |-> ParentClaims(t, events[k])]
           rest == FlattenSeq(derived)
           claims == first \o rest
           truncated == Len(edges) > LineageLimit
<1>1. BuildLineage(t).claims = claims /\ BuildLineage(t).truncated = truncated
    BY DEF BuildLineage
<1>2. /\ edges \in Seq(SourceRecords) /\ ToSet(edges) = {r \in ToSet(t) : r.type = "edge"}
      /\ Len(edges) = Cardinality({i \in DOMAIN t : t[i].type = "edge"})
      /\ events \in Seq(SourceRecords) /\ ToSet(events) = {r \in ToSet(t) : r.type = "event"}
    BY OfTypeFacts
<1>3. /\ Len(edges) \in Nat /\ DOMAIN edges = 1..Len(edges)
      /\ Len(events) \in Nat /\ DOMAIN events = 1..Len(events)
    BY <1>2, LenProperties
<1>4. /\ \A k \in 1..Len(edges) : edges[k] \in Edges
      /\ \A k \in 1..Len(events) : events[k] \in Events
    <2>1. /\ \A k \in 1..Len(edges) : edges[k] \in ToSet(edges) /\ edges[k] \in SourceRecords
          /\ \A k \in 1..Len(events) : events[k] \in ToSet(events) /\ events[k] \in SourceRecords
        BY <1>2, <1>3, ElementOfSeq DEF ToSet
    <2>. QED BY <1>2, <2>1, RecordKinds
<1> HIDE DEF edges, events
<1>5. /\ shown \in Nat /\ shown <= Len(edges)
      /\ ~truncated => shown = Len(edges)
    BY <1>3, LineageAssumption, MinOfTwo
<1> HIDE DEF shown
<1>6. first \in Seq(Claims)
    <2>1. ASSUME NEW k \in 1..shown PROVE edges[k] \in Edges
        <3>1. k \in 1..Len(edges)
            <4> HIDE DEF first, derived, claims
            <4>1. \A m, n \in Nat : m <= n /\ k \in 1..m => k \in 1..n
                OBVIOUS
            <4>2. k \in 1..shown /\ shown \in Nat /\ shown <= Len(edges) /\ Len(edges) \in Nat
                BY <1>3, <1>5
            <4>. QED BY <4>1, <4>2
        <3>. QED BY <1>4, <3>1
    <2>2. \A k \in 1..shown : EdgeClaim(t, edges[k]) \in Claims
        BY <2>1 DEF EdgeClaim, Edges, Claims
    <2>. QED BY <1>5, <2>2
<1>7. derived \in Seq(Seq(Claims))
    <2>1. ASSUME NEW k \in 1..Len(events) PROVE ParentClaims(t, events[k]) \in Seq(Claims)
        <3>1. events[k].id \in SourceIds /\ events[k].parents \in Seq(SourceIds)
            BY <1>4 DEF Events
        <3> DEFINE parents == events[k].parents
        <3>2. DOMAIN parents = 1..Len(parents) /\ Len(parents) \in Nat
            BY <3>1, LenProperties
        <3> DEFINE c(j) == [from |-> events[k].id, kind |-> "parent",
                            missing |-> parents[j] \notin Ids(t), conflicting |-> FALSE]
        <3>3. \A j \in 1..Len(parents) : c(j) \in Claims
            BY <3>1 DEF Claims, EdgeKinds
        <3>4. ParentClaims(t, events[k]) = [j \in 1..Len(parents) |-> c(j)]
            BY <3>2 DEF ParentClaims
        <3> HIDE DEF c, parents
        <3>. QED BY <3>2, <3>3, <3>4
    <2>. QED BY <1>3, <2>1
<1>8. rest \in Seq(Claims) /\ ToSet(rest) = UNION {ToSet(derived[k]) : k \in DOMAIN derived}
    BY <1>7, FlattenFacts
<1>9. claims \in Seq(Claims) /\ ToSet(claims) = ToSet(first) \cup ToSet(rest)
    <2>1. first \in Seq(Claims) /\ rest \in Seq(Claims)
        BY <1>6, <1>8
    <2> HIDE DEF first, rest
    <2>. QED BY <2>1, ConcatProperties, ConcatToSet
<1>10. ASSUME ~truncated, NEW i \in DOMAIN t, t[i].type = "edge"
       PROVE  EdgeClaim(t, t[i]) \in ToSet(first)
    <2>1. t[i] \in ToSet(edges)
        BY <1>2, <1>10 DEF ToSet
    <2>2. PICK k \in 1..Len(edges) : edges[k] = t[i]
        BY <1>3, <2>1 DEF ToSet
    <2>3. k \in 1..shown
        BY <1>5, <1>10
    <2>4. first[k] = EdgeClaim(t, t[i]) /\ k \in DOMAIN first
        BY <2>2, <2>3
    <2>. QED BY <2>4 DEF ToSet
<1>11. ASSUME NEW i \in DOMAIN t, t[i].type = "event", NEW k \in DOMAIN t[i].parents
       PROVE  ParentClaims(t, t[i])[k] \in ToSet(rest)
    <2>1. t[i] \in ToSet(events)
        BY <1>2, <1>11 DEF ToSet
    <2>2. PICK m \in 1..Len(events) : events[m] = t[i]
        BY <1>3, <2>1 DEF ToSet
    <2>3. m \in DOMAIN derived /\ derived[m] = ParentClaims(t, t[i])
        BY <1>3, <2>2
    <2>4. ParentClaims(t, t[i])[k] \in ToSet(ParentClaims(t, t[i]))
        BY <1>11 DEF ToSet, ParentClaims
    <2> HIDE DEF derived
    <2>. QED BY <1>8, <2>3, <2>4
<1>12. truncated <=> Cardinality({i \in DOMAIN t : t[i].type = "edge"}) > LineageLimit
    BY <1>2
<1> HIDE DEF claims, truncated
<1>. QED
    BY <1>1, <1>9, <1>10, <1>11, <1>12

-----------------------------------------------------------------------------
(***************************************************************************)
(* The inductive invariant: the two sets summarise the operations before   *)
(* pos, so the test the loop makes at pos is ReusedAt(pos).                *)
(***************************************************************************)
ScanType ==
    /\ trace \in Seq(SourceRecords)
    /\ pos \in 1..(Len(trace) + 1)
    /\ reused \in Seq(SourceIds)

TaintsSummarised ==
    taintedSeen = {trace[j].key : j \in {j \in 1..(pos - 1) : Taints(j)}}
QuarantinesSummarised ==
    quarantined = {trace[j].key : j \in {j \in 1..(pos - 1) : Quarantines(j)}}

ScanInv ==
    /\ ScanType
    /\ TaintsSummarised
    /\ QuarantinesSummarised
    /\ ScanExact
    /\ EarliestFirst

-----------------------------------------------------------------------------
(* One more record extends what lies before pos by pos itself.             *)
LEMMA OneMore ==
    ASSUME ScanType, pos \in DOMAIN trace, pos' = pos + 1
    PROVE  /\ pos \in Nat \ {0}
           /\ 1..(pos' - 1) = (1..(pos - 1)) \cup {pos}
           /\ pos' \in 1..(Len(trace) + 1)
           /\ trace[pos] \in SourceRecords
BY DEF ScanType

(* A memory operation's identifier and key have the declared types.        *)
LEMMA MemoryFields ==
    ASSUME NEW r \in SourceRecords
    PROVE  r.id \in SourceIds
BY DEF SourceRecords, Events, Edges, MemoryOps

(* The test the loop makes is the declared one.                            *)
LEMMA TestIsReuse ==
    ASSUME ScanInv, pos \in DOMAIN trace, trace[pos].type = "memory_op"
    PROVE  ReusedAt(pos) <=> /\ trace[pos].action = "read"
                             /\ trace[pos].key \in taintedSeen \ quarantined
BY DEF ScanInv, TaintsSummarised, QuarantinesSummarised, ReusedAt, MemoryAt

(* Each action keeps the summaries.                                        *)
LEMMA SummariesKept ==
    ASSUME ScanInv, SkipRecord \/ Quarantine \/ Touch
    PROVE  TaintsSummarised' /\ QuarantinesSummarised'
<1>1. pos \in DOMAIN trace /\ pos' = pos + 1 /\ trace' = trace
  BY DEF SkipRecord, Quarantine, Touch
<1>2. /\ 1..(pos' - 1) = (1..(pos - 1)) \cup {pos}
      /\ \A j : (Taints(j)' <=> Taints(j)) /\ (Quarantines(j)' <=> Quarantines(j))
  BY <1>1, OneMore DEF ScanInv, Taints, Quarantines, MemoryAt
<1>3. taintedSeen' = IF Taints(pos) THEN taintedSeen \cup {trace[pos].key} ELSE taintedSeen
  BY <1>1 DEF SkipRecord, Quarantine, Touch, Taints, MemoryAt, scanVars
<1>4. quarantined' = IF Quarantines(pos) THEN quarantined \cup {trace[pos].key} ELSE quarantined
  BY <1>1 DEF SkipRecord, Quarantine, Touch, Quarantines, MemoryAt, scanVars
<1>5. TaintsSummarised'
  BY <1>1, <1>2, <1>3 DEF ScanInv, TaintsSummarised
<1>6. QuarantinesSummarised'
  BY <1>1, <1>2, <1>4 DEF ScanInv, QuarantinesSummarised
<1> QED
  BY <1>5, <1>6

(* Each action appends the record at pos exactly when it is a reuse.       *)
LEMMA ReusedStep ==
    ASSUME ScanInv, SkipRecord \/ Quarantine \/ Touch
    PROVE  /\ pos \in DOMAIN trace /\ pos' = pos + 1 /\ trace' = trace
           /\ reused' = IF ReusedAt(pos) THEN Append(reused, trace[pos].id) ELSE reused
<1>1. pos \in DOMAIN trace /\ pos' = pos + 1 /\ trace' = trace
  BY DEF SkipRecord, Quarantine, Touch
<1>2. CASE SkipRecord
  BY <1>1, <1>2 DEF SkipRecord, scanVars, ReusedAt, MemoryAt
<1>3. CASE Quarantine
  BY <1>1, <1>3 DEF Quarantine, ReusedAt, MemoryAt
<1>4. CASE Touch
  BY <1>1, <1>4, TestIsReuse DEF Touch, Reported
<1> QED
  BY <1>1, <1>2, <1>3, <1>4

(* Every step of the scan keeps the summaries of the records seen.         *)
LEMMA ScanStep ==
    ASSUME ScanInv, SkipRecord \/ Quarantine \/ Touch
    PROVE  ScanInv'
<1>1. /\ pos \in DOMAIN trace /\ pos' = pos + 1 /\ trace' = trace
      /\ reused' = IF ReusedAt(pos) THEN Append(reused, trace[pos].id) ELSE reused
  BY ReusedStep
<1>2. /\ pos \in Nat \ {0}
      /\ 1..(pos' - 1) = (1..(pos - 1)) \cup {pos}
      /\ pos' \in 1..(Len(trace) + 1)
      /\ trace[pos].id \in SourceIds
  BY <1>1, OneMore, MemoryFields DEF ScanInv
<1>3. \A i : ReusedAt(i)' <=> ReusedAt(i)
  BY <1>1 DEF ReusedAt, MemoryAt, Taints, Quarantines
<1>4. ScanType'
  BY <1>1, <1>2 DEF ScanInv, ScanType
<1>5. ScanExact'
  <2>1. ToSet(reused') = IF ReusedAt(pos) THEN ToSet(reused) \cup {trace[pos].id}
                                          ELSE ToSet(reused)
    <3>1. reused \in Seq(SourceIds) /\ trace[pos].id \in SourceIds
      BY <1>2 DEF ScanInv, ScanType
    <3>2. ToSet(Append(reused, trace[pos].id)) = ToSet(reused) \cup {trace[pos].id}
      BY <3>1, AppendToSet
    <3> QED
      BY <1>1, <3>2
  <2>2. ToSet(reused) = {trace[i].id : i \in {i \in 1..(pos - 1) : ReusedAt(i)}}
    BY DEF ScanInv, ScanExact
  <2> QED
    BY <1>1, <1>2, <1>3, <2>1, <2>2 DEF ScanExact
<1>6. EarliestFirst'
  <2>1. CASE reused # <<>>
    <3>1. reused' # <<>> /\ reused'[1] = reused[1]
      BY <1>1, <1>2, <2>1 DEF ScanInv, ScanType
    <3> QED
      BY <1>1, <1>2, <1>3, <2>1, <3>1 DEF ScanInv, EarliestFirst
  <2>2. CASE reused = <<>> /\ ReusedAt(pos)
    <3>1. reused'[1] = trace[pos].id
      BY <1>1, <1>2, <2>2
    <3>2. \A j \in 1..(pos - 1) : ~ReusedAt(j)
      <4>1. ToSet(reused) = {}
        BY <2>2 DEF ToSet
      <4>2. ToSet(reused) = {trace[i].id : i \in {i \in 1..(pos - 1) : ReusedAt(i)}}
        BY DEF ScanInv, ScanExact
      <4> QED
        BY <4>1, <4>2
    <3> QED
      BY <1>1, <1>2, <1>3, <2>2, <3>1, <3>2 DEF EarliestFirst
  <2>3. CASE reused = <<>> /\ ~ReusedAt(pos)
    BY <1>1, <2>3 DEF EarliestFirst
  <2> QED
    BY <2>1, <2>2, <2>3
<1> QED
  BY <1>4, <1>5, <1>6, SummariesKept DEF ScanInv

(* What concludes the analysis, or has no part in it, leaves the loop be.  *)
LEMMA ScanKept ==
    ASSUME ScanInv, UNCHANGED <<trace, pos, taintedSeen, quarantined, reused>>
    PROVE  ScanInv'
<1>1. \A i : /\ Taints(i)' <=> Taints(i)
             /\ Quarantines(i)' <=> Quarantines(i)
             /\ ReusedAt(i)' <=> ReusedAt(i)
  BY DEF ReusedAt, MemoryAt, Taints, Quarantines
<1>2. ScanType' /\ TaintsSummarised' /\ QuarantinesSummarised'
  BY <1>1 DEF ScanInv, ScanType, TaintsSummarised, QuarantinesSummarised
<1>3. ScanExact' /\ EarliestFirst'
  BY <1>1 DEF ScanInv, ScanExact, EarliestFirst, ToSet
<1> QED
  BY <1>2, <1>3 DEF ScanInv

(* Before the loop nothing was seen.                                       *)
LEMMA ScanStart == AnalysisInit => ScanInv
BY TraceAssumption DEF AnalysisInit, ScanInv, ScanType, TaintsSummarised,
   QuarantinesSummarised, ScanExact, EarliestFirst, ToSet

(* The loop keeps its summary of what it has seen.                         *)
LEMMA ScanNext ==
    ASSUME ScanInv, [AnalysisNext]_analysisVars
    PROVE  ScanInv'
<1>1. CASE Conclude \/ UNCHANGED analysisVars
  BY <1>1, ScanKept DEF Conclude, analysisVars, scanVars
<1> QED
  BY <1>1, ScanStep DEF AnalysisNext

(* The loop's invariant, for every trace a fixture can hold.               *)
THEOREM ScanInvariant == AnalysisSpec => []ScanInv
BY ScanStart, ScanNext, PTL DEF AnalysisSpec

(* Exactly the forbidden reads are reported.                               *)
THEOREM ReportsExactly == AnalysisSpec => []ScanExact
<1>1. ScanInv => ScanExact
  BY DEF ScanInv
<1> QED
  BY <1>1, ScanInvariant, PTL

(* The loop starts with its variables in their types.                      *)
LEMMA TypesStart == AnalysisInit => TypeOK
BY TraceAssumption DEF AnalysisInit, TypeOK

(* And keeps them there.                                                   *)
LEMMA TypesNext ==
    ASSUME ScanInv, TypeOK, [AnalysisNext]_analysisVars
    PROVE  TypeOK'
<1>1. CASE SkipRecord \/ Quarantine \/ Touch
  <2>1. ScanType'
    BY <1>1, ScanStep DEF ScanInv
  <2>2. trace[pos] \in SourceRecords /\ pos \in DOMAIN trace
    BY <1>1 DEF TypeOK, SkipRecord, Quarantine, Touch
  <2>3. trace[pos].type = "memory_op" => trace[pos].key \in MemoryKeys
    BY <2>2 DEF SourceRecords, Events, Edges, MemoryOps
  <2>4. taintedSeen' \subseteq MemoryKeys /\ quarantined' \subseteq MemoryKeys
    BY <1>1, <2>3 DEF TypeOK, SkipRecord, Quarantine, Touch, scanVars
  <2>5. findings' = findings
    BY <1>1 DEF SkipRecord, Quarantine, Touch
  <2> QED
    BY <2>1, <2>4, <2>5 DEF TypeOK, ScanType
<1>2. CASE Conclude
  <2>1. DOMAIN findings' = 1..4
    BY <1>2 DEF Conclude, Evaluate, Invariants
  <2> QED
    BY <1>2, <2>1 DEF Conclude, TypeOK, scanVars
<1>3. CASE UNCHANGED analysisVars
  BY <1>3 DEF TypeOK, analysisVars
<1> QED
  BY <1>1, <1>2, <1>3 DEF AnalysisNext

(* The loop handles versions and identifiers of the trace only, and a      *)
(* verdict is four findings.                                               *)
THEOREM TypesKept == AnalysisSpec => []TypeOK
<1>1. ScanInv /\ TypeOK /\ [AnalysisNext]_analysisVars => TypeOK'
  BY TypesNext
<1> QED
  BY <1>1, TypesStart, ScanInvariant, PTL DEF AnalysisSpec

(* The intervention point is the earliest reuse.                           *)
THEOREM IntervenesFirst == AnalysisSpec => []EarliestFirst
<1>1. ScanInv => EarliestFirst
  BY DEF ScanInv
<1> QED
  BY <1>1, ScanInvariant, PTL

-----------------------------------------------------------------------------
(* What a verdict says: a finding is a hypothesis when there is something  *)
(* to cite, and what there is to cite.                                     *)
LEMMA FromsEmpty ==
    ASSUME NEW t \in Seq(SourceRecords), NEW fault \in {"missing", "conflicting"}
    PROVE  Froms(t, fault) = <<>> <=>
              \A c \in ToSet(BuildLineage(t).claims) : ~(c.kind = "parent" /\ c[fault])
<1> DEFINE claims == BuildLineage(t).claims
           wanted == {c \in ToSet(claims) : c.kind = "parent" /\ c[fault]}
           faulty == Those(claims, wanted)
<1>1. claims \in Seq(Claims)
    BY LineageFacts
<1>2. Froms(t, fault) = [k \in DOMAIN faulty |-> faulty[k].from]
    BY DEF Froms
<1> HIDE DEF claims
<1>3. faulty \in Seq(Claims) /\ ToSet(faulty) = ToSet(claims) \cap wanted
    <2> HIDE DEF wanted
    <2>. QED BY <1>1, ThoseFacts
<1>4. ToSet(faulty) = wanted
    BY <1>3
<1> HIDE DEF faulty
<1>5. wanted = {} <=> DOMAIN faulty = {}
    BY <1>4 DEF ToSet
<1>6. Froms(t, fault) = <<>> <=> DOMAIN faulty = {}
    BY <1>2
<1>7. wanted = {} <=> \A c \in ToSet(claims) : ~(c.kind = "parent" /\ c[fault])
    OBVIOUS
<1>. QED
    BY <1>5, <1>6, <1>7 DEF claims

(* No stale read is listed exactly when the trace has none.                *)
LEMMA StaleReadsEmpty ==
    ASSUME NEW t \in Seq(SourceRecords)
    PROVE  StaleReads(t) = <<>> <=>
              \A i \in DOMAIN t : ~(/\ t[i].type = "memory_op"
                                    /\ t[i].action = "read" /\ t[i].state = "stale")
<1> DEFINE wanted == {r \in ToSet(t) : /\ r.type = "memory_op"
                                       /\ r.action = "read" /\ r.state = "stale"}
           stale == Those(t, wanted)
<1>1. StaleReads(t) = [k \in DOMAIN stale |-> stale[k].id]
    BY DEF StaleReads
<1>2. ToSet(stale) = ToSet(t) \cap wanted
    <2> HIDE DEF wanted
    <2>. QED BY ThoseFacts
<1>3. ToSet(stale) = wanted
    BY <1>2
<1> HIDE DEF stale
<1>4. wanted = {} <=> DOMAIN stale = {}
    BY <1>3 DEF ToSet
<1>5. StaleReads(t) = <<>> <=> DOMAIN stale = {}
    BY <1>1
<1>6. wanted = {} <=> \A i \in DOMAIN t : ~(/\ t[i].type = "memory_op"
                                           /\ t[i].action = "read" /\ t[i].state = "stale")
    BY DEF ToSet
<1>. QED
    BY <1>4, <1>5, <1>6

(* A verdict, once reached, is what evaluate computes of the whole trace.  *)
Concluded ==
    findings # <<>> => pos = Len(trace) + 1 /\ findings = Evaluate

(* The findings are those of the whole trace, once they are there.         *)
LEMMA ConcludedNext ==
    ASSUME ScanInv, Concluded, [AnalysisNext]_analysisVars
    PROVE  Concluded'
<1>1. Len(trace) \in Nat /\ DOMAIN trace = 1..Len(trace) /\ pos \in Nat
    BY LenProperties DEF ScanInv, ScanType
<1>2. CASE SkipRecord \/ Quarantine \/ Touch
    <2>1. pos \in DOMAIN trace /\ findings' = findings
        BY <1>2 DEF SkipRecord, Quarantine, Touch
    <2>2. findings = <<>>
        BY <1>1, <2>1 DEF Concluded
    <2>. QED BY <2>1, <2>2 DEF Concluded
<1>3. CASE Conclude
    <2>1. /\ pos' = pos /\ trace' = trace /\ reused' = reused
          /\ findings' = Evaluate /\ pos = Len(trace) + 1
        BY <1>3 DEF Conclude, scanVars
    <2>2. Evaluate' = Evaluate
        BY <2>1 DEF Evaluate
    <2>. QED BY <2>1, <2>2 DEF Concluded
<1>4. CASE UNCHANGED analysisVars
    <2>1. pos' = pos /\ trace' = trace /\ reused' = reused /\ findings' = findings
        BY <1>4 DEF analysisVars, scanVars
    <2>2. Evaluate' = Evaluate
        BY <2>1 DEF Evaluate
    <2>. QED BY <2>1, <2>2 DEF Concluded
<1>. QED
    BY <1>2, <1>3, <1>4 DEF AnalysisNext

(* What the four findings say, each in terms of its list.                  *)
LEMMA VerdictTells ==
    ASSUME ScanInv, Concluded, findings # <<>>
    PROVE  /\ DOMAIN findings = 1..4
           /\ findings[1].result = IF Froms(trace, "missing") = <<>> THEN "abstention" ELSE "hypothesis"
           /\ findings[2].result = IF Froms(trace, "conflicting") = <<>> THEN "abstention" ELSE "hypothesis"
           /\ findings[3].result = IF StaleReads(trace) = <<>> THEN "abstention" ELSE "hypothesis"
           /\ findings[4].result = IF reused = <<>> THEN "abstention" ELSE "hypothesis"
           /\ \A k \in 1..4 : findings[k].limited = BuildLineage(trace).truncated
<1> DEFINE refs == <<Froms(trace, "missing"), Froms(trace, "conflicting"),
                     StaleReads(trace), reused>>
<1>1. /\ DOMAIN findings = 1..4
      /\ \A k \in 1..4 :
            findings[k] = Finding(Invariants[k], refs[k], BuildLineage(trace).truncated)
    BY DEF Concluded, Evaluate, Invariants
<1>2. \A k \in 1..4 : /\ findings[k].result = IF refs[k] = <<>> THEN "abstention" ELSE "hypothesis"
                      /\ findings[k].limited = BuildLineage(trace).truncated
    <2> HIDE DEF refs
    <2>. QED BY <1>1 DEF Finding
<1>3. /\ refs[1] = Froms(trace, "missing") /\ refs[2] = Froms(trace, "conflicting")
      /\ refs[3] = StaleReads(trace) /\ refs[4] = reused
    OBVIOUS
<1>4. 1 \in 1..4 /\ 2 \in 1..4 /\ 3 \in 1..4 /\ 4 \in 1..4
    OBVIOUS
<1> HIDE DEF refs
<1>5. /\ findings[1].result = IF Froms(trace, "missing") = <<>> THEN "abstention" ELSE "hypothesis"
      /\ findings[2].result = IF Froms(trace, "conflicting") = <<>> THEN "abstention" ELSE "hypothesis"
    BY <1>2, <1>3, <1>4
<1>6. /\ findings[3].result = IF StaleReads(trace) = <<>> THEN "abstention" ELSE "hypothesis"
      /\ findings[4].result = IF reused = <<>> THEN "abstention" ELSE "hypothesis"
    BY <1>2, <1>3, <1>4
<1>. QED
    BY <1>1, <1>2, <1>5, <1>6

(* A broken or ambiguous parent is among the claims, unless they are cut.  *)
LEMMA FaultsShow ==
    ASSUME trace \in Seq(SourceRecords), NEW i \in DOMAIN trace
    PROVE  /\ BrokenParent(i) /\ ~BuildLineage(trace).truncated => Froms(trace, "missing") # <<>>
           /\ AmbiguousParent(i) /\ ~BuildLineage(trace).truncated
                => Froms(trace, "conflicting") # <<>>
<1> DEFINE lineage == BuildLineage(trace)
           claims == lineage.claims
<1>1. /\ ~lineage.truncated =>
            (trace[i].type = "edge" => EdgeClaim(trace, trace[i]) \in ToSet(claims))
      /\ trace[i].type = "event" =>
            \A k \in DOMAIN trace[i].parents :
               ParentClaims(trace, trace[i])[k] \in ToSet(claims)
    BY LineageFacts
<1>2. \A ref : Matches(trace, ref) = {} => ref \notin Ids(trace)
    BY DEF Matches, Ids
<1>3. ASSUME BrokenParent(i), ~lineage.truncated
      PROVE  \E c \in ToSet(claims) : c.kind = "parent" /\ c["missing"]
    <2>1. CASE trace[i].type = "edge" /\ trace[i].kind = "parent"
                /\ \E end \in {trace[i].from, trace[i].to} : Matches(trace, end) = {}
        <3> DEFINE c == EdgeClaim(trace, trace[i])
        <3>1. c \in ToSet(claims)
            BY <1>1, <1>3, <2>1
        <3>2. ~({trace[i].from, trace[i].to} \subseteq Ids(trace))
            BY <1>2, <2>1
        <3>3. c.kind = "parent" /\ c["missing"]
            BY <2>1, <3>2 DEF EdgeClaim
        <3> HIDE DEF c
        <3>. QED BY <3>1, <3>3
    <2>2. CASE trace[i].type = "event"
                /\ \E k \in DOMAIN trace[i].parents : Matches(trace, trace[i].parents[k]) = {}
        <3>1. PICK k \in DOMAIN trace[i].parents : Matches(trace, trace[i].parents[k]) = {}
            BY <2>2
        <3> DEFINE c == ParentClaims(trace, trace[i])[k]
        <3>2. c \in ToSet(claims)
            BY <1>1, <2>2
        <3>3. c.kind = "parent" /\ c["missing"]
            BY <1>2, <3>1 DEF ParentClaims
        <3> HIDE DEF c
        <3>. QED BY <3>2, <3>3
    <2>. QED BY <1>3, <2>1, <2>2 DEF BrokenParent
<1>4. ASSUME AmbiguousParent(i), ~lineage.truncated
      PROVE  \E c \in ToSet(claims) : c.kind = "parent" /\ c["conflicting"]
    <2> DEFINE c == EdgeClaim(trace, trace[i])
    <2>1. c \in ToSet(claims)
        BY <1>1, <1>4 DEF AmbiguousParent
    <2>2. trace[i].kind = "parent" /\ c.kind = trace[i].kind
        BY <1>4 DEF AmbiguousParent, EdgeClaim
    <2>3. \E j \in DOMAIN trace : /\ trace[j].type = "edge"
                                  /\ trace[j].from = trace[i].from /\ trace[j].kind = trace[i].kind
                                  /\ trace[j].to # trace[i].to
        BY <1>4, <2>2 DEF AmbiguousParent
    <2>4. c["conflicting"]
        BY <2>3 DEF EdgeClaim
    <2> HIDE DEF c
    <2>. QED BY <2>1, <2>2, <2>4
<1> HIDE DEF claims, lineage
<1>. QED
    BY <1>3, <1>4, FromsEmpty DEF claims, lineage

(* A broken parent is in its finding, or the finding is limited.           *)
LEMMA VerdictHides ==
    ASSUME ScanInv, Concluded
    PROVE  NothingHidden
<1> SUFFICES ASSUME findings # <<>>
             PROVE  /\ (\E i \in DOMAIN trace : BrokenParent(i))
                         => findings[1].result = "hypothesis" \/ findings[1].limited
                    /\ (\E i \in DOMAIN trace : AmbiguousParent(i))
                         => findings[2].result = "hypothesis" \/ findings[2].limited
                    /\ (\E i \in DOMAIN trace : ReusedAt(i)) <=> findings[4].result = "hypothesis"
    BY DEF NothingHidden
<1>1. trace \in Seq(SourceRecords) /\ DOMAIN trace = 1..Len(trace) /\ Len(trace) \in Nat
    BY LenProperties DEF ScanInv, ScanType
<1>2. ASSUME NEW i \in DOMAIN trace, BrokenParent(i)
      PROVE  findings[1].result = "hypothesis" \/ findings[1].limited
    BY <1>1, <1>2, FaultsShow, VerdictTells
<1>3. ASSUME NEW i \in DOMAIN trace, AmbiguousParent(i)
      PROVE  findings[2].result = "hypothesis" \/ findings[2].limited
    BY <1>1, <1>3, FaultsShow, VerdictTells
<1>4. (\E i \in DOMAIN trace : ReusedAt(i)) <=> findings[4].result = "hypothesis"
    <2>1. DOMAIN trace = 1..(pos - 1)
        BY <1>1 DEF Concluded
    <2>2. ToSet(reused) = {trace[i].id : i \in {i \in DOMAIN trace : ReusedAt(i)}}
        BY <2>1 DEF ScanInv, ScanExact
    <2>3. reused = <<>> <=> ToSet(reused) = {}
        BY EmptyToSet DEF ScanInv, ScanType
    <2>. QED BY <2>2, <2>3, VerdictTells
<1>. QED
    BY <1>2, <1>3, <1>4

(* A parent that dangles or clashes is reported or the verdict says that   *)
(* the lineage was truncated, for traces with any number of edges, and a   *)
(* reuse is always reported.                                               *)
THEOREM HidesNothing == AnalysisSpec => []NothingHidden
<1>1. AnalysisInit => Concluded
    BY DEF AnalysisInit, Concluded
<1>2. ScanInv /\ Concluded /\ [AnalysisNext]_analysisVars => Concluded'
    BY ConcludedNext
<1>3. ScanInv /\ Concluded => NothingHidden
    BY VerdictHides
<1>. QED
    BY <1>1, <1>2, <1>3, ScanInvariant, PTL DEF AnalysisSpec
=============================================================================
