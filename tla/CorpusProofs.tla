---------------------------- MODULE CorpusProofs ----------------------------
(***************************************************************************)
(* What the corpus contract promises, for any floors, fixtures and         *)
(* manifest: what the pass carries along is what it has seen, and it       *)
(* accepts exactly the sound manifests.                                    *)
(***************************************************************************)
EXTENDS Corpus, SequenceFacts, FiniteSetTheorems, TLAPS

(* Induction over the subsets of a finite set, by removing an element.     *)
LEMMA SubsetInduction ==
    ASSUME NEW S, IsFiniteSet(S), NEW T, {} \in T,
           \A s \in SUBSET S : s # {} => \E x \in s : s \ {x} \in T => s \in T
    PROVE  S \in T
<1> DEFINE missed == {s \in SUBSET S : s \notin T}
           sizes == {Cardinality(s) : s \in missed}
<1>1. \A s \in SUBSET S : IsFiniteSet(s) /\ Cardinality(s) \in Nat
    BY FS_Subset, FS_CardinalityType
<1>2. SUFFICES ASSUME missed # {} PROVE FALSE
    OBVIOUS
<1>3. sizes \in SUBSET Nat /\ sizes # {}
    BY <1>1, <1>2
<1>4. PICK k \in sizes : \A j \in sizes : k <= j
    <2> HIDE DEF sizes
    <2>. QED BY <1>3, Least
<1>5. PICK s \in missed : k = Cardinality(s)
    BY <1>4
<1>6. PICK x \in s : s \ {x} \in T => s \in T
    BY <1>5
<1>7. s \ {x} \in missed
    BY <1>5, <1>6
<1>8. Cardinality(s \ {x}) = Cardinality(s) - 1
    BY <1>1, <1>5, <1>6, FS_RemoveElement
<1>9. Cardinality(s) <= Cardinality(s \ {x})
    BY <1>4, <1>5, <1>7
<1>. QED
    BY <1>1, <1>5, <1>8, <1>9

-----------------------------------------------------------------------------
(* A sum counts its units: for each place, as many as the number there.    *)
Units(f, s) == {u \in s \X Nat : u[2] \in 1..f[u[1]]}

(* One more place adds the number there.                                   *)
LEMMA UnitsOfOneMore ==
    ASSUME NEW f, NEW s, NEW x, x \notin s, f[x] \in Nat, IsFiniteSet(Units(f, s))
    PROVE  /\ IsFiniteSet(Units(f, s \cup {x}))
           /\ Cardinality(Units(f, s \cup {x})) = f[x] + Cardinality(Units(f, s))
<1> DEFINE new == {x} \X (1..f[x])
           old == Units(f, s)
<1>1. IsFiniteSet({x}) /\ Cardinality({x}) = 1
    BY FS_Singleton
<1>2. IsFiniteSet(1..f[x]) /\ Cardinality(1..f[x]) = f[x]
    BY FS_Interval
<1>3. IsFiniteSet(new) /\ Cardinality(new) = f[x]
    <2>1. IsFiniteSet(new) /\ Cardinality(new) = 1 * Cardinality(1..f[x])
        BY ONLY <1>1, <1>2, FS_Product
    <2>. QED BY ONLY <2>1, <1>2, f[x] \in Nat
<1>4. Units(f, s \cup {x}) = old \cup new
    BY DEF Units
<1>5. old \cap new = {}
    BY DEF Units
<1> HIDE DEF new, old
<1>6. /\ IsFiniteSet(old \cup new)
      /\ Cardinality(old \cup new) = Cardinality(old) + Cardinality(new) - Cardinality(old \cap new)
    BY <1>3, FS_Union DEF old
<1>7. Cardinality(old \cap new) = 0 /\ Cardinality(old) \in Nat
    BY <1>5, FS_EmptySet, FS_CardinalityType DEF old
<1>8. Cardinality(old \cup new) = f[x] + Cardinality(old)
    BY ONLY <1>3, <1>6, <1>7, f[x] \in Nat
<1>. QED
    BY ONLY <1>4, <1>6, <1>8 DEF old

(* What a fold with + is made of.                                          *)
Sums(g, f) ==
    g = [s \in SUBSET DOMAIN f |->
          IF s = {} THEN 0
          ELSE f[CHOOSE x \in s : TRUE] + g[s \ {CHOOSE x \in s : TRUE}]]

(* A recursive sum is the number of units.                                 *)
LEMMA SumsCount ==
    ASSUME NEW f, IsFiniteSet(DOMAIN f), f \in [DOMAIN f -> Nat], NEW g, Sums(g, f)
    PROVE  IsFiniteSet(Units(f, DOMAIN f)) /\ g[DOMAIN f] = Cardinality(Units(f, DOMAIN f))
<1> DEFINE T == {s \in SUBSET DOMAIN f : IsFiniteSet(Units(f, s)) /\ g[s] = Cardinality(Units(f, s))}
<1>1. Units(f, {}) = {}
    BY DEF Units
<1>2. {} \in T
    BY <1>1, FS_EmptySet DEF Sums
<1>3. ASSUME NEW s \in SUBSET DOMAIN f, s # {}
      PROVE  \E x \in s : s \ {x} \in T => s \in T
    <2> DEFINE x == CHOOSE x \in s : TRUE
    <2>1. x \in s
        BY <1>3
    <2>2. g[s] = f[x] + g[s \ {x}]
        BY <1>3 DEF Sums
    <2> HIDE DEF x
    <2>3. ASSUME s \ {x} \in T PROVE s \in T
        <3> DEFINE r == s \ {x}
        <3>1. r \cup {x} = s /\ x \notin r /\ f[x] \in Nat
            BY <2>1
        <3>2. IsFiniteSet(Units(f, r)) /\ g[r] = Cardinality(Units(f, r))
            BY <2>3
        <3> HIDE DEF r
        <3>3. /\ IsFiniteSet(Units(f, r \cup {x}))
              /\ Cardinality(Units(f, r \cup {x})) = f[x] + Cardinality(Units(f, r))
            BY ONLY <3>1, <3>2, UnitsOfOneMore
        <3>. QED BY <2>2, <3>1, <3>2, <3>3 DEF r
    <2>. QED BY <2>1, <2>3
<1> HIDE DEF T
<1>4. DOMAIN f \in T
    BY <1>2, <1>3, SubsetInduction
<1>. QED
    BY <1>4 DEF T

(* A total is the number of units.                                         *)
LEMMA TotalIsCount ==
    ASSUME NEW f, IsFiniteSet(DOMAIN f), f \in [DOMAIN f -> Nat]
    PROVE  /\ IsFiniteSet(Units(f, DOMAIN f))
           /\ Total(f) = Cardinality(Units(f, DOMAIN f))
<1> DEFINE h == [s \in SUBSET DOMAIN f |-> Cardinality(Units(f, s))]
<1>1. ASSUME NEW s \in SUBSET DOMAIN f PROVE IsFiniteSet(Units(f, s))
    <2> DEFINE T == {r \in SUBSET DOMAIN f : IsFiniteSet(Units(f, r))}
    <2>0. IsFiniteSet(s)
        BY FS_Subset
    <2>1. Units(f, {}) = {}
        BY DEF Units
    <2>2. {} \in T
        BY <2>1, FS_EmptySet
    <2>3. ASSUME NEW r \in SUBSET s, r # {} PROVE \E x \in r : r \ {x} \in T => r \in T
        <3>1. PICK x : x \in r
            BY <2>3
        <3>2. ASSUME r \ {x} \in T PROVE r \in T
            <4> DEFINE q == r \ {x}
            <4>1. q \cup {x} = r /\ x \notin q /\ f[x] \in Nat /\ IsFiniteSet(Units(f, q))
                BY <3>1, <3>2
            <4> HIDE DEF q
            <4>2. IsFiniteSet(Units(f, q \cup {x}))
                BY ONLY <4>1, UnitsOfOneMore
            <4>. QED BY <4>1, <4>2
        <3>. QED BY <3>1, <3>2
    <2> HIDE DEF T
    <2>4. s \in T
        BY <2>0, <2>2, <2>3, SubsetInduction
    <2>. QED BY <2>4 DEF T
<1>2. ASSUME NEW s \in SUBSET DOMAIN f
      PROVE  h[s] = IF s = {} THEN 0
                    ELSE f[CHOOSE x \in s : TRUE] + h[s \ {CHOOSE x \in s : TRUE}]
    <2>1. CASE s = {}
        <3>1. Units(f, {}) = {}
            BY DEF Units
        <3>. QED BY <2>1, <3>1, FS_EmptySet
    <2>2. CASE s # {}
        <3> DEFINE x == CHOOSE x \in s : TRUE
                   r == s \ {x}
        <3>1. x \in s
            BY <2>2
        <3>2. h[s] = Cardinality(Units(f, s)) /\ h[r] = Cardinality(Units(f, r))
            OBVIOUS
        <3>3. r \cup {x} = s /\ x \notin r /\ f[x] \in Nat /\ IsFiniteSet(Units(f, r))
            BY <1>1, <3>1
        <3> HIDE DEF x, r
        <3>4. Cardinality(Units(f, r \cup {x})) = f[x] + Cardinality(Units(f, r))
            BY ONLY <3>3, UnitsOfOneMore
        <3>5. h[s] = f[x] + h[r]
            BY ONLY <3>2, <3>3, <3>4
        <3>. QED BY <2>2, <3>5 DEF x, r
    <2>. QED BY <2>1, <2>2
<1>3. Sums(h, f)
    BY <1>2 DEF Sums
<1> HIDE DEF h
<1>4. \E g : Sums(g, f) /\ Total(f) = g[DOMAIN f]
    BY <1>3 DEF Sums, Total, FoldFunction, FoldFunctionOnSet, MapThenFoldSet
<1>. QED
    BY <1>4, SumsCount

-----------------------------------------------------------------------------
(* The lists of names that a fixture's records are.                        *)
AllNames == UNION {ToSet(Structure[p[1]][p[2]].names) : p \in
                     UNION {{f} \X DOMAIN Structure[f] : f \in DOMAIN Structure}}
Lists(f) == [i \in DOMAIN Structure[f] |-> Structure[f][i].names]

(* The records of a fixture are a list of lists of names.                  *)
LEMMA FixtureLists ==
    ASSUME NEW f \in DOMAIN Structure
    PROVE  /\ Len(Structure[f]) \in Nat /\ DOMAIN Structure[f] = 1..Len(Structure[f])
           /\ Lists(f) \in Seq(Seq(AllNames)) /\ Len(Lists(f)) = Len(Structure[f])
           /\ \A i \in 1..Len(Structure[f]) :
                /\ Structure[f][i].names = Lists(f)[i]
                /\ Lists(f)[i] \in Seq(AllNames)
           /\ Names(f) = FlattenSeq(Lists(f)) /\ Names(f) \in Seq(AllNames)
           /\ Len(Names(f)) \in Nat /\ DOMAIN Names(f) = 1..Len(Names(f))
<1> DEFINE n == Len(Structure[f])
<1>1. Structure[f] \in Seq(ToSet(Structure[f]))
    BY CorpusAssumption DEF CorpusAssumption
<1>2. n \in Nat /\ DOMAIN Structure[f] = 1..n
    BY <1>1, LenProperties
<1>3. ASSUME NEW i \in 1..n PROVE Structure[f][i].names \in Seq(AllNames)
    <2> DEFINE s == Structure[f][i].names
    <2>1. s \in Seq(ToSet(s))
        BY <1>2, CorpusAssumption DEF CorpusAssumption
    <2>2. ToSet(s) \subseteq AllNames
        <3>1. <<f, i>> \in UNION {{g} \X DOMAIN Structure[g] : g \in DOMAIN Structure}
            BY <1>2
        <3>. QED BY <3>1 DEF AllNames
    <2> HIDE DEF s
    <2>3. s \in Seq(AllNames)
        BY <2>1, <2>2, SeqOfMore
    <2>. QED BY <2>3 DEF s
<1>4. Lists(f) = [i \in 1..n |-> Structure[f][i].names]
    BY <1>2 DEF Lists
<1>5. Lists(f) \in Seq(Seq(AllNames)) /\ Len(Lists(f)) = n
    BY <1>2, <1>3, <1>4
<1>6. \A i \in 1..n : Structure[f][i].names = Lists(f)[i] /\ Lists(f)[i] \in Seq(AllNames)
    BY <1>3, <1>4
<1>7. Names(f) = FlattenSeq(Lists(f))
    BY DEF Names, Lists
<1>8. Names(f) \in Seq(AllNames)
    BY <1>5, <1>7, FlattenFacts
<1>. QED
    BY <1>2, <1>5, <1>6, <1>7, <1>8, LenProperties

(* The names before a place, and the place where a name stands first.      *)
Before(s, k) == {s[j] : j \in 1..(k - 1)}
FirstAt(s, k) == \A j \in 1..(k - 1) : s[j] # s[k]

(* Each name of a list stands somewhere first.                             *)
LEMMA FirstPlace ==
    ASSUME NEW S, NEW s \in Seq(S), NEW p \in 1..Len(s)
    PROVE  \E k \in 1..Len(s) : FirstAt(s, k) /\ s[k] = s[p]
<1> DEFINE T == {k \in 1..Len(s) : s[k] = s[p]}
<1>1. Len(s) \in Nat
    BY LenProperties
<1>2. T \in SUBSET Nat /\ T # {}
    OBVIOUS
<1> HIDE DEF T
<1>3. PICK k \in T : \A j \in T : k <= j
    BY <1>2, Least
<1>4. k \in 1..Len(s) /\ s[k] = s[p]
    BY DEF T
<1>5. ASSUME NEW j \in 1..(k - 1), s[j] = s[k] PROVE FALSE
    <2>1. j \in 1..Len(s) /\ ~(k <= j)
        BY <1>1, <1>4
    <2>. QED BY <1>3, <1>4, <1>5, <2>1 DEF T
<1>. QED
    BY <1>4, <1>5 DEF FirstAt

(* A name's token is the number of names before its first place.           *)
LEMMA TokenIs ==
    ASSUME NEW f \in DOMAIN Structure, NEW k \in 1..Len(Names(f)), FirstAt(Names(f), k)
    PROVE  Token(f, Names(f)[k]) = Cardinality(Before(Names(f), k))
<1> DEFINE s == Names(f)
           P(l) == s[l] = s[k] /\ \A j \in 1..(l - 1) : s[j] # s[k]
           first == CHOOSE l \in DOMAIN s : P(l)
<1>1. Len(s) \in Nat /\ DOMAIN s = 1..Len(s)
    BY FixtureLists
<1>2. Token(f, s[k]) = Cardinality({s[j] : j \in 1..(first - 1)})
    BY DEF Token
<1> HIDE DEF s
<1>3. P(k)
    BY DEF FirstAt, s
<1>4. first \in 1..Len(s) /\ P(first)
    BY <1>1, <1>3 DEF s
<1> HIDE DEF first
<1>5. ~(first < k) /\ ~(k < first)
    <2>1. ASSUME first < k PROVE FALSE
        <3>1. first \in 1..(k - 1)
            BY <1>1, <1>4, <2>1 DEF s
        <3>. QED BY <1>3, <1>4, <3>1
    <2>2. ASSUME k < first PROVE FALSE
        <3>1. k \in 1..(first - 1)
            BY <1>1, <1>4, <2>2 DEF s
        <3>. QED BY <1>4, <3>1
    <2>. QED BY <2>1, <2>2
<1>6. first = k
    BY <1>1, <1>4, <1>5 DEF s
<1>. QED
    BY <1>2, <1>6 DEF Before, s

(* There are finitely many names before a place.                           *)
LEMMA BeforeFinite ==
    ASSUME NEW S, NEW s \in Seq(S), NEW k \in 1..Len(s)
    PROVE  IsFiniteSet(Before(s, k)) /\ Cardinality(Before(s, k)) \in Nat
<1> DEFINE h == [j \in 1..(k - 1) |-> s[j]]
<1>1. Len(s) \in Nat
    BY LenProperties
<1>2. IsFiniteSet(1..(k - 1))
    BY <1>1, FS_Interval
<1>3. h \in Surjection(1..(k - 1), Before(s, k))
    BY DEF Surjection, Before
<1>. QED
    BY <1>2, <1>3, FS_Surjection, FS_CardinalityType

(* Different names of a fixture have different tokens.                     *)
LEMMA EarlierFewer ==
    ASSUME NEW S, NEW s \in Seq(S), NEW k \in 1..Len(s), NEW l \in 1..Len(s), k < l, FirstAt(s, k)
    PROVE  Cardinality(Before(s, k)) < Cardinality(Before(s, l))
<1>1. Len(s) \in Nat
    BY LenProperties
<1>2. /\ IsFiniteSet(Before(s, k)) /\ Cardinality(Before(s, k)) \in Nat
      /\ IsFiniteSet(Before(s, l)) /\ Cardinality(Before(s, l)) \in Nat
    BY BeforeFinite
<1>3. s[k] \notin Before(s, k)
    BY DEF Before, FirstAt
<1>4. s[k] \in Before(s, l)
    <2>1. k \in 1..(l - 1)
        BY <1>1
    <2>. QED BY <2>1 DEF Before
<1>5. Before(s, k) \subseteq Before(s, l)
    <2>1. \A j \in 1..(k - 1) : j \in 1..(l - 1)
        BY <1>1
    <2>. QED BY <2>1 DEF Before
<1>6. Before(s, k) # Before(s, l)
    BY <1>3, <1>4
<1>7. Before(s, k) \in SUBSET Before(s, l)
    BY <1>5
<1>. QED
    BY <1>2, <1>6, <1>7, FS_Subset

(* Equal tokens are of equal names.                                        *)
LEMMA TokensTell ==
    ASSUME NEW f \in DOMAIN Structure, NEW p \in 1..Len(Names(f)), NEW q \in 1..Len(Names(f)),
           Token(f, Names(f)[p]) = Token(f, Names(f)[q])
    PROVE  Names(f)[p] = Names(f)[q]
<1> DEFINE s == Names(f)
<1>1. s \in Seq(AllNames) /\ Len(s) \in Nat
    BY FixtureLists
<1>2. PICK k \in 1..Len(s) : FirstAt(s, k) /\ s[k] = s[p]
    BY <1>1, FirstPlace
<1>3. PICK l \in 1..Len(s) : FirstAt(s, l) /\ s[l] = s[q]
    BY <1>1, FirstPlace
<1>4. Cardinality(Before(s, k)) = Cardinality(Before(s, l))
    BY <1>2, <1>3, TokenIs
<1>4a. Cardinality(Before(s, k)) \in Nat /\ Cardinality(Before(s, l)) \in Nat
    BY <1>1, BeforeFinite
<1> HIDE DEF s
<1>5. ~(k < l) /\ ~(l < k)
    <2>1. k < l => Cardinality(Before(s, k)) < Cardinality(Before(s, l))
        BY <1>1, <1>2, EarlierFewer
    <2>2. l < k => Cardinality(Before(s, l)) < Cardinality(Before(s, k))
        BY <1>1, <1>3, EarlierFewer
    <2>. QED BY <1>4, <1>4a, <2>1, <2>2
<1>6. k = l
    BY <1>1, <1>5
<1>. QED
    BY <1>2, <1>3, <1>6 DEF s

(* The same name at the same places: the same tokens.                      *)
Patterned(s, t) ==
    /\ Len(s) = Len(t)
    /\ \A j \in 1..Len(s) : \A k \in 1..Len(s) : s[j] = s[k] <=> t[j] = t[k]

(* Two lists of one pattern have as many names before a place.             *)
LEMMA BeforeAlike ==
    ASSUME NEW S, NEW s \in Seq(S), NEW t \in Seq(S), Patterned(s, t), NEW k \in 1..Len(s)
    PROVE  Cardinality(Before(s, k)) = Cardinality(Before(t, k))
<1> DEFINE at == [x \in Before(s, k) |-> CHOOSE j \in 1..(k - 1) : s[j] = x]
           h == [x \in Before(s, k) |-> t[at[x]]]
<1>1. Len(s) \in Nat /\ \A j \in 1..(k - 1) : j \in 1..Len(s)
    BY LenProperties
<1>2. \A x \in Before(s, k) : at[x] \in 1..(k - 1) /\ s[at[x]] = x
    BY DEF Before
<1> HIDE DEF at
<1>3. h \in [Before(s, k) -> Before(t, k)]
    BY <1>2 DEF Before
<1>4. ASSUME NEW x \in Before(s, k), NEW y \in Before(s, k), h[x] = h[y] PROVE x = y
    <2>1. at[x] \in 1..Len(s) /\ at[y] \in 1..Len(s) /\ t[at[x]] = t[at[y]]
        BY <1>1, <1>2, <1>4
    <2>2. s[at[x]] = s[at[y]]
        BY <2>1 DEF Patterned
    <2>. QED BY <1>2, <2>2
<1>5. ASSUME NEW y \in Before(t, k) PROVE \E x \in Before(s, k) : h[x] = y
    <2>1. PICK j \in 1..(k - 1) : t[j] = y
        BY DEF Before
    <2>2. s[j] \in Before(s, k)
        BY DEF Before
    <2>3. j \in 1..Len(s) /\ at[s[j]] \in 1..Len(s) /\ s[at[s[j]]] = s[j]
        BY <1>1, <1>2, <2>2
    <2>4. t[at[s[j]]] = t[j]
        BY <2>3 DEF Patterned
    <2>. QED BY <2>1, <2>2, <2>4
<1> HIDE DEF h
<1>6. h \in Bijection(Before(s, k), Before(t, k))
    BY <1>3, <1>4, <1>5 DEF Bijection, Injection, IsInjective, Surjection
<1>7. ExistsBijection(Before(s, k), Before(t, k))
    BY <1>6 DEF ExistsBijection
<1>. QED
    BY <1>7, BeforeFinite, FS_Bijection

(* Two fixtures of one pattern have the same tokens.                       *)
LEMMA TokensAlike ==
    ASSUME NEW f \in DOMAIN Structure, NEW g \in DOMAIN Structure, Patterned(Names(f), Names(g)),
           NEW p \in 1..Len(Names(f))
    PROVE  Token(f, Names(f)[p]) = Token(g, Names(g)[p])
<1> DEFINE s == Names(f)
           t == Names(g)
<1>1. s \in Seq(AllNames) /\ t \in Seq(AllNames) /\ Len(s) \in Nat
    BY FixtureLists
<1>2. PICK k \in 1..Len(s) : FirstAt(s, k) /\ s[k] = s[p]
    BY <1>1, FirstPlace
<1>3. Len(t) = Len(s) /\ t[k] = t[p]
    BY <1>2 DEF Patterned
<1>4. \A j \in 1..(k - 1) : j \in 1..Len(s)
    BY <1>1
<1>5. FirstAt(t, k)
    BY <1>2, <1>4 DEF FirstAt, Patterned
<1>6. Token(f, s[k]) = Cardinality(Before(s, k))
    BY <1>2, TokenIs
<1>7. Token(g, t[k]) = Cardinality(Before(t, k))
    BY <1>3, <1>5, TokenIs
<1>8. Cardinality(Before(s, k)) = Cardinality(Before(t, k))
    BY <1>1, BeforeAlike
<1>. QED
    BY <1>2, <1>3, <1>6, <1>7, <1>8

(* Two cases have one signature exactly when they declare the same and     *)
(* their fixtures are the same up to the names in them.                    *)
Alike(a, b) ==
    a.declared.found = b.declared.found /\ Renamed(a.fixture, b.fixture)

SameShapes(f, g) ==
    /\ Len(Structure[f]) = Len(Structure[g])
    /\ \A i \in 1..Len(Structure[f]) :
         /\ Structure[f][i].shape = Structure[g][i].shape
         /\ Len(Lists(f)[i]) = Len(Lists(g)[i])

SameTokens(f, g) ==
    \A i \in 1..Len(Structure[f]) : \A k \in 1..Len(Lists(f)[i]) :
        Token(f, Lists(f)[i][k]) = Token(g, Lists(g)[i][k])

(* Being renamed: the same shapes, and the same pattern of names.          *)
LEMMA RenamedIs ==
    ASSUME NEW f \in DOMAIN Structure, NEW g \in DOMAIN Structure
    PROVE  Renamed(f, g) <=> SameShapes(f, g) /\ Patterned(Names(f), Names(g))
<1>1. /\ DOMAIN Structure[f] = 1..Len(Structure[f])
      /\ \A i \in 1..Len(Structure[f]) : Structure[f][i].names = Lists(f)[i]
      /\ \A i \in 1..Len(Structure[g]) : Structure[g][i].names = Lists(g)[i]
      /\ DOMAIN Names(f) = 1..Len(Names(f))
    BY FixtureLists
<1>2. SameShapes(f, g) <=>
        /\ Len(Structure[f]) = Len(Structure[g])
        /\ \A i \in DOMAIN Structure[f] :
             /\ Structure[f][i].shape = Structure[g][i].shape
             /\ Len(Structure[f][i].names) = Len(Structure[g][i].names)
    BY <1>1 DEF SameShapes
<1>3. SameShapes(f, g) => Len(Names(f)) = Len(Names(g))
    <2>1. ASSUME SameShapes(f, g) PROVE Len(Names(f)) = Len(Names(g))
        <3>1. /\ Lists(f) \in Seq(Seq(AllNames)) /\ Lists(g) \in Seq(Seq(AllNames))
              /\ Len(Lists(f)) = Len(Structure[f]) /\ Len(Lists(g)) = Len(Structure[g])
              /\ Names(f) = FlattenSeq(Lists(f)) /\ Names(g) = FlattenSeq(Lists(g))
            BY FixtureLists
        <3>2. /\ Len(Lists(f)) = Len(Lists(g))
              /\ \A i \in 1..Len(Lists(f)) : Len(Lists(f)[i]) = Len(Lists(g)[i])
            BY <2>1, <3>1 DEF SameShapes
        <3>. QED BY <3>1, <3>2, FlattenAlike
    <2>. QED BY <2>1
<1>4. Renamed(f, g) <=>
        /\ SameShapes(f, g)
        /\ \A j, k \in 1..Len(Names(f)) :
             Names(f)[j] = Names(f)[k] <=> Names(g)[j] = Names(g)[k]
    BY <1>1, <1>2 DEF Renamed
<1>. QED
    BY <1>3, <1>4 DEF Patterned

(* Of the same shapes, the same tokens exactly when the same pattern.      *)
LEMMA TokensPattern ==
    ASSUME NEW f \in DOMAIN Structure, NEW g \in DOMAIN Structure, SameShapes(f, g)
    PROVE  SameTokens(f, g) <=> Patterned(Names(f), Names(g))
<1> DEFINE s == Names(f)
           t == Names(g)
           ff == Lists(f)
           gg == Lists(g)
<1>1. /\ ff \in Seq(Seq(AllNames)) /\ gg \in Seq(Seq(AllNames))
      /\ Len(ff) = Len(Structure[f]) /\ Len(gg) = Len(Structure[g])
      /\ s = FlattenSeq(ff) /\ t = FlattenSeq(gg)
    BY FixtureLists
<1>2. Len(ff) = Len(gg) /\ \A i \in 1..Len(ff) : Len(ff[i]) = Len(gg[i])
    BY <1>1 DEF SameShapes
<1> HIDE DEF s, t, ff, gg
<1>3. /\ Len(s) = Len(t)
      /\ \A p \in 1..Len(s) : \E i \in 1..Len(ff) : \E k \in 1..Len(ff[i]) :
           Beside(s, t, p, ff[i], gg[i], k)
      /\ \A i \in 1..Len(ff) : \A k \in 1..Len(ff[i]) : \E p \in 1..Len(s) :
           Beside(s, t, p, ff[i], gg[i], k)
    BY <1>1, <1>2, FlattenAlike
<1>4. SameTokens(f, g) <=> \A p \in 1..Len(s) : Token(f, s[p]) = Token(g, t[p])
    <2>1. SameTokens(f, g) <=>
            \A i \in 1..Len(ff) : \A k \in 1..Len(ff[i]) : Token(f, ff[i][k]) = Token(g, gg[i][k])
        BY <1>1 DEF SameTokens, ff, gg
    <2>2. ASSUME SameTokens(f, g), NEW p \in 1..Len(s) PROVE Token(f, s[p]) = Token(g, t[p])
        <3>0. PICK i \in 1..Len(ff) : \E k \in 1..Len(ff[i]) : Beside(s, t, p, ff[i], gg[i], k)
            BY <1>3
        <3>1. PICK k \in 1..Len(ff[i]) : Beside(s, t, p, ff[i], gg[i], k)
            BY <3>0
        <3>2. s[p] = ff[i][k] /\ t[p] = gg[i][k]
            BY <3>1 DEF Beside
        <3>3. Token(f, ff[i][k]) = Token(g, gg[i][k])
            BY <2>1, <2>2
        <3>. QED BY <3>2, <3>3
    <2>3. ASSUME \A p \in 1..Len(s) : Token(f, s[p]) = Token(g, t[p]),
                 NEW i \in 1..Len(ff), NEW k \in 1..Len(ff[i])
          PROVE  Token(f, ff[i][k]) = Token(g, gg[i][k])
        <3>1. PICK p \in 1..Len(s) : Beside(s, t, p, ff[i], gg[i], k)
            BY <1>3
        <3>2. s[p] = ff[i][k] /\ t[p] = gg[i][k]
            BY <3>1 DEF Beside
        <3>3. Token(f, s[p]) = Token(g, t[p])
            BY <2>3
        <3>. QED BY <3>2, <3>3
    <2>. QED BY <2>1, <2>2, <2>3
<1>5. ASSUME Patterned(s, t), NEW p \in 1..Len(s) PROVE Token(f, s[p]) = Token(g, t[p])
    BY <1>5, TokensAlike DEF s, t
<1>6. ASSUME \A p \in 1..Len(s) : Token(f, s[p]) = Token(g, t[p]) PROVE Patterned(s, t)
    <2>1. ASSUME NEW j \in 1..Len(s), NEW k \in 1..Len(s) PROVE s[j] = s[k] <=> t[j] = t[k]
        <3>1. Token(f, s[j]) = Token(g, t[j]) /\ Token(f, s[k]) = Token(g, t[k])
            BY <1>6
        <3>2. j \in 1..Len(t) /\ k \in 1..Len(t)
            BY <1>3
        <3>3. ASSUME s[j] = s[k] PROVE t[j] = t[k]
            <4>1. Token(g, t[j]) = Token(g, t[k])
                BY <3>1, <3>3
            <4>. QED BY <3>2, <4>1, TokensTell DEF t
        <3>4. ASSUME t[j] = t[k] PROVE s[j] = s[k]
            <4>1. Token(f, s[j]) = Token(f, s[k])
                BY <3>1, <3>4
            <4>. QED BY <4>1, TokensTell DEF s
        <3>. QED BY <3>3, <3>4
    <2>. QED BY <1>3, <2>1 DEF Patterned
<1>. QED
    BY <1>4, <1>5, <1>6 DEF s, t

Place(h, i) ==
    [shape |-> Structure[h][i].shape,
     names |-> [k \in 1..Len(Lists(h)[i]) |-> Token(h, Lists(h)[i][k])]]
Sig(h) == [i \in 1..Len(Structure[h]) |-> Place(h, i)]

(* Signatures are equal exactly when the declared findings are and one     *)
(* fixture is the other renamed.                                           *)
LEMMA SignatureTells ==
    ASSUME NEW a, NEW b, a.fixture \in DOMAIN Structure, b.fixture \in DOMAIN Structure
    PROVE  Signature(a) = Signature(b) <=> Alike(a, b)
<1> DEFINE f == a.fixture
           g == b.fixture
<1>1. ASSUME NEW h \in DOMAIN Structure, NEW c, c.fixture = h
      PROVE  Signature(c) = <<c.declared.found, Sig(h)>>
    <2> DEFINE n == Len(Structure[h])
    <2>1. /\ DOMAIN Structure[h] = 1..n
          /\ \A i \in 1..n : Structure[h][i].names = Lists(h)[i] /\ Lists(h)[i] \in Seq(AllNames)
        BY FixtureLists
    <2>2. \A i \in 1..n : DOMAIN Structure[h][i].names = 1..Len(Lists(h)[i])
        BY <2>1, LenProperties
    <2>3. \A i \in 1..n :
            [shape |-> Structure[h][i].shape,
             names |-> [k \in DOMAIN Structure[h][i].names |-> Token(h, Structure[h][i].names[k])]]
            = Place(h, i)
        BY <2>1, <2>2 DEF Place
    <2>4. [i \in DOMAIN Structure[h] |->
            [shape |-> Structure[h][i].shape,
             names |-> [k \in DOMAIN Structure[h][i].names |-> Token(h, Structure[h][i].names[k])]]]
          = Sig(h)
        BY <2>1, <2>3 DEF Sig
    <2>. QED BY <1>1, <2>4 DEF Signature
<1>2. Signature(a) = Signature(b) <=> a.declared.found = b.declared.found /\ Sig(f) = Sig(g)
    <2>1. Signature(a) = <<a.declared.found, Sig(f)>>
          /\ Signature(b) = <<b.declared.found, Sig(g)>>
        BY <1>1
    <2>. QED BY <2>1
<1>3. Len(Structure[f]) \in Nat /\ Len(Structure[g]) \in Nat
    BY FixtureLists
<1>3a. /\ \A i \in 1..Len(Structure[f]) : Len(Lists(f)[i]) \in Nat
       /\ \A i \in 1..Len(Structure[g]) : Len(Lists(g)[i]) \in Nat
    BY FixtureLists, LenProperties
<1>4. Sig(f) = Sig(g) <=>
        /\ Len(Structure[f]) = Len(Structure[g])
        /\ \A i \in 1..Len(Structure[f]) : Place(f, i) = Place(g, i)
    <2>1. ASSUME Sig(f) = Sig(g)
          PROVE  /\ Len(Structure[f]) = Len(Structure[g])
                 /\ \A i \in 1..Len(Structure[f]) : Place(f, i) = Place(g, i)
        <3>1. DOMAIN Sig(f) = 1..Len(Structure[f]) /\ DOMAIN Sig(g) = 1..Len(Structure[g])
            BY DEF Sig
        <3>2. 1..Len(Structure[f]) = 1..Len(Structure[g])
            BY <2>1, <3>1
        <3>3. Len(Structure[f]) = Len(Structure[g])
            BY <1>3, <3>2
        <3>4. \A i \in 1..Len(Structure[f]) : Sig(f)[i] = Place(f, i) /\ Sig(g)[i] = Place(g, i)
            BY <3>2 DEF Sig
        <3>. QED BY <2>1, <3>3, <3>4
    <2>2. ASSUME Len(Structure[f]) = Len(Structure[g]),
                 \A i \in 1..Len(Structure[f]) : Place(f, i) = Place(g, i)
          PROVE  Sig(f) = Sig(g)
        BY <2>2 DEF Sig
    <2>. QED BY <2>1, <2>2
<1>5. ASSUME NEW i \in 1..Len(Structure[f]), Len(Structure[f]) = Len(Structure[g])
      PROVE  Place(f, i) = Place(g, i) <=>
               /\ Structure[f][i].shape = Structure[g][i].shape
               /\ Len(Lists(f)[i]) = Len(Lists(g)[i])
               /\ \A k \in 1..Len(Lists(f)[i]) :
                    Token(f, Lists(f)[i][k]) = Token(g, Lists(g)[i][k])
    <2> DEFINE m == Len(Lists(f)[i])
               n == Len(Lists(g)[i])
               F(k) == Token(f, Lists(f)[i][k])
               G(k) == Token(g, Lists(g)[i][k])
    <2>1. m \in Nat /\ n \in Nat
        BY <1>3a, <1>5
    <2> HIDE DEF m, n, F, G
    <2>2. [k \in 1..m |-> F(k)] = [k \in 1..n |-> G(k)] <=> m = n /\ \A k \in 1..m : F(k) = G(k)
        <3>1. ASSUME [k \in 1..m |-> F(k)] = [k \in 1..n |-> G(k)] PROVE m = n /\ \A k \in 1..m : F(k) = G(k)
            <4>1. 1..m = 1..n
                BY <3>1
            <4>. QED BY <2>1, <3>1, <4>1
        <3>. QED BY <3>1
    <2>3. Place(f, i) = Place(g, i) <=>
            /\ Structure[f][i].shape = Structure[g][i].shape
            /\ [k \in 1..m |-> F(k)] = [k \in 1..n |-> G(k)]
        BY DEF m, n, F, G, Place
    <2>. QED BY <2>2, <2>3 DEF m, n, F, G
<1>6. Sig(f) = Sig(g) <=> SameShapes(f, g) /\ SameTokens(f, g)
    <2>. QED BY <1>4, <1>5 DEF SameShapes, SameTokens
<1>7. Renamed(f, g) <=> SameShapes(f, g) /\ Patterned(Names(f), Names(g))
    BY RenamedIs
<1>8. SameShapes(f, g) => (SameTokens(f, g) <=> Patterned(Names(f), Names(g)))
    BY TokensPattern
<1>. QED
    BY <1>2, <1>6, <1>7, <1>8 DEF Alike

-----------------------------------------------------------------------------
(* What the pass counts.                                                   *)
Counted ==
    /\ manifest \in Manifests
    /\ pos \in 0..(Len(Accepted) + Len(Negatives) + 1)
    /\ verdict \in {"pending", "refused", "valid"}
    /\ counts \in [Categories -> Nat]
    /\ signatures = [c \in Categories |-> signatures[c]]
    /\ \A c \in Categories :
         IsFiniteSet(signatures[c]) /\ Cardinality(signatures[c]) = counts[c]
    /\ IsFiniteSet(caseIds)
    /\ Cardinality(caseIds) = Cardinality(Units(counts, Categories))

(* The manifest's cases are lists, of fixtures there are.                  *)
LEMMA ListsOf ==
    ASSUME manifest \in Manifests
    PROVE  /\ Accepted \in Seq(ToSet(Accepted)) /\ Negatives \in Seq(ToSet(Negatives))
           /\ Len(Accepted) \in Nat /\ DOMAIN Accepted = 1..Len(Accepted)
           /\ Len(Negatives) \in Nat /\ DOMAIN Negatives = 1..Len(Negatives)
           /\ \A i \in 1..Len(Accepted) : Accepted[i].fixture \in DOMAIN Structure
<1>1. Accepted \in Seq(ToSet(Accepted)) /\ Negatives \in Seq(ToSet(Negatives))
    BY CorpusAssumption DEF CorpusAssumption, Accepted, Negatives
<1>2. \A i \in DOMAIN Accepted : Accepted[i].fixture \in DOMAIN Structure
    BY CorpusAssumption DEF CorpusAssumption, Accepted
<1>. QED
    BY <1>1, <1>2, LenProperties

(* Nothing is counted at first.                                            *)
LEMMA CountedInit ==
    ASSUME Init PROVE Counted
<1>1. Units(counts, Categories) = {}
    BY DEF Init, Units
<1>2. Len(Accepted) + Len(Negatives) + 1 \in Nat
    BY ListsOf DEF Init
<1>3. /\ manifest \in Manifests /\ pos \in 0..(Len(Accepted) + Len(Negatives) + 1)
      /\ verdict \in {"pending", "refused", "valid"}
    BY <1>2 DEF Init
<1>4. counts \in [Categories -> Nat] /\ signatures = [c \in Categories |-> signatures[c]]
    BY DEF Init
<1>5. \A c \in Categories : signatures[c] = {} /\ counts[c] = 0
    BY DEF Init
<1>6. caseIds = {}
    BY DEF Init
<1>. QED
    BY <1>1, <1>3, <1>4, <1>5, <1>6, FS_EmptySet DEF Counted

(* A case that is accepted is counted once.                                *)
LEMMA CountedCase ==
    ASSUME Counted, CheckCase PROVE Counted'
<1> DEFINE case == Accepted[pos]
           c == case.category
           new == Signature(case)
<1>1. CASE ~Acceptable(case)
    BY <1>1 DEF CheckCase, Return, Counted, Accepted, Negatives
<1>2. CASE Acceptable(case)
    <2>1. /\ case.fixture \notin caseIds /\ c \in Categories /\ new \notin signatures[c]
          /\ caseIds' = caseIds \cup {case.fixture}
          /\ signatures' = [signatures EXCEPT ![c] = @ \cup {new}]
          /\ counts' = [counts EXCEPT ![c] = @ + 1]
          /\ pos' = pos + 1 /\ pos \in 1..Len(Accepted)
          /\ UNCHANGED <<manifest, verdict, negativeIds>>
        <3>1. pos \in 1..Len(Accepted)
            BY ListsOf DEF CheckCase, Counted
        <3>. QED BY <1>2, <3>1 DEF CheckCase, Acceptable, Recorded
    <2> HIDE DEF case, c, new
    <2>2. counts \in [Categories -> Nat] /\ counts[c] \in Nat /\ counts' \in [Categories -> Nat]
        BY <2>1 DEF Counted
    <2>3. signatures' = [d \in Categories |-> signatures'[d]]
        BY <2>1 DEF Counted
    <2>4. ASSUME NEW d \in Categories
          PROVE  IsFiniteSet(signatures'[d]) /\ Cardinality(signatures'[d]) = counts'[d]
        <3>1. IsFiniteSet(signatures[d]) /\ Cardinality(signatures[d]) = counts[d]
            BY DEF Counted
        <3>2. CASE d = c
            <4>1. signatures'[d] = signatures[d] \cup {new} /\ counts'[d] = counts[d] + 1
                BY <2>1, <2>2, <3>2 DEF Counted
            <4>. QED BY <2>1, <3>1, <3>2, <4>1, FS_AddElement
        <3>3. CASE d # c
            <4>1. signatures'[d] = signatures[d] /\ counts'[d] = counts[d]
                BY <2>1, <2>2, <3>3 DEF Counted
            <4>. QED BY <3>1, <4>1
        <3>. QED BY <3>2, <3>3
    <2>5. /\ IsFiniteSet(Units(counts, Categories))
          /\ <<c, counts[c] + 1>> \notin Units(counts, Categories)
        <3>1. IsFiniteSet(DOMAIN counts) /\ DOMAIN counts = Categories
            BY <2>2, CorpusAssumption DEF CorpusAssumption, Categories
        <3>2. IsFiniteSet(Units(counts, Categories))
            BY <2>2, <3>1, TotalIsCount
        <3>3. <<c, counts[c] + 1>> \notin Units(counts, Categories)
            BY <2>2 DEF Units
        <3>. QED BY <3>2, <3>3
    <2>6. Units(counts', Categories) = Units(counts, Categories) \cup {<<c, counts[c] + 1>>}
        <3>1. counts'[c] = counts[c] + 1 /\ \A d \in Categories : d # c => counts'[d] = counts[d]
            BY <2>1, <2>2
        <3>2. ASSUME NEW u \in Categories \X Nat
              PROVE  u[2] \in 1..counts'[u[1]] <=>
                       u[2] \in 1..counts[u[1]] \/ u = <<c, counts[c] + 1>>
            <4>1. u = <<u[1], u[2]>> /\ u[1] \in Categories /\ u[2] \in Nat
                OBVIOUS
            <4>2. CASE u[1] = c
                <5>1. u[2] \in 1..(counts[c] + 1) <=> u[2] \in 1..counts[c] \/ u[2] = counts[c] + 1
                    BY <2>2, <4>1
                <5>2. u[2] = counts[c] + 1 <=> u = <<c, counts[c] + 1>>
                    BY <4>1, <4>2
                <5>. QED BY <3>1, <4>2, <5>1, <5>2
            <4>3. CASE u[1] # c
                <5>1. u # <<c, counts[c] + 1>>
                    BY <4>3
                <5>. QED BY <3>1, <4>1, <4>3, <5>1
            <4>. QED BY <4>2, <4>3
        <3>3. <<c, counts[c] + 1>> \in Categories \X Nat
            BY <2>1, <2>2
        <3>. QED BY <3>2, <3>3 DEF Units
    <2>7. IsFiniteSet(caseIds') /\ Cardinality(caseIds') = Cardinality(Units(counts', Categories))
        <3>1. /\ IsFiniteSet(caseIds \cup {case.fixture})
              /\ Cardinality(caseIds \cup {case.fixture}) = Cardinality(caseIds) + 1
            BY <2>1, FS_AddElement DEF Counted
        <3>2. Cardinality(Units(counts, Categories) \cup {<<c, counts[c] + 1>>})
                = Cardinality(Units(counts, Categories)) + 1
            BY <2>5, FS_AddElement
        <3>3. Cardinality(caseIds) = Cardinality(Units(counts, Categories))
            BY DEF Counted
        <3>. QED BY <2>1, <2>6, <3>1, <3>2, <3>3
    <2>8. pos' \in 0..(Len(Accepted') + Len(Negatives') + 1)
        <3>1. Accepted' = Accepted /\ Negatives' = Negatives
            BY <2>1 DEF Accepted, Negatives
        <3>2. Len(Accepted) \in Nat /\ Len(Negatives) \in Nat
            BY ListsOf DEF Counted
        <3>. QED BY <2>1, <3>1, <3>2
    <2>9. manifest' \in Manifests /\ verdict' \in {"pending", "refused", "valid"}
        BY <2>1 DEF Counted
    <2>. QED BY <2>2, <2>3, <2>4, <2>7, <2>8, <2>9 DEF Counted, Categories
<1>. QED
    BY <1>1, <1>2

(* The pass keeps its counts.                                              *)
LEMMA CountedNext ==
    ASSUME Counted, [Next]_vars PROVE Counted'
<1>0. Len(Accepted) \in Nat /\ Len(Negatives) \in Nat /\ DOMAIN Negatives = 1..Len(Negatives)
    BY ListsOf DEF Counted
<1>1. CASE CheckFloors
    <2>1. pos' \in 0..(Len(Accepted) + Len(Negatives) + 1) /\ verdict' \in {"pending", "refused", "valid"}
          /\ UNCHANGED <<manifest, caseIds, signatures, counts, negativeIds>>
        BY <1>0, <1>1 DEF CheckFloors, Return, Counted
    <2>. QED BY <2>1 DEF Counted, Accepted, Negatives
<1>2. CASE CheckCase
    BY <1>2, CountedCase
<1>3. CASE CheckCategories
    BY <1>3 DEF CheckCategories, Return, Counted, Accepted, Negatives
<1>4. CASE CheckNegative
    <2>1. pos' \in 0..(Len(Accepted) + Len(Negatives) + 1) /\ verdict' \in {"pending", "refused", "valid"}
          /\ UNCHANGED <<manifest, caseIds, signatures, counts>>
        BY <1>0, <1>4 DEF CheckNegative, Return, Counted
    <2>. QED BY <2>1 DEF Counted, Accepted, Negatives
<1>5. CASE Conclude
    BY <1>5 DEF Conclude, Return, Counted, Accepted, Negatives
<1>6. CASE UNCHANGED vars
    BY <1>6 DEF vars, Counted, Accepted, Negatives
<1>. QED
    BY <1>1, <1>2, <1>3, <1>4, <1>5, <1>6 DEF Next

(* The total of the counts is the number of cases.                         *)
LEMMA CountedTypes ==
    ASSUME Counted PROVE CorpusTypeOK
<1>1. Total(counts) = Cardinality(Units(counts, Categories))
    <2>1. IsFiniteSet(DOMAIN counts) /\ DOMAIN counts = Categories /\ counts \in [DOMAIN counts -> Nat]
        BY CorpusAssumption DEF CorpusAssumption, Categories, Counted
    <2>. QED BY <2>1, TotalIsCount
<1>. QED
    BY <1>1 DEF Counted, CorpusTypeOK

(* What the pass carries is what it counted: of each category as many      *)
(* different behaviours as cases, and a case id for each.                  *)
THEOREM CorpusTypes == Spec => []CorpusTypeOK
<1>1. Init => Counted
    BY CountedInit
<1>2. Counted /\ [Next]_vars => Counted'
    BY CountedNext
<1>3. Counted => CorpusTypeOK
    BY CountedTypes
<1>. QED
    BY <1>1, <1>2, <1>3, PTL DEF Spec

-----------------------------------------------------------------------------
(* What a sound manifest is, part by part.                                 *)
CasesOf(c) == {i \in DOMAIN Accepted : Accepted[i].category = c}

BorneOnce ==
    /\ \A i, j \in 1..Len(Accepted) : Accepted[i].fixture = Accepted[j].fixture => i = j
    /\ \A k, l \in 1..Len(Negatives) : Negatives[k] = Negatives[l] => k = l
    /\ \A i \in 1..Len(Accepted), k \in 1..Len(Negatives) : Accepted[i].fixture # Negatives[k]

Fulfils(i) ==
    /\ Accepted[i].category \in Categories
    /\ Accepted[i].declared = Observed[Accepted[i].fixture]
    /\ \A j \in 1..(i - 1) :
         ~(/\ Accepted[j].category = Accepted[i].category
           /\ Signature(Accepted[j]) = Signature(Accepted[i]))

Identifiers == [i \in DOMAIN Accepted |-> Accepted[i].fixture] \o Negatives

(* The identifiers: those of the fixtures, then the negative cases.        *)
LEMMA IdentifiersAre ==
    ASSUME manifest \in Manifests
    PROVE  /\ DOMAIN Identifiers = 1..(Len(Accepted) + Len(Negatives))
           /\ \A i \in 1..Len(Accepted) :
                i \in DOMAIN Identifiers /\ Identifiers[i] = Accepted[i].fixture
           /\ \A k \in 1..Len(Negatives) :
                /\ Len(Accepted) + k \in DOMAIN Identifiers
                /\ Identifiers[Len(Accepted) + k] = Negatives[k]
           /\ \A i \in DOMAIN Identifiers :
                i \in 1..Len(Accepted) \/ \E k \in 1..Len(Negatives) : i = Len(Accepted) + k
<1> DEFINE a == Len(Accepted)
           n == Len(Negatives)
           fixtures == [i \in DOMAIN Accepted |-> Accepted[i].fixture]
           S == {fixtures[i] : i \in 1..a} \cup ToSet(Negatives)
<1>1. a \in Nat /\ n \in Nat /\ DOMAIN Accepted = 1..a /\ Negatives \in Seq(ToSet(Negatives))
    BY ListsOf
<1>2. /\ fixtures \in Seq(S) /\ Len(fixtures) = a
      /\ \A i \in 1..a : fixtures[i] = Accepted[i].fixture
    <2>1. fixtures = [i \in 1..a |-> Accepted[i].fixture]
        BY <1>1
    <2>2. \A i \in 1..a : fixtures[i] \in S /\ fixtures[i] = Accepted[i].fixture
        BY <2>1
    <2>. QED BY <1>1, <2>1, <2>2
<1>3. Negatives \in Seq(S)
    <2>1. ToSet(Negatives) \subseteq S
        OBVIOUS
    <2> HIDE DEF S
    <2>. QED BY <1>1, <2>1, SeqOfMore
<1>4. Identifiers = fixtures \o Negatives
    BY DEF Identifiers
<1> HIDE DEF S, fixtures
<1>5. /\ Identifiers \in Seq(S) /\ Len(Identifiers) = a + n
      /\ \A i \in 1..(a + n) : Identifiers[i] = IF i <= a THEN fixtures[i] ELSE Negatives[i - a]
    <2>1. /\ fixtures \o Negatives \in Seq(S)
          /\ Len(fixtures \o Negatives) = Len(fixtures) + Len(Negatives)
          /\ \A i \in 1..(Len(fixtures) + Len(Negatives)) :
               (fixtures \o Negatives)[i] =
                 IF i <= Len(fixtures) THEN fixtures[i] ELSE Negatives[i - Len(fixtures)]
        BY ONLY <1>2, <1>3, ConcatProperties
    <2>2. Len(fixtures) = a /\ Len(Negatives) = n
        BY <1>2
    <2> HIDE DEF a, n
    <2>. QED BY ONLY <1>4, <2>1, <2>2
<1>6. DOMAIN Identifiers = 1..(a + n)
    BY <1>5, LenProperties
<1> HIDE DEF a, n
<1>7. ASSUME NEW i \in 1..a PROVE i \in 1..(a + n) /\ Identifiers[i] = Accepted[i].fixture
    <2>1. i \in 1..(a + n) /\ i <= a
        BY <1>1
    <2>. QED BY <1>2, <1>5, <2>1
<1>8. ASSUME NEW k \in 1..n PROVE a + k \in 1..(a + n) /\ Identifiers[a + k] = Negatives[k]
    <2>1. a + k \in 1..(a + n) /\ ~(a + k <= a) /\ (a + k) - a = k
        BY <1>1
    <2>. QED BY <1>5, <2>1
<1>9. ASSUME NEW i \in 1..(a + n), i \notin 1..a PROVE \E k \in 1..n : i = a + k
    <2>1. i - a \in 1..n /\ i = a + (i - a)
        BY <1>1, <1>9
    <2>. QED BY <2>1
<1>. QED
    BY <1>6, <1>7, <1>8, <1>9 DEF a, n

(* No identifier twice, taken apart by where it may stand.                 *)
LEMMA OnceIs ==
    ASSUME manifest \in Manifests
    PROVE  (\A i, j \in DOMAIN Identifiers : Identifiers[i] = Identifiers[j] => i = j) <=> BorneOnce
<1> DEFINE a == Len(Accepted)
           n == Len(Negatives)
           D == DOMAIN Identifiers
<1>1. /\ \A i \in 1..a : i \in D /\ Identifiers[i] = Accepted[i].fixture
      /\ \A k \in 1..n : a + k \in D /\ Identifiers[a + k] = Negatives[k]
      /\ \A i \in D : i \in 1..a \/ \E k \in 1..n : i = a + k
    BY IdentifiersAre
<1>2. a \in Nat /\ n \in Nat
    BY ListsOf
<1> HIDE DEF a, n, D
<1>3. ASSUME \A i, j \in D : Identifiers[i] = Identifiers[j] => i = j PROVE BorneOnce
    <2>1. ASSUME NEW i \in 1..a, NEW j \in 1..a, Accepted[i].fixture = Accepted[j].fixture PROVE i = j
        BY <1>1, <1>3, <2>1
    <2>2. ASSUME NEW k \in 1..n, NEW l \in 1..n, Negatives[k] = Negatives[l] PROVE k = l
        <3>1. a + k = a + l
            BY <1>1, <1>3, <2>2
        <3>. QED BY <1>2, <3>1
    <2>3. ASSUME NEW i \in 1..a, NEW k \in 1..n PROVE Accepted[i].fixture # Negatives[k]
        <3>1. i # a + k
            BY <1>2
        <3>. QED BY <1>1, <1>3, <3>1
    <2>. QED BY <2>1, <2>2, <2>3 DEF BorneOnce, a, n
<1>4. ASSUME BorneOnce, NEW i \in D, NEW j \in D, Identifiers[i] = Identifiers[j] PROVE i = j
    <2>0. /\ \A p, q \in 1..a : Accepted[p].fixture = Accepted[q].fixture => p = q
          /\ \A k, l \in 1..n : Negatives[k] = Negatives[l] => k = l
          /\ \A p \in 1..a, k \in 1..n : Accepted[p].fixture # Negatives[k]
        BY <1>4 DEF BorneOnce, a, n
    <2>1. CASE i \in 1..a /\ j \in 1..a
        BY <1>1, <1>4, <2>0, <2>1
    <2>2. ASSUME i \in 1..a, NEW l \in 1..n, j = a + l PROVE i = j
        BY <1>1, <1>4, <2>0, <2>2
    <2>3. ASSUME NEW k \in 1..n, i = a + k, j \in 1..a PROVE i = j
        BY <1>1, <1>4, <2>0, <2>3
    <2>4. ASSUME NEW k \in 1..n, i = a + k, NEW l \in 1..n, j = a + l PROVE i = j
        BY <1>1, <1>4, <2>0, <2>4
    <2>. QED BY <1>1, <2>1, <2>2, <2>3, <2>4
<1>. QED
    BY <1>3, <1>4 DEF D

(* Soundness, part by part.                                                *)
LEMMA SoundIs ==
    ASSUME manifest \in Manifests
    PROVE  Sound <=>
             /\ manifest.prose # "banned"
             /\ Len(Negatives) >= NegativeFloor
             /\ \A c \in Categories : Cardinality(CasesOf(c)) >= CategoryFloors[c]
             /\ BorneOnce
             /\ \A i \in 1..Len(Accepted) : Fulfils(i)
<1>1. /\ Len(Accepted) \in Nat /\ DOMAIN Accepted = 1..Len(Accepted)
      /\ \A i \in 1..Len(Accepted) : Accepted[i].fixture \in DOMAIN Structure
    BY ListsOf
<1>2. ASSUME NEW i \in 1..Len(Accepted)
      PROVE  Fulfils(i) <=>
               /\ Accepted[i].category \in Categories
               /\ Accepted[i].declared = Observed[Accepted[i].fixture]
               /\ \A j \in 1..(i - 1) :
                    ~(/\ Accepted[j].category = Accepted[i].category
                      /\ Accepted[j].declared.found = Accepted[i].declared.found
                      /\ Renamed(Accepted[j].fixture, Accepted[i].fixture))
    <2>1. ASSUME NEW j \in 1..(i - 1)
          PROVE  Signature(Accepted[j]) = Signature(Accepted[i]) <=>
                   /\ Accepted[j].declared.found = Accepted[i].declared.found
                   /\ Renamed(Accepted[j].fixture, Accepted[i].fixture)
        <3>1. j \in 1..Len(Accepted)
            BY <1>1
        <3>2. Accepted[j].fixture \in DOMAIN Structure /\ Accepted[i].fixture \in DOMAIN Structure
            BY <1>1, <3>1
        <3>3. Signature(Accepted[j]) = Signature(Accepted[i]) <=> Alike(Accepted[j], Accepted[i])
            BY <3>2, SignatureTells
        <3>. QED BY <3>3 DEF Alike
    <2>. QED BY <2>1 DEF Fulfils
<1>3. Sound <=>
        /\ manifest.prose # "banned"
        /\ Len(Negatives) >= NegativeFloor
        /\ \A c \in Categories : Cardinality(CasesOf(c)) >= CategoryFloors[c]
        /\ \A i, j \in DOMAIN Identifiers : Identifiers[i] = Identifiers[j] => i = j
        /\ \A i \in DOMAIN Accepted :
             /\ Accepted[i].category \in Categories
             /\ Accepted[i].declared = Observed[Accepted[i].fixture]
             /\ \A j \in 1..(i - 1) :
                  ~(/\ Accepted[j].category = Accepted[i].category
                    /\ Accepted[j].declared.found = Accepted[i].declared.found
                    /\ Renamed(Accepted[j].fixture, Accepted[i].fixture))
    BY DEF Sound, CasesOf, Identifiers
<1>. QED
    BY <1>1, <1>2, <1>3, OnceIs

(* Floors that are met add up to no more than the cases.                   *)
LEMMA FloorsAddUp ==
    ASSUME manifest \in Manifests,
           \A c \in Categories : Cardinality(CasesOf(c)) >= CategoryFloors[c]
    PROVE  Len(Accepted) >= Total(CategoryFloors)
<1> DEFINE a == Len(Accepted)
           F == CategoryFloors
           size(c) == Cardinality(CasesOf(c))
           list == [c \in Categories |-> CHOOSE b : b \in Bijection(1..size(c), CasesOf(c))]
           into == [u \in Units(F, Categories) |-> list[u[1]][u[2]]]
<1>1. a \in Nat /\ DOMAIN Accepted = 1..a
    BY ListsOf
<1>2. IsFiniteSet(1..a) /\ Cardinality(1..a) = a
    <2> HIDE DEF a
    <2>. QED BY ONLY <1>1, FS_Interval
<1>3. F \in [Categories -> Nat] /\ IsFiniteSet(Categories)
    BY CorpusAssumption DEF CorpusAssumption, Categories
<1>4. ASSUME NEW c \in Categories
      PROVE  size(c) \in Nat /\ list[c] \in Bijection(1..size(c), CasesOf(c))
    <2>1. CasesOf(c) \in SUBSET (1..a)
        BY <1>1 DEF CasesOf
    <2>2. IsFiniteSet(CasesOf(c))
        BY <1>2, <2>1, FS_Subset
    <2>3. size(c) \in Nat /\ \E b : b \in Bijection(1..size(c), CasesOf(c))
        BY <2>2, FS_CardinalityType DEF ExistsBijection
    <2>. QED BY <2>3
<1> HIDE DEF list, size
<1>5. ASSUME NEW u \in Units(F, Categories)
      PROVE  u[1] \in Categories /\ u[2] \in 1..size(u[1]) /\ u = <<u[1], u[2]>>
    <2>1. u \in Categories \X Nat /\ u[2] \in 1..F[u[1]]
        BY DEF Units
    <2>2. u[1] \in Categories /\ u = <<u[1], u[2]>> /\ F[u[1]] \in Nat
        BY <1>3, <2>1
    <2>3. size(u[1]) >= F[u[1]] /\ size(u[1]) \in Nat
        BY <1>4, <2>2 DEF size
    <2>. QED BY <2>1, <2>2, <2>3
<1>6. ASSUME NEW u \in Units(F, Categories) PROVE into[u] \in CasesOf(u[1])
    BY <1>4, <1>5 DEF Bijection, Injection
<1>7. into \in [Units(F, Categories) -> 1..a]
    <2>1. \A c : CasesOf(c) \subseteq 1..a
        BY <1>1 DEF CasesOf
    <2>. QED BY <1>6, <2>1
<1>8. ASSUME NEW u \in Units(F, Categories), NEW v \in Units(F, Categories), into[u] = into[v]
      PROVE  u = v
    <2>1. u[1] = v[1]
        BY <1>6, <1>8 DEF CasesOf
    <2>2. list[u[1]] \in Injection(1..size(u[1]), CasesOf(u[1]))
        BY <1>4, <1>5 DEF Bijection
    <2>3. u[2] \in 1..size(u[1]) /\ v[2] \in 1..size(u[1])
        BY <1>5, <2>1
    <2>4. list[u[1]][u[2]] = list[u[1]][v[2]]
        BY <1>8, <2>1
    <2>5. u[2] = v[2]
        BY <2>2, <2>3, <2>4 DEF Injection, IsInjective
    <2>. QED BY <1>5, <2>1, <2>5
<1> HIDE DEF into
<1>9. into \in Injection(Units(F, Categories), 1..a)
    BY <1>7, <1>8 DEF Injection, IsInjective
<1>10. Cardinality(Units(F, Categories)) <= a
    BY <1>2, <1>9, FS_Injection
<1>11. Total(F) = Cardinality(Units(F, Categories)) /\ IsFiniteSet(Units(F, Categories))
    <2>1. DOMAIN F = Categories
        BY DEF Categories
    <2>. QED BY <1>3, <2>1, TotalIsCount
<1>12. Cardinality(Units(F, Categories)) \in Nat
    BY <1>11, FS_CardinalityType
<1>. QED
    BY <1>1, <1>10, <1>11, <1>12

-----------------------------------------------------------------------------
(* What the pass has seen, and what it holds of that.                      *)
Seen == {i \in 1..Len(Accepted) : i < pos}
SeenOf(c) == {i \in Seen : Accepted[i].category = c}
Told == {k \in 1..Len(Negatives) : Len(Accepted) + k < pos}

Carries ==
    /\ caseIds = {Accepted[i].fixture : i \in Seen}
    /\ negativeIds = {Negatives[k] : k \in Told}
    /\ \A c \in Categories :
         /\ counts[c] = Cardinality(SeenOf(c))
         /\ signatures[c] = {Signature(Accepted[i]) : i \in SeenOf(c)}

SoFarSound ==
    /\ \A i \in Seen : Fulfils(i)
    /\ \A i, j \in Seen : Accepted[i].fixture = Accepted[j].fixture => i = j
    /\ \A k, l \in Told : Negatives[k] = Negatives[l] => k = l
    /\ \A i \in Seen, k \in Told : Accepted[i].fixture # Negatives[k]
    /\ pos > 0 => Len(Negatives) >= NegativeFloor

Decided ==
    /\ verdict = "valid" =>
         pos = Len(Accepted) + Len(Negatives) + 1 /\ FloorsMet /\ manifest.prose # "banned"
    /\ verdict = "refused" => ~Sound

IInv == Counted /\ Carries /\ SoFarSound /\ Decided

(* At first nothing is seen.                                               *)
LEMMA IInvInit ==
    ASSUME Init PROVE IInv
<1>1. Counted
    BY CountedInit
<1>2. Len(Accepted) \in Nat /\ Len(Negatives) \in Nat
    BY <1>1, ListsOf DEF Counted
<1>3. Seen = {} /\ Told = {} /\ \A c : SeenOf(c) = {}
    BY <1>2 DEF Init, Seen, Told, SeenOf
<1>4. Carries
    BY <1>3, FS_EmptySet DEF Init, Carries
<1>5. SoFarSound
    BY <1>3 DEF Init, SoFarSound
<1>. QED
    BY <1>1, <1>4, <1>5 DEF Init, Decided, IInv

(* A step that leaves the manifest and what was seen leaves all of it.     *)
LEMMA SeenSame ==
    ASSUME UNCHANGED <<manifest, caseIds, negativeIds, signatures, counts>>,
           Seen' = Seen, Told' = Told, Carries, SoFarSound,
           pos > 0 \/ (pos' > 0 => Len(Negatives) >= NegativeFloor)
    PROVE  Carries' /\ SoFarSound'
<1>1. Accepted' = Accepted /\ Negatives' = Negatives
    BY DEF Accepted, Negatives
<1>2. \A c : SeenOf(c)' = SeenOf(c)
    BY <1>1 DEF SeenOf
<1>3. \A i : Fulfils(i)' <=> Fulfils(i)
    BY DEF Fulfils, Accepted
<1>4. Carries'
    BY <1>1, <1>2 DEF Carries
<1>5. SoFarSound'
    BY <1>1, <1>3 DEF SoFarSound
<1>. QED
    BY <1>4, <1>5

(* A refusal of what is unsound keeps the invariant.                       *)
LEMMA RefusalKeeps ==
    ASSUME IInv, Return("refused"), ~Sound
    PROVE  Carries' /\ SoFarSound' /\ Decided'
<1>1. UNCHANGED <<manifest, pos, caseIds, signatures, counts, negativeIds>> /\ verdict' = "refused"
    BY DEF Return
<1>2. Seen' = Seen /\ Told' = Told
    BY <1>1 DEF Seen, Told, Accepted, Negatives
<1>3. Sound' <=> Sound
    BY <1>1 DEF Sound, Accepted, Negatives
<1>4. pos > 0 \/ (pos' > 0 => Len(Negatives) >= NegativeFloor)
    BY <1>1 DEF IInv, SoFarSound
<1>5. Carries' /\ SoFarSound'
    BY <1>1, <1>2, <1>4, SeenSame DEF IInv
<1>. QED
    BY <1>1, <1>3, <1>5 DEF Decided

(* So does the check of the sums: too few cases are unsound.               *)
LEMMA FloorsKeep ==
    ASSUME IInv, CheckFloors
    PROVE  Carries' /\ SoFarSound' /\ Decided'
<1>1. manifest \in Manifests /\ Len(Accepted) \in Nat /\ Len(Negatives) \in Nat
    BY ListsOf DEF IInv, Counted
<1>2. CASE Len(Accepted) >= Total(CategoryFloors) /\ Len(Negatives) >= NegativeFloor
    <2>1. /\ pos = 0 /\ pos' = 1 /\ verdict = "pending"
          /\ UNCHANGED <<manifest, verdict, caseIds, signatures, counts, negativeIds>>
        BY <1>2 DEF CheckFloors
    <2>2. Seen' = Seen /\ Told' = Told
        <3>1. Accepted' = Accepted /\ Negatives' = Negatives
            BY <2>1 DEF Accepted, Negatives
        <3>. QED BY <1>1, <2>1, <3>1 DEF Seen, Told
    <2>3. Carries' /\ SoFarSound'
        BY <1>2, <2>1, <2>2, SeenSame DEF IInv
    <2>4. Decided'
        BY <2>1 DEF Decided
    <2>. QED BY <2>3, <2>4
<1>3. CASE ~(Len(Accepted) >= Total(CategoryFloors) /\ Len(Negatives) >= NegativeFloor)
    <2>1. Return("refused")
        BY <1>3 DEF CheckFloors
    <2>2. ~Sound
        BY <1>1, <1>3, SoundIs, FloorsAddUp
    <2>. QED BY <2>1, <2>2, RefusalKeeps
<1>. QED
    BY <1>2, <1>3

(* A case that is not acceptable makes the manifest unsound.               *)
LEMMA CaseRefused ==
    ASSUME IInv, pos \in 1..Len(Accepted), ~Acceptable(Accepted[pos])
    PROVE  ~Sound
<1> DEFINE case == Accepted[pos]
<1>1. manifest \in Manifests /\ Len(Accepted) \in Nat
    BY ListsOf DEF IInv, Counted
<1>2. SUFFICES ASSUME Sound PROVE FALSE
    OBVIOUS
<1>3. BorneOnce /\ Fulfils(pos)
    BY <1>1, <1>2, SoundIs
<1>4. case.category \in Categories /\ Observed[case.fixture] = case.declared
    BY <1>3 DEF Fulfils
<1>5. CASE case.fixture \in caseIds
    <2>1. PICK i \in Seen : Accepted[i].fixture = case.fixture
        BY <1>5 DEF IInv, Carries
    <2>2. i \in 1..Len(Accepted) /\ i # pos
        BY <1>1 DEF Seen
    <2>. QED BY <1>3, <2>1, <2>2 DEF BorneOnce
<1>6. CASE Signature(case) \in signatures[case.category]
    <2>1. Signature(case) \in {Signature(Accepted[i]) : i \in SeenOf(case.category)}
        BY <1>4, <1>6 DEF IInv, Carries
    <2>2. PICK i \in SeenOf(case.category) : Signature(Accepted[i]) = Signature(case)
        BY <2>1
    <2>3. i \in 1..(pos - 1) /\ Accepted[i].category = case.category
        BY <1>1, <2>2 DEF SeenOf, Seen
    <2>. QED BY <1>3, <2>2, <2>3 DEF Fulfils
<1>. QED
    BY <1>4, <1>5, <1>6 DEF Acceptable

(* So does a case: accepted, it adds to what is sound; refused, it makes   *)
(* the manifest unsound.                                                   *)
LEMMA CaseKeeps ==
    ASSUME IInv, CheckCase
    PROVE  Carries' /\ SoFarSound' /\ Decided'
<1>1. /\ manifest \in Manifests /\ Len(Accepted) \in Nat /\ Len(Negatives) \in Nat
      /\ pos \in 1..Len(Accepted)
    BY ListsOf DEF IInv, Counted, CheckCase
<1> DEFINE case == Accepted[pos]
           c == case.category
<1>2. CASE ~Acceptable(case)
    <2>1. Return("refused")
        BY <1>2 DEF CheckCase
    <2>. QED BY <1>1, <1>2, <2>1, CaseRefused, RefusalKeeps
<1>3. CASE Acceptable(case)
    <2>1. /\ case.fixture \notin caseIds /\ c \in Categories /\ Observed[case.fixture] = case.declared
          /\ Signature(case) \notin signatures[c]
        BY <1>3 DEF Acceptable
    <2>2. /\ caseIds' = caseIds \cup {case.fixture}
          /\ signatures' = [signatures EXCEPT ![c] = @ \cup {Signature(case)}]
          /\ counts' = [counts EXCEPT ![c] = @ + 1]
          /\ pos' = pos + 1 /\ verdict' = verdict /\ verdict = "pending"
          /\ UNCHANGED <<manifest, negativeIds>>
        BY <1>3 DEF CheckCase, Recorded
    <2>3. Accepted' = Accepted /\ Negatives' = Negatives
        BY <2>2 DEF Accepted, Negatives
    <2>4. Seen' = Seen \cup {pos} /\ pos \notin Seen /\ Told' = {} /\ Told = {}
        BY <1>1, <2>2, <2>3 DEF Seen, Told
    <2>5. \A d : SeenOf(d)' = IF d = c THEN SeenOf(d) \cup {pos} ELSE SeenOf(d)
        BY <2>3, <2>4 DEF SeenOf
    <2>6. \A d : IsFiniteSet(SeenOf(d)) /\ pos \notin SeenOf(d) /\ SeenOf(d) \subseteq Seen
        <3>1. IsFiniteSet(1..Len(Accepted))
            BY <1>1, FS_Interval
        <3>2. \A d : SeenOf(d) \in SUBSET (1..Len(Accepted))
            BY DEF Seen, SeenOf
        <3>. QED BY <2>4, <3>1, <3>2, FS_Subset DEF SeenOf
    <2>7. counts \in [Categories -> Nat] /\ signatures = [d \in Categories |-> signatures[d]]
        BY DEF IInv, Counted
    <2>8. ASSUME NEW d \in Categories
          PROVE  /\ counts'[d] = Cardinality(SeenOf(d)')
                 /\ signatures'[d] = {Signature(Accepted'[i]) : i \in SeenOf(d)'}
        <3>1. /\ counts[d] = Cardinality(SeenOf(d))
              /\ signatures[d] = {Signature(Accepted[i]) : i \in SeenOf(d)}
            BY DEF IInv, Carries
        <3>2. CASE d = c
            <4>1. counts'[d] = counts[d] + 1 /\ signatures'[d] = signatures[d] \cup {Signature(case)}
                BY <2>2, <2>7, <3>2
            <4>2. SeenOf(d)' = SeenOf(d) \cup {pos}
                BY <2>5, <3>2
            <4>3. Cardinality(SeenOf(d) \cup {pos}) = Cardinality(SeenOf(d)) + 1
                BY <2>6, FS_AddElement
            <4>4. {Signature(Accepted[i]) : i \in SeenOf(d) \cup {pos}}
                    = {Signature(Accepted[i]) : i \in SeenOf(d)} \cup {Signature(case)}
                OBVIOUS
            <4>. QED BY <2>3, <3>1, <4>1, <4>2, <4>3, <4>4
        <3>3. CASE d # c
            <4>1. counts'[d] = counts[d] /\ signatures'[d] = signatures[d]
                BY <2>2, <2>7, <3>3
            <4>2. SeenOf(d)' = SeenOf(d)
                BY <2>5, <3>3
            <4>. QED BY <2>3, <3>1, <4>1, <4>2
        <3>. QED BY <3>2, <3>3
    <2>9. caseIds' = {Accepted'[i].fixture : i \in Seen'} /\ negativeIds' = {Negatives'[k] : k \in Told'}
        <3>1. caseIds = {Accepted[i].fixture : i \in Seen} /\ negativeIds = {Negatives[k] : k \in Told}
            BY DEF IInv, Carries
        <3>. QED BY <2>2, <2>3, <2>4, <3>1
    <2>10. Carries'
        BY <2>8, <2>9 DEF Carries, Categories
    <2>11. Fulfils(pos)
        <3>1. ASSUME NEW j \in 1..(pos - 1), Accepted[j].category = c,
                     Signature(Accepted[j]) = Signature(case)
              PROVE  FALSE
            <4>1. j \in SeenOf(c)
                BY <1>1, <3>1 DEF SeenOf, Seen
            <4>2. signatures[c] = {Signature(Accepted[i]) : i \in SeenOf(c)}
                BY <2>1 DEF IInv, Carries
            <4>3. Signature(Accepted[j]) \in {Signature(Accepted[i]) : i \in SeenOf(c)}
                BY <4>1
            <4>. QED BY <2>1, <3>1, <4>2, <4>3
        <3>. QED BY <2>1, <3>1 DEF Fulfils
    <2>12. \A i : Fulfils(i)' <=> Fulfils(i)
        BY <2>2 DEF Fulfils, Accepted
    <2>13. ASSUME NEW i \in Seen PROVE Accepted[i].fixture # case.fixture
        <3>1. caseIds = {Accepted[j].fixture : j \in Seen}
            BY DEF IInv, Carries
        <3>. QED BY <2>1, <3>1
    <2>14. SoFarSound'
        <3>1. \A i \in Seen' : Fulfils(i)'
            BY <2>4, <2>11, <2>12 DEF IInv, SoFarSound
        <3>2. \A i, j \in Seen' : Accepted'[i].fixture = Accepted'[j].fixture => i = j
            <4>1. \A i, j \in Seen : Accepted[i].fixture = Accepted[j].fixture => i = j
                BY DEF IInv, SoFarSound
            <4>. QED BY <2>3, <2>4, <2>13, <4>1
        <3>3. pos > 0 /\ Len(Negatives) >= NegativeFloor
            BY <1>1 DEF IInv, SoFarSound
        <3>. QED BY <2>3, <2>4, <3>1, <3>2, <3>3 DEF SoFarSound
    <2>15. Decided'
        BY <2>2 DEF Decided
    <2>. QED BY <2>10, <2>14, <2>15
<1>. QED
    BY <1>2, <1>3

(* When all cases are seen, the counts are of all of them.                 *)
LEMMA AllSeen ==
    ASSUME IInv, pos > Len(Accepted)
    PROVE  /\ Seen = 1..Len(Accepted)
           /\ \A c \in Categories : counts[c] = Cardinality(CasesOf(c))
<1>1. /\ DOMAIN Accepted = 1..Len(Accepted) /\ Len(Accepted) \in Nat /\ Len(Negatives) \in Nat
      /\ pos \in 0..(Len(Accepted) + Len(Negatives) + 1)
    BY ListsOf DEF IInv, Counted
<1>2. Seen = 1..Len(Accepted)
    BY <1>1 DEF Seen
<1>3. \A c : SeenOf(c) = CasesOf(c)
    BY <1>1, <1>2 DEF SeenOf, CasesOf
<1>. QED
    BY <1>2, <1>3 DEF IInv, Carries

(* So does the check of the floors, once all cases are counted.            *)
LEMMA CategoriesKeep ==
    ASSUME IInv, CheckCategories
    PROVE  Carries' /\ SoFarSound' /\ Decided'
<1>1. manifest \in Manifests /\ Len(Accepted) \in Nat
    BY ListsOf DEF IInv, Counted
<1>2. \A c \in Categories : counts[c] = Cardinality(CasesOf(c))
    BY <1>1, AllSeen DEF CheckCategories
<1>3. ~Sound
    BY <1>1, <1>2, SoundIs DEF CheckCategories, FloorsMet
<1>. QED
    BY <1>3, RefusalKeeps DEF CheckCategories

(* So does a negative case, by its identifier.                             *)
LEMMA NegativeKeeps ==
    ASSUME IInv, CheckNegative
    PROVE  Carries' /\ SoFarSound' /\ Decided'
<1> DEFINE k == pos - Len(Accepted)
           id == Negatives[k]
<1>1. /\ manifest \in Manifests /\ Len(Accepted) \in Nat /\ Len(Negatives) \in Nat
      /\ pos \in 0..(Len(Accepted) + Len(Negatives) + 1)
      /\ k \in 1..Len(Negatives)
    BY ListsOf DEF IInv, Counted, CheckNegative
<1>2. pos > Len(Accepted) /\ pos = Len(Accepted) + k
    BY <1>1
<1>3. Seen = 1..Len(Accepted)
    BY <1>2, AllSeen
<1>4. Told = {l \in 1..Len(Negatives) : l < k}
    BY <1>1, <1>2 DEF Told
<1>5. caseIds = {Accepted[i].fixture : i \in Seen} /\ negativeIds = {Negatives[l] : l \in Told}
    BY DEF IInv, Carries
<1>6. CASE id \in negativeIds \cup caseIds
    <2>1. Return("refused")
        BY <1>6 DEF CheckNegative
    <2>2. ~BorneOnce
        <3>1. CASE id \in caseIds
            <4>1. PICK i \in 1..Len(Accepted) : Accepted[i].fixture = Negatives[k]
                BY <1>3, <1>5, <3>1
            <4>. QED BY <1>1, <4>1 DEF BorneOnce
        <3>2. CASE id \in negativeIds
            <4>1. PICK l \in Told : Negatives[l] = Negatives[k]
                BY <1>5, <3>2
            <4>2. l \in 1..Len(Negatives) /\ l # k
                BY <1>4, <1>1
            <4>. QED BY <1>1, <4>1, <4>2 DEF BorneOnce
        <3>. QED BY <1>6, <3>1, <3>2
    <2>3. ~Sound
        BY <1>1, <2>2, SoundIs
    <2>. QED BY <2>1, <2>3, RefusalKeeps
<1>7. CASE id \notin negativeIds \cup caseIds
    <2>1. /\ negativeIds' = negativeIds \cup {id} /\ pos' = pos + 1 /\ verdict = "pending"
          /\ UNCHANGED <<manifest, verdict, caseIds, signatures, counts>>
        BY <1>7 DEF CheckNegative
    <2>2. Accepted' = Accepted /\ Negatives' = Negatives
        BY <2>1 DEF Accepted, Negatives
    <2>3. Seen' = Seen
        BY <1>1, <1>2, <2>1, <2>2 DEF Seen
    <2>4. Told' = Told \cup {k}
        <3>1. Told' = {l \in 1..Len(Negatives) : Len(Accepted) + l < pos + 1}
            BY <2>1, <2>2 DEF Told
        <3>2. \A l \in 1..Len(Negatives) : Len(Accepted) + l < pos + 1 <=> l < k \/ l = k
            BY <1>1, <1>2
        <3>. QED BY <1>1, <1>4, <3>1, <3>2
    <2>5. \A c : SeenOf(c)' = SeenOf(c)
        BY <2>2, <2>3 DEF SeenOf
    <2>6. Carries'
        <3>1. negativeIds' = {Negatives[l] : l \in Told \cup {k}}
            BY <1>5, <2>1
        <3>. QED BY <2>1, <2>2, <2>3, <2>4, <2>5, <3>1 DEF IInv, Carries
    <2>7. \A i : Fulfils(i)' <=> Fulfils(i)
        BY <2>1 DEF Fulfils, Accepted
    <2>8. /\ \A i \in Seen : Accepted[i].fixture # Negatives[k]
          /\ \A l \in Told : Negatives[l] # Negatives[k]
        BY <1>5, <1>7
    <2>9. SoFarSound'
        <3>1. /\ \A i \in Seen : Fulfils(i)
              /\ \A i, j \in Seen : Accepted[i].fixture = Accepted[j].fixture => i = j
              /\ \A l, m \in Told : Negatives[l] = Negatives[m] => l = m
              /\ \A i \in Seen, l \in Told : Accepted[i].fixture # Negatives[l]
              /\ pos > 0 => Len(Negatives) >= NegativeFloor
            BY DEF IInv, SoFarSound
        <3>2. \A i \in Seen' : Fulfils(i)'
            BY <2>3, <2>7, <3>1
        <3>3. \A l, m \in Told' : Negatives'[l] = Negatives'[m] => l = m
            BY <2>2, <2>4, <2>8, <3>1
        <3>4. \A i \in Seen', l \in Told' : Accepted'[i].fixture # Negatives'[l]
            BY <2>2, <2>3, <2>4, <2>8, <3>1
        <3>5. Len(Negatives') >= NegativeFloor
            BY <1>1, <1>2, <2>2, <3>1
        <3>6. \A i, j \in Seen' : Accepted'[i].fixture = Accepted'[j].fixture => i = j
            BY <2>2, <2>3, <3>1
        <3>. QED BY <3>2, <3>3, <3>4, <3>5, <3>6 DEF SoFarSound
    <2>10. Decided'
        BY <2>1 DEF Decided
    <2>. QED BY <2>6, <2>9, <2>10
<1>. QED
    BY <1>6, <1>7

(* So does the end.                                                        *)
LEMMA ConcludeKeeps ==
    ASSUME IInv, Conclude
    PROVE  Carries' /\ SoFarSound' /\ Decided'
<1>1. CASE manifest.prose = "banned"
    <2>1. Return("refused") /\ ~Sound
        BY <1>1 DEF Conclude, Sound
    <2>. QED BY <2>1, RefusalKeeps
<1>2. CASE manifest.prose # "banned"
    <2>1. /\ UNCHANGED <<manifest, pos, caseIds, signatures, counts, negativeIds>>
          /\ verdict' = "valid" /\ FloorsMet
          /\ pos = Len(Accepted) + Len(Negatives) + 1
        BY <1>2 DEF Conclude, Return
    <2>2. Seen' = Seen /\ Told' = Told
        BY <2>1 DEF Seen, Told, Accepted, Negatives
    <2>3. pos > 0 \/ (pos' > 0 => Len(Negatives) >= NegativeFloor)
        BY <2>1 DEF IInv, SoFarSound
    <2>4. Carries' /\ SoFarSound'
        BY <2>1, <2>2, <2>3, SeenSame DEF IInv
    <2>5. Decided'
        BY <1>2, <2>1 DEF Decided, FloorsMet, Accepted, Negatives, Categories
    <2>. QED BY <2>4, <2>5
<1>. QED
    BY <1>1, <1>2

(* Every step keeps the invariant.                                         *)
LEMMA IInvNext ==
    ASSUME IInv, [Next]_vars
    PROVE  IInv'
<1>1. Counted'
    BY CountedNext DEF IInv
<1>2. CASE UNCHANGED vars
    <2>1. /\ UNCHANGED <<manifest, verdict, pos, caseIds, signatures, counts, negativeIds>>
        BY <1>2 DEF vars
    <2>2. Seen' = Seen /\ Told' = Told
        BY <2>1 DEF Seen, Told, Accepted, Negatives
    <2>3. pos > 0 \/ (pos' > 0 => Len(Negatives) >= NegativeFloor)
        BY <2>1 DEF IInv, SoFarSound
    <2>4. Carries' /\ SoFarSound'
        BY <2>1, <2>2, <2>3, SeenSame DEF IInv
    <2>5. Sound' <=> Sound
        BY <2>1 DEF Sound, Accepted, Negatives
    <2>6. Decided'
        BY <2>1, <2>5 DEF IInv, Decided, FloorsMet, Accepted, Negatives, Categories
    <2>. QED BY <1>1, <2>4, <2>6 DEF IInv
<1>3. CASE Next
    <2>1. Carries' /\ SoFarSound' /\ Decided'
        BY <1>3, FloorsKeep, CaseKeeps, CategoriesKeep, NegativeKeeps, ConcludeKeeps DEF Next
    <2>. QED BY <1>1, <2>1 DEF IInv
<1>. QED
    BY <1>2, <1>3

(* What passed to the end is sound.                                        *)
LEMMA ValidIsSound ==
    ASSUME IInv, verdict = "valid"
    PROVE  Sound
<1>1. /\ manifest \in Manifests /\ Len(Accepted) \in Nat /\ Len(Negatives) \in Nat
      /\ pos = Len(Accepted) + Len(Negatives) + 1 /\ FloorsMet /\ manifest.prose # "banned"
    BY ListsOf DEF IInv, Counted, Decided
<1>2. /\ Seen = 1..Len(Accepted)
      /\ \A c \in Categories : counts[c] = Cardinality(CasesOf(c))
    BY <1>1, AllSeen
<1>3. Told = 1..Len(Negatives)
    BY <1>1 DEF Told
<1>4. \A c \in Categories : Cardinality(CasesOf(c)) >= CategoryFloors[c]
    BY <1>1, <1>2 DEF FloorsMet
<1>5. Len(Negatives) >= NegativeFloor
    BY <1>1 DEF IInv, SoFarSound
<1>6. BorneOnce /\ \A i \in 1..Len(Accepted) : Fulfils(i)
    BY <1>2, <1>3 DEF IInv, SoFarSound, BorneOnce
<1>. QED
    BY <1>1, <1>4, <1>5, <1>6, SoundIs

(* A manifest is found valid exactly when it is sound: the single pass,    *)
(* which compares each case with what it remembers of those before it,     *)
(* misses no pair and refuses nothing else.                                *)
THEOREM AcceptsExactly == Spec => []AcceptsExactlySound
<1>1. Init => IInv
    BY IInvInit
<1>2. IInv /\ [Next]_vars => IInv'
    BY IInvNext
<1>3. IInv => AcceptsExactlySound
    BY ValidIsSound DEF AcceptsExactlySound, IInv, Decided, Counted
<1>. QED
    BY <1>1, <1>2, <1>3, PTL DEF Spec
=============================================================================
