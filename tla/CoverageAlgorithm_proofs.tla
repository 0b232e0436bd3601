---------------------- MODULE CoverageAlgorithm_proofs -----------------------
(***************************************************************************)
(* Proofs of the properties of CoverageAlgorithm, for every input, any     *)
(* number of safeguards and statements, and every set RoundedUp.           *)
(*                                                                         *)
(* A result is the Evaluation of an input, so each property is a lemma on  *)
(* Evaluation(i) for an input i; the theorems at the end put it into the   *)
(* specification.                                                          *)
(***************************************************************************)
EXTENDS CoverageAlgorithm, AlgorithmLemmas

IsInput(i) ==
    /\ i \in [rows : Seq(Row), scenario : Scenario, reference : Int]
    /\ \A j, k \in DOMAIN i.rows : i.rows[j].id = i.rows[k].id => j = k
    /\ \A k \in DOMAIN i.rows :
          i.rows[k].interval % Second = 0 /\ i.rows[k].effect <= 100

LEMMA InputsAreInputs == \A i \in Inputs : IsInput(i)
BY InputsAssumption DEF IsInput

----------------------------------------------------------------------------
(***************************************************************************)
(* Instants.                                                               *)
(***************************************************************************)
LEMMA Truncated ==
    ASSUME NEW t \in Int
    PROVE  Truncate(t) \in Int /\ Truncate(t) <= t /\ t - Truncate(t) <= Second - 1
BY UnitsAssumption DEF Truncate

LEMMA TruncateMonotone ==
    ASSUME NEW t \in Int, NEW u \in Int, t <= u
    PROVE  Truncate(t) <= Truncate(u)
<1>1. PICK b \in Nat \ {0} : b = Second
  BY UnitsAssumption
<1>2. PICK q \in Int, r \in Int : /\ q = t \div b /\ r = u \div b
                                 /\ Truncate(t) = b * q /\ Truncate(u) = b * r
  <2>1. PICK q \in Int, r \in Int : q = t \div b /\ r = u \div b
    BY DivMod
  <2>2. t = b * q + (t % b) /\ u = b * r + (u % b)
    BY <2>1, DivMod
  <2>3. t % b \in Int /\ u % b \in Int /\ b * q \in Int /\ b * r \in Int
    BY <2>1, DivMod
  <2>4. Truncate(t) = t - (t % b) /\ Truncate(u) = u - (u % b)
    BY <1>1 DEF Truncate
  <2>5. Truncate(t) = b * q /\ Truncate(u) = b * r
    BY <2>2, <2>3, <2>4
  <2> QED
    BY <2>1, <2>5
<1>3. q <= r
  <2>1. t * b <= u * b
    BY <1>1
  <2> QED
    BY <1>2, <2>1, DivMonotone
<1>4. b * q <= b * r
  BY <1>3
<1> QED
  BY <1>2, <1>4

LEMMA TruncatePlus ==
    ASSUME NEW t \in Int, NEW d \in Int, d % Second = 0
    PROVE  Truncate(t + d) = Truncate(t) + d
<1>1. PICK b \in Nat \ {0} : b = Second
  BY UnitsAssumption
<1>2. PICK q \in Int, r \in 0 .. b - 1 : t = b * q + r /\ r = t % b
  BY DivMod
<1>3. PICK e \in Int : d = b * e
  <2>1. d \div b \in Int /\ d = b * (d \div b) + (d % b)
    BY DivMod
  <2>2. d % b = 0
    BY <1>1
  <2>3. d = b * (d \div b)
    BY <2>1, <2>2
  <2> QED
    BY <2>1, <2>3
<1>4. t + d = b * (q + e) + r /\ q + e \in Int
  BY <1>2, <1>3
<1>5. PICK u \in Int : u = q + e /\ t + d = b * u + r
  BY <1>4
<1>6. (b * u + r) % b = r
  BY DivModUnique
<1> QED
  BY <1>1, <1>2, <1>5, <1>6 DEF Truncate

----------------------------------------------------------------------------
(***************************************************************************)
(* Rows and their order.                                                   *)
(***************************************************************************)
LEMMA FrozenRow ==
    ASSUME NEW row \in Row
    PROVE  /\ Frozen(row) \in Row
           /\ Frozen(row).id = row.id /\ Frozen(row).key = row.key
           /\ Frozen(row).effect = row.effect /\ Frozen(row).interval = row.interval
           /\ Frozen(row).state = row.state
           /\ Frozen(row).verifiedAt = IF row.verifiedAt = None THEN None
                                       ELSE Truncate(row.verifiedAt)
<1>1. row.verifiedAt # None => Truncate(row.verifiedAt) \in Int
  BY Truncated DEF Row
<1> QED
  BY <1>1 DEF Row, Frozen

KeyThenId(S) == {p \in S \X S : ByKeyThenId(p[1], p[2])}

LEMMA KeyThenIdIsStrict ==
    ASSUME NEW S, \A a \in S : a.id \in Nat /\ a.key \in Nat,
           \A a, b \in S : a.id = b.id => a = b
    PROVE  StrictOrder(KeyThenId(S), S)
<1>1. \A a, b \in S : <<a, b>> \in KeyThenId(S) <=> ByKeyThenId(a, b)
  BY DEF KeyThenId
<1> QED
  BY <1>1 DEF StrictOrder, ByKeyThenId

EarlierIn(rows, S) == {p \in S \X S : Earlier(rows, p[1], p[2])}

LEMMA EarlierPairs ==
    ASSUME NEW rows, NEW S
    PROVE  \A j, k \in S : <<j, k>> \in EarlierIn(rows, S) <=> Earlier(rows, j, k)
BY DEF EarlierIn

LEMMA EarlierIsStrict ==
    ASSUME NEW rows \in Seq(Row),
           \A j, k \in DOMAIN rows : rows[j].id = rows[k].id => j = k
    PROVE  /\ StrictOrder(EarlierIn(rows, DOMAIN rows), DOMAIN rows)
           /\ \A j, k \in DOMAIN rows :
                 <<j, k>> \in EarlierIn(rows, DOMAIN rows) <=> ByKeyThenId(rows[j], rows[k])
<1>1. \A j, k \in DOMAIN rows : <<j, k>> \in EarlierIn(rows, DOMAIN rows) <=> Earlier(rows, j, k)
  BY EarlierPairs
<1>2. \A j \in DOMAIN rows : j \in Nat /\ rows[j].id \in Nat /\ rows[j].key \in Nat
  <2> TAKE j \in DOMAIN rows
  <2>1. j \in Nat /\ rows[j] \in Row
    OBVIOUS
  <2> QED
    BY <2>1 DEF Row
<1> HIDE DEF EarlierIn
<1>3. \A j, k \in DOMAIN rows :
         <<j, k>> \in EarlierIn(rows, DOMAIN rows) <=> ByKeyThenId(rows[j], rows[k])
  <2> TAKE j, k \in DOMAIN rows
  <2>1. ByKeyThenId(rows[j], rows[k]) \/ ByKeyThenId(rows[k], rows[j]) \/ j = k
    BY <1>2 DEF ByKeyThenId
  <2>2. ByKeyThenId(rows[j], rows[k]) => ~ByKeyThenId(rows[k], rows[j])
    BY <1>2 DEF ByKeyThenId
  <2> QED
    BY <1>1, <1>2, <2>1, <2>2 DEF Earlier
<1>4. StrictOrder(EarlierIn(rows, DOMAIN rows), DOMAIN rows)
  <2>1. \A j \in DOMAIN rows : ~ByKeyThenId(rows[j], rows[j])
    BY <1>2 DEF ByKeyThenId
  <2>2. \A j, k, l \in DOMAIN rows :
           ByKeyThenId(rows[j], rows[k]) /\ ByKeyThenId(rows[k], rows[l])
              => ByKeyThenId(rows[j], rows[l])
    BY <1>2 DEF ByKeyThenId
  <2>3. \A j, k \in DOMAIN rows :
           j = k \/ ByKeyThenId(rows[j], rows[k]) \/ ByKeyThenId(rows[k], rows[j])
    BY <1>2 DEF ByKeyThenId
  <2> QED
    BY <1>3, <2>1, <2>2, <2>3 DEF StrictOrder
<1> QED
  BY <1>3, <1>4

(* The places of the rows in a snapshot.                                   *)
Places(rows) == InOrder(DOMAIN rows, LAMBDA j, k : Earlier(rows, j, k))

LEMMA PlacesAre ==
    ASSUME NEW rows \in Seq(Row),
           \A j, k \in DOMAIN rows : rows[j].id = rows[k].id => j = k
    PROVE  /\ DOMAIN rows = 1 .. Len(rows) /\ DOMAIN Places(rows) = 1 .. Len(rows)
           /\ Len(rows) \in Nat /\ Cardinality(DOMAIN rows) = Len(rows)
           /\ IsFiniteSet(DOMAIN rows)
           /\ Sorts(Places(rows), EarlierIn(rows, DOMAIN rows), DOMAIN rows)
           /\ \A p \in 1 .. Len(rows) : Places(rows)[p] \in DOMAIN rows
           /\ \A j \in DOMAIN rows : \E p \in 1 .. Len(rows) : Places(rows)[p] = j
           /\ \A p, r \in 1 .. Len(rows) : Places(rows)[p] = Places(rows)[r] => p = r
<1>1. DOMAIN rows = 1 .. Len(rows) /\ Len(rows) \in Nat
  OBVIOUS
<1>2. IsFiniteSet(DOMAIN rows) /\ Cardinality(DOMAIN rows) = Len(rows)
  BY <1>1, FS_Interval
<1>3. \A j \in DOMAIN rows :
         {k \in DOMAIN rows : Earlier(rows, k, j)} = Below(EarlierIn(rows, DOMAIN rows), DOMAIN rows, j)
  <2> TAKE j \in DOMAIN rows
  <2>1. \A k \in DOMAIN rows : <<k, j>> \in EarlierIn(rows, DOMAIN rows) <=> Earlier(rows, k, j)
    BY EarlierPairs
  <2> QED
    BY <2>1 DEF Below
<1>4. Places(rows) = [p \in 1 .. Len(rows) |->
         CHOOSE j \in DOMAIN rows :
            Cardinality({k \in DOMAIN rows : Earlier(rows, k, j)}) = p - 1]
  BY <1>2 DEF Places, InOrder
<1>5. \A p \in 1 .. Len(rows) : Places(rows)[p] =
         CHOOSE j \in DOMAIN rows :
            Cardinality(Below(EarlierIn(rows, DOMAIN rows), DOMAIN rows, j)) = p - 1
  BY <1>3, <1>4
<1>6. StrictOrder(EarlierIn(rows, DOMAIN rows), DOMAIN rows)
  BY EarlierIsStrict
<1>7. Sorts(Places(rows), EarlierIn(rows, DOMAIN rows), DOMAIN rows)
  BY <1>2, <1>5, <1>6 DEF Sorts
<1>8. /\ \A p \in 1 .. Len(rows) : Places(rows)[p] \in DOMAIN rows
      /\ \A j \in DOMAIN rows : \E p \in 1 .. Len(rows) : Places(rows)[p] = j
      /\ \A p, r \in 1 .. Len(rows) : Places(rows)[p] = Places(rows)[r] => p = r
  <2> DEFINE S == DOMAIN rows
             B == EarlierIn(rows, DOMAIN rows)
             q == Places(rows)
  <2> HIDE DEF S, B, q
  <2>1. Sorts(q, B, S)
    BY <1>7 DEF S, B, q
  <2>2. /\ \A p \in 1 .. Cardinality(S) : q[p] \in S
        /\ \A x \in S : \E p \in 1 .. Cardinality(S) : q[p] = x
        /\ \A p, r \in 1 .. Cardinality(S) : q[p] = q[r] => p = r
    BY <2>1, ByRank
  <2> QED
    BY <1>2, <2>2 DEF S, q
<1>9. DOMAIN Places(rows) = 1 .. Len(rows)
  BY <1>4
<1> QED
  BY <1>1, <1>2, <1>7, <1>8, <1>9

LEMMA SnapshotIs ==
    ASSUME NEW i, IsInput(i), NEW s, s = NewSnapshot(i)
    PROVE  /\ s.scenario = i.scenario /\ s.reference = Truncate(i.reference)
           /\ s.safeguards = [p \in 1 .. Len(i.rows) |-> Frozen(i.rows[Places(i.rows)[p]])]
<1>1. DOMAIN Places(i.rows) = 1 .. Len(i.rows)
  BY PlacesAre DEF IsInput
<1>2. s = [scenario |-> i.scenario, reference |-> Truncate(i.reference),
           safeguards |-> [p \in DOMAIN Places(i.rows) |-> Frozen(i.rows[Places(i.rows)[p]])]]
  BY DEF NewSnapshot, Places
<1> QED
  BY <1>1, <1>2

(* The rows of a snapshot are those of the input, each of them once.       *)
LEMMA SnapshotRows ==
    ASSUME NEW i, IsInput(i), NEW s, s = NewSnapshot(i)
    PROVE  /\ Rows(s) = {Frozen(i.rows[k]) : k \in DOMAIN i.rows}
           /\ IsFiniteSet(Rows(s)) /\ Cardinality(Rows(s)) = Len(i.rows)
           /\ Rows(s) \subseteq Row
           /\ \A a, b \in Rows(s) : a.id = b.id => a = b
<1> DEFINE rows == i.rows
           D == DOMAIN rows
           F == {Frozen(rows[k]) : k \in D}
<1>1. /\ rows \in Seq(Row)
      /\ \A j, k \in D : rows[j].id = rows[k].id => j = k
  BY DEF IsInput
<1>2. /\ D = 1 .. Len(rows) /\ IsFiniteSet(D) /\ Cardinality(D) = Len(rows)
      /\ \A p \in D : Places(rows)[p] \in D
      /\ \A j \in D : \E p \in D : Places(rows)[p] = j
  BY <1>1, PlacesAre
<1>3. s.safeguards = [p \in D |-> Frozen(rows[Places(rows)[p]])]
  BY <1>2, SnapshotIs
<1>4. \A k \in D : rows[k] \in Row
  BY <1>1
<1>5. Rows(s) = F
  <2>1. Rows(s) = {Frozen(rows[Places(rows)[p]]) : p \in D}
    BY <1>3 DEF Rows
  <2> HIDE DEF D, rows
  <2> QED
    BY <1>2, <2>1
<1>6. \A k \in D : Frozen(rows[k]) \in Row /\ Frozen(rows[k]).id = rows[k].id
  BY <1>4, FrozenRow
<1>7. \A j, k \in D : Frozen(rows[j]).id = Frozen(rows[k]).id => j = k
  BY <1>1, <1>6
<1>8. IsFiniteSet(F) /\ Cardinality(F) = Len(rows)
  <2> DEFINE g == [k \in D |-> Frozen(rows[k])]
  <2> HIDE DEF D, rows
  <2>1. g \in Bijection(D, F)
    BY <1>7 DEF Bijection, Injection, Surjection, IsInjective
  <2> HIDE DEF F, g
  <2> QED
    BY <1>2, <2>1, FS_Bijection DEF ExistsBijection
<1>9. F \subseteq Row /\ \A a, b \in F : a.id = b.id => a = b
  <2> HIDE DEF D, rows
  <2> QED
    BY <1>6, <1>7
<1> QED
  BY <1>5, <1>8, <1>9

----------------------------------------------------------------------------
(***************************************************************************)
(* What takes part.                                                        *)
(***************************************************************************)
IsRowSet(S) == /\ IsFiniteSet(S) /\ S \subseteq Row
               /\ \A a, b \in S : a.id = b.id => a = b

StrongerThan(S) == {p \in S \X S : StrongestFirst(p[1], p[2])}

Strongest(E) == {a \in E : \A b \in E : b.key = a.key => a = b \/ StrongestFirst(a, b)}

LEMMA KeptIs ==
    ASSUME NEW G, IsRowSet(G), G # {}
    PROVE  Kept(G) \in G /\ \A b \in G : Kept(G) = b \/ StrongestFirst(Kept(G), b)
<1>1. \A a, b \in G : <<a, b>> \in StrongerThan(G) <=> StrongestFirst(a, b)
  BY DEF StrongerThan
<1>2. \A a \in G : a.effect \in Int /\ a.id \in Nat
  BY DEF IsRowSet, Row
<1>3. StrictOrder(StrongerThan(G), G)
  <2>1. \A a \in G : ~StrongestFirst(a, a)
    BY <1>2 DEF StrongestFirst
  <2>2. \A a, b, c \in G :
           StrongestFirst(a, b) /\ StrongestFirst(b, c) => StrongestFirst(a, c)
    BY <1>2 DEF StrongestFirst
  <2>3. \A a, b \in G : a = b \/ StrongestFirst(a, b) \/ StrongestFirst(b, a)
    BY <1>2 DEF StrongestFirst, IsRowSet
  <2> QED
    BY <1>1, <2>1, <2>2, <2>3 DEF StrictOrder
<1>4. IsFiniteSet(G)
  BY DEF IsRowSet
<1>5. \E a \in G : \A b \in G : a = b \/ <<a, b>> \in StrongerThan(G)
  BY <1>3, <1>4, LeastExists
<1>6. \E a \in G : \A b \in G : a = b \/ StrongestFirst(a, b)
  BY <1>1, <1>5
<1> QED
  BY <1>6 DEF Kept

(* Of the eligible rows E the strongest of each key are retained.          *)
LEMMA Resolved ==
    ASSUME NEW s, IsRowSet(Rows(s)),
           NEW E, E = Eligible(s), NEW v, v = ResolveIndependence(s)
    PROVE  /\ E \subseteq Rows(s) /\ IsRowSet(E)
           /\ v.retained = Strongest(E)
           /\ v.ignored = E \ Strongest(E)
           /\ v.rejected = Rows(s) \ E
<1> DEFINE group(key) == {row \in E : row.key = key}
           keys == {row.key : row \in E}
<1>1. E \subseteq Rows(s) /\ IsRowSet(E)
  <2>1. E \subseteq Rows(s)
    BY DEF Eligible
  <2>2. IsFiniteSet(E)
    BY <2>1, FS_Subset DEF IsRowSet
  <2> QED
    BY <2>1, <2>2 DEF IsRowSet
<1>2. ASSUME NEW key \in keys
      PROVE  /\ Kept(group(key)) \in group(key)
             /\ \A b \in group(key) :
                   Kept(group(key)) = b \/ StrongestFirst(Kept(group(key)), b)
  <2>1. IsRowSet(group(key)) /\ group(key) # {}
    BY <1>1, FS_Subset DEF IsRowSet
  <2> HIDE DEF group
  <2> QED
    BY <2>1, KeptIs
<1>3. \A a, b \in E : ~(StrongestFirst(a, b) /\ StrongestFirst(b, a))
  <2>1. \A a \in E : a.effect \in Int /\ a.id \in Nat
    BY <1>1 DEF IsRowSet, Row
  <2> QED
    BY <2>1 DEF StrongestFirst
<1>4. /\ v.retained = {Kept(group(key)) : key \in keys}
      /\ v.ignored = UNION {group(key) \ {Kept(group(key))} : key \in keys}
      /\ v.rejected = Rows(s) \ E
  BY DEF ResolveIndependence
<1>5. ASSUME NEW a \in E
      PROVE  a = Kept(group(a.key)) <=> a \in Strongest(E)
  <2>1. a.key \in keys /\ a \in group(a.key)
    OBVIOUS
  <2>2. PICK k : k = Kept(group(a.key)) /\ k \in E /\ k.key = a.key
                 /\ \A b \in E : b.key = a.key => k = b \/ StrongestFirst(k, b)
    BY <1>2, <2>1
  <2>3. a = k => a \in Strongest(E)
    BY <2>2 DEF Strongest
  <2>4. a \in Strongest(E) => a = k \/ StrongestFirst(a, k)
    BY <2>2 DEF Strongest
  <2>5. a = k \/ StrongestFirst(k, a)
    BY <2>2
  <2> QED
    BY <1>3, <2>2, <2>3, <2>4, <2>5
<1>6. \A key \in keys : Kept(group(key)) \in E /\ Kept(group(key)).key = key
  BY <1>2
<1>7. v.retained = Strongest(E)
  <2>1. \A x \in Strongest(E) : x \in E /\ x.key \in keys
    BY DEF Strongest
  <2> HIDE DEF group, keys
  <2>2. \A x : x \in v.retained <=> x \in Strongest(E)
    BY <1>4, <1>5, <1>6, <2>1
  <2> QED
    BY <2>2
<1>8. v.ignored = E \ Strongest(E)
  <2>1. ASSUME NEW x \in v.ignored PROVE x \in E \ Strongest(E)
    <3>1. PICK key \in keys : x \in group(key) \ {Kept(group(key))}
      <4> HIDE DEF group, keys
      <4> QED
        BY <1>4
    <3>2. x \in E /\ x.key = key /\ x # Kept(group(x.key))
      BY <3>1
    <3> HIDE DEF group, keys
    <3> QED
      BY <1>5, <3>2
  <2>2. ASSUME NEW x \in E \ Strongest(E) PROVE x \in v.ignored
    <3>1. x.key \in keys /\ x \in group(x.key)
      OBVIOUS
    <3> HIDE DEF group, keys
    <3>2. x # Kept(group(x.key))
      BY <1>5
    <3>3. x \in group(x.key) \ {Kept(group(x.key))}
      BY <3>1, <3>2
    <3> QED
      BY <1>4, <3>1, <3>3
  <2> QED
    BY <2>1, <2>2
<1> QED
  BY <1>1, <1>4, <1>7, <1>8

(* One of them for each key.                                               *)
LEMMA StrongestOfKeys ==
    ASSUME NEW E, IsRowSet(E)
    PROVE  /\ \A a, b \in Strongest(E) : a.key = b.key => a = b
           /\ \A b \in E : \E a \in Strongest(E) :
                 a.key = b.key /\ (a = b \/ StrongestFirst(a, b))
<1>1. \A a \in E : a.effect \in Int /\ a.id \in Nat
  BY DEF IsRowSet, Row
<1>2. \A a, b \in Strongest(E) : a.key = b.key => a = b
  BY <1>1 DEF Strongest, StrongestFirst
<1>3. ASSUME NEW b \in E
      PROVE  \E a \in Strongest(E) : a.key = b.key /\ (a = b \/ StrongestFirst(a, b))
  <2>1. PICK G : G = {a \in E : a.key = b.key}
    OBVIOUS
  <2>2. IsRowSet(G) /\ b \in G
    BY <2>1, FS_Subset DEF IsRowSet
  <2>3. PICK k \in G : \A a \in G : k = a \/ StrongestFirst(k, a)
    BY <2>2, KeptIs
  <2>4. k \in Strongest(E)
    BY <2>1, <2>3 DEF Strongest
  <2> QED
    BY <2>1, <2>2, <2>3, <2>4
<1> QED
  BY <1>2, <1>3

----------------------------------------------------------------------------
(***************************************************************************)
(* The order of the rows.                                                  *)
(***************************************************************************)
LEMMA OrderIgnored ==
    ASSUME NEW i, IsInput(i), NEW rows \in SetToSeqs(Range(i.rows))
    PROVE  NewSnapshot([i EXCEPT !.rows = rows]) = NewSnapshot(i)
<1> DEFINE old == i.rows
           R == Range(old)
           D == DOMAIN old
           E == DOMAIN rows
<1>1. /\ old \in Seq(Row)
      /\ \A j, k \in D : old[j].id = old[k].id => j = k
      /\ \A k \in D : old[k].interval % Second = 0 /\ old[k].effect <= 100
  BY DEF IsInput
<1>2. D = 1 .. Len(old) /\ IsFiniteSet(D) /\ Cardinality(D) = Len(old) /\ Len(old) \in Nat
  BY <1>1, PlacesAre
<1>3. \A k \in D : old[k] \in Row
  BY <1>1
<1>4. IsFiniteSet(R) /\ Cardinality(R) = Len(old)
  <2>1. R = {old[k] : k \in D}
    BY DEF Range
  <2>2. old \in [D -> R] /\ IsInjective(old)
    <3>1. old = [k \in D |-> old[k]]
      BY <1>1
    <3> HIDE DEF D, old
    <3>2. \A k \in D : old[k] \in R
      BY <2>1
    <3>3. old \in [D -> R]
      BY <3>1, <3>2
    <3> USE DEF D
    <3> QED
      BY <1>1, <3>3 DEF IsInjective
  <2> HIDE DEF D, R, old
  <2>3. old \in Bijection(D, R)
    BY <2>1, <2>2 DEF Bijection, Injection, Surjection
  <2> QED
    BY <1>2, <2>3, FS_Bijection DEF ExistsBijection
<1>5. /\ rows \in [1 .. Len(old) -> R]
      /\ \A j, k \in 1 .. Len(old) : j # k => rows[j] # rows[k]
  BY <1>4 DEF SetToSeqs
<1>6. E = D
  BY <1>2, <1>5
<1>7. \A x \in R : \E k \in D : x = old[k]
  BY DEF Range
<1>8. rows \in Seq(Row)
  <2>1. R \subseteq Row
    BY <1>3, <1>7
  <2> QED
    BY <1>2, <1>5, <2>1
<1>9. \A j, k \in E : rows[j].id = rows[k].id => j = k
  <2>1. \A j \in E : \E k \in D : rows[j] = old[k]
    BY <1>2, <1>5, <1>6, <1>7
  <2> HIDE DEF D, E, R, old
  <2>2. \A j, k \in E : rows[j].id = rows[k].id => rows[j] = rows[k]
    BY <1>1, <2>1
  <2> QED
    BY <1>2, <1>5, <1>6, <2>2
<1>10. \A x \in R : \E k \in E : rows[k] = x
  <2>1. rows \in Injection(D, R)
    BY <1>2, <1>5 DEF Injection, IsInjective
  <2> HIDE DEF D, E, R, old
  <2>2. rows \in Surjection(D, R)
    BY <1>2, <1>4, <2>1, FS_Injection
  <2> QED
    BY <1>6, <2>2 DEF Surjection
<1>11. PICK f : f = [j \in D |-> CHOOSE k \in E : rows[k] = old[j]]
  OBVIOUS
<1>12. \A j \in D : f[j] \in E /\ rows[f[j]] = old[j]
  <2>1. \A j \in D : old[j] \in R
    BY DEF Range
  <2> HIDE DEF D, E, R, old
  <2> QED
    BY <1>10, <1>11, <2>1
<1>13. \A k \in E : \E j \in D : f[j] = k
  <2>1. \A k \in E : \E j \in D : rows[k] = old[j]
    BY <1>2, <1>5, <1>6, <1>7
  <2> HIDE DEF D, R, old
  <2>2. \A j, k \in E : rows[j] = rows[k] => j = k
    BY <1>9
  <2> HIDE DEF E
  <2> QED
    BY <1>12, <2>1, <2>2
<1> DEFINE B == EarlierIn(old, D)
           C == EarlierIn(rows, E)
<1>14. /\ StrictOrder(B, D)
       /\ \A j, k \in D : <<j, k>> \in B <=> ByKeyThenId(old[j], old[k])
  BY <1>1, EarlierIsStrict
<1>15. /\ StrictOrder(C, E)
       /\ \A j, k \in E : <<j, k>> \in C <=> ByKeyThenId(rows[j], rows[k])
  BY <1>8, <1>9, EarlierIsStrict
<1>16. \A j, k \in D : <<j, k>> \in B <=> <<f[j], f[k]>> \in C
  <2> HIDE DEF D, E, R, old, B, C
  <2> QED
    BY <1>12, <1>14, <1>15
<1>17. Sorts(Places(old), B, D)
  BY <1>1, PlacesAre
<1>18. Sorts(Places(rows), C, E)
  BY <1>8, <1>9, PlacesAre
<1>19. \A p \in 1 .. Cardinality(D) : Places(rows)[p] = f[Places(old)[p]]
  <2> HIDE DEF D, E, R, old, B, C
  <2>1. Carries(f, B, D, C, E)
    BY <1>12, <1>13, <1>16 DEF Carries
  <2> QED
    BY <1>17, <1>18, <2>1, SameRanks
<1>20. \A p \in D : Places(old)[p] \in D
  BY <1>1, <1>2, PlacesAre
<1>21. \A p \in D : rows[Places(rows)[p]] = old[Places(old)[p]]
  <2> HIDE DEF D, E, R, old, B, C
  <2> QED
    BY <1>2, <1>12, <1>19, <1>20
<1>22. PICK j : j = [i EXCEPT !.rows = rows]
  OBVIOUS
<1>23. /\ j.rows = rows /\ j.scenario = i.scenario /\ j.reference = i.reference
       /\ IsInput(j)
  <2>1. j.rows = rows /\ j.scenario = i.scenario /\ j.reference = i.reference
    BY <1>22 DEF IsInput
  <2>2. j \in [rows : Seq(Row), scenario : Scenario, reference : Int]
    BY <1>8, <1>22 DEF IsInput
  <2>3. \A k \in E : rows[k].interval % Second = 0 /\ rows[k].effect <= 100
    <3>1. \A k \in E : \E l \in D : rows[k] = old[l]
      BY <1>2, <1>5, <1>6, <1>7
    <3> HIDE DEF D, E, R, old
    <3> QED
      BY <1>1, <3>1
  <2> QED
    BY <1>9, <2>1, <2>2, <2>3 DEF IsInput
<1>24. Len(rows) = Len(old)
  BY <1>2, <1>5, <1>8
<1>25. [p \in 1 .. Len(rows) |-> Frozen(rows[Places(rows)[p]])]
          = [p \in 1 .. Len(old) |-> Frozen(old[Places(old)[p]])]
  <2> HIDE DEF old
  <2> QED
    BY <1>2, <1>21, <1>24
<1>26. PICK s : s = NewSnapshot(i)
  OBVIOUS
<1>27. PICK u : u = NewSnapshot(j)
  OBVIOUS
<1>28. /\ s.scenario = i.scenario /\ s.reference = Truncate(i.reference)
       /\ s.safeguards = [p \in 1 .. Len(old) |-> Frozen(old[Places(old)[p]])]
  BY <1>26, SnapshotIs
<1>29. /\ u.scenario = i.scenario /\ u.reference = Truncate(i.reference)
       /\ u.safeguards = [p \in 1 .. Len(rows) |-> Frozen(rows[Places(rows)[p]])]
  BY <1>23, <1>27, SnapshotIs
<1>30. s = [scenario |-> s.scenario, reference |-> s.reference, safeguards |-> s.safeguards]
  BY <1>26 DEF NewSnapshot
<1>31. u = [scenario |-> u.scenario, reference |-> u.reference, safeguards |-> u.safeguards]
  BY <1>27 DEF NewSnapshot
<1> QED
  BY <1>22, <1>25, <1>26, <1>27, <1>28, <1>29, <1>30, <1>31

----------------------------------------------------------------------------
(***************************************************************************)
(* The layers that take part.                                              *)
(***************************************************************************)
LEMMA OneOfEachKey ==
    ASSUME NEW i, IsInput(i), NEW s, s = NewSnapshot(i),
           NEW v, v = ResolveIndependence(s)
    PROVE  /\ Ids(v.retained) \cup Ids(v.ignored) \cup Ids(v.rejected) = Ids(Rows(s))
           /\ Cardinality(v.retained) + Cardinality(v.ignored) + Cardinality(v.rejected)
                 = Len(i.rows)
           /\ \A a, b \in v.retained : a.key = b.key => a = b
           /\ \A b \in v.ignored : \E a \in v.retained :
                 /\ a.key = b.key
                 /\ a.effect > b.effect \/ (a.effect = b.effect /\ a.id < b.id)
<1>1. PICK E, K, R : E = Eligible(s) /\ K = Strongest(E) /\ R = Rows(s)
  OBVIOUS
<1>2. IsRowSet(R) /\ Cardinality(R) = Len(i.rows)
  BY <1>1, SnapshotRows DEF IsRowSet
<1>3. /\ E \subseteq R /\ IsRowSet(E)
      /\ v.retained = K /\ v.ignored = E \ K /\ v.rejected = R \ E
  BY <1>1, <1>2, Resolved
<1>4. K \subseteq E
  BY <1>1 DEF Strongest
<1>5. /\ \A a, b \in K : a.key = b.key => a = b
      /\ \A b \in E : \E a \in K : a.key = b.key /\ (a = b \/ StrongestFirst(a, b))
  BY <1>1, <1>3, StrongestOfKeys
<1>6. Ids(K) \cup Ids(E \ K) \cup Ids(R \ E) = Ids(R)
  BY <1>3, <1>4 DEF Ids
<1>7. Cardinality(K) + Cardinality(E \ K) + Cardinality(R \ E) = Cardinality(R)
  <2>1. IsFiniteSet(R) /\ IsFiniteSet(E) /\ IsFiniteSet(K)
    BY <1>2, <1>3, <1>4, FS_Subset DEF IsRowSet
  <2>2. R \cap E = E /\ E \cap K = K
    BY <1>3, <1>4
  <2>3. Cardinality(R \ E) = Cardinality(R) - Cardinality(E)
    BY <2>1, <2>2, FS_Difference
  <2>4. Cardinality(E \ K) = Cardinality(E) - Cardinality(K)
    BY <2>1, <2>2, FS_Difference
  <2>5. Cardinality(R) \in Nat /\ Cardinality(E) \in Nat /\ Cardinality(K) \in Nat
    BY <2>1, FS_CardinalityType
  <2> QED
    BY <2>3, <2>4, <2>5
<1>8. ASSUME NEW b \in E \ K
      PROVE  \E a \in K : /\ a.key = b.key
                          /\ a.effect > b.effect \/ (a.effect = b.effect /\ a.id < b.id)
  BY <1>5 DEF StrongestFirst
<1>9. /\ \A b \in v.ignored : \E a \in v.retained :
            /\ a.key = b.key
            /\ a.effect > b.effect \/ (a.effect = b.effect /\ a.id < b.id)
      /\ \A a, b \in v.retained : a.key = b.key => a = b
  <2>1. ASSUME NEW b \in v.ignored
        PROVE  \E a \in v.retained :
                  /\ a.key = b.key
                  /\ a.effect > b.effect \/ (a.effect = b.effect /\ a.id < b.id)
    <3>1. b \in E \ K
      BY <1>3
    <3>2. PICK a \in K : /\ a.key = b.key
                         /\ a.effect > b.effect \/ (a.effect = b.effect /\ a.id < b.id)
      BY <1>8, <3>1
    <3> QED
      BY <1>3, <3>2
  <2>2. \A a, b \in v.retained : a.key = b.key => a = b
    BY <1>3, <1>5
  <2> QED
    BY <2>1, <2>2
<1> QED
  BY <1>1, <1>2, <1>3, <1>6, <1>7, <1>9

LEMMA EffectiveIsKept ==
    ASSUME NEW i, IsInput(i), NEW s, s = NewSnapshot(i),
           NEW v, v = ResolveIndependence(s), NEW k \in DOMAIN i.rows,
           NEW row, row = i.rows[k]
    PROVE  /\ row.key # 0 /\ IsEffectiveAt(row, i.reference) => row.id \notin Ids(v.rejected)
           /\ row.id \notin Ids(v.rejected) => IsEffectiveAt(row, i.reference - (Second - 1))
<1>1. PICK E, R, f : E = Eligible(s) /\ R = Rows(s) /\ f = Frozen(row)
  OBVIOUS
<1>2. /\ IsRowSet(R) /\ R = {Frozen(i.rows[j]) : j \in DOMAIN i.rows}
  BY <1>1, SnapshotRows DEF IsRowSet
<1>3. v.rejected = R \ E
  <2>1. IsRowSet(Rows(s))
    BY <1>1, <1>2
  <2> QED
    BY <1>1, <2>1, Resolved
<1>4. /\ row \in Row /\ row.interval % Second = 0 /\ row.effect <= 100
      /\ i.reference \in Int
  BY DEF IsInput
<1>5. /\ f \in Row /\ f.id = row.id /\ f.key = row.key /\ f.effect = row.effect
      /\ f.interval = row.interval /\ f.state = row.state
      /\ f.verifiedAt = IF row.verifiedAt = None THEN None ELSE Truncate(row.verifiedAt)
  BY <1>1, <1>4, FrozenRow
<1>6. f \in R
  BY <1>1, <1>2
<1>7. row.id \notin Ids(v.rejected) <=> f \in E
  <2>1. \A g \in R : g.id = row.id => g = f
    BY <1>2, <1>5, <1>6 DEF IsRowSet
  <2> QED
    BY <1>3, <1>5, <1>6, <2>1 DEF Ids
<1>8. f \in E <=> Reason(f, Truncate(i.reference)) = ""
  <2>1. s.reference = Truncate(i.reference)
    BY SnapshotIs
  <2> QED
    BY <1>1, <1>6, <2>1 DEF Eligible
<1>9. /\ row.key \in Nat /\ row.effect \in Int /\ row.interval \in Int
      /\ row.verifiedAt # None => row.verifiedAt \in Int
  BY <1>4 DEF Row
<1>10. Reason(f, Truncate(i.reference)) = "" <=>
          /\ row.key # 0 /\ row.state = "active" /\ row.effect \in 1 .. 100
          /\ row.verifiedAt # None /\ row.interval > 0
          /\ ~PastExpiry(f, Truncate(i.reference))
  <2>1. row.verifiedAt # None => f.verifiedAt # None
    BY <1>5, <1>9, Truncated, NoneAssumption
  <2> QED
    BY <1>5, <1>9, <2>1 DEF Reason, IneligibleReason
<1>11. ASSUME row.verifiedAt # None
       PROVE  /\ i.reference <= row.verifiedAt + row.interval
                 => ~PastExpiry(f, Truncate(i.reference))
              /\ ~PastExpiry(f, Truncate(i.reference))
                 => i.reference - (Second - 1) <= row.verifiedAt + row.interval
  <2>1. PICK t \in Int, d \in Int, r \in Int :
           t = row.verifiedAt /\ d = row.interval /\ r = i.reference /\ d % Second = 0
    BY <1>4, <1>9, <1>11
  <2>2. PICK z \in Int : z = Second
    BY UnitsAssumption
  <2>3. PICK p \in Int, q \in Int : /\ p = Truncate(t) /\ p <= t
                                   /\ q = Truncate(r) /\ r - q <= z - 1
    BY <2>2, Truncated
  <2>4. r <= t + d => q <= p + d
    <3>1. r <= t + d => Truncate(r) <= Truncate(t + d)
      BY TruncateMonotone
    <3>2. Truncate(t + d) = Truncate(t) + d
      BY <2>1, TruncatePlus
    <3> QED
      BY <2>3, <3>1, <3>2
  <2>5. PastExpiry(f, Truncate(i.reference)) <=> q > p + d
    BY <1>5, <1>11, <2>1, <2>3 DEF PastExpiry
  <2>6. q <= p + d => r - (z - 1) <= t + d
    BY <2>3
  <2>7. q > p + d <=> ~(q <= p + d)
    OBVIOUS
  <2> QED
    BY <2>1, <2>2, <2>4, <2>5, <2>6, <2>7
<1>12. row.effect > 0 => row.effect \in 1 .. 100
  BY <1>4, <1>9
<1>13. row.effect \in 1 .. 100 => row.effect > 0
  BY <1>9
<1> QED
  BY <1>7, <1>8, <1>10, <1>11, <1>12, <1>13 DEF IsEffectiveAt

----------------------------------------------------------------------------
(***************************************************************************)
(* The effects of a set of layers K.                                       *)
(***************************************************************************)
IsLayerSet(K) == IsRowSet(K) /\ \A a \in K : a.effect \in 1 .. 100

LEMMA EffectsAre ==
    ASSUME NEW K, IsRowSet(K), NEW q, q = InOrder(K, ByKeyThenId)
    PROVE  /\ IsFiniteSet(K) /\ Cardinality(K) \in Nat
           /\ Sorts(q, KeyThenId(K), K)
           /\ Effects(K) = [p \in 1 .. Cardinality(K) |-> q[p].effect]
           /\ \A p \in 1 .. Cardinality(K) : q[p] \in K
           /\ \A a \in K : \E p \in 1 .. Cardinality(K) : q[p] = a
           /\ \A p, r \in 1 .. Cardinality(K) : q[p] = q[r] => p = r
<1>1. \A a \in K : a.id \in Nat /\ a.key \in Nat
  BY DEF IsRowSet, Row
<1>2. StrictOrder(KeyThenId(K), K)
  BY <1>1, KeyThenIdIsStrict DEF IsRowSet
<1>3. \A a \in K : {b \in K : ByKeyThenId(b, a)} = Below(KeyThenId(K), K, a)
  BY DEF Below, KeyThenId
<1>4. q = [p \in 1 .. Cardinality(K) |->
              CHOOSE a \in K : Cardinality({b \in K : ByKeyThenId(b, a)}) = p - 1]
  BY DEF InOrder
<1>5. \A p \in 1 .. Cardinality(K) :
         q[p] = CHOOSE a \in K : Cardinality(Below(KeyThenId(K), K, a)) = p - 1
  BY <1>3, <1>4
<1>6. Sorts(q, KeyThenId(K), K)
  BY <1>2, <1>5 DEF Sorts, IsRowSet
<1>7. Effects(K) = [p \in 1 .. Cardinality(K) |-> q[p].effect]
  BY <1>4 DEF Effects
<1>8. IsFiniteSet(K)
  BY DEF IsRowSet
<1> QED
  BY <1>6, <1>7, <1>8, ByRank

LEMMA ProductIs ==
    ASSUME NEW f
    PROVE  Product(f) = ProductOver(f, DOMAIN f)
BY DEF Product, FoldFunction, ProductOver

(* The products over the effects in their order are those over the layers. *)
LEMMA ProductsAre ==
    ASSUME NEW K, IsLayerSet(K),
           NEW whole, whole = [a \in K |-> 100], NEW rest, rest = [a \in K |-> 100 - a.effect]
    PROVE  /\ Whole(Effects(K)) = ProductOver(whole, K)
           /\ Remaining(Effects(K)) = ProductOver(rest, K)
           /\ Whole(Effects(K)) \in Nat \ {0} /\ Remaining(Effects(K)) \in Nat
           /\ Remaining(Effects(K)) <= Whole(Effects(K))
<1>1. PICK q : q = InOrder(K, ByKeyThenId)
  OBVIOUS
<1>2. PICK e : e = Effects(K)
  OBVIOUS
<1>3. PICK U : U = 1 .. Cardinality(K)
  OBVIOUS
<1>4. /\ IsFiniteSet(K) /\ Cardinality(K) \in Nat
      /\ e = [p \in U |-> q[p].effect]
      /\ \A p \in U : q[p] \in K
      /\ \A a \in K : \E p \in U : q[p] = a
      /\ \A p, r \in U : q[p] = q[r] => p = r
  BY <1>1, <1>2, <1>3, EffectsAre DEF IsLayerSet
<1>5. IsFiniteSet(U)
  BY <1>3, <1>4, FS_Interval
<1>6. \A a \in K : /\ whole[a] = 100 /\ whole[a] \in Int
                   /\ rest[a] \in Int /\ 0 <= rest[a] /\ rest[a] <= whole[a]
                   /\ rest[a] = 100 - a.effect
  BY DEF IsLayerSet
<1>7. PICK w, r : w = [p \in U |-> 100] /\ r = [p \in U |-> 100 - e[p]]
  OBVIOUS
<1>8. \A p \in U : w[p] = whole[q[p]] /\ r[p] = rest[q[p]]
  BY <1>4, <1>6, <1>7
<1>9. ProductOver(w, U) = ProductOver(whole, K)
  BY <1>4, <1>5, <1>6, <1>8, ProductRenamed
<1>10. ProductOver(r, U) = ProductOver(rest, K)
  BY <1>4, <1>5, <1>6, <1>8, ProductRenamed
<1>11. DOMAIN e = U /\ DOMAIN w = U /\ DOMAIN r = U
  BY <1>4, <1>7
<1>12. Whole(e) = ProductOver(whole, K) /\ Remaining(e) = ProductOver(rest, K)
  <2>1. Whole(e) = Product(w) /\ Remaining(e) = Product(r)
    BY <1>7, <1>11 DEF Whole, Remaining
  <2> QED
    BY <1>9, <1>10, <1>11, <2>1, ProductIs
<1>13. /\ 0 <= ProductOver(rest, K) /\ ProductOver(rest, K) <= ProductOver(whole, K)
       /\ 0 < ProductOver(whole, K)
  <2>1. /\ \A a \in K : rest[a] \in Int
        /\ \A a \in K : whole[a] \in Int /\ 0 <= rest[a] /\ rest[a] <= whole[a] /\ 0 < whole[a]
    BY <1>6
  <2> QED
    BY <1>4, <2>1, ProductBounds
<1>14. ProductOver(rest, K) \in Int /\ ProductOver(whole, K) \in Int
  BY <1>4, <1>6, ProductStep
<1> QED
  BY <1>2, <1>12, <1>13, <1>14

(* What the layers leave is what remains after any of them works.          *)
LEMMA AnyWorksIs ==
    ASSUME NEW K, IsLayerSet(K), NEW e, e = Effects(K)
    PROVE  AnyWorks(e) = Whole(e) - Remaining(e)
<1>1. PICK q : q = InOrder(K, ByKeyThenId)
  OBVIOUS
<1>2. PICK U : U = 1 .. Cardinality(K)
  OBVIOUS
<1>3. /\ Cardinality(K) \in Nat
      /\ e = [p \in U |-> q[p].effect]
      /\ \A p \in U : q[p] \in K
  BY <1>1, <1>2, EffectsAre DEF IsLayerSet
<1>4. IsFiniteSet(U) /\ DOMAIN e = U /\ \A k \in U : e[k] \in Int
  <2>1. IsFiniteSet(U) /\ DOMAIN e = U
    BY <1>2, <1>3, FS_Interval
  <2>2. \A a \in K : a.effect \in Int
    BY DEF IsLayerSet
  <2> QED
    BY <1>3, <2>1, <2>2
<1>5. PICK whole : whole = [k \in U |-> 100]
  OBVIOUS
<1>6. PICK rest : rest = [k \in U |-> 100 - e[k]]
  OBVIOUS
<1>7. PICK mix : mix = [S \in SUBSET U |-> [k \in U |-> IF k \in S THEN e[k] ELSE 100]]
  OBVIOUS
<1>8. PICK a : a = [S \in SUBSET U |-> IF Cardinality(S) % 2 = 1 THEN ProductOver(mix[S], U)
                                     ELSE -ProductOver(mix[S], U)]
  OBVIOUS
<1>9. PICK D : D = (SUBSET U) \ {{}}
  OBVIOUS
<1>10. SumFunctionOnSet(a, D) = ProductOver(whole, U) - ProductOver(rest, U)
  <2>1. /\ \A k \in U : whole[k] = 100
        /\ \A k \in U : rest[k] = 100 - e[k]
    BY <1>5, <1>6
  <2>2. \A S \in SUBSET U : \A k \in U : mix[S][k] = IF k \in S THEN e[k] ELSE 100
    BY <1>7
  <2>3. \A S \in SUBSET U : a[S] = IF Cardinality(S) % 2 = 1 THEN ProductOver(mix[S], U)
                                  ELSE -ProductOver(mix[S], U)
    BY <1>8
  <2>4. Mixes(U, 100, e, whole, rest, mix, a)
    BY <1>4, <2>1, <2>2, <2>3 DEF Mixes
  <2> QED
    BY <1>9, <2>4, InclusionExclusion
<1>11. ASSUME NEW S \in SUBSET U PROVE AllWork(e, S) = ProductOver(mix[S], U)
  <2>1. mix[S] = [k \in DOMAIN e |-> IF k \in S THEN e[k] ELSE 100] /\ DOMAIN mix[S] = U
    BY <1>4, <1>7
  <2>2. AllWork(e, S) = Product(mix[S])
    BY <2>1 DEF AllWork
  <2> QED
    BY <2>1, <2>2, ProductIs
<1>12. PICK c : c = [S \in D |-> IF Cardinality(S) % 2 = 1 THEN AllWork(e, S) ELSE -AllWork(e, S)]
  OBVIOUS
<1>13. AnyWorks(e) = SumFunctionOnSet(c, D)
  <2>1. DOMAIN c = D
    BY <1>12
  <2>2. AnyWorks(e) = SumFunction(c)
    BY <1>4, <1>9, <1>12 DEF AnyWorks
  <2> QED
    BY <2>1, <2>2 DEF SumFunction
<1>14. SumFunctionOnSet(c, D) = SumFunctionOnSet(a, D)
  <2>1. \A S \in D : c[S] = a[S]
    BY <1>8, <1>9, <1>11, <1>12
  <2>2. IsFiniteSet(D)
    <3>1. IsFiniteSet(SUBSET U)
      BY <1>4, FS_SUBSET
    <3>2. D \subseteq SUBSET U
      BY <1>9
    <3> QED
      BY <3>1, <3>2, FS_Subset
  <2>3. \A S \in D : a[S] \in Int
    <3> TAKE S \in D
    <3>1. S \in SUBSET U
      BY <1>9
    <3>2. \A k \in U : mix[S][k] \in Int
      BY <1>4, <1>7, <3>1
    <3>3. PICK p \in Int : p = ProductOver(mix[S], U)
      BY <1>4, <3>2, ProductStep
    <3>4. a[S] = IF Cardinality(S) % 2 = 1 THEN p ELSE -p
      BY <1>8, <3>1, <3>3
    <3>5. a[S] = p \/ a[S] = -p
      BY <3>4
    <3> QED
      BY <3>5
  <2> QED
    BY <2>1, <2>2, <2>3, SumSame
<1>15. Whole(e) = ProductOver(whole, U) /\ Remaining(e) = ProductOver(rest, U)
  <2>1. Whole(e) = Product(whole) /\ Remaining(e) = Product(rest)
    BY <1>4, <1>5, <1>6 DEF Whole, Remaining
  <2>2. DOMAIN whole = U /\ DOMAIN rest = U
    BY <1>5, <1>6
  <2> QED
    BY <2>1, <2>2, ProductIs
<1> QED
  BY <1>10, <1>13, <1>14, <1>15

----------------------------------------------------------------------------
(***************************************************************************)
(* The statements of a text.                                               *)
(***************************************************************************)
UpTo(S) == {p \in S \X S : p[1] < p[2]}

LEMMA NumbersAreOrdered ==
    ASSUME NEW S, \A k \in S : k \in Int
    PROVE  /\ StrictOrder(UpTo(S), S)
           /\ \A j, k \in S : <<j, k>> \in UpTo(S) <=> j < k
<1>1. \A j, k \in S : <<j, k>> \in UpTo(S) <=> j < k
  BY DEF UpTo
<1> QED
  BY <1>1 DEF StrictOrder

LEMMA StatementsAre ==
    ASSUME NEW parts \in Seq(Part), NEW x, x = SplitStatements(parts),
           NEW texts, texts = {part.text : part \in Range(parts)} \ {None}
    PROVE  /\ DOMAIN x = 1 .. Len(x) /\ Len(x) \in 1 .. Len(parts) + 1
           /\ texts = {} => x = <<Unspecified>>
           /\ texts # {} => /\ {part.text : part \in Range(x)} = texts
                           /\ Len(x) = Cardinality(texts)
<1> DEFINE D == DOMAIN parts
           kept == {k \in D : IsNew(parts, k)}
           text(k) == parts[k].text
<1>1. D = 1 .. Len(parts) /\ Len(parts) \in Nat /\ IsFiniteSet(D) /\ Cardinality(D) = Len(parts)
  <2>1. D = 1 .. Len(parts) /\ Len(parts) \in Nat
    OBVIOUS
  <2> QED
    BY <2>1, FS_Interval
<1>2. \A k \in D : parts[k] \in Part /\ k \in Int
  BY <1>1
<1>3. texts = {text(k) : k \in D} \ {None}
  BY DEF Range
<1>4. \A k \in D : k \in kept <=> text(k) # None /\ \A j \in D : j < k => text(j) # text(k)
  BY <1>1 DEF IsNew
<1>5. ASSUME NEW t \in texts PROVE \E k \in kept : text(k) = t
  <2>1. PICK S : S = {k \in D : text(k) = t}
    OBVIOUS
  <2>2. IsFiniteSet(S) /\ S # {} /\ \A k \in S : k \in Int /\ k \in D
    BY <1>1, <1>2, <1>3, <2>1, FS_Subset
  <2>3. StrictOrder(UpTo(S), S) /\ \A j, k \in S : <<j, k>> \in UpTo(S) <=> j < k
    BY <2>2, NumbersAreOrdered
  <2>4. PICK k \in S : \A j \in S : k = j \/ <<k, j>> \in UpTo(S)
    BY <2>2, <2>3, LeastExists
  <2>5. \A j \in D : j < k => text(j) # t
    <3>1. \A j \in S : k = j \/ k < j
      BY <2>3, <2>4
    <3>2. \A j \in S : ~(j < k)
      BY <2>2, <3>1
    <3> QED
      BY <2>1, <3>2
  <2>6. text(k) = t /\ t # None
    BY <1>3, <2>1
  <2> QED
    BY <1>4, <2>2, <2>5, <2>6
<1>6. \A k \in kept : text(k) \in texts
  BY <1>3, <1>4
<1>7. \A j, k \in kept : text(j) = text(k) => j = k
  BY <1>2, <1>4
<1>8. IsFiniteSet(kept) /\ Cardinality(kept) <= Len(parts) /\ Cardinality(kept) \in Nat
  <2>1. kept \subseteq D
    OBVIOUS
  <2> HIDE DEF kept, D
  <2> QED
    BY <1>1, <2>1, FS_Subset, FS_CardinalityType
<1>9. PICK n \in Nat : n = Cardinality(kept)
  BY <1>8
<1>10. PICK q : q = InOrder(kept, LAMBDA j, k : j < k)
  OBVIOUS
<1>11. /\ DOMAIN q = 1 .. n
       /\ \A p \in 1 .. n : q[p] \in kept
       /\ \A k \in kept : \E p \in 1 .. n : q[p] = k
  <2> DEFINE K == kept
  <2>1. q = [p \in 1 .. n |-> CHOOSE k \in K : Cardinality({j \in K : j < k}) = p - 1]
    BY <1>9, <1>10 DEF InOrder
  <2>2. \A k \in K : k \in Int
    BY <1>2
  <2> HIDE DEF K
  <2>3. StrictOrder(UpTo(K), K) /\ \A j, k \in K : <<j, k>> \in UpTo(K) <=> j < k
    BY <2>2, NumbersAreOrdered
  <2>4. \A k \in K : {j \in K : j < k} = Below(UpTo(K), K, k)
    BY <2>3 DEF Below
  <2>5. \A p \in 1 .. n : q[p] = CHOOSE k \in K : Cardinality(Below(UpTo(K), K, k)) = p - 1
    BY <2>1, <2>4
  <2>6. Sorts(q, UpTo(K), K)
    BY <1>8, <1>9, <2>3, <2>5 DEF Sorts, K
  <2>7. n = Cardinality(K)
    BY <1>9 DEF K
  <2>8. /\ \A p \in 1 .. n : q[p] \in K
        /\ \A k \in K : \E p \in 1 .. n : q[p] = k
    BY <2>6, <2>7, ByRank
  <2> USE DEF K
  <2> QED
    BY <2>1, <2>8
<1>12. x = IF kept = {} THEN <<Unspecified>> ELSE [p \in DOMAIN q |-> parts[q[p]]]
  BY <1>10 DEF SplitStatements
<1>13. CASE kept = {}
  <2>1. texts = {}
    BY <1>5, <1>13
  <2>2. x = <<Unspecified>>
    BY <1>12, <1>13
  <2>3. Len(x) = 1 /\ DOMAIN x = 1 .. 1
    BY <2>2
  <2>4. Len(x) \in 1 .. Len(parts) + 1
    BY <1>1, <2>3
  <2> QED
    BY <2>1, <2>2, <2>3, <2>4
<1>14. CASE kept # {}
  <2>1. texts # {}
    BY <1>6, <1>14
  <2>2. x = [p \in 1 .. n |-> parts[q[p]]]
    BY <1>11, <1>12, <1>14
  <2>3. \A p \in 1 .. n : x[p] \in Part /\ x[p].text = text(q[p])
    BY <1>2, <1>11, <2>2
  <2>4. Len(x) = n /\ DOMAIN x = 1 .. n
    BY <2>2, <2>3
  <2>5. n # 0
    BY <1>8, <1>9, <1>14, FS_EmptySet
  <2>6. {part.text : part \in Range(x)} = texts
    <3>1. {part.text : part \in Range(x)} = {x[p].text : p \in 1 .. n}
      BY <2>4 DEF Range
    <3> HIDE DEF kept, text, D
    <3>2. \A p \in 1 .. n : x[p].text \in texts
      BY <1>6, <1>11, <2>3
    <3>3. \A t \in texts : \E p \in 1 .. n : x[p].text = t
      BY <1>5, <1>11, <2>3
    <3>4. \A t : t \in {x[p].text : p \in 1 .. n} <=> t \in texts
      BY <3>2, <3>3
    <3> QED
      BY <3>1, <3>4
  <2>7. Cardinality(texts) = n
    <3> DEFINE f == [k \in kept |-> text(k)]
    <3> HIDE DEF kept, text, D
    <3>1. f \in Bijection(kept, texts)
      BY <1>5, <1>6, <1>7 DEF Bijection, Injection, Surjection, IsInjective
    <3> HIDE DEF f
    <3> QED
      BY <1>8, <1>9, <3>1, FS_Bijection DEF ExistsBijection
  <2>8. n \in 1 .. Len(parts) + 1
    BY <1>1, <1>8, <1>9, <2>5
  <2> QED
    BY <2>1, <2>4, <2>6, <2>7, <2>8
<1> QED
  BY <1>13, <1>14

----------------------------------------------------------------------------
(***************************************************************************)
(* Paths.                                                                  *)
(***************************************************************************)
LEMMA PathsAre ==
    ASSUME NEW s, NEW a \in Nat \ {0}, NEW w \in Nat \ {0},
           a = Len(SplitStatements(s.scenario.cause)),
           w = Len(SplitStatements(s.scenario.consequence)),
           NEW paths, paths = Paths(s)
    PROVE  /\ paths # <<>>
           /\ Range(paths) = [cause : 1 .. a, consequence : 1 .. w]
           /\ IsInjective(paths)
<1> DEFINE D == 1 .. a * w
           path(p) == [cause |-> ((p - 1) \div w) + 1, consequence |-> ((p - 1) % w) + 1]
<1>1. paths = [p \in D |-> path(p)]
  BY DEF Paths
<1>2. ASSUME NEW p \in D
      PROVE  /\ path(p).cause \in 1 .. a /\ path(p).consequence \in 1 .. w
             /\ p = w * (path(p).cause - 1) + path(p).consequence
  <2>0. PICK m \in Int : m = p - 1
    OBVIOUS
  <2>1. PICK q \in Int, r \in 0 .. w - 1 : /\ q = m \div w /\ r = m % w
                                          /\ p - 1 = w * q + r
    <3>1. m \div w \in Int /\ m % w \in 0 .. w - 1 /\ m = w * (m \div w) + (m % w)
      BY DivMod
    <3> QED
      BY <2>0, <3>1
  <2>2. q < a
    <3>1. SUFFICES ASSUME a <= q PROVE FALSE
      BY <2>1
    <3>2. w * a <= w * q
      BY <3>1
    <3> QED
      BY <2>1, <3>2
  <2>3. 0 <= q
    <3>1. SUFFICES ASSUME q <= -1 PROVE FALSE
      BY <2>1
    <3>2. w * q <= -w
      BY <3>1
    <3> QED
      BY <2>1, <3>2
  <2>4. path(p).cause = q + 1 /\ path(p).consequence = r + 1
    BY <2>0, <2>1
  <2>5. w * (q + 1 - 1) + (r + 1) = p
    <3>1. PICK v \in Int : v = w * q /\ p - 1 = v + r
      BY <2>1
    <3>2. q + 1 - 1 = q
      BY <2>1
    <3> QED
      BY <3>1, <3>2
  <2>6. q + 1 \in 1 .. a /\ r + 1 \in 1 .. w
    BY <2>1, <2>2, <2>3
  <2> HIDE DEF path
  <2> QED
    BY <2>4, <2>5, <2>6
<1>3. ASSUME NEW c \in 1 .. a, NEW d \in 1 .. w
      PROVE  \E p \in D : path(p) = [cause |-> c, consequence |-> d]
  <2>1. PICK q \in Nat, r \in 0 .. w - 1 : q = c - 1 /\ r = d - 1
    OBVIOUS
  <2>2. PICK p \in Int : p = (w * q + r) + 1
    OBVIOUS
  <2>3. p \in D
    <3>1. 0 <= w * q
      BY <2>1
    <3>2. w * q <= w * (a - 1) /\ w * (a - 1) = a * w - w
      BY <2>1
    <3>3. a * w \in Int
      OBVIOUS
    <3> QED
      BY <2>1, <2>2, <3>1, <3>2, <3>3
  <2>4. p - 1 = w * q + r
    BY <2>2
  <2>5. (p - 1) \div w = q /\ (p - 1) % w = r
    <3>1. q \in Int /\ r \in 0 .. w - 1 /\ w \in Nat \ {0}
      OBVIOUS
    <3>2. (w * q + r) \div w = q /\ (w * q + r) % w = r
      BY <3>1, DivModUnique
    <3> QED
      BY <2>4, <3>2
  <2>6. path(p) = [cause |-> c, consequence |-> d]
    BY <2>1, <2>5
  <2> QED
    BY <2>3, <2>6
<1>4. 1 \in D
  BY <1>3
<1>5. paths # <<>>
  BY <1>1, <1>4
<1>6. \A p \in D : paths[p] = path(p) /\ path(p) \in [cause : 1 .. a, consequence : 1 .. w]
  BY <1>1, <1>2
<1>7. Range(paths) = [cause : 1 .. a, consequence : 1 .. w]
  <2>1. Range(paths) = {paths[p] : p \in D}
    BY <1>1 DEF Range
  <2>2. ASSUME NEW x \in [cause : 1 .. a, consequence : 1 .. w]
        PROVE  \E p \in D : paths[p] = x
    <3>1. x = [cause |-> x.cause, consequence |-> x.consequence]
      OBVIOUS
    <3>2. x.cause \in 1 .. a /\ x.consequence \in 1 .. w
      OBVIOUS
    <3> HIDE DEF path, D
    <3> QED
      BY <1>3, <1>6, <3>1, <3>2
  <2> HIDE DEF path, D
  <2>3. \A p \in D : paths[p] \in [cause : 1 .. a, consequence : 1 .. w]
    BY <1>6
  <2>4. Range(paths) \subseteq [cause : 1 .. a, consequence : 1 .. w]
    BY <2>1, <2>3
  <2>5. [cause : 1 .. a, consequence : 1 .. w] \subseteq Range(paths)
    BY <2>1, <2>2
  <2> QED
    BY <2>4, <2>5
<1>8. IsInjective(paths)
  <2> HIDE DEF path
  <2>1. \A p, r \in D : path(p) = path(r) => p = r
    BY <1>2
  <2>2. DOMAIN paths = D
    BY <1>1
  <2> HIDE DEF D
  <2> QED
    BY <1>6, <2>1, <2>2 DEF IsInjective
<1> QED
  BY <1>5, <1>7, <1>8

(* A cause has an edge to the node, and the node one to a consequence.     *)
LEMMA GraphIs ==
    ASSUME NEW s, NEW C, C = DOMAIN SplitStatements(s.scenario.cause),
           NEW Q, Q = DOMAIN SplitStatements(s.scenario.consequence),
           NEW G, G = BuildGraph(s), NEW c \in Nat, NEW q \in Nat
    PROVE  /\ <<"cause", c>> \in G.node <=> c \in C
           /\ <<"consequence", q>> \in G.node <=> q \in Q
           /\ c \in C /\ q \in Q => Connects(G, <<"cause", c>>, <<"consequence", q>>)
<1>1. PICK causes, consequences, layers :
         /\ causes = Side("cause", SplitStatements(s.scenario.cause))
         /\ consequences = Side("consequence", SplitStatements(s.scenario.consequence))
         /\ layers = {<<"safeguard", s.safeguards[k].id>> : k \in DOMAIN s.safeguards}
  OBVIOUS
<1>2. PICK node : node = <<"node", 0>>
  OBVIOUS
<1>3. /\ G.node = {node} \cup causes \cup consequences \cup layers
      /\ G.edge = (causes \X {node}) \cup ({node} \X consequences) \cup (layers \X consequences)
  BY <1>1, <1>2 DEF BuildGraph
<1>4. /\ causes = {<<"cause", k>> : k \in C}
      /\ consequences = {<<"consequence", k>> : k \in Q}
  BY <1>1 DEF Side
<1>5. <<"cause", c>> \in G.node <=> c \in C
  BY <1>1, <1>2, <1>3, <1>4
<1>6. <<"consequence", q>> \in G.node <=> q \in Q
  BY <1>1, <1>2, <1>3, <1>4
<1>7. ASSUME c \in C, q \in Q
      PROVE  Connects(G, <<"cause", c>>, <<"consequence", q>>)
  <2>1. <<"cause", c>> \in causes /\ <<"consequence", q>> \in consequences
    BY <1>4, <1>7
  <2>2. PICK x, y : x = <<"cause", c>> /\ y = <<"consequence", q>>
    OBVIOUS
  <2>3. <<x, node>> \in G.edge /\ <<node, y>> \in G.edge
    BY <1>3, <2>1, <2>2
  <2>4. ASSUME NEW X \in SUBSET G.node, x \in X,
               \A e \in G.edge : e[1] \in X => e[2] \in X
        PROVE  y \in X
    <3>1. node \in X
      BY <2>3, <2>4
    <3> QED
      BY <2>3, <2>4, <3>1
  <2> QED
    BY <2>2, <2>4 DEF Connects
<1> QED
  BY <1>5, <1>6, <1>7

LEMMA NoLayers == Effects({}) = <<>> /\ Whole(<<>>) = 1 /\ Remaining(<<>>) = 1
<1>1. IsLayerSet({})
  BY FS_EmptySet DEF IsLayerSet, IsRowSet
<1>2. Effects({}) = <<>>
  <2>1. Cardinality({}) = 0
    BY FS_EmptySet
  <2>2. PICK q : q = InOrder({}, ByKeyThenId)
    OBVIOUS
  <2>3. Effects({}) = [p \in 1 .. 0 |-> q[p].effect]
    BY <1>1, <2>1, <2>2, EffectsAre DEF IsLayerSet
  <2> QED
    BY <2>3
<1>3. PICK none : none = [a \in {} |-> 100]
  OBVIOUS
<1>4. PICK rest : rest = [a \in {} |-> 100 - a.effect]
  OBVIOUS
<1>5. Whole(Effects({})) = ProductOver(none, {}) /\ Remaining(Effects({})) = ProductOver(rest, {})
  BY <1>1, <1>3, <1>4, ProductsAre
<1>6. ProductOver(none, {}) = 1 /\ ProductOver(rest, {}) = 1
  <2>1. IsFiniteSet({})
    BY FS_EmptySet
  <2> QED
    BY <2>1, ProductStep
<1> QED
  BY <1>2, <1>5, <1>6

LEMMA EvaluationIs ==
    ASSUME NEW i, NEW e, e = Evaluation(i),
           NEW s, s = NewSnapshot(i), NEW v, v = ResolveIndependence(s),
           NEW f, f = Effects(v.retained)
    PROVE  /\ e.snapshot = s /\ e.independence = v /\ e.score = CoverageScore(f)
           /\ e.paths = Paths(s)
           /\ e.uncovered = IF IsCovered(f) THEN <<>> ELSE Paths(s)
           /\ e.residual = Residual(Initial(s), f)
           /\ e.riskBefore = RiskRank(Initial(s)) /\ e.riskAfter = RiskRank(e.residual)
BY DEF Evaluation

LEMMA PathsConnect ==
    ASSUME NEW i, IsInput(i), NEW e, e = Evaluation(i), NEW G, G = BuildGraph(e.snapshot)
    PROVE  /\ Range(e.paths) =
                 {p \in [cause : 1 .. Len(i.scenario.cause) + 1,
                         consequence : 1 .. Len(i.scenario.consequence) + 1] :
                     /\ <<"cause", p.cause>> \in G.node
                     /\ <<"consequence", p.consequence>> \in G.node
                     /\ Connects(G, <<"cause", p.cause>>, <<"consequence", p.consequence>>)}
           /\ IsInjective(e.paths)
           /\ e.paths # <<>>
           /\ e.independence.retained = {} => e.uncovered = e.paths
<1>1. PICK s : s = NewSnapshot(i)
  OBVIOUS
<1>2. PICK v : v = ResolveIndependence(s)
  OBVIOUS
<1>3. PICK f : f = Effects(v.retained)
  OBVIOUS
<1>4. /\ e.snapshot = s /\ e.independence = v /\ e.paths = Paths(s)
      /\ e.uncovered = IF IsCovered(f) THEN <<>> ELSE Paths(s)
  BY <1>1, <1>2, <1>3, EvaluationIs
<1>5. PICK m, n : m = Len(i.scenario.cause) /\ n = Len(i.scenario.consequence)
  OBVIOUS
<1>6. /\ i.scenario.cause \in Seq(Part) /\ i.scenario.consequence \in Seq(Part)
      /\ m \in Nat /\ n \in Nat
  BY <1>5 DEF IsInput, Scenario
<1>7. s.scenario = i.scenario
  BY <1>1, SnapshotIs
<1>8. PICK a, w : /\ a = Len(SplitStatements(s.scenario.cause))
                  /\ w = Len(SplitStatements(s.scenario.consequence))
  OBVIOUS
<1>9. DOMAIN SplitStatements(s.scenario.cause) = 1 .. a /\ a \in 1 .. m + 1
  BY <1>5, <1>6, <1>7, <1>8, StatementsAre
<1>10. DOMAIN SplitStatements(s.scenario.consequence) = 1 .. w /\ w \in 1 .. n + 1
  BY <1>5, <1>6, <1>7, <1>8, StatementsAre
<1>11. a \in Nat \ {0} /\ w \in Nat \ {0}
  BY <1>6, <1>9, <1>10
<1>12. /\ e.paths # <<>> /\ IsInjective(e.paths)
       /\ Range(e.paths) = [cause : 1 .. a, consequence : 1 .. w]
  <2>1. PICK paths : paths = Paths(s)
    OBVIOUS
  <2>2. /\ paths # <<>> /\ IsInjective(paths)
        /\ Range(paths) = [cause : 1 .. a, consequence : 1 .. w]
    BY <1>8, <1>11, <2>1, PathsAre
  <2> QED
    BY <1>4, <2>1, <2>2
<1>13. PICK P : P = {p \in [cause : 1 .. m + 1, consequence : 1 .. n + 1] :
                     /\ <<"cause", p.cause>> \in G.node
                     /\ <<"consequence", p.consequence>> \in G.node
                     /\ Connects(G, <<"cause", p.cause>>, <<"consequence", p.consequence>>)}
  OBVIOUS
<1>14. ASSUME NEW c \in Nat, NEW q \in Nat
       PROVE  /\ <<"cause", c>> \in G.node <=> c \in 1 .. a
              /\ <<"consequence", q>> \in G.node <=> q \in 1 .. w
              /\ c \in 1 .. a /\ q \in 1 .. w => Connects(G, <<"cause", c>>, <<"consequence", q>>)
  <2>1. PICK C, Q : C = 1 .. a /\ Q = 1 .. w
    OBVIOUS
  <2>2. /\ G = BuildGraph(s)
        /\ C = DOMAIN SplitStatements(s.scenario.cause)
        /\ Q = DOMAIN SplitStatements(s.scenario.consequence)
    BY <1>4, <1>9, <1>10, <2>1
  <2>3. /\ <<"cause", c>> \in G.node <=> c \in C
        /\ <<"consequence", q>> \in G.node <=> q \in Q
        /\ c \in C /\ q \in Q => Connects(G, <<"cause", c>>, <<"consequence", q>>)
    BY <2>2, GraphIs
  <2> QED
    BY <2>1, <2>3
<1>15. [cause : 1 .. a, consequence : 1 .. w] = P
  <2>1. ASSUME NEW p \in [cause : 1 .. a, consequence : 1 .. w] PROVE p \in P
    <3>1. /\ p \in [cause : 1 .. m + 1, consequence : 1 .. n + 1]
          /\ p.cause \in 1 .. a /\ p.consequence \in 1 .. w
          /\ p.cause \in Nat /\ p.consequence \in Nat
      BY <1>6, <1>9, <1>10
    <3> QED
      BY <1>13, <1>14, <3>1
  <2>2. ASSUME NEW p \in P PROVE p \in [cause : 1 .. a, consequence : 1 .. w]
    <3>1. /\ p \in [cause : 1 .. m + 1, consequence : 1 .. n + 1]
          /\ <<"cause", p.cause>> \in G.node /\ <<"consequence", p.consequence>> \in G.node
      BY <1>13
    <3>2. p.cause \in Nat /\ p.consequence \in Nat
      BY <1>6, <3>1
    <3>3. p.cause \in 1 .. a /\ p.consequence \in 1 .. w
      BY <1>14, <3>1, <3>2
    <3> QED
      BY <3>1, <3>3
  <2> QED
    BY <2>1, <2>2
<1>16. ASSUME v.retained = {} PROVE e.uncovered = e.paths
  <2>1. f = <<>>
    BY <1>3, <1>16, NoLayers
  <2>2. ~IsCovered(f)
    BY <2>1, NoLayers DEF IsCovered
  <2> QED
    BY <1>4, <2>2
<1> QED
  BY <1>4, <1>5, <1>12, <1>13, <1>15, <1>16

----------------------------------------------------------------------------
(***************************************************************************)
(* The score.                                                              *)
(***************************************************************************)
LEMMA RetainedAre ==
    ASSUME NEW i, IsInput(i), NEW s, s = NewSnapshot(i), NEW E, E = Eligible(s),
           NEW v, v = ResolveIndependence(s)
    PROVE  /\ IsRowSet(Rows(s)) /\ E \subseteq Rows(s) /\ IsRowSet(E)
           /\ \A a \in E : a.effect \in 1 .. 100
           /\ v.retained = Strongest(E) /\ IsLayerSet(v.retained)
<1>1. IsRowSet(Rows(s))
  BY SnapshotRows DEF IsRowSet
<1>2. E \subseteq Rows(s) /\ IsRowSet(E) /\ v.retained = Strongest(E)
  BY <1>1, Resolved
<1>3. \A a \in E : a.effect \in 1 .. 100
  BY DEF Eligible, Reason, IneligibleReason
<1>4. Strongest(E) \subseteq E
  BY DEF Strongest
<1>5. IsLayerSet(v.retained)
  BY <1>2, <1>3, <1>4, FS_Subset DEF IsLayerSet, IsRowSet
<1> QED
  BY <1>1, <1>2, <1>3, <1>5

LEMMA Nearest ==
    ASSUME NEW W \in Nat \ {0}, NEW z \in Int, NEW x, x = (2 * z + W) \div (2 * W)
    PROVE  x \in Int /\ 2 * Distance(x * W, z) <= W
<1>1. PICK b \in Nat \ {0} : b = 2 * W
  OBVIOUS
<1>2. PICK n \in Int : n = 2 * z + W
  OBVIOUS
<1>3. x \in Int /\ b * x <= n /\ n < b * x + b
  BY <1>1, <1>2, DivMod
<1>4. PICK y \in Int : y = x * W
  BY <1>3
<1>5. b * x = 2 * y
  BY <1>1, <1>3, <1>4
<1>6. 2 * y <= 2 * z + W /\ 2 * z + W < 2 * y + 2 * W
  BY <1>1, <1>2, <1>3, <1>5
<1>7. 2 * Distance(y, z) <= W
  <2>1. CASE y < z
    BY <1>6, <2>1 DEF Distance
  <2>2. CASE ~(y < z)
    BY <1>6, <2>2 DEF Distance
  <2> QED
    BY <2>1, <2>2
<1> QED
  BY <1>3, <1>4, <1>7

LEMMA ScoreIs ==
    ASSUME NEW K, IsLayerSet(K), NEW f, f = Effects(K),
           NEW W, W = Whole(f), NEW R, R = Remaining(f)
    PROVE  /\ W \in Nat \ {0} /\ R \in Nat /\ R <= W
           /\ CoverageScore(f) = (2 * ((W - R) * ScoreParts) + W) \div (2 * W)
           /\ CoverageScore(f) \in Int
           /\ 2 * Distance(CoverageScore(f) * W, AnyWorks(f) * ScoreParts) <= W
           /\ IsCovered(f) <=> 2 * AnyWorks(f) >= W
<1>1. PICK whole : whole = [a \in K |-> 100]
  OBVIOUS
<1>2. PICK rest : rest = [a \in K |-> 100 - a.effect]
  OBVIOUS
<1>3. W \in Nat \ {0} /\ R \in Nat /\ R <= W
  BY <1>1, <1>2, ProductsAre
<1>4. PICK u \in Nat \ {0} : u = ScoreParts
  BY UnitsAssumption
<1>5. PICK z \in Int : z = (W - R) * u
  BY <1>3
<1>6. 2 * (W - R) * u = 2 * z
  BY <1>3, <1>5
<1>7. CoverageScore(f) = (2 * z + W) \div (2 * W)
  BY <1>4, <1>6 DEF CoverageScore
<1>8. AnyWorks(f) = W - R
  BY AnyWorksIs
<1>9. CoverageScore(f) \in Int /\ 2 * Distance(CoverageScore(f) * W, z) <= W
  BY <1>3, <1>7, Nearest
<1>10. IsCovered(f) <=> 2 * (W - R) >= W
  BY <1>3 DEF IsCovered
<1> QED
  BY <1>3, <1>4, <1>5, <1>7, <1>8, <1>9, <1>10

LEMMA ScoreIsNearest ==
    ASSUME NEW i, IsInput(i), NEW e, e = Evaluation(i),
           NEW f, f = Effects(e.independence.retained)
    PROVE  /\ 2 * Distance(e.score * Whole(f), AnyWorks(f) * ScoreParts) <= Whole(f)
           /\ e.uncovered = <<>> <=> 2 * AnyWorks(f) >= Whole(f)
<1>1. PICK s : s = NewSnapshot(i)
  OBVIOUS
<1>2. PICK v : v = ResolveIndependence(s)
  OBVIOUS
<1>3. PICK K : K = v.retained
  OBVIOUS
<1>4. /\ e.independence = v /\ e.score = CoverageScore(f) /\ e.paths = Paths(s)
      /\ e.uncovered = IF IsCovered(f) THEN <<>> ELSE Paths(s)
  <2>1. PICK g : g = Effects(v.retained)
    OBVIOUS
  <2>2. /\ e.independence = v /\ e.score = CoverageScore(g) /\ e.paths = Paths(s)
        /\ e.uncovered = IF IsCovered(g) THEN <<>> ELSE Paths(s)
    BY <1>1, <1>2, <2>1, EvaluationIs
  <2> QED
    BY <2>1, <2>2
<1>5. IsLayerSet(K) /\ f = Effects(K)
  <2>1. PICK E : E = Eligible(s)
    OBVIOUS
  <2>2. IsLayerSet(v.retained)
    BY <1>1, <1>2, <2>1, RetainedAre
  <2> QED
    BY <1>3, <1>4, <2>2
<1>6. PICK W, R : W = Whole(f) /\ R = Remaining(f)
  OBVIOUS
<1>7. /\ 2 * Distance(CoverageScore(f) * W, AnyWorks(f) * ScoreParts) <= W
      /\ IsCovered(f) <=> 2 * AnyWorks(f) >= W
  BY <1>5, <1>6, ScoreIs
<1>8. e.paths # <<>>
  <2>1. PICK G : G = BuildGraph(e.snapshot)
    OBVIOUS
  <2> QED
    BY <2>1, PathsConnect
<1> QED
  BY <1>4, <1>6, <1>7, <1>8

----------------------------------------------------------------------------
(***************************************************************************)
(* Less protection, in fractions: of the remaining R out of W and Q out of *)
(* V.                                                                      *)
(***************************************************************************)
LEMMA ScoreFalls ==
    ASSUME NEW W \in Nat \ {0}, NEW R \in Nat, NEW V \in Nat \ {0}, NEW Q \in Nat,
           NEW u \in Nat \ {0}, R * V <= Q * W
    PROVE  (2 * ((V - Q) * u) + V) \div (2 * V) <= (2 * ((W - R) * u) + W) \div (2 * W)
<1>1. PICK y \in Int, z \in Int : y = (V - Q) * u /\ z = (W - R) * u
  OBVIOUS
<1>2. y * W <= z * V
  <2>1. PICK g \in Int, h \in Int : g = (V - Q) * W /\ h = (W - R) * V
    OBVIOUS
  <2>2. g <= h
    <3>1. g = V * W - Q * W /\ h = V * W - R * V
      BY <2>1
    <3> QED
      BY <3>1
  <2>3. g * u <= h * u
    BY <2>1, <2>2
  <2>4. y * W = g * u /\ z * V = h * u
    BY <1>1, <2>1
  <2> QED
    BY <2>3, <2>4
<1>3. PICK a \in Int, b \in Nat \ {0}, c \in Int, d \in Nat \ {0} :
         a = 2 * y + V /\ b = 2 * V /\ c = 2 * z + W /\ d = 2 * W
  BY <1>1
<1>4. a * d <= c * b
  <2>1. a * d = 4 * (y * W) + 2 * (V * W)
    BY <1>3
  <2>2. c * b = 4 * (z * V) + 2 * (V * W)
    BY <1>3
  <2>3. y * W \in Int /\ z * V \in Int /\ V * W \in Int
    OBVIOUS
  <2> QED
    BY <1>2, <2>1, <2>2, <2>3
<1>5. a \div b <= c \div d
  BY <1>4, DivMonotone
<1> QED
  BY <1>1, <1>3, <1>5

LEMMA CeilingIs ==
    ASSUME NEW a \in Int, NEW b \in Nat \ {0}, NEW c, c = CeilingDiv(a, b)
    PROVE  c \in Int /\ a <= b * c /\ b * (c - 1) < a
<1>1. PICK m \in Int : m = -a
  OBVIOUS
<1>2. PICK q \in Int : q = m \div b /\ b * q <= m /\ m < b * q + b
  BY DivMod
<1>3. c = -q
  BY <1>1, <1>2 DEF CeilingDiv
<1>4. b * c = -(b * q) /\ b * (c - 1) = -(b * q) - b
  BY <1>3
<1> QED
  BY <1>1, <1>2, <1>3, <1>4

LEMMA CeilingMonotone ==
    ASSUME NEW a \in Int, NEW b \in Nat \ {0}, NEW c \in Int, NEW d \in Nat \ {0},
           a * d <= c * b
    PROVE  CeilingDiv(a, b) <= CeilingDiv(c, d)
<1>1. PICK m \in Int, n \in Int : m = -a /\ n = -c
  OBVIOUS
<1>2. n * b <= m * d
  <2>1. n * b = -(c * b) /\ m * d = -(a * d)
    BY <1>1
  <2>2. c * b \in Int /\ a * d \in Int
    OBVIOUS
  <2> QED
    BY <2>1, <2>2
<1>3. n \div d <= m \div b
  BY <1>2, DivMonotone
<1>4. n \div d \in Int /\ m \div b \in Int
  BY DivMod
<1> QED
  BY <1>1, <1>3, <1>4 DEF CeilingDiv

(* What is left of the risk n, and of more of it; where the product is a   *)
(* whole number, of strictly more.                                         *)
LEMMA CeilingRises ==
    ASSUME NEW n \in Nat \ {0}, NEW W \in Nat \ {0}, NEW R \in Nat,
           NEW V \in Nat \ {0}, NEW Q \in Nat, R * V <= Q * W,
           NEW c, c = CeilingDiv(n * R, W), NEW d, d = CeilingDiv(n * Q, V)
    PROVE  /\ c \in Int /\ d \in Int /\ c <= d
           /\ (n * R) % W = 0 /\ R * V < Q * W => c + 1 <= d
<1>1. PICK a \in Int, b \in Int : a = n * R /\ b = n * Q
  OBVIOUS
<1>2. c \in Int /\ d \in Int /\ b <= V * d
  BY <1>1, CeilingIs
<1>3. PICK g \in Int, h \in Int : g = R * V /\ h = Q * W
  OBVIOUS
<1>4. a * V = n * g /\ b * W = n * h
  BY <1>1, <1>3
<1>5. c <= d
  <2>1. n * g <= n * h
    BY <1>3
  <2>2. a * V <= b * W
    BY <1>4, <2>1
  <2>3. CeilingDiv(a, W) <= CeilingDiv(b, V)
    BY <2>2, CeilingMonotone
  <2> QED
    BY <1>1, <2>3
<1>6. ASSUME (n * R) % W = 0, R * V < Q * W PROVE c + 1 <= d
  <2>1. PICK k \in Int : a = W * k
    <3>1. a \div W \in Int /\ a = W * (a \div W) + (a % W)
      BY DivMod
    <3>2. a % W = 0
      BY <1>1, <1>6
    <3>3. a = W * (a \div W)
      BY <3>1, <3>2
    <3> QED
      BY <3>1, <3>3
  <2>2. a <= W * c /\ W * (c - 1) < a
    BY <1>1, CeilingIs
  <2>3. c = k
    <3>1. W * k <= W * c /\ W * (c - 1) < W * k
      BY <2>1, <2>2
    <3>2. k <= c
      <4>1. SUFFICES ASSUME c <= k - 1 PROVE FALSE
        BY <1>2, <2>1
      <4>2. W * c <= W * (k - 1) /\ W * (k - 1) = W * k - W
        BY <1>2, <4>1
      <4> QED
        BY <1>2, <3>1, <4>2
    <3>3. c - 1 < k
      <4>1. SUFFICES ASSUME k <= c - 1 PROVE FALSE
        BY <1>2, <2>1
      <4>2. W * k <= W * (c - 1)
        BY <1>2, <4>1
      <4> QED
        BY <1>2, <3>1, <4>2
    <3> QED
      BY <1>2, <3>2, <3>3
  <2>4. n * g < n * h
    BY <1>3, <1>6
  <2>5. W * (k * V) < W * b
    <3>1. a * V = W * (k * V) /\ b * W = W * b
      BY <2>1
    <3> QED
      BY <1>4, <2>4, <3>1
  <2>6. k * V < b
    <3>1. PICK x \in Int : x = k * V
      OBVIOUS
    <3>2. SUFFICES ASSUME b <= x PROVE FALSE
      BY <3>1
    <3>3. W * b <= W * x
      BY <3>2
    <3> QED
      BY <2>5, <3>1, <3>3
  <2>7. V * k < V * d
    BY <1>2, <2>6
  <2>8. k < d
    <3>1. SUFFICES ASSUME d <= k PROVE FALSE
      BY <1>2
    <3>2. V * d <= V * k
      BY <1>2, <3>1
    <3> QED
      BY <1>2, <2>7, <3>2
  <2> QED
    BY <1>2, <2>3, <2>8
<1> QED
  BY <1>2, <1>5, <1>6

(* The effects g protect no more than the effects f; the same fraction     *)
(* remains only of the same effects, or where nothing does.                *)
Protects(f) ==
    Whole(f) \in Nat \ {0} /\ Remaining(f) \in Nat /\ Remaining(f) <= Whole(f)

NoBetter(g, f) ==
    /\ Protects(f) /\ Protects(g)
    /\ Remaining(f) * Whole(g) <= Remaining(g) * Whole(f)
    /\ \/ g = f \/ Remaining(f) = 0
       \/ Remaining(f) * Whole(g) < Remaining(g) * Whole(f)

LEMMA ResidualIs ==
    ASSUME NEW n \in Nat \ {0}, NEW f, Protects(f),
           NEW c, c = CeilingDiv(n * Remaining(f), Whole(f)),
           NEW r, r = Residual(n, f)
    PROVE  /\ c \in Nat /\ r \in Nat \ {0} /\ c <= r /\ r <= c + 1
           /\ <<n, f>> \in RoundedUp => r = c + 1
           /\ <<n, f>> \notin RoundedUp /\ c # 0 => r = c
           /\ <<n, f>> \notin RoundedUp /\ c = 0 => r = 1
           /\ Remaining(f) = 0 => c = 0
<1>1. PICK W \in Nat \ {0}, R \in Nat : W = Whole(f) /\ R = Remaining(f)
  BY DEF Protects
<1>2. PICK a \in Nat : a = n * R
  OBVIOUS
<1>3. c \in Int /\ a <= W * c /\ W * (c - 1) < a
  <2>1. c = CeilingDiv(a, W) /\ a \in Int
    BY <1>1, <1>2
  <2> QED
    BY <2>1, CeilingIs
<1>4. 0 <= c
  <2>1. SUFFICES ASSUME c <= -1 PROVE FALSE
    BY <1>3
  <2>2. W * c <= -W
    BY <1>3, <2>1
  <2> QED
    BY <1>3, <2>2
<1>5. R = 0 => c = 0
  <2>1. SUFFICES ASSUME R = 0, 1 <= c PROVE FALSE
    BY <1>3, <1>4
  <2>2. a = 0
    BY <1>2, <2>1
  <2>3. 0 <= W * (c - 1)
    BY <1>3, <2>1
  <2> QED
    BY <1>3, <2>2, <2>3
<1>6. r = IF (IF <<n, f>> \in RoundedUp THEN c + 1 ELSE c) < 1 THEN 1
          ELSE IF <<n, f>> \in RoundedUp THEN c + 1 ELSE c
  BY DEF Residual
<1>7. CASE <<n, f>> \in RoundedUp
  <2>1. r = c + 1
    BY <1>3, <1>4, <1>6, <1>7
  <2> QED
    BY <1>1, <1>3, <1>4, <1>5, <1>7, <2>1
<1>8. CASE <<n, f>> \notin RoundedUp
  <2>1. r = IF c < 1 THEN 1 ELSE c
    BY <1>6, <1>8
  <2> QED
    BY <1>1, <1>3, <1>4, <1>5, <1>8, <2>1
<1> QED
  BY <1>7, <1>8

LEMMA ResidualRises ==
    ASSUME NEW n \in Nat \ {0}, NEW f, NEW g, NoBetter(g, f)
    PROVE  Residual(n, f) <= Residual(n, g)
<1>1. Protects(f) /\ Protects(g)
  BY DEF NoBetter
<1>2. PICK W \in Nat \ {0}, R \in Nat, V \in Nat \ {0}, Q \in Nat :
         W = Whole(f) /\ R = Remaining(f) /\ V = Whole(g) /\ Q = Remaining(g)
  BY <1>1 DEF Protects
<1>3. PICK c : c = CeilingDiv(n * R, W)
  OBVIOUS
<1>4. PICK d : d = CeilingDiv(n * Q, V)
  OBVIOUS
<1>5. PICK r : r = Residual(n, f)
  OBVIOUS
<1>6. PICK t : t = Residual(n, g)
  OBVIOUS
<1>7. /\ c \in Nat /\ r \in Nat \ {0}
      /\ <<n, f>> \in RoundedUp => r = c + 1
      /\ <<n, f>> \notin RoundedUp /\ c # 0 => r = c
      /\ <<n, f>> \notin RoundedUp /\ c = 0 => r = 1
      /\ R = 0 => c = 0
  BY <1>1, <1>2, <1>3, <1>5, ResidualIs
<1>8. d \in Nat /\ t \in Nat \ {0} /\ d <= t
  <2>1. Protects(g)
    BY <1>1
  <2>2. d = CeilingDiv(n * Remaining(g), Whole(g))
    BY <1>2, <1>4
  <2>3. /\ d \in Nat /\ t \in Nat \ {0} /\ d <= t /\ t <= d + 1
        /\ <<n, g>> \in RoundedUp => t = d + 1
    BY <1>6, <2>1, <2>2, ResidualIs
  <2> QED
    BY <2>3
<1>9. /\ R * V <= Q * W
      /\ g = f \/ R = 0 \/ R * V < Q * W
  BY <1>2 DEF NoBetter
<1>10. c <= d /\ ((n * R) % W = 0 /\ R * V < Q * W => c + 1 <= d)
  BY <1>3, <1>4, <1>9, CeilingRises
<1>11. CASE g = f
  BY <1>5, <1>6, <1>8, <1>11
<1>12. CASE R = 0
  BY <1>5, <1>6, <1>7, <1>8, <1>12
<1>13. CASE R * V < Q * W
  <2>1. <<n, f>> \in RoundedUp => (n * R) % W = 0
    <3>1. PICK p : p = <<n, f>>
      OBVIOUS
    <3>2. p[1] = n /\ p[2] = f
      BY <3>1
    <3>3. p \in RoundedUp => (p[1] * Remaining(p[2])) % Whole(p[2]) = 0
      BY RoundedUpAssumption
    <3> QED
      BY <1>2, <3>1, <3>2, <3>3
  <2>2. <<n, f>> \in RoundedUp => c + 1 <= d
    BY <1>10, <1>13, <2>1
  <2> QED
    BY <1>5, <1>6, <1>7, <1>8, <1>10, <2>2
<1> QED
  BY <1>9, <1>11, <1>12, <1>13

(* Protection leaves no more than there was.                               *)
LEMMA ResidualBelow ==
    ASSUME NEW n \in Nat \ {0}, NEW f, Protects(f),
           f # <<>> => Remaining(f) < Whole(f)
    PROVE  Residual(n, f) \in 1 .. n
<1>1. PICK W \in Nat \ {0}, R \in Nat : W = Whole(f) /\ R = Remaining(f) /\ R <= W
  BY DEF Protects
<1>2. PICK c : c = CeilingDiv(n * R, W)
  OBVIOUS
<1>3. PICK r : r = Residual(n, f)
  OBVIOUS
<1>4. /\ c \in Nat /\ r \in Nat \ {0}
      /\ <<n, f>> \in RoundedUp => r = c + 1
      /\ <<n, f>> \notin RoundedUp /\ c # 0 => r = c
      /\ <<n, f>> \notin RoundedUp /\ c = 0 => r = 1
  BY <1>1, <1>2, <1>3, ResidualIs
<1>5. PICK one \in Nat \ {0} : one = 1
  OBVIOUS
<1>6. PICK d : d = CeilingDiv(n * one, one)
  OBVIOUS
<1>7. d = n
  <2>1. PICK m \in Int : m = n * one
    OBVIOUS
  <2>2. d \in Int /\ m <= one * d /\ one * (d - 1) < m
    BY <1>6, <2>1, CeilingIs
  <2> QED
    BY <1>5, <2>1, <2>2
<1>8. c <= n /\ ((n * R) % W = 0 /\ R < W => c + 1 <= n)
  <2>1. R * one <= one * W
    BY <1>1, <1>5
  <2>2. c <= d /\ ((n * R) % W = 0 /\ R * one < one * W => c + 1 <= d)
    BY <1>2, <1>6, <2>1, CeilingRises
  <2>3. R < W => R * one < one * W
    BY <1>5
  <2> QED
    BY <1>7, <2>2, <2>3
<1>9. <<n, f>> \in RoundedUp => c + 1 <= n
  <2>1. PICK p : p = <<n, f>>
    OBVIOUS
  <2>2. p[1] = n /\ p[2] = f
    BY <2>1
  <2>3. p \in RoundedUp =>
           p[2] # <<>> /\ (p[1] * Remaining(p[2])) % Whole(p[2]) = 0
    BY RoundedUpAssumption
  <2> QED
    BY <1>1, <1>8, <2>1, <2>2, <2>3
<1> QED
  BY <1>3, <1>4, <1>8, <1>9

LEMMA RankOfRisk ==
    ASSUME NEW a \in Int
    PROVE  RankOf(RiskRank(a)) = IF a >= 20 THEN 4 ELSE IF a >= 12 THEN 3
                                 ELSE IF a >= 6 THEN 2 ELSE 1
<1>1. DOMAIN RanksUp = 1 .. 4 /\ RanksUp[1] = "low" /\ RanksUp[2] = "medium"
      /\ RanksUp[3] = "high" /\ RanksUp[4] = "critical"
  BY DEF RanksUp
<1>2. \A k \in 1 .. 4 : k = 1 \/ k = 2 \/ k = 3 \/ k = 4
  OBVIOUS
<1>3. /\ RankOf("low") = 1 /\ RankOf("medium") = 2
      /\ RankOf("high") = 3 /\ RankOf("critical") = 4
  BY <1>1, <1>2 DEF RankOf
<1> QED
  BY <1>3 DEF RiskRank

LEMMA RankMonotone ==
    ASSUME NEW a \in Int, NEW b \in Int, a <= b
    PROVE  RankOf(RiskRank(a)) <= RankOf(RiskRank(b))
BY RankOfRisk

----------------------------------------------------------------------------
(***************************************************************************)
(* Less protection, in layers.                                             *)
(***************************************************************************)
LEMMA TimesMore ==
    ASSUME NEW a \in Int, NEW b \in Int, NEW n \in Nat
    PROVE  /\ a <= b => a * n <= b * n
           /\ b * n - a * n = (b - a) * n /\ (b - a) * n \in Int
           /\ a < b => n <= (b - a) * n
<1>1. b * n - a * n = (b - a) * n
  OBVIOUS
<1>2. PICK c \in Int : c = b - a
  OBVIOUS
<1>3. c >= 0 => c * n >= 0
  OBVIOUS
<1>4. c >= 1 => c * n >= n
  <2>1. SUFFICES ASSUME c >= 1 PROVE c * n >= n
    OBVIOUS
  <2>2. (c - 1) * n >= 0
    BY <2>1
  <2>3. (c - 1) * n = c * n - n
    OBVIOUS
  <2> QED
    BY <2>2, <2>3
<1>5. a * n \in Int /\ b * n \in Int /\ c * n \in Int
  OBVIOUS
<1> QED
  BY <1>1, <1>2, <1>3, <1>4, <1>5

LEMMA LayersProtect ==
    ASSUME NEW K, IsLayerSet(K)
    PROVE  Protects(Effects(K))
<1>1. PICK whole : whole = [a \in K |-> 100]
  OBVIOUS
<1>2. PICK rest : rest = [a \in K |-> 100 - a.effect]
  OBVIOUS
<1> QED
  BY <1>1, <1>2, ProductsAre DEF Protects

LEMMA LayerRemoved ==
    ASSUME NEW K, IsLayerSet(K), NEW x \in K, NEW M, M = K \ {x},
           NEW f, f = Effects(K), NEW g, g = Effects(M)
    PROVE  /\ IsLayerSet(M) /\ x.effect \in 1 .. 100
           /\ Whole(f) = 100 * Whole(g)
           /\ Remaining(f) = (100 - x.effect) * Remaining(g)
<1>1. PICK whole : whole = [a \in K |-> 100]
  OBVIOUS
<1>2. PICK rest : rest = [a \in K |-> 100 - a.effect]
  OBVIOUS
<1>3. PICK part : part = [a \in M |-> 100]
  OBVIOUS
<1>4. PICK left : left = [a \in M |-> 100 - a.effect]
  OBVIOUS
<1>5. IsLayerSet(M)
  BY FS_Subset DEF IsLayerSet, IsRowSet
<1>6. /\ IsFiniteSet(K) /\ IsFiniteSet(M)
      /\ \A a \in K : a.effect \in 1 .. 100
  BY <1>5 DEF IsLayerSet, IsRowSet
<1>7. Whole(f) = ProductOver(whole, K) /\ Remaining(f) = ProductOver(rest, K)
  BY <1>1, <1>2, ProductsAre
<1>8. Whole(g) = ProductOver(part, M) /\ Remaining(g) = ProductOver(left, M)
  BY <1>3, <1>4, <1>5, ProductsAre
<1>9. \A a \in K : whole[a] \in Int /\ rest[a] \in Int
  BY <1>1, <1>2, <1>6
<1>10. ProductOver(whole, K) = whole[x] * ProductOver(whole, M)
  BY <1>6, <1>9, ProductStep
<1>11. ProductOver(rest, K) = rest[x] * ProductOver(rest, M)
  BY <1>6, <1>9, ProductStep
<1>12. ProductOver(whole, M) = ProductOver(part, M)
  <2>1. \A a \in M : part[a] \in Int /\ whole[a] = part[a]
    BY <1>1, <1>3
  <2> QED
    BY <1>6, <2>1, ProductSame
<1>13. ProductOver(rest, M) = ProductOver(left, M)
  <2>1. \A a \in M : left[a] \in Int /\ rest[a] = left[a]
    BY <1>2, <1>4, <1>6
  <2> QED
    BY <1>6, <2>1, ProductSame
<1>14. whole[x] = 100 /\ rest[x] = 100 - x.effect
  BY <1>1, <1>2
<1> QED
  BY <1>5, <1>6, <1>7, <1>8, <1>10, <1>11, <1>12, <1>13, <1>14

LEMMA LayersLeave ==
    ASSUME NEW K, IsLayerSet(K), NEW f, f = Effects(K), f # <<>>
    PROVE  Remaining(f) < Whole(f)
<1>1. K # {}
  BY NoLayers
<1>2. PICK x \in K : TRUE
  BY <1>1
<1>3. PICK M : M = K \ {x}
  OBVIOUS
<1>4. PICK g : g = Effects(M)
  OBVIOUS
<1>5. /\ IsLayerSet(M) /\ x.effect \in 1 .. 100
      /\ Whole(f) = 100 * Whole(g) /\ Remaining(f) = (100 - x.effect) * Remaining(g)
  BY <1>2, <1>3, <1>4, LayerRemoved
<1>6. PICK V \in Nat \ {0}, Q \in Nat : V = Whole(g) /\ Q = Remaining(g) /\ Q <= V
  BY <1>4, <1>5, LayersProtect DEF Protects
<1>7. PICK e \in 1 .. 100 : e = x.effect
  BY <1>5
<1>8. (100 - e) * Q <= 99 * Q
  <2>1. PICK a \in Int : a = 100 - e /\ a <= 99
    OBVIOUS
  <2>2. a * Q <= 99 * Q
    BY <2>1, TimesMore
  <2> QED
    BY <2>1, <2>2
<1>9. 99 * Q <= 99 * V /\ 99 * V < 100 * V
  BY <1>6
<1>10. (100 - e) * Q \in Int
  BY <1>6, <1>7
<1> QED
  BY <1>5, <1>6, <1>7, <1>8, <1>9, <1>10

LEMMA LayerAway ==
    ASSUME NEW K, IsLayerSet(K), NEW x \in K, NEW M, M = K \ {x}
    PROVE  NoBetter(Effects(M), Effects(K))
<1>1. PICK f : f = Effects(K)
  OBVIOUS
<1>2. PICK g : g = Effects(M)
  OBVIOUS
<1>3. /\ IsLayerSet(M) /\ x.effect \in 1 .. 100
      /\ Whole(f) = 100 * Whole(g) /\ Remaining(f) = (100 - x.effect) * Remaining(g)
  BY <1>1, <1>2, LayerRemoved
<1>4. Protects(f) /\ Protects(g)
  BY <1>1, <1>2, <1>3, LayersProtect
<1>5. PICK V \in Nat \ {0}, Q \in Nat : V = Whole(g) /\ Q = Remaining(g)
  BY <1>4 DEF Protects
<1>6. PICK e \in 1 .. 100 : e = x.effect
  BY <1>3
<1>7. PICK m \in Nat : m = Q * V
  OBVIOUS
<1>8. Remaining(f) * Whole(g) = (100 - e) * m /\ Remaining(g) * Whole(f) = 100 * m
  <2>1. Remaining(f) * Whole(g) = ((100 - e) * Q) * V
    BY <1>3, <1>5, <1>6
  <2>2. Remaining(g) * Whole(f) = Q * (100 * V)
    BY <1>3, <1>5
  <2>3. ((100 - e) * Q) * V = (100 - e) * m
    BY <1>7
  <2>4. Q * (100 * V) = 100 * m
    BY <1>7
  <2> QED
    BY <2>1, <2>2, <2>3, <2>4
<1>9. (100 - e) * m = 100 * m - e * m /\ e * m \in Nat
  BY <1>6, <1>7
<1>10. m = 0 => Remaining(f) = 0
  <2>1. m = 0 => Q = 0
    <3>1. SUFFICES ASSUME Q # 0 PROVE m # 0
      OBVIOUS
    <3>2. 1 <= Q /\ 1 <= V
      BY <3>1
    <3>3. 1 * V <= Q * V
      BY <3>2
    <3> QED
      BY <1>7, <3>2, <3>3
  <2>2. Q = 0 => (100 - e) * Q = 0
    OBVIOUS
  <2> QED
    BY <1>3, <1>5, <1>6, <2>1, <2>2
<1>11. m # 0 => e * m # 0
  <2>1. SUFFICES ASSUME m # 0 PROVE e * m # 0
    OBVIOUS
  <2>2. 1 * m <= e * m
    BY <1>6
  <2> QED
    BY <2>1, <2>2
<1> QED
  BY <1>1, <1>2, <1>4, <1>8, <1>9, <1>10, <1>11 DEF NoBetter

(* Layers of distinct keys have their effects in the order of the keys, so *)
(* that another layer of the key and the same effect changes nothing.      *)
LEMMA SameEffects ==
    ASSUME NEW K, IsRowSet(K), NEW L, IsRowSet(L),
           \A a, b \in K : a.key = b.key => a = b, \A a, b \in L : a.key = b.key => a = b,
           NEW x \in K, NEW y \in L, K \ {x} = L \ {y},
           x.key = y.key, x.effect = y.effect
    PROVE  Effects(L) = Effects(K)
<1>1. PICK q : q = InOrder(K, ByKeyThenId)
  OBVIOUS
<1>2. PICK r : r = InOrder(L, ByKeyThenId)
  OBVIOUS
<1>3. PICK f : f = [a \in K |-> IF a = x THEN y ELSE a]
  OBVIOUS
<1>4. PICK B, C : B = KeyThenId(K) /\ C = KeyThenId(L)
  OBVIOUS
<1>5. /\ Sorts(q, B, K) /\ Effects(K) = [p \in 1 .. Cardinality(K) |-> q[p].effect]
      /\ \A p \in 1 .. Cardinality(K) : q[p] \in K
  BY <1>1, <1>4, EffectsAre
<1>6. Sorts(r, C, L) /\ Effects(L) = [p \in 1 .. Cardinality(L) |-> r[p].effect]
  BY <1>2, <1>4, EffectsAre
<1>7. \A a \in K : f[a] \in L /\ f[a].key = a.key /\ f[a].effect = a.effect
  <2> TAKE a \in K
  <2>1. CASE a = x
    BY <1>3, <2>1
  <2>2. CASE a # x
    BY <1>3, <2>2
  <2> QED
    BY <2>1, <2>2
<1>8. \A b \in L : \E a \in K : f[a] = b
  <2> TAKE b \in L
  <2>1. CASE b = y
    BY <1>3, <2>1
  <2>2. CASE b # y
    <3>1. b \in K /\ b # x
      BY <2>2
    <3> QED
      BY <1>3, <3>1
  <2> QED
    BY <2>1, <2>2
<1>9. \A a, b \in K : a.key \in Nat /\ a.id \in Nat /\ (<<a, b>> \in B <=> a.key < b.key)
  <2> TAKE a, b \in K
  <2>1. /\ a.key \in Nat /\ a.id \in Nat /\ b.key \in Nat /\ b.id \in Nat
    BY DEF IsRowSet, Row
  <2>2. <<a, b>> \in B <=> ByKeyThenId(a, b)
    BY <1>4 DEF KeyThenId
  <2>3. a.key = b.key => ~(a.id < b.id)
    BY <2>1
  <2> QED
    BY <2>1, <2>2, <2>3 DEF ByKeyThenId
<1>10. \A a, b \in L : <<a, b>> \in C <=> a.key < b.key
  <2> TAKE a, b \in L
  <2>1. /\ a.key \in Nat /\ a.id \in Nat /\ b.key \in Nat /\ b.id \in Nat
    BY DEF IsRowSet, Row
  <2>2. <<a, b>> \in C <=> ByKeyThenId(a, b)
    BY <1>4 DEF KeyThenId
  <2>3. a.key = b.key => ~(a.id < b.id)
    BY <2>1
  <2> QED
    BY <2>1, <2>2, <2>3 DEF ByKeyThenId
<1>11. Carries(f, B, K, C, L)
  <2>1. \A a, b \in K : <<a, b>> \in B <=> <<f[a], f[b]>> \in C
    BY <1>7, <1>9, <1>10
  <2> QED
    BY <1>7, <1>8, <2>1 DEF Carries
<1>12. /\ Cardinality(L) = Cardinality(K)
       /\ \A p \in 1 .. Cardinality(K) : r[p] = f[q[p]]
  BY <1>5, <1>6, <1>11, SameRanks
<1>13. \A p \in 1 .. Cardinality(K) : r[p].effect = q[p].effect
  BY <1>5, <1>7, <1>12
<1> QED
  BY <1>5, <1>6, <1>12, <1>13

LEMMA LayerSwapped ==
    ASSUME NEW K, IsLayerSet(K), NEW L, IsLayerSet(L),
           \A a, b \in K : a.key = b.key => a = b, \A a, b \in L : a.key = b.key => a = b,
           NEW x \in K, NEW y \in L, K \ {x} = L \ {y},
           x.key = y.key, y.effect <= x.effect
    PROVE  NoBetter(Effects(L), Effects(K))
<1>1. PICK f : f = Effects(K)
  OBVIOUS
<1>2. PICK g : g = Effects(L)
  OBVIOUS
<1>3. PICK M : M = K \ {x}
  OBVIOUS
<1>4. PICK h : h = Effects(M)
  OBVIOUS
<1>5. /\ IsLayerSet(M) /\ x.effect \in 1 .. 100
      /\ Whole(f) = 100 * Whole(h) /\ Remaining(f) = (100 - x.effect) * Remaining(h)
  BY <1>1, <1>3, <1>4, LayerRemoved
<1>6. /\ y.effect \in 1 .. 100
      /\ Whole(g) = 100 * Whole(h) /\ Remaining(g) = (100 - y.effect) * Remaining(h)
  <2>1. M = L \ {y}
    BY <1>3
  <2> QED
    BY <1>2, <1>4, <2>1, LayerRemoved
<1>7. Protects(f) /\ Protects(g) /\ Protects(h)
  BY <1>1, <1>2, <1>4, <1>5, LayersProtect
<1>8. PICK V \in Nat \ {0}, Q \in Nat : V = Whole(h) /\ Q = Remaining(h)
  BY <1>7 DEF Protects
<1>9. PICK d \in 1 .. 100, e \in 1 .. 100 : d = y.effect /\ e = x.effect
  BY <1>5, <1>6
<1>10. CASE d = e
  <2>1. f = g
    <3>1. IsRowSet(K) /\ IsRowSet(L)
      BY DEF IsLayerSet
    <3>2. x.effect = y.effect
      BY <1>9, <1>10
    <3>3. Effects(L) = Effects(K)
      BY <3>1, <3>2, SameEffects
    <3> QED
      BY <1>1, <1>2, <3>3
  <2>2. Remaining(f) * Whole(g) <= Remaining(g) * Whole(f)
    BY <1>7, <2>1 DEF Protects
  <2> QED
    BY <1>1, <1>2, <1>7, <2>1, <2>2 DEF NoBetter
<1>11. CASE d # e
  <2>1. d < e
    BY <1>9, <1>11
  <2>2. PICK m \in Nat : m = Q * (100 * V)
    BY <1>8
  <2>3. Remaining(f) * Whole(g) = (100 - e) * m /\ Remaining(g) * Whole(f) = (100 - d) * m
    <3>1. Remaining(f) * Whole(g) = ((100 - e) * Q) * (100 * V)
      BY <1>5, <1>6, <1>8, <1>9
    <3>2. Remaining(g) * Whole(f) = ((100 - d) * Q) * (100 * V)
      BY <1>5, <1>6, <1>8, <1>9
    <3>3. ((100 - e) * Q) * (100 * V) = (100 - e) * m
      BY <2>2
    <3>4. ((100 - d) * Q) * (100 * V) = (100 - d) * m
      BY <2>2
    <3> QED
      BY <3>1, <3>2, <3>3, <3>4
  <2>4. PICK a \in Int, b \in Int : a = 100 - e /\ b = 100 - d /\ a < b
    BY <1>9, <2>1
  <2>5. b * m - a * m = (b - a) * m /\ (b - a) * m \in Int /\ m <= (b - a) * m
    BY <2>4, TimesMore
  <2>6. m = 0 => Remaining(f) = 0
    <3>1. m = 0 => Q = 0
      <4>1. SUFFICES ASSUME Q # 0 PROVE m # 0
        OBVIOUS
      <4>2. PICK w \in Nat : w = 100 * V /\ 1 <= w
        BY <1>8
      <4>3. 1 * w <= Q * w
        BY <4>1, <4>2
      <4> QED
        BY <2>2, <4>2, <4>3
    <3>2. Q = 0 => (100 - e) * Q = 0
      BY <1>9
    <3> QED
      BY <1>5, <1>8, <1>9, <3>1, <3>2
  <2>7. (100 - e) * m \in Int /\ (100 - d) * m \in Int
    BY <1>9, <2>2
  <2> QED
    BY <1>1, <1>2, <1>7, <2>3, <2>4, <2>5, <2>6, <2>7 DEF NoBetter
<1> QED
  BY <1>10, <1>11

(* Without a row that is not retained the same are; without one that is,   *)
(* the next of its key is, if there is one.                                *)
SameButFor(L, K, r) ==
    \/ K = L
    \/ r \in K /\ L = K \ {r}
    \/ /\ r \in K
       /\ \E y \in L : y.key = r.key /\ y.effect <= r.effect /\ L \ {y} = K \ {r}

LEMMA StrongestWithout ==
    ASSUME NEW E, IsRowSet(E), NEW r \in E, NEW D, D = E \ {r}
    PROVE  SameButFor(Strongest(D), Strongest(E), r)
<1>1. IsRowSet(D)
  BY FS_Subset DEF IsRowSet
<1>2. \A a \in E : a.effect \in Int /\ a.id \in Nat
  BY DEF IsRowSet, Row
<1>3. \A a, b \in E : ~(StrongestFirst(a, b) /\ StrongestFirst(b, a))
  BY <1>2 DEF StrongestFirst
<1>4. PICK K, L : K = Strongest(E) /\ L = Strongest(D)
  OBVIOUS
<1>5. /\ \A a : a \in K <=> a \in E /\ \A b \in E : b.key = a.key => a = b \/ StrongestFirst(a, b)
      /\ \A a : a \in L <=> a \in D /\ \A b \in D : b.key = a.key => a = b \/ StrongestFirst(a, b)
  BY <1>4 DEF Strongest
<1>6. K \ {r} \subseteq L
  BY <1>5
<1>7. /\ \A a, b \in L : a.key = b.key => a = b
      /\ \A b \in E : \E a \in K : a.key = b.key /\ (a = b \/ StrongestFirst(a, b))
      /\ \A b \in D : \E a \in L : a.key = b.key /\ (a = b \/ StrongestFirst(a, b))
  BY <1>1, <1>4, StrongestOfKeys
<1>8. ASSUME NEW a \in L, a.key # r.key PROVE a \in K
  <2>1. \A b \in E : b.key = a.key => b \in D
    BY <1>8
  <2> QED
    BY <1>5, <2>1
<1>9. CASE r \notin K
  <2>1. ASSUME NEW a \in L PROVE a \in K
    <3>1. CASE a.key = r.key
      <4>1. PICK m \in K : m.key = r.key
        BY <1>7
      <4>2. m \in L
        BY <1>6, <1>9, <4>1
      <4> QED
        BY <1>7, <3>1, <4>1, <4>2
    <3> QED
      BY <1>8, <3>1
  <2>2. K = L
    BY <1>6, <1>9, <2>1
  <2> QED
    BY <1>4, <2>2 DEF SameButFor
<1>10. CASE r \in K
  <2>1. CASE \E a \in L : a.key = r.key
    <3>1. PICK y \in L : y.key = r.key
      BY <2>1
    <3>2. y \in E /\ y # r
      BY <1>5, <3>1
    <3>3. StrongestFirst(r, y)
      BY <1>5, <1>10, <3>1, <3>2
    <3>4. y.effect <= r.effect
      BY <1>2, <3>2, <3>3 DEF StrongestFirst
    <3>5. y \notin K
      BY <1>3, <1>5, <1>10, <3>1, <3>2, <3>3
    <3>6. L \ {y} = K \ {r}
      <4>1. \A a \in L \ {y} : a.key # r.key
        BY <1>7, <3>1
      <4>2. \A a \in L \ {y} : a \in K /\ a # r
        BY <1>8, <4>1
      <4> QED
        BY <1>6, <3>5, <4>2
    <3> QED
      BY <1>4, <1>10, <3>1, <3>4, <3>6 DEF SameButFor
  <2>2. CASE ~\E a \in L : a.key = r.key
    <3>1. L = K \ {r}
      BY <1>5, <1>6, <1>8, <2>2
    <3> QED
      BY <1>4, <1>10, <3>1 DEF SameButFor
  <2> QED
    BY <2>1, <2>2
<1> QED
  BY <1>9, <1>10

LEMMA RowAway ==
    ASSUME NEW E, IsRowSet(E), \A a \in E : a.effect \in 1 .. 100,
           NEW r, NEW D, D = E \ {r}
    PROVE  NoBetter(Effects(Strongest(D)), Effects(Strongest(E)))
<1>1. PICK K : K = Strongest(E)
  OBVIOUS
<1>2. PICK L : L = Strongest(D)
  OBVIOUS
<1>3. IsRowSet(D)
  BY FS_Subset DEF IsRowSet
<1>4. K \subseteq E /\ L \subseteq D
  BY <1>1, <1>2 DEF Strongest
<1>5. IsLayerSet(K) /\ IsLayerSet(L)
  BY <1>3, <1>4, FS_Subset DEF IsLayerSet, IsRowSet
<1>6. /\ \A a, b \in K : a.key = b.key => a = b
      /\ \A a, b \in L : a.key = b.key => a = b
  BY <1>1, <1>2, <1>3, StrongestOfKeys
<1>7. CASE K = L
  <2>1. Protects(Effects(K))
    BY <1>5, LayersProtect
  <2>2. Remaining(Effects(K)) * Whole(Effects(K)) \in Int
    BY <2>1 DEF Protects
  <2> QED
    BY <1>1, <1>2, <1>7, <2>1, <2>2 DEF NoBetter
<1>8. CASE r \notin E
  <2>1. D = E
    BY <1>8
  <2> QED
    BY <1>1, <1>2, <1>7, <2>1
<1>9. CASE r \in E
  <2>1. CASE r \in K /\ L = K \ {r}
    BY <1>1, <1>2, <1>5, <2>1, LayerAway
  <2>2. CASE /\ r \in K
             /\ \E y \in L : y.key = r.key /\ y.effect <= r.effect /\ L \ {y} = K \ {r}
    <3>1. PICK y \in L : y.key = r.key /\ y.effect <= r.effect /\ L \ {y} = K \ {r}
      BY <2>2
    <3>2. r \in K
      BY <2>2
    <3> QED
      BY <1>1, <1>2, <1>5, <1>6, <3>1, <3>2, LayerSwapped
  <2>3. \/ K = L
        \/ r \in K /\ L = K \ {r}
        \/ /\ r \in K
           /\ \E y \in L : y.key = r.key /\ y.effect <= r.effect /\ L \ {y} = K \ {r}
    <3>1. SameButFor(Strongest(D), Strongest(E), r)
      BY <1>9, StrongestWithout
    <3> QED
      BY <1>1, <1>2, <3>1 DEF SameButFor
  <2> QED
    BY <1>7, <2>1, <2>2, <2>3
<1> QED
  BY <1>8, <1>9

LEMMA RowsWithout ==
    ASSUME NEW i, IsInput(i), NEW k \in DOMAIN i.rows, NEW j, j = Without(i, k)
    PROVE  /\ IsInput(j) /\ j.scenario = i.scenario /\ j.reference = i.reference
           /\ Rows(NewSnapshot(j)) = Rows(NewSnapshot(i)) \ {Frozen(i.rows[k])}
<1>1. PICK rows : rows = i.rows
  OBVIOUS
<1>2. PICK less : less = RemoveAt(rows, k)
  OBVIOUS
<1>3. PICK n \in Nat : n = Len(rows)
  BY <1>1 DEF IsInput
<1>4. /\ rows \in Seq(Row) /\ DOMAIN rows = 1 .. n /\ k \in 1 .. n
      /\ \A a, b \in 1 .. n : rows[a].id = rows[b].id => a = b
      /\ \A a \in 1 .. n : rows[a].interval % Second = 0 /\ rows[a].effect <= 100
  BY <1>1, <1>3 DEF IsInput
<1>5. PICK before : before = SubSeq(rows, 1, k - 1)
  OBVIOUS
<1>6. PICK after : after = SubSeq(rows, k + 1, Len(rows))
  OBVIOUS
<1>7. /\ before \in Seq(Row) /\ Len(before) = k - 1
      /\ \A a \in 1 .. k - 1 : before[a] = rows[a]
  <2>1. 1 \in Int /\ k - 1 \in Int /\ 1 <= k /\ k <= n
    BY <1>4
  <2> QED
    BY <1>3, <1>4, <1>5, <2>1
<1>8. /\ after \in Seq(Row) /\ Len(after) = n - k
      /\ \A a \in 1 .. n - k : after[a] = rows[k + a]
  BY <1>3, <1>4, <1>6
<1>9. /\ less \in Seq(Row) /\ Len(less) = n - 1 /\ DOMAIN less = 1 .. n - 1
      /\ \A a \in 1 .. n - 1 : less[a] = IF a < k THEN rows[a] ELSE rows[a + 1]
  <2>1. less = before \o after
    BY <1>2, <1>5, <1>6 DEF RemoveAt
  <2>2. less \in Seq(Row) /\ Len(less) = n - 1
    BY <1>3, <1>4, <1>7, <1>8, <2>1
  <2>3. ASSUME NEW a \in 1 .. n - 1
        PROVE  less[a] = IF a < k THEN rows[a] ELSE rows[a + 1]
    <3>1. CASE a < k
      BY <1>3, <1>4, <1>7, <1>8, <2>1, <3>1
    <3>2. CASE ~(a < k)
      <4>1. less[a] = after[a - (k - 1)]
        BY <1>3, <1>4, <1>7, <1>8, <2>1, <3>2
      <4>2. a - (k - 1) \in 1 .. n - k /\ k + (a - (k - 1)) = a + 1
        BY <1>3, <1>4, <3>2
      <4>3. after[a - (k - 1)] = rows[k + (a - (k - 1))]
        BY <1>8, <4>2
      <4> QED
        BY <3>2, <4>1, <4>2, <4>3
    <3> QED
      BY <3>1, <3>2
  <2> QED
    BY <2>2, <2>3
<1>10. /\ j.rows = less /\ j.scenario = i.scenario /\ j.reference = i.reference
       /\ j \in [rows : Seq(Row), scenario : Scenario, reference : Int]
  BY <1>1, <1>2, <1>9 DEF Without, IsInput
<1>11. PICK at : at = [a \in 1 .. n - 1 |-> IF a < k THEN a ELSE a + 1]
  OBVIOUS
<1>12. /\ \A a \in 1 .. n - 1 : at[a] \in (1 .. n) \ {k} /\ less[a] = rows[at[a]]
       /\ \A a, b \in 1 .. n - 1 : at[a] = at[b] => a = b
  <2>1. \A a \in 1 .. n - 1 : at[a] \in (1 .. n) \ {k} /\ less[a] = rows[at[a]]
    <3> TAKE a \in 1 .. n - 1
    <3>1. CASE a < k
      BY <1>3, <1>4, <1>9, <1>11, <3>1
    <3>2. CASE ~(a < k)
      BY <1>3, <1>4, <1>9, <1>11, <3>2
    <3> QED
      BY <3>1, <3>2
  <2>2. \A a, b \in 1 .. n - 1 : at[a] = at[b] => a = b
    BY <1>3, <1>4, <1>11
  <2> QED
    BY <2>1, <2>2
<1>13. \A b \in (1 .. n) \ {k} : \E a \in 1 .. n - 1 : at[a] = b
  <2> TAKE b \in (1 .. n) \ {k}
  <2>1. CASE b < k
    <3>1. b \in 1 .. n - 1 /\ at[b] = b
      BY <1>3, <1>4, <1>11, <2>1
    <3> QED
      BY <3>1
  <2>2. CASE ~(b < k)
    <3>1. b - 1 \in 1 .. n - 1 /\ at[b - 1] = b
      BY <1>3, <1>4, <1>11, <2>2
    <3> QED
      BY <3>1
  <2> QED
    BY <2>1, <2>2
<1>14. IsInput(j)
  <2>1. \A a, b \in 1 .. n - 1 : less[a].id = less[b].id => a = b
    BY <1>4, <1>12
  <2>2. \A a \in 1 .. n - 1 : less[a].interval % Second = 0 /\ less[a].effect <= 100
    BY <1>4, <1>12
  <2> QED
    BY <1>9, <1>10, <2>1, <2>2 DEF IsInput
<1>15. PICK R, S : R = Rows(NewSnapshot(i)) /\ S = Rows(NewSnapshot(j))
  OBVIOUS
<1>16. R = {Frozen(rows[a]) : a \in 1 .. n} /\ S = {Frozen(less[a]) : a \in 1 .. n - 1}
  <2>1. R = {Frozen(i.rows[a]) : a \in DOMAIN i.rows}
    BY <1>15, SnapshotRows
  <2>2. S = {Frozen(j.rows[a]) : a \in DOMAIN j.rows}
    BY <1>14, <1>15, SnapshotRows
  <2> QED
    BY <1>1, <1>4, <1>9, <1>10, <2>1, <2>2
<1>17. \A a \in 1 .. n : Frozen(rows[a]).id = rows[a].id
  BY <1>4, FrozenRow
<1>18. \A a, b \in 1 .. n : Frozen(rows[a]) = Frozen(rows[b]) => a = b
  BY <1>4, <1>17
<1>19. S = R \ {Frozen(rows[k])}
  <2>1. ASSUME NEW x \in S PROVE x \in R /\ x # Frozen(rows[k])
    <3>1. PICK a \in 1 .. n - 1 : x = Frozen(less[a])
      BY <1>16
    <3>2. at[a] \in 1 .. n /\ at[a] # k /\ x = Frozen(rows[at[a]])
      BY <1>12, <3>1
    <3> QED
      BY <1>4, <1>16, <1>18, <3>2
  <2>2. ASSUME NEW x \in R, x # Frozen(rows[k]) PROVE x \in S
    <3>1. PICK b \in 1 .. n : x = Frozen(rows[b])
      BY <1>16
    <3>2. b \in (1 .. n) \ {k}
      BY <2>2, <3>1
    <3>3. PICK a \in 1 .. n - 1 : at[a] = b
      BY <1>13, <3>2
    <3>4. x = Frozen(less[a])
      BY <1>12, <3>1, <3>3
    <3> QED
      BY <1>16, <3>4
  <2> QED
    BY <2>1, <2>2
<1> QED
  BY <1>1, <1>10, <1>14, <1>15, <1>19

LEMMA LessIsNoBetter ==
    ASSUME NEW i, IsInput(i), NEW e, e = Evaluation(i)
    PROVE  /\ RankOf(e.riskAfter) <= RankOf(e.riskBefore)
           /\ \A k \in DOMAIN i.rows :
                 LET less == Evaluation(Without(i, k)) IN
                 less.score <= e.score /\ less.residual >= e.residual
<1>1. PICK s : s = NewSnapshot(i)
  OBVIOUS
<1>2. PICK v : v = ResolveIndependence(s)
  OBVIOUS
<1>3. PICK f : f = Effects(v.retained)
  OBVIOUS
<1>4. PICK E : E = Eligible(s)
  OBVIOUS
<1>5. PICK n : n = Initial(s)
  OBVIOUS
<1>6. /\ e.score = CoverageScore(f) /\ e.residual = Residual(n, f)
      /\ e.riskBefore = RiskRank(n) /\ e.riskAfter = RiskRank(Residual(n, f))
  <2>1. /\ e.score = CoverageScore(f) /\ e.residual = Residual(Initial(s), f)
        /\ e.riskBefore = RiskRank(Initial(s)) /\ e.riskAfter = RiskRank(e.residual)
    BY <1>1, <1>2, <1>3, EvaluationIs
  <2> QED
    BY <1>5, <2>1
<1>7. /\ IsRowSet(Rows(s)) /\ IsRowSet(E) /\ \A a \in E : a.effect \in 1 .. 100
      /\ v.retained = Strongest(E) /\ IsLayerSet(v.retained)
  BY <1>1, <1>2, <1>4, RetainedAre
<1>8. s.scenario = i.scenario /\ s.reference = Truncate(i.reference)
  BY <1>1, SnapshotIs
<1>9. n \in Nat \ {0}
  <2>1. PICK l \in 1 .. 5, m \in 1 .. 5 : l = i.scenario.likelihood /\ m = i.scenario.severity
    BY DEF IsInput, Scenario
  <2>2. l * m \in Nat /\ 1 * m <= l * m
    OBVIOUS
  <2>3. n = l * m
    BY <1>5, <1>8, <2>1 DEF Initial
  <2> QED
    BY <2>2, <2>3
<1>10. RankOf(e.riskAfter) <= RankOf(e.riskBefore)
  <2>1. PICK K : K = v.retained
    OBVIOUS
  <2>2. Protects(f)
    BY <1>3, <1>7, LayersProtect
  <2>3. f # <<>> => Remaining(f) < Whole(f)
    BY <1>3, <1>7, <2>1, LayersLeave
  <2>4. Residual(n, f) \in 1 .. n
    BY <1>9, <2>2, <2>3, ResidualBelow
  <2>5. PICK r \in Int : r = Residual(n, f) /\ r <= n
    BY <1>9, <2>4
  <2>6. RankOf(RiskRank(r)) <= RankOf(RiskRank(n))
    BY <1>9, <2>5, RankMonotone
  <2> QED
    BY <1>6, <2>5, <2>6
<1>11. ASSUME NEW k \in DOMAIN i.rows, NEW less, less = Evaluation(Without(i, k))
       PROVE  less.score <= e.score /\ less.residual >= e.residual
  <2>1. PICK j : j = Without(i, k)
    OBVIOUS
  <2>2. PICK t : t = NewSnapshot(j)
    OBVIOUS
  <2>3. PICK u : u = ResolveIndependence(t)
    OBVIOUS
  <2>4. PICK g : g = Effects(u.retained)
    OBVIOUS
  <2>5. PICK D : D = Eligible(t)
    OBVIOUS
  <2>6. PICK r : r = Frozen(i.rows[k])
    OBVIOUS
  <2>7. /\ IsInput(j) /\ j.scenario = i.scenario /\ j.reference = i.reference
        /\ Rows(t) = Rows(s) \ {r}
    BY <1>1, <2>1, <2>2, <2>6, RowsWithout
  <2>8. t.scenario = i.scenario /\ t.reference = s.reference
    <3>1. t.scenario = j.scenario /\ t.reference = Truncate(j.reference)
      BY <2>2, <2>7, SnapshotIs
    <3> QED
      BY <1>8, <2>7, <3>1
  <2>9. less.score = CoverageScore(g) /\ less.residual = Residual(n, g)
    <3>1. less.score = CoverageScore(g) /\ less.residual = Residual(Initial(t), g)
      BY <1>11, <2>1, <2>2, <2>3, <2>4, EvaluationIs
    <3>2. Initial(t) = Initial(s)
      BY <1>8, <2>8 DEF Initial
    <3> QED
      BY <1>5, <3>1, <3>2
  <2>10. u.retained = Strongest(D) /\ IsLayerSet(u.retained)
    BY <2>2, <2>3, <2>5, <2>7, RetainedAre
  <2>11. D = E \ {r}
    BY <1>4, <2>5, <2>7, <2>8 DEF Eligible
  <2>12. NoBetter(g, f)
    <3>1. NoBetter(Effects(Strongest(D)), Effects(Strongest(E)))
      BY <1>7, <2>11, RowAway
    <3> QED
      BY <1>3, <1>7, <2>4, <2>10, <3>1
  <2>13. Residual(n, f) <= Residual(n, g)
    BY <1>9, <2>12, ResidualRises
  <2>14. CoverageScore(g) <= CoverageScore(f)
    <3>1. PICK W, R : W = Whole(f) /\ R = Remaining(f)
      OBVIOUS
    <3>2. PICK V, Q : V = Whole(g) /\ Q = Remaining(g)
      OBVIOUS
    <3>3. PICK K, L : K = v.retained /\ L = u.retained
      OBVIOUS
    <3>4. /\ W \in Nat \ {0} /\ R \in Nat
          /\ CoverageScore(f) = (2 * ((W - R) * ScoreParts) + W) \div (2 * W)
      BY <1>3, <1>7, <3>1, <3>3, ScoreIs
    <3>5. /\ V \in Nat \ {0} /\ Q \in Nat
          /\ CoverageScore(g) = (2 * ((V - Q) * ScoreParts) + V) \div (2 * V)
      BY <2>4, <2>10, <3>2, <3>3, ScoreIs
    <3>6. R * V <= Q * W
      BY <2>12, <3>1, <3>2 DEF NoBetter
    <3>7. PICK p \in Nat \ {0} : p = ScoreParts
      BY UnitsAssumption
    <3>8. (2 * ((V - Q) * p) + V) \div (2 * V) <= (2 * ((W - R) * p) + W) \div (2 * W)
      BY <3>4, <3>5, <3>6, ScoreFalls
    <3> QED
      BY <3>4, <3>5, <3>7, <3>8
  <2>15. Residual(n, f) \in Int /\ Residual(n, g) \in Int
    <3>1. Protects(f) /\ Protects(g)
      BY <2>12 DEF NoBetter
    <3>2. \A h : Protects(h) => Residual(n, h) \in Int
      <4> SUFFICES ASSUME NEW h, Protects(h) PROVE Residual(n, h) \in Int
        OBVIOUS
      <4>1. PICK c : c = CeilingDiv(n * Remaining(h), Whole(h))
        OBVIOUS
      <4>2. PICK a : a = Residual(n, h)
        OBVIOUS
      <4>3. /\ c \in Nat /\ a \in Nat \ {0} /\ c <= a /\ a <= c + 1
            /\ <<n, h>> \in RoundedUp => a = c + 1
        BY <1>9, <4>1, <4>2, ResidualIs
      <4> QED
        BY <4>2, <4>3
    <3> QED
      BY <3>1, <3>2
  <2> QED
    BY <1>6, <2>9, <2>13, <2>14, <2>15
<1>12. ASSUME NEW k \in DOMAIN i.rows
       PROVE  /\ Evaluation(Without(i, k)).score <= e.score
              /\ Evaluation(Without(i, k)).residual >= e.residual
  <2>1. PICK less : less = Evaluation(Without(i, k))
    OBVIOUS
  <2> QED
    BY <1>11, <2>1
<1> QED
  BY <1>10, <1>12

----------------------------------------------------------------------------
(***************************************************************************)
(* The specification: a result is the evaluation of the input.             *)
(***************************************************************************)
Evaluated ==
    /\ input \in Inputs
    /\ Done => result = Evaluation(input)

(* Run evaluates what it loaded and nothing else.                          *)
LEMMA AlwaysEvaluated == Spec => []Evaluated
<1>1. Init => Evaluated
  BY DEF Init, Evaluated, Done
<1>2. Evaluated /\ [Next]_vars => Evaluated'
  BY DEF Evaluated, Done, Next, Evaluate, vars
<1> QED
  BY <1>1, <1>2, PTL DEF Spec

(* Whatever the order in which the database returns the rows, the snapshot *)
(* that is hashed and stored is the same.                                  *)
THEOREM RowOrderIgnored == Spec => []SnapshotIgnoresRowOrder
<1>1. Evaluated => SnapshotIgnoresRowOrder
  <2>1. SUFFICES ASSUME Evaluated, Done, NEW rows \in SetToSeqs(Range(input.rows))
                 PROVE  NewSnapshot([input EXCEPT !.rows = rows]) = result.snapshot
    BY DEF SnapshotIgnoresRowOrder
  <2>2. PICK i : i = input
    OBVIOUS
  <2>3. IsInput(i) /\ result = Evaluation(i)
    BY <2>1, <2>2, InputsAreInputs DEF Evaluated
  <2>4. NewSnapshot([i EXCEPT !.rows = rows]) = NewSnapshot(i)
    BY <2>2, <2>3, OrderIgnored
  <2>5. result.snapshot = NewSnapshot(i)
    BY <2>3 DEF Evaluation
  <2> QED
    BY <2>2, <2>4, <2>5
<1> QED
  BY <1>1, AlwaysEvaluated, PTL

(* Of the layers of an independence key the strongest takes part, and each *)
(* of the others is listed once, as deduplicated or as rejected.           *)
THEOREM OnePerKey == Spec => []OneContributionPerKey
<1>1. Evaluated => OneContributionPerKey
  <2>1. SUFFICES ASSUME Evaluated, Done PROVE OneContributionPerKey
    BY DEF OneContributionPerKey
  <2>2. PICK i : i = input
    OBVIOUS
  <2>3. IsInput(i) /\ result = Evaluation(i)
    BY <2>1, <2>2, InputsAreInputs DEF Evaluated
  <2>4. PICK s : s = NewSnapshot(i)
    OBVIOUS
  <2>5. PICK v : v = ResolveIndependence(s)
    OBVIOUS
  <2>6. result.snapshot = s /\ result.independence = v
    BY <2>3, <2>4, <2>5 DEF Evaluation
  <2>7. /\ Ids(v.retained) \cup Ids(v.ignored) \cup Ids(v.rejected) = Ids(Rows(s))
        /\ Cardinality(v.retained) + Cardinality(v.ignored) + Cardinality(v.rejected)
              = Len(i.rows)
        /\ \A a, b \in v.retained : a.key = b.key => a = b
        /\ \A b \in v.ignored : \E a \in v.retained :
              /\ a.key = b.key
              /\ a.effect > b.effect \/ (a.effect = b.effect /\ a.id < b.id)
    BY <2>3, <2>4, <2>5, OneOfEachKey
  <2> QED
    BY <2>2, <2>6, <2>7 DEF OneContributionPerKey
<1> QED
  BY <1>1, AlwaysEvaluated, PTL

(* What the ledger shows as effective is what takes part, but for the last *)
(* second.                                                                 *)
THEOREM EffectiveRowsTakePart == Spec => []EffectiveTakesPart
<1>1. Evaluated => EffectiveTakesPart
  <2>1. SUFFICES ASSUME Evaluated, Done, NEW k \in DOMAIN input.rows, NEW row,
                        row = input.rows[k]
                 PROVE  /\ row.key # 0 /\ IsEffectiveAt(row, input.reference)
                              => row.id \notin Ids(result.independence.rejected)
                        /\ row.id \notin Ids(result.independence.rejected)
                              => IsEffectiveAt(row, input.reference - (Second - 1))
    BY DEF EffectiveTakesPart
  <2>2. PICK i : i = input
    OBVIOUS
  <2>3. IsInput(i) /\ result = Evaluation(i)
    BY <2>1, <2>2, InputsAreInputs DEF Evaluated
  <2>4. PICK s : s = NewSnapshot(i)
    OBVIOUS
  <2>5. PICK v : v = ResolveIndependence(s)
    OBVIOUS
  <2>6. result.independence = v
    BY <2>3, <2>4, <2>5 DEF Evaluation
  <2>7. k \in DOMAIN i.rows /\ row = i.rows[k]
    BY <2>1, <2>2
  <2>8. /\ row.key # 0 /\ IsEffectiveAt(row, i.reference) => row.id \notin Ids(v.rejected)
        /\ row.id \notin Ids(v.rejected) => IsEffectiveAt(row, i.reference - (Second - 1))
    BY <2>3, <2>4, <2>5, <2>7, EffectiveIsKept
  <2> QED
    BY <2>2, <2>6, <2>8
<1> QED
  BY <1>1, AlwaysEvaluated, PTL

(* The score is the nearest part to the probability that at least one of   *)
(* the retained layers works, and one half decides on the paths.           *)
THEOREM ScoreAsProbability == Spec => []ScoreIsProbability
<1>1. Evaluated => ScoreIsProbability
  <2>1. SUFFICES ASSUME Evaluated, Done PROVE ScoreIsProbability
    BY DEF ScoreIsProbability
  <2>2. IsInput(input) /\ result = Evaluation(input)
    BY <2>1, InputsAreInputs DEF Evaluated
  <2>3. PICK f : f = Effects(result.independence.retained)
    OBVIOUS
  <2>4. /\ 2 * Distance(result.score * Whole(f), AnyWorks(f) * ScoreParts) <= Whole(f)
        /\ result.uncovered = <<>> <=> 2 * AnyWorks(f) >= Whole(f)
    BY <2>2, <2>3, ScoreIsNearest
  <2> QED
    BY <2>3, <2>4 DEF ScoreIsProbability
<1> QED
  BY <1>1, AlwaysEvaluated, PTL

(* Taking a safeguard away raises no score and lowers no residual risk,    *)
(* and no rank after is above the rank before.                             *)
THEOREM LessIsNeverBetter == Spec => []LessProtectionIsNoBetter
<1>1. Evaluated => LessProtectionIsNoBetter
  <2>1. SUFFICES ASSUME Evaluated, Done PROVE LessProtectionIsNoBetter
    BY DEF LessProtectionIsNoBetter
  <2>2. IsInput(input) /\ result = Evaluation(input)
    BY <2>1, InputsAreInputs DEF Evaluated
  <2>3. /\ RankOf(result.riskAfter) <= RankOf(result.riskBefore)
        /\ \A k \in DOMAIN input.rows :
              LET less == Evaluation(Without(input, k)) IN
              less.score <= result.score /\ less.residual >= result.residual
    BY <2>2, LessIsNoBetter
  <2> QED
    BY <2>3 DEF LessProtectionIsNoBetter
<1> QED
  BY <1>1, AlwaysEvaluated, PTL

(* The paths are the pairs that the graph connects, each once, of the      *)
(* distinct statements of either side, and all are uncovered where no      *)
(* layer takes part.                                                       *)
THEOREM PathsOfTheGraph == Spec => []PathsAreTheGraphs
<1>1. Evaluated => PathsAreTheGraphs
  <2>1. SUFFICES ASSUME Evaluated, Done PROVE PathsAreTheGraphs
    BY DEF PathsAreTheGraphs
  <2>2. PICK i : i = input
    OBVIOUS
  <2>3. IsInput(i) /\ result = Evaluation(i)
    BY <2>1, <2>2, InputsAreInputs DEF Evaluated
  <2>4. PICK G : G = BuildGraph(result.snapshot)
    OBVIOUS
  <2>5. /\ Range(result.paths) =
              {p \in [cause : 1 .. Len(i.scenario.cause) + 1,
                      consequence : 1 .. Len(i.scenario.consequence) + 1] :
                  /\ <<"cause", p.cause>> \in G.node
                  /\ <<"consequence", p.consequence>> \in G.node
                  /\ Connects(G, <<"cause", p.cause>>, <<"consequence", p.consequence>>)}
        /\ IsInjective(result.paths)
        /\ result.independence.retained = {} => result.uncovered = result.paths
    BY <2>3, <2>4, PathsConnect
  <2>6. ASSUME NEW side \in {i.scenario.cause, i.scenario.consequence},
               NEW split, split = SplitStatements(side),
               NEW texts, texts = {part.text : part \in Range(side)} \ {None}
        PROVE  IF texts = {} THEN split = <<Unspecified>>
               ELSE /\ {part.text : part \in Range(split)} = texts
                    /\ Len(split) = Cardinality(texts)
    <3>1. side \in Seq(Part)
      BY <2>3 DEF IsInput, Scenario
    <3> QED
      BY <2>6, <3>1, StatementsAre
  <2> QED
    BY <2>2, <2>4, <2>5, <2>6 DEF PathsAreTheGraphs
<1> QED
  BY <1>1, AlwaysEvaluated, PTL
=============================================================================
