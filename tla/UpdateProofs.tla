---------------------------- MODULE UpdateProofs ----------------------------
(***************************************************************************)
(* Proofs about the update.  VersionOrder, for every set of identifiers:   *)
(* compareVersions agrees with the reference wherever strconv.Atoi reads   *)
(* identifiers as semantic versioning does, and both orders are strict.    *)
(* AgentUpdate, for every set of updaters and releases and every number of *)
(* health checks.                                                          *)
(***************************************************************************)
EXTENDS AgentUpdate, WellFoundedInduction, TLAPS

LEMMA LeastExists ==
    ASSUME NEW S \in SUBSET Nat, S # {}
    PROVE  \E i \in S : \A j \in S : i <= j
<1> DEFINE R == OpToRel(<, Nat)
<1>1. IsWellFoundedOn(R, Nat)
  BY NatLessThanWellFounded
<1>2. PICK i \in S : \A j \in S : ~(<<j, i>> \in R)
  BY <1>1, WFMin
<1>3. \A m, n \in Nat : m < n => <<m, n>> \in R
  BY DEF OpToRel
<1> HIDE DEF R
<1>4. \A j \in S : ~(j < i)
  BY <1>2, <1>3
<1> QED
  BY <1>4

(* The loops of compareVersions stop at the first difference. *)
LEMMA FirstIsLeast ==
    ASSUME NEW S \in SUBSET Nat, S # {}
    PROVE  First(S) \in S /\ \A j \in S : First(S) <= j
BY LeastExists DEF First

LEMMA FirstDifference ==
    ASSUME NEW s, NEW t, DOMAIN s \cap DOMAIN t \subseteq Nat, Differences(s, t) # {}
    PROVE  /\ First(Differences(s, t)) \in DOMAIN s \cap DOMAIN t
           /\ s[First(Differences(s, t))] # t[First(Differences(s, t))]
           /\ \A j \in DOMAIN s \cap DOMAIN t :
                 First(Differences(s, t)) <= j \/ s[j] = t[j]
<1>1. Differences(s, t) \in SUBSET Nat
  BY DEF Differences
<1>2. /\ First(Differences(s, t)) \in Differences(s, t)
      /\ \A j \in Differences(s, t) : First(Differences(s, t)) <= j
  BY <1>1, FirstIsLeast
<1> QED
  BY <1>2 DEF Differences

-----------------------------------------------------------------------------

LEMMA SignIs ==
    ASSUME NEW m \in Int, NEW n \in Int
    PROVE  /\ Sign(m, n) = -1 <=> m < n
           /\ Sign(m, n) = 0 <=> m = n
BY DEF Sign

Core == [1 .. 3 -> Int]

LEMMA CoreAgrees ==
    ASSUME NEW s \in Core, NEW t \in Core
    PROVE  /\ compareCores(s, t) = 0 <=> s = t
           /\ compareCores(s, t) = -1 <=> CorePrecedes(s, t)
<1> DEFINE i == First(Differences(s, t))
<1>1. CASE Differences(s, t) = {}
  <2>1. s = t
    BY <1>1 DEF Differences, Core
  <2>2. ~CorePrecedes(s, t)
    BY <2>1 DEF CorePrecedes, Core
  <2> QED
    BY <1>1, <2>1, <2>2 DEF compareCores
<1>2. CASE Differences(s, t) # {}
  <2>1. i \in 1 .. 3 /\ s[i] # t[i] /\ \A j \in 1 .. 3 : i <= j \/ s[j] = t[j]
    BY <1>2, FirstDifference DEF Core
  <2>2. compareCores(s, t) = Sign(s[i], t[i])
    BY <1>2 DEF compareCores
  <2> HIDE DEF i
  <2>3. s[i] \in Int /\ t[i] \in Int /\ s # t
    BY <2>1 DEF Core
  <2>4. compareCores(s, t) # 0 /\ (compareCores(s, t) = -1 <=> s[i] < t[i])
    BY <2>1, <2>2, <2>3, SignIs
  <2>5. ASSUME s[i] < t[i] PROVE CorePrecedes(s, t)
    <3>1. \A j \in 1 .. i - 1 : s[j] = t[j]
      BY <2>1
    <3> QED
      BY <2>1, <2>5, <3>1 DEF CorePrecedes
  <2>6. ASSUME CorePrecedes(s, t) PROVE s[i] < t[i]
    <3>1. PICK k \in 1 .. 3 : s[k] < t[k] /\ \A j \in 1 .. k - 1 : s[j] = t[j]
      BY <2>6 DEF CorePrecedes
    <3>2. ~(i < k)
      BY <2>1, <3>1
    <3>3. s[k] # t[k]
      BY <3>1 DEF Core
    <3>4. k = i
      BY <2>1, <3>2, <3>3
    <3> QED
      BY <3>1, <3>4
  <2> QED
    BY <2>3, <2>4, <2>5, <2>6
<1> QED
  BY <1>1, <1>2

(* The order compareVersions gives to identifiers: that of the reference   *)
(* with what strconv.Atoi accepts and returns in place of the digits.      *)
AtoiOrder ==
    {pair \in Identifiers \X Identifiers :
        LET x == pair[1]
            y == pair[2]
        IN  \/ x \in Numeric /\ y \in Numeric /\ Number[x] < Number[y]
            \/ x \in Numeric /\ y \notin Numeric
            \/ x \notin Numeric /\ y \notin Numeric /\ Rank[x] < Rank[y]}

Irreflexive(R) == \A x \in Identifiers : <<x, x>> \notin R

Transitive(R) ==
    \A x, y, z \in Identifiers : <<x, y>> \in R /\ <<y, z>> \in R => <<x, z>> \in R

LEMMA AtoiOrderIs ==
    ASSUME NEW x \in Identifiers, NEW y \in Identifiers
    PROVE  <<x, y>> \in AtoiOrder <=>
              \/ x \in Numeric /\ y \in Numeric /\ Number[x] < Number[y]
              \/ x \in Numeric /\ y \notin Numeric
              \/ x \notin Numeric /\ y \notin Numeric /\ Rank[x] < Rank[y]
BY DEF AtoiOrder

LEMMA IdentifierOrderIs ==
    ASSUME NEW x \in Identifiers, NEW y \in Identifiers
    PROVE  <<x, y>> \in IdentifierOrder <=>
              \/ x \in Digits /\ y \in Digits /\ Value[x] < Value[y]
              \/ x \in Digits /\ y \notin Digits
              \/ x \notin Digits /\ y \notin Digits /\ Rank[x] < Rank[y]
BY DEF IdentifierOrder

LEMMA OrdersAreStrict ==
    /\ Irreflexive(AtoiOrder) /\ Transitive(AtoiOrder)
    /\ Irreflexive(IdentifierOrder) /\ Transitive(IdentifierOrder)
<1>1. Irreflexive(AtoiOrder) /\ Transitive(AtoiOrder)
  BY AtoiOrderIs, OrderAssumption DEF Irreflexive, Transitive
<1>2. Irreflexive(IdentifierOrder) /\ Transitive(IdentifierOrder)
  BY IdentifierOrderIs, OrderAssumption DEF Irreflexive, Transitive
<1> QED
  BY <1>1, <1>2

(* Where strconv.Atoi misreads neither, the orders are the same. *)
LEMMA OrdersCoincide ==
    ASSUME NEW x \in Identifiers, NEW y \in Identifiers, ~Misread(x), ~Misread(y)
    PROVE  <<x, y>> \in AtoiOrder <=> <<x, y>> \in IdentifierOrder
<1>1. (x \in Digits <=> x \in Numeric) /\ (y \in Digits <=> y \in Numeric)
  BY Zenon DEF Misread
<1> QED
  BY <1>1, AtoiOrderIs, IdentifierOrderIs, OrderAssumption

LEMMA IdentifierAgrees ==
    ASSUME NEW x \in Identifiers, NEW y \in Identifiers
    PROVE  /\ x # y => (compareIdentifiers(x, y) = -1 <=> <<x, y>> \in AtoiOrder)
           /\ compareIdentifiers(x, y) # 0
BY AtoiOrderIs, OrderAssumption DEF compareIdentifiers, compareTexts

LEMMA PrereleaseAgrees ==
    ASSUME NEW s \in Seq(Identifiers), NEW t \in Seq(Identifiers)
    PROVE  comparePrereleases(s, t) = -1 <=> PrereleasePrecedes(s, t, AtoiOrder)
<1> DEFINE i == First(Differences(s, t))
<1>0. /\ DOMAIN s = 1 .. Len(s) /\ DOMAIN t = 1 .. Len(t)
      /\ Len(s) \in Nat /\ Len(t) \in Nat
      /\ (s = <<>> <=> Len(s) = 0) /\ (t = <<>> <=> Len(t) = 0)
  OBVIOUS
<1>1. CASE s = <<>> \/ t = <<>>
  BY <1>1 DEF comparePrereleases, PrereleasePrecedes
<1>2. CASE s # <<>> /\ t # <<>> /\ Differences(s, t) = {}
  <2>1. comparePrereleases(s, t) = Sign(Len(s), Len(t))
    BY <1>2 DEF comparePrereleases
  <2>2. comparePrereleases(s, t) = -1 <=> Len(s) < Len(t)
    BY <1>0, <2>1, SignIs
  <2>3. \A j \in DOMAIN s \cap DOMAIN t : s[j] = t[j]
    BY <1>2 DEF Differences
  <2>4. ASSUME Len(s) < Len(t) PROVE PrereleasePrecedes(s, t, AtoiOrder)
    <3>1. Len(s) + 1 \in DOMAIN t /\ Len(s) + 1 \notin DOMAIN s
      BY <1>0, <2>4
    <3>2. \A j \in 1 .. (Len(s) + 1) - 1 : j \in DOMAIN s /\ s[j] = t[j]
      BY <1>0, <2>3, <2>4
    <3> QED
      BY <1>2, <3>1, <3>2 DEF PrereleasePrecedes
  <2>5. ASSUME PrereleasePrecedes(s, t, AtoiOrder) PROVE Len(s) < Len(t)
    <3>1. PICK k \in DOMAIN t : k \in DOMAIN s => <<s[k], t[k]>> \in AtoiOrder
      BY <1>2, <2>5 DEF PrereleasePrecedes
    <3>2. k \notin DOMAIN s
      <4>1. SUFFICES ASSUME k \in DOMAIN s PROVE FALSE
        OBVIOUS
      <4>2. s[k] = t[k] /\ s[k] \in Identifiers
        BY <2>3, <4>1
      <4> QED
        BY <3>1, <4>1, <4>2, OrdersAreStrict DEF Irreflexive
    <3> QED
      BY <1>0, <3>2
  <2> QED
    BY <2>2, <2>4, <2>5
<1>3. CASE s # <<>> /\ t # <<>> /\ Differences(s, t) # {}
  <2>1. /\ i \in DOMAIN s \cap DOMAIN t /\ s[i] # t[i]
        /\ \A j \in DOMAIN s \cap DOMAIN t : i <= j \/ s[j] = t[j]
    BY <1>0, <1>3, FirstDifference
  <2>2. comparePrereleases(s, t) = compareIdentifiers(s[i], t[i])
    BY <1>3 DEF comparePrereleases
  <2> HIDE DEF i
  <2>3. comparePrereleases(s, t) = -1 <=> <<s[i], t[i]>> \in AtoiOrder
    <3>1. s[i] \in Identifiers /\ t[i] \in Identifiers
      BY <2>1
    <3> QED
      BY <2>1, <2>2, <3>1, IdentifierAgrees
  <2>4. ASSUME <<s[i], t[i]>> \in AtoiOrder PROVE PrereleasePrecedes(s, t, AtoiOrder)
    <3>1. \A j \in 1 .. i - 1 : j \in DOMAIN s /\ s[j] = t[j]
      BY <1>0, <2>1
    <3> QED
      BY <1>3, <2>1, <2>4, <3>1 DEF PrereleasePrecedes
  <2>5. ASSUME PrereleasePrecedes(s, t, AtoiOrder) PROVE <<s[i], t[i]>> \in AtoiOrder
    <3>1. PICK k \in DOMAIN t : /\ \A j \in 1 .. k - 1 : j \in DOMAIN s /\ s[j] = t[j]
                                /\ k \in DOMAIN s => <<s[k], t[k]>> \in AtoiOrder
      BY <1>3, <2>5 DEF PrereleasePrecedes
    <3>2. ~(i < k)
      BY <1>0, <2>1, <3>1
    <3>3. k \in DOMAIN s
      BY <1>0, <2>1, <3>2
    <3>4. s[k] # t[k]
      <4>1. s[k] \in Identifiers
        BY <3>3
      <4> QED
        BY <3>1, <3>3, <4>1, OrdersAreStrict DEF Irreflexive
    <3>5. k = i
      BY <1>0, <2>1, <3>2, <3>3, <3>4
    <3> QED
      BY <3>1, <3>3, <3>5
  <2> QED
    BY <2>3, <2>4, <2>5
<1> QED
  BY <1>1, <1>2, <1>3

-----------------------------------------------------------------------------

LEMMA Parsed ==
    ASSUME NEW Words, NEW x \in Texts(Words), IsVersion(x)
    PROVE  /\ parseVersion(x).core = CoreValues(x)
           /\ parseVersion(x).pre = x.pre
           /\ CoreValues(x) \in Core
           /\ x.pre \in Seq(Identifiers)
<1>1. \A i \in 1 .. 3 : Value[x.core[i]] \in Int /\ Number[x.core[i]] = Value[x.core[i]]
  BY OrderAssumption DEF IsVersion, CoreNumber
<1>2. x.pre \in Seq(Words) /\ \A i \in DOMAIN x.pre : x.pre[i] \in Identifiers
  BY DEF Texts, IsVersion
<1>3. x.pre \in Seq(Identifiers)
  BY <1>2
<1> QED
  BY <1>1, <1>3 DEF parseVersion, CoreValues, Core

(* The order of release names, for either order of identifiers. *)
NameOrder(x, y, R) ==
    \/ CorePrecedes(CoreValues(x), CoreValues(y))
    \/ CoreValues(x) = CoreValues(y) /\ PrereleasePrecedes(x.pre, y.pre, R)

LEMMA CompareIsNameOrder ==
    ASSUME NEW Words, NEW x \in Texts(Words), NEW y \in Texts(Words), IsVersion(x), IsVersion(y)
    PROVE  compareVersions(x, y) = -1 <=> NameOrder(x, y, AtoiOrder)
<1> DEFINE a == CoreValues(x)
           b == CoreValues(y)
<1>1. /\ a \in Core /\ b \in Core
      /\ x.pre \in Seq(Identifiers) /\ y.pre \in Seq(Identifiers)
      /\ parseVersion(x).core = a /\ parseVersion(x).pre = x.pre
      /\ parseVersion(y).core = b /\ parseVersion(y).pre = y.pre
  BY Parsed
<1>2. NameOrder(x, y, AtoiOrder) <=> \/ CorePrecedes(a, b)
                                     \/ a = b /\ PrereleasePrecedes(x.pre, y.pre, AtoiOrder)
  BY DEF NameOrder
<1> HIDE DEF a, b
<1>3. compareVersions(x, y) = IF compareCores(a, b) # 0
                              THEN compareCores(a, b)
                              ELSE comparePrereleases(x.pre, y.pre)
  BY <1>1 DEF compareVersions
<1>4. /\ compareCores(a, b) = 0 <=> a = b
      /\ compareCores(a, b) = -1 <=> CorePrecedes(a, b)
  BY <1>1, CoreAgrees
<1>5. comparePrereleases(x.pre, y.pre) = -1 <=> PrereleasePrecedes(x.pre, y.pre, AtoiOrder)
  BY <1>1, PrereleaseAgrees
<1> QED
  BY <1>2, <1>3, <1>4, <1>5

(***************************************************************************)
(* compareVersions finds a release older exactly when semantic versioning  *)
(* gives it the lower precedence, unless the two are prereleases of one    *)
(* X.Y.Z and an identifier is one that strconv.Atoi reads as a number and  *)
(* semantic versioning as a word, or the other way round (version.go:87).  *)
(***************************************************************************)
THEOREM CompareIsPrecedence ==
    ASSUME NEW Words, NEW x \in Texts(Words), NEW y \in Texts(Words), IsVersion(x), IsVersion(y),
           ~Misordered(x, y)
    PROVE  compareVersions(x, y) = -1 <=> Precedes(x, y)
<1>1. x.pre \in Seq(Identifiers) /\ y.pre \in Seq(Identifiers)
  BY Parsed
<1>2. ASSUME CoreValues(x) = CoreValues(y)
      PROVE  PrereleasePrecedes(x.pre, y.pre, AtoiOrder)
                <=> PrereleasePrecedes(x.pre, y.pre, IdentifierOrder)
  <2>1. CASE x.pre = <<>> \/ y.pre = <<>>
    BY <2>1 DEF PrereleasePrecedes
  <2>2. CASE x.pre # <<>> /\ y.pre # <<>>
    <3>1. \A i \in DOMAIN x.pre : x.pre[i] \in Identifiers /\ ~Misread(x.pre[i])
      BY <1>1, <1>2, <2>2 DEF Misordered
    <3>2. \A i \in DOMAIN y.pre : y.pre[i] \in Identifiers /\ ~Misread(y.pre[i])
      BY <1>1, <1>2, <2>2 DEF Misordered
    <3>3. \A k \in DOMAIN y.pre : k \in DOMAIN x.pre =>
              (<<x.pre[k], y.pre[k]>> \in AtoiOrder <=> <<x.pre[k], y.pre[k]>> \in IdentifierOrder)
      BY <3>1, <3>2, OrdersCoincide
    <3> QED
      BY <3>3, Zenon DEF PrereleasePrecedes
  <2> QED
    BY <2>1, <2>2
<1>3. NameOrder(x, y, AtoiOrder) <=> Precedes(x, y)
  BY <1>2, Zenon DEF NameOrder, Precedes
<1> QED
  BY <1>3, CompareIsNameOrder

LEMMA CoreIsStrict ==
    ASSUME NEW s \in Core, NEW t \in Core, NEW v \in Core
    PROVE  /\ ~CorePrecedes(s, s)
           /\ CorePrecedes(s, t) /\ CorePrecedes(t, v) => CorePrecedes(s, v)
<1>1. ~CorePrecedes(s, s)
  BY DEF CorePrecedes, Core
<1>2. ASSUME CorePrecedes(s, t), CorePrecedes(t, v) PROVE CorePrecedes(s, v)
  <2>1. PICK k \in 1 .. 3 : s[k] < t[k] /\ \A j \in 1 .. k - 1 : s[j] = t[j]
    BY <1>2 DEF CorePrecedes
  <2>2. PICK m \in 1 .. 3 : t[m] < v[m] /\ \A j \in 1 .. m - 1 : t[j] = v[j]
    BY <1>2 DEF CorePrecedes
  <2>3. \A j \in 1 .. 3 : s[j] \in Int /\ t[j] \in Int /\ v[j] \in Int
    BY DEF Core
  <2>4. CASE k <= m
    <3>1. s[k] < v[k] /\ \A j \in 1 .. k - 1 : s[j] = v[j]
      BY <2>1, <2>2, <2>3, <2>4
    <3> QED
      BY <3>1 DEF CorePrecedes
  <2>5. CASE m < k
    <3>1. s[m] < v[m] /\ \A j \in 1 .. m - 1 : s[j] = v[j]
      BY <2>1, <2>2, <2>3, <2>5
    <3> QED
      BY <3>1 DEF CorePrecedes
  <2> QED
    BY <2>4, <2>5
<1> QED
  BY <1>1, <1>2

LEMMA PrereleaseIsStrict ==
    ASSUME NEW s \in Seq(Identifiers), NEW t \in Seq(Identifiers), NEW v \in Seq(Identifiers),
           NEW R, Irreflexive(R), Transitive(R)
    PROVE  /\ ~PrereleasePrecedes(s, s, R)
           /\ PrereleasePrecedes(s, t, R) /\ PrereleasePrecedes(t, v, R) => PrereleasePrecedes(s, v, R)
<1>0. /\ DOMAIN s = 1 .. Len(s) /\ DOMAIN t = 1 .. Len(t) /\ DOMAIN v = 1 .. Len(v)
      /\ Len(s) \in Nat /\ Len(t) \in Nat /\ Len(v) \in Nat
  OBVIOUS
<1>1. ~PrereleasePrecedes(s, s, R)
  <2>1. \A k \in DOMAIN s : <<s[k], s[k]>> \notin R
    BY DEF Irreflexive
  <2> QED
    BY <2>1 DEF PrereleasePrecedes
<1>2. ASSUME PrereleasePrecedes(s, t, R), PrereleasePrecedes(t, v, R) PROVE PrereleasePrecedes(s, v, R)
  <2>1. s # <<>> /\ t # <<>>
    BY <1>2 DEF PrereleasePrecedes
  <2>2. CASE v = <<>>
    BY <2>1, <2>2 DEF PrereleasePrecedes
  <2>3. CASE v # <<>>
    <3>1. PICK k \in DOMAIN t : /\ \A j \in 1 .. k - 1 : j \in DOMAIN s /\ s[j] = t[j]
                                /\ k \in DOMAIN s => <<s[k], t[k]>> \in R
      BY <1>2, <2>1 DEF PrereleasePrecedes
    <3>2. PICK m \in DOMAIN v : /\ \A j \in 1 .. m - 1 : j \in DOMAIN t /\ t[j] = v[j]
                                /\ m \in DOMAIN t => <<t[m], v[m]>> \in R
      BY <1>2, <2>3 DEF PrereleasePrecedes
    <3>3. SUFFICES \E n \in DOMAIN v :
                      /\ \A j \in 1 .. n - 1 : j \in DOMAIN s /\ s[j] = v[j]
                      /\ n \in DOMAIN s => <<s[n], v[n]>> \in R
      BY <2>1 DEF PrereleasePrecedes
    <3>4. CASE k < m
      <4>1. k \in DOMAIN v /\ t[k] = v[k]
        BY <1>0, <3>2, <3>4
      <4>2. \A j \in 1 .. k - 1 : j \in DOMAIN s /\ s[j] = v[j]
        BY <1>0, <3>1, <3>2, <3>4
      <4> QED
        BY <3>1, <4>1, <4>2
    <3>5. CASE k = m
      <4>1. \A j \in 1 .. k - 1 : j \in DOMAIN s /\ s[j] = v[j]
        BY <1>0, <3>1, <3>2, <3>5
      <4>2. ASSUME k \in DOMAIN s PROVE <<s[k], v[k]>> \in R
        <5>1. s[k] \in Identifiers /\ t[k] \in Identifiers /\ v[k] \in Identifiers
          BY <3>1, <3>2, <3>5, <4>2
        <5>2. <<s[k], t[k]>> \in R /\ <<t[k], v[k]>> \in R
          BY <3>1, <3>2, <3>5, <4>2
        <5> QED
          BY <5>1, <5>2 DEF Transitive
      <4> QED
        BY <3>2, <3>5, <4>1, <4>2
    <3>6. CASE m < k
      <4>1. m \in DOMAIN s /\ m \in DOMAIN t /\ s[m] = t[m]
        BY <1>0, <3>1, <3>2, <3>6
      <4>2. \A j \in 1 .. m - 1 : j \in DOMAIN s /\ s[j] = v[j]
        BY <1>0, <3>1, <3>2, <3>6
      <4> QED
        BY <3>2, <4>1, <4>2
    <3>7. k < m \/ k = m \/ m < k
      BY <1>0
    <3> QED
      BY <3>4, <3>5, <3>6, <3>7
  <2> QED
    BY <2>2, <2>3
<1> QED
  BY <1>1, <1>2

LEMMA NameOrderIsStrict ==
    ASSUME NEW Words, NEW x \in Texts(Words), NEW y \in Texts(Words), NEW z \in Texts(Words),
           IsVersion(x), IsVersion(y), IsVersion(z), NEW R, Irreflexive(R), Transitive(R)
    PROVE  /\ ~NameOrder(x, x, R)
           /\ NameOrder(x, y, R) /\ NameOrder(y, z, R) => NameOrder(x, z, R)
<1> DEFINE a == CoreValues(x)
           b == CoreValues(y)
           c == CoreValues(z)
<1>1. /\ a \in Core /\ b \in Core /\ c \in Core
      /\ x.pre \in Seq(Identifiers) /\ y.pre \in Seq(Identifiers) /\ z.pre \in Seq(Identifiers)
  BY Parsed
<1> HIDE DEF a, b, c
<1>2. /\ ~CorePrecedes(a, a) /\ ~PrereleasePrecedes(x.pre, x.pre, R)
      /\ CorePrecedes(a, b) /\ CorePrecedes(b, c) => CorePrecedes(a, c)
      /\ PrereleasePrecedes(x.pre, y.pre, R) /\ PrereleasePrecedes(y.pre, z.pre, R)
            => PrereleasePrecedes(x.pre, z.pre, R)
  BY <1>1, CoreIsStrict, PrereleaseIsStrict
<1> QED
  BY <1>2, Zenon DEF NameOrder, a, b, c

(***************************************************************************)
(* The precedence of semantic versioning is a strict order on all names    *)
(* parseVersion admits.                                                    *)
(***************************************************************************)
THEOREM PrecedenceIsStrict ==
    ASSUME NEW Words, NEW x \in Texts(Words), NEW y \in Texts(Words), NEW z \in Texts(Words),
           IsVersion(x), IsVersion(y), IsVersion(z)
    PROVE  /\ ~Precedes(x, x)
           /\ Precedes(x, y) /\ Precedes(y, z) => Precedes(x, z)
<1>1. \A s, t : Precedes(s, t) <=> NameOrder(s, t, IdentifierOrder)
  BY Zenon DEF Precedes, NameOrder
<1>2. /\ ~NameOrder(x, x, IdentifierOrder)
      /\ NameOrder(x, y, IdentifierOrder) /\ NameOrder(y, z, IdentifierOrder)
            => NameOrder(x, z, IdentifierOrder)
  BY NameOrderIsStrict, OrdersAreStrict
<1> QED
  BY <1>1, <1>2, Zenon

(***************************************************************************)
(* "Older" as compareVersions decides it is a strict order too, misread    *)
(* identifiers included: no chain of updates that follow the application   *)
(* leads back to where it began.                                           *)
(***************************************************************************)
THEOREM ComparisonIsStrict ==
    ASSUME NEW Words, NEW x \in Texts(Words), NEW y \in Texts(Words), NEW z \in Texts(Words),
           IsVersion(x), IsVersion(y), IsVersion(z)
    PROVE  /\ compareVersions(x, x) # -1
           /\ compareVersions(x, y) = -1 /\ compareVersions(y, z) = -1
                 => compareVersions(x, z) = -1
<1>1. /\ ~NameOrder(x, x, AtoiOrder)
      /\ NameOrder(x, y, AtoiOrder) /\ NameOrder(y, z, AtoiOrder) => NameOrder(x, z, AtoiOrder)
  BY NameOrderIsStrict, OrdersAreStrict
<1>2. /\ compareVersions(x, x) = -1 <=> NameOrder(x, x, AtoiOrder)
      /\ compareVersions(x, y) = -1 <=> NameOrder(x, y, AtoiOrder)
      /\ compareVersions(y, z) = -1 <=> NameOrder(y, z, AtoiOrder)
      /\ compareVersions(x, z) = -1 <=> NameOrder(x, z, AtoiOrder)
  BY CompareIsNameOrder
<1> QED
  BY <1>1, <1>2

(* No two spellings of one number, such as "1" and "01", in the two names. *)
OneSpelling(s, t) ==
    \A i \in DOMAIN s, j \in DOMAIN t :
        s[i] \in Numeric /\ t[j] \in Numeric /\ Number[s[i]] = Number[t[j]] => s[i] = t[j]

LEMMA DifferencesCommute == \A s, t : Differences(s, t) = Differences(t, s)
BY DEF Differences

LEMMA SignIsOpposite ==
    \A m, n \in Int : Sign(n, m) = 0 - Sign(m, n) /\ (Sign(m, n) = 0 <=> m = n)
BY DEF Sign

LEMMA CoreIsOpposite ==
    ASSUME NEW s \in Core, NEW t \in Core
    PROVE  compareCores(t, s) = 0 - compareCores(s, t)
<1>1. Differences(s, t) = Differences(t, s)
  BY DifferencesCommute
<1>2. CASE Differences(s, t) = {}
  <2>1. compareCores(s, t) = 0 /\ compareCores(t, s) = 0
    BY <1>1, <1>2 DEF compareCores
  <2> QED
    BY <2>1
<1>3. CASE Differences(s, t) # {}
  <2> DEFINE i == First(Differences(s, t))
  <2>1. i \in 1 .. 3
    BY <1>3, FirstDifference DEF Core
  <2>2. compareCores(s, t) = Sign(s[i], t[i]) /\ compareCores(t, s) = Sign(t[i], s[i])
    BY <1>1, <1>3 DEF compareCores
  <2> HIDE DEF i
  <2>3. s[i] \in Int /\ t[i] \in Int
    BY <2>1 DEF Core
  <2>4. Sign(t[i], s[i]) = 0 - Sign(s[i], t[i])
    BY <2>3, SignIsOpposite
  <2> QED
    BY <2>2, <2>4
<1> QED
  BY <1>2, <1>3

LEMMA PrereleaseIsOpposite ==
    ASSUME NEW s \in Seq(Identifiers), NEW t \in Seq(Identifiers)
    PROVE  /\ comparePrereleases(s, t) = 0 <=> s = t
           /\ OneSpelling(s, t) => comparePrereleases(t, s) = 0 - comparePrereleases(s, t)
<1> DEFINE i == First(Differences(s, t))
<1>0. /\ DOMAIN s = 1 .. Len(s) /\ DOMAIN t = 1 .. Len(t)
      /\ Len(s) \in Nat /\ Len(t) \in Nat
      /\ (s = <<>> <=> Len(s) = 0) /\ (t = <<>> <=> Len(t) = 0)
  OBVIOUS
<1>1. Differences(s, t) = Differences(t, s)
  BY DifferencesCommute
<1>2. CASE s = <<>> \/ t = <<>>
  BY <1>2 DEF comparePrereleases
<1>3. CASE s # <<>> /\ t # <<>> /\ Differences(s, t) = {}
  <2>1. comparePrereleases(s, t) = Sign(Len(s), Len(t))
        /\ comparePrereleases(t, s) = Sign(Len(t), Len(s))
    BY <1>1, <1>3 DEF comparePrereleases
  <2>2. Len(s) = Len(t) => s = t
    <3>1. \A j \in DOMAIN s \cap DOMAIN t : s[j] = t[j]
      BY <1>3 DEF Differences
    <3> QED
      BY <1>0, <3>1
  <2>3. Len(s) \in Int /\ Len(t) \in Int
    BY <1>0
  <2>4. /\ Sign(Len(t), Len(s)) = 0 - Sign(Len(s), Len(t))
        /\ Sign(Len(s), Len(t)) = 0 <=> Len(s) = Len(t)
    BY <2>3, SignIsOpposite
  <2> QED
    BY <2>1, <2>2, <2>4
<1>4. CASE s # <<>> /\ t # <<>> /\ Differences(s, t) # {}
  <2>1. i \in DOMAIN s \cap DOMAIN t /\ s[i] # t[i]
    BY <1>0, <1>4, FirstDifference
  <2>2. comparePrereleases(s, t) = compareIdentifiers(s[i], t[i])
        /\ comparePrereleases(t, s) = compareIdentifiers(t[i], s[i])
    BY <1>1, <1>4 DEF comparePrereleases
  <2> HIDE DEF i
  <2>3. s[i] \in Identifiers /\ t[i] \in Identifiers
    BY <2>1
  <2>4. compareIdentifiers(s[i], t[i]) # 0
    BY <2>3, IdentifierAgrees
  <2>5. OneSpelling(s, t) => compareIdentifiers(t[i], s[i]) = 0 - compareIdentifiers(s[i], t[i])
    <3> DEFINE x == s[i]
               y == t[i]
    <3>1. x # y /\ x \in Identifiers /\ y \in Identifiers
      BY <2>1, <2>3
    <3>2. OneSpelling(s, t) => (x \in Numeric /\ y \in Numeric => Number[x] # Number[y])
      BY <2>1 DEF OneSpelling
    <3> HIDE DEF x, y
    <3>3. Rank[x] # Rank[y] /\ Rank[x] \in Int /\ Rank[y] \in Int
      BY <3>1, OrderAssumption
    <3>4. x \in Numeric => Number[x] \in Int
      BY OrderAssumption
    <3>5. y \in Numeric => Number[y] \in Int
      BY OrderAssumption
    <3>6. OneSpelling(s, t) => compareIdentifiers(y, x) = 0 - compareIdentifiers(x, y)
      BY <3>2, <3>3, <3>4, <3>5 DEF compareIdentifiers, compareTexts
    <3> QED
      BY <3>6 DEF x, y
  <2> QED
    BY <2>1, <2>2, <2>4, <2>5
<1> QED
  BY <1>2, <1>3, <1>4

(***************************************************************************)
(* compareVersions tells any two releases apart: it gives 0 exactly for    *)
(* names that differ at most in build metadata.  Exchanging the names      *)
(* exchanges the answer, unless two prerelease identifiers spell one       *)
(* number in two ways (version.go:93 then gives 1 either way, so neither   *)
(* release is an update of the other).                                     *)
(***************************************************************************)
THEOREM CompareDecides ==
    ASSUME NEW Words, NEW x \in Texts(Words), NEW y \in Texts(Words), IsVersion(x), IsVersion(y)
    PROVE  /\ compareVersions(x, y) = 0 <=> parseVersion(x) = parseVersion(y)
           /\ OneSpelling(x.pre, y.pre) => compareVersions(y, x) = 0 - compareVersions(x, y)
<1> DEFINE a == parseVersion(x)
           b == parseVersion(y)
<1>1. /\ a.core \in Core /\ b.core \in Core
      /\ a.pre \in Seq(Identifiers) /\ b.pre \in Seq(Identifiers)
  BY Parsed, Zenon
<1>2. /\ compareVersions(x, y) = IF compareCores(a.core, b.core) # 0
                                 THEN compareCores(a.core, b.core)
                                 ELSE comparePrereleases(a.pre, b.pre)
      /\ compareVersions(y, x) = IF compareCores(b.core, a.core) # 0
                                 THEN compareCores(b.core, a.core)
                                 ELSE comparePrereleases(b.pre, a.pre)
  BY DEF compareVersions
<1>3. a.pre = x.pre /\ b.pre = y.pre /\ (a = b <=> a.core = b.core /\ a.pre = b.pre)
  BY DEF parseVersion
<1> HIDE DEF a, b
<1>4. /\ compareCores(a.core, b.core) = 0 <=> a.core = b.core
      /\ compareCores(b.core, a.core) = 0 - compareCores(a.core, b.core)
  BY <1>1, CoreAgrees, CoreIsOpposite
<1>5. /\ comparePrereleases(a.pre, b.pre) = 0 <=> a.pre = b.pre
      /\ OneSpelling(a.pre, b.pre) => comparePrereleases(b.pre, a.pre) = 0 - comparePrereleases(a.pre, b.pre)
  BY <1>1, PrereleaseIsOpposite
<1>6. compareCores(a.core, b.core) \in Int
  BY DEF compareCores, Sign
<1>7. compareVersions(x, y) = 0 <=> a = b
  BY <1>2, <1>3, <1>4, <1>5
<1>8. OneSpelling(a.pre, b.pre) => compareVersions(y, x) = 0 - compareVersions(x, y)
  BY <1>2, <1>4, <1>5, <1>6
<1> QED
  BY <1>3, <1>7, <1>8 DEF a, b

-----------------------------------------------------------------------------

(* waitForSustainedHealth makes at least one check. *)
LEMMA AtLeastOneCheck == HealthChecks \in Nat /\ 0 < HealthChecks
BY UpdateAssumption

(* What the health checks do to their counter. *)
LEMMA CounterReset ==
    ASSUME NEW f \in [Updaters -> 0 .. HealthChecks], NEW u \in Updaters
    PROVE  /\ [f EXCEPT ![u] = 0] \in [Updaters -> 0 .. HealthChecks]
           /\ [f EXCEPT ![u] = 0][u] < HealthChecks
BY AtLeastOneCheck

LEMMA CounterBelow ==
    ASSUME NEW n \in 0 .. HealthChecks, n # HealthChecks PROVE n < HealthChecks
BY AtLeastOneCheck

LEMMA CounterIncrement ==
    ASSUME NEW f \in [Updaters -> 0 .. HealthChecks], NEW u \in Updaters, f[u] < HealthChecks
    PROVE  /\ [f EXCEPT ![u] = f[u] + 1] \in [Updaters -> 0 .. HealthChecks]
           /\ [f EXCEPT ![u] = f[u] + 1][u] = f[u] + 1
BY AtLeastOneCheck

(* Steps of an updater keep the types. *)
LEMMA FilesStep ==
    ASSUME NEW u \in Updaters, Step(u) \/ Cancel(u) \/ Kill(u), FilesTyped
    PROVE  FilesTyped'
<1> USE DEF FilesTyped, Releases
<1>1. CASE Choose(u)
  BY <1>1 DEF Choose, ChooseCurrent, ChooseRequested, host, local, Pair, Down, Definition
<1>2. CASE Lock(u)
  BY <1>2 DEF Lock, host, local, Pair, Down, Definition
<1>3. CASE Fetch(u)
  BY <1>3 DEF Fetch, host, local, Pair, Down, Definition
<1>4. CASE Stop(u)
  BY <1>4 DEF Stop, host, local, StopService, Pair, Down, Definition
<1>5. CASE ReplaceBinary(u)
  BY <1>5 DEF ReplaceBinary, host, local, Pair, Down, Definition
<1>6. CASE ReplaceService(u)
  BY <1>6 DEF ReplaceService, host, local, Pair, Down, Definition
<1>7. CASE Verify(u)
  BY <1>7 DEF Verify, host, local, Pair, Down, Definition
<1>8. CASE Reload(u)
  BY <1>8 DEF Reload, host, local, Pair, Down, Definition
<1>9. CASE Start(u)
  <2>1. Pair(binary, Definition) \in Releases
    BY DEF Pair, Definition
  <2>2. serving' = serving \/ serving' = Pair(binary, Definition)
    BY <1>9 DEF Start, StartService
  <2>3. UNCHANGED <<binary, service, loaded, target, saved>>
    BY <1>9 DEF Start
  <2> QED
    BY <2>1, <2>2, <2>3
<1>10. CASE Health(u)
  BY <1>10 DEF Health, host, local, Pair, Down, Definition
<1>11. CASE UndoBinary(u)
  BY <1>11 DEF UndoBinary, host, local, Pair, Down, Definition
<1>12. CASE UndoService(u)
  <2>1. service' = service \/ service' = saved[u].service
    BY <1>12, Zenon DEF UndoService
  <2>2. UNCHANGED <<binary, loaded, serving, target, saved>>
    BY <1>12 DEF UndoService
  <2> QED
    BY <2>1, <2>2
<1>13. CASE UndoReload(u)
  BY <1>13 DEF UndoReload, host, local, Pair, Down, Definition
<1>14. CASE UndoStart(u)
  <2>1. Pair(binary, Definition) \in Releases
    BY DEF Pair, Definition
  <2>2. serving' = serving \/ serving' = Pair(binary, Definition)
    BY <1>14 DEF UndoStart, StartService
  <2>3. UNCHANGED <<binary, service, loaded, target, saved>>
    BY <1>14 DEF UndoStart
  <2> QED
    BY <2>1, <2>2, <2>3
<1>15. CASE UndoHealth(u)
  BY <1>15 DEF UndoHealth, host, local, Pair, Down, Definition
<1>16. CASE Cancel(u)
  BY <1>16 DEF Cancel, host, local, Pair, Down, Definition
<1>17. CASE Kill(u)
  BY <1>17 DEF Kill, host, local, Pair, Down, Definition
<1> QED
  BY <1>1, <1>2, <1>3, <1>4, <1>5, <1>6, <1>7, <1>8, <1>9, <1>10, <1>11, <1>12, <1>13, <1>14, <1>15, <1>16, <1>17 DEF Step

LEMMA ControlStep ==
    ASSUME NEW u \in Updaters, Step(u) \/ Cancel(u) \/ Kill(u), ControlTyped
    PROVE  ControlTyped'
<1> USE AtLeastOneCheck DEF ControlTyped, Transaction, Rollback, Results
<1>1. CASE Choose(u)
  BY <1>1 DEF Choose, ChooseCurrent, ChooseRequested, Goto, host, local
<1>2. CASE Lock(u)
  BY <1>2 DEF Lock, Goto, host, local
<1>3. CASE Fetch(u)
  BY <1>3 DEF Fetch, Goto, host, local, Return
<1>4. CASE Stop(u)
  BY <1>4 DEF Stop, Goto, host, local, Return
<1>5. CASE ReplaceBinary(u)
  BY <1>5 DEF ReplaceBinary, Goto, host, local
<1>6. CASE ReplaceService(u)
  BY <1>6 DEF ReplaceService, Goto, host, local
<1>7. CASE Verify(u)
  BY <1>7 DEF Verify, Goto, host, local
<1>8. CASE Reload(u)
  BY <1>8 DEF Reload, Goto, host, local
<1>9. CASE Start(u)
  <2>1. pc' \in [Updaters -> {"idle", "lock", "killed"} \cup Transaction \cup Results]
    BY <1>9 DEF Start, Goto, Return
  <2>2. checks' = [checks EXCEPT ![u] = 0]
    BY <1>9 DEF Start
  <2>3. \A v \in Updaters : v # u => pc'[v] = pc[v] /\ checks'[v] = checks[v]
    BY <1>9, <2>2 DEF Start, Goto, Return
  <2>4. checks' \in [Updaters -> 0 .. HealthChecks] /\ checks'[u] < HealthChecks
    BY <2>2, CounterReset
  <2> QED
    BY <2>1, <2>3, <2>4
<1>10. CASE Health(u)
  <2>1. pc' \in [Updaters -> {"idle", "lock", "killed"} \cup Transaction \cup Results]
    BY <1>10 DEF Health, Goto, Return, OneCheck
  <2>2. \A v \in Updaters : v # u => pc'[v] = pc[v] /\ checks'[v] = checks[v]
    BY <1>10 DEF Health, Goto, Return, OneCheck
  <2>3. checks[u] < HealthChecks
    BY <1>10 DEF Health
  <2>4. CASE checks' = checks /\ pc'[u] \notin {"health", "undo health"}
    BY <2>1, <2>2, <2>4
  <2>5. CASE OneCheck(u, "updated") \/ OneCheck(u, "incomplete") \/ OneCheck(u, "rolled back")
    <3>1. checks' = [checks EXCEPT ![u] = checks[u] + 1]
      BY <2>5 DEF OneCheck
    <3>2. checks' \in [Updaters -> 0 .. HealthChecks]
      BY <2>3, <3>1, CounterIncrement
    <3>3. checks'[u] # HealthChecks \/ pc'[u] \notin {"health", "undo health"}
      BY <2>5 DEF OneCheck, Return, Goto
    <3>4. checks'[u] # HealthChecks => checks'[u] < HealthChecks
      <4>1. checks'[u] \in 0 .. HealthChecks
        BY <3>2
      <4> QED
        BY <4>1, CounterBelow
    <3> QED
      BY <2>1, <2>2, <3>2, <3>3, <3>4
  <2> QED
    BY <1>10, <2>4, <2>5 DEF Health, Goto, Return
<1>11. CASE UndoBinary(u)
  BY <1>11 DEF UndoBinary, Goto, host, local
<1>12. CASE UndoService(u)
  BY <1>12 DEF UndoService, Goto, host, local
<1>13. CASE UndoReload(u)
  BY <1>13 DEF UndoReload, Goto, host, local
<1>14. CASE UndoStart(u)
  <2>1. pc' \in [Updaters -> {"idle", "lock", "killed"} \cup Transaction \cup Results]
    BY <1>14 DEF UndoStart, Goto, Return
  <2>2. checks' = [checks EXCEPT ![u] = 0]
    BY <1>14 DEF UndoStart
  <2>3. \A v \in Updaters : v # u => pc'[v] = pc[v] /\ checks'[v] = checks[v]
    BY <1>14, <2>2 DEF UndoStart, Goto, Return
  <2>4. checks' \in [Updaters -> 0 .. HealthChecks] /\ checks'[u] < HealthChecks
    BY <2>2, CounterReset
  <2> QED
    BY <2>1, <2>3, <2>4
<1>15. CASE UndoHealth(u)
  <2>1. pc' \in [Updaters -> {"idle", "lock", "killed"} \cup Transaction \cup Results]
    BY <1>15 DEF UndoHealth, Goto, Return, OneCheck
  <2>2. \A v \in Updaters : v # u => pc'[v] = pc[v] /\ checks'[v] = checks[v]
    BY <1>15 DEF UndoHealth, Goto, Return, OneCheck
  <2>3. checks[u] < HealthChecks
    BY <1>15 DEF UndoHealth
  <2>4. CASE checks' = checks /\ pc'[u] \notin {"health", "undo health"}
    BY <2>1, <2>2, <2>4
  <2>5. CASE OneCheck(u, "updated") \/ OneCheck(u, "incomplete") \/ OneCheck(u, "rolled back")
    <3>1. checks' = [checks EXCEPT ![u] = checks[u] + 1]
      BY <2>5 DEF OneCheck
    <3>2. checks' \in [Updaters -> 0 .. HealthChecks]
      BY <2>3, <3>1, CounterIncrement
    <3>3. checks'[u] # HealthChecks \/ pc'[u] \notin {"health", "undo health"}
      BY <2>5 DEF OneCheck, Return, Goto
    <3>4. checks'[u] # HealthChecks => checks'[u] < HealthChecks
      <4>1. checks'[u] \in 0 .. HealthChecks
        BY <3>2
      <4> QED
        BY <4>1, CounterBelow
    <3> QED
      BY <2>1, <2>2, <3>2, <3>3, <3>4
  <2> QED
    BY <1>15, <2>4, <2>5 DEF UndoHealth, Goto, Return
<1>16. CASE Cancel(u)
  BY <1>16 DEF Cancel, Goto, host, local
<1>17. CASE Kill(u)
  BY <1>17 DEF Kill, Goto, host, local
<1> QED
  BY <1>1, <1>2, <1>3, <1>4, <1>5, <1>6, <1>7, <1>8, <1>9, <1>10, <1>11, <1>12, <1>13, <1>14, <1>15, <1>16, <1>17 DEF Step

LEMMA FlagsStep ==
    ASSUME NEW u \in Updaters, Step(u) \/ Cancel(u) \/ Kill(u), FlagsTyped
    PROVE  FlagsTyped'
<1> USE DEF FlagsTyped
<1>1. CASE Choose(u)
  BY <1>1 DEF Choose, ChooseCurrent, ChooseRequested, host, local
<1>2. CASE Lock(u)
  BY <1>2 DEF Lock, host, local
<1>3. CASE Fetch(u)
  BY <1>3 DEF Fetch, host, local, Return
<1>4. CASE Stop(u)
  BY <1>4 DEF Stop, host, local, Return, StopService
<1>5. CASE ReplaceBinary(u)
  BY <1>5 DEF ReplaceBinary, host, local
<1>6. CASE ReplaceService(u)
  BY <1>6 DEF ReplaceService, host, local
<1>7. CASE Verify(u)
  BY <1>7 DEF Verify, host, local
<1>8. CASE Reload(u)
  BY <1>8 DEF Reload, host, local
<1>9. CASE Start(u)
  BY <1>9 DEF Start, host, local, StartService
<1>10. CASE Health(u)
  BY <1>10 DEF Health, host, local, OneCheck, Return
<1>11. CASE UndoBinary(u)
  BY <1>11 DEF UndoBinary, host, local
<1>12. CASE UndoService(u)
  BY <1>12 DEF UndoService, host, local
<1>13. CASE UndoReload(u)
  BY <1>13 DEF UndoReload, host, local
<1>14. CASE UndoStart(u)
  BY <1>14 DEF UndoStart, host, local, StartService, Return
<1>15. CASE UndoHealth(u)
  BY <1>15 DEF UndoHealth, host, local, OneCheck, Return
<1>16. CASE Cancel(u)
  BY <1>16 DEF Cancel, host, local
<1>17. CASE Kill(u)
  BY <1>17 DEF Kill, host, local
<1> QED
  BY <1>1, <1>2, <1>3, <1>4, <1>5, <1>6, <1>7, <1>8, <1>9, <1>10, <1>11, <1>12, <1>13, <1>14, <1>15, <1>16, <1>17 DEF Step

LEMMA TypeStep == TypeOK /\ [Next]_vars => TypeOK'
<1> SUFFICES ASSUME TypeOK, [Next]_vars PROVE TypeOK'
  OBVIOUS
<1>1. ASSUME NEW u \in Updaters, Step(u) \/ Cancel(u) \/ Kill(u)
      PROVE  TypeOK'
  BY <1>1, FilesStep, ControlStep, FlagsStep DEF TypeOK
<1>2. CASE ServiceDies
  BY <1>2 DEF ServiceDies, local, TypeOK, FilesTyped, ControlTyped, FlagsTyped
<1>3. CASE ServiceRespawns
  <2>1. serving' \in Releases
    BY <1>3 DEF ServiceRespawns, TypeOK, FilesTyped, Releases, Pair, Definition
  <2> QED
    BY <1>3, <2>1 DEF ServiceRespawns, local, TypeOK, FilesTyped, ControlTyped, FlagsTyped
<1>4. CASE UNCHANGED vars
  BY <1>4 DEF vars, TypeOK, FilesTyped, ControlTyped, FlagsTyped
<1> QED
  BY <1>1, <1>2, <1>3, <1>4 DEF Next, AllEnded

LEMMA TypeInit == Init => TypeOK
<1> SUFFICES ASSUME Init PROVE TypeOK
  OBVIOUS
<1>1. FilesTyped
  BY UpdateAssumption DEF Init, FilesTyped, Releases, Pair
<1>2. ControlTyped
  <2>1. checks \in [Updaters -> 0 .. HealthChecks]
    BY AtLeastOneCheck DEF Init
  <2> QED
    BY <2>1 DEF Init, ControlTyped
<1>3. FlagsTyped
  BY DEF Init, FlagsTyped
<1> QED
  BY <1>1, <1>2, <1>3 DEF TypeOK

-----------------------------------------------------------------------------
(* How a step of u moves u with respect to the lock: it stays outside or   *)
(* inside (or is killed there), it leaves and removes the lock, or it      *)
(* takes the lock.                                                         *)
Moves(u) ==
    /\ pc' = [pc EXCEPT ![u] = pc'[u]]
    /\ pc[u] # "killed"
    /\ \/ /\ pc'[u] \in Transaction => pc[u] \in Transaction
          /\ pc[u] \in Transaction => pc'[u] \in Transaction \cup {"killed"}
          /\ lock' = lock
       \/ pc[u] \in Transaction /\ pc'[u] \notin Transaction /\ lock' = FALSE
       \/ lock = FALSE /\ lock' = TRUE /\ pc'[u] \in Transaction

LEMMA EveryStepMoves ==
    ASSUME NEW u \in Updaters, Step(u) \/ Cancel(u) \/ Kill(u), ControlTyped, FlagsTyped
    PROVE  Moves(u)
<1> USE DEF ControlTyped, Moves, Transaction, Rollback, Results
<1>1. CASE Choose(u)
  BY <1>1 DEF Choose, ChooseCurrent, ChooseRequested, Goto
<1>2. CASE Lock(u)
  <2>1. lock \in BOOLEAN
    BY DEF FlagsTyped
  <2> QED
    BY <1>2, <2>1 DEF Lock, Goto
<1>3. CASE Fetch(u)
  BY <1>3 DEF Fetch, Goto, Return
<1>4. CASE Stop(u)
  BY <1>4 DEF Stop, Goto, Return
<1>5. CASE ReplaceBinary(u)
  BY <1>5 DEF ReplaceBinary, Goto
<1>6. CASE ReplaceService(u)
  BY <1>6 DEF ReplaceService, Goto
<1>7. CASE Verify(u)
  BY <1>7 DEF Verify, Goto
<1>8. CASE Reload(u)
  BY <1>8 DEF Reload, Goto
<1>9. CASE Start(u)
  BY <1>9 DEF Start, Goto
<1>10. CASE Health(u)
  BY <1>10 DEF Health, Goto, OneCheck, Return
<1>11. CASE UndoBinary(u)
  BY <1>11 DEF UndoBinary, Goto
<1>12. CASE UndoService(u)
  BY <1>12 DEF UndoService, Goto
<1>13. CASE UndoReload(u)
  BY <1>13 DEF UndoReload, Goto
<1>14. CASE UndoStart(u)
  BY <1>14 DEF UndoStart, Goto, Return
<1>15. CASE UndoHealth(u)
  BY <1>15 DEF UndoHealth, Goto, OneCheck, Return
<1>16. CASE Cancel(u)
  BY <1>16 DEF Cancel, Goto
<1>17. CASE Kill(u)
  BY <1>17 DEF Kill, Goto
<1> QED
  BY <1>1, <1>2, <1>3, <1>4, <1>5, <1>6, <1>7, <1>8, <1>9, <1>10, <1>11, <1>12, <1>13, <1>14, <1>15, <1>16, <1>17 DEF Step

(* Hence the transactions stay apart. *)
LEMMA TransactionStep ==
    ASSUME ControlTyped, FlagsTyped, OneTransaction, NEW u \in Updaters, Moves(u)
    PROVE  OneTransaction'
<1>1. \A v \in Updaters : v # u => pc'[v] = pc[v]
  BY DEF Moves, ControlTyped
<1>2. CASE (pc'[u] \in Transaction => pc[u] \in Transaction) /\ lock' = lock
  BY <1>1, <1>2 DEF OneTransaction, Active
<1>3. CASE pc[u] \in Transaction /\ pc'[u] \notin Transaction /\ lock' = FALSE
  BY <1>1, <1>3 DEF OneTransaction, Active
<1>4. CASE lock = FALSE /\ lock' = TRUE
  BY <1>1, <1>4 DEF OneTransaction, Active
<1> QED
  BY <1>2, <1>3, <1>4 DEF Moves

(* A step of u leaves the local variables of the others alone. *)
LEMMA Frame ==
    ASSUME NEW u \in Updaters, Step(u) \/ Cancel(u) \/ Kill(u), TypeOK
    PROVE  \A v \in Updaters : v # u =>
              /\ pc'[v] = pc[v] /\ target'[v] = target[v] /\ saved'[v] = saved[v]
              /\ replaced'[v] = replaced[v] /\ troubled'[v] = troubled[v]
              /\ cancelled'[v] = cancelled[v]
<1> USE DEF TypeOK, FilesTyped, ControlTyped, FlagsTyped
<1>1. CASE Choose(u)
  BY <1>1 DEF Choose, ChooseCurrent, ChooseRequested, Goto, local
<1>2. CASE Lock(u)
  BY <1>2 DEF Lock, Goto, local
<1>3. CASE Fetch(u)
  BY <1>3 DEF Fetch, Goto, local, Return
<1>4. CASE Stop(u)
  BY <1>4 DEF Stop, Goto, local, Return
<1>5. CASE ReplaceBinary(u)
  BY <1>5 DEF ReplaceBinary, Goto, local
<1>6. CASE ReplaceService(u)
  BY <1>6 DEF ReplaceService, Goto, local
<1>7. CASE Verify(u)
  BY <1>7 DEF Verify, Goto, local
<1>8. CASE Reload(u)
  BY <1>8 DEF Reload, Goto, local
<1>9. CASE Start(u)
  BY <1>9 DEF Start, Goto, local
<1>10. CASE Health(u)
  BY <1>10 DEF Health, Goto, local, OneCheck, Return
<1>11. CASE UndoBinary(u)
  BY <1>11 DEF UndoBinary, Goto, local
<1>12. CASE UndoService(u)
  BY <1>12 DEF UndoService, Goto, local
<1>13. CASE UndoReload(u)
  BY <1>13 DEF UndoReload, Goto, local
<1>14. CASE UndoStart(u)
  BY <1>14 DEF UndoStart, Goto, local, Return
<1>15. CASE UndoHealth(u)
  BY <1>15 DEF UndoHealth, Goto, local, OneCheck, Return
<1>16. CASE Cancel(u)
  BY <1>16 DEF Cancel, Goto, local
<1>17. CASE Kill(u)
  BY <1>17 DEF Kill, Goto, local
<1> QED
  BY <1>1, <1>2, <1>3, <1>4, <1>5, <1>6, <1>7, <1>8, <1>9, <1>10, <1>11, <1>12, <1>13, <1>14, <1>15, <1>16, <1>17 DEF Step

(* Outside the transaction nothing on the host is touched. *)
LEMMA HostFrame ==
    ASSUME NEW u \in Updaters, Step(u) \/ Cancel(u) \/ Kill(u), pc[u] \notin Transaction
    PROVE  UNCHANGED host
<1> USE DEF Transaction, Rollback
<1>1. CASE Choose(u)
  BY <1>1 DEF Choose, ChooseCurrent, ChooseRequested, host
<1>2. CASE Lock(u)
  BY <1>2 DEF Lock, host
<1>3. CASE Fetch(u)
  BY <1>3 DEF Fetch, host
<1>4. CASE Stop(u)
  BY <1>4 DEF Stop, host
<1>5. CASE ReplaceBinary(u)
  BY <1>5 DEF ReplaceBinary, host
<1>6. CASE ReplaceService(u)
  BY <1>6 DEF ReplaceService, host
<1>7. CASE Verify(u)
  BY <1>7 DEF Verify, host
<1>8. CASE Reload(u)
  BY <1>8 DEF Reload, host
<1>9. CASE Start(u)
  BY <1>9 DEF Start, host
<1>10. CASE Health(u)
  BY <1>10 DEF Health, host
<1>11. CASE UndoBinary(u)
  BY <1>11 DEF UndoBinary, host
<1>12. CASE UndoService(u)
  BY <1>12 DEF UndoService, host
<1>13. CASE UndoReload(u)
  BY <1>13 DEF UndoReload, host
<1>14. CASE UndoStart(u)
  BY <1>14 DEF UndoStart, host
<1>15. CASE UndoHealth(u)
  BY <1>15 DEF UndoHealth, host
<1>16. CASE Cancel(u)
  BY <1>16 DEF Cancel, host
<1>17. CASE Kill(u)
  BY <1>17 DEF Kill, host
<1> QED
  BY <1>1, <1>2, <1>3, <1>4, <1>5, <1>6, <1>7, <1>8, <1>9, <1>10, <1>11, <1>12, <1>13, <1>14, <1>15, <1>16, <1>17 DEF Step

(* What u knows of the files stays true when u moves on. *)
LEMMA FilesStagedStep ==
    ASSUME NEW u \in Updaters, Step(u) \/ Cancel(u) \/ Kill(u), TypeOK, FilesStaged(u)
    PROVE  FilesStaged(u)'
<1> USE DEF TypeOK, FilesTyped, ControlTyped, FilesStaged
<1>1. CASE Choose(u)
  BY <1>1 DEF Choose, ChooseCurrent, ChooseRequested, Goto, host, local, Pair
<1>2. CASE Lock(u)
  BY <1>2 DEF Lock, Goto, host, local, Pair
<1>3. CASE Fetch(u)
  BY <1>3 DEF Fetch, Goto, host, local, Return, Pair
<1>4. CASE Stop(u)
  BY <1>4 DEF Stop, Goto, host, local, Return, Pair
<1>5. CASE ReplaceBinary(u)
  BY <1>5 DEF ReplaceBinary, Goto, host, local, Pair
<1>6. CASE ReplaceService(u)
  BY <1>6 DEF ReplaceService, Goto, host, local, Pair
<1>7. CASE Verify(u)
  BY <1>7 DEF Verify, Goto, host, local, Pair
<1>8. CASE Reload(u)
  BY <1>8 DEF Reload, Goto, host, local, Pair
<1>9. CASE Start(u)
  BY <1>9 DEF Start, Goto, host, local, Pair
<1>10. CASE Health(u)
  BY <1>10 DEF Health, Goto, host, local, OneCheck, Return, Pair
<1>11. CASE UndoBinary(u)
  BY <1>11 DEF UndoBinary, Goto, host, local, Pair
<1>12. CASE UndoService(u)
  BY <1>12 DEF UndoService, Goto, host, local, Pair
<1>13. CASE UndoReload(u)
  BY <1>13 DEF UndoReload, Goto, host, local, Pair
<1>14. CASE UndoStart(u)
  BY <1>14 DEF UndoStart, Goto, host, local, Return, Pair
<1>15. CASE UndoHealth(u)
  BY <1>15 DEF UndoHealth, Goto, host, local, OneCheck, Return, Pair
<1>16. CASE Cancel(u)
  BY <1>16 DEF Cancel, Goto, host, local, Pair
<1>17. CASE Kill(u)
  BY <1>17 DEF Kill, Goto, host, local, Pair
<1> QED
  BY <1>1, <1>2, <1>3, <1>4, <1>5, <1>6, <1>7, <1>8, <1>9, <1>10, <1>11, <1>12, <1>13, <1>14, <1>15, <1>16, <1>17 DEF Step

LEMMA ServiceStagedStep ==
    ASSUME NEW u \in Updaters, Step(u) \/ Cancel(u) \/ Kill(u), TypeOK, FilesStaged(u), ServiceStaged(u)
    PROVE  ServiceStaged(u)'
<1> USE DEF TypeOK, FilesTyped, ControlTyped, FilesStaged, ServiceStaged, Definition
<1>1. CASE Choose(u)
  BY <1>1 DEF Choose, ChooseCurrent, ChooseRequested, Goto, host, local, Pair, Down
<1>2. CASE Lock(u)
  BY <1>2 DEF Lock, Goto, host, local, Pair, Down
<1>3. CASE Fetch(u)
  BY <1>3 DEF Fetch, Goto, host, local, Return, Pair, Down
<1>4. CASE Stop(u)
  BY <1>4 DEF Stop, Goto, host, local, Return, StopService, Pair, Down
<1>5. CASE ReplaceBinary(u)
  BY <1>5 DEF ReplaceBinary, Goto, host, local, Pair, Down
<1>6. CASE ReplaceService(u)
  BY <1>6 DEF ReplaceService, Goto, host, local, Pair, Down
<1>7. CASE Verify(u)
  BY <1>7 DEF Verify, Goto, host, local, Pair, Down
<1>8. CASE Reload(u)
  BY <1>8 DEF Reload, Goto, host, local, Pair, Down
<1>9. CASE Start(u)
  BY <1>9 DEF Start, Goto, host, local, StartService, Pair, Down
<1>10. CASE Health(u)
  BY <1>10 DEF Health, Goto, host, local, OneCheck, Return, Pair, Down
<1>11. CASE UndoBinary(u)
  BY <1>11 DEF UndoBinary, Goto, host, local, Pair, Down
<1>12. CASE UndoService(u)
  BY <1>12 DEF UndoService, Goto, host, local, Pair, Down
<1>13. CASE UndoReload(u)
  BY <1>13 DEF UndoReload, Goto, host, local, Pair, Down
<1>14. CASE UndoStart(u)
  BY <1>14 DEF UndoStart, Goto, host, local, StartService, Return, Pair, Down
<1>15. CASE UndoHealth(u)
  BY <1>15 DEF UndoHealth, Goto, host, local, OneCheck, Return, Pair, Down
<1>16. CASE Cancel(u)
  BY <1>16 DEF Cancel, Goto, host, local, Pair, Down
<1>17. CASE Kill(u)
  BY <1>17 DEF Kill, Goto, host, local, Pair, Down
<1> QED
  BY <1>1, <1>2, <1>3, <1>4, <1>5, <1>6, <1>7, <1>8, <1>9, <1>10, <1>11, <1>12, <1>13, <1>14, <1>15, <1>16, <1>17 DEF Step

(* Steps of the service manager. *)
LEMMA SurroundingsStaged ==
    ASSUME NEW u \in Updaters, FilesStaged(u), ServiceStaged(u),
           ServiceDies \/ ServiceRespawns \/ UNCHANGED vars
    PROVE  FilesStaged(u)' /\ ServiceStaged(u)'
<1> USE DEF FilesStaged, ServiceStaged, Definition
<1>1. CASE ServiceDies
  BY <1>1 DEF ServiceDies, local
<1>2. CASE ServiceRespawns
  BY <1>2 DEF ServiceRespawns, local
<1>3. CASE UNCHANGED vars
  BY <1>3 DEF vars
<1> QED
  BY <1>1, <1>2, <1>3

LEMMA SurroundingsRollback ==
    ASSUME NEW u \in Updaters, RollbackStaged(u),
           ServiceDies \/ ServiceRespawns \/ UNCHANGED vars
    PROVE  RollbackStaged(u)'
<1> USE DEF RollbackStaged, Definition, Unsynced
<1>1. CASE ServiceDies
  BY <1>1 DEF ServiceDies, local
<1>2. CASE ServiceRespawns
  BY <1>2 DEF ServiceRespawns, local
<1>3. CASE UNCHANGED vars
  BY <1>3 DEF vars
<1> QED
  BY <1>1, <1>2, <1>3

(* The rollback. *)
LEMMA RollbackStagedStep ==
    ASSUME NEW u \in Updaters, Step(u) \/ Cancel(u) \/ Kill(u), TypeOK, FilesStaged(u), RollbackStaged(u), "reload" \notin Environment
    PROVE  RollbackStaged(u)'
<1> USE DEF TypeOK, FilesTyped, ControlTyped, FlagsTyped, FilesStaged, RollbackStaged, Definition, Unsynced
<1>1. CASE Choose(u)
  BY <1>1 DEF Choose, ChooseCurrent, ChooseRequested, Goto, host, local, Pair, Down, WriteOutcomes
<1>2. CASE Lock(u)
  BY <1>2 DEF Lock, Goto, host, local, Pair, Down, WriteOutcomes
<1>3. CASE Fetch(u)
  BY <1>3 DEF Fetch, Goto, host, local, Return, Pair, Down, WriteOutcomes
<1>4. CASE Stop(u)
  BY <1>4 DEF Stop, Goto, host, local, Return, StopService, Pair, Down, WriteOutcomes
<1>5. CASE ReplaceBinary(u)
  <2>1. PICK outcome \in WriteOutcomes :
           /\ binary' = IF outcome = "failed" THEN binary ELSE target[u]
           /\ replaced' = [replaced EXCEPT ![u] = outcome = "ok"]
           /\ Goto(u, IF outcome = "ok" THEN "service" ELSE "undo reload")
    BY <1>5 DEF ReplaceBinary
  <2>2. Pair(binary, service) = saved[u] /\ saved[u] \in Releases
    BY <1>5 DEF ReplaceBinary
  <2>3. UNCHANGED <<service, loaded, serving, target, saved, troubled, cancelled>>
    BY <1>5 DEF ReplaceBinary
  <2>4. CASE outcome = "ok"
    BY <2>1, <2>4 DEF Goto
  <2>5. CASE outcome = "failed"
    BY <2>1, <2>2, <2>3, <2>5 DEF Goto, Pair
  <2>6. CASE outcome = "unsure"
    <3>1. "sync" \in Environment
      BY <2>6 DEF WriteOutcomes
    <3>2. ~replaced'[u]
      BY <2>1, <2>6, Zenon
    <3>3. Pair(binary, service)' = Pair(target[u], saved[u].service)'
      <4>1. binary' = target'[u] /\ service' = service /\ saved'[u] = saved[u]
        BY <2>1, <2>3, <2>6
      <4>2. saved[u].service = service
        <5>1. Pair(binary, service).service = service
          BY DEF Pair
        <5> QED
          BY <2>2, <5>1, Zenon
      <4> QED
        BY <4>1, <4>2 DEF Pair
    <3>4. pc'[u] = "undo reload"
      BY <2>1, <2>6 DEF Goto
    <3> QED
      BY <3>1, <3>2, <3>3, <3>4
  <2> QED
    BY <2>1, <2>4, <2>5, <2>6 DEF WriteOutcomes
<1>6. CASE ReplaceService(u)
  BY <1>6 DEF ReplaceService, Goto, host, local, Pair, Down, WriteOutcomes
<1>7. CASE Verify(u)
  BY <1>7 DEF Verify, Goto, host, local, Pair, Down, WriteOutcomes
<1>8. CASE Reload(u)
  BY <1>8 DEF Reload, Goto, host, local, Pair, Down, WriteOutcomes
<1>9. CASE Start(u)
  BY <1>9 DEF Start, Goto, host, local, StartService, Pair, Down, WriteOutcomes
<1>10. CASE Health(u)
  BY <1>10 DEF Health, Goto, host, local, OneCheck, Return, Pair, Down, WriteOutcomes
<1>11. CASE UndoBinary(u)
  BY <1>11 DEF UndoBinary, Goto, host, local, Pair, Down, WriteOutcomes
<1>12. CASE UndoService(u)
  <2>1. PICK outcome \in {"ok", "failed", "unsure"} :
           /\ service' = IF outcome = "failed" THEN service ELSE saved[u].service
           /\ troubled' = [troubled EXCEPT ![u] = troubled[u] \/ outcome # "ok"]
    BY <1>12 DEF UndoService, WriteOutcomes
  <2>2. troubled'[u] <=> (troubled[u] \/ outcome # "ok")
    BY <2>1
  <2>3. pc[u] = "undo service" /\ pc'[u] = "undo reload" /\ binary' = binary /\ saved' = saved
    BY <1>12 DEF UndoService, Goto
  <2>4. saved[u] \in Releases
    OBVIOUS
  <2>5. CASE outcome = "ok"
    BY <2>1, <2>2, <2>3, <2>4, <2>5 DEF Pair, Releases
  <2>6. CASE outcome # "ok"
    BY <2>2, <2>3, <2>6
  <2> QED
    BY <2>1, <2>5, <2>6
<1>13. CASE UndoReload(u)
  BY <1>13 DEF UndoReload, Goto, host, local, Pair, Down, WriteOutcomes
<1>14. CASE UndoStart(u)
  BY <1>14 DEF UndoStart, Goto, host, local, StartService, Return, Pair, Down, WriteOutcomes
<1>15. CASE UndoHealth(u)
  BY <1>15 DEF UndoHealth, Goto, host, local, OneCheck, Return, Pair, Down, WriteOutcomes
<1>16. CASE Cancel(u)
  BY <1>16 DEF Cancel, Goto, host, local, Pair, Down, WriteOutcomes
<1>17. CASE Kill(u)
  BY <1>17 DEF Kill, Goto, host, local, Pair, Down, WriteOutcomes
<1> QED
  BY <1>1, <1>2, <1>3, <1>4, <1>5, <1>6, <1>7, <1>8, <1>9, <1>10, <1>11, <1>12, <1>13, <1>14, <1>15, <1>16, <1>17 DEF Step

-----------------------------------------------------------------------------

LEMMA UpdateInit == Init => RollbackInv
<1> SUFFICES ASSUME Init PROVE RollbackInv
  OBVIOUS
<1>1. \A u \in Updaters : pc[u] = "idle"
  BY DEF Init
<1>2. OneTransaction
  BY <1>1 DEF OneTransaction, Active, Transaction, Rollback
<1>3. \A u \in Updaters : FilesStaged(u) /\ ServiceStaged(u) /\ RollbackStaged(u)
  BY <1>1 DEF FilesStaged, ServiceStaged, RollbackStaged
<1> QED
  BY <1>2, <1>3, TypeInit DEF RollbackInv, UpdateInv

(* What an updater that does not move knows stays true. *)
LEMMA OtherUpdater ==
    ASSUME TypeOK, OneTransaction,
           NEW u \in Updaters, Step(u) \/ Cancel(u) \/ Kill(u), NEW v \in Updaters, v # u
    PROVE  /\ FilesStaged(v) => FilesStaged(v)'
           /\ ServiceStaged(v) => ServiceStaged(v)'
           /\ RollbackStaged(v) => RollbackStaged(v)'
<1>1. /\ pc'[v] = pc[v] /\ target'[v] = target[v] /\ saved'[v] = saved[v]
      /\ replaced'[v] = replaced[v] /\ troubled'[v] = troubled[v] /\ cancelled'[v] = cancelled[v]
  BY Frame
<1>2. CASE pc[v] \in Transaction
  <2>1. UNCHANGED host
    BY <1>2, HostFrame DEF OneTransaction, Active
  <2> QED
    BY <1>1, <2>1 DEF host, FilesStaged, ServiceStaged, RollbackStaged, Definition, Unsynced
<1>3. CASE pc[v] \notin Transaction
  BY <1>1, <1>3 DEF FilesStaged, ServiceStaged, RollbackStaged, Transaction, Rollback
<1> QED
  BY <1>2, <1>3

LEMMA UpdateStep == UpdateInv /\ [Next]_vars => UpdateInv'
<1> SUFFICES ASSUME UpdateInv, [Next]_vars PROVE UpdateInv'
  OBVIOUS
<1> USE DEF UpdateInv
<1>1. TypeOK'
  BY TypeStep
<1>2. ASSUME NEW u \in Updaters, Step(u) \/ Cancel(u) \/ Kill(u)
      PROVE  UpdateInv'
  <2>1. OneTransaction'
    BY <1>2, EveryStepMoves, TransactionStep DEF TypeOK
  <2>2. FilesStaged(u)' /\ ServiceStaged(u)'
    BY <1>2, FilesStagedStep, ServiceStagedStep
  <2>3. \A v \in Updaters : v # u => FilesStaged(v)' /\ ServiceStaged(v)'
    BY <1>2, OtherUpdater
  <2> QED
    BY <1>1, <2>1, <2>2, <2>3
<1>3. ASSUME ServiceDies \/ ServiceRespawns \/ UNCHANGED vars
      PROVE  UpdateInv'
  <2>1. OneTransaction'
    BY <1>3 DEF ServiceDies, ServiceRespawns, vars, OneTransaction, Active
  <2> QED
    BY <1>1, <1>3, <2>1, SurroundingsStaged
<1> QED
  BY <1>2, <1>3 DEF Next, AllEnded

LEMMA RollbackStep ==
    ASSUME "reload" \notin Environment
    PROVE  RollbackInv /\ [Next]_vars => RollbackInv'
<1> SUFFICES ASSUME RollbackInv, [Next]_vars PROVE RollbackInv'
  OBVIOUS
<1> USE DEF RollbackInv
<1>1. UpdateInv'
  BY UpdateStep
<1>2. ASSUME NEW u \in Updaters, Step(u) \/ Cancel(u) \/ Kill(u)
      PROVE  RollbackInv'
  <2>1. RollbackStaged(u)'
    BY <1>2, RollbackStagedStep DEF UpdateInv
  <2>2. \A v \in Updaters : v # u => RollbackStaged(v)'
    BY <1>2, OtherUpdater DEF UpdateInv
  <2> QED
    BY <1>1, <2>1, <2>2
<1>3. ASSUME ServiceDies \/ ServiceRespawns \/ UNCHANGED vars
      PROVE  RollbackInv'
  BY <1>1, <1>3, SurroundingsRollback
<1> QED
  BY <1>2, <1>3 DEF Next, AllEnded

(***************************************************************************)
(* The inductive invariant holds whatever fails: in particular every       *)
(* variable keeps its type.                                                *)
(***************************************************************************)
THEOREM UpdateInvariance == Spec => []UpdateInv
<1>1. Init => UpdateInv
  BY UpdateInit DEF RollbackInv
<1> QED
  BY <1>1, UpdateStep, PTL DEF Spec

(***************************************************************************)
(* The lock file keeps any number of updates apart, through failures,      *)
(* cancellations and kills at any step.                                    *)
(***************************************************************************)
THEOREM UpdatesExcludeEachOther == Spec => []OneTransaction
<1>1. UpdateInv => OneTransaction
  BY DEF UpdateInv
<1> QED
  BY <1>1, UpdateInvariance, PTL

(***************************************************************************)
(* Success is never reported for anything but the target release, both     *)
(* files of it, with the service running on them, whatever else failed,    *)
(* was cancelled or ran at the same time.                                  *)
(***************************************************************************)
THEOREM SuccessIsTheTarget == Spec => UpdatedIsTarget
<1> DEFINE A == \A u \in Updaters : pc[u] # "updated" /\ pc'[u] = "updated" =>
                  /\ Pair(binary, service) = Pair(target[u], target[u])
                  /\ serving = Pair(target[u], target[u])
<1>1. UpdateInv /\ [Next]_vars => [A]_vars
  <2> SUFFICES ASSUME UpdateInv, Next, NEW v \in Updaters,
                      pc[v] # "updated", pc'[v] = "updated"
               PROVE  /\ Pair(binary, service) = Pair(target[v], target[v])
                      /\ serving = Pair(target[v], target[v])
    BY DEF vars
  <2>1. PICK u \in Updaters : Step(u) \/ Cancel(u) \/ Kill(u)
    BY DEF Next, ServiceDies, ServiceRespawns, AllEnded, vars
  <2>2. v = u
    BY <2>1, Frame DEF UpdateInv
  <2>3. Health(u) /\ serving # Down
    BY <2>1, <2>2 DEF UpdateInv, TypeOK, ControlTyped, Step, Goto, Return, OneCheck, Choose, ChooseCurrent,
       ChooseRequested, Lock, Fetch, Stop, ReplaceBinary, ReplaceService, Verify, Reload, Start, Health, UndoBinary,
       UndoService, UndoReload, UndoStart, UndoHealth, Cancel, Kill
  <2>4. pc[u] = "health"
    BY <2>3 DEF Health
  <2> QED
    BY <2>2, <2>3, <2>4 DEF UpdateInv, FilesStaged, ServiceStaged
<1> QED
  BY <1>1, UpdateInvariance, PTL DEF Spec, UpdatedIsTarget

(***************************************************************************)
(* When no reload fails behind the rollback's back, a failure that is      *)
(* reported as rolled back has restored both files, except after a         *)
(* replacement that failed after its rename, and the service runs on what  *)
(* is installed where the start command restarts it.                       *)
(***************************************************************************)
THEOREM RollbackRestores ==
    ASSUME "reload" \notin Environment
    PROVE  Spec => RolledBackIsPrior
<1> DEFINE A == \A u \in Updaters : pc[u] # "rolled back" /\ pc'[u] = "rolled back" =>
                  /\ Pair(binary, service) = saved[u] \/ Unsynced(u)
                  /\ StartRestarts => serving = Pair(binary, service)
<1>1. RollbackInv /\ [Next]_vars => [A]_vars
  <2> SUFFICES ASSUME RollbackInv, Next, NEW v \in Updaters,
                      pc[v] # "rolled back", pc'[v] = "rolled back"
               PROVE  /\ Pair(binary, service) = saved[v] \/ Unsynced(v)
                      /\ StartRestarts => serving = Pair(binary, service)
    BY DEF vars
  <2>1. PICK u \in Updaters : Step(u) \/ Cancel(u) \/ Kill(u)
    BY DEF Next, ServiceDies, ServiceRespawns, AllEnded, vars
  <2>2. v = u
    BY <2>1, Frame DEF RollbackInv, UpdateInv
  <2>3. pc[u] = "undo health" /\ serving # Down /\ ~troubled[u]
    BY <2>1, <2>2 DEF RollbackInv, UpdateInv, TypeOK, ControlTyped, Step, Goto, Return, OneCheck,
       Choose, ChooseCurrent, ChooseRequested, Lock, Fetch, Stop, ReplaceBinary, ReplaceService,
       Verify, Reload, Start, Health,
       UndoBinary, UndoService, UndoReload, UndoStart, UndoHealth, Cancel, Kill
  <2> QED
    BY <2>2, <2>3 DEF RollbackInv, RollbackStaged
<1>2. RollbackInv /\ [Next]_vars => RollbackInv'
  BY RollbackStep
<1> QED
  BY <1>1, <1>2, UpdateInit, PTL DEF Spec, RolledBackIsPrior

(***************************************************************************)
(* Every variable keeps the shape of the code's state; in particular the   *)
(* health checks never count past their number.                            *)
(***************************************************************************)
THEOREM UpdateTypeCorrect == Spec => []TypeOK
<1>1. UpdateInv => TypeOK
  BY DEF UpdateInv
<1> QED
  BY <1>1, UpdateInvariance, PTL

(* A lock file that nobody will remove is that of a killed updater. *)
LockIsOwned == lock => \E u \in Updaters : pc[u] \in Transaction \cup {"killed"}

LEMMA OwnedStep == TypeOK /\ LockIsOwned /\ [Next]_vars => LockIsOwned'
<1> SUFFICES ASSUME TypeOK, LockIsOwned, [Next]_vars PROVE LockIsOwned'
  OBVIOUS
<1>1. ASSUME NEW u \in Updaters, Step(u) \/ Cancel(u) \/ Kill(u)
      PROVE  LockIsOwned'
  <2>1. Moves(u)
    BY <1>1, EveryStepMoves DEF TypeOK
  <2>2. \A v \in Updaters : v # u => pc'[v] = pc[v]
    BY <2>1 DEF Moves, TypeOK, ControlTyped
  <2>3. CASE lock /\ lock' = lock
    <3>1. PICK v \in Updaters : pc[v] \in Transaction \cup {"killed"}
      BY <2>3 DEF LockIsOwned
    <3>2. pc'[v] \in Transaction \cup {"killed"}
      BY <2>1, <2>2, <2>3, <3>1 DEF Moves
    <3> QED
      BY <3>2 DEF LockIsOwned
  <2>4. CASE ~lock /\ lock' # lock
    BY <2>1, <2>4 DEF Moves, LockIsOwned
  <2>5. CASE ~lock'
    BY <2>5 DEF LockIsOwned
  <2>6. lock \in BOOLEAN /\ lock' \in BOOLEAN
    BY TypeStep DEF TypeOK, FlagsTyped
  <2> QED
    BY <2>3, <2>4, <2>5, <2>6, Zenon
<1>2. ASSUME ServiceDies \/ ServiceRespawns \/ UNCHANGED vars
      PROVE  LockIsOwned'
  <2>1. UNCHANGED <<lock, pc>>
    BY <1>2 DEF ServiceDies, ServiceRespawns, vars, host, local
  <2> QED
    BY <2>1 DEF LockIsOwned
<1> QED
  BY <1>1, <1>2 DEF Next, AllEnded

(***************************************************************************)
(* No path through Run leaves the lock file behind, whichever step fails   *)
(* or is cancelled: while it exists an update is at work, or an updater    *)
(* was killed (update.go:102, the deferred os.Remove).                     *)
(***************************************************************************)
THEOREM LockHasOwner == Spec => []LockIsOwned
<1>1. Init => LockIsOwned
  BY DEF Init, LockIsOwned
<1> QED
  BY <1>1, UpdateTypeCorrect, OwnedStep, PTL DEF Spec

-----------------------------------------------------------------------------
(* Every release that can be installed has a name parseVersion admits.     *)
Named ==
    /\ IsVersion(Name[binary])
    /\ \A u \in Updaters : IsVersion(Name[target[u]]) /\ IsVersion(Name[saved[u].binary])

LEMMA NamedStep ==
    ASSUME NEW u \in Updaters, Step(u) \/ Cancel(u) \/ Kill(u), FilesTyped, Named
    PROVE  Named'
<1> USE DEF FilesTyped, Named, host, local, Pair
<1>1. CASE Choose(u)
  BY <1>1 DEF Choose, ChooseCurrent, ChooseRequested, Goto
<1>2. CASE Lock(u)
  BY <1>2 DEF Lock, Goto
<1>3. CASE Fetch(u)
  BY <1>3 DEF Fetch, Goto
<1>4. CASE Stop(u)
  BY <1>4 DEF Stop, Goto
<1>5. CASE ReplaceBinary(u)
  BY <1>5 DEF ReplaceBinary, Goto
<1>6. CASE ReplaceService(u)
  BY <1>6 DEF ReplaceService, Goto
<1>7. CASE Verify(u)
  BY <1>7 DEF Verify, Goto
<1>8. CASE Reload(u)
  BY <1>8 DEF Reload, Goto
<1>9. CASE Start(u)
  BY <1>9 DEF Start, Goto
<1>10. CASE Health(u)
  BY <1>10 DEF Health, Goto
<1>11. CASE UndoBinary(u)
  BY <1>11 DEF UndoBinary, Goto
<1>12. CASE UndoService(u)
  BY <1>12 DEF UndoService, Goto
<1>13. CASE UndoReload(u)
  BY <1>13 DEF UndoReload, Goto
<1>14. CASE UndoStart(u)
  BY <1>14 DEF UndoStart, Goto
<1>15. CASE UndoHealth(u)
  BY <1>15 DEF UndoHealth, Goto
<1>16. CASE Cancel(u)
  BY <1>16 DEF Cancel, Goto
<1>17. CASE Kill(u)
  BY <1>17 DEF Kill, Goto
<1> QED
  BY <1>1, <1>2, <1>3, <1>4, <1>5, <1>6, <1>7, <1>8, <1>9, <1>10, <1>11, <1>12, <1>13, <1>14, <1>15, <1>16, <1>17 DEF Step

(* Where an update may have changed the executable, and where it ended     *)
(* after that.                                                             *)
Touched == Transaction \ {"fetch", "stop"}

Ended == {"updated", "rolled back", "incomplete", "killed"}

LEMMA TouchedStep ==
    ASSUME NEW u \in Updaters, Step(u) \/ Cancel(u) \/ Kill(u), ControlTyped
    PROVE  /\ pc[u] \notin Ended
           /\ pc[u] \in Touched => pc'[u] \in Touched \cup Ended
           /\ pc[u] \notin Touched => binary' = binary
<1> USE DEF ControlTyped, Touched, Ended, Transaction, Rollback, host, local
<1>1. CASE Choose(u)
  BY <1>1 DEF Choose, ChooseCurrent, ChooseRequested, Goto, Return, OneCheck
<1>2. CASE Lock(u)
  BY <1>2 DEF Lock, Goto, Return, OneCheck
<1>3. CASE Fetch(u)
  BY <1>3 DEF Fetch, Goto, Return, OneCheck
<1>4. CASE Stop(u)
  BY <1>4 DEF Stop, Goto, Return, OneCheck
<1>5. CASE ReplaceBinary(u)
  BY <1>5 DEF ReplaceBinary, Goto, Return, OneCheck
<1>6. CASE ReplaceService(u)
  BY <1>6 DEF ReplaceService, Goto, Return, OneCheck
<1>7. CASE Verify(u)
  BY <1>7 DEF Verify, Goto, Return, OneCheck
<1>8. CASE Reload(u)
  BY <1>8 DEF Reload, Goto, Return, OneCheck
<1>9. CASE Start(u)
  BY <1>9 DEF Start, Goto, Return, OneCheck
<1>10. CASE Health(u)
  BY <1>10 DEF Health, Goto, Return, OneCheck
<1>11. CASE UndoBinary(u)
  BY <1>11 DEF UndoBinary, Goto, Return, OneCheck
<1>12. CASE UndoService(u)
  BY <1>12 DEF UndoService, Goto, Return, OneCheck
<1>13. CASE UndoReload(u)
  BY <1>13 DEF UndoReload, Goto, Return, OneCheck
<1>14. CASE UndoStart(u)
  BY <1>14 DEF UndoStart, Goto, Return, OneCheck
<1>15. CASE UndoHealth(u)
  BY <1>15 DEF UndoHealth, Goto, Return, OneCheck
<1>16. CASE Cancel(u)
  BY <1>16 DEF Cancel, Goto, Return, OneCheck
<1>17. CASE Kill(u)
  BY <1>17 DEF Kill, Goto, Return, OneCheck
<1> QED
  BY <1>1, <1>2, <1>3, <1>4, <1>5, <1>6, <1>7, <1>8, <1>9, <1>10, <1>11, <1>12, <1>13, <1>14, <1>15, <1>16, <1>17 DEF Step

(* What compareVersions < 0 says of two releases. *)
Above(v, w) == Precedes(Name[v], Name[w]) \/ Misordered(Name[v], Name[w])

(* What a follower's comparison is worth until it replaces the executable. *)
Fresh(u) ==
    u \notin Requesters /\ pc[u] \in {"lock", "fetch", "stop", "binary"} =>
        \/ Above(binary, target[u])
        \/ Interfered(u)
        \/ pc[u] = "lock" /\ \E v \in Updaters \ {u} : pc[v] \in Touched

LEMMA NewerIsAbove ==
    ASSUME FilesTyped, Named, NEW v \in Versions, IsVersion(Name[v]), Newer(v)
    PROVE  Above(binary, v)
<1>1. Name[binary] \in Texts(Identifiers \cup {""}) /\ Name[v] \in Texts(Identifiers \cup {""})
  BY NameAssumption DEF FilesTyped
<1>2. compareVersions(Name[binary], Name[v]) = -1
  <2>1. compareVersions(Name[binary], Name[v]) \in {-1, 0, 1}
    BY DEF compareVersions, compareCores, comparePrereleases, compareIdentifiers, compareTexts, Sign
  <2>2. compareVersions(Name[binary], Name[v]) < 0
    BY DEF Newer
  <2> QED
    BY <2>1, <2>2
<1> QED
  BY <1>1, <1>2, CompareIsPrecedence DEF Named, Above

(* The follower's own step. *)
LEMMA FreshOwnStep ==
    ASSUME NEW u \in Updaters, Step(u) \/ Cancel(u) \/ Kill(u),
           TypeOK, OneTransaction, Named, Fresh(u)
    PROVE  Fresh(u)'
<1> SUFFICES ASSUME u \notin Requesters, pc'[u] \in {"lock", "fetch", "stop", "binary"}
             PROVE  \/ Above(binary, target[u])'
                    \/ Interfered(u)'
                    \/ pc'[u] = "lock" /\ \E v \in Updaters \ {u} : pc'[v] \in Touched
  BY DEF Fresh
<1>1. CASE Choose(u)
  <2>1. PICK v \in Versions :
            IsVersion(Name[v]) /\ Newer(v) /\ target' = [target EXCEPT ![u] = v]
    BY <1>1 DEF Choose, ChooseCurrent, ChooseRequested, Goto, TypeOK, ControlTyped
  <2>2. Above(binary, v)
    BY <2>1, NewerIsAbove DEF TypeOK, FilesTyped
  <2>3. binary' = binary /\ target'[u] = v
    BY <1>1, <2>1 DEF Choose, host, TypeOK, FilesTyped
  <2> QED
    BY <2>2, <2>3
<1>2. CASE pc[u] \in {"lock", "fetch", "stop"} /\ ~Choose(u)
  <2>1. \/ Above(binary, target[u])
        \/ Interfered(u)
        \/ pc[u] = "lock" /\ \E v \in Updaters \ {u} : pc[v] \in Touched
    BY <1>2 DEF Fresh
  <2>2. binary' = binary /\ target' = target
    <3>1. pc[u] \notin Touched
      BY <1>2 DEF Touched, Transaction, Rollback
    <3>2. binary' = binary
      BY <3>1, TouchedStep DEF TypeOK
    <3>3. target' = target
      BY <1>2 DEF Step, Lock, Fetch, Stop, ReplaceBinary, ReplaceService, Verify, Reload, Start,
         Health, UndoBinary, UndoService, UndoReload, UndoStart, UndoHealth, Cancel, Kill, local
    <3> QED
      BY <3>2, <3>3
  <2>3. \A v \in Updaters \ {u} : pc'[v] = pc[v]
    BY Frame
  <2>4. Interfered(u) => Interfered(u)'
    BY <2>3 DEF Interfered
  <2>5. CASE pc[u] = "lock" /\ \E v \in Updaters \ {u} : pc[v] \in Touched
    <3>1. lock
      BY <2>5 DEF OneTransaction, Active, Touched
    <3>2. pc'[u] = "lock"
      BY <1>2, <2>5, <3>1 DEF Step, Lock, Fetch, Stop, ReplaceBinary, ReplaceService, Verify,
         Reload, Start, Health, UndoBinary, UndoService, UndoReload, UndoStart, UndoHealth,
         Cancel, Kill, Goto, TypeOK, ControlTyped
    <3> QED
      BY <2>3, <2>5, <3>2
  <2> QED
    BY <2>1, <2>2, <2>4, <2>5
<1>3. CASE pc[u] = "binary"
  <2>1. Cancel(u) /\ UNCHANGED <<binary, target, pc>>
    BY <1>3 DEF Step, Choose, Lock, Fetch, Stop, ReplaceBinary, ReplaceService, Verify, Reload,
       Start, Health, UndoBinary, UndoService, UndoReload, UndoStart, UndoHealth, Cancel, Kill,
       Goto, TypeOK, ControlTyped, host
  <2> QED
    BY <1>3, <2>1 DEF Fresh, Interfered
<1>4. Choose(u) \/ pc[u] \in {"lock", "fetch", "stop", "binary"}
  BY DEF Step, Choose, Lock, Fetch, Stop, ReplaceBinary, ReplaceService, Verify, Reload, Start,
     Health, UndoBinary, UndoService, UndoReload, UndoStart, UndoHealth, Cancel, Kill, Goto,
     Return, OneCheck, TypeOK, ControlTyped
<1> QED
  BY <1>1, <1>2, <1>3, <1>4

(* Somebody else's step. *)
LEMMA FreshOtherStep ==
    ASSUME NEW u \in Updaters, Step(u) \/ Cancel(u) \/ Kill(u), NEW w \in Updaters, w # u,
           TypeOK, OneTransaction, Fresh(w)
    PROVE  Fresh(w)'
<1>1. pc'[w] = pc[w] /\ target'[w] = target[w] /\ \A v \in Updaters \ {u} : pc'[v] = pc[v]
  BY Frame
<1>2. pc[u] \notin Ended /\ (pc[u] \in Touched => pc'[u] \in Touched \cup Ended)
      /\ (pc[u] \notin Touched => binary' = binary)
  BY TouchedStep DEF TypeOK
<1>3. Interfered(w) => Interfered(w)'
  BY <1>1, <1>2 DEF Interfered, Ended
<1>4. CASE pc[u] \in Touched
  <2>1. pc[w] \notin Transaction
    BY <1>4 DEF OneTransaction, Active, Touched
  <2>2. pc'[u] \in Ended => Interfered(w)'
    BY DEF Interfered, Ended
  <2> QED
    BY <1>1, <1>2, <1>4, <2>1, <2>2 DEF Fresh, Transaction
<1>5. CASE pc[u] \notin Touched
  BY <1>1, <1>2, <1>3, <1>5 DEF Fresh
<1> QED
  BY <1>4, <1>5

FollowInv == UpdateInv /\ Named /\ \A u \in Updaters : Fresh(u)

LEMMA FollowInit == Init => FollowInv
<1> SUFFICES ASSUME Init PROVE FollowInv
  OBVIOUS
<1>1. UpdateInv
  BY UpdateInit DEF RollbackInv
<1>2. Named
  BY NameAssumption DEF Init, Named, Pair
<1>3. \A u \in Updaters : Fresh(u)
  BY DEF Init, Fresh
<1> QED
  BY <1>1, <1>2, <1>3 DEF FollowInv

LEMMA FollowStep == FollowInv /\ [Next]_vars => FollowInv'
<1> SUFFICES ASSUME FollowInv, [Next]_vars PROVE FollowInv'
  OBVIOUS
<1> USE DEF FollowInv
<1>1. UpdateInv'
  BY UpdateStep
<1>2. ASSUME NEW u \in Updaters, Step(u) \/ Cancel(u) \/ Kill(u)
      PROVE  FollowInv'
  <2>1. Named'
    BY <1>2, NamedStep DEF UpdateInv, TypeOK
  <2>2. Fresh(u)'
    BY <1>2, FreshOwnStep DEF UpdateInv
  <2>3. \A w \in Updaters : w # u => Fresh(w)'
    BY <1>2, FreshOtherStep DEF UpdateInv
  <2> QED
    BY <1>1, <2>1, <2>2, <2>3
<1>3. ASSUME ServiceDies \/ ServiceRespawns \/ UNCHANGED vars
      PROVE  FollowInv'
  <2>1. UNCHANGED <<binary, pc, target, saved>>
    BY <1>3 DEF ServiceDies, ServiceRespawns, vars, host, local
  <2> QED
    BY <1>1, <2>1 DEF Named, Fresh, Interfered
<1> QED
  BY <1>2, <1>3 DEF Next, AllEnded

(***************************************************************************)
(* An update that follows the application never replaces the executable by *)
(* a release that is not above it in semantic versioning's precedence,     *)
(* unless another update was at work since it compared them or the names   *)
(* are Misordered.                                                         *)
(***************************************************************************)
THEOREM FollowersNeverDowngrade == Spec => NeverDowngrades
<1> DEFINE A == \A u \in Updaters \ Requesters : pc[u] = "binary" /\ binary' # binary =>
                  \/ Precedes(Name[binary], Name[target[u]])
                  \/ Misordered(Name[binary], Name[target[u]])
                  \/ Interfered(u)
<1>1. FollowInv => A
  BY DEF FollowInv, Fresh, Above
<1> QED
  BY <1>1, FollowInit, FollowStep, PTL DEF Spec, NeverDowngrades

=============================================================================
