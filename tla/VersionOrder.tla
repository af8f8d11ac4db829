---------------------------- MODULE VersionOrder ----------------------------
(***************************************************************************)
(* Release names and their order (src/internal/agentupdate/version.go).    *)
(* What stands between two dots is an identifier; of its characters the    *)
(* model keeps whether they are digits only and which number they then     *)
(* spell, what strconv.Atoi makes of them, and their place among strings.  *)
(* The two readings differ: Atoi takes a sign ("-1") and stops at MaxInt.  *)
(***************************************************************************)
EXTENDS Integers, Sequences

CONSTANTS
    Identifiers,  \* words of letters, digits and hyphens
    Digits,       \* those of digits only
    Value,        \* the number that digits spell
    MaxInt,       \* the greatest int
    Numeric,      \* those strconv.Atoi accepts
    Padded,       \* those with a zero before other characters
    Number,       \* what strconv.Atoi returns
    Rank          \* the place in the order of strings

ASSUME OrderAssumption ==
    /\ Digits \subseteq Identifiers
    /\ Value \in [Digits -> Nat]
    /\ MaxInt \in Nat
    /\ Numeric \subseteq Identifiers
    /\ Padded \subseteq Identifiers
    /\ Number \in [Numeric -> Int]
    /\ \A d \in Digits : d \in Numeric <=> Value[d] <= MaxInt
    /\ \A d \in Digits \cap Numeric : Number[d] = Value[d]
    /\ Rank \in [Identifiers -> Int]
    /\ \A x, y \in Identifiers : Rank[x] = Rank[y] => x = y

(* A text X.Y.Z-pre+build; without "-pre" the sequence is empty. *)
Texts(Words) == [core : Seq(Words), pre : Seq(Words), build : BOOLEAN]

(* The core ends at the first hyphen, so that no sign can stand in it.     *)
CoreNumber(item) == item \in Digits \cap Numeric /\ item \notin Padded

(* parseVersion returns no error. *)
IsVersion(text) ==
    /\ Len(text.core) = 3
    /\ \A i \in 1 .. 3 : CoreNumber(text.core[i])
    /\ \A i \in DOMAIN text.pre : text.pre[i] \in Identifiers

parseVersion(text) ==
    [core |-> [i \in 1 .. 3 |-> Number[text.core[i]]], pre |-> text.pre]

Differences(s, t) == {i \in DOMAIN s \cap DOMAIN t : s[i] # t[i]}

First(S) == CHOOSE i \in S : \A j \in S : i <= j

Sign(m, n) == IF m < n THEN -1 ELSE IF m > n THEN 1 ELSE 0

(* Of two different identifiers. *)
compareTexts(left, right) == IF Rank[left] < Rank[right] THEN -1 ELSE 1

compareAsTexts(left, right) == compareTexts(left, right)

compareIdentifiers(left, right) ==
    IF left \in Numeric
    THEN IF right \in Numeric
         THEN IF Number[left] < Number[right] THEN -1 ELSE 1
         ELSE -1
    ELSE IF right \in Numeric THEN 1 ELSE compareTexts(left, right)

compareCores(s, t) ==
    IF Differences(s, t) = {} THEN 0
    ELSE LET i == First(Differences(s, t)) IN Sign(s[i], t[i])

(* A release comes after its prereleases. *)
comparePrereleases(s, t) ==
    IF s = <<>> /\ t = <<>> THEN 0
    ELSE IF s = <<>> THEN 1
    ELSE IF t = <<>> THEN -1
    ELSE IF Differences(s, t) = {} THEN Sign(Len(s), Len(t))
    ELSE LET i == First(Differences(s, t)) IN compareIdentifiers(s[i], t[i])

compareVersions(first, second) ==
    LET a == parseVersion(first)
        b == parseVersion(second)
    IN  IF compareCores(a.core, b.core) # 0
        THEN compareCores(a.core, b.core)
        ELSE comparePrereleases(a.pre, b.pre)

-----------------------------------------------------------------------------
(***************************************************************************)
(* The reference: precedence as semantic versioning states it.  Nothing of *)
(* it looks at what strconv.Atoi accepts or returns.                       *)
(***************************************************************************)
CoreValues(text) == [i \in 1 .. 3 |-> Value[text.core[i]]]

(* Digits compare as numbers and come before every other identifier.       *)
IdentifierOrder ==
    {pair \in Identifiers \X Identifiers :
        LET x == pair[1]
            y == pair[2]
        IN  \/ x \in Digits /\ y \in Digits /\ Value[x] < Value[y]
            \/ x \in Digits /\ y \notin Digits
            \/ x \notin Digits /\ y \notin Digits /\ Rank[x] < Rank[y]}

CorePrecedes(s, t) ==
    \E k \in 1 .. 3 : s[k] < t[k] /\ \A i \in 1 .. k - 1 : s[i] = t[i]

(* At the first place where they differ, or because t goes on. *)
PrereleasePrecedes(s, t, Order) ==
    /\ s # <<>>
    /\ \/ t = <<>>
       \/ \E k \in DOMAIN t :
             /\ \A i \in 1 .. k - 1 : i \in DOMAIN s /\ s[i] = t[i]
             /\ k \in DOMAIN s => <<s[k], t[k]>> \in Order

Precedes(first, second) ==
    \/ CorePrecedes(CoreValues(first), CoreValues(second))
    \/ /\ CoreValues(first) = CoreValues(second)
       /\ PrereleasePrecedes(first.pre, second.pre, IdentifierOrder)

(***************************************************************************)
(* Two prereleases of one X.Y.Z, one of which has an identifier that       *)
(* strconv.Atoi does not read as semantic versioning does: a hyphen before *)
(* digits, or digits for a number greater than MaxInt (version.go:87).     *)
(***************************************************************************)
Misread(identifier) == (identifier \in Digits) # (identifier \in Numeric)

Misordered(first, second) ==
    /\ CoreValues(first) = CoreValues(second)
    /\ first.pre # <<>> /\ second.pre # <<>>
    /\ \/ \E i \in DOMAIN first.pre : Misread(first.pre[i])
       \/ \E i \in DOMAIN second.pre : Misread(second.pre[i])
=============================================================================
