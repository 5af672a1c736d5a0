----------------------------- MODULE FiniteOrders -----------------------------
(***************************************************************************)
(* Facts about sets of natural numbers and about sequences made of sets    *)
(* that the proofs of several components cite.  The least element of a set *)
(* stands in for induction: a property of all numbers has no least         *)
(* counterexample.                                                         *)
(***************************************************************************)
EXTENDS Integers, Sequences, SequencesExt, FiniteSetTheorems, SequenceTheorems, TLAPS

\* A set of natural numbers has a least element.
LEMMA LeastExists ==
    ASSUME NEW T \in SUBSET Nat, T # {}
    PROVE  \E n \in T : \A m \in T : n <= m
<1> DEFINE R == OpToRel(<, Nat)
<1>1. PICK n \in T : \A m \in T : ~(<<m, n>> \in R)
  <2>1. IsWellFoundedOn(R, Nat)
    BY NatLessThanWellFounded
  <2> HIDE DEF R
  <2> QED BY <2>1, WFMin
<1>2. ASSUME NEW m \in T, m < n PROVE FALSE
  BY <1>1, <1>2 DEF OpToRel
<1> QED
  BY <1>2

\* A set of natural numbers below a bound has a greatest element.
LEMMA GreatestExists ==
    ASSUME NEW T \in SUBSET Nat, T # {}, NEW b \in Nat, \A m \in T : m <= b
    PROVE  \E n \in T : \A m \in T : m <= n
<1> DEFINE U == {u \in Nat : \A m \in T : m <= u}
<1>1. PICK n \in U : \A m \in U : n <= m
  <2> b \in U
    OBVIOUS
  <2> QED BY LeastExists
<1>2. CASE n \in T
  BY <1>2
<1>3. CASE n \notin T
  <2>1. \A m \in T : m <= n - 1
    BY <1>3
  <2>2. n >= 1
    <3>1. PICK m \in T : TRUE
      OBVIOUS
    <3> QED BY <2>1, <3>1
  <2>3. n - 1 \in U
    BY <2>1, <2>2
  <2> QED BY <1>1, <2>3
<1> QED BY <1>2, <1>3

\* A finite set of natural numbers has a greatest element: the one with the
\* most elements up to it.
LEMMA FiniteGreatest ==
    ASSUME NEW T \in SUBSET Nat, T # {}, IsFiniteSet(T)
    PROVE  \E n \in T : \A m \in T : m <= n
<1> DEFINE UpTo(n) == {m \in T : m <= n}
           Ranks == {Cardinality(UpTo(n)) : n \in T}
<1>1. \A n \in T : /\ IsFiniteSet(UpTo(n)) /\ Cardinality(UpTo(n)) \in Nat
                   /\ Cardinality(UpTo(n)) <= Cardinality(T)
  <2> TAKE n \in T
  <2> UpTo(n) \in SUBSET T
    OBVIOUS
  <2> QED BY FS_Subset, FS_CardinalityType
<1>2. PICK r \in Ranks : \A q \in Ranks : q <= r
  <2>1. Ranks \in SUBSET Nat /\ Ranks # {}
    BY <1>1
  <2>2. Cardinality(T) \in Nat /\ \A q \in Ranks : q <= Cardinality(T)
    BY <1>1, FS_CardinalityType
  <2> QED BY <2>1, <2>2, GreatestExists
<1>3. PICK n \in T : r = Cardinality(UpTo(n))
  BY <1>2
<1>4. ASSUME NEW m \in T, ~(m <= n) PROVE FALSE
  <2>1. UpTo(n) \in SUBSET UpTo(m) /\ m \in UpTo(m) /\ m \notin UpTo(n)
    <3>1. n \in Nat /\ m \in Nat /\ n < m
      BY <1>4
    <3>2. \A x \in T : x <= n => x <= m
      BY <3>1
    <3>3. UpTo(n) \subseteq UpTo(m)
      BY <3>2
    <3>4. m \in UpTo(m) /\ m \notin UpTo(n)
      BY <3>1
    <3> QED BY <3>3, <3>4
  <2>2. Cardinality(UpTo(n)) <= Cardinality(UpTo(m)) /\ Cardinality(UpTo(n)) # Cardinality(UpTo(m))
    BY <1>1, <2>1, FS_Subset
  <2>3. Cardinality(UpTo(m)) <= Cardinality(UpTo(n))
    BY <1>2, <1>3
  <2>4. Cardinality(UpTo(n)) \in Nat /\ Cardinality(UpTo(m)) \in Nat
    BY <1>1
  <2> HIDE DEF UpTo
  <2> QED BY <2>2, <2>3, <2>4
<1> QED BY <1>4

\* SetToSeq lists every element of a finite set once.
LEMMA SetToSeqLists ==
    ASSUME NEW S, IsFiniteSet(S)
    PROVE  /\ Cardinality(S) \in Nat
           /\ SetToSeq(S) \in Seq(S) /\ Len(SetToSeq(S)) = Cardinality(S)
           /\ IsInjective(SetToSeq(S))
           /\ \A x \in S : \E i \in DOMAIN SetToSeq(S) : SetToSeq(S)[i] = x
<1>1. Cardinality(S) \in Nat /\ IsFiniteSet(1 .. Cardinality(S))
  BY FS_CardinalityType, FS_Interval
<1>2. Cardinality(1 .. Cardinality(S)) = Cardinality(S)
  BY <1>1, FS_Interval
<1>3. \E f \in [1 .. Cardinality(S) -> S] : IsInjective(f)
  <2>1. PICK f : f \in Bijection(1 .. Cardinality(S), S)
    BY FS_CardinalityType DEF ExistsBijection
  <2> QED BY <2>1 DEF Bijection, Injection, IsInjective
<1>4. SetToSeq(S) \in [1 .. Cardinality(S) -> S] /\ IsInjective(SetToSeq(S))
  BY <1>3 DEF SetToSeq
<1>5. SetToSeq(S) \in Injection(1 .. Cardinality(S), S)
  BY <1>4 DEF Injection, IsInjective
<1>6. SetToSeq(S) \in Surjection(1 .. Cardinality(S), S)
  BY <1>1, <1>2, <1>5, FS_Injection
<1>7. SetToSeq(S) \in Seq(S) /\ Len(SetToSeq(S)) = Cardinality(S)
  BY <1>1, <1>4
<1> QED
  BY <1>1, <1>4, <1>6, <1>7 DEF Surjection

\* Two lists without repetition and without a common element, one after the
\* other, are one.
LEMMA ConcatInjective ==
    ASSUME NEW S, NEW s \in Seq(S), NEW u \in Seq(S)
    PROVE  /\ IsInjective(s) /\ IsInjective(u) /\ Range(s) \cap Range(u) = {}
              => IsInjective(s \o u)
           /\ IsInjective(s \o u) =>
                 IsInjective(s) /\ IsInjective(u) /\ Range(s) \cap Range(u) = {}
<1> DEFINE w == s \o u
<1>1. /\ DOMAIN s = 1 .. Len(s) /\ DOMAIN u = 1 .. Len(u)
      /\ Len(s) \in Nat /\ Len(u) \in Nat
  BY LenProperties
<1>2. /\ DOMAIN w = 1 .. Len(s) + Len(u)
      /\ \A i \in DOMAIN s : w[i] = s[i]
      /\ \A i \in DOMAIN u : w[i + Len(s)] = u[i]
      /\ \A i \in DOMAIN w : i \notin DOMAIN s => i - Len(s) \in DOMAIN u /\ w[i] = u[i - Len(s)]
  BY <1>1, ConcatProperties, LenProperties
<1> HIDE DEF w
<1>3. ASSUME IsInjective(s), IsInjective(u), Range(s) \cap Range(u) = {} PROVE IsInjective(w)
  <2>0. \A i \in DOMAIN s, j \in DOMAIN u : s[i] # u[j]
    BY <1>3 DEF Range
  <2>1. ASSUME NEW i \in DOMAIN w, NEW j \in DOMAIN w, w[i] = w[j] PROVE i = j
    <3>1. CASE i \in DOMAIN s /\ j \in DOMAIN s
      BY <1>2, <1>3, <2>1, <3>1 DEF IsInjective
    <3>2. CASE i \notin DOMAIN s /\ j \notin DOMAIN s
      <4>1. i - Len(s) = j - Len(s)
        BY <1>2, <1>3, <2>1, <3>2 DEF IsInjective
      <4> QED BY <1>1, <1>2, <4>1
    <3>3. CASE i \in DOMAIN s /\ j \notin DOMAIN s
      BY <1>2, <2>0, <2>1, <3>3
    <3>4. CASE i \notin DOMAIN s /\ j \in DOMAIN s
      BY <1>2, <2>0, <2>1, <3>4
    <3> QED BY <3>1, <3>2, <3>3, <3>4
  <2> QED BY <2>1 DEF IsInjective
<1>4. ASSUME IsInjective(w)
      PROVE  IsInjective(s) /\ IsInjective(u) /\ Range(s) \cap Range(u) = {}
  <2>1. ASSUME NEW i \in DOMAIN s, NEW j \in DOMAIN s, s[i] = s[j] PROVE i = j
    BY <1>1, <1>2, <1>4, <2>1 DEF IsInjective
  <2>2. ASSUME NEW i \in DOMAIN u, NEW j \in DOMAIN u, u[i] = u[j] PROVE i = j
    <3>1. i + Len(s) \in DOMAIN w /\ j + Len(s) \in DOMAIN w
      BY <1>1, <1>2
    <3>2. i + Len(s) = j + Len(s)
      BY <1>2, <1>4, <2>2, <3>1 DEF IsInjective
    <3> QED BY <1>1, <3>2
  <2>3. ASSUME NEW i \in DOMAIN s, NEW j \in DOMAIN u, s[i] = u[j] PROVE FALSE
    <3>1. i \in DOMAIN w /\ j + Len(s) \in DOMAIN w /\ i # j + Len(s)
      BY <1>1, <1>2
    <3> QED BY <1>2, <1>4, <2>3, <3>1 DEF IsInjective
  <2> QED BY <2>1, <2>2, <2>3 DEF IsInjective, Range
<1> QED BY <1>3, <1>4 DEF w

\* Moving the head of one list to the end of another leaves their
\* concatenation as it was.
LEMMA MoveHead ==
    ASSUME NEW S, NEW s \in Seq(S), NEW u \in Seq(S), u # <<>>
    PROVE  Append(s, Head(u)) \o Tail(u) = s \o u
<1>1. Head(u) \in S /\ Tail(u) \in Seq(S) /\ Append(s, Head(u)) \in Seq(S)
  BY HeadTailProperties
<1> QED BY <1>1
===============================================================================
