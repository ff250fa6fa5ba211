-------------------------------- MODULE Lemmas --------------------------------
(***************************************************************************)
(* Lemmas that the proofs of several components need: how many elements a  *)
(* set has that gains or loses one, at which positions something is in a   *)
(* sequence, induction and recursion over positions, and what the folds of *)
(* the community modules compute.                                          *)
(***************************************************************************)
EXTENDS Integers, Sequences, SequencesExt, FiniteSetTheorems, FunctionTheorems,
        SequenceTheorems, WellFoundedInduction, TLAPS

LEMMA WithOneMore ==
    ASSUME NEW S, IsFiniteSet(S), NEW x, x \notin S, NEW T, T = S \cup {x}
    PROVE  Cardinality(T) = Cardinality(S) + 1
<1>1. Cardinality(S \cup {x}) = IF x \in S THEN Cardinality(S) ELSE Cardinality(S) + 1
  BY FS_AddElement, Zenon
<1>. QED  BY <1>1, Zenon

LEMMA WithOneLess ==
    ASSUME NEW S, IsFiniteSet(S), NEW x, x \in S, NEW T, T = S \ {x}
    PROVE  Cardinality(T) = Cardinality(S) - 1
<1>1. Cardinality(S \ {x}) = IF x \in S THEN Cardinality(S) - 1 ELSE Cardinality(S)
  BY FS_RemoveElement, Zenon
<1>. QED  BY <1>1, Zenon

LEMMA PositionsAreFinite ==
    ASSUME NEW n \in Nat, NEW S, S \subseteq 1 .. n
    PROVE  IsFiniteSet(S) /\ Cardinality(S) \in Nat
<1>1. 1 \in Int /\ n \in Int
  OBVIOUS
<1>2. IsFiniteSet(1 .. n)
  BY <1>1, FS_Interval, Zenon
<1>3. IsFiniteSet(S)
  BY <1>2, FS_Subset, Zenon
<1>. QED  BY <1>3, FS_CardinalityType, Zenon

(* Taking the head of a sequence moves what is behind it by one position.   *)
LEMMA MovedPositions ==
    ASSUME NEW S \in SUBSET (Nat \ {0}), IsFiniteSet(S),
           NEW T, \A i : i \in T <=> i \in Nat /\ i + 1 \in S
    PROVE  Cardinality(T) = Cardinality(S)
<1>. DEFINE f == [i \in S |-> i - 1]
<1>1. f \in [S -> T]
  OBVIOUS
<1>2. \A i, k \in S : f[i] = f[k] => i = k
  OBVIOUS
<1>3. \A t \in T : \E i \in S : f[i] = t
  <2>. SUFFICES ASSUME NEW t \in T PROVE \E i \in S : f[i] = t
    OBVIOUS
  <2>1. t \in Nat /\ t + 1 \in S /\ f[t + 1] = t
    OBVIOUS
  <2>. QED  BY <2>1
<1>. HIDE DEF f
<1>4. ExistsBijection(S, T)
  BY <1>1, <1>2, <1>3, Fun_IsBij, Zenon DEF ExistsBijection
<1>. QED  BY <1>4, FS_Bijection, Zenon

-----------------------------------------------------------------------------
(* Parts of sequences.                                                      *)

LEMMA SameSeq ==
    ASSUME NEW S, NEW s \in Seq(S), NEW t \in Seq(S), Len(s) = Len(t),
           \A k \in 1 .. Len(s) : s[k] = t[k]
    PROVE  s = t
OBVIOUS

LEMMA TailOf ==
    ASSUME NEW S, NEW s \in Seq(S), s # <<>>
    PROVE  /\ Tail(s) \in Seq(S)
           /\ Len(Tail(s)) = Len(s) - 1
           /\ \A k \in 1 .. Len(s) - 1 : Tail(s)[k] = s[k + 1]
OBVIOUS

-----------------------------------------------------------------------------
(* Induction, over sets: the theorems of the library that take a predicate  *)
(* for a parameter have no use here.                                        *)

LEMMA Least ==
    ASSUME NEW T \in SUBSET Nat, T # {}
    PROVE  \E m \in T : \A k \in T : m <= k
<1>. DEFINE R == {ss \in Nat \X Nat : ss[1] < ss[2]}
<1>1. IsWellFoundedOn(R, Nat)
  BY NatLessThanWellFounded, Zenon DEF OpToRel
<1>2. PICK m \in T : \A k \in T : ~(<<k, m>> \in R)
  <2>. HIDE DEF R
  <2>1. T \subseteq Nat
    OBVIOUS
  <2>. QED  BY <1>1, <2>1, WFMin, Zenon
<1>3. ASSUME NEW k \in T PROVE m <= k
  <2>1. ~(k < m)
    BY <1>2
  <2>. QED  BY <2>1
<1>. QED  BY <1>3

LEMMA Induction ==
    ASSUME NEW n \in Nat, NEW T, 0 \in T,
           \A i \in 1 .. n : i - 1 \in T => i \in T
    PROVE  \A i \in 0 .. n : i \in T
<1>. DEFINE N == (0 .. n) \ T
<1>. SUFFICES ASSUME N # {} PROVE FALSE
  OBVIOUS
<1>1. N \in SUBSET Nat
  OBVIOUS
<1>2. PICK m \in N : \A k \in N : m <= k
  <2>. HIDE DEF N
  <2>. QED  BY <1>1, Least
<1>3. m \in 1 .. n
  BY <1>2
<1>4. m - 1 \in T
  BY <1>2, <1>3
<1>. QED  BY <1>3, <1>4

-----------------------------------------------------------------------------
(* FlattenSeq, which escape and unescape are built from, one part after the *)
(* other.                                                                   *)

Joins(f, s, n, S) ==
    f \in [1 .. n -> Seq(S)] /\ \A i \in 1 .. n : f[i] = IF i = 1 THEN s[i] ELSE f[i - 1] \o s[i]

LEMMA JoinExists ==
    ASSUME NEW S, NEW n \in Nat, NEW s \in [1 .. n -> Seq(S)]
    PROVE  \E f : Joins(f, s, n, S)
<1>. DEFINE T == {m \in 0 .. n : \E f : Joins(f, s, m, S)}
<1>1. 0 \in T
  <2>1. Joins([i \in 1 .. 0 |-> s[1]], s, 0, S)
    BY DEF Joins
  <2>. QED  BY <2>1
<1>2. ASSUME NEW m \in 1 .. n, m - 1 \in T PROVE m \in T
  <2>1. PICK f : Joins(f, s, m - 1, S)
    BY <1>2
  <2>. DEFINE x == IF m = 1 THEN s[m] ELSE f[m - 1] \o s[m]
              g == [i \in 1 .. m |-> IF i = m THEN x ELSE f[i]]
  <2>2. x \in Seq(S)
    <3>1. s[m] \in Seq(S)
      OBVIOUS
    <3>2. m # 1 => f[m - 1] \in Seq(S)
      BY <2>1 DEF Joins
    <3>. QED  BY <3>1, <3>2
  <2>3. f \in [1 .. m - 1 -> Seq(S)]
    BY <2>1 DEF Joins
  <2>. HIDE DEF x
  <2>4. g \in [1 .. m -> Seq(S)]
    BY <2>2, <2>3
  <2>5. g[m] = x /\ \A i \in 1 .. m - 1 : g[i] = f[i]
    OBVIOUS
  <2>. HIDE DEF g
  <2>6. ASSUME NEW i \in 1 .. m PROVE g[i] = IF i = 1 THEN s[i] ELSE g[i - 1] \o s[i]
    <3>1. CASE i = m
      <4>1. m # 1 => m - 1 \in 1 .. m - 1
        BY ONLY n \in Nat, m \in 1 .. n
      <4>. QED  BY <2>5, <3>1, <4>1 DEF x
    <3>2. CASE i # m
      <4>1. i \in 1 .. m - 1 /\ (i # 1 => i - 1 \in 1 .. m - 1)
        BY <3>2
      <4>2. f[i] = IF i = 1 THEN s[i] ELSE f[i - 1] \o s[i]
        BY <2>1, <4>1 DEF Joins
      <4>. QED  BY <2>5, <4>1, <4>2
    <3>. QED  BY <3>1, <3>2
  <2>7. Joins(g, s, m, S)
    BY <2>4, <2>6 DEF Joins
  <2>. QED  BY <2>7
<1>3. n \in T
  <2>. HIDE DEF T
  <2>1. \A i \in 0 .. n : i \in T
    BY <1>1, <1>2, Induction, Zenon
  <2>. QED  BY <2>1
<1>. QED  BY <1>3

(* The parts that are joined up to each i.                                  *)
LEMMA Flattened ==
    ASSUME NEW S, NEW n \in Nat, NEW s \in [1 .. n -> Seq(S)]
    PROVE  \E f \in [0 .. n -> Seq(S)] :
              /\ f[0] = <<>>
              /\ \A i \in 1 .. n : f[i] = f[i - 1] \o s[i]
              /\ FlattenSeq(s) = f[n]
<1>1. Len(s) = n /\ DOMAIN s = 1 .. n
  OBVIOUS
<1>2. CASE n = 0
  <2>1. FlattenSeq(s) = s
    BY <1>1, <1>2 DEF FlattenSeq
  <2>2. s = <<>>
    BY <1>1, <1>2
  <2>. DEFINE f == [i \in 0 .. n |-> <<>>]
  <2>3. f \in [0 .. n -> Seq(S)] /\ f[0] = <<>> /\ f[n] = <<>> /\ 1 .. n = {}
    BY <1>2
  <2>. HIDE DEF f
  <2>. QED  BY <2>1, <2>2, <2>3
<1>3. CASE n # 0
  <2>. DEFINE F == CHOOSE f : f = [i \in 1 .. Len(s) |-> IF i = 1 THEN s[i] ELSE f[i - 1] \o s[i]]
  <2>1. FlattenSeq(s) = F[Len(s)]
    <3>1. Len(s) # 0
      BY <1>1, <1>3
    <3>. QED  BY <3>1 DEF FlattenSeq
  <2>2. PICK g : Joins(g, s, n, S)
    BY JoinExists
  <2>3. g = [i \in 1 .. Len(s) |-> IF i = 1 THEN s[i] ELSE g[i - 1] \o s[i]]
    BY <1>1, <2>2 DEF Joins
  <2>4. F = [i \in 1 .. Len(s) |-> IF i = 1 THEN s[i] ELSE F[i - 1] \o s[i]]
    BY <2>3, Zenon
  <2>. HIDE DEF F
  <2>5. \A i \in 1 .. n : F[i] = IF i = 1 THEN s[i] ELSE F[i - 1] \o s[i]
    <3>. DEFINE e(i) == IF i = 1 THEN s[i] ELSE F[i - 1] \o s[i]
    <3>1. F = [i \in 1 .. n |-> e(i)]
      BY <1>1, <2>4, Zenon
    <3>. HIDE DEF e
    <3>2. \A i \in 1 .. n : F[i] = e(i)
      BY <3>1
    <3>. QED  BY <3>2 DEF e
  <2>. DEFINE T == {i \in 0 .. n : i # 0 => F[i] \in Seq(S)}
  <2>6. \A i \in 0 .. n : i \in T
    <3>1. 0 \in T
      OBVIOUS
    <3>2. ASSUME NEW i \in 1 .. n, i - 1 \in T PROVE i \in T
      <4>1. s[i] \in Seq(S)
        OBVIOUS
      <4>2. CASE i = 1
        BY <2>5, <4>1, <4>2
      <4>3. CASE i # 1
        <5>1. F[i - 1] \in Seq(S)
          BY <3>2, <4>3
        <5>2. F[i - 1] \o s[i] \in Seq(S)
          BY ONLY <4>1, <5>1, ConcatProperties, Zenon
        <5>3. F[i] = F[i - 1] \o s[i]
          BY <2>5, <4>3
        <5>4. F[i] \in Seq(S)
          BY <5>2, <5>3
        <5>. QED  BY <5>4
      <4>. QED  BY <4>2, <4>3
    <3>. HIDE DEF T
    <3>. QED  BY <3>1, <3>2, Induction, Zenon
  <2>. DEFINE f == [i \in 0 .. n |-> IF i = 0 THEN <<>> ELSE F[i]]
  <2>7. f \in [0 .. n -> Seq(S)]
    BY <2>6
  <2>8. f[0] = <<>> /\ f[n] = F[n] /\ \A i \in 1 .. n : f[i] = F[i]
    BY <1>3
  <2>. HIDE DEF f
  <2>9. ASSUME NEW i \in 1 .. n PROVE f[i] = f[i - 1] \o s[i]
    <3>1. CASE i = 1
      <4>1. s[i] \in Seq(S) /\ <<>> \o s[i] = s[i]
        BY ConcatEmptySeq
      <4>2. f[i] = s[i] /\ f[i - 1] = <<>>
        <5>1. F[i] = s[i]
          BY <2>5, <3>1
        <5>. QED  BY <2>8, <3>1, <5>1
      <4>. QED  BY <4>1, <4>2
    <3>2. CASE i # 1
      <4>1. i - 1 \in 1 .. n
        BY <3>2
      <4>2. f[i] = F[i] /\ f[i - 1] = F[i - 1] /\ F[i] = F[i - 1] \o s[i]
        BY <2>5, <2>8, <3>2, <4>1
      <4>. QED  BY <4>2
    <3>. QED  BY <3>1, <3>2
  <2>. QED  BY <1>1, <2>1, <2>7, <2>8, <2>9
<1>. QED  BY <1>2, <1>3

LEMMA FlattenIs ==
    ASSUME NEW S, NEW n \in Nat, NEW s \in [1 .. n -> Seq(S)], NEW g \in [0 .. n -> Seq(S)],
           g[0] = <<>>, \A i \in 1 .. n : g[i] = g[i - 1] \o s[i]
    PROVE  FlattenSeq(s) = g[n]
<1>1. PICK f \in [0 .. n -> Seq(S)] :
         /\ f[0] = <<>>
         /\ \A i \in 1 .. n : f[i] = f[i - 1] \o s[i]
         /\ FlattenSeq(s) = f[n]
  BY Flattened, Zenon
<1>. DEFINE T == {i \in 0 .. n : f[i] = g[i]}
<1>2. 0 \in T
  BY <1>1
<1>3. ASSUME NEW i \in 1 .. n, i - 1 \in T PROVE i \in T
  <2>1. f[i - 1] = g[i - 1]
    BY <1>3
  <2>2. f[i] = g[i]
    BY ONLY <1>1, <2>1, i \in 1 .. n, \A k \in 1 .. n : g[k] = g[k - 1] \o s[k], Zenon
  <2>. QED  BY <2>2
<1>4. n \in T
  <2>. HIDE DEF T
  <2>1. \A i \in 0 .. n : i \in T
    BY <1>2, <1>3, Induction, Zenon
  <2>. QED  BY <2>1
<1>. QED  BY <1>1, <1>4

(* What FlattenSeq makes of a sequence that has one more part.              *)
LEMMA FlattenNext ==
    ASSUME NEW S, NEW n \in Nat, NEW s \in [1 .. n -> Seq(S)], NEW t \in [1 .. n + 1 -> Seq(S)],
           \A i \in 1 .. n : t[i] = s[i]
    PROVE  /\ FlattenSeq(<<>>) = <<>>
           /\ FlattenSeq(s) \in Seq(S)
           /\ FlattenSeq(t) = FlattenSeq(s) \o t[n + 1]
<1>. DEFINE x == t[n + 1]
<1>1. n + 1 \in 1 .. n + 1
  OBVIOUS
<1>2. x \in Seq(S)
  BY <1>1
<1>. HIDE DEF x
<1>3. PICK f \in [0 .. n -> Seq(S)] :
         /\ f[0] = <<>>
         /\ \A i \in 1 .. n : f[i] = f[i - 1] \o s[i]
         /\ FlattenSeq(s) = f[n]
  BY Flattened, Zenon
<1>. DEFINE y == f[n] \o x
            g == [i \in 0 .. n + 1 |-> IF i = n + 1 THEN y ELSE f[i]]
<1>4. f[n] \in Seq(S) /\ y \in Seq(S)
  <2>1. f[n] \in Seq(S)
    OBVIOUS
  <2>. QED  BY ONLY <1>2, <2>1, ConcatProperties, Zenon
<1>. HIDE DEF y
<1>5. g \in [0 .. n + 1 -> Seq(S)] /\ g[n + 1] = y /\ \A i \in 0 .. n : g[i] = f[i]
  BY <1>4
<1>. HIDE DEF g
<1>6. ASSUME NEW i \in 1 .. n + 1 PROVE g[i] = g[i - 1] \o t[i]
  <2>1. CASE i = n + 1
    <3>1. g[i] = y /\ g[i - 1] = f[n] /\ t[i] = x
      BY <1>5, <2>1 DEF x
    <3>. QED  BY <3>1 DEF y
  <2>2. CASE i # n + 1
    <3>1. i \in 1 .. n /\ i \in 0 .. n /\ i - 1 \in 0 .. n
      BY <2>2
    <3>2. g[i] = f[i] /\ g[i - 1] = f[i - 1] /\ t[i] = s[i] /\ f[i] = f[i - 1] \o s[i]
      BY <1>3, <1>5, <3>1
    <3>. QED  BY <3>2
  <2>. QED  BY <2>1, <2>2
<1>7. g[0] = <<>> /\ n + 1 \in Nat
  BY <1>3, <1>5
<1>8. FlattenSeq(t) = g[n + 1]
  BY ONLY <1>5, <1>6, <1>7, t \in [1 .. n + 1 -> Seq(S)], FlattenIs, Zenon
<1>9. FlattenSeq(<<>>) = <<>>
  BY DEF FlattenSeq
<1>. QED  BY <1>3, <1>4, <1>5, <1>8, <1>9 DEF y, x

-----------------------------------------------------------------------------
(* A function on positions that is defined from each position to the next.  *)

LEMMA Recursion ==
    ASSUME NEW V, NEW v \in V, NEW n \in Nat, NEW h \in [1 .. n -> [V -> V]]
    PROVE  \E f \in [0 .. n -> V] : f[0] = v /\ \A i \in 1 .. n : f[i] = h[i][f[i - 1]]
<1>. DEFINE Solves(f, m) == f \in [0 .. m -> V] /\ f[0] = v /\ \A i \in 1 .. m : f[i] = h[i][f[i - 1]]
            T == {m \in 0 .. n : \E f : Solves(f, m)}
<1>1. 0 \in T
  <2>. DEFINE f == [i \in 0 .. 0 |-> v]
  <2>1. Solves(f, 0)
    OBVIOUS
  <2>. HIDE DEF f, Solves
  <2>. QED  BY <2>1
<1>2. ASSUME NEW m \in 1 .. n, m - 1 \in T PROVE m \in T
  <2>1. PICK f : Solves(f, m - 1)
    BY <1>2
  <2>. DEFINE x == h[m][f[m - 1]]
              g == [i \in 0 .. m |-> IF i = m THEN x ELSE f[i]]
  <2>2. x \in V
    BY <2>1
  <2>. HIDE DEF x
  <2>3. g \in [0 .. m -> V] /\ g[m] = x /\ \A i \in 0 .. m - 1 : g[i] = f[i]
    BY <2>1, <2>2
  <2>. HIDE DEF g
  <2>4. ASSUME NEW i \in 1 .. m PROVE g[i] = h[i][g[i - 1]]
    <3>1. CASE i = m
      BY <2>3, <3>1 DEF x
    <3>2. CASE i # m
      BY <2>1, <2>3, <3>2
    <3>. QED  BY <3>1, <3>2
  <2>5. g[0] = v
    BY <2>1, <2>3
  <2>6. Solves(g, m)
    BY <2>3, <2>4, <2>5
  <2>. HIDE DEF Solves
  <2>. QED  BY <2>6
<1>3. n \in T
  <2>. HIDE DEF T
  <2>1. \A m \in 0 .. n : m \in T
    BY <1>1, <1>2, Induction, Zenon
  <2>. QED  BY <2>1
<1>. QED  BY <1>3

=============================================================================
