----------------------------- MODULE Inductions -----------------------------
(***************************************************************************)
(* Induction for the proofs: over the numbers of an interval, with a set   *)
(* in the place of a predicate; the loops that are written as recursive    *)
(* functions; and FlattenSeq of the library, which is one of them.         *)
(***************************************************************************)
EXTENDS Integers, Sequences, SequencesExt, WellFoundedInduction, SequenceTheorems, TLAPS

(* A set of numbers has its least one. *)
LEMMA NatMin ==
  ASSUME NEW T \in SUBSET Nat, T # {}
  PROVE  \E x \in T : \A y \in T : x <= y
<1> DEFINE R == OpToRel(<, Nat)
<1>1. IsWellFoundedOn(R, Nat)
  BY NatLessThanWellFounded, Zenon
<1>2. \A x, y \in Nat : x < y => <<x, y>> \in R
  BY DEF OpToRel
<1> HIDE DEF R
<1>3. PICK x \in T : \A y \in T : ~ (<<y, x>> \in R)
  BY <1>1, WFMin, Zenon
<1>4. \A y \in T : ~ (y < x)
  BY <1>2, <1>3
<1> QED BY <1>4

(* Induction over m .. n: T holds the numbers of which the claim is true. *)
LEMMA Induction ==
  ASSUME NEW m \in Nat, NEW n \in Nat, NEW T,
         m \in T,
         \A i \in m .. n : i + 1 <= n /\ i \in T => i + 1 \in T
  PROVE  \A i \in m .. n : i \in T
<1> DEFINE U == {i \in m .. n : i \notin T}
<1>1. U \in SUBSET Nat
  OBVIOUS
<1>2. SUFFICES ASSUME U # {} PROVE FALSE
  OBVIOUS
<1>3. PICK x \in U : \A y \in U : x <= y
  BY <1>1, <1>2, NatMin
<1>4. x \in m .. n /\ x \notin T /\ x # m
  BY <1>3
<1>5. x - 1 \in m .. n /\ (x - 1) + 1 = x /\ ~ (x <= x - 1)
  BY <1>4
<1>6. x - 1 \in T
  BY <1>3, <1>5
<1> QED BY <1>4, <1>5, <1>6

(* A loop over m .. n whose i-th round maps the value v to F[<<i, v>>]. *)
IsLoop(f, m, n, a, F) ==
  f = [i \in m .. n |-> IF i = m THEN a ELSE F[<<i, f[i - 1]>>]]

(* There is a function with the values of such a loop, and they are in S. *)
LEMMA LoopExists ==
  ASSUME NEW m \in Nat, NEW n \in Nat, m <= n, NEW S, NEW a \in S,
         NEW F \in [(m .. n) \X S -> S]
  PROVE  \E f \in [m .. n -> S] : IsLoop(f, m, n, a, F)
<1> DEFINE T == {k \in Nat : \E f \in [m .. k -> S] : IsLoop(f, m, k, a, F)}
<1>1. m \in T
  <2> DEFINE f == [i \in m .. m |-> a]
  <2>1. f \in [m .. m -> S] /\ IsLoop(f, m, m, a, F)
    BY DEF IsLoop
  <2> HIDE DEF f
  <2> QED BY <2>1
<1>2. ASSUME NEW k \in m .. n, k + 1 <= n, k \in T
      PROVE  k + 1 \in T
  <2>1. PICK f \in [m .. k -> S] : IsLoop(f, m, k, a, F)
    BY <1>2
  <2> DEFINE g == [i \in m .. k + 1 |-> IF i = k + 1 THEN F[<<k + 1, f[k]>>] ELSE f[i]]
  <2>2. f[k] \in S /\ k + 1 \in m .. n
    BY <1>2
  <2>3. F[<<k + 1, f[k]>>] \in S
    BY <2>2
  <2>4. g \in [m .. k + 1 -> S]
    BY <2>3
  <2>5. ASSUME NEW i \in m .. k + 1
        PROVE  g[i] = IF i = m THEN a ELSE F[<<i, g[i - 1]>>]
    <3>1. CASE i = k + 1
      BY <3>1
    <3>2. CASE i # k + 1
      <4>1. i \in m .. k /\ (i # m => i - 1 \in m .. k /\ i - 1 # k + 1)
        BY <3>2
      <4>2. f[i] = IF i = m THEN a ELSE F[<<i, f[i - 1]>>]
        BY <2>1, <4>1 DEF IsLoop
      <4>3. g[i] = f[i] /\ (i # m => g[i - 1] = f[i - 1])
        BY <4>1
      <4> QED BY <4>2, <4>3
    <3> QED BY <3>1, <3>2
  <2> HIDE DEF g
  <2>6. IsLoop(g, m, k + 1, a, F)
    BY <2>4, <2>5 DEF IsLoop
  <2> QED BY <1>2, <2>4, <2>6
<1> HIDE DEF T
<1>3. \A k \in m .. n : k + 1 <= n /\ k \in T => k + 1 \in T
  BY <1>2
<1>4. \A k \in m .. n : k \in T
  BY <1>1, <1>3, Induction
<1>5. n \in m .. n
  OBVIOUS
<1>6. n \in T
  BY <1>4, <1>5
<1> QED BY <1>6 DEF T

-----------------------------------------------------------------------------
(* FlattenSeq. *)

(* One round of FlattenSeq over q. *)
Joins(q, S) == [p \in (1 .. Len(q)) \X Seq(S) |-> p[2] \o q[p[1]]]

(* FlattenSeq(q) is the value of the loop after the last round. *)
LEMMA FlattenIsLoop ==
  ASSUME NEW S, NEW q \in Seq(Seq(S)), q # <<>>
  PROVE  \E f \in [1 .. Len(q) -> Seq(S)] :
           /\ IsLoop(f, 1, Len(q), q[1], Joins(q, S))
           /\ FlattenSeq(q) = f[Len(q)]
<1> DEFINE n == Len(q)
           Eq(f) == f = [i \in 1 .. n |-> IF i = 1 THEN q[i] ELSE f[i - 1] \o q[i]]
           h == CHOOSE f : Eq(f)
<1>1. n \in Nat /\ 1 <= n /\ q[1] \in Seq(S) /\ \A i \in 1 .. n : q[i] \in Seq(S)
  OBVIOUS
<1>2. Joins(q, S) \in [(1 .. n) \X Seq(S) -> Seq(S)]
  BY DEF Joins
<1>3. \A i \in 1 .. n, v \in Seq(S) : Joins(q, S)[<<i, v>>] = v \o q[i]
  BY DEF Joins
<1>4. ASSUME NEW f \in [1 .. n -> Seq(S)], IsLoop(f, 1, n, q[1], Joins(q, S))
      PROVE  Eq(f)
  <2>1. ASSUME NEW i \in 1 .. n
        PROVE  f[i] = IF i = 1 THEN q[i] ELSE f[i - 1] \o q[i]
    <3>1. CASE i = 1
      BY <1>4, <3>1 DEF IsLoop
    <3>2. CASE i # 1
      <4>0. i - 1 \in 1 .. n
        BY <1>1, <3>2
      <4>1. i - 1 \in 1 .. n /\ f[i - 1] \in Seq(S)
        BY <1>4, <4>0
      <4>2. f[i] = Joins(q, S)[<<i, f[i - 1]>>]
        BY <1>4, <3>2 DEF IsLoop
      <4> QED BY <1>3, <3>2, <4>1, <4>2
    <3> QED BY <3>1, <3>2
  <2> QED BY <2>1
<1>5. PICK f \in [1 .. n -> Seq(S)] : IsLoop(f, 1, n, q[1], Joins(q, S))
  BY <1>1, <1>2, LoopExists
<1>6. Eq(f)
  BY <1>4, <1>5
<1>7. Eq(h)
  BY <1>6
<1>8. FlattenSeq(q) = h[n]
  BY <1>1 DEF FlattenSeq
<1> HIDE DEF h
<1>9. \A i \in 1 .. n : h[i] = f[i]
  <2> DEFINE T == {i \in 1 .. n : h[i] = f[i]}
  <2>1. 1 \in T
    BY <1>1, <1>6, <1>7
  <2>2. ASSUME NEW i \in 1 .. n, i + 1 <= n, i \in T
        PROVE  i + 1 \in T
    <3>1. i + 1 \in 1 .. n /\ (i + 1) - 1 = i /\ i + 1 # 1
      BY <2>2
    <3>2. f[i + 1] = f[i] \o q[i + 1] /\ h[i + 1] = h[i] \o q[i + 1]
      BY <1>6, <1>7, <3>1
    <3> QED BY <2>2, <3>1, <3>2
  <2> HIDE DEF T
  <2>3. \A i \in 1 .. n : i \in T
    BY <1>1, <2>1, <2>2, Induction
  <2> QED BY <2>3 DEF T
<1> QED BY <1>1, <1>5, <1>8, <1>9

LEMMA FlattenEmpty == FlattenSeq(<<>>) = <<>>
BY DEF FlattenSeq

LEMMA FlattenType ==
  ASSUME NEW S, NEW q \in Seq(Seq(S))
  PROVE  FlattenSeq(q) \in Seq(S)
<1>1. CASE q = <<>>
  <2>1. <<>> \in Seq(S)
    OBVIOUS
  <2>2. FlattenSeq(q) = <<>>
    BY <1>1, FlattenEmpty
  <2> QED BY <2>1, <2>2
<1>2. CASE q # <<>>
  <2>1. Len(q) \in 1 .. Len(q)
    BY <1>2
  <2> QED BY <1>2, <2>1, FlattenIsLoop
<1> QED BY <1>1, <1>2

(* What a sequence that is appended adds to the whole. *)
LEMMA FlattenAppend ==
  ASSUME NEW S, NEW q \in Seq(Seq(S)), NEW x \in Seq(S)
  PROVE  FlattenSeq(Append(q, x)) = FlattenSeq(q) \o x
<1> DEFINE r == Append(q, x)
           n == Len(q)
<1>1. /\ r \in Seq(Seq(S)) /\ r # <<>> /\ Len(r) = n + 1 /\ n \in Nat
      /\ r[n + 1] = x /\ \A i \in 1 .. n : r[i] = q[i]
  <2>1. r \in Seq(Seq(S)) /\ Len(r) = n + 1 /\ n \in Nat
    OBVIOUS
  <2>2. r[n + 1] = x /\ \A i \in 1 .. n : r[i] = q[i]
    OBVIOUS
  <2>3. r # <<>>
    <3> HIDE DEF r, n
    <3> QED BY <2>1
  <2> QED BY <2>1, <2>2, <2>3
<1> HIDE DEF r
<1>2. PICK g \in [1 .. n + 1 -> Seq(S)] :
        IsLoop(g, 1, n + 1, r[1], Joins(r, S)) /\ FlattenSeq(r) = g[n + 1]
  BY <1>1, FlattenIsLoop
<1>3. CASE q = <<>>
  <2>1. n = 0
    BY <1>3
  <2>2. g[1] = r[1]
    BY <1>2, <2>1 DEF IsLoop
  <2>3. FlattenSeq(r) = x
    BY <1>1, <1>2, <2>1, <2>2
  <2> QED BY <1>3, <2>3, FlattenEmpty DEF r
<1>4. CASE q # <<>>
  <2>1. n >= 1
    BY <1>4
  <2>2. PICK f \in [1 .. n -> Seq(S)] :
          IsLoop(f, 1, n, q[1], Joins(q, S)) /\ FlattenSeq(q) = f[n]
    BY <1>4, FlattenIsLoop
  <2>3. \A i \in 1 .. n, v \in Seq(S) : Joins(q, S)[<<i, v>>] = Joins(r, S)[<<i, v>>]
    BY <1>1 DEF Joins
  <2>4. r[1] = q[1]
    BY <1>1, <2>1
  <2>5. f[n] = g[n]
    <3> HIDE DEF n
    <3> DEFINE T == {i \in 1 .. n : f[i] = g[i]}
    <3>1. 1 \in T
      <4>1. 1 \in 1 .. n /\ 1 \in 1 .. n + 1
        BY <1>1, <2>1
      <4>2. f[1] = q[1]
        BY <2>2, <4>1 DEF IsLoop
      <4>3. g[1] = r[1]
        BY <1>2, <4>1 DEF IsLoop
      <4> QED BY <2>4, <4>1, <4>2, <4>3
    <3>2. ASSUME NEW i \in 1 .. n, i + 1 <= n, i \in T
          PROVE  i + 1 \in T
      <4>1. i + 1 \in 1 .. n /\ i + 1 \in 1 .. n + 1 /\ (i + 1) - 1 = i /\ i + 1 # 1
        BY <1>1, <3>2
      <4>2. f[i + 1] = Joins(q, S)[<<i + 1, f[i]>>]
        BY <2>2, <4>1 DEF IsLoop
      <4>3. g[i + 1] = Joins(r, S)[<<i + 1, g[i]>>]
        BY <1>2, <4>1 DEF IsLoop
      <4>4. f[i] \in Seq(S) /\ f[i] = g[i]
        BY <3>2
      <4>5. Joins(q, S)[<<i + 1, f[i]>>] = Joins(r, S)[<<i + 1, f[i]>>]
        BY <2>3, <4>1, <4>4
      <4>6. f[i + 1] = g[i + 1]
        BY <4>2, <4>3, <4>4, <4>5
      <4> QED BY <4>1, <4>6
    <3> HIDE DEF T
    <3>3. \A i \in 1 .. n : i \in T
      BY <1>1, <3>1, <3>2, Induction
    <3>4. n \in 1 .. n
      BY <1>1, <2>1
    <3> QED BY <3>3, <3>4 DEF T
  <2>6. g[n + 1] = Joins(r, S)[<<n + 1, g[n]>>]
    <3> HIDE DEF n
    <3>1. n + 1 \in 1 .. n + 1 /\ n + 1 # 1 /\ (n + 1) - 1 = n
      BY <1>1, <2>1
    <3> QED BY <1>2, <3>1 DEF IsLoop
  <2>7. g[n] \in Seq(S)
    BY <1>2, <2>1
  <2>8. g[n + 1] = g[n] \o x
    <3>1. Joins(r, S)[<<n + 1, g[n]>>] = g[n] \o r[n + 1]
      <4> HIDE DEF n
      <4>1. n + 1 \in 1 .. Len(r)
        BY <1>1
      <4> QED BY <2>7, <4>1 DEF Joins
    <3> QED BY <1>1, <2>6, <3>1
  <2> QED BY <1>2, <2>2, <2>5, <2>8 DEF r
<1> QED BY <1>3, <1>4
=============================================================================
