----------------------------- MODULE ListProofs -----------------------------
(***************************************************************************)
(* What the filters of Lists leave of a sequence of any length, by         *)
(* induction: of a set of numbers, so that it needs no operator parameter. *)
(***************************************************************************)
EXTENDS Lists, FiniteSetsExt, WellFoundedInduction, SequenceTheorems, TLAPS

LEMMA LeastOf ==
    ASSUME NEW D, D \subseteq Nat, D # {} PROVE \E x \in D : \A y \in D : ~(y < x)
<1>1. PICK x \in D : \A y \in D : ~(<<y, x>> \in OpToRel(<, Nat))
  BY NatLessThanWellFounded, WFMin
<1>2. \A y \in D : ~(y < x)
  BY <1>1 DEF OpToRel
<1> QED BY <1>2

(* Induction up to N.                                                      *)
LEMMA Reaches ==
    ASSUME NEW N \in Nat, NEW T, 0 \in T, \A n \in 0..N : n \in T /\ n < N => n + 1 \in T
    PROVE  \A n \in 0..N : n \in T
<1> SUFFICES ASSUME NEW z \in 0..N, z \notin T PROVE FALSE
  OBVIOUS
<1> DEFINE D == {n \in 0..N : n \notin T}
<1>1. PICK x \in D : \A y \in D : ~(y < x)
  <2>1. D \subseteq Nat /\ D # {}
    OBVIOUS
  <2> HIDE DEF D
  <2> QED BY <2>1, LeastOf
<1>2. x \in 0..N /\ x \notin T /\ x # 0
  OBVIOUS
<1>3. x - 1 \in 0..N /\ x - 1 < x /\ x - 1 < N /\ x - 1 + 1 = x
  BY <1>2
<1>4. x - 1 \in T
  BY <1>1, <1>3
<1> QED BY <1>2, <1>3, <1>4

-----------------------------------------------------------------------------
(* Minima and maxima.                                                      *)
LEMMA GreatestExists ==
    ASSUME NEW n \in Nat, NEW S \in SUBSET (0..n), S # {}
    PROVE  Max(S) \in S /\ \A y \in S : y <= Max(S)
<1> DEFINE T == {n - x : x \in S}
<1>1. PICK t \in T : \A y \in T : t <= y
  <2>1. T \in SUBSET Nat
    OBVIOUS
  <2>2. T # {}
    <3>1. PICK x : x \in S
      OBVIOUS
    <3>2. n - x \in T
      BY <3>1
    <3> QED BY <3>2
  <2> HIDE DEF T
  <2>3. PICK t \in T : \A y \in T : ~(y < t)
    BY <2>1, <2>2, LeastOf
  <2>4. \A y \in T : t <= y
    BY <2>1, <2>3
  <2> QED BY <2>4
<1>2. PICK x \in S : t = n - x
  BY <1>1
<1>3. \A y \in S : x >= y
  BY <1>1, <1>2
<1> QED BY <1>3 DEF Max

LEMMA LeastIs ==
    ASSUME NEW S \in SUBSET Nat, S # {}
    PROVE  Min(S) \in S /\ \A y \in S : Min(S) <= y
<1>1. PICK x \in S : \A y \in S : ~(y < x)
  BY LeastOf
<1>2. \A y \in S : x <= y
  BY <1>1
<1> QED BY <1>2 DEF Min

(* A stretch of a sequence.                                                *)
LEMMA PartOf ==
    ASSUME NEW S, NEW s \in Seq(S), NEW m \in Nat, NEW n \in Nat, 1 <= m, m <= n + 1, n <= Len(s)
    PROVE  /\ SubSeq(s, m, n) \in Seq(S) /\ Len(SubSeq(s, m, n)) = n - m + 1
           /\ \A i \in 1..(n - m + 1) : SubSeq(s, m, n)[i] = s[m + i - 1]
<1>1. \A i \in m..n : s[i] \in S
  OBVIOUS
<1> DEFINE x == SubSeq(s, m, n)
<1>2. x \in Seq(S) /\ Len(x) = (IF m <= n THEN n - m + 1 ELSE 0) /\ \A i \in 1..(n - m + 1) : x[i] = s[m + i - 1]
  BY <1>1, SubSeqProperties
<1> HIDE DEF x
<1>3. Len(x) = n - m + 1
  BY <1>2
<1> QED BY <1>2, <1>3 DEF x

-----------------------------------------------------------------------------
(* The recursion of Picked.                                                *)

Grown(s, places, before, n) ==
    IF n \in places THEN Append(before, s[n]) ELSE before
UpTo(s, places, N, f) ==
    f = [n \in 0..N |-> IF n = 0 THEN <<>> ELSE Grown(s, places, f[n - 1], n)]
PicksOf(s, places) == CHOOSE f : UpTo(s, places, Len(s), f)

LEMMA PicksAre ==
    ASSUME NEW S, NEW s \in Seq(S), NEW places
    PROVE  /\ Picked(s, places) = PicksOf(s, places)[Len(s)]
           /\ PicksOf(s, places)[0] = <<>>
           /\ \A n \in 1..Len(s) :
                 PicksOf(s, places)[n] = Grown(s, places, PicksOf(s, places)[n - 1], n)
<1> DEFINE T == {N \in 0..Len(s) : \E f : UpTo(s, places, N, f)}
<1>1. 0 \in T
  <2> DEFINE f == [n \in 0..0 |-> <<>>]
  <2>1. UpTo(s, places, 0, f)
    BY DEF UpTo
  <2> QED BY <2>1
<1>2. \A N \in 0..Len(s) : N \in T /\ N < Len(s) => N + 1 \in T
  <2> SUFFICES ASSUME NEW N \in 0..Len(s), N < Len(s), NEW f, UpTo(s, places, N, f)
               PROVE  \E g : UpTo(s, places, N + 1, g)
    OBVIOUS
  <2> DEFINE g == [n \in 0..(N + 1) |-> IF n = N + 1 THEN Grown(s, places, f[N], N + 1) ELSE f[n]]
  <2>1. \A n \in 0..N : f[n] = IF n = 0 THEN <<>> ELSE Grown(s, places, f[n - 1], n)
    BY DEF UpTo
  <2>2. \A n \in 0..(N + 1) : g[n] = IF n = 0 THEN <<>> ELSE Grown(s, places, g[n - 1], n)
    BY <2>1
  <2>3. g = [n \in 0..(N + 1) |-> g[n]]
    OBVIOUS
  <2> HIDE DEF g
  <2>4. UpTo(s, places, N + 1, g)
    BY <2>2, <2>3 DEF UpTo
  <2> QED BY <2>4
<1>3. PICK f : UpTo(s, places, Len(s), f)
  <2> HIDE DEF T
  <2>1. Len(s) \in Nat /\ Len(s) \in 0..Len(s)
    OBVIOUS
  <2>2. Len(s) \in T
    BY <1>1, <1>2, <2>1, Reaches
  <2> QED BY <2>2 DEF T
<1>4. UpTo(s, places, Len(s), PicksOf(s, places))
  BY <1>3 DEF PicksOf
<1>5. Picked(s, places) = PicksOf(s, places)[Len(s)]
  BY DEF Picked, PicksOf, UpTo, Grown
<1> QED BY <1>4, <1>5 DEF UpTo

-----------------------------------------------------------------------------
(* m places in rising order, which are those of the first N.               *)
Enumerates(g, m, N, places) ==
    /\ \A k \in 1..m : g[k] \in 1..N /\ g[k] \in places
    /\ \A j, k \in 1..m : j < k => g[j] < g[k]
    /\ \A i \in 1..N : i \in places => \E k \in 1..m : g[k] = i

(* What is picked stands at them, in their order.                          *)
LEMMA PickedIs ==
    ASSUME NEW S, NEW s \in Seq(S), NEW places, NEW m \in Nat, NEW g,
           Enumerates(g, m, Len(s), places)
    PROVE  /\ Picked(s, places) \in Seq(S) /\ Len(Picked(s, places)) = m
           /\ \A k \in 1..m : Picked(s, places)[k] = s[g[k]] /\ g[k] \in 1..Len(s)
<1> DEFINE Got(n, k) == /\ PicksOf(s, places)[n] = [j \in 1..k |-> s[g[j]]]
                        /\ \A j \in 1..m : g[j] <= n <=> j <= k
           T == {n \in 0..Len(s) : \E k \in 0..m : Got(n, k)}
<1>1. /\ \A k \in 1..m : g[k] \in 1..Len(s) /\ g[k] \in places
      /\ \A j, k \in 1..m : j < k => g[j] < g[k]
      /\ \A i \in 1..Len(s) : i \in places => \E k \in 1..m : g[k] = i
  BY DEF Enumerates
<1>2. Len(s) \in Nat
  OBVIOUS
<1> HIDE DEF Got
<1>3. 0 \in T
  <2>1. Got(0, 0)
    BY <1>1, PicksAre DEF Got
  <2>2. 0 \in 0..m /\ 0 \in 0..Len(s)
    BY <1>2
  <2> QED BY <2>1, <2>2
<1>4. \A n \in 0..Len(s) : n \in T /\ n < Len(s) => n + 1 \in T
  <2> SUFFICES ASSUME NEW n \in 0..Len(s), n < Len(s), NEW k \in 0..m, Got(n, k)
               PROVE  \E l \in 0..m : Got(n + 1, l)
    OBVIOUS
  <2>0. /\ PicksOf(s, places)[n] = [j \in 1..k |-> s[g[j]]]
        /\ \A j \in 1..m : g[j] <= n <=> j <= k
    BY DEF Got
  <2>1. n + 1 \in 1..Len(s) /\ n + 1 - 1 = n
    BY <1>2
  <2>2. PicksOf(s, places)[n + 1] = Grown(s, places, PicksOf(s, places)[n], n + 1)
    BY <2>1, PicksAre
  <2>3. CASE n + 1 \in places
    <3>1. PICK j \in 1..m : g[j] = n + 1
      BY <1>1, <2>1, <2>3
    <3>2. j = k + 1
      <4>1. ~(j <= k)
        BY <2>0, <3>1
      <4>2. ~(k + 1 < j)
        <5> SUFFICES ASSUME k + 1 < j PROVE FALSE
          OBVIOUS
        <5>1. k + 1 \in 1..m /\ ~(k + 1 <= k)
          OBVIOUS
        <5>2. g[k + 1] < n + 1 /\ ~(g[k + 1] <= n) /\ g[k + 1] \in 1..Len(s)
          BY <1>1, <2>0, <3>1, <5>1
        <5> QED BY <1>2, <5>2
      <4> QED BY <4>1, <4>2
    <3>3. \A i \in 1..m : g[i] <= n + 1 <=> i <= k + 1
      <4> SUFFICES ASSUME NEW i \in 1..m PROVE g[i] <= n + 1 <=> i <= k + 1
        OBVIOUS
      <4>1. g[i] \in 1..Len(s) /\ (i < k + 1 => g[i] < n + 1) /\ (k + 1 < i => n + 1 < g[i])
        BY <1>1, <3>1, <3>2
      <4> QED BY <1>2, <3>1, <3>2, <4>1
    <3>4. PicksOf(s, places)[n + 1] = [i \in 1..(k + 1) |-> s[g[i]]]
      <4>1. PicksOf(s, places)[n + 1] = Append([i \in 1..k |-> s[g[i]]], s[n + 1])
        BY <2>0, <2>2, <2>3 DEF Grown
      <4>2. Append([i \in 1..k |-> s[g[i]]], s[n + 1]) = [i \in 1..(k + 1) |-> s[g[i]]]
        <5> DEFINE q == [i \in 1..k |-> s[g[i]]]
                   r == Append(q, s[n + 1])
                   w == [i \in 1..(k + 1) |-> s[g[i]]]
        <5>1. \A i \in 1..k : i \in 1..m /\ s[g[i]] \in S
          BY <1>1
        <5>2. q \in Seq(S) /\ Len(q) = k
          BY <5>1
        <5>3. s[n + 1] \in S
          BY <2>1
        <5>4. /\ r \in Seq(S) /\ Len(r) = k + 1 /\ r[k + 1] = s[n + 1]
              /\ \A i \in 1..k : r[i] = q[i]
          <6> HIDE DEF q
          <6> QED BY <5>2, <5>3
        <5>5. w \in Seq(S) /\ Len(w) = k + 1
          <6>1. \A i \in 1..(k + 1) : s[g[i]] \in S
            BY <3>1, <3>2, <5>1, <5>3
          <6> QED BY <6>1
        <5>6. \A i \in 1..(k + 1) : r[i] = w[i]
          <6> SUFFICES ASSUME NEW i \in 1..(k + 1) PROVE r[i] = w[i]
            OBVIOUS
          <6>1. CASE i = k + 1
            BY <3>1, <3>2, <5>4, <6>1
          <6>2. CASE i \in 1..k
            BY <5>4, <6>2
          <6> QED BY <6>1, <6>2
        <5> HIDE DEF q, r, w
        <5>7. r = w
          BY <5>4, <5>5, <5>6
        <5> QED BY <5>7 DEF q, r, w
      <4> QED BY <4>1, <4>2
    <3>5. k + 1 \in 0..m /\ Got(n + 1, k + 1)
      BY <3>2, <3>3, <3>4 DEF Got
    <3> QED BY <3>5
  <2>4. CASE n + 1 \notin places
    <3>1. \A i \in 1..m : g[i] <= n + 1 <=> i <= k
      <4> SUFFICES ASSUME NEW i \in 1..m PROVE g[i] <= n + 1 <=> i <= k
        OBVIOUS
      <4>1. g[i] \in 1..Len(s) /\ g[i] # n + 1 /\ (g[i] <= n <=> i <= k)
        BY <1>1, <2>0, <2>4
      <4> QED BY <1>2, <4>1
    <3>2. PicksOf(s, places)[n + 1] = PicksOf(s, places)[n]
      BY <2>2, <2>4 DEF Grown
    <3>3. Got(n + 1, k)
      BY <2>0, <3>1, <3>2 DEF Got
    <3> QED BY <3>3
  <2> QED BY <2>3, <2>4
<1>5. PICK k \in 0..m : Got(Len(s), k)
  <2> HIDE DEF T
  <2>1. Len(s) \in T
    <3>1. \A n \in 0..Len(s) : n \in T
      BY <1>2, <1>3, <1>4, Reaches
    <3> QED BY <1>2, <3>1
  <2> QED BY <2>1 DEF T
<1>6. k = m
  <2> SUFFICES ASSUME k < m PROVE FALSE
    OBVIOUS
  <2>1. m \in 1..m /\ g[m] <= Len(s) /\ ~(m <= k)
    BY <1>1, <1>2
  <2> QED BY <1>5, <2>1 DEF Got
<1>7. Picked(s, places) = [j \in 1..m |-> s[g[j]]]
  BY <1>5, <1>6, PicksAre DEF Got
<1>8. \A j \in 1..m : s[g[j]] \in S
  BY <1>1
<1> QED BY <1>1, <1>7, <1>8

(* There are such.                                                         *)
LEMMA PlacesEnumerated ==
    ASSUME NEW N \in Nat, NEW places PROVE \E m \in Nat : \E g : Enumerates(g, m, N, places)
<1> DEFINE T == {n \in 0..N : \E m \in Nat : \E g : Enumerates(g, m, n, places)}
<1>1. 0 \in T
  <2>1. Enumerates(<<>>, 0, 0, places)
    BY DEF Enumerates
  <2> QED BY <2>1
<1>2. \A n \in 0..N : n \in T /\ n < N => n + 1 \in T
  <2> SUFFICES ASSUME NEW n \in 0..N, n < N, NEW m \in Nat, NEW g, Enumerates(g, m, n, places)
               PROVE  \E l \in Nat : \E h : Enumerates(h, l, n + 1, places)
    OBVIOUS
  <2>0. /\ \A k \in 1..m : g[k] \in 1..n /\ g[k] \in places
        /\ \A j, k \in 1..m : j < k => g[j] < g[k]
        /\ \A i \in 1..n : i \in places => \E k \in 1..m : g[k] = i
    BY DEF Enumerates
  <2>1. CASE n + 1 \in places
    <3> DEFINE h == [k \in 1..(m + 1) |-> IF k = m + 1 THEN n + 1 ELSE g[k]]
    <3>1. h[m + 1] = n + 1 /\ \A k \in 1..m : h[k] = g[k] /\ k \in 1..(m + 1)
      OBVIOUS
    <3>2. m + 1 \in 1..(m + 1) /\ \A k \in 1..(m + 1) : k \in 1..m \/ k = m + 1
      OBVIOUS
    <3> HIDE DEF h
    <3>3. \A k \in 1..(m + 1) : h[k] \in 1..(n + 1) /\ h[k] \in places
      BY <2>0, <2>1, <3>1, <3>2
    <3>4. \A j, k \in 1..(m + 1) : j < k => h[j] < h[k]
      <4> SUFFICES ASSUME NEW j \in 1..(m + 1), NEW k \in 1..(m + 1), j < k PROVE h[j] < h[k]
        OBVIOUS
      <4>1. j \in 1..m
        OBVIOUS
      <4>2. h[j] = g[j] /\ g[j] \in 1..n
        BY <2>0, <3>1, <4>1
      <4> QED BY <2>0, <3>1, <3>2, <4>1, <4>2
    <3>5. \A i \in 1..(n + 1) : i \in places => \E k \in 1..(m + 1) : h[k] = i
      <4> SUFFICES ASSUME NEW i \in 1..(n + 1), i \in places PROVE \E k \in 1..(m + 1) : h[k] = i
        OBVIOUS
      <4>1. CASE i = n + 1
        BY <3>1, <3>2, <4>1
      <4>2. CASE i \in 1..n
        BY <2>0, <3>1, <4>2
      <4> QED BY <4>1, <4>2
    <3>6. Enumerates(h, m + 1, n + 1, places)
      BY <3>3, <3>4, <3>5 DEF Enumerates
    <3>7. m + 1 \in Nat
      OBVIOUS
    <3> QED BY <3>6, <3>7
  <2>2. CASE n + 1 \notin places
    <3>1. \A k \in 1..m : g[k] \in 1..(n + 1) /\ g[k] \in places
      BY <2>0
    <3>2. \A i \in 1..(n + 1) : i \in places => \E k \in 1..m : g[k] = i
      <4> SUFFICES ASSUME NEW i \in 1..(n + 1), i \in places PROVE \E k \in 1..m : g[k] = i
        OBVIOUS
      <4>1. i \in 1..n
        BY <2>2
      <4> QED BY <2>0, <4>1
    <3>3. Enumerates(g, m, n + 1, places)
      BY <2>0, <3>1, <3>2 DEF Enumerates
    <3> QED BY <3>3
  <2> QED BY <2>1, <2>2
<1> HIDE DEF T
<1>3. N \in T
  BY <1>1, <1>2, Reaches
<1> QED BY <1>3 DEF T

LEMMA PickedAre ==
    ASSUME NEW S, NEW s \in Seq(S), NEW places
    PROVE  \E m \in Nat : \E g :
               /\ Enumerates(g, m, Len(s), places)
               /\ Picked(s, places) \in Seq(S) /\ Len(Picked(s, places)) = m
               /\ \A k \in 1..m : Picked(s, places)[k] = s[g[k]] /\ g[k] \in 1..Len(s)
<1>1. Len(s) \in Nat
  OBVIOUS
<1>2. PICK m \in Nat : \E g : Enumerates(g, m, Len(s), places)
  BY <1>1, PlacesEnumerated
<1>3. PICK g : Enumerates(g, m, Len(s), places)
  BY <1>2
<1> QED BY <1>3, PickedIs

-----------------------------------------------------------------------------
Keeps(g, m, s, kept, t) ==
    /\ Len(t) = m
    /\ \A k \in 1..m : t[k] = s[g[k]] /\ g[k] \in 1..Len(s) /\ s[g[k]] \in kept
    /\ \A j, k \in 1..m : j < k => g[j] < g[k]
    /\ \A i \in 1..Len(s) : s[i] \in kept => \E k \in 1..m : g[k] = i

(* What is kept stands in its order.                                       *)
LEMMA FilterIs ==
    ASSUME NEW S, NEW s \in Seq(S), NEW kept
    PROVE  /\ Filter(s, kept) \in Seq(S)
           /\ \E m \in Nat : \E g : Keeps(g, m, s, kept, Filter(s, kept))
<1> DEFINE places == {i \in DOMAIN s : s[i] \in kept}
<1>1. DOMAIN s = 1..Len(s)
  OBVIOUS
<1>2. \A i \in 1..Len(s) : i \in places <=> s[i] \in kept
  BY <1>1
<1>3. Filter(s, kept) = Picked(s, places)
  BY DEF Filter
<1> HIDE DEF places
<1>4. PICK m \in Nat : \E g :
         /\ Enumerates(g, m, Len(s), places)
         /\ Picked(s, places) \in Seq(S) /\ Len(Picked(s, places)) = m
         /\ \A k \in 1..m : Picked(s, places)[k] = s[g[k]] /\ g[k] \in 1..Len(s)
  BY PickedAre
<1>5. PICK g :
         /\ Enumerates(g, m, Len(s), places)
         /\ Picked(s, places) \in Seq(S) /\ Len(Picked(s, places)) = m
         /\ \A k \in 1..m : Picked(s, places)[k] = s[g[k]] /\ g[k] \in 1..Len(s)
  BY <1>4
<1>6. \A k \in 1..m : s[g[k]] \in kept
  BY <1>2, <1>5 DEF Enumerates
<1>7. \A j, k \in 1..m : j < k => g[j] < g[k]
  BY <1>5 DEF Enumerates
<1>8. \A i \in 1..Len(s) : s[i] \in kept => \E k \in 1..m : g[k] = i
  BY <1>2, <1>5 DEF Enumerates
<1>9. Picked(s, places) \in Seq(S) /\ Len(Picked(s, places)) = m
  BY <1>5
<1>10. \A k \in 1..m : Picked(s, places)[k] = s[g[k]] /\ g[k] \in 1..Len(s) /\ s[g[k]] \in kept
  BY <1>5, <1>6
<1>11. Keeps(g, m, s, kept, Picked(s, places))
  BY <1>7, <1>8, <1>9, <1>10 DEF Keeps
<1>12. Keeps(g, m, s, kept, Filter(s, kept))
  BY <1>3, <1>11
<1> QED BY <1>3, <1>9, <1>12
==============================================================================
