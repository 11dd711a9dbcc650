---------------------------- MODULE IndexProofs ----------------------------
(***************************************************************************)
(* Proofs about the index: Indexing and DocAttributes, for every           *)
(* configuration, header, table, hash and filter, and IndexFormat, for     *)
(* every inverted index and summary whose sizes fit the types of the code. *)
(***************************************************************************)
EXTENDS DocAttributes, IndexFormat, SequenceTheorems, WellFoundedInduction, TLAPS

-----------------------------------------------------------------------------
(* Sequences.                                                              *)

(* The least element of a set of numbers.                                  *)
LEMMA LeastNatural ==
  ASSUME NEW S \in SUBSET Nat, S # {}
  PROVE  \E m \in S : \A n \in S : m <= n
  <1> DEFINE R == OpToRel(<, Nat)
  <1>1. IsWellFoundedOn(R, Nat)
    BY NatLessThanWellFounded
  <1>2. \E m \in S : \A n \in S : ~ (<<n, m>> \in R)
    <2> HIDE DEF R
    <2> QED
      BY <1>1, WFMin
  <1>3. \A m, n \in Nat : n < m => <<n, m>> \in R
    BY DEF OpToRel
  <1> HIDE DEF R
  <1>4. \A m, n \in Nat : ~(n < m) => m <= n
    OBVIOUS
  <1> QED
    BY <1>2, <1>3, <1>4

(* Induction, with a set in the place of a predicate.                      *)
LEMMA SetInduction ==
  ASSUME NEW P \in SUBSET Nat, 0 \in P, \A n \in P : n + 1 \in P
  PROVE  P = Nat
  <1> SUFFICES ASSUME Nat \ P # {}
               PROVE  FALSE
    OBVIOUS
  <1>1. PICK m \in Nat \ P : \A n \in Nat \ P : m <= n
    <2>1. Nat \ P \in SUBSET Nat
      OBVIOUS
    <2> QED
      BY <2>1, LeastNatural
  <1>2. m # 0 /\ m - 1 \in Nat /\ ~(m <= m - 1) /\ m = (m - 1) + 1
    BY <1>1
  <1>3. m - 1 \in P
    BY <1>1, <1>2
  <1> QED
    BY <1>1, <1>2, <1>3

(* FlattenSeq's partial results: the n-th is the first n sequences.        *)
LEMMA FlattenUnfolds ==
  ASSUME NEW S, NEW s \in Seq(Seq(S)), s # <<>>
  PROVE  \E g \in [1..Len(s) -> Seq(S)] :
           /\ FlattenSeq(s) = g[Len(s)]
           /\ g[1] = s[1]
           /\ \A n \in 1..(Len(s) - 1) : g[n + 1] = g[n] \o s[n + 1]
  <1> DEFINE N == Len(s)
             Steps(g, n) == \A i \in 1..n : g[i] = IF i = 1 THEN s[i] ELSE g[i - 1] \o s[i]
             P == {n \in Nat : n <= N => \E g \in [1..n -> Seq(S)] : Steps(g, n)}
  <1>1. N \in Nat /\ N # 0 /\ \A i \in 1..N : s[i] \in Seq(S)
    BY EmptySeq, LenProperties, ElementOfSeq
  <1>2. 0 \in P
    <2>1. [i \in 1..0 |-> <<>>] \in [1..0 -> Seq(S)] /\ Steps([i \in 1..0 |-> <<>>], 0)
      OBVIOUS
    <2> QED
      BY <2>1
  <1>3. ASSUME NEW n \in P
        PROVE  n + 1 \in P
    <2>0. n \in Nat /\ n + 1 \in Nat
      OBVIOUS
    <2> SUFFICES ASSUME n + 1 <= N
                 PROVE  \E h \in [1..(n + 1) -> Seq(S)] : Steps(h, n + 1)
      BY <2>0
    <2>1. PICK g \in [1..n -> Seq(S)] : Steps(g, n)
      BY <1>1
    <2> DEFINE last == IF n = 0 THEN s[1] ELSE g[n] \o s[n + 1]
               h == [i \in 1..(n + 1) |-> IF i = n + 1 THEN last ELSE g[i]]
    <2>2. last \in Seq(S)
      <3>1. CASE n = 0
        BY <3>1, <1>1
      <3>2. CASE n # 0
        <4>1. g[n] \in Seq(S) /\ s[n + 1] \in Seq(S)
          BY <1>1, <2>1, <3>2
        <4> QED
          BY <3>2, <4>1, ConcatProperties
      <3> QED
        BY <3>1, <3>2
    <2>3. h \in [1..(n + 1) -> Seq(S)]
      <3> HIDE DEF last
      <3> QED
        BY <2>1, <2>2
    <2>4. Steps(h, n + 1)
      <3>1. \A i \in 1..n : h[i] = g[i]
        <4> HIDE DEF last
        <4> QED
          BY <2>0
      <3>2. h[n + 1] = last
        BY <2>0
      <3> SUFFICES ASSUME NEW i \in 1..(n + 1)
                   PROVE  h[i] = IF i = 1 THEN s[i] ELSE h[i - 1] \o s[i]
        OBVIOUS
      <3>3. CASE i = n + 1
        <4>1. n # 0 => h[n] = g[n]
          BY <2>0, <3>1
        <4> HIDE DEF h
        <4> QED
          BY <2>0, <3>2, <3>3, <4>1
      <3>4. CASE i # n + 1
        <4>0. i \in 1..n
          BY <2>0, <3>4
        <4>1. g[i] = IF i = 1 THEN s[i] ELSE g[i - 1] \o s[i]
          BY <2>1, <4>0
        <4>2. h[i] = g[i] /\ (i # 1 => h[i - 1] = g[i - 1])
          BY <2>0, <3>1, <3>4
        <4> HIDE DEF h
        <4> QED
          BY <4>1, <4>2
      <3> QED
        BY <3>3, <3>4
    <2> QED
      BY <2>3, <2>4
  <1>4. PICK g \in [1..N -> Seq(S)] : Steps(g, N)
    <2>1. P \in SUBSET Nat
      OBVIOUS
    <2> HIDE DEF P
    <2>2. P = Nat
      BY <1>2, <1>3, <2>1, SetInduction
    <2>3. N \in P
      BY <1>1, <2>2
    <2> QED
      BY <1>1, <2>3 DEF P
  <1> DEFINE Flattens(f) ==
        f = [i \in 1..N |-> IF i = 1 THEN s[i] ELSE f[i - 1] \o s[i]]
  <1>5. Flattens(g)
    BY <1>4
  <1> DEFINE f == CHOOSE f : Flattens(f)
  <1>6. Flattens(f)
    <2> HIDE DEF Flattens
    <2> QED
      BY <1>5
  <1>7. FlattenSeq(s) = f[N]
    BY <1>1 DEF FlattenSeq
  <1> HIDE DEF f
  <1>8. \A i \in 1..N : f[i] = IF i = 1 THEN s[i] ELSE f[i - 1] \o s[i]
    BY <1>6
  <1>9. f = [i \in 1..N |-> f[i]]
    BY <1>6
  <1> DEFINE Q == {n \in Nat : n + 1 <= N => f[n + 1] \in Seq(S)}
  <1>10. 0 \in Q
    BY <1>1, <1>8
  <1>11. ASSUME NEW n \in Q
         PROVE  n + 1 \in Q
    <2>0. n \in Nat /\ n + 1 \in Nat /\ (n + 1) + 1 = n + 2
      OBVIOUS
    <2> SUFFICES ASSUME n + 2 <= N
                 PROVE  f[n + 2] \in Seq(S)
      BY <2>0
    <2>1. f[n + 2] = f[n + 1] \o s[n + 2]
      <3>1. n + 2 \in 1..N /\ n + 2 # 1 /\ (n + 2) - 1 = n + 1
        BY <1>1, <2>0
      <3> HIDE DEF N
      <3> QED
        BY <1>8, <3>1
    <2>2. f[n + 1] \in Seq(S) /\ s[n + 2] \in Seq(S)
      BY <1>1, <2>0
    <2> QED
      BY <2>1, <2>2, ConcatProperties
  <1>12. \A n \in 1..N : f[n] \in Seq(S)
    <2>1. Q \in SUBSET Nat
      OBVIOUS
    <2> HIDE DEF Q
    <2>2. Q = Nat
      BY <1>10, <1>11, <2>1, SetInduction
    <2>3. ASSUME NEW n \in 1..N
          PROVE  f[n] \in Seq(S)
      <3>1. n - 1 \in Q /\ (n - 1) + 1 = n
        BY <1>1, <2>2
      <3> QED
        BY <3>1, <1>1 DEF Q
    <2> QED
      BY <2>3
  <1>13. f \in [1..N -> Seq(S)]
    BY <1>9, <1>12
  <1>14. f[1] = s[1]
    BY <1>1, <1>8
  <1>15. ASSUME NEW n \in 1..(N - 1)
         PROVE  f[n + 1] = f[n] \o s[n + 1]
    <2>1. n + 1 \in 1..N /\ n + 1 # 1 /\ (n + 1) - 1 = n
      BY <1>1
    <2> HIDE DEF N
    <2> QED
      BY <1>8, <2>1
  <1> QED
    BY <1>7, <1>13, <1>14, <1>15

(* FlattenSeq's partial results, from none of the sequences to all: each   *)
(* is the beginning of every later one.                                    *)
Beginnings(g, s) ==
  /\ g[0] = <<>> /\ g[Len(s)] = FlattenSeq(s)
  /\ \A n \in 1..Len(s) :
       /\ g[n] = g[n - 1] \o s[n]
       /\ Len(g[n]) = Len(g[n - 1]) + Len(s[n])
       /\ \A j \in 1..Len(s[n]) : g[n][Len(g[n - 1]) + j] = s[n][j]
  /\ \A n \in 0..Len(s) : \A c \in 0..n :
       /\ Len(g[c]) <= Len(g[n])
       /\ \A i \in 1..Len(g[c]) : g[n][i] = g[c][i]

(* The beginnings of a flattened sequence of sequences exist.              *)
LEMMA FlattenPrefixes ==
  ASSUME NEW S, NEW s \in Seq(Seq(S))
  PROVE  \E g \in [0..Len(s) -> Seq(S)] : Beginnings(g, s)
  <1> DEFINE N == Len(s)
             Steps(g) == /\ g[0] = <<>> /\ g[N] = FlattenSeq(s)
                         /\ \A n \in 1..N : g[n] = g[n - 1] \o s[n]
  <1>0. N \in Nat /\ \A n \in 1..N : s[n] \in Seq(S) /\ Len(s[n]) \in Nat
    BY ElementOfSeq, LenProperties
  <1>1. \E g \in [0..N -> Seq(S)] : Steps(g)
    <2>1. CASE s = <<>>
      <3> DEFINE none == [n \in 0..N |-> <<>>]
      <3>1. N = 0 /\ FlattenSeq(s) = <<>> /\ 1..N = {} /\ 0..N = {0}
        BY <2>1 DEF FlattenSeq
      <3>2. none \in [0..N -> Seq(S)] /\ none[0] = <<>>
        BY <3>1
      <3> HIDE DEF none
      <3> QED
        BY <3>1, <3>2
    <2>2. CASE s # <<>>
      <3>1. PICK f \in [1..N -> Seq(S)] :
              /\ FlattenSeq(s) = f[N]
              /\ f[1] = s[1]
              /\ \A n \in 1..(N - 1) : f[n + 1] = f[n] \o s[n + 1]
        BY <2>2, FlattenUnfolds
      <3> DEFINE g == [n \in 0..N |-> IF n = 0 THEN <<>> ELSE f[n]]
      <3>2. g \in [0..N -> Seq(S)] /\ g[0] = <<>> /\ \A n \in 1..N : g[n] = f[n]
        BY <1>0
      <3>3. N \in 1..N
        BY <2>2, <1>0, EmptySeq
      <3> HIDE DEF g, N
      <3>4. ASSUME NEW n \in 1..N
            PROVE  g[n] = g[n - 1] \o s[n]
        <4>1. CASE n = 1
          <5>1. s[1] \in Seq(S) /\ 1 - 1 = 0
            BY <1>0, <4>1
          <5> QED
            BY <3>1, <3>2, <4>1, <5>1, ConcatEmptySeq
        <4>2. CASE n # 1
          <5>1. n - 1 \in 1..(N - 1) /\ n - 1 \in 1..N /\ (n - 1) + 1 = n
            BY <1>0, <4>2
          <5> QED
            BY <3>1, <3>2, <5>1
        <4> QED
          BY <4>1, <4>2
      <3> QED
        BY <3>1, <3>2, <3>3, <3>4
    <2> QED
      BY <2>1, <2>2
  <1>2. PICK g \in [0..N -> Seq(S)] : Steps(g)
    BY <1>1
  <1>3. \A n \in 0..N : g[n] \in Seq(S) /\ Len(g[n]) \in Nat
    BY LenProperties
  <1> DEFINE Kept(c, n) == /\ Len(g[c]) <= Len(g[n])
                           /\ \A i \in 1..Len(g[c]) : g[n][i] = g[c][i]
             P == {n \in Nat : n <= N => \A c \in 0..n : Kept(c, n)}
  <1>4. ASSUME NEW n \in 1..N
        PROVE  /\ n - 1 \in 0..N
               /\ Len(g[n]) = Len(g[n - 1]) + Len(s[n])
               /\ \A j \in 1..Len(s[n]) : g[n][Len(g[n - 1]) + j] = s[n][j]
               /\ Kept(n - 1, n)
    <2> DEFINE a == g[n - 1]
               b == s[n]
    <2>1. n - 1 \in 0..N
      BY <1>0
    <2>2. a \in Seq(S) /\ b \in Seq(S) /\ g[n] = a \o b /\ Len(a) \in Nat /\ Len(b) \in Nat
      BY <1>0, <1>2, <1>3, <2>1
    <2> HIDE DEF a, b
    <2>3. /\ Len(a \o b) = Len(a) + Len(b)
          /\ \A i \in 1..(Len(a) + Len(b)) :
               (a \o b)[i] = IF i <= Len(a) THEN a[i] ELSE b[i - Len(a)]
      BY <2>2, ConcatProperties
    <2>4. \A i \in 1..Len(a) : (a \o b)[i] = a[i]
      BY <2>2, <2>3
    <2>5. ASSUME NEW j \in 1..Len(b)
          PROVE  (a \o b)[Len(a) + j] = b[j]
      <3>1. /\ Len(a) + j \in 1..(Len(a) + Len(b)) /\ ~(Len(a) + j <= Len(a))
            /\ (Len(a) + j) - Len(a) = j
        BY <2>2
      <3> QED
        BY <2>3, <3>1
    <2>6. Len(a) <= Len(a \o b)
      BY <2>2, <2>3
    <2> QED
      BY <2>1, <2>2, <2>3, <2>4, <2>5, <2>6 DEF a, b
  <1>5. 0 \in P
    <2>1. \A c \in 0..0 : c = 0
      OBVIOUS
    <2>2. Len(g[0]) <= Len(g[0])
      BY <1>0, <1>3
    <2> QED
      BY <2>1, <2>2
  <1>6. ASSUME NEW n \in P
        PROVE  n + 1 \in P
    <2>1. n \in Nat /\ n + 1 \in Nat /\ (n + 1) - 1 = n
      OBVIOUS
    <2> SUFFICES ASSUME n + 1 <= N, NEW c \in 0..(n + 1)
                 PROVE  Kept(c, n + 1)
      BY <2>1
    <2>2. n + 1 \in 1..N /\ n \in 0..N /\ n + 1 \in 0..N /\ c \in 0..N
      BY <1>0, <2>1
    <2>3. CASE c = n + 1
      <3>1. Len(g[n + 1]) <= Len(g[n + 1])
        BY <1>3, <2>2
      <3> QED
        BY <2>3, <3>1
    <2>4. CASE c # n + 1
      <3>1. c \in 0..n
        BY <2>1, <2>4
      <3>2. Kept(c, n)
        BY <1>0, <2>1, <2>2, <3>1
      <3>3. Kept(n, n + 1)
        <4>1. Kept((n + 1) - 1, n + 1)
          <5> HIDE DEF Kept
          <5> QED
            BY <1>4, <2>2
        <4> QED
          BY <2>1, <4>1
      <3>4. Len(g[c]) \in Nat /\ Len(g[n]) \in Nat /\ Len(g[n + 1]) \in Nat
        BY <1>3, <2>2
      <3> DEFINE x == g[c]
                 y == g[n]
                 z == g[n + 1]
      <3>5. /\ Len(x) <= Len(y) /\ Len(y) <= Len(z)
            /\ \A i \in 1..Len(x) : y[i] = x[i]
            /\ \A i \in 1..Len(y) : z[i] = y[i]
        BY <3>2, <3>3
      <3>6. Len(x) \in Nat /\ Len(y) \in Nat /\ Len(z) \in Nat
        BY <3>4
      <3> HIDE DEF x, y, z
      <3>7. Len(x) <= Len(z) /\ \A i \in 1..Len(x) : i \in 1..Len(y)
        <4> SUFFICES ASSUME NEW k \in Nat, NEW l \in Nat, NEW m \in Nat, k <= l, l <= m
                     PROVE  k <= m /\ \A i \in 1..k : i \in 1..l
          BY <3>5, <3>6
        <4> QED
          OBVIOUS
      <3>8. \A i \in 1..Len(x) : z[i] = x[i]
        BY <3>5, <3>7
      <3> QED
        BY <3>7, <3>8 DEF x, y, z
    <2> QED
      BY <2>3, <2>4
  <1>7. \A n \in 0..N : \A c \in 0..n : Kept(c, n)
    <2>1. P \in SUBSET Nat
      OBVIOUS
    <2>2. P = Nat
      <3> HIDE DEF P
      <3> QED
        BY <1>5, <1>6, <2>1, SetInduction
    <2>3. \A n \in 0..N : n \in Nat /\ n <= N
      BY <1>0
    <2> HIDE DEF Kept
    <2> QED
      BY <2>2, <2>3
  <1> HIDE DEF P
  <1> QED
    BY <1>2, <1>4, <1>7 DEF Beginnings

(* Where the sequences begin in the flattened one: their elements are      *)
(* there, in the same order, and nothing else is.                          *)
Places(start, s) ==
  /\ start \in [1..Len(s) -> Nat]
  /\ \A c \in 1..Len(s) : \A j \in 1..Len(s[c]) :
       start[c] + j \in 1..Len(FlattenSeq(s)) /\ FlattenSeq(s)[start[c] + j] = s[c][j]
  /\ \A c, d \in 1..Len(s) : c < d => start[c] + Len(s[c]) <= start[d]
  /\ \A p \in 1..Len(FlattenSeq(s)) :
       \E c \in 1..Len(s) : \E j \in 1..Len(s[c]) : p = start[c] + j

(* The parts of a flattened sequence have places in it, in their order.    *)
LEMMA FlattenInOrder ==
  ASSUME NEW S, NEW s \in Seq(Seq(S))
  PROVE  /\ FlattenSeq(s) \in Seq(S)
         /\ \E start : Places(start, s)
  <1> DEFINE N == Len(s)
             F == FlattenSeq(s)
  <1>0. N \in Nat /\ \A c \in 1..N : Len(s[c]) \in Nat
    BY ElementOfSeq, LenProperties
  <1>1. PICK g \in [0..N -> Seq(S)] :
          /\ g[0] = <<>> /\ g[N] = F
          /\ \A n \in 1..N :
               /\ g[n] = g[n - 1] \o s[n]
               /\ Len(g[n]) = Len(g[n - 1]) + Len(s[n])
               /\ \A j \in 1..Len(s[n]) : g[n][Len(g[n - 1]) + j] = s[n][j]
          /\ \A n \in 0..N : \A c \in 0..n :
               /\ Len(g[c]) <= Len(g[n])
               /\ \A i \in 1..Len(g[c]) : g[n][i] = g[c][i]
    <2> HIDE DEF N, F
    <2>1. PICK g \in [0..Len(s) -> Seq(S)] : Beginnings(g, s)
      BY FlattenPrefixes
    <2> QED
      BY <2>1 DEF Beginnings, N, F
  <1>2. \A n \in 0..N : g[n] \in Seq(S) /\ Len(g[n]) \in Nat
    BY LenProperties
  <1>3. F \in Seq(S) /\ Len(F) \in Nat /\ N \in 0..N
    BY <1>0, <1>1, <1>2
  <1> DEFINE start == [c \in 1..N |-> Len(g[c - 1])]
  <1>4. ASSUME NEW c \in 1..N
        PROVE  /\ start[c] = Len(g[c - 1]) /\ start[c] \in Nat
               /\ Len(g[c]) = start[c] + Len(s[c]) /\ Len(g[c]) <= Len(F)
               /\ \A i \in 1..Len(g[c]) : F[i] = g[c][i]
    <2>1. c - 1 \in 0..N /\ c \in 0..N
      BY <1>0
    <2>2. start[c] = Len(g[c - 1]) /\ start[c] \in Nat
      BY <1>2, <2>1
    <2>3. Len(g[c]) = Len(g[c - 1]) + Len(s[c])
      BY <1>1
    <2>4. Len(g[c]) <= Len(F) /\ \A i \in 1..Len(g[c]) : F[i] = g[c][i]
      BY <1>0, <1>1, <1>3, <2>1
    <2> QED
      BY <2>2, <2>3, <2>4
  <1>5. start \in [1..N -> Nat]
    BY <1>4
  <1> HIDE DEF start, F, N
  <1>6. ASSUME NEW c \in 1..N, NEW j \in 1..Len(s[c])
        PROVE  start[c] + j \in 1..Len(F) /\ F[start[c] + j] = s[c][j]
    <2>1. start[c] + j \in 1..Len(g[c]) /\ start[c] + j \in 1..Len(F)
      <3> SUFFICES ASSUME NEW a \in Nat, NEW b \in Nat, NEW k \in 1..b, NEW l \in Nat,
                          a + b <= l
                   PROVE  a + k \in 1..(a + b) /\ a + k \in 1..l
        BY <1>0, <1>3, <1>4
      <3> QED
        OBVIOUS
    <2>2. g[c][start[c] + j] = s[c][j]
      BY <1>1, <1>4
    <2> QED
      BY <1>4, <2>1, <2>2
  <1>7. ASSUME NEW c \in 1..N, NEW d \in 1..N, c < d
        PROVE  start[c] + Len(s[c]) <= start[d]
    <2>1. d - 1 \in 0..N /\ c \in 0..(d - 1)
      BY <1>0, <1>7
    <2> QED
      BY <1>1, <1>4, <2>1
  <1>8. ASSUME NEW p \in 1..Len(F)
        PROVE  \E c \in 1..N : \E j \in 1..Len(s[c]) : p = start[c] + j
    <2> DEFINE reached == {c \in 0..N : p <= Len(g[c])}
    <2>1. N \in reached /\ reached \in SUBSET Nat
      BY <1>0, <1>1, <1>3
    <2>2. PICK c \in reached : \A d \in reached : c <= d
      <3> HIDE DEF reached
      <3> QED
        BY <2>1, LeastNatural
    <2>3. c # 0
      <3>1. Len(g[0]) = 0
        BY <1>1
      <3> QED
        BY <2>2, <3>1, <1>3
    <2>4. c \in 1..N /\ c - 1 \in 0..N /\ ~(c <= c - 1)
      BY <1>0, <2>2, <2>3
    <2>5. ~(p <= Len(g[c - 1])) /\ p <= Len(g[c])
      BY <2>2, <2>4
    <2>6. p - start[c] \in 1..Len(s[c]) /\ p = start[c] + (p - start[c])
      <3> SUFFICES ASSUME NEW a \in Nat, NEW b \in Nat, NEW q \in Nat,
                          ~(q <= a), q <= a + b
                   PROVE  q - a \in 1..b /\ q = a + (q - a)
        <4>1. /\ p \in Nat /\ start[c] \in Nat /\ Len(s[c]) \in Nat
              /\ ~(p <= start[c]) /\ p <= start[c] + Len(s[c])
          <5>1. /\ start[c] = Len(g[c - 1]) /\ start[c] \in Nat
                /\ Len(g[c]) = start[c] + Len(s[c])
            BY <1>4, <2>4
          <5>2. p \in Nat /\ Len(s[c]) \in Nat
            BY <1>0, <1>3, <2>4
          <5> QED
            BY <2>5, <5>1, <5>2
        <4> QED
          BY <4>1
      <3> QED
        OBVIOUS
    <2> QED
      BY <2>4, <2>6
  <1> QED
    BY <1>3, <1>5, <1>6, <1>7, <1>8 DEF Places, F, N

(* Append on whatever is a sequence.                                       *)
LEMMA AppendToSequence ==
  ASSUME NEW s, IsSequence(s), NEW e
  PROVE  /\ IsSequence(Append(s, e))
         /\ Len(Append(s, e)) = Len(s) + 1
         /\ \A i \in 1..Len(s) : Append(s, e)[i] = s[i]
         /\ Append(s, e)[Len(s) + 1] = e
  <1> DEFINE S == {s[i] : i \in 1..Len(s)} \cup {e}
  <1>1. Len(s) \in Nat /\ s = [i \in 1..Len(s) |-> s[i]]
    BY DEF IsSequence
  <1>2. s \in Seq(S) /\ e \in S
    <2>1. \A i \in 1..Len(s) : s[i] \in S
      OBVIOUS
    <2> HIDE DEF S
    <2>2. s \in [1..Len(s) -> S]
      BY <1>1, <2>1
    <2>3. e \in S
      BY DEF S
    <2> QED
      BY <1>1, <2>2, <2>3
  <1> HIDE DEF S
  <1>3. /\ Append(s, e) \in Seq(S)
        /\ Len(Append(s, e)) = Len(s) + 1
        /\ \A i \in 1..Len(s) : Append(s, e)[i] = s[i]
        /\ Append(s, e)[Len(s) + 1] = e
    BY <1>2, AppendProperties
  <1>4. \A q \in Seq(S) : IsSequence(q)
    <2> SUFFICES ASSUME NEW q \in Seq(S)
                 PROVE  IsSequence(q)
      OBVIOUS
    <2>1. Len(q) \in Nat /\ q \in [1..Len(q) -> S]
      BY LenProperties
    <2> QED
      BY <2>1 DEF IsSequence
  <1> QED
    BY <1>3, <1>4

(* The empty sequence is one.                                              *)
LEMMA EmptyIsSequence == IsSequence(<<>>) /\ Len(<<>>) = 0
  BY DEF IsSequence

-----------------------------------------------------------------------------
(* The lists, the summary and the ids. What a row's words are (Words,      *)
(* Tokens, Hits) is left unexpanded here.                                  *)
LEMMA InitInv == Init => Inv
  <1> SUFFICES ASSUME Init
               PROVE  Inv
    OBVIOUS
  <1>1. TypeOK
    BY IndexingAssumption DEF Init, TypeOK
  <1>2. IsSequence(summary) /\ Len(summary) = ldocid
    BY EmptyIsSequence DEF Init
  <1>3. \A t \in Strings : IsSequence(inverter[t]) /\ Len(inverter[t]) = 0
    BY EmptyIsSequence DEF Init
  <1>4. PostingsAscend
    BY <1>3 DEF PostingsAscend
  <1>5. Len(rows) = 0
    BY DEF Init
  <1> QED
    BY <1>1, <1>2, <1>3, <1>4, <1>5 DEF Inv

(* One step of ProcessDoc, with what it appends to each list.              *)
LEMMA ProcessDocInv ==
  ASSUME Inv, ldocid < MaxDocs,
         NEW row \in [1..Len(columns) -> Values], ProcessDoc(row)
  PROVE  Inv'
  <1> DEFINE Listed(t) == t \in Tokens(Words(row))
             entry(t)  == DocInvert(ldocid, t, Words(row))
  <1>1. /\ TypeOK /\ IsSequence(summary) /\ Len(summary) = ldocid
        /\ \A t \in Strings : IsSequence(inverter[t])
        /\ PostingsAscend
    BY DEF Inv
  <1>2. /\ ldocid \in Nat /\ ldocid <= MaxDocs /\ MaxDocs \in Nat
        /\ rows \in Seq([1..Len(columns) -> Values]) /\ Len(rows) = ldocid
    BY <1>1, IndexingAssumption DEF TypeOK
  <1>3. /\ source' = source /\ columns' = columns /\ pc' = pc
        /\ ldocid' = ldocid + 1
        /\ rows' = Append(rows, row)
        /\ summary' = Append(summary, Attributes(row))
    BY DEF ProcessDoc
  <1>4. /\ DOMAIN inverter' = Strings
        /\ \A t \in Strings :
             inverter'[t] = IF Listed(t) THEN Append(inverter[t], entry(t))
                            ELSE inverter[t]
    BY DEF ProcessDoc
  <1>5. \A t \in Strings : entry(t).local_id = ldocid
    BY DEF DocInvert
  <1> HIDE DEF Listed, entry
  <1>6. TypeOK'
    <2>1. /\ rows' \in Seq([1..Len(columns) -> Values])
          /\ Len(rows') = ldocid + 1
      BY <1>2, <1>3, AppendProperties
    <2>2. ldocid' \in 0..MaxDocs
      BY <1>2, <1>3
    <2> QED
      BY <1>1, <1>3, <1>4, <2>1, <2>2 DEF TypeOK
  <1>7. IsSequence(summary') /\ Len(summary') = ldocid'
    BY <1>1, <1>3, AppendToSequence
  <1>8. \A t \in Strings : IsSequence(inverter[t]) /\ Len(inverter[t]) \in Nat
    BY <1>1 DEF IsSequence
  <1>9. ASSUME NEW t \in Strings, Listed(t)
        PROVE  /\ IsSequence(inverter'[t])
               /\ Len(inverter'[t]) = Len(inverter[t]) + 1
               /\ \A i \in 1..Len(inverter[t]) : inverter'[t][i] = inverter[t][i]
               /\ inverter'[t][Len(inverter[t]) + 1].local_id = ldocid
    <2>1. inverter'[t] = Append(inverter[t], entry(t))
      BY <1>4, <1>9
    <2>2. /\ IsSequence(Append(inverter[t], entry(t)))
          /\ Len(Append(inverter[t], entry(t))) = Len(inverter[t]) + 1
          /\ \A i \in 1..Len(inverter[t]) :
               Append(inverter[t], entry(t))[i] = inverter[t][i]
          /\ Append(inverter[t], entry(t))[Len(inverter[t]) + 1] = entry(t)
      BY <1>8, AppendToSequence
    <2> QED
      BY <2>1, <2>2, <1>5
  <1>10. ASSUME NEW t \in Strings, ~Listed(t)
         PROVE  inverter'[t] = inverter[t]
    BY <1>4, <1>10
  <1>11. \A t \in Strings : \A i \in 1..Len(inverter[t]) :
           inverter[t][i].local_id \in 0..(ldocid - 1)
    BY <1>1 DEF PostingsAscend
  <1>12. PostingsAscend'
    <2> SUFFICES ASSUME NEW t \in Strings, NEW i \in 1..Len(inverter'[t])
                 PROVE  /\ inverter'[t][i].local_id \in 0..(Len(summary') - 1)
                        /\ \A j \in 1..(i - 1) :
                             inverter'[t][j].local_id < inverter'[t][i].local_id
      BY DEF PostingsAscend
    <2>1. Len(summary') - 1 = ldocid
      BY <1>2, <1>3, <1>7
    <2>2. /\ i \in 1..Len(inverter[t]) =>
               /\ inverter[t][i].local_id \in 0..(ldocid - 1)
               /\ \A j \in 1..(i - 1) :
                    /\ j \in 1..Len(inverter[t])
                    /\ inverter[t][j].local_id < inverter[t][i].local_id
      <3>1. Len(inverter[t]) \in Nat
        BY <1>8
      <3> QED
        BY <1>1, <1>11, <3>1 DEF PostingsAscend
    <2>3. CASE ~Listed(t)
      BY <2>1, <2>2, <2>3, <1>2, <1>10
    <2>4. CASE Listed(t) /\ i \in 1..Len(inverter[t])
      <3>1. /\ inverter'[t][i] = inverter[t][i]
            /\ inverter[t][i].local_id \in 0..(ldocid - 1)
        BY <2>2, <2>4, <1>9
      <3>2. \A j \in 1..(i - 1) :
              /\ inverter'[t][j] = inverter[t][j]
              /\ inverter[t][j].local_id < inverter[t][i].local_id
        BY <2>2, <2>4, <1>9
      <3>3. inverter'[t][i].local_id \in 0..ldocid
        BY <3>1, <1>2
      <3> QED
        BY <2>1, <3>1, <3>2, <3>3
    <2>5. CASE Listed(t) /\ i \notin 1..Len(inverter[t])
      <3>1. i = Len(inverter[t]) + 1 /\ Len(inverter[t]) \in Nat
        BY <2>5, <1>8, <1>9
      <3>2. inverter'[t][i].local_id = ldocid
        BY <2>5, <3>1, <1>9
      <3>3. \A j \in 1..(i - 1) :
              inverter'[t][j].local_id \in 0..(ldocid - 1)
        BY <2>5, <3>1, <1>9, <1>11
      <3> QED
        BY <2>1, <3>2, <3>3, <1>2
    <2> QED
      BY <2>3, <2>4, <2>5
  <1>13. ASSUME NEW t \in Strings, NEW d \in 1..Len(rows')
         PROVE  (t \in Tokens(Words(rows[d])))' <=>
                  \E i \in 1..Len(inverter'[t]) :
                    inverter'[t][i].local_id = d - 1
    <2>1. /\ Len(rows') = ldocid + 1
          /\ \A e \in 1..ldocid : rows'[e] = rows[e]
          /\ rows'[ldocid + 1] = row
      BY <1>2, <1>3, AppendProperties
    <2>2. (t \in Tokens(Words(rows[d])))' <=> t \in Tokens(Words(rows'[d]))
      BY <1>3 DEF Words, Tokens
    <2>3. Len(inverter[t]) \in Nat
      BY <1>8
    <2>4. CASE d = ldocid + 1
      <3>1. t \in Tokens(Words(rows'[d])) <=> Listed(t)
        BY <2>1, <2>4 DEF Listed
      <3>2. ASSUME Listed(t)
            PROVE  \E i \in 1..Len(inverter'[t]) :
                     inverter'[t][i].local_id = d - 1
        <4>1. Len(inverter[t]) + 1 \in 1..Len(inverter'[t])
          BY <3>2, <1>9, <2>3
        <4>2. inverter'[t][Len(inverter[t]) + 1].local_id = d - 1
          BY <3>2, <1>9, <1>2, <2>4
        <4> QED
          BY <4>1, <4>2
      <3>3. ASSUME ~Listed(t)
            PROVE  \A i \in 1..Len(inverter'[t]) :
                     inverter'[t][i].local_id # d - 1
        BY <3>3, <1>2, <1>10, <1>11, <2>4
      <3> QED
        BY <2>2, <3>1, <3>2, <3>3
    <2>5. CASE d # ldocid + 1
      <3>1. d \in 1..Len(rows) /\ rows'[d] = rows[d] /\ d - 1 # ldocid
        BY <2>1, <2>5, <1>2
      <3>2. t \in Tokens(Words(rows[d])) <=>
              \E i \in 1..Len(inverter[t]) : inverter[t][i].local_id = d - 1
        BY <3>1 DEF Inv
      <3>3. CASE ~Listed(t)
        BY <3>1, <3>2, <3>3, <2>2, <1>10
      <3>4. CASE Listed(t)
        <4>1. \A i \in 1..Len(inverter'[t]) :
                \/ i \in 1..Len(inverter[t]) /\ inverter'[t][i] = inverter[t][i]
                \/ inverter'[t][i].local_id = ldocid
          BY <3>4, <2>3, <1>9
        <4>2. \A i \in 1..Len(inverter[t]) :
                i \in 1..Len(inverter'[t]) /\ inverter'[t][i] = inverter[t][i]
          BY <3>4, <2>3, <1>9
        <4>3. (\E i \in 1..Len(inverter'[t]) :
                 inverter'[t][i].local_id = d - 1) <=>
              (\E i \in 1..Len(inverter[t]) :
                 inverter[t][i].local_id = d - 1)
          BY <4>1, <4>2, <3>1
        <4> QED
          BY <4>3, <3>1, <3>2, <2>2
      <3> QED
        BY <3>3, <3>4
    <2> QED
      BY <2>4, <2>5
  <1>14. \A t \in Strings : IsSequence(inverter'[t])
    BY <1>8, <1>9, <1>10
  <1> QED
    BY <1>6, <1>7, <1>12, <1>13, <1>14 DEF Inv, IsSequence

(* The end of the rows keeps the invariant.                                *)
LEMMA OtherStepsInv == Inv /\ (EndOfRows \/ UNCHANGED vars) => Inv'
  <1> SUFFICES ASSUME Inv, EndOfRows \/ UNCHANGED vars
               PROVE  Inv'
    OBVIOUS
  <1>1. /\ source' = source /\ columns' = columns /\ ldocid' = ldocid
        /\ inverter' = inverter /\ summary' = summary /\ rows' = rows
        /\ pc' \in {pc, "writing"}
    BY DEF EndOfRows, vars
  <1>2. TypeOK'
    BY <1>1 DEF Inv, TypeOK
  <1>3. PostingsAscend'
    BY <1>1 DEF Inv, PostingsAscend
  <1>4. IsSequence(summary') /\ Len(summary') = ldocid'
    BY <1>1 DEF Inv
  <1>5. \A t \in Strings : IsSequence(inverter'[t])
    BY <1>1 DEF Inv
  <1>6. ASSUME NEW t \in Strings, NEW d \in 1..Len(rows')
        PROVE  (t \in Tokens(Words(rows[d])))' <=>
                 \E i \in 1..Len(inverter'[t]) :
                   inverter'[t][i].local_id = d - 1
    <2>1. (t \in Tokens(Words(rows[d])))' <=> t \in Tokens(Words(rows[d]))
      BY <1>1 DEF Words, Tokens
    <2>2. t \in Tokens(Words(rows[d])) <=>
            \E i \in 1..Len(inverter[t]) : inverter[t][i].local_id = d - 1
      BY <1>1 DEF Inv
    <2> QED
      BY <1>1, <2>1, <2>2
  <1> QED
    BY <1>2, <1>3, <1>4, <1>5, <1>6 DEF Inv, IsSequence

(* Ids, posting lists and the summary after every row: a document's id is  *)
(* in the posting list of each of its row's tokens and in no other         *)
(* (looka_indexer.cpp:160-217).                                            *)
THEOREM Invariance == Spec => []Inv
  <1>1. Inv /\ [Next]_vars => Inv'
    BY ProcessDocInv, OtherStepsInv DEF Next
  <1> QED
    BY InitInv, <1>1, PTL DEF Spec

(* For every table, configuration and header ids count the rows, and only  *)
(* rows with the header's columns are processed.                           *)
THEOREM TypeCorrect == Spec => []TypeOK
  <1>1. Inv => TypeOK
    BY DEF Inv
  <1> QED
    BY Invariance, <1>1, PTL

(* For every table and hash posting lists ascend strictly, and each id in  *)
(* them has its attributes in the summary.                                 *)
THEOREM PostingsAreAscending == Spec => []PostingsAscend
  <1>1. Inv => PostingsAscend
    BY DEF Inv
  <1> QED
    BY Invariance, <1>1, PTL

-----------------------------------------------------------------------------
(* Tokens: the posting lists against the rows themselves.                  *)

(* The words of each column by itself.                                     *)
WordsOf(row) ==
  [c \in 1..Len(columns) |->
    IF ~Configured(columns[c], source.field) THEN <<>>
    ELSE [j \in 1..Len(row[c].words) |->
            [str |-> row[c].words[j].str, pos |-> row[c].words[j].pos % UChar,
             field |-> FieldIndex(columns[c], source.field)]]]

(* The words of a row, column by column.                                   *)
LEMMA WordsOfColumns ==
  ASSUME TypeOK, NEW row \in [1..Len(columns) -> Values]
  PROVE  /\ Len(columns) \in Nat
         /\ Words(row) = FlattenSeq(WordsOf(row))
         /\ \E S : WordsOf(row) \in Seq(Seq(S))
         /\ Len(WordsOf(row)) = Len(columns)
         /\ \A c \in 1..Len(columns) :
              /\ ~Configured(columns[c], source.field) => Len(WordsOf(row)[c]) = 0
              /\ Configured(columns[c], source.field) =>
                   /\ Len(WordsOf(row)[c]) = Len(row[c].words)
                   /\ \A j \in 1..Len(row[c].words) :
                        WordsOf(row)[c][j].str = row[c].words[j].str
  <1>1. Len(columns) \in Nat
    BY IndexingAssumption, LenProperties DEF TypeOK
  <1>2. \A c \in 1..Len(columns) : Len(row[c].words) \in Nat
    BY IndexingAssumption, LenProperties
  <1> DEFINE S == {WordsOf(row)[c][j] : c \in 1..Len(columns), j \in Nat}
  <1>3. ASSUME NEW c \in 1..Len(columns)
        PROVE  /\ WordsOf(row)[c] \in Seq(S)
               /\ ~Configured(columns[c], source.field) => Len(WordsOf(row)[c]) = 0
               /\ Configured(columns[c], source.field) =>
                   /\ Len(WordsOf(row)[c]) = Len(row[c].words)
                   /\ \A j \in 1..Len(row[c].words) :
                        WordsOf(row)[c][j].str = row[c].words[j].str
    <2>1. CASE ~Configured(columns[c], source.field)
      <3>1. WordsOf(row)[c] = <<>>
        BY <2>1 DEF WordsOf
      <3> HIDE DEF S
      <3> QED
        BY <2>1, <3>1
    <2>2. CASE Configured(columns[c], source.field)
      <3> DEFINE word(j) == [str |-> row[c].words[j].str,
                             pos |-> row[c].words[j].pos % UChar,
                             field |-> FieldIndex(columns[c], source.field)]
                 n == Len(row[c].words)
      <3>1. WordsOf(row)[c] = [j \in 1..n |-> word(j)]
        BY <2>2 DEF WordsOf
      <3>2. n \in Nat
        BY <1>2
      <3>3. \A j \in 1..n : WordsOf(row)[c][j] \in S
        <4> HIDE DEF n
        <4> QED
          BY <3>2
      <3>4. \A j \in 1..n : word(j).str = row[c].words[j].str
        OBVIOUS
      <3> HIDE DEF S, n, word
      <3>5. WordsOf(row)[c] \in [1..n -> S]
        BY <3>1, <3>3
      <3>6. WordsOf(row)[c] \in Seq(S) /\ Len(WordsOf(row)[c]) = n
        BY <3>1, <3>2, <3>5
      <3>7. \A j \in 1..n : WordsOf(row)[c][j].str = row[c].words[j].str
        BY <3>1, <3>4
      <3> QED
        BY <2>2, <3>6, <3>7 DEF n
    <2> QED
      BY <2>1, <2>2
  <1>4. WordsOf(row) = [c \in 1..Len(columns) |-> WordsOf(row)[c]]
    BY DEF WordsOf
  <1> HIDE DEF S
  <1>5. WordsOf(row) \in Seq(Seq(S)) /\ Len(WordsOf(row)) = Len(columns)
    BY <1>1, <1>3, <1>4
  <1>6. Words(row) = FlattenSeq(WordsOf(row))
    BY DEF Words, WordsOf
  <1> QED
    BY <1>1, <1>3, <1>5, <1>6

(* A row's tokens are those it has, in the words' order across its columns. *)
LEMMA TokensAreHad ==
  ASSUME TypeOK, NEW row \in [1..Len(columns) -> Values], NEW t \in Strings
  PROVE  t \in Tokens(Words(row)) <=> Has(row, t)
  <1> DEFINE W == WordsOf(row)
             F == Words(row)
             N == Len(columns)
  <1>1. /\ N \in Nat /\ F = FlattenSeq(W) /\ Len(W) = N
        /\ \A c \in 1..N : \A j \in 1..Len(W[c]) :
             /\ Configured(columns[c], source.field) /\ j \in 1..Len(row[c].words)
             /\ W[c][j].str = row[c].words[j].str
        /\ \A c \in 1..N : Configured(columns[c], source.field) =>
             Len(W[c]) = Len(row[c].words)
    <2>1. \A c \in 1..N : \A j \in 1..Len(W[c]) : Configured(columns[c], source.field)
      BY WordsOfColumns
    <2> QED
      BY WordsOfColumns, <2>1
  <1>2. PICK S : W \in Seq(Seq(S))
    BY WordsOfColumns
  <1>3. F \in Seq(S) /\ Len(F) \in Nat
    BY <1>1, <1>2, FlattenInOrder, LenProperties
  <1>4. \A c \in 1..N : Len(W[c]) \in Nat
    BY <1>1, <1>2, ElementOfSeq, LenProperties
  <1>5. PICK start \in [1..N -> Nat] :
          /\ \A c \in 1..N : \A j \in 1..Len(W[c]) :
               start[c] + j \in 1..Len(F) /\ F[start[c] + j] = W[c][j]
          /\ \A c, d \in 1..N : c < d => start[c] + Len(W[c]) <= start[d]
          /\ \A p \in 1..Len(F) : \E c \in 1..N : \E j \in 1..Len(W[c]) : p = start[c] + j
    <2> HIDE DEF W, F, N
    <2>1. PICK start : Places(start, W)
      BY <1>2, FlattenInOrder
    <2> QED
      BY <1>1, <2>1 DEF Places
  <1> HIDE DEF W, F, N
  <1>6. ASSUME NEW c \in 1..N, NEW j \in 1..Len(W[c]), NEW d \in 1..N, NEW k \in 1..Len(W[d])
        PROVE  start[d] + k < start[c] + j <=> d < c \/ (d = c /\ k < j)
    <2>1. /\ start[c] \in Nat /\ start[d] \in Nat /\ Len(W[c]) \in Nat /\ Len(W[d]) \in Nat
          /\ c < d => start[c] + Len(W[c]) <= start[d]
          /\ d < c => start[d] + Len(W[d]) <= start[c]
      BY <1>4, <1>5
    <2>2. c \in Int /\ d \in Int /\ j \in Int /\ k \in Int /\ j >= 1 /\ k >= 1
          /\ j <= Len(W[c]) /\ k <= Len(W[d])
      BY <1>1, <2>1
    <2>3. CASE d = c
      BY <2>1, <2>2, <2>3
    <2>4. CASE d < c
      BY <2>1, <2>2, <2>4
    <2>5. CASE c < d
      BY <2>1, <2>2, <2>5
    <2> QED
      BY <2>2, <2>3, <2>4, <2>5
  <1>7. Has(row, t) <=>
          \E c \in 1..N : \E j \in 1..Len(W[c]) :
            /\ W[c][j].str = t
            /\ \A d \in 1..N : \A k \in 1..Len(W[d]) :
                 d < c \/ (d = c /\ k < j) => Hash[W[d][k].str] # Hash[t]
    <2>1. ASSUME Has(row, t)
          PROVE  \E c \in 1..N : \E j \in 1..Len(W[c]) :
                   /\ W[c][j].str = t
                   /\ \A d \in 1..N : \A k \in 1..Len(W[d]) :
                        d < c \/ (d = c /\ k < j) => Hash[W[d][k].str] # Hash[t]
      <3>1. PICK c \in 1..N : \E j \in 1..Len(row[c].words) :
              /\ Configured(columns[c], source.field)
              /\ row[c].words[j].str = t
              /\ \A d \in 1..c : \A k \in 1..Len(row[d].words) :
                   (Configured(columns[d], source.field) /\ (d < c \/ k < j))
                     => Hash[row[d].words[k].str] # Hash[t]
        BY <2>1 DEF Has, N
      <3>2. PICK j \in 1..Len(row[c].words) :
              /\ Configured(columns[c], source.field)
              /\ row[c].words[j].str = t
              /\ \A d \in 1..c : \A k \in 1..Len(row[d].words) :
                   (Configured(columns[d], source.field) /\ (d < c \/ k < j))
                     => Hash[row[d].words[k].str] # Hash[t]
        BY <3>1
      <3>3. j \in 1..Len(W[c]) /\ W[c][j].str = t
        BY <1>1, <3>2
      <3>4. ASSUME NEW d \in 1..N, NEW k \in 1..Len(W[d]), d < c \/ (d = c /\ k < j)
            PROVE  Hash[W[d][k].str] # Hash[t]
        <4>0. k \in 1..Len(row[d].words) /\ Configured(columns[d], source.field)
          BY <1>1
        <4>1. W[d][k].str = row[d].words[k].str
          BY <1>1
        <4>3. d \in 1..c
          BY <1>1, <3>4
        <4>2. d < c \/ k < j
          BY <3>4
        <4> QED
          BY <3>2, <4>0, <4>1, <4>2, <4>3
      <3> QED
        BY <3>3, <3>4
    <2>2. ASSUME NEW c \in 1..N, NEW j \in 1..Len(W[c]), W[c][j].str = t,
                 \A d \in 1..N : \A k \in 1..Len(W[d]) :
                   d < c \/ (d = c /\ k < j) => Hash[W[d][k].str] # Hash[t]
          PROVE  Has(row, t)
      <3>1. /\ j \in 1..Len(row[c].words) /\ Configured(columns[c], source.field)
            /\ row[c].words[j].str = t
        BY <1>1, <2>2
      <3>2. ASSUME NEW d \in 1..c, NEW k \in 1..Len(row[d].words),
                   Configured(columns[d], source.field), d < c \/ k < j
            PROVE  Hash[row[d].words[k].str] # Hash[t]
        <4>1. d \in 1..N
          BY <1>1
        <4>2. k \in 1..Len(W[d]) /\ W[d][k].str = row[d].words[k].str
          BY <1>1, <3>2, <4>1
        <4>3. d < c \/ (d = c /\ k < j)
          BY <3>2, <1>1
        <4> QED
          BY <2>2, <4>1, <4>2, <4>3
      <3> QED
        BY <3>1, <3>2 DEF Has, N
    <2> QED
      BY <2>1, <2>2
  <1>8. t \in Tokens(F) <=>
          \E p \in 1..Len(F) :
            F[p].str = t /\ \A q \in 1..Len(F) : q < p => Hash[F[q].str] # Hash[t]
    <2>1. \A p, q \in 1..Len(F) : q \in 1..(p - 1) <=> q < p
      BY <1>3
    <2>2. \A p \in 1..Len(F) : \A q \in 1..(p - 1) : q \in 1..Len(F)
      BY <1>3
    <2> QED
      BY <2>1, <2>2 DEF Tokens
  <1>9. ASSUME t \in Tokens(F)
        PROVE  Has(row, t)
    <2>1. PICK p \in 1..Len(F) :
            F[p].str = t /\ \A q \in 1..Len(F) : q < p => Hash[F[q].str] # Hash[t]
      BY <1>8, <1>9
    <2>2. PICK c \in 1..N : \E j \in 1..Len(W[c]) : p = start[c] + j
      BY <1>5
    <2>3. PICK j \in 1..Len(W[c]) : p = start[c] + j
      BY <2>2
    <2>4. W[c][j].str = t
      BY <1>5, <2>1, <2>3
    <2>5. ASSUME NEW d \in 1..N, NEW k \in 1..Len(W[d]), d < c \/ (d = c /\ k < j)
          PROVE  Hash[W[d][k].str] # Hash[t]
      <3>1. /\ start[d] + k \in 1..Len(F) /\ F[start[d] + k] = W[d][k]
            /\ start[d] + k < p
        BY <1>5, <1>6, <2>3, <2>5
      <3> QED
        BY <2>1, <3>1
    <2> QED
      BY <1>7, <2>4, <2>5
  <1>10. ASSUME Has(row, t)
         PROVE  t \in Tokens(F)
    <2>1. PICK c \in 1..N : \E j \in 1..Len(W[c]) :
            /\ W[c][j].str = t
            /\ \A d \in 1..N : \A k \in 1..Len(W[d]) :
                 d < c \/ (d = c /\ k < j) => Hash[W[d][k].str] # Hash[t]
      BY <1>7, <1>10
    <2>2. PICK j \in 1..Len(W[c]) :
            /\ W[c][j].str = t
            /\ \A d \in 1..N : \A k \in 1..Len(W[d]) :
                 d < c \/ (d = c /\ k < j) => Hash[W[d][k].str] # Hash[t]
      BY <2>1
    <2> DEFINE p == start[c] + j
    <2>3. p \in 1..Len(F) /\ F[p].str = t
      BY <1>5, <2>2
    <2>4. ASSUME NEW q \in 1..Len(F), q < p
          PROVE  Hash[F[q].str] # Hash[t]
      <3>1. PICK d \in 1..N : \E k \in 1..Len(W[d]) : q = start[d] + k
        BY <1>5
      <3>2. PICK k \in 1..Len(W[d]) : q = start[d] + k
        BY <3>1
      <3>3. F[q] = W[d][k] /\ (d < c \/ (d = c /\ k < j))
        BY <1>5, <1>6, <2>4, <3>2
      <3> QED
        BY <2>2, <3>3
    <2> HIDE DEF p
    <2> QED
      BY <1>8, <2>3, <2>4
  <1> QED
    BY <1>9, <1>10 DEF F

(* A document is in the posting list of a token exactly if its row has it, *)
(* for every table, order and repetition of columns, and hash.             *)
THEOREM PostingsAreExact == Spec => []PostingsExact
  <1>1. ASSUME Inv
        PROVE  PostingsExact
    <2> SUFFICES ASSUME NEW t \in Strings, NEW d \in 1..Len(rows)
                 PROVE  Has(rows[d], t) <=> \E i \in 1..Len(inverter[t]) :
                                            inverter[t][i].local_id = d - 1
      BY DEF PostingsExact
    <2>1. TypeOK /\ rows \in Seq([1..Len(columns) -> Values])
      BY <1>1 DEF Inv, TypeOK
    <2>2. rows[d] \in [1..Len(columns) -> Values]
      BY <2>1, ElementOfSeq
    <2>3. t \in Tokens(Words(rows[d])) <=> Has(rows[d], t)
      BY <2>1, <2>2, TokensAreHad
    <2> QED
      BY <1>1, <2>3 DEF Inv
  <1> QED
    BY Invariance, <1>1, PTL

-----------------------------------------------------------------------------
(* Attributes: what a filter and an answer find under a name.              *)

(* IsInFields finds a configured name, at its first place.                 *)
LEMMA FirstPlace ==
  ASSUME NEW list \in Seq(STRING), NEW name, Configured(name, list)
  PROVE  /\ FieldIndex(name, list) \in 1..Len(list)
         /\ list[FieldIndex(name, list)] = name
  <1> DEFINE places == {i \in 1..Len(list) : list[i] = name}
  <1>1. Len(list) \in Nat
    BY LenProperties
  <1>2. PICK i \in places : \A j \in places : i <= j
    <2>1. places \in SUBSET Nat /\ places # {}
      BY <1>1 DEF Configured
    <2> HIDE DEF places
    <2> QED
      BY <2>1, LeastNatural
  <1>3. i \in 1..Len(list) /\ list[i] = name /\ \A j \in 1..(i - 1) : list[j] # name
    BY <1>1, <1>2
  <1> HIDE DEF places
  <1> QED
    BY <1>3 DEF FieldIndex

(* GetAttrNameIndex finds the last type that has a name.                   *)
LEMMA TypeIsLast == \A name : GetAttrType(name) = TypeOfName(name)
  <1> SUFFICES ASSUME NEW name
               PROVE  GetAttrType(name) = TypeOfName(name)
    OBVIOUS
  <1> DEFINE found == {i \in 1..4 : Configured(name, source[DocAttrType[i]])}
             last  == CHOOSE i \in found : \A j \in found : j <= i
  <1>1. /\ 1 \in found <=> Configured(name, source.uint)
        /\ 2 \in found <=> Configured(name, source.float)
        /\ 3 \in found <=> Configured(name, source.multi)
        /\ 4 \in found <=> Configured(name, source.string)
        /\ found \subseteq {1, 2, 3, 4}
    BY DEF DocAttrType
  <1>2. GetAttrType(name) = IF found = {} THEN "none" ELSE DocAttrType[last]
    BY DEF GetAttrType
  <1> HIDE DEF found
  <1>3. \A i \in found : (\A j \in found : j <= i) => last = i
    <2> SUFFICES ASSUME NEW i \in found, \A j \in found : j <= i
                 PROVE  last = i
      OBVIOUS
    <2>1. last \in found /\ \A j \in found : j <= last
      OBVIOUS
    <2> HIDE DEF last
    <2> QED
      BY <1>1, <2>1
  <1> HIDE DEF last
  <1>4. CASE 4 \in found
    BY <1>1, <1>2, <1>3, <1>4 DEF TypeOfName, DocAttrType
  <1>5. CASE 4 \notin found /\ 3 \in found
    BY <1>1, <1>2, <1>3, <1>5 DEF TypeOfName, DocAttrType
  <1>6. CASE 4 \notin found /\ 3 \notin found /\ 2 \in found
    BY <1>1, <1>2, <1>3, <1>6 DEF TypeOfName, DocAttrType
  <1>7. CASE found = {1}
    BY <1>1, <1>2, <1>3, <1>7 DEF TypeOfName, DocAttrType
  <1>8. CASE found = {}
    BY <1>1, <1>2, <1>8 DEF TypeOfName
  <1> QED
    BY <1>1, <1>4, <1>5, <1>6, <1>7, <1>8

(* A type's name list is found when the type is.                           *)
LEMMA TypeHasName ==
  ASSUME NEW name, TypeOfName(name) # "none"
  PROVE  TypeOfName(name) \in Kinds /\ Configured(name, source[TypeOfName(name)])
  BY DEF TypeOfName, Kinds

(* Documents have the attributes of their rows.                            *)
SummaryFollows == \A d \in 1..Len(rows) : summary[d] = Attributes(rows[d])

(* The summary has the attributes of each row.                             *)
LEMMA SummaryFollowsInvariant == Spec => []SummaryFollows
  <1>1. Init => SummaryFollows
    <2>1. Len(<<>>) = 0
      OBVIOUS
    <2> QED
      BY <2>1 DEF Init, SummaryFollows
  <1>2. ASSUME Inv, SummaryFollows, [Next]_vars
        PROVE  SummaryFollows'
    <2>0. /\ rows \in Seq([1..Len(columns) -> Values]) /\ Len(rows) \in Nat
          /\ IsSequence(summary) /\ Len(summary) = Len(rows)
      BY <1>2, LenProperties DEF Inv, TypeOK
    <2>1. CASE UNCHANGED <<source, columns, summary, rows>>
      <3>1. \A row : Attributes(row)' = Attributes(row')
        BY <2>1 DEF Attributes, Slots, MultiSlots, Stored, LastColumn
      <3> QED
        BY <1>2, <2>1, <3>1 DEF SummaryFollows
    <2>2. ASSUME NEW row \in [1..Len(columns) -> Values], ProcessDoc(row)
          PROVE  SummaryFollows'
      <3>1. /\ source' = source /\ columns' = columns /\ rows' = Append(rows, row)
            /\ summary' = Append(summary, Attributes(row))
        BY <2>2 DEF ProcessDoc
      <3>2. /\ Len(rows') = Len(rows) + 1
            /\ \A d \in 1..Len(rows) : rows'[d] = rows[d]
            /\ rows'[Len(rows) + 1] = row
        BY <2>0, <3>1, AppendProperties
      <3>3. /\ \A d \in 1..Len(rows) : summary'[d] = summary[d]
            /\ summary'[Len(rows) + 1] = Attributes(row)
        BY <2>0, <3>1, AppendToSequence
      <3>4. ASSUME NEW d \in 1..Len(rows')
            PROVE  summary'[d] = Attributes(rows'[d])
        BY <1>2, <2>0, <3>2, <3>3 DEF SummaryFollows
      <3>5. ASSUME NEW d \in 1..Len(rows')
            PROVE  Attributes(rows'[d]) = Attributes(rows[d])'
        BY <3>1 DEF Attributes, Slots, MultiSlots, Stored, LastColumn
      <3> QED
        BY <3>4, <3>5 DEF SummaryFollows
    <2> QED
      BY <1>2, <2>1, <2>2 DEF Next, EndOfRows, vars
  <1> QED
    BY <1>1, <1>2, Invariance, PTL DEF Spec

(* What fits the uint8_t is stored as it is.                               *)
LEMMA StoredFits ==
  ASSUME NEW S, NEW data \in Seq(S), Len(data) < UChar
  PROVE  Stored(data) = data
  <1>1. Len(data) \in Nat /\ UChar \in Nat
    BY IndexingAssumption, LenProperties
  <1>2. Len(data) % UChar = Len(data)
    BY <1>1
  <1>3. SubSeq(data, 1, Len(data)) = data
    BY <1>1
  <1> QED
    BY <1>2, <1>3 DEF Stored

(* The slot of a name has the value of the last column of that name.       *)
LEMMA SlotHasValue ==
  ASSUME TypeOK, NEW row, NEW kind \in {"uint", "float", "string"},
         Len(source[kind]) < UChar, NEW name, Configured(name, source[kind])
  PROVE  Attributes(row)[kind][FieldIndex(name, source[kind])] =
           Cell(kind, row[LastColumn(name)])
  <1> DEFINE list == source[kind]
             S == {Slots(kind, row)[i] : i \in 1..Len(list)}
  <1>1. list \in Seq(STRING) /\ Len(list) \in Nat
    BY IndexingAssumption, LenProperties DEF TypeOK, Kinds
  <1>2. /\ FieldIndex(name, list) \in 1..Len(list)
        /\ list[FieldIndex(name, list)] = name
    BY <1>1, FirstPlace
  <1>3. Slots(kind, row) = [i \in 1..Len(list) |-> Slots(kind, row)[i]]
    BY DEF Slots
  <1>4. Slots(kind, row)[FieldIndex(name, list)] = Cell(kind, row[LastColumn(name)])
    BY <1>2 DEF Slots
  <1>5. Slots(kind, row) \in Seq(S) /\ Len(Slots(kind, row)) = Len(list)
    <2>1. \A i \in 1..Len(list) : Slots(kind, row)[i] \in S
      OBVIOUS
    <2> HIDE DEF S
    <2> QED
      BY <1>1, <1>3, <2>1
  <1>6. Stored(Slots(kind, row)) = Slots(kind, row)
    BY <1>5, StoredFits
  <1>7. Attributes(row)[kind] = Stored(Slots(kind, row))
    BY DEF Attributes
  <1> QED
    BY <1>4, <1>6, <1>7

(* The numbers of a multi attribute stand behind the places of the names.  *)
LEMMA MultiSlotIsZero ==
  ASSUME TypeOK, NEW row \in [1..Len(columns) -> Values],
         Len(MultiSlots(row)) < UChar, NEW name, Configured(name, source.multi)
  PROVE  Attributes(row).multi[FieldIndex(name, source.multi)] = 0
  <1> DEFINE list == source.multi
             zeros == [i \in 1..Len(list) |-> 0]
             numbers == [c \in 1..Len(columns) |->
                           IF Configured(columns[c], source.multi)
                           THEN [j \in 1..Len(row[c].multi) |-> row[c].multi[j] % UInt]
                           ELSE <<>>]
  <1>1. list \in Seq(STRING) /\ Len(list) \in Nat /\ Len(columns) \in Nat
    BY IndexingAssumption, LenProperties DEF TypeOK, Kinds
  <1>2. FieldIndex(name, list) \in 1..Len(list)
    BY <1>1, FirstPlace
  <1>3. zeros \in Seq(Nat) /\ Len(zeros) = Len(list)
    BY <1>1
  <1>4. numbers \in Seq(Seq(Nat))
    <2>1. ASSUME NEW c \in 1..Len(columns)
          PROVE  numbers[c] \in Seq(Nat)
      <3>1. row[c].multi \in Seq(-IntMax - 1..IntMax) /\ Len(row[c].multi) \in Nat
        BY IndexingAssumption, LenProperties
      <3>2. ASSUME NEW j \in 1..Len(row[c].multi)
            PROVE  row[c].multi[j] % UInt \in Nat
        <4>1. row[c].multi[j] \in Int /\ UInt \in Nat /\ UInt > 0
          BY <3>1, ElementOfSeq, IndexingAssumption DEF UInt
        <4> QED
          BY <4>1
      <3> DEFINE each == [j \in 1..Len(row[c].multi) |-> row[c].multi[j] % UInt]
      <3>3. each \in Seq(Nat)
        BY <3>1, <3>2
      <3>4. numbers[c] = each \/ numbers[c] = <<>>
        OBVIOUS
      <3>5. <<>> \in Seq(Nat)
        OBVIOUS
      <3> HIDE DEF each, numbers
      <3> QED
        BY <3>3, <3>4, <3>5
    <2>2. numbers = [c \in 1..Len(columns) |-> numbers[c]]
      OBVIOUS
    <2> HIDE DEF numbers
    <2> QED
      BY <1>1, <2>1, <2>2
  <1>5. FlattenSeq(numbers) \in Seq(Nat)
    <2> HIDE DEF numbers
    <2> QED
      BY <1>4, FlattenInOrder
  <1>6. MultiSlots(row) = zeros \o FlattenSeq(numbers)
    BY DEF MultiSlots
  <1>7. zeros[FieldIndex(name, list)] = 0
    BY <1>2
  <1> HIDE DEF zeros, numbers
  <1>8. MultiSlots(row) \in Seq(Nat) /\ MultiSlots(row)[FieldIndex(name, list)] = 0
    <2>1. /\ zeros \o FlattenSeq(numbers) \in Seq(Nat)
          /\ Len(FlattenSeq(numbers)) \in Nat
          /\ \A i \in 1..(Len(zeros) + Len(FlattenSeq(numbers))) :
               (zeros \o FlattenSeq(numbers))[i] =
                 IF i <= Len(zeros) THEN zeros[i]
                 ELSE FlattenSeq(numbers)[i - Len(zeros)]
      BY <1>3, <1>5, ConcatProperties, LenProperties
    <2> DEFINE i == FieldIndex(name, list)
               n == Len(FlattenSeq(numbers))
    <2>2. i \in 1..(Len(zeros) + n) /\ i <= Len(zeros)
      <3>1. n \in Nat /\ i \in 1..Len(zeros) /\ Len(zeros) \in Nat
        BY <1>1, <1>2, <1>3, <2>1
      <3> HIDE DEF n, i
      <3> QED
        BY <3>1
    <2> QED
      BY <1>6, <1>7, <2>1, <2>2
  <1>9. Stored(MultiSlots(row)) = MultiSlots(row)
    BY <1>8, StoredFits
  <1>10. Attributes(row).multi = Stored(MultiSlots(row))
    BY DEF Attributes
  <1> QED
    BY <1>8, <1>9, <1>10

(* The text a filter compares is that of the row.                          *)
LEMMA TextIsSaid ==
  ASSUME TypeOK, NEW row \in [1..Len(columns) -> Values], NamesFit,
         Len(MultiSlots(row)) < UChar, NEW name, TypeOfName(name) # "none"
  PROVE  Text(Attributes(row), name) = Said(row, name)
  <1> DEFINE kind == TypeOfName(name)
             value == Attributes(row)[kind][FieldIndex(name, source[kind])]
  <1>1. kind \in Kinds /\ Configured(name, source[kind]) /\ Len(source[kind]) < UChar
    BY TypeHasName DEF NamesFit
  <1>2. Text(Attributes(row), name) =
          CASE kind \in {"uint", "multi"} -> Printed.uint[value]
            [] kind = "float"  -> Printed.float[value]
            [] kind = "string" -> value
    BY TypeIsLast DEF Text, GetAttrIndex
  <1> HIDE DEF kind
  <1>3. CASE kind \in {"uint", "float", "string"}
    <2>1. value = Cell(kind, row[LastColumn(name)])
      BY <1>1, <1>3, SlotHasValue
    <2> HIDE DEF value
    <2> QED
      BY <1>2, <1>3, <2>1 DEF Said, Cell, kind
  <1>4. CASE kind = "multi"
    <2>1. value = 0
      BY <1>1, <1>4, MultiSlotIsZero
    <2> HIDE DEF value
    <2> QED
      BY <1>2, <1>4, <2>1 DEF Said, kind
  <1> QED
    BY <1>1, <1>3, <1>4 DEF Kinds

(* A filter's key has the values of all its pieces.                        *)
LEMMA FilterHasValues ==
  ASSUME NEW pieces \in Filters
  PROVE  /\ Len(pieces) \in Nat
         /\ \A k : k \in DOMAIN ParseFilter(pieces) <=>
              \E i \in 1..Len(pieces) : pieces[i].key = k /\ pieces[i].values # <<>>
         /\ \A k \in DOMAIN ParseFilter(pieces) : \A x :
              x \in ToSet(ParseFilter(pieces)[k]) <=>
                \E i \in 1..Len(pieces) :
                  pieces[i].key = k /\ x \in ToSet(pieces[i].values)
  <1>1. /\ pieces \in Seq([key : STRING \ {""}, values : Seq(STRING)])
        /\ Len(pieces) \in Nat
        /\ \A i \in 1..Len(pieces) : pieces[i].values \in Seq(STRING)
    <2>1. pieces \in Seq([key : STRING \ {""}, values : Seq(STRING)])
      BY DocAttributesAssumption
    <2>2. \A i \in 1..Len(pieces) : pieces[i] \in [key : STRING \ {""}, values : Seq(STRING)]
      BY <2>1, ElementOfSeq
    <2> QED
      BY <2>1, <2>2, LenProperties
  <1>2. DOMAIN ParseFilter(pieces) =
          {pieces[i].key : i \in {i \in 1..Len(pieces) : pieces[i].values # <<>>}}
    BY DEF ParseFilter
  <1>3. ASSUME NEW k \in DOMAIN ParseFilter(pieces), NEW x
        PROVE  x \in ToSet(ParseFilter(pieces)[k]) <=>
                \E i \in 1..Len(pieces) :
                  pieces[i].key = k /\ x \in ToSet(pieces[i].values)
    <2> DEFINE s == [i \in 1..Len(pieces) |->
                       IF pieces[i].key = k THEN pieces[i].values ELSE <<>>]
               F == FlattenSeq(s)
    <2>1. ParseFilter(pieces)[k] = F
      BY <1>2 DEF ParseFilter
    <2>2. s \in Seq(Seq(STRING)) /\ Len(s) = Len(pieces)
      <3>0. <<>> \in Seq(STRING)
        OBVIOUS
      <3>1. ASSUME NEW i \in 1..Len(pieces)
            PROVE  s[i] \in Seq(STRING)
        <4>1. pieces[i].values \in Seq(STRING)
          BY <1>1
        <4>2. s[i] \in {pieces[i].values, <<>>}
          OBVIOUS
        <4> HIDE DEF s
        <4> QED
          BY <3>0, <4>1, <4>2
      <3>2. s = [i \in 1..Len(pieces) |-> s[i]]
        OBVIOUS
      <3> HIDE DEF s
      <3>3. s \in [1..Len(pieces) -> Seq(STRING)]
        BY <3>1, <3>2
      <3> DEFINE n == Len(pieces)
      <3>4. n \in Nat /\ s \in [1..n -> Seq(STRING)]
        BY <1>1, <3>3
      <3> HIDE DEF n
      <3>5. s \in Seq(Seq(STRING)) /\ Len(s) = n
        BY <3>4
      <3> QED
        BY <3>5 DEF n
    <2>3. \A i \in 1..Len(pieces) :
            s[i] = IF pieces[i].key = k THEN pieces[i].values ELSE <<>>
      OBVIOUS
    <2> HIDE DEF s
    <2>4. F \in Seq(STRING) /\ \E start : Places(start, s)
      BY <2>2, FlattenInOrder
    <2>5. PICK start : Places(start, s)
      BY <2>4
    <2>6. ToSet(F) = {F[p] : p \in 1..Len(F)}
      BY <2>4, LenProperties DEF ToSet
    <2>7. \A i \in 1..Len(pieces) :
            ToSet(pieces[i].values) =
              {pieces[i].values[j] : j \in 1..Len(pieces[i].values)}
      BY <1>1, LenProperties DEF ToSet
    <2> HIDE DEF F
    <2>8. ASSUME x \in ToSet(F)
          PROVE  \E i \in 1..Len(pieces) :
                   pieces[i].key = k /\ x \in ToSet(pieces[i].values)
      <3>1. PICK p \in 1..Len(F) : x = F[p]
        BY <2>6, <2>8
      <3>2. PICK i \in 1..Len(s) : \E j \in 1..Len(s[i]) : p = start[i] + j
        BY <2>5, <3>1 DEF Places, F
      <3>3. PICK j \in 1..Len(s[i]) : p = start[i] + j
        BY <3>2
      <3>4. x = s[i][j]
        BY <2>5, <3>1, <3>3 DEF Places, F
      <3>5. pieces[i].key = k
        <4>1. ASSUME pieces[i].key # k
              PROVE  FALSE
          <5>1. s[i] = <<>> /\ Len(<<>>) = 0
            BY <2>2, <2>3, <4>1
          <5> QED
            BY <5>1
        <4> QED
          BY <4>1
      <3> QED
        BY <2>2, <2>3, <2>7, <3>4, <3>5
    <2>9. ASSUME NEW i \in 1..Len(pieces), pieces[i].key = k,
                 x \in ToSet(pieces[i].values)
          PROVE  x \in ToSet(F)
      <3>1. PICK j \in 1..Len(s[i]) : x = s[i][j]
        <4>1. s[i] = pieces[i].values
          BY <2>3, <2>9
        <4>2. x \in {s[i][j] : j \in 1..Len(s[i])}
          BY <2>7, <2>9, <4>1
        <4> QED
          BY <4>2
      <3>2. start[i] + j \in 1..Len(F) /\ F[start[i] + j] = x
        BY <2>2, <2>5, <3>1 DEF Places, F
      <3> QED
        BY <2>6, <3>2
    <2> QED
      BY <2>1, <2>8, <2>9
  <1>4. \A k : k \in DOMAIN ParseFilter(pieces) <=>
          \E i \in 1..Len(pieces) : pieces[i].key = k /\ pieces[i].values # <<>>
    BY <1>2
  <1> QED
    BY <1>1, <1>3, <1>4

(* A document of searchd's summary, and the row it was.                    *)
LEMMA RowOfDocument ==
  ASSUME Inv, SummaryFollows, NEW d \in 1..Len(rows)
  PROVE  /\ TypeOK /\ rows[d] \in [1..Len(columns) -> Values]
         /\ summary[d] = Attributes(rows[d])
  <1>1. TypeOK /\ rows \in Seq([1..Len(columns) -> Values])
    BY DEF Inv, TypeOK
  <1> QED
    BY <1>1, ElementOfSeq DEF SummaryFollows

(* For every configuration, table and filter: a document is dropped        *)
(* exactly if its row has, for some name of a type, a text that none of    *)
(* the filter's pieces gives.                                              *)
THEOREM FiltersKeepExactly == Spec => []FiltersAreExact
  <1>1. ASSUME Inv, SummaryFollows
        PROVE  FiltersAreExact
    <2> SUFFICES ASSUME NEW d \in 1..Len(rows), NEW pieces \in Filters,
                        NamesFit, Len(MultiSlots(rows[d])) < UChar
                 PROVE  DropByFilter(summary[d], ParseFilter(pieces)) <=>
                          \E i \in 1..Len(pieces) :
                            /\ pieces[i].values # <<>>
                            /\ TypeOfName(pieces[i].key) # "none"
                            /\ \A j \in 1..Len(pieces) :
                                 pieces[j].key = pieces[i].key =>
                                   Said(rows[d], pieces[i].key) \notin ToSet(pieces[j].values)
      BY DEF FiltersAreExact
    <2> DEFINE filter == ParseFilter(pieces)
    <2>1. TypeOK /\ rows[d] \in [1..Len(columns) -> Values] /\ summary[d] = Attributes(rows[d])
      BY <1>1, RowOfDocument
    <2>2. \A k : TypeOfName(k) # "none" => Text(summary[d], k) = Said(rows[d], k)
      BY <2>1, TextIsSaid
    <2>3. DropByFilter(summary[d], filter) <=>
            \E k \in DOMAIN filter :
              TypeOfName(k) # "none" /\ Said(rows[d], k) \notin ToSet(filter[k])
      BY <2>2, TypeIsLast DEF DropByFilter
    <2>4. \A k \in DOMAIN filter : \A x :
            x \in ToSet(filter[k]) <=>
              \E i \in 1..Len(pieces) : pieces[i].key = k /\ x \in ToSet(pieces[i].values)
      BY FilterHasValues
    <2>5. ASSUME NEW k \in DOMAIN filter, TypeOfName(k) # "none",
                 Said(rows[d], k) \notin ToSet(filter[k])
          PROVE  \E i \in 1..Len(pieces) :
                   /\ pieces[i].values # <<>>
                   /\ TypeOfName(pieces[i].key) # "none"
                   /\ \A j \in 1..Len(pieces) :
                        pieces[j].key = pieces[i].key =>
                          Said(rows[d], pieces[i].key) \notin ToSet(pieces[j].values)
      <3>1. PICK i \in 1..Len(pieces) : pieces[i].key = k /\ pieces[i].values # <<>>
        BY FilterHasValues
      <3> HIDE DEF filter
      <3>2. \A j \in 1..Len(pieces) :
              pieces[j].key = k => Said(rows[d], k) \notin ToSet(pieces[j].values)
        BY <2>4, <2>5
      <3> QED
        BY <2>5, <3>1, <3>2
    <2>6. ASSUME NEW i \in 1..Len(pieces), pieces[i].values # <<>>,
                 TypeOfName(pieces[i].key) # "none",
                 \A j \in 1..Len(pieces) :
                   pieces[j].key = pieces[i].key =>
                     Said(rows[d], pieces[i].key) \notin ToSet(pieces[j].values)
          PROVE  \E k \in DOMAIN filter :
                   TypeOfName(k) # "none" /\ Said(rows[d], k) \notin ToSet(filter[k])
      <3>1. pieces[i].key \in DOMAIN filter
        BY <2>6, FilterHasValues
      <3> HIDE DEF filter
      <3>2. Said(rows[d], pieces[i].key) \notin ToSet(filter[pieces[i].key])
        BY <2>4, <2>6, <3>1
      <3> QED
        BY <2>6, <3>1, <3>2
    <2> QED
      BY <2>3, <2>5, <2>6
  <1> QED
    BY Invariance, SummaryFollowsInvariant, <1>1, PTL

(* Once a row has been processed, every configured name is a column.       *)
ColumnsChecked == Len(rows) # 0 => CheckFields

LEMMA ColumnsCheckedInvariant == Spec => []ColumnsChecked
  <1>1. Init => ColumnsChecked
    <2>1. Len(<<>>) = 0
      OBVIOUS
    <2> QED
      BY <2>1 DEF Init, ColumnsChecked
  <1>2. ASSUME ColumnsChecked, [Next]_vars
        PROVE  ColumnsChecked'
    <2>1. ASSUME UNCHANGED <<source, columns>>
          PROVE  CheckFields' = CheckFields
      BY <2>1 DEF CheckFields, Checked, Configured
    <2>2. CASE UNCHANGED <<source, columns, rows>>
      BY <1>2, <2>1, <2>2 DEF ColumnsChecked
    <2>3. ASSUME NEW row, ProcessDoc(row)
          PROVE  ColumnsChecked'
      <3>1. CheckFields /\ UNCHANGED <<source, columns>>
        BY <2>3 DEF ProcessDoc
      <3> QED
        BY <2>1, <3>1 DEF ColumnsChecked
    <2> QED
      BY <1>2, <2>2, <2>3 DEF Next, EndOfRows, vars
  <1> QED
    BY <1>1, <1>2, PTL DEF Spec

(* A name of a checked list is a column's.                                 *)
LEMMA IsColumn ==
  ASSUME CheckFields, NEW kind \in {"uint", "string"}, NEW name,
         Configured(name, source[kind])
  PROVE  Configured(name, columns)
  <1>1. Checked(source[kind])
    BY DEF CheckFields
  <1>2. PICK i \in 1..Len(source[kind]) : source[kind][i] = name
    BY DEF Configured
  <1> QED
    BY <1>1, <1>2 DEF Checked

(* The last column of a name that is a column's.                           *)
LEMMA LastPlace ==
  ASSUME TypeOK, NEW name, Configured(name, columns)
  PROVE  LastColumn(name) \in 1..Len(columns)
  <1> DEFINE N == Len(columns)
             behind == {n \in 0..N : n < N /\ columns[N - n] = name}
  <1>1. N \in Nat
    BY IndexingAssumption, LenProperties DEF TypeOK
  <1>2. PICK n \in behind : \A m \in behind : n <= m
    <2>1. behind \in SUBSET Nat
      BY <1>1
    <2>2. PICK c \in 1..N : columns[c] = name
      BY DEF Configured
    <2>3. N - c \in behind
      <3>1. N - c \in 0..N /\ N - c < N /\ N - (N - c) = c
        BY <1>1
      <3> QED
        BY <2>2, <3>1
    <2> HIDE DEF behind
    <2> QED
      BY <2>1, <2>3, LeastNatural
  <1>3. n \in 0..N /\ n < N /\ columns[N - n] = name
    OBVIOUS
  <1>4. ASSUME NEW d \in (N - n + 1)..N
        PROVE  columns[d] # name
    <2>1. N - d \in 0..N /\ N - d < N /\ N - (N - d) = d /\ ~(n <= N - d)
      BY <1>1, <1>3
    <2> QED
      BY <1>2, <2>1
  <1>5. N - n \in 1..N
    BY <1>1, <1>3
  <1> HIDE DEF N, behind
  <1>6. \E c \in 1..N : columns[c] = name /\ \A d \in (c + 1)..N : columns[d] # name
    BY <1>3, <1>4, <1>5
  <1> QED
    BY <1>6 DEF LastColumn, N

(* The int of the uint32_t of an int is that int.                          *)
LEMMA IntOfUInt ==
  ASSUME NEW n \in -IntMax - 1..IntMax
  PROVE  AsInt(n % UInt) = n
  <1>1. IntMax \in Nat /\ UInt = 2 * (IntMax + 1)
    BY IndexingAssumption DEF UInt
  <1> DEFINE u == UInt
  <1> HIDE DEF u
  <1>2. u \in Nat /\ u = 2 * (IntMax + 1) /\ n \in Int
    BY <1>1 DEF u
  <1>3. CASE n >= 0
    <2>1. n % u = n
      BY <1>1, <1>2, <1>3
    <2> QED
      BY <1>1, <1>3, <2>1 DEF AsInt, u
  <1>4. CASE n < 0
    <2>1. n % u = n + u
      BY <1>1, <1>2, <1>4
    <2> QED
      BY <1>1, <1>2, <1>4, <2>1 DEF AsInt, u
  <1> QED
    BY <1>2, <1>3, <1>4

(* For every configuration, table and format: an answer shows each number  *)
(* and text of the document's own row under the name it was configured     *)
(* with, a number in XML with its sign and in JSON as a uint32_t.          *)
THEOREM AnswersShow == Spec => []AnswersShowTheRow
  <1>1. ASSUME Inv, SummaryFollows, ColumnsChecked
        PROVE  AnswersShowTheRow
    <2> DEFINE names(format) ==
                 {n \in ToSet(source.uint) \cup ToSet(source.string) :
                    format \in {"xml", "json"} /\ TypeOfName(n) \in {"uint", "string"}}
               expected(format, d, name) ==
                 LET value == rows[d][LastColumn(name)]
                 IN  CASE TypeOfName(name) = "string" -> value.string
                       [] TypeOfName(name) = "uint" /\ format = "xml" -> value.uint
                       [] TypeOfName(name) = "uint" /\ format = "json" ->
                            value.uint % UInt
               shown(format, d, name) ==
                 LET stored == summary[d][GetAttrType(name)][GetAttrIndex(name)]
                 IN  IF GetResultPacker(format) = "xml" /\ GetAttrType(name) = "uint"
                     THEN AsInt(stored) ELSE stored
    <2> SUFFICES ASSUME NEW d \in 1..Len(rows), NEW format \in Formats, NamesFit
                 PROVE  Item(format, summary[d]) =
                          [name \in names(format) |-> expected(format, d, name)]
      BY DEF AnswersShowTheRow
    <2>1. TypeOK /\ rows[d] \in [1..Len(columns) -> Values] /\ summary[d] = Attributes(rows[d])
      BY <1>1, RowOfDocument
    <2>2. \A kind \in {"uint", "string"} : \A name :
            name \in ToSet(source[kind]) <=> Configured(name, source[kind])
      <3>1. \A kind \in {"uint", "string"} : source[kind] \in Seq(STRING)
        BY <2>1, IndexingAssumption DEF TypeOK, Kinds
      <3>2. \A kind \in {"uint", "string"} : DOMAIN source[kind] = 1..Len(source[kind])
        BY <3>1, LenProperties
      <3> QED
        BY <3>2 DEF ToSet, Configured
    <2>3. (IF GetResultPacker(format) = "basic" THEN {}
           ELSE Shown("uint") \cup Shown("string")) = names(format)
      <3>1. \A name : TypeOfName(name) = "string" <=> Configured(name, source.string)
        BY DEF TypeOfName
      <3>2. \A name : TypeOfName(name) = "uint" => Configured(name, source.uint)
        BY DEF TypeOfName
      <3>3. \A name : name \in Shown("uint") <=> TypeOfName(name) = "uint"
        BY <2>2, <3>2, TypeIsLast DEF Shown
      <3>4. \A name : name \in Shown("string") <=> TypeOfName(name) = "string"
        BY <2>2, <3>1, TypeIsLast DEF Shown
      <3>5. \A name : name \in names(format) <=>
              format \in {"xml", "json"} /\ TypeOfName(name) \in {"uint", "string"}
        BY <2>2, <3>1, <3>2
      <3>6. GetResultPacker(format) = "basic" <=> format \notin {"xml", "json"}
        BY DEF GetResultPacker
      <3> HIDE DEF names
      <3> QED
        BY <3>3, <3>4, <3>5, <3>6
    <2>4. ASSUME NEW name \in names(format)
          PROVE  shown(format, d, name) = expected(format, d, name)
      <3> DEFINE kind  == TypeOfName(name)
                 value == rows[d][LastColumn(name)]
      <3>1. kind \in {"uint", "string"} /\ format \in {"xml", "json"}
        OBVIOUS
      <3>2. Configured(name, source[kind]) /\ Len(source[kind]) < UChar
        BY <3>1, TypeHasName DEF NamesFit, Kinds
      <3>3. value \in Values
        <4>1. Configured(name, columns)
          <5>1. Len(rows) # 0
            BY <1>1, LenProperties DEF Inv, TypeOK
          <5> QED
            BY <1>1, <3>1, <3>2, <5>1, IsColumn DEF ColumnsChecked
        <4>2. LastColumn(name) \in 1..Len(columns)
          BY <2>1, <4>1, LastPlace
        <4> QED
          BY <2>1, <4>2
      <3>4. summary[d][GetAttrType(name)][GetAttrIndex(name)] = Cell(kind, value)
        BY <2>1, <3>1, <3>2, SlotHasValue, TypeIsLast DEF GetAttrIndex
      <3>5. GetResultPacker(format) = format
        BY <3>1 DEF GetResultPacker
      <3>6. shown(format, d, name) =
              IF format = "xml" /\ kind = "uint" THEN AsInt(Cell(kind, value))
              ELSE Cell(kind, value)
        BY <3>4, <3>5, TypeIsLast
      <3>7. expected(format, d, name) =
              CASE kind = "string" -> value.string
                [] kind = "uint" /\ format = "xml" -> value.uint
                [] kind = "uint" /\ format = "json" -> value.uint % UInt
        OBVIOUS
      <3> HIDE DEF kind, value, shown, expected, names
      <3>8. CASE kind = "string"
        BY <3>6, <3>7, <3>8 DEF Cell
      <3>9. CASE kind = "uint" /\ format = "xml"
        <4>1. value.uint \in -IntMax - 1..IntMax
          BY <3>3, IndexingAssumption
        <4> QED
          BY <3>6, <3>7, <3>9, <4>1, IntOfUInt DEF Cell
      <3>10. CASE kind = "uint" /\ format = "json"
        BY <3>6, <3>7, <3>10 DEF Cell
      <3> QED
        BY <3>1, <3>8, <3>9, <3>10
    <2>5. Item(format, summary[d]) =
            [name \in names(format) |-> shown(format, d, name)]
      BY <2>3 DEF Item
    <2> HIDE DEF names, shown, expected
    <2>6. Item(format, summary[d]) =
            [name \in names(format) |-> expected(format, d, name)]
      BY <2>4, <2>5
    <2> QED
      BY <2>6 DEF names, expected
  <1> QED
    BY Invariance, SummaryFollowsInvariant, ColumnsCheckedInvariant, <1>1, PTL

-----------------------------------------------------------------------------
(* Hits: what GetHits reads in what DocInvert stores.                      *)

(* GetHits' loop, round by round.                                          *)
LEMMA ReadUnfolds ==
  ASSUME NEW chars, Len(chars) \in Nat
  PROVE  \E seen :
           /\ GetHits(chars) = seen[Len(chars)].h
           /\ seen[0] = [cur_size |-> 0, h |-> <<>>]
           /\ \A n \in 1..Len(chars) : seen[n] = NextHit(chars, seen[n - 1])
  <1> DEFINE N == Len(chars)
             none == [cur_size |-> 0, h |-> <<>>]
             Step(r) == NextHit(chars, r)
             Rounds(g, n) == \A i \in 0..n : g[i] = IF i = 0 THEN none ELSE Step(g[i - 1])
             P == {n \in Nat : \E g : g = [i \in 0..n |-> g[i]] /\ Rounds(g, n)}
             Reads(f) == f = [n \in 0..N |-> IF n = 0 THEN none ELSE Step(f[n - 1])]
             f == CHOOSE f : Reads(f)
  <1>0. N \in Nat
    OBVIOUS
  <1>1. GetHits(chars) = f[N].h
    BY DEF GetHits
  <1> HIDE DEF Step, none
  <1>2. 0 \in P
    <2> DEFINE g == [i \in 0..0 |-> none]
    <2>1. g = [i \in 0..0 |-> g[i]] /\ Rounds(g, 0)
      OBVIOUS
    <2> QED
      BY <2>1
  <1>3. ASSUME NEW n \in P
        PROVE  n + 1 \in P
    <2>1. n \in Nat /\ n + 1 \in Nat /\ (n + 1) - 1 = n /\ n + 1 # 0 /\ n \in 0..n
      OBVIOUS
    <2>2. PICK g : g = [i \in 0..n |-> g[i]] /\ Rounds(g, n)
      OBVIOUS
    <2> DEFINE h == [i \in 0..(n + 1) |-> IF i = n + 1 THEN Step(g[n]) ELSE g[i]]
    <2>3. h = [i \in 0..(n + 1) |-> h[i]]
      OBVIOUS
    <2>4. h[n + 1] = Step(g[n]) /\ \A i \in 0..n : h[i] = g[i]
      BY <2>1
    <2> HIDE DEF h
    <2>5. ASSUME NEW i \in 0..(n + 1)
          PROVE  h[i] = IF i = 0 THEN none ELSE Step(h[i - 1])
      <3>1. CASE i = n + 1
        BY <2>1, <2>4, <3>1
      <3>2. CASE i # n + 1
        <4>1. i \in 0..n /\ (i # 0 => i - 1 \in 0..n)
          BY <2>1, <3>2
        <4> QED
          BY <2>2, <2>4, <4>1
      <3> QED
        BY <3>1, <3>2
    <2> QED
      BY <2>1, <2>3, <2>5
  <1>4. \E g : Reads(g)
    <2>1. P \in SUBSET Nat
      OBVIOUS
    <2>2. P = Nat
      <3> HIDE DEF P
      <3> QED
        BY <1>2, <1>3, <2>1, SetInduction
    <2>3. N \in P
      <3> HIDE DEF P, N
      <3> QED
        BY <1>0, <2>2
    <2>4. PICK g : g = [i \in 0..N |-> g[i]] /\ Rounds(g, N)
      <3> HIDE DEF N
      <3> QED
        BY <2>3
    <2>5. Reads(g)
      BY <2>4
    <2> QED
      BY <2>5
  <1>5. Reads(f)
    <2> HIDE DEF Reads
    <2> QED
      BY <1>4
  <1> HIDE DEF f
  <1>6. \A n \in 0..N : f[n] = IF n = 0 THEN none ELSE Step(f[n - 1])
    BY <1>5
  <1>7. f[0] = none /\ \A n \in 1..N : f[n] = Step(f[n - 1])
    BY <1>0, <1>6
  <1> QED
    BY <1>1, <1>7 DEF none, Step

(* Whatever a loop leaves as it is stays as it is.                         *)
LEMMA StaysRead ==
  ASSUME NEW N \in Nat, NEW seen, NEW n \in 0..N,
         \A m \in 1..N : seen[m - 1] = seen[n] => seen[m] = seen[n]
  PROVE  seen[N] = seen[n]
  <1> DEFINE P == {i \in Nat : n + i <= N => seen[n + i] = seen[n]}
  <1>1. 0 \in P
    OBVIOUS
  <1>2. ASSUME NEW i \in P
        PROVE  i + 1 \in P
    <2>1. i \in Nat /\ i + 1 \in Nat /\ n \in Nat
      OBVIOUS
    <2> SUFFICES ASSUME n + (i + 1) <= N
                 PROVE  seen[n + (i + 1)] = seen[n]
      BY <2>1
    <2>2. n + i <= N /\ n + (i + 1) \in 1..N /\ (n + (i + 1)) - 1 = n + i
      BY <2>1
    <2>3. seen[n + i] = seen[n]
      BY <2>2
    <2> QED
      BY <2>2, <2>3
  <1>3. P = Nat
    <2>1. P \in SUBSET Nat
      OBVIOUS
    <2> HIDE DEF P
    <2> QED
      BY <1>1, <1>2, <2>1, SetInduction
  <1>4. N - n \in Nat /\ n + (N - n) = N /\ N <= N
    OBVIOUS
  <1>5. N - n \in P
    <2> HIDE DEF P
    <2> QED
      BY <1>3, <1>4
  <1> QED
    BY <1>4, <1>5

(* A hit lies behind the first bytes, at of them.                          *)
LiesAt(hit, here, chars) ==
  /\ here + Len(hit) <= Len(chars)
  /\ \A j \in 1..Len(hit) : chars[here + j] = hit[j]

(* One round of GetHits reads a hit there and goes on behind it.           *)
ReadsHit(chars, here, h, f, pos) ==
  NextHit(chars, [cur_size |-> here, h |-> h]) =
    [cur_size |-> here + Len(HitPos(f, pos)),
     h |-> Append(h, [field |-> f, pos |-> pos])]

(* What HitPos puts together is read back by one round.                    *)
LEMMA NextHitIsRead ==
  ASSUME NEW chars, Len(chars) \in Nat, NEW here \in Nat, NEW h, NEW f,
         NEW pos, IsSequence(pos), Len(pos) < UChar,
         LiesAt(HitPos(f, pos), here, chars)
  PROVE  ReadsHit(chars, here, h, f, pos)
  <1> DEFINE c == Len(pos)
             head == <<f, c>>
             hit == HitPos(f, pos)
             T == {f, c} \cup {pos[i] : i \in 1..Len(pos)}
                    \cup {chars[i] : i \in 1..Len(chars)}
  <1>1. c \in Nat /\ c % UChar = c /\ Len(chars) \in Nat
    <2>1. c \in Nat /\ Len(chars) \in Nat
      BY DEF IsSequence
    <2> HIDE DEF c
    <2>2. c < UChar /\ UChar \in Nat
      BY IndexingAssumption DEF c
    <2> QED
      BY <2>1, <2>2
  <1>2. hit = head \o pos
    BY <1>1 DEF HitPos
  <1>3. head \in Seq(T) /\ Len(head) = 2 /\ head[1] = f /\ head[2] = c
    BY <1>1
  <1>10. pos \in Seq(T) /\ \A i \in 1..Len(chars) : chars[i] \in T
    <2>1. /\ Len(pos) \in Nat /\ pos = [i \in 1..Len(pos) |-> pos[i]]
          /\ \A i \in 1..Len(pos) : pos[i] \in T
      BY DEF IsSequence
    <2>2. \A i \in 1..Len(chars) : chars[i] \in T
      OBVIOUS
    <2> HIDE DEF T
    <2>3. pos \in [1..Len(pos) -> T]
      BY <2>1
    <2> QED
      BY <2>1, <2>2, <2>3
  <1> HIDE DEF head, hit, T
  <1>4. /\ Len(hit) = c + 2 /\ hit[1] = f /\ hit[2] = c
        /\ \A i \in 1..c : hit[i + 2] = pos[i]
    <2>1. /\ Len(hit) = Len(head) + Len(pos)
          /\ \A i \in 1..(Len(head) + Len(pos)) :
               hit[i] = IF i <= Len(head) THEN head[i] ELSE pos[i - Len(head)]
      <3>1. /\ Len(head \o pos) = Len(head) + Len(pos)
            /\ \A i \in 1..(Len(head) + Len(pos)) :
                 (head \o pos)[i] = IF i <= Len(head) THEN head[i] ELSE pos[i - Len(head)]
        <4>1. head \in Seq(T) /\ pos \in Seq(T)
          BY <1>3, <1>10
        <4> HIDE DEF c
        <4> QED
          BY <4>1, ConcatProperties
      <3> QED
        BY <1>2, <3>1
    <2> HIDE DEF c
    <2>2. Len(pos) = c
      BY DEF c
    <2>3. \A i \in 1..c : i + 2 \in 1..(c + 2) /\ ~(i + 2 <= 2) /\ (i + 2) - 2 = i
      BY <1>1
    <2> QED
      BY <1>1, <1>3, <2>1, <2>2, <2>3
  <1>5. /\ chars[here + 1] = f /\ chars[here + 2] = c
        /\ \A i \in 1..c : chars[here + 2 + i] = pos[i]
    <2>1. \A j \in 1..(c + 2) : chars[here + j] = hit[j]
      BY <1>4 DEF hit, LiesAt
    <2>2. ASSUME NEW i \in 1..c
          PROVE  i + 2 \in 1..(c + 2) /\ here + (i + 2) = here + 2 + i
      BY <1>1
    <2>3. 1 \in 1..(c + 2) /\ 2 \in 1..(c + 2)
      BY <1>1
    <2> HIDE DEF c
    <2> QED
      BY <1>4, <2>1, <2>2, <2>3
  <1>6. here + c + 2 <= Len(chars) /\ ~(here >= Len(chars))
    BY <1>1, <1>4 DEF hit, LiesAt
  <1>7. SubSeq(chars, here + 3, here + 2 + c) = pos
    <2> DEFINE part == SubSeq(chars, here + 3, here + 2 + c)
    <2> HIDE DEF c
    <2>1. \A i \in (here + 3)..(here + 2 + c) : chars[i] \in T
      <3>1. \A i \in (here + 3)..(here + 2 + c) : i \in 1..Len(chars)
        BY <1>1, <1>6
      <3> QED
        BY <1>10, <3>1
    <2>2. /\ here + 3 \in Int /\ here + 2 + c \in Int
          /\ (here + 2 + c) - (here + 3) + 1 = c
          /\ (IF here + 3 <= here + 2 + c THEN (here + 2 + c) - (here + 3) + 1 ELSE 0) = c
      BY <1>1
    <2>3. /\ part \in Seq(T) /\ Len(part) = c
          /\ \A i \in 1..c : part[i] = chars[(here + 3) + i - 1]
      <3> DEFINE from == here + 3
                 to == here + 2 + c
      <3>1. from \in Int /\ to \in Int /\ \A i \in from..to : chars[i] \in T
        BY <2>1, <2>2
      <3>2. to - from + 1 = c /\ (IF from <= to THEN to - from + 1 ELSE 0) = c
        BY <2>2
      <3>3. part = SubSeq(chars, from, to)
        OBVIOUS
      <3> HIDE DEF from, to, part
      <3>4. /\ SubSeq(chars, from, to) \in Seq(T)
            /\ Len(SubSeq(chars, from, to)) = IF from <= to THEN to - from + 1 ELSE 0
            /\ \A i \in 1..(to - from + 1) : SubSeq(chars, from, to)[i] = chars[from + i - 1]
        BY <3>1, SubSeqProperties
      <3>5. /\ part \in Seq(T) /\ Len(part) = c
            /\ \A i \in 1..c : part[i] = chars[from + i - 1]
        BY <3>2, <3>3, <3>4
      <3> QED
        BY <3>5 DEF from
    <2>4. \A i \in 1..c : (here + 3) + i - 1 = here + 2 + i
      BY <1>1
    <2> HIDE DEF part
    <2>5. \A i \in 1..c : part[i] = pos[i]
      BY <1>5, <2>3, <2>4
    <2>6. Len(pos) = c
      BY DEF c
    <2>7. part = pos
      BY <1>10, <2>3, <2>5, <2>6, SeqEqual
    <2> QED
      BY <2>7 DEF part
  <1>8. here + 2 + c = here + Len(hit)
    BY <1>1, <1>4
  <1> HIDE DEF c
  <1>9. NextHit(chars, [cur_size |-> here, h |-> h]) =
          [cur_size |-> here + 2 + c, h |-> Append(h, [field |-> f, pos |-> pos])]
    BY <1>5, <1>6, <1>7 DEF NextHit
  <1> QED
    BY <1>8, <1>9 DEF hit, ReadsHit

(* A token's positions are those of words.                                 *)
LEMMA PositionsOfWords ==
  ASSUME NEW t, NEW f, NEW S, NEW words \in Seq(S)
  PROVE  Positions(t, f, words) \in Seq({words[i].pos : i \in 1..Len(words)})
  <1> DEFINE T == {words[i].pos : i \in 1..Len(words)}
             own(i) == IF Hash[words[i].str] = Hash[t] /\ words[i].field \in f
                       THEN <<words[i].pos>> ELSE <<>>
             s == [i \in 1..Len(words) |-> own(i)]
  <1>1. Len(words) \in Nat
    BY LenProperties
  <1>2. ASSUME NEW i \in 1..Len(words)
        PROVE  own(i) \in Seq(T)
    <2>1. words[i].pos \in T
      OBVIOUS
    <2> HIDE DEF T
    <2>2. <<words[i].pos>> \in Seq(T) /\ <<>> \in Seq(T)
      BY <2>1
    <2> QED
      BY <2>2
  <1>3. Positions(t, f, words) = FlattenSeq(s)
    BY DEF Positions
  <1> HIDE DEF own, T
  <1>4. s \in Seq(Seq(T))
    BY <1>1, <1>2
  <1> HIDE DEF s
  <1>5. FlattenSeq(s) \in Seq(T)
    BY <1>4, FlattenInOrder
  <1> QED
    BY <1>3, <1>5 DEF T

(* What is stored of a token in a row is read back.                        *)
LEMMA HitsAreRead ==
  ASSUME TypeOK, NEW t, NEW S, NEW words \in Seq(S),
         Len(source.field) <= UChar, Len(Hits(t, words)) < UChar
  PROVE  /\ Stored(Hits(t, words)) = Hits(t, words)
         /\ GetHits(Hits(t, words)) = FieldsOf(t, words)
  <1> DEFINE N == Len(source.field)
             T == Nat \cup {words[i].pos : i \in 1..Len(words)}
             R == [field : Nat, pos : Seq(T)]
             P(f) == Positions(t, {f}, words)
             entry(f) == [field |-> f - 1, pos |-> P(f)]
             hit(f) == IF P(f) = <<>> THEN <<>> ELSE HitPos(f - 1, P(f))
             read1(f) == IF P(f) = <<>> THEN <<>> ELSE <<entry(f)>>
             s == [f \in 1..N |-> hit(f)]
             e == [f \in 1..N |-> read1(f)]
             H == Hits(t, words)
  <1>1. N \in Nat /\ UChar \in Nat \ {0}
    BY IndexingAssumption, LenProperties DEF TypeOK
  <1>2. \A f : P(f) \in Seq(T) /\ Len(P(f)) \in Nat
    <2> DEFINE U == {words[i].pos : i \in 1..Len(words)}
    <2> HIDE DEF P, U
    <2>1. \A f : P(f) \in Seq(U)
      BY PositionsOfWords DEF P, U
    <2>2. Seq(U) \subseteq Seq(Nat \cup U)
      BY SeqMonotonic
    <2> QED
      BY <2>1, <2>2, LenProperties DEF U
  <1>3. Nat \subseteq T
    OBVIOUS
  <1>f. \A f \in 1..N : ~(f > UChar) /\ FieldID(f) = f - 1 /\ SharedBy(f - 1) = {f}
    <2>1. ASSUME NEW f \in 1..N
          PROVE  FieldID(f) = f - 1 /\ ~(f > UChar)
      <3>1. f - 1 \in 0..(UChar - 1)
        BY <1>1
      <3>2. (f - 1) % UChar = f - 1
        BY <1>1, <3>1
      <3> QED
        BY <1>1, <3>2 DEF FieldID
    <2>2. \A f, i \in 1..N : FieldID(i) = f - 1 <=> i = f
      BY <1>1, <2>1
    <2> QED
      BY <2>1, <2>2 DEF SharedBy
  <1>4. H = FlattenSeq(s) /\ FieldsOf(t, words) = FlattenSeq(e)
    <2> DEFINE packed == [f \in 1..N |->
                 IF f > UChar \/ Positions(t, SharedBy(FieldID(f)), words) = <<>> THEN <<>>
                 ELSE HitPos(FieldID(f), Positions(t, SharedBy(FieldID(f)), words))]
    <2>1. H = FlattenSeq(packed)
      BY DEF Hits
    <2>2. packed = s
      BY <1>f
    <2> QED
      BY <2>1, <2>2 DEF FieldsOf
  <1> HIDE DEF T, P, H
  <1>5. ASSUME NEW f \in 1..N
        PROVE  hit(f) \in Seq(T) /\ read1(f) \in Seq(R)
    <2>1. f - 1 \in Nat /\ f - 1 \in T
      BY <1>1, <1>3
    <2>2. <<f - 1, Len(P(f)) % UChar>> \in Seq(T)
      <3>1. Len(P(f)) % UChar \in Nat
        BY <1>1, <1>2
      <3>2. Len(P(f)) % UChar \in T
        BY <1>3, <3>1
      <3> QED
        BY <2>1, <3>2
    <2>3. HitPos(f - 1, P(f)) \in Seq(T)
      BY <1>2, <2>2, ConcatProperties DEF HitPos
    <2>4. entry(f) \in R
      BY <1>2, <2>1
    <2> HIDE DEF entry, R
    <2>5. <<entry(f)>> \in Seq(R) /\ <<>> \in Seq(R) /\ <<>> \in Seq(T)
      BY <2>4
    <2> QED
      BY <2>3, <2>5
  <1> HIDE DEF R, hit, read1
  <1>6. /\ s \in Seq(Seq(T)) /\ Len(s) = N /\ \A f \in 1..N : s[f] = hit(f)
        /\ e \in Seq(Seq(R)) /\ Len(e) = N /\ \A f \in 1..N : e[f] = read1(f)
    BY <1>1, <1>5
  <1> HIDE DEF s, e
  <1>7. PICK g \in [0..N -> Seq(T)] : Beginnings(g, s)
    BY <1>6, FlattenPrefixes
  <1>8. PICK k \in [0..N -> Seq(R)] : Beginnings(k, e)
    BY <1>6, FlattenPrefixes
  <1> HIDE DEF N
  <1>9. /\ H = g[N] /\ H \in Seq(T) /\ Len(H) \in Nat
        /\ \A f \in 0..N : g[f] \in Seq(T) /\ Len(g[f]) \in Nat /\ k[f] \in Seq(R)
    <2>1. \A f \in 0..N : g[f] \in Seq(T) /\ Len(g[f]) \in Nat /\ k[f] \in Seq(R)
      BY LenProperties
    <2>2. H = g[N] /\ N \in 0..N
      BY <1>1, <1>4, <1>6, <1>7 DEF Beginnings
    <2> QED
      BY <2>1, <2>2
  <1>10. PICK seen :
           /\ GetHits(H) = seen[Len(H)].h
           /\ seen[0] = [cur_size |-> 0, h |-> <<>>]
           /\ \A n \in 1..Len(H) : seen[n] = NextHit(H, seen[n - 1])
    <2>1. Len(H) \in Nat
      BY <1>9
    <2> QED
      BY <2>1, ReadUnfolds
  <1> DEFINE At(n, f) == seen[n] = [cur_size |-> Len(g[f]), h |-> k[f]]
             Q == {f \in Nat : f <= N => \E n \in 0..Len(g[f]) : At(n, f)}
  <1>11. 0 \in Q
    <2>1. g[0] = <<>> /\ k[0] = <<>> /\ Len(<<>>) = 0 /\ 0 \in 0..0
      BY <1>7, <1>8 DEF Beginnings
    <2>2. Len(g[0]) = 0
      BY <2>1
    <2> QED
      BY <1>10, <2>1, <2>2
  <1>12. ASSUME NEW f \in 1..N, NEW n \in 0..Len(g[f - 1]), At(n, f - 1)
         PROVE  \E m \in 0..Len(g[f]) : At(m, f)
    <2> DEFINE here == Len(g[f - 1])
    <2>1. f - 1 \in 0..N /\ f \in 0..N /\ f - 1 \in Nat
      BY <1>1
    <2>2. g[f - 1] \in Seq(T) /\ k[f - 1] \in Seq(R) /\ here \in Nat /\ Len(g[f]) \in Nat
      BY <1>9, <2>1
    <2>3. /\ g[f] = g[f - 1] \o hit(f) /\ k[f] = k[f - 1] \o read1(f)
          /\ Len(g[f]) = here + Len(hit(f))
          /\ \A j \in 1..Len(hit(f)) : g[f][here + j] = hit(f)[j]
      <3>1. /\ g[f] = g[f - 1] \o s[f] /\ Len(g[f]) = Len(g[f - 1]) + Len(s[f])
            /\ \A j \in 1..Len(s[f]) : g[f][Len(g[f - 1]) + j] = s[f][j]
        BY <1>6, <1>7 DEF Beginnings
      <3>2. k[f] = k[f - 1] \o e[f]
        BY <1>6, <1>8 DEF Beginnings
      <3>3. s[f] = hit(f) /\ e[f] = read1(f)
        BY <1>6
      <3> QED
        BY <3>1, <3>2, <3>3
    <2>4. Len(g[f]) <= Len(H) /\ \A i \in 1..Len(g[f]) : H[i] = g[f][i]
      <3>1. N \in 0..N /\ f \in 0..N
        BY <1>1
      <3> QED
        BY <1>6, <1>7, <1>9, <3>1 DEF Beginnings
    <2>5. CASE P(f) = <<>>
      <3>1. hit(f) = <<>> /\ read1(f) = <<>>
        BY <2>5 DEF hit, read1
      <3>2. g[f] = g[f - 1] /\ k[f] = k[f - 1]
        BY <2>2, <2>3, <3>1, ConcatEmptySeq
      <3> QED
        BY <1>12, <3>2
    <2>6. CASE P(f) # <<>>
      <3>1. hit(f) = HitPos(f - 1, P(f)) /\ read1(f) = <<[field |-> f - 1, pos |-> P(f)]>>
        BY <2>6 DEF hit, read1
      <3>2. hit(f) \in Seq(T) /\ Len(hit(f)) \in Nat
        BY <1>5, LenProperties
      <3>3. Len(hit(f)) = Len(P(f)) + 2
        <4>1. Len(<<f - 1, Len(P(f)) % UChar>>) = 2 /\ <<f - 1, Len(P(f)) % UChar>> \in Seq(T)
          <5>1. Len(P(f)) % UChar \in T /\ f - 1 \in T
            <6>1. Len(P(f)) % UChar \in Nat
              BY <1>1, <1>2
            <6> QED
              BY <1>3, <2>1, <6>1
          <5> QED
            BY <5>1
        <4>2. Len(HitPos(f - 1, P(f))) = 2 + Len(P(f))
          BY <1>2, <4>1, ConcatProperties DEF HitPos
        <4> QED
          BY <1>2, <3>1, <4>2
      <3>4. /\ here + Len(hit(f)) <= Len(H) /\ Len(P(f)) < UChar
            /\ \A j \in 1..Len(hit(f)) : H[here + j] = hit(f)[j]
        <4> DEFINE b == Len(hit(f))
                   c == Len(P(f))
                   l == Len(H)
        <4>1. b \in Nat /\ c \in Nat /\ l \in Nat /\ b = c + 2 /\ here + b <= l /\ l < UChar
          BY <1>2, <1>9, <2>3, <2>4, <3>2, <3>3 DEF H
        <4>2. Len(g[f]) = here + b
          BY <2>3
        <4> HIDE DEF here, b, c, l
        <4>3. here \in Nat
          BY <2>2 DEF here
        <4>4. c < UChar /\ \A j \in 1..b : here + j \in 1..(here + b)
          BY <1>1, <4>1, <4>3
        <4>5. \A j \in 1..b : H[here + j] = g[f][here + j]
          BY <2>4, <4>2, <4>4
        <4>6. \A j \in 1..b : g[f][here + j] = hit(f)[j]
          BY <2>3 DEF b, here
        <4> QED
          BY <4>1, <4>4, <4>5, <4>6 DEF b, c, l
      <3>5. NextHit(H, [cur_size |-> here, h |-> k[f - 1]]) =
              [cur_size |-> here + Len(hit(f)),
               h |-> Append(k[f - 1], [field |-> f - 1, pos |-> P(f)])]
        <4> HIDE DEF here
        <4>2. here \in Nat
          BY <2>2 DEF here
        <4> DEFINE pos == P(f)
                   h == k[f - 1]
        <4>3. Len(H) \in Nat /\ IsSequence(pos)
          BY <1>2, <1>9 DEF IsSequence
        <4>1. Len(pos) < UChar
          BY <3>4
        <4>4. LiesAt(HitPos(f - 1, pos), here, H)
          BY <3>1, <3>4 DEF LiesAt
        <4> HIDE DEF pos, h, H
        <4>5. ReadsHit(H, here, h, f - 1, pos)
          BY <4>1, <4>2, <4>3, <4>4, NextHitIsRead
        <4>6. NextHit(H, [cur_size |-> here, h |-> h]) =
                [cur_size |-> here + Len(HitPos(f - 1, pos)),
                 h |-> Append(h, [field |-> f - 1, pos |-> pos])]
          BY <4>5 DEF ReadsHit
        <4> QED
          BY <3>1, <4>6 DEF pos, h
      <3>6. k[f] = Append(k[f - 1], [field |-> f - 1, pos |-> P(f)])
        <4>1. [field |-> f - 1, pos |-> P(f)] \in R
          BY <1>2, <2>1 DEF R
        <4> QED
          BY <2>2, <2>3, <3>1, <4>1, AppendIsConcat
      <3>7. n + 1 \in 1..Len(H) /\ n + 1 \in 0..Len(g[f]) /\ (n + 1) - 1 = n
        <4> DEFINE b == Len(hit(f))
                   l == Len(H)
        <4>1. /\ b \in Nat /\ b >= 2 /\ l \in Nat /\ here + b <= l /\ here \in Nat
              /\ Len(g[f]) = here + b /\ n \in 0..here
          <5>1. b \in Nat /\ b >= 2
            BY <1>2, <3>2, <3>3
          <5>2. l \in Nat /\ here + b <= l /\ here \in Nat /\ Len(g[f]) = here + b
            BY <1>9, <2>2, <2>3, <3>4
          <5> QED
            BY <5>1, <5>2
        <4> HIDE DEF here, b, l
        <4>2. n + 1 \in 1..l /\ n + 1 \in 0..(here + b) /\ (n + 1) - 1 = n
          BY <4>1
        <4> QED
          BY <4>1, <4>2 DEF l
      <3>8. seen[n + 1] = NextHit(H, seen[n])
        BY <1>10, <3>7
      <3>9. At(n + 1, f)
        BY <1>12, <2>3, <3>5, <3>6, <3>8
      <3> QED
        BY <3>7, <3>9
    <2> QED
      BY <2>5, <2>6
  <1>13. ASSUME NEW f \in Q
         PROVE  f + 1 \in Q
    <2>1. f \in Nat /\ f + 1 \in Nat /\ (f + 1) - 1 = f
      OBVIOUS
    <2> SUFFICES ASSUME f + 1 <= N
                 PROVE  \E m \in 0..Len(g[f + 1]) : At(m, f + 1)
      BY <2>1
    <2>2. f + 1 \in 1..N /\ f <= N
      BY <1>1, <2>1
    <2>3. PICK n \in 0..Len(g[f]) : At(n, f)
      BY <2>2
    <2> HIDE DEF At
    <2> QED
      BY <1>12, <2>1, <2>2, <2>3
  <1>14. PICK n \in 0..Len(H) : At(n, N)
    <2>1. Q \in SUBSET Nat
      OBVIOUS
    <2>2. N \in Q
      <3> HIDE DEF Q
      <3>1. Q = Nat
        BY <1>11, <1>13, <2>1, SetInduction
      <3> QED
        BY <1>1, <3>1
    <2> QED
      BY <1>1, <1>9, <2>2
  <1>15. seen[n] = [cur_size |-> Len(H), h |-> k[N]]
    BY <1>9, <1>14
  <1>16. seen[Len(H)] = seen[n]
    <2>1. NextHit(H, seen[n]) = seen[n]
      BY <1>9, <1>15 DEF NextHit
    <2>2. \A m \in 1..Len(H) : seen[m - 1] = seen[n] => seen[m] = seen[n]
      BY <1>10, <2>1
    <2> DEFINE l == Len(H)
    <2>3. l \in Nat /\ n \in 0..l
      BY <1>9
    <2>4. \A m \in 1..l : seen[m - 1] = seen[n] => seen[m] = seen[n]
      BY <2>2
    <2> HIDE DEF l
    <2>5. seen[l] = seen[n]
      BY <2>3, <2>4, StaysRead
    <2> QED
      BY <2>5 DEF l
  <1>17. k[N] = FieldsOf(t, words)
    BY <1>4, <1>6, <1>8 DEF Beginnings
  <1>18. Stored(H) = H
    BY <1>9, StoredFits DEF H
  <1> QED
    BY <1>10, <1>15, <1>16, <1>17, <1>18 DEF H

(* The entries of the posting lists are those of their rows.               *)
PostingsFollow ==
  \A t \in Strings : \A i \in 1..Len(inverter[t]) :
    inverter[t][i].hits = Stored(Hits(t, Words(rows[inverter[t][i].local_id + 1])))

(* The hits of each posting are those of its row.                          *)
LEMMA PostingsFollowInvariant == Spec => []PostingsFollow
  <1>1. Init => PostingsFollow
    <2>1. Init => \A t \in Strings : Len(inverter[t]) = 0
      BY EmptyIsSequence DEF Init
    <2> QED
      BY <2>1 DEF PostingsFollow
  <1>2. ASSUME Inv, PostingsFollow, [Next]_vars
        PROVE  PostingsFollow'
    <2>1. CASE UNCHANGED <<source, columns, inverter, rows>>
      <3>1. ASSUME NEW t \in Strings, NEW i \in 1..Len(inverter'[t])
            PROVE  (Stored(Hits(t, Words(rows[inverter[t][i].local_id + 1]))))' =
                     Stored(Hits(t, Words(rows[inverter[t][i].local_id + 1])))
        BY <2>1 DEF Hits, FieldID, SharedBy, Positions, HitPos, Words, Stored
      <3> QED
        BY <1>2, <2>1, <3>1 DEF PostingsFollow
    <2>2. ASSUME NEW row \in [1..Len(columns) -> Values], ProcessDoc(row)
          PROVE  PostingsFollow'
      <3>1. /\ source' = source /\ columns' = columns /\ rows' = Append(rows, row)
            /\ \A t \in Strings :
                 inverter'[t] = IF t \in Tokens(Words(row))
                                THEN Append(inverter[t], DocInvert(ldocid, t, Words(row)))
                                ELSE inverter[t]
        BY <2>2 DEF ProcessDoc
      <3>2. /\ rows \in Seq([1..Len(columns) -> Values]) /\ Len(rows) = ldocid
            /\ ldocid \in Nat /\ Len(summary) = ldocid /\ PostingsAscend
            /\ \A t \in Strings : IsSequence(inverter[t])
        BY <1>2, IndexingAssumption DEF Inv, TypeOK
      <3>3. /\ rows'[ldocid + 1] = row
            /\ \A d \in 1..ldocid : rows'[d] = rows[d]
        BY <3>1, <3>2, AppendProperties
      <3> DEFINE Right(t, p, table) == p.hits = Stored(Hits(t, Words(table[p.local_id + 1])))
      <3>4. ASSUME NEW t \in Strings, NEW i \in 1..Len(inverter[t])
            PROVE  Right(t, inverter[t][i], rows')
        <4>1. inverter[t][i].local_id \in 0..(ldocid - 1)
          BY <3>2 DEF PostingsAscend
        <4>2. rows'[inverter[t][i].local_id + 1] = rows[inverter[t][i].local_id + 1]
          BY <3>2, <3>3, <4>1
        <4> QED
          BY <1>2, <4>2 DEF PostingsFollow
      <3>5. \A t \in Strings : Right(t, DocInvert(ldocid, t, Words(row)), rows')
        BY <3>3 DEF DocInvert
      <3>6. ASSUME NEW t \in Strings, NEW i \in 1..Len(inverter'[t])
            PROVE  Right(t, inverter'[t][i], rows')
        <4>1. CASE t \notin Tokens(Words(row))
          <5>1. inverter'[t] = inverter[t]
            BY <3>1, <4>1
          <5> HIDE DEF Right
          <5> QED
            BY <3>4, <5>1
        <4>2. CASE t \in Tokens(Words(row))
          <5> DEFINE entry == DocInvert(ldocid, t, Words(row))
          <5>1. inverter'[t] = Append(inverter[t], entry)
            BY <3>1, <4>2
          <5> HIDE DEF entry
          <5>2. /\ Len(inverter'[t]) = Len(inverter[t]) + 1
                /\ \A j \in 1..Len(inverter[t]) : inverter'[t][j] = inverter[t][j]
                /\ inverter'[t][Len(inverter[t]) + 1] = entry
            BY <3>2, <5>1, AppendToSequence
          <5>3. i \in 1..Len(inverter[t]) \/ i = Len(inverter[t]) + 1
            BY <3>2, <5>2 DEF IsSequence
          <5> HIDE DEF Right
          <5> QED
            BY <3>4, <3>5, <5>2, <5>3 DEF entry
        <4> QED
          BY <4>1, <4>2
      <3>7. ASSUME NEW t \in Strings, NEW i \in 1..Len(inverter'[t])
            PROVE  (Stored(Hits(t, Words(rows[inverter[t][i].local_id + 1]))))' =
                     Stored(Hits(t, Words(rows'[inverter'[t][i].local_id + 1])))
        BY <3>1 DEF Hits, FieldID, SharedBy, Positions, HitPos, Words, Stored
      <3> QED
        BY <3>6, <3>7 DEF PostingsFollow
    <2> QED
      BY <1>2, <2>1, <2>2 DEF Next, EndOfRows, vars
  <1> QED
    BY <1>1, <1>2, Invariance, PTL DEF Spec

(* For every table, configuration and hash, what DoIndex stores of a token *)
(* in a document is what GetHits reads: each searched field that has it,   *)
(* with its positions, as long as they fit the uint8_t they are counted    *)
(* with and it tells all fields apart.                                     *)
THEOREM HitsAreReadBack == Spec => []HitsReadBack
  <1>1. ASSUME Inv, PostingsFollow
        PROVE  HitsReadBack
    <2> SUFFICES ASSUME NEW t \in Strings, NEW i \in 1..Len(inverter[t]),
                        Len(source.field) <= UChar,
                        Len(Hits(t, Words(rows[inverter[t][i].local_id + 1]))) < UChar
                 PROVE  GetHits(inverter[t][i].hits) =
                          FieldsOf(t, Words(rows[inverter[t][i].local_id + 1]))
      BY DEF HitsReadBack
    <2> DEFINE d == inverter[t][i].local_id + 1
    <2>1. TypeOK /\ d \in 1..Len(rows) /\ rows \in Seq([1..Len(columns) -> Values])
      <3>1. inverter[t][i].local_id \in 0..(Len(summary) - 1)
        BY <1>1 DEF Inv, PostingsAscend
      <3>2. Len(summary) = Len(rows) /\ Len(rows) \in Nat
        BY <1>1, IndexingAssumption DEF Inv, TypeOK
      <3> QED
        BY <1>1, <3>1, <3>2 DEF Inv, TypeOK
    <2> HIDE DEF d
    <2>2. rows[d] \in [1..Len(columns) -> Values]
      BY <2>1, ElementOfSeq
    <2>3. PICK S : Words(rows[d]) \in Seq(S)
      <3>1. PICK S : WordsOf(rows[d]) \in Seq(Seq(S))
        BY <2>1, <2>2, WordsOfColumns
      <3>2. Words(rows[d]) = FlattenSeq(WordsOf(rows[d]))
        BY <2>1, <2>2, WordsOfColumns
      <3> QED
        BY <3>1, <3>2, FlattenInOrder
    <2>4. inverter[t][i].hits = Stored(Hits(t, Words(rows[d])))
      BY <1>1 DEF PostingsFollow, d
    <2> QED
      BY <2>1, <2>3, <2>4, HitsAreRead DEF d
  <1> QED
    BY Invariance, PostingsFollowInvariant, <1>1, PTL

-----------------------------------------------------------------------------
(* Flattened sequences.                                                    *)

-----------------------------------------------------------------------------
(* Where a part of a file stands.                                          *)

(* The part stands behind the first n bytes.                               *)
StandsAt(part, n, whole) ==
  /\ n + Len(part) <= Len(whole)
  /\ \A i \in 1..Len(part) : whole[n + i] = part[i]

(* Both parts of a concatenation stand in it.                              *)
LEMMA ConcatStands ==
  ASSUME NEW S, NEW a \in Seq(S), NEW b \in Seq(S)
  PROVE  /\ a \o b \in Seq(S) /\ Len(a \o b) = Len(a) + Len(b)
         /\ StandsAt(a, 0, a \o b) /\ StandsAt(b, Len(a), a \o b)
  <1>1. Len(a) \in Nat /\ Len(b) \in Nat
    BY LenProperties
  <1>2. /\ a \o b \in Seq(S)
        /\ Len(a \o b) = Len(a) + Len(b)
        /\ \A i \in 1..(Len(a) + Len(b)) :
             (a \o b)[i] = IF i <= Len(a) THEN a[i] ELSE b[i - Len(a)]
    BY ConcatProperties
  <1>3. ASSUME NEW i \in 1..Len(a)
        PROVE  (a \o b)[0 + i] = a[i]
    BY <1>1, <1>2
  <1>4. ASSUME NEW i \in 1..Len(b)
        PROVE  (a \o b)[Len(a) + i] = b[i]
    <2>1. /\ Len(a) + i \in 1..(Len(a) + Len(b)) /\ ~(Len(a) + i <= Len(a))
          /\ (Len(a) + i) - Len(a) = i
      BY <1>1
    <2> QED
      BY <1>2, <2>1
  <1>5. 0 + Len(a) <= Len(a) + Len(b) /\ Len(a) + Len(b) <= Len(a) + Len(b)
    BY <1>1
  <1> QED
    BY <1>2, <1>3, <1>4, <1>5 DEF StandsAt

(* A part of a part is a part.                                             *)
LEMMA StandsInside ==
  ASSUME NEW a, NEW b, NEW c, NEW m \in Nat, NEW n \in Nat,
         Len(a) \in Nat, Len(b) \in Nat, Len(c) \in Nat,
         StandsAt(a, m, b), StandsAt(b, n, c)
  PROVE  StandsAt(a, n + m, c)
  <1>1. m + Len(a) <= Len(b) /\ n + Len(b) <= Len(c)
    BY DEF StandsAt
  <1>2. n + m + Len(a) <= Len(c)
    BY <1>1
  <1>3. ASSUME NEW i \in 1..Len(a)
        PROVE  c[n + m + i] = a[i]
    <2>1. m + i \in 1..Len(b) /\ n + (m + i) = n + m + i
      BY <1>1
    <2>2. b[m + i] = a[i] /\ c[n + (m + i)] = b[m + i]
      BY <2>1 DEF StandsAt
    <2> QED
      BY <2>1, <2>2
  <1> QED
    BY <1>2, <1>3 DEF StandsAt

(* What is taken out of a sequence.                                        *)
LEMMA PartOf ==
  ASSUME NEW S, NEW s \in Seq(S), NEW m \in Nat, NEW n \in Nat, m <= n, n <= Len(s)
  PROVE  /\ SubSeq(s, m + 1, n) \in Seq(S)
         /\ Len(SubSeq(s, m + 1, n)) = n - m
         /\ \A i \in 1..(n - m) : SubSeq(s, m + 1, n)[i] = s[m + i]
  <1>1. Len(s) \in Nat /\ \A i \in 1..Len(s) : s[i] \in S
    BY LenProperties, ElementOfSeq
  <1> DEFINE from == m + 1
  <1>2. /\ from \in Int /\ n \in Int /\ n - from + 1 = n - m
        /\ (IF from <= n THEN n - from + 1 ELSE 0) = n - m
        /\ \A i \in from..n : i \in 1..Len(s)
        /\ \A i \in 1..(n - m) : from + i - 1 = m + i
    BY <1>1
  <1> HIDE DEF from
  <1>3. \A i \in from..n : s[i] \in S
    BY <1>1, <1>2
  <1>4. /\ SubSeq(s, from, n) \in Seq(S)
        /\ Len(SubSeq(s, from, n)) = IF from <= n THEN n - from + 1 ELSE 0
        /\ \A i \in 1..(n - from + 1) : SubSeq(s, from, n)[i] = s[from + i - 1]
    BY <1>2, <1>3, SubSeqProperties
  <1>5. /\ SubSeq(s, from, n) \in Seq(S)
        /\ Len(SubSeq(s, from, n)) = n - m
        /\ \A i \in 1..(n - m) : SubSeq(s, from, n)[i] = s[m + i]
    BY <1>2, <1>4
  <1> QED
    BY <1>5 DEF from

Shifted(s, m, n) == \A i \in 1..(n - m) : SubSeq(s, m + 1, n)[i] = s[m + i]

(* The elements of a part are those further on in the whole.               *)
LEMMA ShiftedPart ==
  ASSUME NEW S, NEW s \in Seq(S), NEW m \in Nat, NEW n \in Nat, m <= n, n <= Len(s)
  PROVE  Shifted(s, m, n)
  BY PartOf DEF Shifted

(* What stands in a whole stands in the part that contains it.             *)
LEMMA PartStands ==
  ASSUME NEW S, NEW s \in Seq(S), NEW m \in Nat, NEW n \in Nat, n <= Len(s),
         NEW j \in Nat, NEW part \in Seq(S), StandsAt(part, m + j, s),
         m + j + Len(part) <= n
  PROVE  StandsAt(part, j, SubSeq(s, m + 1, n))
  <1>1. Len(part) \in Nat /\ m <= n /\ j + Len(part) <= n - m
    BY LenProperties
  <1>2. /\ Len(SubSeq(s, m + 1, n)) = n - m
        /\ \A i \in 1..(n - m) : SubSeq(s, m + 1, n)[i] = s[m + i]
    BY <1>1, PartOf
  <1>3. ASSUME NEW i \in 1..Len(part)
        PROVE  SubSeq(s, m + 1, n)[j + i] = part[i]
    <2>1. j + i \in 1..(n - m) /\ m + (j + i) = m + j + i
      BY <1>1
    <2>2. s[m + j + i] = part[i]
      BY DEF StandsAt
    <2> QED
      BY <1>2, <2>1, <2>2
  <1> QED
    BY <1>1, <1>2, <1>3 DEF StandsAt

(* What stands in a whole is a part of it.                                 *)
LEMMA StandingPart ==
  ASSUME NEW S, NEW s \in Seq(S), NEW m \in Nat, NEW part \in Seq(S),
         StandsAt(part, m, s)
  PROVE  SubSeq(s, m + 1, m + Len(part)) = part
  <1> DEFINE n == m + Len(part)
             p == SubSeq(s, m + 1, n)
  <1>1. Len(part) \in Nat /\ n \in Nat /\ m <= n /\ n <= Len(s) /\ n - m = Len(part)
    BY LenProperties DEF StandsAt
  <1> HIDE DEF n
  <1>2. /\ p \in Seq(S) /\ Len(p) = Len(part)
        /\ \A i \in 1..Len(part) : p[i] = s[m + i]
    BY <1>1, PartOf
  <1>3. \A i \in 1..Len(part) : p[i] = part[i]
    BY <1>2 DEF StandsAt
  <1> HIDE DEF p
  <1>4. p = part
    BY <1>2, <1>3, SeqEqual
  <1> QED
    BY <1>4 DEF p, n

(* The whole is a part of itself.                                          *)
LEMMA WholePart ==
  ASSUME NEW S, NEW s \in Seq(S)
  PROVE  SubSeq(s, 1, Len(s)) = s
  <1> DEFINE z == 0
             n == Len(s)
  <1>1. n \in Nat /\ z \in Nat /\ z + 1 = 1 /\ z + n = n /\ z + n <= n
    BY LenProperties
  <1>2. \A i \in 1..n : s[z + i] = s[i]
    OBVIOUS
  <1> HIDE DEF z
  <1>3. StandsAt(s, z, s)
    BY <1>1, <1>2 DEF StandsAt
  <1>4. SubSeq(s, z + 1, z + Len(s)) = s
    BY <1>1, <1>3, StandingPart
  <1> QED
    BY <1>1, <1>4

(* What stands in a sequence stands there when more is added.              *)
LEMMA StandsBefore ==
  ASSUME NEW S, NEW w \in Seq(S), NEW more \in Seq(S), NEW p \in Seq(S), NEW n \in Nat,
         StandsAt(p, n, w)
  PROVE  StandsAt(p, n, w \o more)
  <1>1. w \o more \in Seq(S) /\ StandsAt(w, 0, w \o more)
    BY ConcatStands
  <1>2. Len(p) \in Nat /\ Len(w) \in Nat /\ Len(w \o more) \in Nat
    BY <1>1, LenProperties
  <1>3. StandsAt(p, 0 + n, w \o more)
    BY <1>1, <1>2, StandsInside
  <1> QED
    BY <1>3

(* A beginning of a file has what stands in the file, as far as it goes.   *)
IsBeginning(b, whole) ==
  /\ b \in Seq(Byte) /\ whole \in Seq(Byte)
  /\ Len(b) <= Len(whole)
  /\ \A i \in 1..Len(b) : b[i] = whole[i]

(* What stands in a whole stands in a beginning that reaches that far.     *)
LEMMA BeginningStands ==
  ASSUME NEW b, NEW whole, IsBeginning(b, whole), NEW n \in Nat, NEW part,
         Len(part) \in Nat, StandsAt(part, n, whole), n + Len(part) <= Len(b)
  PROVE  StandsAt(part, n, b)
  <1>1. Len(b) \in Nat
    BY LenProperties DEF IsBeginning
  <1>2. \A i \in 1..Len(part) : n + i \in 1..Len(b)
    BY <1>1
  <1> QED
    BY <1>2 DEF StandsAt, IsBeginning

-----------------------------------------------------------------------------
(* Where the parts of a flattened sequence end.                            *)
AreEnds(e, s) ==
  /\ e \in [0..Len(s) -> Nat]
  /\ e[0] = 0 /\ e[Len(s)] = Len(FlattenSeq(s))
  /\ \A k \in 1..Len(s) :
       /\ e[k] = e[k - 1] + Len(s[k]) /\ e[k] <= Len(FlattenSeq(s))
       /\ StandsAt(s[k], e[k - 1], FlattenSeq(s))

Ends(s) == CHOOSE e : AreEnds(e, s)

(* The ends of the parts of a flattened sequence.                          *)
LEMMA FlattenEnds ==
  ASSUME NEW S, NEW s \in Seq(Seq(S))
  PROVE  FlattenSeq(s) \in Seq(S) /\ AreEnds(Ends(s), s)
  <1> DEFINE N == Len(s)
             F == FlattenSeq(s)
  <1>0. N \in Nat /\ \A c \in 1..N : Len(s[c]) \in Nat
    BY ElementOfSeq, LenProperties
  <1>1. PICK g \in [0..N -> Seq(S)] :
          /\ g[0] = <<>> /\ g[N] = F
          /\ \A n \in 1..N :
               /\ Len(g[n]) = Len(g[n - 1]) + Len(s[n])
               /\ \A j \in 1..Len(s[n]) : g[n][Len(g[n - 1]) + j] = s[n][j]
          /\ \A n \in 0..N : \A c \in 0..n :
               /\ Len(g[c]) <= Len(g[n])
               /\ \A i \in 1..Len(g[c]) : g[n][i] = g[c][i]
    <2> HIDE DEF N, F
    <2>1. PICK g \in [0..Len(s) -> Seq(S)] : Beginnings(g, s)
      BY FlattenPrefixes
    <2> QED
      BY <2>1 DEF Beginnings, N, F
  <1>2. \A n \in 0..N : g[n] \in Seq(S) /\ Len(g[n]) \in Nat
    BY LenProperties
  <1>3. F \in Seq(S) /\ N \in 0..N /\ 0 \in 0..N
    BY <1>0, <1>1, <1>2
  <1> DEFINE e == [n \in 0..N |-> Len(g[n])]
  <1>4. e \in [0..N -> Nat] /\ \A n \in 0..N : e[n] = Len(g[n])
    BY <1>2
  <1> HIDE DEF e, N, F
  <1>5. e[0] = 0 /\ e[N] = Len(F)
    <2>1. Len(<<>>) = 0
      OBVIOUS
    <2> QED
      BY <1>1, <1>3, <1>4, <2>1
  <1>6. ASSUME NEW k \in 1..N
        PROVE  /\ e[k] = e[k - 1] + Len(s[k]) /\ e[k] <= Len(F)
               /\ StandsAt(s[k], e[k - 1], F)
    <2>1. k - 1 \in 0..N /\ k \in 0..N
      BY <1>0
    <2>2. e[k] = e[k - 1] + Len(s[k]) /\ e[k - 1] \in Nat /\ Len(s[k]) \in Nat
      BY <1>0, <1>1, <1>4, <2>1
    <2>3. Len(g[k]) <= Len(F) /\ \A i \in 1..Len(g[k]) : F[i] = g[k][i]
      <3>1. N \in 0..N /\ k \in 0..N
        BY <1>3, <2>1
      <3> QED
        BY <1>1, <3>1
    <2>4. ASSUME NEW j \in 1..Len(s[k])
          PROVE  F[e[k - 1] + j] = s[k][j]
      <3>1. e[k - 1] + j \in 1..Len(g[k])
        <4>1. Len(g[k]) = e[k]
          BY <1>4, <2>1
        <4> QED
          BY <2>2, <4>1
      <3>2. g[k][e[k - 1] + j] = s[k][j]
        BY <1>1, <1>4, <2>1
      <3> QED
        BY <2>3, <3>1, <3>2
    <2>5. e[k] <= Len(F)
      BY <1>4, <2>1, <2>3
    <2> QED
      BY <2>2, <2>4, <2>5 DEF StandsAt
  <1>7. AreEnds(e, s)
    BY <1>4, <1>5, <1>6 DEF AreEnds, N, F
  <1> QED
    BY <1>3, <1>7 DEF Ends, F

-----------------------------------------------------------------------------
(* Numbers.                                                                *)
LEMMA NumberOfBytes ==
  ASSUME NEW n, IsU32(n)
  PROVE  /\ U32(n) \in Seq(Byte) /\ Len(U32(n)) = 4
         /\ \A b : StandsAt(U32(n), 0, b) => Number(b) = n
  <1> DEFINE b1 == n % 256
             b2 == (n \div 256) % 256
             b3 == (n \div 65536) % 256
             b4 == n \div 16777216
  <1>1. n \in Nat /\ b4 \in 0..255
    BY DEF IsU32, Byte
  <1>2. b1 \in 0..255 /\ b2 \in 0..255 /\ b3 \in 0..255
    BY <1>1
  <1>3. b1 + 256 * (b2 + 256 * (b3 + 256 * b4)) = n
    BY <1>1
  <1>4. U32(n) = <<b1, b2, b3, b4>>
    BY DEF U32
  <1> HIDE DEF b1, b2, b3, b4
  <1>5. U32(n) \in Seq(Byte) /\ Len(U32(n)) = 4
    BY <1>1, <1>2, <1>4 DEF Byte
  <1>6. ASSUME NEW b, StandsAt(U32(n), 0, b)
        PROVE  Number(b) = n
    <2>1. \A i \in 1..4 : b[0 + i] = U32(n)[i]
      BY <1>5, <1>6 DEF StandsAt
    <2>2. b[1] = U32(n)[1] /\ b[2] = U32(n)[2] /\ b[3] = U32(n)[3] /\ b[4] = U32(n)[4]
      <3>1. b[0 + 1] = U32(n)[1] /\ b[0 + 2] = U32(n)[2] /\ b[0 + 3] = U32(n)[3]
            /\ b[0 + 4] = U32(n)[4]
        BY <2>1
      <3> QED
        BY <3>1
    <2>3. b[1] = b1 /\ b[2] = b2 /\ b[3] = b3 /\ b[4] = b4
      BY <1>4, <2>2
    <2> QED
      BY <1>3, <2>3 DEF Number
  <1> QED
    BY <1>5, <1>6

(* A number that stands in a file.                                         *)
LEMMA NumberInFile ==
  ASSUME NEW s \in Seq(Byte), NEW m \in Nat, NEW n, IsU32(n), NEW k \in Nat,
         StandsAt(U32(n), m, s), m + 4 <= k, k <= Len(s)
  PROVE  Number(SubSeq(s, m + 1, k)) = n
  <1>1. U32(n) \in Seq(Byte) /\ Len(U32(n)) = 4
    BY NumberOfBytes
  <1>2. m + 0 = m /\ m + 0 + Len(U32(n)) <= k /\ 0 \in Nat
    BY <1>1
  <1> DEFINE z == 0
  <1>3. StandsAt(U32(n), m + z, s) /\ m + z + Len(U32(n)) <= k /\ z \in Nat
    BY <1>1, <1>2
  <1> HIDE DEF z
  <1>4. StandsAt(U32(n), z, SubSeq(s, m + 1, k))
    BY <1>1, <1>3, PartStands
  <1> QED
    BY <1>4, NumberOfBytes DEF z

(* Numbers end at every fourth byte.                                       *)
LEMMA FourEach ==
  ASSUME NEW s \in Seq(Seq(Byte)), \A i \in 1..Len(s) : Len(s[i]) = 4
  PROVE  \A i \in 0..Len(s) : Ends(s)[i] = 4 * i
  <1> DEFINE N == Len(s)
             e == Ends(s)
             P == {i \in Nat : i <= N => e[i] = 4 * i}
  <1>1. N \in Nat /\ e[0] = 0 /\ \A i \in 1..N : e[i] = e[i - 1] + 4
    BY FlattenEnds, LenProperties DEF AreEnds
  <1> HIDE DEF e
  <1>2. 0 \in P
    BY <1>1
  <1>3. ASSUME NEW i \in P
        PROVE  i + 1 \in P
    <2>1. i \in Nat /\ i + 1 \in Nat /\ (i + 1) - 1 = i
      OBVIOUS
    <2> SUFFICES ASSUME i + 1 <= N
                 PROVE  e[i + 1] = 4 * (i + 1)
      BY <2>1
    <2>2. i + 1 \in 1..N /\ i <= N
      BY <1>1, <2>1
    <2>3. e[i] = 4 * i
      BY <2>2
    <2>4. e[i + 1] = 4 * i + 4
      BY <1>1, <2>1, <2>2, <2>3
    <2> QED
      BY <2>1, <2>4
  <1>4. P = Nat
    <2>1. P \in SUBSET Nat
      OBVIOUS
    <2> HIDE DEF P
    <2> QED
      BY <1>2, <1>3, <2>1, SetInduction
  <1>5. \A i \in 0..N : i \in P
    <2> HIDE DEF P
    <2> QED
      BY <1>1, <1>4
  <1> QED
    BY <1>1, <1>5 DEF e

-----------------------------------------------------------------------------
(* Texts in one array.                                                     *)
LengthsOf(texts) == [i \in 1..Len(texts) |-> U32(Len(texts[i]))]
CharsOf(texts)   == [i \in 1..Len(texts) |-> Append(texts[i], Junk)]

(* Where the i-th text ends.                                               *)
EndOf(texts, i) == 4 * Len(texts) + Ends(CharsOf(texts))[i]

(* The lengths are the numbers in front, and each text ends where the sum  *)
(* of the lengths says.                                                    *)
LEMMA TextsInArray ==
  ASSUME NEW t, AreTexts(t)
  PROVE  /\ Len(t) \in Nat /\ AttrString(t).data \in Seq(Byte)
         /\ AttrString(t) = [size |-> Len(t), data |-> AttrString(t).data]
         /\ \A i \in 0..Len(t) : EndOf(t, i) \in Nat
         /\ EndOf(t, 0) = 4 * Len(t) /\ EndOf(t, Len(t)) = Len(AttrString(t).data)
         /\ \A i \in 1..Len(t) :
              /\ EndOf(t, i) = EndOf(t, i - 1) + Len(t[i]) + 1
              /\ StandsAt(U32(Len(t[i])), 4 * (i - 1), AttrString(t).data)
              /\ StandsAt(t[i], EndOf(t, i - 1), AttrString(t).data)
  <1> DEFINE N == Len(t)
             L == LengthsOf(t)
             C == CharsOf(t)
             FL == FlattenSeq(L)
             FC == FlattenSeq(C)
             data == FL \o FC
  <1>1. /\ N \in Nat
        /\ \A i \in 1..N : t[i] \in Seq(Byte) /\ Len(t[i]) \in Nat /\ IsU32(Len(t[i]))
    BY ElementOfSeq, LenProperties DEF AreTexts
  <1>2. AttrString(t) = [size |-> N, data |-> data]
    BY DEF AttrString, LengthsOf, CharsOf
  <1>3. /\ L \in Seq(Seq(Byte)) /\ Len(L) = N
        /\ \A i \in 1..N : L[i] = U32(Len(t[i])) /\ Len(L[i]) = 4 /\ L[i] \in Seq(Byte)
    <2>1. \A i \in 1..N : U32(Len(t[i])) \in Seq(Byte) /\ Len(U32(Len(t[i]))) = 4
      BY <1>1, NumberOfBytes
    <2> QED
      BY <1>1, <2>1 DEF LengthsOf
  <1>4. /\ C \in Seq(Seq(Byte)) /\ Len(C) = N
        /\ \A i \in 1..N :
             /\ C[i] \in Seq(Byte) /\ Len(C[i]) = Len(t[i]) + 1
             /\ \A j \in 1..Len(t[i]) : C[i][j] = t[i][j]
    <2>1. Junk \in Byte
      BY FormatAssumption
    <2>2. ASSUME NEW i \in 1..N
          PROVE  /\ Append(t[i], Junk) \in Seq(Byte)
                 /\ Len(Append(t[i], Junk)) = Len(t[i]) + 1
                 /\ \A j \in 1..Len(t[i]) : Append(t[i], Junk)[j] = t[i][j]
      <3>1. t[i] \in Seq(Byte)
        BY <1>1
      <3> QED
        BY <2>1, <3>1, AppendProperties
    <2> QED
      BY <1>1, <2>2 DEF CharsOf
  <1> HIDE DEF L, C
  <1>5. /\ FL \in Seq(Byte) /\ AreEnds(Ends(L), L)
        /\ FC \in Seq(Byte) /\ AreEnds(Ends(C), C)
    BY <1>3, <1>4, FlattenEnds
  <1>6. /\ Len(FL) \in Nat /\ Len(FC) \in Nat
        /\ data \in Seq(Byte) /\ Len(data) = Len(FL) + Len(FC)
        /\ StandsAt(FL, 0, data) /\ StandsAt(FC, Len(FL), data)
    <2> HIDE DEF FL, FC
    <2> QED
      BY <1>5, ConcatStands, LenProperties
  <1> HIDE DEF FL, FC, N
  <1>7. \A i \in 0..N : Ends(L)[i] = 4 * i
    BY <1>3, FourEach
  <1>8. Len(FL) = 4 * N
    BY <1>1, <1>3, <1>5, <1>7 DEF AreEnds, FL
  <1>9. \A i \in 0..N : EndOf(t, i) = 4 * N + Ends(C)[i] /\ Ends(C)[i] \in Nat
    BY <1>4, <1>5 DEF EndOf, C, N, AreEnds
  <1>10. /\ \A i \in 0..N : EndOf(t, i) \in Nat
         /\ EndOf(t, 0) = 4 * N /\ EndOf(t, N) = Len(data)
    <2>1. Ends(C)[0] = 0 /\ Ends(C)[N] = Len(FC)
      BY <1>4, <1>5 DEF AreEnds, FC
    <2>2. 0 \in 0..N /\ N \in 0..N
      BY <1>1
    <2>3. EndOf(t, 0) = 4 * N + 0 /\ EndOf(t, N) = 4 * N + Len(FC)
      BY <1>9, <2>1, <2>2
    <2>4. 4 * N + 0 = 4 * N /\ \A m \in Nat : 4 * N + m \in Nat
      BY <1>1
    <2>5. \A i \in 0..N : EndOf(t, i) \in Nat
      BY <1>9, <2>4
    <2> QED
      BY <1>6, <1>8, <2>3, <2>4, <2>5
  <1>11. ASSUME NEW i \in 1..N
         PROVE  /\ EndOf(t, i) = EndOf(t, i - 1) + Len(t[i]) + 1
                /\ StandsAt(U32(Len(t[i])), 4 * (i - 1), data)
                /\ StandsAt(t[i], EndOf(t, i - 1), data)
    <2>1. i - 1 \in 0..N /\ i \in 0..N
      BY <1>1
    <2>2. /\ Ends(C)[i] = Ends(C)[i - 1] + Len(C[i])
          /\ StandsAt(C[i], Ends(C)[i - 1], FC)
          /\ StandsAt(L[i], Ends(L)[i - 1], FL)
      BY <1>3, <1>4, <1>5 DEF AreEnds, FL, FC
    <2>3. EndOf(t, i) = EndOf(t, i - 1) + Len(t[i]) + 1
      <3>1. Len(C[i]) = Len(t[i]) + 1 /\ Len(t[i]) \in Nat
        BY <1>1, <1>4
      <3> QED
        <4>1. /\ EndOf(t, i) = 4 * N + Ends(C)[i] /\ Ends(C)[i - 1] \in Nat
              /\ EndOf(t, i - 1) = 4 * N + Ends(C)[i - 1]
              /\ Ends(C)[i] = Ends(C)[i - 1] + Len(C[i])
          BY <1>9, <2>1, <2>2
        <4> QED
          BY <1>1, <3>1, <4>1
    <2>4. StandsAt(U32(Len(t[i])), 4 * (i - 1), data)
      <3>1. StandsAt(L[i], 4 * (i - 1), FL) /\ 4 * (i - 1) \in Nat
        BY <1>7, <2>1, <2>2
      <3>2. Len(L[i]) \in Nat /\ Len(data) \in Nat /\ 0 + 4 * (i - 1) = 4 * (i - 1)
        BY <1>1, <1>3, <1>6
      <3> HIDE DEF data
      <3> DEFINE m == 4 * (i - 1)
      <3>3. StandsAt(L[i], m, FL) /\ m \in Nat /\ 0 + m = m
        BY <3>1, <3>2
      <3> HIDE DEF m
      <3>4. StandsAt(L[i], 0 + m, data)
        BY <1>6, <3>2, <3>3, StandsInside
      <3> QED
        BY <1>3, <3>3, <3>4 DEF m
    <2>5. StandsAt(t[i], EndOf(t, i - 1), data)
      <3>1. StandsAt(t[i], 0, C[i])
        <4>1. Len(t[i]) \in Nat /\ Len(C[i]) = Len(t[i]) + 1
          BY <1>1, <1>4
        <4>2. 0 + Len(t[i]) <= Len(C[i])
          BY <4>1
        <4>3. \A j \in 1..Len(t[i]) : C[i][j] = t[i][j] /\ 0 + j = j
          BY <1>1, <1>4
        <4> QED
          BY <4>2, <4>3 DEF StandsAt
      <3>2. /\ Len(t[i]) \in Nat /\ Len(C[i]) \in Nat /\ Len(data) \in Nat
            /\ Ends(C)[i - 1] \in Nat /\ Len(FL) \in Nat
            /\ Len(FL) + (Ends(C)[i - 1] + 0) = EndOf(t, i - 1)
            /\ Ends(C)[i - 1] + 0 \in Nat
        BY SMTT(30), <1>1, <1>4, <1>6, <1>8, <1>9, <2>1
      <3> HIDE DEF data
      <3>3. StandsAt(t[i], Ends(C)[i - 1] + 0, FC)
        BY <1>6, <2>2, <3>1, <3>2, StandsInside
      <3>4. StandsAt(t[i], Len(FL) + (Ends(C)[i - 1] + 0), data)
        BY <1>6, <3>2, <3>3, StandsInside
      <3> QED
        BY <3>2, <3>4
    <2> QED
      BY <2>3, <2>4, <2>5
  <1> HIDE DEF data
  <1> QED
    BY <1>1, <1>2, <1>6, <1>10, <1>11 DEF N

(* Offset is what its equations determine.                                 *)
LEMMA OffsetIs ==
  ASSUME NEW size, NEW data, NEW n \in Nat, NEW h,
         h[0] = 4 * size,
         \A i \in 1..n : h[i] = h[i - 1] + Length(data, i) + 1
  PROVE  Offset(size, data, n) = h[n]
  <1> DEFINE Step(f, i) == IF i = 0 THEN 4 * size ELSE f[i - 1] + Length(data, i) + 1
             Adds(f) == f = [i \in 0..n |-> Step(f, i)]
             end == CHOOSE f : Adds(f)
             g == [i \in 0..n |-> h[i]]
  <1>1. Offset(size, data, n) = end[n]
    BY DEF Offset
  <1>2. Adds(g)
    <2>1. ASSUME NEW i \in 0..n
          PROVE  h[i] = Step(g, i)
      <3>1. CASE i = 0
        BY <3>1
      <3>2. CASE i # 0
        <4>1. i \in 1..n /\ i - 1 \in 0..n
          BY <3>2
        <4>2. g[i - 1] = h[i - 1]
          BY <4>1
        <4> QED
          BY <3>2, <4>1, <4>2
      <3> QED
        BY <3>1, <3>2
    <2> HIDE DEF Step
    <2> QED
      BY <2>1
  <1>3. Adds(end)
    <2> HIDE DEF Adds
    <2> QED
      BY <1>2
  <1> HIDE DEF end
  <1>4. \A i \in 0..n : end[i] = Step(end, i)
    <2> HIDE DEF Step
    <2> QED
      BY <1>3
  <1> DEFINE P == {i \in Nat : i <= n => end[i] = h[i]}
  <1>5. 0 \in P
    BY <1>4
  <1>6. ASSUME NEW i \in P
        PROVE  i + 1 \in P
    <2>1. i \in Nat /\ i + 1 \in Nat /\ (i + 1) - 1 = i /\ i + 1 # 0
      OBVIOUS
    <2> SUFFICES ASSUME i + 1 <= n
                 PROVE  end[i + 1] = h[i + 1]
      BY <2>1
    <2>2. i + 1 \in 1..n /\ i + 1 \in 0..n /\ end[i] = h[i]
      BY <2>1
    <2>3. end[i + 1] = end[(i + 1) - 1] + Length(data, i + 1) + 1
      BY <1>4, <2>1, <2>2
    <2>4. h[i + 1] = h[(i + 1) - 1] + Length(data, i + 1) + 1
      BY <2>2
    <2> QED
      BY <2>1, <2>2, <2>3, <2>4
  <1>7. P = Nat
    <2>1. P \in SUBSET Nat
      OBVIOUS
    <2> HIDE DEF P
    <2> QED
      BY <1>5, <1>6, <2>1, SetInduction
  <1>8. n \in P
    <2> HIDE DEF P
    <2> QED
      BY <1>7
  <1> QED
    BY <1>1, <1>8

(* Where the lengths are those of texts, so are the offsets.               *)
LEMMA OffsetOfTexts ==
  ASSUME NEW t, AreTexts(t), NEW data \in Seq(Byte),
         \A i \in 1..Len(t) : StandsAt(U32(Len(t[i])), 4 * (i - 1), data)
  PROVE  /\ \A i \in 1..Len(t) : Length(data, i) = Len(t[i])
         /\ \A i \in 0..Len(t) : Offset(Len(t), data, i) = EndOf(t, i)
  <1>1. /\ Len(t) \in Nat /\ Len(data) \in Nat /\ EndOf(t, 0) = 4 * Len(t)
        /\ \A i \in 1..Len(t) : EndOf(t, i) = EndOf(t, i - 1) + Len(t[i]) + 1
    BY TextsInArray, LenProperties
  <1>2. ASSUME NEW i \in 1..Len(t)
        PROVE  Length(data, i) = Len(t[i])
    <2> DEFINE m == 4 * (i - 1)
               k == 4 * i
    <2>1. m \in Nat /\ k \in Nat /\ m + 4 <= k /\ m + 1 = 4 * i - 3 /\ m + 4 = k
      BY <1>1
    <2>2. IsU32(Len(t[i])) /\ Len(U32(Len(t[i]))) = 4
      BY NumberOfBytes DEF AreTexts
    <2>3. StandsAt(U32(Len(t[i])), m, data)
      OBVIOUS
    <2> HIDE DEF m, k
    <2>4. k <= Len(data)
      BY <2>1, <2>2, <2>3 DEF StandsAt
    <2>5. Number(SubSeq(data, m + 1, k)) = Len(t[i])
      BY <2>1, <2>2, <2>3, <2>4, NumberInFile
    <2> QED
      BY <2>1, <2>5 DEF Length, k
  <1>3. ASSUME NEW i \in 0..Len(t)
        PROVE  Offset(Len(t), data, i) = EndOf(t, i)
    <2> DEFINE h == [j \in 0..i |-> EndOf(t, j)]
    <2>1. i \in Nat /\ \A j \in 0..i : h[j] = EndOf(t, j)
      OBVIOUS
    <2> HIDE DEF h
    <2>2. h[0] = 4 * Len(t)
      BY <1>1, <2>1
    <2>3. ASSUME NEW j \in 1..i
          PROVE  h[j] = h[j - 1] + Length(data, j) + 1
      <3>1. j \in 1..Len(t) /\ j \in 0..i /\ j - 1 \in 0..i
        BY <1>1
      <3> QED
        BY <1>1, <1>2, <2>1, <3>1
    <2>4. Offset(Len(t), data, i) = h[i]
      BY <2>1, <2>2, <2>3, OffsetIs
    <2> QED
      BY <2>1, <2>4
  <1> QED
    BY <1>2, <1>3

(* What AttrString puts together is what GetString finds, and all of it is *)
(* written.                                                                *)
LEMMA TextsAreStored ==
  ASSUME NEW t, AreTexts(t)
  PROVE  /\ StoredTexts(AttrString(t)) = t
         /\ StringsIn(AttrString(t)) = <<Len(t)>> \o AttrString(t).data
  <1> DEFINE a == AttrString(t)
             d == a.data
  <1>1. /\ Len(t) \in Nat /\ d \in Seq(Byte) /\ a.size = Len(t)
        /\ \A i \in 0..Len(t) : EndOf(t, i) \in Nat
        /\ EndOf(t, Len(t)) = Len(d)
        /\ \A i \in 1..Len(t) :
             /\ StandsAt(U32(Len(t[i])), 4 * (i - 1), d)
             /\ StandsAt(t[i], EndOf(t, i - 1), d)
    BY TextsInArray
  <1> HIDE DEF a
  <1>2. /\ \A i \in 1..Len(t) : Length(d, i) = Len(t[i])
        /\ \A i \in 0..Len(t) : Offset(Len(t), d, i) = EndOf(t, i)
    <2> HIDE DEF d
    <2> QED
      BY <1>1, OffsetOfTexts
  <1>3. ASSUME NEW i \in 1..Len(t)
        PROVE  GetString(a, i) = t[i]
    <2>1. i - 1 \in 0..Len(t) /\ t[i] \in Seq(Byte)
      BY <1>1, ElementOfSeq DEF AreTexts
    <2>2. GetString(a, i) = SubSeq(d, EndOf(t, i - 1) + 1, EndOf(t, i - 1) + Len(t[i]))
      BY <1>1, <1>2, <2>1 DEF GetString
    <2> HIDE DEF d
    <2>3. SubSeq(d, EndOf(t, i - 1) + 1, EndOf(t, i - 1) + Len(t[i])) = t[i]
      BY <1>1, <2>1, StandingPart
    <2> QED
      BY <2>2, <2>3
  <1>4. StoredTexts(a) = t
    <2>1. t = [i \in 1..Len(t) |-> t[i]]
      BY DEF AreTexts
    <2>2. StoredTexts(a) = [i \in 1..Len(t) |-> t[i]]
      BY <1>1, <1>3 DEF StoredTexts
    <2> QED
      BY <2>1, <2>2
  <1>5. StringsIn(a) = <<Len(t)>> \o d
    <2>1. Offset(a.size, d, a.size) = Len(d) /\ Len(d) \in Nat
      <3>1. Len(t) \in 0..Len(t)
        BY <1>1
      <3> QED
        BY <1>1, <1>2, <3>1, LenProperties
    <2>2. SubSeq(d, 1, Len(d)) = d
      <3> HIDE DEF d
      <3> QED
        BY <1>1, WholePart
    <2> QED
      BY <1>1, <2>1, <2>2 DEF StringsIn
  <1> QED
    BY <1>4, <1>5 DEF a

-----------------------------------------------------------------------------
(* What the reader finds behind the bytes it has read.                     *)
LEMMA BehindStands ==
  ASSUME NEW W, IsBeginning(bytes, W), at \in Nat, NEW n \in Nat, NEW j \in Nat,
         NEW part \in Seq(Byte), StandsAt(part, at + n + j, W),
         at + n + j + Len(part) <= Len(bytes)
  PROVE  /\ Behind(n) \in Seq(Byte)
         /\ StandsAt(part, j, Behind(n))
  <1> DEFINE m == at + n
             k == Len(bytes)
  <1>1. m \in Nat /\ k \in Nat /\ Len(part) \in Nat /\ m + j \in Nat
    BY LenProperties DEF IsBeginning
  <1>2. bytes \in Seq(Byte) /\ k <= Len(bytes) /\ m <= k
    BY <1>1 DEF IsBeginning
  <1>3. StandsAt(part, m + j, bytes)
    <2>1. StandsAt(part, m + j, W) /\ m + j + Len(part) <= Len(bytes)
      OBVIOUS
    <2> HIDE DEF m
    <2> QED
      BY <1>1, <2>1, BeginningStands
  <1>4. m + j + Len(part) <= k
    OBVIOUS
  <1>5. Behind(n) = SubSeq(bytes, m + 1, k)
    BY DEF Behind
  <1> HIDE DEF m, k
  <1> QED
    BY <1>1, <1>2, <1>3, <1>4, <1>5, PartOf, PartStands

(* A byte that the reader has not read yet.                                *)
LEMMA ByteBehind ==
  ASSUME NEW W, IsBeginning(bytes, W), at \in Nat, NEW n \in Nat, NEW j \in Nat \ {0},
         at + n + j <= Len(bytes)
  PROVE  Behind(n)[j] = W[at + n + j]
  <1> DEFINE m == at + n
             k == Len(bytes)
  <1>1. /\ m \in Nat /\ k \in Nat /\ bytes \in Seq(Byte) /\ k <= Len(bytes) /\ m <= k
        /\ j \in 1..(k - m) /\ m + j \in 1..Len(bytes)
    BY LenProperties DEF IsBeginning
  <1>2. Behind(n) = SubSeq(bytes, m + 1, k)
    BY DEF Behind
  <1>3. bytes[m + j] = W[m + j]
    BY <1>1 DEF IsBeginning
  <1>4. m + j = at + n + j
    OBVIOUS
  <1> HIDE DEF m, k
  <1>5. SubSeq(bytes, m + 1, k)[j] = bytes[m + j]
    <2>0. Shifted(bytes, m, k)
      BY <1>1, ShiftedPart
    <2>1. \A i \in 1..(k - m) : SubSeq(bytes, m + 1, k)[i] = bytes[m + i]
      BY <2>0 DEF Shifted
    <2> QED
      BY <1>1, <2>1
  <1> QED
    BY <1>2, <1>3, <1>4, <1>5

(* A number that the reader has not read yet.                              *)
LEMMA NumberBehind ==
  ASSUME NEW W, IsBeginning(bytes, W), at \in Nat, NEW n \in Nat, NEW v, IsU32(v),
         StandsAt(U32(v), at + n, W), at + n + 4 <= Len(bytes)
  PROVE  Number(Behind(n)) = v
  <1>1. U32(v) \in Seq(Byte) /\ Len(U32(v)) = 4
    BY NumberOfBytes
  <1> DEFINE z == 0
  <1>2. z \in Nat /\ at + n + z = at + n
    OBVIOUS
  <1>3. StandsAt(U32(v), at + n + z, W) /\ at + n + z + Len(U32(v)) <= Len(bytes)
    BY <1>1, <1>2
  <1> HIDE DEF z
  <1>4. StandsAt(U32(v), z, Behind(n))
    BY <1>1, <1>2, <1>3, BehindStands
  <1> QED
    BY <1>4, NumberOfBytes DEF z

(* Texts behind their size are read back as they were stored.              *)
LEMMA StringsAreRead ==
  ASSUME NEW W, IsBeginning(bytes, W), at \in Nat, NEW n \in Nat, NEW t, AreTexts(t),
         StandsAt(StringsIn(AttrString(t)), at + n, W)
  PROVE  /\ Len(StringsIn(AttrString(t))) = 1 + Len(AttrString(t).data)
         /\ Len(AttrString(t).data) \in Nat
         /\ HasStrings(n) <=> at + n + Len(StringsIn(AttrString(t))) <= Len(bytes)
         /\ HasStrings(n) => StringAttr(n) = AttrString(t)
  <1> DEFINE d == AttrString(t).data
             N == Len(t)
             size == <<N>>
             m == at + n
             B == Behind(n + 1)
  <1>1. /\ N \in Byte /\ N \in Nat /\ d \in Seq(Byte) /\ Len(d) \in Nat
        /\ AttrString(t) = [size |-> N, data |-> d]
        /\ EndOf(t, N) = Len(d)
        /\ \A i \in 1..N : StandsAt(U32(Len(t[i])), 4 * (i - 1), d)
    BY TextsInArray, LenProperties DEF AreTexts
  <1>2. m \in Nat /\ m + 1 \in Nat /\ Len(bytes) \in Nat /\ Len(W) \in Nat
    BY LenProperties DEF IsBeginning
  <1>3. size \in Seq(Byte) /\ Len(size) = 1 /\ size[1] = N
    BY <1>1
  <1> DEFINE whole == size \o d
  <1>4. StringsIn(AttrString(t)) = whole
    BY TextsAreStored
  <1> HIDE DEF d, size, N
  <1>5. /\ whole \in Seq(Byte) /\ Len(whole) = 1 + Len(d)
        /\ StandsAt(size, 0, whole) /\ StandsAt(d, 1, whole)
    <2>1. /\ whole \in Seq(Byte) /\ Len(whole) = Len(size) + Len(d)
          /\ StandsAt(size, 0, whole) /\ StandsAt(d, Len(size), whole)
      BY <1>1, <1>3, ConcatStands
    <2> QED
      BY <1>3, <2>1
  <1>6. Len(whole) \in Nat /\ StandsAt(whole, m, W)
    <2>1. StandsAt(whole, at + n, W)
      BY <1>4
    <2> HIDE DEF whole
    <2> QED
      BY <1>1, <1>5, <2>1
  <1> HIDE DEF m, whole
  <1>7. StandsAt(size, m, W) /\ StandsAt(d, m + 1, W)
    <2>1. StandsAt(size, m + 0, W) /\ StandsAt(d, m + 1, W)
      BY <1>1, <1>2, <1>3, <1>5, <1>6, StandsInside
    <2>2. m + 0 = m
      BY <1>2
    <2> QED
      BY <2>1, <2>2
  <1>8. W[m + 1] = N
    BY <1>3, <1>7 DEF StandsAt
  <1>9. ASSUME m + 1 <= Len(bytes)
        PROVE  Behind(n)[1] = N
    <2>1. at + n + 1 <= Len(bytes) /\ 1 \in Nat \ {0} /\ at + n + 1 = m + 1
      BY <1>9 DEF m
    <2>2. Behind(n)[1] = W[at + n + 1]
      BY <2>1, ByteBehind
    <2> QED
      BY <1>8, <2>1, <2>2
  <1>10. at + (n + 1) = m + 1 /\ n + 1 \in Nat /\ \A x \in Nat : at + (n + 1) + x = m + 1 + x
    BY DEF m
  <1>11. ASSUME m + 1 + 4 * N <= Len(bytes)
         PROVE  Offset(N, B, N) = Len(d) /\ B \in Seq(Byte)
    <2>1. ASSUME NEW i \in 1..N
          PROVE  B \in Seq(Byte) /\ StandsAt(U32(Len(t[i])), 4 * (i - 1), B)
      <3> DEFINE u == U32(Len(t[i]))
                 j == 4 * (i - 1)
      <3>1. IsU32(Len(t[i])) /\ u \in Seq(Byte) /\ Len(u) = 4
        BY NumberOfBytes DEF AreTexts, N
      <3>2. StandsAt(u, j, d)
        BY <1>1
      <3>3. j \in Nat /\ j + 4 <= 4 * N
        BY <1>1
      <3> HIDE DEF u, j
      <3>4. StandsAt(u, m + 1 + j, W)
        <4>1. Len(u) \in Nat
          BY <3>1
        <4> QED
          BY <1>1, <1>2, <1>7, <3>2, <3>3, <4>1, StandsInside
      <3>5. StandsAt(u, at + (n + 1) + j, W) /\ at + (n + 1) + j + Len(u) <= Len(bytes)
        <4>1. at + (n + 1) + j = m + 1 + j
          BY <1>10, <3>3
        <4>2. m + 1 + j + Len(u) <= Len(bytes)
          BY <1>1, <1>2, <1>11, <3>1, <3>3
        <4> QED
          BY <3>4, <4>1, <4>2
      <3>6. B \in Seq(Byte) /\ StandsAt(u, j, B)
        BY <1>10, <3>1, <3>3, <3>5, BehindStands
      <3> QED
        BY <3>6 DEF u, j
    <2>2. B \in Seq(Byte)
      <3> DEFINE k == Len(bytes)
      <3>1. m + 1 <= k /\ k <= Len(bytes) /\ bytes \in Seq(Byte) /\ k \in Nat
        BY <1>1, <1>2, <1>11 DEF IsBeginning
      <3>2. B = SubSeq(bytes, m + 1 + 1, k)
        BY <1>10 DEF Behind
      <3> HIDE DEF k, B
      <3> QED
        BY <1>2, <3>1, <3>2, PartOf
    <2> HIDE DEF B
    <2>3. \A i \in 1..Len(t) : StandsAt(U32(Len(t[i])), 4 * (i - 1), B)
      BY <2>1 DEF N
    <2>4. \A i \in 0..Len(t) : Offset(Len(t), B, i) = EndOf(t, i)
      BY <2>2, <2>3, OffsetOfTexts
    <2>5. N \in 0..N
      BY <1>1
    <2>6. Offset(N, B, N) = EndOf(t, N)
      BY <2>4, <2>5 DEF N
    <2> QED
      BY <1>1, <2>2, <2>6
  <1>12. 4 * N <= Len(d)
    <2>1. EndOf(t, N) = 4 * N + Ends(CharsOf(t))[N] /\ Ends(CharsOf(t))[N] \in Nat
      <3>1. CharsOf(t) \in Seq(Seq(Byte)) /\ Len(CharsOf(t)) = N
        <4>1. Junk \in Byte
          BY FormatAssumption
        <4>2. \A i \in 1..N : Append(t[i], Junk) \in Seq(Byte)
          BY <4>1, ElementOfSeq, AppendProperties DEF AreTexts, N
        <4> QED
          BY <1>1, <4>2 DEF CharsOf, N
      <3>2. AreEnds(Ends(CharsOf(t)), CharsOf(t))
        BY <3>1, FlattenEnds
      <3>3. N \in 0..N
        BY <1>1
      <3> QED
        BY <3>1, <3>2, <3>3 DEF AreEnds, EndOf, N
    <2> QED
      BY <1>1, <2>1
  <1>13. HasStrings(n) <=>
           /\ m + 1 <= Len(bytes)
           /\ m + 1 + 4 * Behind(n)[1] <= Len(bytes)
           /\ m + 1 + Offset(Behind(n)[1], B, Behind(n)[1]) <= Len(bytes)
    BY DEF HasStrings, m
  <1>14. ASSUME HasStrings(n)
         PROVE  m + 1 + Len(d) <= Len(bytes) /\ Offset(N, B, N) = Len(d)
    <2>1. Behind(n)[1] = N
      BY <1>9, <1>13, <1>14
    <2>2. m + 1 + 4 * N <= Len(bytes) /\ m + 1 + Offset(N, B, N) <= Len(bytes)
      BY <1>13, <1>14, <2>1
    <2> QED
      BY <1>11, <2>2
  <1>15. ASSUME m + 1 + Len(d) <= Len(bytes)
         PROVE  HasStrings(n)
    <2>1. m + 1 + 4 * N <= Len(bytes) /\ m + 1 <= Len(bytes)
      BY <1>1, <1>2, <1>12, <1>15
    <2>2. Behind(n)[1] = N
      BY <1>9, <2>1
    <2>3. Offset(N, B, N) = Len(d)
      BY <1>11, <2>1
    <2> QED
      BY <1>13, <1>15, <2>1, <2>2, <2>3
  <1>16. ASSUME HasStrings(n)
         PROVE  StringAttr(n) = AttrString(t)
    <2>1. Behind(n)[1] = N
      BY <1>9, <1>13, <1>16
    <2>2. m + 1 + Len(d) <= Len(bytes) /\ Offset(N, B, N) = Len(d)
      BY <1>14, <1>16
    <2>3. StringAttr(n) = [size |-> N, data |-> SubSeq(B, 1, Len(d))]
      BY <2>1, <2>2 DEF StringAttr
    <2> DEFINE z == 0
    <2>4. /\ z \in Nat /\ z + 1 = 1 /\ z + Len(d) = Len(d)
          /\ at + (n + 1) + z = m + 1
      BY <1>1, <1>10
    <2> HIDE DEF z, B
    <2>5. StandsAt(d, at + (n + 1) + z, W) /\ at + (n + 1) + z + Len(d) <= Len(bytes)
      BY <1>7, <2>2, <2>4
    <2>6. B \in Seq(Byte) /\ StandsAt(d, z, B)
      BY <1>1, <1>10, <2>4, <2>5, BehindStands DEF B
    <2>7. SubSeq(B, z + 1, z + Len(d)) = d
      BY <1>1, <2>4, <2>6, StandingPart
    <2> QED
      BY <1>1, <2>3, <2>4, <2>7
  <1>17. m + Len(whole) = m + 1 + Len(d)
    BY <1>1, <1>2, <1>5
  <1>18. Len(StringsIn(AttrString(t))) = 1 + Len(d) /\ m + Len(StringsIn(AttrString(t))) = m + 1 + Len(d)
    BY <1>4, <1>5, <1>17
  <1> QED
    BY <1>1, <1>14, <1>15, <1>16, <1>18 DEF m, d

-----------------------------------------------------------------------------
(* The inverted index in bytes.                                            *)
IsDoc(doc) ==
  /\ doc = [local_id |-> doc.local_id, hits |-> doc.hits]
  /\ IsU32(doc.local_id)
  /\ doc.hits \in Seq(Byte) /\ Len(doc.hits) \in Byte

(* A document's bytes, and what searchd finds in them.                     *)
LEMMA InvertInBytes ==
  ASSUME NEW doc, IsDoc(doc)
  PROVE  /\ InvertBytes(doc) \in Seq(Byte) /\ Len(InvertBytes(doc)) = 8 + Len(doc.hits)
         /\ InvertBytes(doc)[5] = Len(doc.hits)
         /\ Posting(InvertBytes(doc)) = doc
  <1> DEFINE u == U32(doc.local_id)
             hits == doc.hits
             L == Len(hits)
             size == <<L>>
             rest == <<Junk, Junk, Junk>>
             w == u \o size
             x == w \o hits
             I == x \o rest
  <1>1. u \in Seq(Byte) /\ Len(u) = 4 /\ L \in Byte /\ L \in Nat /\ hits \in Seq(Byte)
    BY NumberOfBytes DEF IsDoc, Byte
  <1>2. /\ size \in Seq(Byte) /\ Len(size) = 1 /\ size[1] = L
        /\ rest \in Seq(Byte) /\ Len(rest) = 3
    BY <1>1, FormatAssumption
  <1>3. DocInvertOf(doc) = I
    BY DEF DocInvertOf
  <1> HIDE DEF u, hits, size, rest
  <1>4. w \in Seq(Byte) /\ Len(w) = 5 /\ StandsAt(u, 0, w) /\ StandsAt(size, 4, w)
    <2>1. /\ w \in Seq(Byte) /\ Len(w) = Len(u) + Len(size)
          /\ StandsAt(u, 0, w) /\ StandsAt(size, Len(u), w)
      BY <1>1, <1>2, ConcatStands
    <2> QED
      BY <1>1, <1>2, <2>1
  <1> HIDE DEF w
  <1>5. /\ x \in Seq(Byte) /\ Len(x) = 5 + L
        /\ StandsAt(u, 0, x) /\ StandsAt(size, 4, x) /\ StandsAt(hits, 5, x)
    <2>1. /\ x \in Seq(Byte) /\ Len(x) = Len(w) + Len(hits) /\ StandsAt(hits, Len(w), x)
      BY <1>1, <1>4, ConcatStands
    <2>2. StandsAt(u, 0, x) /\ StandsAt(size, 4, x)
      BY <1>1, <1>2, <1>4, StandsBefore
    <2> QED
      BY <1>4, <2>1, <2>2
  <1> HIDE DEF x
  <1>6. /\ I \in Seq(Byte) /\ Len(I) = 8 + L
        /\ StandsAt(u, 0, I) /\ StandsAt(size, 4, I) /\ StandsAt(hits, 5, I)
    <2>1. I \in Seq(Byte) /\ Len(I) = Len(x) + Len(rest)
      BY <1>2, <1>5, ConcatStands
    <2>2. StandsAt(u, 0, I) /\ StandsAt(size, 4, I) /\ StandsAt(hits, 5, I)
      BY <1>1, <1>2, <1>5, StandsBefore
    <2>3. Len(I) = 8 + L
      BY <1>1, <1>2, <1>5, <2>1
    <2> QED
      BY <2>1, <2>2, <2>3
  <1> HIDE DEF I
  <1>7. I[5] = L
    <2>1. I[4 + 1] = size[1]
      BY <1>2, <1>6 DEF StandsAt
    <2> QED
      BY <1>2, <2>1
  <1>8. InvertBytes(doc) = I
    <2>1. InvertBytes(doc) = SubSeq(I, 1, 8 + L)
      BY <1>3, <1>7 DEF InvertBytes, SizeofDocInvert, HitsSize, HitsOffset
    <2> QED
      BY <1>6, <2>1, WholePart
  <1>9. Number(I) = doc.local_id
    BY <1>6, NumberOfBytes DEF IsDoc, u
  <1>10. SubSeq(I, 6, 5 + L) = hits
    <2>1. SubSeq(I, 5 + 1, 5 + Len(hits)) = hits
      BY <1>1, <1>6, StandingPart
    <2> QED
      BY <2>1
  <1>11. Posting(I) = doc
    <2>1. Posting(I) = [local_id |-> Number(I), hits |-> SubSeq(I, 6, 5 + L)]
      BY <1>7 DEF Posting, HitsSize, HitsOffset
    <2> QED
      BY <1>9, <1>10, <2>1 DEF IsDoc, hits
  <1> HIDE DEF L
  <1> QED
    BY SMTT(30), <1>6, <1>7, <1>8, <1>11 DEF L, hits

HeadLength(t) == 16 + Len(t.str)

(* A token's head, and its documents one behind the other.                 *)
LEMMA TokenInBytes ==
  ASSUME NEW t, IsToken(t)
  PROVE  /\ TokenBytes(t) \in Seq(Byte)
         /\ Len(t.str) \in Nat /\ Len(t.docs) \in Nat \ {0}
         /\ HeadLength(t) \in Nat
         /\ Ends(InvertsOf(t)) \in [0..Len(t.docs) -> Nat]
         /\ Ends(InvertsOf(t))[0] = 0
         /\ Len(TokenBytes(t)) = HeadLength(t) + Ends(InvertsOf(t))[Len(t.docs)]
         /\ StandsAt(U32(Len(t.str)), 8, TokenBytes(t))
         /\ StandsAt(t.str, 12, TokenBytes(t))
         /\ StandsAt(U32(Len(t.docs)), 12 + Len(t.str), TokenBytes(t))
         /\ \A j \in 1..Len(t.docs) :
              /\ IsDoc(t.docs[j])
              /\ Ends(InvertsOf(t))[j] =
                   Ends(InvertsOf(t))[j - 1] + Len(InvertBytes(t.docs[j]))
              /\ StandsAt(InvertBytes(t.docs[j]),
                          HeadLength(t) + Ends(InvertsOf(t))[j - 1], TokenBytes(t))
  <1> DEFINE L == Len(t.str)
             N == Len(t.docs)
             id == Id(t.str)
             u == U32(L)
             str == t.str
             c == U32(N)
             D == InvertsOf(t)
             F == FlattenSeq(D)
             w == id \o u
             x == w \o str
             y == x \o c
             T == y \o F
  <1>1. /\ id \in Seq(Byte) /\ Len(id) = 8 /\ str \in Seq(Byte) /\ L \in Nat
        /\ IsU32(L) /\ IsU32(N) /\ N \in Nat /\ N # 0
        /\ \A j \in 1..N : IsDoc(t.docs[j])
    BY LenProperties, EmptySeq DEF IsToken, IsDoc
  <1>2. u \in Seq(Byte) /\ Len(u) = 4 /\ c \in Seq(Byte) /\ Len(c) = 4
    BY <1>1, NumberOfBytes
  <1>3. TokenBytes(t) = T
    BY DEF TokenBytes
  <1>4. /\ D \in Seq(Seq(Byte)) /\ Len(D) = N
        /\ \A j \in 1..N : D[j] = InvertBytes(t.docs[j]) /\ D[j] \in Seq(Byte)
    <2>1. \A j \in 1..N : InvertBytes(t.docs[j]) \in Seq(Byte)
      BY <1>1, InvertInBytes
    <2> HIDE DEF N
    <2>2. D = [j \in 1..N |-> InvertBytes(t.docs[j])]
      BY DEF InvertsOf, N
    <2> HIDE DEF D
    <2>3. D \in [1..N -> Seq(Byte)] /\ \A j \in 1..N : D[j] = InvertBytes(t.docs[j])
      BY <2>1, <2>2
    <2>4. N \in Nat
      BY <1>1
    <2>5. D \in Seq(Seq(Byte)) /\ Len(D) = N
      BY <2>3, <2>4
    <2> QED
      BY <2>1, <2>3, <2>5
  <1> HIDE DEF id, u, str, c, D, L, N
  <1>5. F \in Seq(Byte) /\ AreEnds(Ends(D), D) /\ Len(F) \in Nat
    BY <1>4, FlattenEnds, LenProperties
  <1> HIDE DEF F
  <1>6. w \in Seq(Byte) /\ Len(w) = 12 /\ StandsAt(u, 8, w)
    <2>1. w \in Seq(Byte) /\ Len(w) = Len(id) + Len(u) /\ StandsAt(u, Len(id), w)
      BY <1>1, <1>2, ConcatStands
    <2> QED
      BY <1>1, <1>2, <2>1
  <1> HIDE DEF w
  <1>7. Len(str) = L
    BY DEF str, L
  <1>8. x \in Seq(Byte) /\ Len(x) = 12 + L /\ StandsAt(u, 8, x) /\ StandsAt(str, 12, x)
    <2>1. x \in Seq(Byte) /\ Len(x) = Len(w) + Len(str) /\ StandsAt(str, Len(w), x)
      BY <1>1, <1>6, ConcatStands
    <2>2. StandsAt(u, 8, x)
      BY <1>1, <1>2, <1>6, StandsBefore
    <2> QED
      BY <1>6, <1>7, <2>1, <2>2
  <1> HIDE DEF x
  <1>9. /\ y \in Seq(Byte) /\ Len(y) = 16 + L
        /\ StandsAt(u, 8, y) /\ StandsAt(str, 12, y) /\ StandsAt(c, 12 + L, y)
    <2>1. y \in Seq(Byte) /\ Len(y) = Len(x) + Len(c) /\ StandsAt(c, Len(x), y)
      BY <1>2, <1>8, ConcatStands
    <2>2. StandsAt(u, 8, y) /\ StandsAt(str, 12, y)
      BY <1>1, <1>2, <1>8, StandsBefore
    <2>3. Len(y) = 16 + L
      BY <1>1, <1>2, <1>8, <2>1
    <2> QED
      BY <1>8, <2>1, <2>2, <2>3
  <1> HIDE DEF y
  <1>10. /\ T \in Seq(Byte) /\ Len(T) = 16 + L + Len(F)
         /\ StandsAt(u, 8, T) /\ StandsAt(str, 12, T) /\ StandsAt(c, 12 + L, T)
         /\ StandsAt(F, 16 + L, T)
    <2>1. T \in Seq(Byte) /\ Len(T) = Len(y) + Len(F) /\ StandsAt(F, Len(y), T)
      BY <1>5, <1>9, ConcatStands
    <2>2. 12 + L \in Nat
      BY <1>1
    <2>3. StandsAt(u, 8, T) /\ StandsAt(str, 12, T) /\ StandsAt(c, 12 + L, T)
      BY <1>1, <1>2, <1>5, <1>9, <2>2, StandsBefore
    <2> QED
      BY <1>9, <2>1, <2>3
  <1> HIDE DEF T
  <1>11. /\ Ends(D) \in [0..N -> Nat] /\ Ends(D)[0] = 0 /\ Ends(D)[N] = Len(F)
         /\ \A j \in 1..N :
              /\ Ends(D)[j] = Ends(D)[j - 1] + Len(D[j])
              /\ StandsAt(D[j], Ends(D)[j - 1], F)
    BY <1>4, <1>5 DEF AreEnds, F
  <1>12. ASSUME NEW j \in 1..N
         PROVE  StandsAt(D[j], 16 + L + Ends(D)[j - 1], T)
    <2>1. /\ Ends(D)[j - 1] \in Nat /\ Len(D[j]) \in Nat /\ Len(T) \in Nat /\ 16 + L \in Nat
      <3>1. j - 1 \in 0..N
        BY <1>1
      <3> QED
        <4>1. Ends(D)[j - 1] \in Nat /\ 16 + L \in Nat
          BY <1>1, <1>11, <3>1
        <4>2. D[j] \in Seq(Byte) /\ T \in Seq(Byte)
          BY <1>4, <1>10
        <4> QED
          BY <4>1, <4>2, LenProperties
    <2> DEFINE h == 16 + L
    <2>2. h \in Nat /\ StandsAt(F, h, T)
      BY <1>10, <2>1
    <2> HIDE DEF h
    <2>3. StandsAt(D[j], h + Ends(D)[j - 1], T)
      BY <1>5, <1>11, <2>1, <2>2, StandsInside
    <2> QED
      BY <2>3 DEF h
  <1>13. HeadLength(t) = 16 + L /\ HeadLength(t) \in Nat
    BY <1>1 DEF HeadLength, L
  <1>14. \A j \in 1..N : D[j] = InvertBytes(t.docs[j])
    BY <1>4
  <1>15. ASSUME NEW j \in 1..N
         PROVE  /\ IsDoc(t.docs[j])
                /\ Ends(D)[j] = Ends(D)[j - 1] + Len(InvertBytes(t.docs[j]))
                /\ StandsAt(InvertBytes(t.docs[j]), HeadLength(t) + Ends(D)[j - 1], T)
    BY <1>1, <1>11, <1>12, <1>13, <1>14
  <1>16. Len(T) = HeadLength(t) + Ends(D)[N]
    BY <1>10, <1>11, <1>13
  <1> QED
    BY <1>1, <1>3, <1>10, <1>11, <1>13, <1>15, <1>16 DEF L, N, u, str, c, D

-----------------------------------------------------------------------------
(* Reading the inverted index.                                             *)
Tok(i)  == written[i]
Records == [i \in 1..Len(written) |-> TokenBytes(written[i])]

(* The tokens one behind the other are the file.                           *)
LEMMA IndexInBytes ==
  ASSUME written \in Inverters
  PROVE  /\ Len(written) \in Nat
         /\ \A i \in 1..Len(written) :
              /\ IsToken(Tok(i))
              /\ Ends(Records)[i] = Ends(Records)[i - 1] + Len(TokenBytes(Tok(i)))
              /\ StandsAt(TokenBytes(Tok(i)), Ends(Records)[i - 1], FileOfIndex(written))
         /\ \A i, j \in 1..Len(written) : Tok(i).str = Tok(j).str => i = j
         /\ FileOfIndex(written) \in Seq(Byte)
         /\ Ends(Records) \in [0..Len(written) -> Nat] /\ Ends(Records)[0] = 0
         /\ Ends(Records)[Len(written)] = Len(FileOfIndex(written))
  <1> DEFINE N == Len(written)
  <1>1. /\ N \in Nat /\ \A i \in 1..N : IsToken(written[i])
        /\ \A i \in 1..N : \A j \in 1..(i - 1) : written[j].str # written[i].str
    BY FormatAssumption, LenProperties
  <1>2. \A i \in 1..N : TokenBytes(written[i]) \in Seq(Byte)
    BY <1>1, TokenInBytes
  <1>3. /\ Records \in Seq(Seq(Byte)) /\ Len(Records) = N
        /\ \A i \in 1..N : Records[i] = TokenBytes(written[i])
    <2>1. Records = [i \in 1..N |-> TokenBytes(written[i])]
      BY DEF Records
    <2> HIDE DEF N
    <2>2. Records \in [1..N -> Seq(Byte)] /\ \A i \in 1..N : Records[i] = TokenBytes(written[i])
      BY <1>2, <2>1
    <2> QED
      BY <1>1, <2>2
  <1>4. FileOfIndex(written) = FlattenSeq(Records)
    BY DEF FileOfIndex, Records
  <1>5. FlattenSeq(Records) \in Seq(Byte) /\ AreEnds(Ends(Records), Records)
    BY <1>3, FlattenEnds
  <1>6. \A i, j \in 1..N : written[i].str = written[j].str => i = j
    <2> SUFFICES ASSUME NEW i \in 1..N, NEW j \in 1..N, i # j
                 PROVE  written[i].str # written[j].str
      OBVIOUS
    <2>1. i \in 1..(j - 1) \/ j \in 1..(i - 1)
      BY <1>1
    <2> QED
      BY <1>1, <2>1
  <1>7. /\ Ends(Records) \in [0..N -> Nat] /\ Ends(Records)[0] = 0
        /\ Ends(Records)[N] = Len(FlattenSeq(Records))
        /\ \A i \in 1..N :
             /\ Ends(Records)[i] = Ends(Records)[i - 1] + Len(TokenBytes(written[i]))
             /\ StandsAt(TokenBytes(written[i]), Ends(Records)[i - 1], FlattenSeq(Records))
    BY <1>3, <1>5 DEF AreEnds
  <1> QED
    BY <1>1, <1>4, <1>5, <1>6, <1>7 DEF Tok

(* A part of a token's bytes is a part of the file.                        *)
LEMMA InToken ==
  ASSUME written \in Inverters, NEW i \in 1..Len(written), NEW p \in Seq(Byte),
         NEW n \in Nat, StandsAt(p, n, TokenBytes(Tok(i)))
  PROVE  StandsAt(p, Ends(Records)[i - 1] + n, FileOfIndex(written))
  <1>1. /\ Ends(Records)[i - 1] \in Nat /\ FileOfIndex(written) \in Seq(Byte)
        /\ IsToken(Tok(i))
        /\ StandsAt(TokenBytes(Tok(i)), Ends(Records)[i - 1], FileOfIndex(written))
    <2>1. i - 1 \in 0..Len(written)
      BY IndexInBytes
    <2> QED
      BY <2>1, IndexInBytes
  <1>2. TokenBytes(Tok(i)) \in Seq(Byte)
    BY <1>1, TokenInBytes
  <1>3. Len(p) \in Nat /\ Len(TokenBytes(Tok(i))) \in Nat /\ Len(FileOfIndex(written)) \in Nat
    BY <1>1, <1>2, LenProperties
  <1> QED
    BY <1>1, <1>3, StandsInside

(* At a token that is there, the reader finds its text and the number of   *)
(* its documents.                                                          *)
LEMMA TokenIsRead ==
  ASSUME written \in Inverters, IsBeginning(bytes, FileOfIndex(written)),
         NEW i \in 0..Len(written), at = Ends(Records)[i], at < Len(bytes)
  PROVE  /\ i + 1 \in 1..Len(written)
         /\ Len(Tok(i + 1).str) <= BUFF_SIZE /\ bytes = FileOfIndex(written) => HasToken
         /\ HasToken =>
              /\ SubSeq(bytes, at + 13, at + 12 + TokenLength) = Tok(i + 1).str
              /\ Number(Behind(TokenHead - 4)) = Len(Tok(i + 1).docs)
              /\ TokenHead = HeadLength(Tok(i + 1))
  <1> DEFINE W == FileOfIndex(written)
             N == Len(written)
             t == Tok(i + 1)
             L == Len(t.str)
  <1>1. /\ N \in Nat /\ W \in Seq(Byte) /\ Len(W) \in Nat
        /\ Len(bytes) \in Nat /\ Len(bytes) <= Len(W) /\ at \in Nat /\ bytes \in Seq(Byte)
    BY IndexInBytes, LenProperties DEF IsBeginning
  <1>2. i + 1 \in 1..N /\ (i + 1) - 1 = i
    <2>1. i # N
      BY <1>1, IndexInBytes
    <2> QED
      BY <1>1, <2>1
  <1>3. /\ IsToken(t) /\ Len(TokenBytes(t)) \in Nat
        /\ Ends(Records)[i + 1] = at + Len(TokenBytes(t))
        /\ StandsAt(TokenBytes(t), at, W)
    <2>1. /\ IsToken(t)
          /\ Ends(Records)[i + 1] = Ends(Records)[(i + 1) - 1] + Len(TokenBytes(t))
          /\ StandsAt(TokenBytes(t), Ends(Records)[(i + 1) - 1], W)
      BY <1>2, IndexInBytes
    <2>2. TokenBytes(t) \in Seq(Byte)
      BY <2>1, TokenInBytes
    <2> QED
      BY <1>2, <2>1, <2>2, LenProperties
  <1>4. /\ L \in Nat /\ Len(t.docs) \in Nat /\ HeadLength(t) = 16 + L
        /\ t.str \in Seq(Byte) /\ IsU32(L) /\ IsU32(Len(t.docs))
        /\ U32(L) \in Seq(Byte) /\ U32(Len(t.docs)) \in Seq(Byte)
        /\ Len(U32(Len(t.docs))) = 4
    BY <1>3, TokenInBytes, NumberOfBytes DEF HeadLength, IsToken
  <1>5. /\ StandsAt(U32(L), at + 8, W) /\ StandsAt(t.str, at + 12, W)
        /\ StandsAt(U32(Len(t.docs)), at + (12 + L), W)
    <2>1. /\ StandsAt(U32(L), 8, TokenBytes(t)) /\ StandsAt(t.str, 12, TokenBytes(t))
          /\ StandsAt(U32(Len(t.docs)), 12 + L, TokenBytes(t))
      BY <1>3, TokenInBytes
    <2>2. 12 + L \in Nat
      BY <1>4
    <2> DEFINE k == i + 1
               h == 12 + L
    <2>3. at = Ends(Records)[k - 1] /\ k \in 1..Len(written) /\ t = Tok(k) /\ h \in Nat
      BY <1>2, <2>2
    <2> HIDE DEF k, t, W, h
    <2>4. /\ StandsAt(U32(L), at + 8, FileOfIndex(written))
          /\ StandsAt(t.str, at + 12, FileOfIndex(written))
      BY <1>4, <2>1, <2>3, InToken
    <2>5. StandsAt(U32(Len(t.docs)), h, TokenBytes(t))
      BY <2>1 DEF h
    <2>6. StandsAt(U32(Len(t.docs)), at + h, FileOfIndex(written))
      BY <1>4, <2>3, <2>5, InToken
    <2> QED
      BY <2>4, <2>6 DEF W, h
  <1> HIDE DEF t, L, N
  <1>6. ASSUME at + 12 <= Len(bytes)
        PROVE  TokenLength = L /\ TokenHead = 16 + L
    <2>1. at + 8 + 4 <= Len(bytes)
      BY <1>1, <1>6
    <2>2. TokenLength = L
      <3> HIDE DEF W
      <3> QED
        BY <1>1, <1>4, <1>5, <2>1, NumberBehind DEF TokenLength, W
    <2> QED
      BY <1>4, <2>2 DEF TokenHead
  <1>7. ASSUME HasToken
        PROVE  /\ SubSeq(bytes, at + 13, at + 12 + TokenLength) = t.str
               /\ Number(Behind(TokenHead - 4)) = Len(t.docs)
               /\ TokenHead = HeadLength(t)
    <2>1. TokenLength = L /\ TokenHead = 16 + L /\ at + TokenHead <= Len(bytes)
      BY <1>6, <1>7 DEF HasToken
    <2>2. /\ TokenHead - 4 = 12 + L /\ 12 + L \in Nat /\ at + (12 + L) + 4 <= Len(bytes)
          /\ at + 12 + L <= Len(bytes) /\ at + 12 \in Nat
      <3>1. L \in Nat /\ at \in Nat /\ Len(bytes) \in Nat /\ at + TokenHead <= Len(bytes)
            /\ TokenHead = 16 + L
        BY <1>1, <1>4, <2>1
      <3>2. \A x, y, z \in Nat : x + (16 + y) <= z =>
              /\ (16 + y) - 4 = 12 + y /\ 12 + y \in Nat /\ x + (12 + y) + 4 <= z
              /\ x + 12 + y <= z /\ x + 12 \in Nat
        OBVIOUS
      <3> QED
        BY <3>1, <3>2
    <2>3. Number(Behind(12 + L)) = Len(t.docs)
      <3> DEFINE h == 12 + L
      <3>1. h \in Nat /\ StandsAt(U32(Len(t.docs)), at + h, W) /\ at + h + 4 <= Len(bytes)
        BY <1>5, <2>2
      <3> HIDE DEF h
      <3>2. Number(Behind(h)) = Len(t.docs)
        BY <1>1, <1>4, <3>1, NumberBehind
      <3> QED
        BY <3>2 DEF h
    <2>4. SubSeq(bytes, at + 13, at + 12 + L) = t.str
      <3> DEFINE m == at + 12
      <3>1. m \in Nat /\ m + 1 = at + 13 /\ m + Len(t.str) = at + 12 + L
            /\ m + Len(t.str) <= Len(bytes)
        BY <1>1, <1>4, <2>2 DEF L
      <3>2. StandsAt(t.str, m, W) /\ Len(t.str) \in Nat
        BY <1>4, <1>5 DEF L
      <3> HIDE DEF m
      <3>3. StandsAt(t.str, m, bytes)
        BY <3>1, <3>2, BeginningStands
      <3>4. SubSeq(bytes, m + 1, m + Len(t.str)) = t.str
        BY <1>1, <1>4, <3>1, <3>3, StandingPart
      <3> QED
        BY <3>1, <3>4
    <2> QED
      BY <1>4, <2>1, <2>2, <2>3, <2>4
  <1>8. ASSUME L <= BUFF_SIZE, bytes = W
        PROVE  HasToken
    <2>1. at + 16 + L <= Len(bytes)
      <3> DEFINE k == Len(U32(Len(t.docs)))
      <3>1. at + (12 + L) + k <= Len(W)
        BY <1>5 DEF StandsAt
      <3>2. k = 4 /\ Len(bytes) = Len(W)
        BY <1>4, <1>8
      <3> HIDE DEF k, W
      <3> QED
        BY <1>1, <1>4, <3>1, <3>2
    <2>2. at \in Nat /\ L \in Nat /\ Len(bytes) \in Nat
      BY <1>1, <1>4
    <2>3. at + 12 <= Len(bytes) /\ at + (16 + L) <= Len(bytes)
      BY <2>1, <2>2
    <2>4. TokenLength = L /\ TokenHead = 16 + L
      BY Zenon, <1>6, <2>3
    <2> QED
      BY <1>8, <2>3, <2>4 DEF HasToken
  <1> QED
    BY <1>2, <1>7, <1>8 DEF t, L, N

(* At a document that is there, the reader finds it.                       *)
LEMMA InvertIsRead ==
  ASSUME written \in Inverters, IsBeginning(bytes, FileOfIndex(written)),
         NEW i \in 1..Len(written), NEW j \in 0..(Len(Tok(i).docs) - 1),
         at = Ends(Records)[i - 1] + HeadLength(Tok(i)) + Ends(InvertsOf(Tok(i)))[j]
  PROVE  /\ bytes = FileOfIndex(written) => HasInvert
         /\ HasInvert =>
              /\ Posting(SubSeq(bytes, at + 1, at + InvertSize)) = Tok(i).docs[j + 1]
              /\ at + InvertSize = Ends(Records)[i - 1] + HeadLength(Tok(i))
                                     + Ends(InvertsOf(Tok(i)))[j + 1]
              /\ j + 1 = Len(Tok(i).docs) => at + InvertSize = Ends(Records)[i]
  <1> DEFINE W == FileOfIndex(written)
             t == Tok(i)
             e == Ends(InvertsOf(t))
             b == Ends(Records)[i - 1]
             h == HeadLength(t)
             doc == t.docs[j + 1]
             rec == InvertBytes(doc)
             H == Len(doc.hits)
  <1>1. /\ IsToken(t) /\ b \in Nat /\ W \in Seq(Byte) /\ Len(W) \in Nat
        /\ Ends(Records)[i] = b + Len(TokenBytes(t))
    <2>1. i - 1 \in 0..Len(written)
      BY IndexInBytes
    <2> QED
      BY <2>1, IndexInBytes, LenProperties
  <1> HIDE DEF t, W, b
  <1>2. /\ Len(t.docs) \in Nat /\ h \in Nat /\ e \in [0..Len(t.docs) -> Nat]
        /\ Len(TokenBytes(t)) = h + e[Len(t.docs)]
        /\ \A k \in 1..Len(t.docs) :
             /\ IsDoc(t.docs[k])
             /\ e[k] = e[k - 1] + Len(InvertBytes(t.docs[k]))
             /\ StandsAt(InvertBytes(t.docs[k]), h + e[k - 1], TokenBytes(t))
    BY <1>1, TokenInBytes
  <1>3. j \in Nat /\ j + 1 \in 1..Len(t.docs) /\ (j + 1) - 1 = j /\ j \in 0..Len(t.docs)
    BY <1>2 DEF t
  <1> HIDE DEF e, h
  <1>4. IsDoc(doc) /\ e[j + 1] = e[j] + Len(rec) /\ StandsAt(rec, h + e[j], TokenBytes(t))
    <2>1. /\ e[j + 1] = e[(j + 1) - 1] + Len(rec)
          /\ StandsAt(rec, h + e[(j + 1) - 1], TokenBytes(t)) /\ IsDoc(doc)
      BY SMTT(40), <1>2, <1>3
    <2> QED
      BY <1>3, <2>1
  <1> HIDE DEF doc
  <1>5. /\ H \in Nat /\ rec \in Seq(Byte) /\ Len(rec) = 8 + H /\ rec[5] = H
        /\ Posting(rec) = doc
    BY <1>4, InvertInBytes DEF IsDoc, Byte
  <1> HIDE DEF rec, H
  <1>6. /\ e[j] \in Nat /\ h + e[j] \in Nat /\ at = b + (h + e[j]) /\ at = b + h + e[j]
        /\ at \in Nat
    <2>1. e[j] \in Nat
      BY <1>2, <1>3
    <2>2. at = b + h + e[j]
      BY DEF b, h, e, t
    <2>3. b \in Nat /\ h \in Nat
      BY <1>1, <1>2
    <2>4. \A x, y, z \in Nat : y + z \in Nat /\ x + y + z = x + (y + z) /\ x + y + z \in Nat
      OBVIOUS
    <2> HIDE DEF b, h, e
    <2> QED
      BY SMTT(30), <2>1, <2>2, <2>3, <2>4
  <1>7. StandsAt(rec, at, W)
    <2> DEFINE n == h + e[j]
    <2>1. n \in Nat /\ StandsAt(rec, n, TokenBytes(t)) /\ at = b + n
      BY <1>4, <1>6
    <2> HIDE DEF n
    <2>2. StandsAt(rec, Ends(Records)[i - 1] + n, FileOfIndex(written))
      BY <1>5, <2>1, InToken DEF t
    <2> QED
      BY <2>1, <2>2 DEF b, W
  <1>8. Len(bytes) \in Nat /\ bytes \in Seq(Byte) /\ IsBeginning(bytes, W)
    BY LenProperties DEF IsBeginning, W
  <1>9. ASSUME at + 8 <= Len(bytes)
        PROVE  InvertSize = 8 + H
    <2>1. at + 0 + 5 <= Len(bytes) /\ 5 \in Nat \ {0} /\ at + 0 + 5 = at + 5
      BY <1>6, <1>8, <1>9
    <2>2. Behind(0)[5] = W[at + 0 + 5]
      BY <1>6, <1>8, <2>1, ByteBehind
    <2>3. W[at + 5] = rec[5]
      <3>1. 5 \in 1..Len(rec)
        BY <1>5
      <3> QED
        BY <1>7, <3>1 DEF StandsAt
    <2>4. Behind(0)[5] = H
      BY <1>5, <2>1, <2>2, <2>3
    <2> QED
      BY <2>4 DEF InvertSize, SizeofDocInvert, HitsSize, HitsOffset
  <1>10. ASSUME HasInvert
         PROVE  /\ Posting(SubSeq(bytes, at + 1, at + InvertSize)) = doc
                /\ at + InvertSize = b + h + e[j + 1]
    <2>1. InvertSize = 8 + H /\ at + InvertSize <= Len(bytes)
      BY <1>9, <1>10 DEF HasInvert, SizeofDocInvert
    <2>2. at + Len(rec) <= Len(bytes) /\ InvertSize = Len(rec) /\ Len(rec) \in Nat
      BY <1>5, <2>1
    <2>3. StandsAt(rec, at, bytes)
      BY <1>6, <1>7, <1>8, <2>2, BeginningStands
    <2>4. SubSeq(bytes, at + 1, at + InvertSize) = rec
      BY <1>5, <1>6, <1>8, <2>2, <2>3, StandingPart
    <2>5. at + InvertSize = b + h + e[j + 1]
      <3>1. /\ at = b + h + e[j] /\ InvertSize = Len(rec) /\ e[j + 1] = e[j] + Len(rec)
            /\ b \in Nat /\ h \in Nat /\ e[j] \in Nat /\ Len(rec) \in Nat
        BY <1>1, <1>2, <1>4, <1>6, <2>2
      <3>2. \A x, y, z, r \in Nat : x + y + z + r = x + y + (z + r)
        OBVIOUS
      <3> HIDE DEF b, h, e
      <3> QED
        BY <3>1, <3>2
    <2> QED
      BY <1>5, <2>4, <2>5
  <1>11. ASSUME bytes = W
         PROVE  HasInvert
    <2>1. at + Len(rec) <= Len(bytes)
      BY <1>7, <1>11 DEF StandsAt
    <2>2. at + 8 <= Len(bytes) /\ at + (8 + H) <= Len(bytes)
      BY <1>5, <1>6, <1>8, <2>1
    <2> QED
      BY <1>9, <2>2 DEF HasInvert, SizeofDocInvert
  <1>12. ASSUME j + 1 = Len(t.docs)
         PROVE  b + h + e[j + 1] = Ends(Records)[i]
    <2>1. e[j + 1] \in Nat /\ Len(TokenBytes(t)) = h + e[j + 1]
      BY <1>2, <1>3, <1>12
    <2>2. /\ b \in Nat /\ h \in Nat
          /\ Ends(Records)[i] = b + Len(TokenBytes(t))
      BY <1>1, <1>2
    <2>3. \A x, y, z \in Nat : x + y + z = x + (y + z)
      OBVIOUS
    <2> HIDE DEF b, h, e
    <2> QED
      BY <2>1, <2>2, <2>3
  <1> QED
    BY <1>10, <1>11, <1>12 DEF W, t, b, h, e, doc

(* The reader stands before the token that follows the i-th one ...        *)
FirstOf(docs, j) == [k \in 1..j |-> docs[k]]

(* ... with the lists of the tokens up to there ...                        *)
HasListsOf(i) ==
  /\ read = [s \in DOMAIN read |-> read[s]]
  /\ \A k \in 1..i : read[Tok(k).str] = Tok(k).docs

Between(i) ==
  /\ left = 0 /\ at = Ends(Records)[i]
  /\ DOMAIN read = {Tok(k).str : k \in 1..i} /\ HasListsOf(i)

(* ... or has read j documents of the i-th one.                            *)
Within(i, j) ==
  /\ j < Len(Tok(i).docs) /\ left = Len(Tok(i).docs) - j
  /\ at = Ends(Records)[i - 1] + HeadLength(Tok(i)) + Ends(InvertsOf(Tok(i)))[j]
  /\ token = Tok(i).str
  /\ DOMAIN read = {Tok(k).str : k \in 1..(i - 1)} \cup (IF j = 0 THEN {} ELSE {token})
  /\ HasListsOf(i - 1)
  /\ j # 0 => read[token] = FirstOf(Tok(i).docs, j)

(* No token fills the buffer.                                              *)
Short == \A i \in 1..Len(written) : Len(Tok(i).str) < BUFF_SIZE

Somewhere ==
  \/ \E i \in 0..Len(written) : Between(i)
  \/ \E i \in 1..Len(written) : \E j \in 0..Len(Tok(i).docs) : Within(i, j)

PostingsWhole ==
  layout = "index" =>
    /\ label \in {"writing", "reading", "done", "undefined"}
    /\ label = "writing" => Between(0)
    /\ label # "writing" => IsBeginning(bytes, FileOfIndex(written))
    /\ label # "writing" /\ Short => Somewhere
    /\ label = "done" => left = 0 /\ at >= Len(bytes)
    /\ label = "undefined" /\ Short => bytes # FileOfIndex(written)

Kind ==
  \/ layout = "index" /\ written \in Inverters
  \/ layout \in {"number", "string"} /\ written \in Summaries[layout]

(* One document more.                                                      *)
LEMMA FirstOfDocs ==
  ASSUME NEW docs, docs \in Seq(ToSet(docs))
  PROVE  /\ FirstOf(docs, Len(docs)) = docs
         /\ Append(<<>>, docs[1]) = FirstOf(docs, 1)
         /\ \A j \in 0..(Len(docs) - 1) :
              Append(FirstOf(docs, j), docs[j + 1]) = FirstOf(docs, j + 1)
  <1> DEFINE S == ToSet(docs)
             N == Len(docs)
  <1>1. N \in Nat /\ docs = [k \in 1..N |-> docs[k]] /\ \A k \in 1..N : docs[k] \in S
    BY LenProperties, ElementOfSeq
  <1>2. FirstOf(docs, N) = docs
    BY <1>1 DEF FirstOf
  <1>3. ASSUME NEW j \in 0..(N - 1)
        PROVE  Append(FirstOf(docs, j), docs[j + 1]) = FirstOf(docs, j + 1)
    <2> DEFINE f == FirstOf(docs, j)
               d == docs[j + 1]
    <2>1. j \in Nat /\ j + 1 \in 1..N /\ \A k \in 1..(j + 1) : k \in 1..N
      BY <1>1
    <2>2. f \in [1..j -> S] /\ \A k \in 1..j : f[k] = docs[k]
      <3>1. \A k \in 1..j : docs[k] \in S
        BY <1>1, <2>1
      <3> HIDE DEF S
      <3> QED
        BY <3>1 DEF FirstOf
    <2> HIDE DEF f, S
    <2>3. f \in Seq(S) /\ Len(f) = j
      BY <2>1, <2>2
    <2>4. d \in S
      BY <1>1, <2>1
    <2> HIDE DEF d
    <2>5. /\ Append(f, d) \in Seq(S) /\ Len(Append(f, d)) = j + 1
          /\ \A k \in 1..j : Append(f, d)[k] = f[k]
          /\ Append(f, d)[j + 1] = d
      BY <2>3, <2>4, AppendProperties
    <2> DEFINE g == Append(f, d)
               h == [k \in 1..(j + 1) |-> docs[k]]
    <2>6. /\ h \in Seq(S) /\ Len(h) = j + 1 /\ \A k \in 1..(j + 1) : h[k] = docs[k]
      <3>1. h \in [1..(j + 1) -> S]
        BY <1>1, <2>1 DEF S
      <3> QED
        BY <2>1, <3>1
    <2>7. \A k \in 1..(j + 1) : g[k] = docs[k]
      <3> SUFFICES ASSUME NEW k \in 1..(j + 1)
                   PROVE  g[k] = docs[k]
        OBVIOUS
      <3>1. k = j + 1 \/ k \in 1..j
        BY <2>1
      <3> QED
        BY <2>2, <2>5, <3>1 DEF d
    <2> HIDE DEF g
    <2>8. g = h
      <3>1. g \in Seq(S) /\ Len(g) = j + 1
        BY <2>5 DEF g
      <3> HIDE DEF h
      <3> QED
        BY <2>6, <2>7, <3>1, SeqEqual
    <2> QED
      BY <2>8 DEF g, f, d, FirstOf
  <1>4. Append(<<>>, docs[1]) = FirstOf(docs, 1)
    <2>1. Append(<<>>, docs[1]) = <<docs[1]>>
      OBVIOUS
    <2>2. <<docs[1]>> = [k \in 1..1 |-> docs[k]]
      OBVIOUS
    <2> QED
      BY <2>1, <2>2 DEF FirstOf
  <1> QED
    BY <1>2, <1>3, <1>4

(* Before the first token nothing has been read.                           *)
LEMMA IndexStart ==
  ASSUME written \in Inverters, left = 0, at = 0, read = <<>>
  PROVE  Between(0)
  <1>1. Ends(Records)[0] = 0
    BY IndexInBytes
  <1>2. DOMAIN <<>> = {} /\ <<>> = [s \in DOMAIN <<>> |-> <<>>[s]]
    OBVIOUS
  <1>3. 1..0 = {}
    OBVIOUS
  <1> QED
    BY <1>1, <1>2, <1>3 DEF Between, HasListsOf

(* From a token to its first document.                                     *)
LEMMA TokenStep ==
  ASSUME written \in Inverters, IsBeginning(bytes, FileOfIndex(written)), Short,
         NEW i \in 0..Len(written), Between(i), ReadToken
  PROVE  i + 1 \in 1..Len(written) /\ Within(i + 1, 0)'
  <1> DEFINE t == Tok(i + 1)
  <1>1. at = Ends(Records)[i] /\ at < Len(bytes)
    BY DEF Between, ReadToken, ReadingToken
  <1>2. /\ i + 1 \in 1..Len(written)
        /\ SubSeq(bytes, at + 13, at + 12 + TokenLength) = t.str
        /\ Number(Behind(TokenHead - 4)) = Len(t.docs)
        /\ TokenHead = HeadLength(t)
    BY <1>1, TokenIsRead DEF ReadToken
  <1>3. (i + 1) - 1 = i
    BY IndexInBytes
  <1>4. token' = t.str /\ left' = Len(t.docs) /\ at' = at + HeadLength(t)
        /\ UNCHANGED <<written, read>>
    <2>1. Buffered(t.str) = {t.str}
      BY <1>2 DEF Short, Buffered
    <2> HIDE DEF t
    <2>2. /\ token' \in Buffered(SubSeq(bytes, at + 13, at + 12 + TokenLength))
          /\ left' = Number(Behind(TokenHead - 4)) /\ at' = at + TokenHead
          /\ UNCHANGED <<written, read>>
      BY DEF ReadToken
    <2>3. token' \in {t.str}
      BY <1>2, <2>1, <2>2
    <2> QED
      BY <1>2, <2>2, <2>3
  <1>5. IsToken(t)
    BY <1>2, IndexInBytes
  <1>6. /\ Len(t.docs) \in Nat \ {0} /\ HeadLength(t) \in Nat
        /\ Ends(InvertsOf(t))[0] = 0
    BY <1>5, TokenInBytes
  <1>7. Tok(i + 1)' = t /\ Records' = Records /\ \A k : Tok(k)' = Tok(k)
    BY <1>4 DEF Tok, Records
  <1>8. at \in Nat
    BY IndexInBytes, <1>1
  <1> HIDE DEF t
  <1>9. at' = Ends(Records)[i] + HeadLength(t) + Ends(InvertsOf(t))[0]
    BY <1>1, <1>4, <1>6, <1>8
  <1>10. 0 < Len(t.docs) /\ left' = Len(t.docs) - 0
    BY <1>4, <1>6
  <1>11. DOMAIN read = {Tok(k).str : k \in 1..i} \cup {} /\ HasListsOf(i)
    BY DEF Between
  <1>12. HasListsOf(i)'
    BY <1>4, <1>7, <1>11 DEF HasListsOf
  <1>13. DOMAIN read' = {Tok(k).str : k \in 1..i} \cup {}
    BY <1>4, <1>11
  <1> QED
    BY <1>2, <1>3, <1>4, <1>7, <1>9, <1>10, <1>12, <1>13 DEF Within

(* From a document to the next one, or to the next token.                  *)
LEMMA InvertStep ==
  ASSUME written \in Inverters, IsBeginning(bytes, FileOfIndex(written)),
         NEW i \in 1..Len(written), NEW j \in 0..Len(Tok(i).docs), Within(i, j), ReadInvert
  PROVE  \/ j + 1 \in 0..Len(Tok(i).docs) /\ Within(i, j + 1)'
         \/ Between(i)'
  <1> DEFINE t == Tok(i)
             docs == t.docs
             N == Len(docs)
             e == Ends(InvertsOf(t))
             b == Ends(Records)[i - 1]
             doc == docs[j + 1]
  <1>1. /\ IsToken(t) /\ Len(written) \in Nat /\ i \in 0..Len(written)
        /\ \A k \in 1..Len(written) : Tok(k).str = t.str => k = i
    BY IndexInBytes
  <1>2. N \in Nat /\ docs \in Seq(ToSet(docs))
    BY <1>1, LenProperties DEF IsToken
  <1> HIDE DEF t
  <1>3. j \in 0..(N - 1) /\ j \in Nat /\ j + 1 \in 1..N /\ j < N
    BY <1>2 DEF Within, t
  <1>4. /\ at = b + HeadLength(t) + e[j] /\ token = t.str /\ left = N - j
        /\ DOMAIN read = {Tok(k).str : k \in 1..(i - 1)} \cup (IF j = 0 THEN {} ELSE {token})
        /\ HasListsOf(i - 1)
        /\ j # 0 => read[token] = FirstOf(docs, j)
    BY DEF Within, t
  <1>5. /\ Posting(SubSeq(bytes, at + 1, at + InvertSize)) = doc
        /\ at + InvertSize = b + HeadLength(t) + e[j + 1]
        /\ j + 1 = N => at + InvertSize = Ends(Records)[i]
    <2>1. j \in 0..(Len(Tok(i).docs) - 1) /\ HasInvert
      BY <1>3 DEF t, ReadInvert
    <2>2. at = Ends(Records)[i - 1] + HeadLength(Tok(i)) + Ends(InvertsOf(Tok(i)))[j]
      BY <1>4 DEF t
    <2> QED
      BY <2>1, <2>2, InvertIsRead DEF t
  <1>6. /\ at' = at + InvertSize /\ left' = left - 1 /\ UNCHANGED <<written, token>>
        /\ read' = Add(read, token, doc)
    BY <1>5 DEF ReadInvert
  <1>7. Records' = Records /\ \A k : Tok(k)' = Tok(k)
    BY <1>6 DEF Records, Tok
  <1> HIDE DEF docs, N, e, b
  <1>8. \A k \in 1..(i - 1) : k \in 1..Len(written) /\ Tok(k).str # token
    <2>1. \A k \in 1..(i - 1) : k \in 1..Len(written) /\ k # i
      BY <1>1
    <2> QED
      BY <1>1, <1>4, <2>1
  <1>9. token \in DOMAIN read <=> j # 0
    BY <1>4, <1>8
  <1>10. Append(IF token \in DOMAIN read THEN read[token] ELSE <<>>, doc) = FirstOf(docs, j + 1)
    <2>1. CASE j = 0
      <3>1. Append(<<>>, docs[1]) = FirstOf(docs, 1) /\ j + 1 = 1
        BY <1>2, <2>1, FirstOfDocs
      <3> QED
        BY <1>9, <2>1, <3>1
    <2>2. CASE j # 0
      <3>1. Append(FirstOf(docs, j), docs[j + 1]) = FirstOf(docs, j + 1)
        BY <1>2, <1>3, FirstOfDocs DEF N
      <3> QED
        BY <1>4, <1>9, <2>2, <3>1
    <2> QED
      BY <2>1, <2>2
  <1>11. /\ read' = [s \in DOMAIN read \cup {token} |->
                       IF s = token THEN FirstOf(docs, j + 1) ELSE read[s]]
    BY <1>6, <1>10 DEF Add
  <1>12. DOMAIN read' = {Tok(k).str : k \in 1..(i - 1)} \cup {token}
    BY <1>4, <1>11
  <1>13. /\ read' = [s \in DOMAIN read' |-> read'[s]]
         /\ read'[token] = FirstOf(docs, j + 1)
         /\ \A k \in 1..(i - 1) : read'[Tok(k).str] = Tok(k).docs
    <2>1. read' = [s \in DOMAIN read' |-> read'[s]] /\ read'[token] = FirstOf(docs, j + 1)
      BY <1>11
    <2>2. ASSUME NEW k \in 1..(i - 1)
          PROVE  read'[Tok(k).str] = Tok(k).docs
      <3>1. Tok(k).str # token /\ Tok(k).str \in DOMAIN read
        BY <1>4, <1>8
      <3>2. read[Tok(k).str] = Tok(k).docs
        BY <1>4 DEF HasListsOf
      <3> QED
        BY <1>11, <3>1, <3>2
    <2> QED
      BY <2>1, <2>2
  <1>14. HasListsOf(i - 1)'
    BY <1>7, <1>13 DEF HasListsOf
  <1>15. CASE j + 1 < N
    <2>1. left' = N - (j + 1) /\ j + 1 # 0 /\ j + 1 \in 0..N
      BY SMTT(30), <1>2, <1>3, <1>4, <1>6
    <2>2. at' = b + HeadLength(t) + e[j + 1]
      BY <1>5, <1>6
    <2> DEFINE n == j + 1
    <2>3. /\ n < N /\ left' = N - n /\ n # 0 /\ n \in 0..N
          /\ at' = b + HeadLength(t) + e[n] /\ read'[token] = FirstOf(docs, n)
      BY <1>13, <1>15, <2>1, <2>2
    <2> HIDE DEF n
    <2>4. token' = t.str /\ token' = token /\ Tok(i)' = t /\ Records' = Records
      BY <1>4, <1>6, <1>7 DEF t
    <2>5. DOMAIN read' = {Tok(k)'.str : k \in 1..(i - 1)} \cup {token'}
      BY <1>7, <1>12, <2>4
    <2>6. Within(i, n)'
      BY <1>14, <2>3, <2>4, <2>5 DEF Within, docs, N, e, b
    <2> QED
      BY <2>3, <2>6 DEF n, N, docs, t
  <1>16. CASE ~(j + 1 < N)
    <2>1. j + 1 = N /\ left' = 0
      BY <1>2, <1>3, <1>4, <1>6, <1>16
    <2>2. at' = Ends(Records)[i]
      BY <1>5, <1>6, <2>1
    <2>3. read'[t.str] = docs
      BY <1>2, <1>4, <1>13, <2>1, FirstOfDocs DEF N
    <2>4. {Tok(k).str : k \in 1..i} = {Tok(k).str : k \in 1..(i - 1)} \cup {t.str}
      <3>1. \A k : k \in 1..i <=> k \in 1..(i - 1) \/ k = i
        BY <1>1
      <3> QED
        BY <3>1 DEF t
    <2>5. \A k \in 1..i : read'[Tok(k).str] = Tok(k).docs
      <3>1. \A k \in 1..i : k \in 1..(i - 1) \/ k = i
        BY <1>1
      <3> QED
        BY <1>13, <2>3, <3>1 DEF t, docs
    <2>6. HasListsOf(i)'
      BY <1>7, <1>13, <2>5 DEF HasListsOf
    <2>7. DOMAIN read' = {Tok(k)'.str : k \in 1..i}
      BY <1>4, <1>7, <1>12, <2>4
    <2>8. at' = Ends(Records')[i]
      BY <1>7, <2>2
    <2> QED
      BY <2>1, <2>6, <2>7, <2>8 DEF Between
  <1> QED
    BY <1>15, <1>16

-----------------------------------------------------------------------------
(* Attributes in bytes.                                                    *)
AttrRecords == [d \in 1..Len(written.docs) |-> AttrBytes(written.docs[d])]
HeadBytes   == U32(Len(written.docs)) \o StringsIn(AttrString(written.names))
HeadEnd     == 5 + Len(AttrString(written.names).data)

IsAttr(values) == IF layout = "string" THEN AreTexts(values) ELSE AreNumbers(values)

Summarized == layout \in {"number", "string"} /\ written \in Summaries[layout]

(* How long the texts are in the file.                                     *)
LEMMA TextsInBytes ==
  ASSUME NEW t, AreTexts(t)
  PROVE  /\ StringsIn(AttrString(t)) \in Seq(Byte)
         /\ Len(StringsIn(AttrString(t))) = 1 + Len(AttrString(t).data)
  <1> DEFINE size == <<Len(t)>>
             d == AttrString(t).data
  <1>1. size \in Seq(Byte) /\ Len(size) = 1 /\ d \in Seq(Byte)
    BY TextsInArray DEF AreTexts
  <1>2. StringsIn(AttrString(t)) = size \o d
    BY TextsAreStored
  <1> HIDE DEF size, d
  <1>3. size \o d \in Seq(Byte) /\ Len(size \o d) = 1 + Len(d)
    BY <1>1, ConcatStands
  <1> QED
    BY <1>2, <1>3 DEF d

(* How long numbers are in the file, and where each is.                    *)
LEMMA NumbersInBytes ==
  ASSUME layout = "number", NEW v, AreNumbers(v)
  PROVE  /\ AttrBytes(v) \in Seq(Byte) /\ Len(AttrBytes(v)) = 1 + 4 * Len(v)
         /\ Len(v) \in Nat /\ AttrBytes(v)[1] = Len(v)
         /\ \A j \in 1..Len(v) : StandsAt(U32(v[j]), 4 * j - 3, AttrBytes(v))
  <1> DEFINE N == Len(v)
             size == <<N>>
             s == [j \in 1..N |-> U32(v[j])]
             F == FlattenSeq(s)
             R == size \o F
  <1>1. /\ N \in Byte /\ N \in Nat
        /\ \A j \in 1..N : U32(v[j]) \in Seq(Byte) /\ Len(U32(v[j])) = 4
    BY NumberOfBytes, LenProperties DEF AreNumbers
  <1>2. size \in Seq(Byte) /\ Len(size) = 1 /\ size[1] = N
    BY <1>1
  <1>3. AttrBytes(v) = R
    BY DEF AttrBytes
  <1> HIDE DEF N, size
  <1>4. s \in Seq(Seq(Byte)) /\ Len(s) = N /\ \A j \in 1..N : s[j] = U32(v[j]) /\ Len(s[j]) = 4
    <2>1. s \in [1..N -> Seq(Byte)] /\ \A j \in 1..N : s[j] = U32(v[j])
      BY <1>1
    <2> HIDE DEF s
    <2> QED
      BY <1>1, <2>1
  <1> HIDE DEF s
  <1>5. F \in Seq(Byte) /\ AreEnds(Ends(s), s) /\ \A j \in 0..N : Ends(s)[j] = 4 * j
    BY <1>4, FlattenEnds, FourEach
  <1>6. Len(F) = 4 * N
    <2>1. N \in 0..N
      BY <1>1
    <2> QED
      BY <1>4, <1>5, <2>1 DEF AreEnds, F
  <1>7. ASSUME NEW j \in 1..N
        PROVE  StandsAt(s[j], 4 * j - 4, F) /\ 4 * j - 4 \in Nat
    <2>1. j - 1 \in 0..N /\ 4 * (j - 1) = 4 * j - 4 /\ 4 * j - 4 \in Nat
      BY <1>1
    <2>2. StandsAt(s[j], Ends(s)[j - 1], F)
      BY <1>4, <1>5 DEF AreEnds, F
    <2>3. Ends(s)[j - 1] = 4 * (j - 1)
      BY <1>5, <2>1
    <2> QED
      BY <2>1, <2>2, <2>3
  <1> HIDE DEF F
  <1>8. /\ R \in Seq(Byte) /\ Len(R) = 1 + 4 * N
        /\ StandsAt(size, 0, R) /\ StandsAt(F, 1, R) /\ Len(R) \in Nat /\ Len(F) \in Nat
    <2>1. /\ R \in Seq(Byte) /\ Len(R) = Len(size) + Len(F)
          /\ StandsAt(size, 0, R) /\ StandsAt(F, Len(size), R)
      BY <1>2, <1>5, ConcatStands
    <2> QED
      BY <1>1, <1>2, <1>6, <2>1
  <1> HIDE DEF R
  <1>9. R[1] = N
    <2>1. R[0 + 1] = size[1]
      BY <1>2, <1>8 DEF StandsAt
    <2> QED
      BY <1>2, <2>1
  <1>10. ASSUME NEW j \in 1..N
         PROVE  StandsAt(U32(v[j]), 4 * j - 3, R)
    <2> DEFINE m == 4 * j - 4
    <2>1. StandsAt(s[j], m, F) /\ m \in Nat /\ 1 + m = 4 * j - 3 /\ Len(s[j]) \in Nat
      BY <1>1, <1>4, <1>7
    <2> HIDE DEF m
    <2>2. StandsAt(s[j], 1 + m, R)
      BY <1>8, <2>1, StandsInside
    <2> QED
      BY <1>4, <2>1, <2>2
  <1> QED
    BY <1>1, <1>3, <1>8, <1>9, <1>10 DEF N

(* The head, and the documents' attributes one behind the other.           *)
LEMMA SummaryInBytes ==
  ASSUME Summarized
  PROVE  /\ Len(written.docs) \in Nat /\ IsU32(Len(written.docs))
         /\ AreTexts(written.names) /\ HeadEnd \in Nat /\ HeadEnd >= 5
         /\ FileOfSummary(written) \in Seq(Byte)
         /\ StandsAt(U32(Len(written.docs)), 0, FileOfSummary(written))
         /\ StandsAt(StringsIn(AttrString(written.names)), 4, FileOfSummary(written))
         /\ Ends(AttrRecords) \in [0..Len(written.docs) -> Nat] /\ Ends(AttrRecords)[0] = 0
         /\ HeadEnd + Ends(AttrRecords)[Len(written.docs)] = Len(FileOfSummary(written))
         /\ \A d \in 1..Len(written.docs) :
              /\ IsAttr(written.docs[d]) /\ AttrBytes(written.docs[d]) \in Seq(Byte)
              /\ Ends(AttrRecords)[d] = Ends(AttrRecords)[d - 1]
                                          + Len(AttrBytes(written.docs[d]))
              /\ StandsAt(AttrBytes(written.docs[d]), HeadEnd + Ends(AttrRecords)[d - 1],
                          FileOfSummary(written))
  <1> DEFINE N == Len(written.docs)
             names == StringsIn(AttrString(written.names))
             count == U32(N)
             F == FlattenSeq(AttrRecords)
             e == Ends(AttrRecords)
             W == HeadBytes \o F
  <1>1. /\ N \in Nat /\ IsU32(N) /\ AreTexts(written.names)
        /\ \A d \in 1..N : IsAttr(written.docs[d])
    BY FormatAssumption, LenProperties DEF Summarized, IsAttr
  <1>2. /\ names \in Seq(Byte) /\ Len(names) = 1 + Len(AttrString(written.names).data)
        /\ Len(AttrString(written.names).data) \in Nat
        /\ count \in Seq(Byte) /\ Len(count) = 4
    BY <1>1, TextsInBytes, TextsInArray, NumberOfBytes, LenProperties
  <1>3. \A d \in 1..N : AttrBytes(written.docs[d]) \in Seq(Byte)
    <2> SUFFICES ASSUME NEW d \in 1..N
                 PROVE  AttrBytes(written.docs[d]) \in Seq(Byte)
      OBVIOUS
    <2>1. CASE layout = "string"
      <3>1. AreTexts(written.docs[d])
        BY <1>1, <2>1 DEF IsAttr
      <3> QED
        BY <2>1, <3>1, TextsInBytes DEF AttrBytes
    <2>2. CASE layout = "number"
      <3>1. AreNumbers(written.docs[d])
        BY <1>1, <2>2 DEF IsAttr
      <3> QED
        BY <2>2, <3>1, NumbersInBytes
    <2> QED
      BY <2>1, <2>2 DEF Summarized
  <1>4. FileOfSummary(written) = W
    BY DEF FileOfSummary, HeadBytes, AttrRecords
  <1>5. HeadBytes = count \o names
    BY DEF HeadBytes
  <1> HIDE DEF N, names, count
  <1>6. /\ AttrRecords \in Seq(Seq(Byte)) /\ Len(AttrRecords) = N
        /\ \A d \in 1..N : AttrRecords[d] = AttrBytes(written.docs[d])
    <2>1. AttrRecords \in [1..N -> Seq(Byte)] /\ \A d \in 1..N : AttrRecords[d] = AttrBytes(written.docs[d])
      BY <1>3 DEF AttrRecords, N
    <2>2. \A f : f \in [1..N -> Seq(Byte)] => f \in Seq(Seq(Byte)) /\ Len(f) = N
      BY <1>1
    <2> QED
      BY <2>1, <2>2
  <1>7. F \in Seq(Byte) /\ AreEnds(e, AttrRecords) /\ Len(F) \in Nat
    BY <1>6, FlattenEnds, LenProperties
  <1>8. /\ HeadBytes \in Seq(Byte) /\ Len(HeadBytes) = HeadEnd
        /\ HeadEnd \in Nat /\ HeadEnd >= 5
        /\ StandsAt(count, 0, HeadBytes) /\ StandsAt(names, 4, HeadBytes)
    <2>1. /\ HeadBytes \in Seq(Byte) /\ Len(HeadBytes) = Len(count) + Len(names)
          /\ StandsAt(count, 0, HeadBytes) /\ StandsAt(names, Len(count), HeadBytes)
      BY <1>2, <1>5, ConcatStands
    <2>2. 4 + Len(names) = HeadEnd /\ HeadEnd \in Nat /\ HeadEnd >= 5
      BY <1>2 DEF HeadEnd
    <2> QED
      BY <1>2, <2>1, <2>2
  <1> HIDE DEF F
  <1>9. /\ W \in Seq(Byte) /\ Len(W) = HeadEnd + Len(F) /\ Len(W) \in Nat
        /\ StandsAt(count, 0, W) /\ StandsAt(names, 4, W) /\ StandsAt(F, HeadEnd, W)
    <2>1. W \in Seq(Byte) /\ Len(W) = Len(HeadBytes) + Len(F) /\ StandsAt(F, Len(HeadBytes), W)
      BY <1>7, <1>8, ConcatStands
    <2>2. StandsAt(count, 0, W) /\ StandsAt(names, 4, W)
      BY <1>2, <1>7, <1>8, StandsBefore
    <2> QED
      BY <1>7, <1>8, <2>1, <2>2
  <1> HIDE DEF W
  <1>10. /\ e \in [0..N -> Nat] /\ e[0] = 0 /\ e[N] = Len(F)
         /\ \A d \in 1..N :
              /\ e[d] = e[d - 1] + Len(AttrRecords[d])
              /\ StandsAt(AttrRecords[d], e[d - 1], F)
    BY <1>6, <1>7 DEF AreEnds, F
  <1> HIDE DEF e
  <1>11. ASSUME NEW d \in 1..N
         PROVE  StandsAt(AttrRecords[d], HeadEnd + e[d - 1], W)
    <2>1. d - 1 \in 0..N
      BY <1>1
    <2>2. e[d - 1] \in Nat /\ AttrRecords[d] \in Seq(Byte)
      BY <1>3, <1>6, <1>10, <2>1
    <2>3. Len(AttrRecords[d]) \in Nat
      BY <2>2, LenProperties
    <2> QED
      BY <1>7, <1>8, <1>9, <1>10, <2>2, <2>3, StandsInside
  <1>12. HeadEnd + e[N] = Len(W)
    BY <1>9, <1>10
  <1>13. \A d \in 1..N :
           /\ IsAttr(written.docs[d]) /\ AttrBytes(written.docs[d]) \in Seq(Byte)
           /\ e[d] = e[d - 1] + Len(AttrBytes(written.docs[d]))
           /\ StandsAt(AttrBytes(written.docs[d]), HeadEnd + e[d - 1], W)
    BY <1>1, <1>3, <1>6, <1>10, <1>11
  <1> QED
    BY <1>1, <1>4, <1>8, <1>9, <1>10, <1>12, <1>13 DEF N, names, count, e

(* What searchd keeps of a document.                                       *)
KeptOf(values) ==
  IF layout = "string" THEN AttrString(values) ELSE [size |-> Len(values), data |-> values]
Kept == [d \in 1..Len(written.docs) |-> KeptOf(written.docs[d])]

(* Numbers are read as they were written, if they are there.               *)
LEMMA NumbersAreRead ==
  ASSUME layout = "number", NEW v, AreNumbers(v), NEW W, IsBeginning(bytes, W), at \in Nat,
         StandsAt(AttrBytes(v), at, W)
  PROVE  /\ HasNumbers <=> at + 1 + 4 * Len(v) <= Len(bytes)
         /\ HasNumbers => Numbers = [size |-> Len(v), data |-> v]
  <1> DEFINE N == Len(v)
             R == AttrBytes(v)
  <1>1. /\ R \in Seq(Byte) /\ Len(R) = 1 + 4 * N /\ N \in Nat /\ R[1] = N
        /\ \A j \in 1..N : StandsAt(U32(v[j]), 4 * j - 3, R)
    BY NumbersInBytes
  <1>2. /\ \A j \in 1..N : IsU32(v[j]) /\ Len(U32(v[j])) = 4
        /\ v = [j \in 1..N |-> v[j]]
    BY NumberOfBytes, LenProperties DEF AreNumbers
  <1>3. Len(bytes) \in Nat /\ Len(bytes) <= Len(W)
    BY LenProperties DEF IsBeginning
  <1> HIDE DEF N, R
  <1>4. ASSUME at + 1 <= Len(bytes)
        PROVE  Behind(0)[1] = N
    <2> DEFINE z == 0
               o == 1
    <2>1. at + z + o <= Len(bytes) /\ z \in Nat /\ o \in Nat \ {0} /\ at + z + o = at + 1
      BY <1>4
    <2> HIDE DEF z, o
    <2>2. Behind(z)[o] = W[at + z + o]
      BY <2>1, ByteBehind
    <2>3. W[at + 1] = R[1]
      <3>1. 1 \in 1..Len(R)
        BY <1>1
      <3> QED
        BY <3>1 DEF StandsAt, R
    <2> QED
      BY <1>1, <2>1, <2>2, <2>3 DEF z, o
  <1>5. HasNumbers <=> at + 1 + 4 * N <= Len(bytes)
    <2>1. at + 1 + 4 * N <= Len(bytes) => at + 1 <= Len(bytes)
      BY <1>1, <1>3
    <2> QED
      BY <1>4, <2>1 DEF HasNumbers
  <1>6. ASSUME HasNumbers
        PROVE  Numbers = [size |-> N, data |-> v]
    <2>1. Behind(0)[1] = N /\ at + 1 + 4 * N <= Len(bytes)
      BY <1>4, <1>5, <1>6 DEF HasNumbers
    <2>2. ASSUME NEW j \in 1..N
          PROVE  Number(Behind(4 * j - 3)) = v[j]
      <3> DEFINE m == 4 * j - 3
      <3>1. m \in Nat /\ at + m + 4 <= Len(bytes)
        <4>1. \A x, y, z \in Nat : \A i \in 1..y : x + 1 + 4 * y <= z =>
                4 * i - 3 \in Nat /\ x + (4 * i - 3) + 4 <= z
          OBVIOUS
        <4> QED
          BY <1>1, <1>3, <2>1, <4>1
      <3>2. StandsAt(U32(v[j]), m, R)
        BY <1>1
      <3> HIDE DEF m
      <3>3. Len(W) \in Nat /\ Len(R) \in Nat /\ Len(U32(v[j])) \in Nat /\ StandsAt(R, at, W)
        BY <1>1, <1>2, LenProperties DEF IsBeginning, R
      <3>4. StandsAt(U32(v[j]), at + m, W)
        BY <3>1, <3>2, <3>3, StandsInside
      <3>5. Number(Behind(m)) = v[j]
        BY <1>2, <3>1, <3>4, NumberBehind
      <3> QED
        BY <3>5 DEF m
    <2>3. [j \in 1..N |-> Number(Behind(4 * j - 3))] = v
      BY <1>2, <2>2
    <2> QED
      BY <2>1, <2>3 DEF Numbers
  <1> QED
    BY <1>5, <1>6 DEF N

(* Behind the head stands what was stored of each document.                *)
LEMMA AttrIsRead ==
  ASSUME Summarized, IsBeginning(bytes, FileOfSummary(written)),
         NEW d \in 0..(Len(written.docs) - 1), at = HeadEnd + Ends(AttrRecords)[d]
  PROVE  /\ layout = "string" =>
              /\ bytes = FileOfSummary(written) => HasStrings(0)
              /\ HasStrings(0) =>
                   /\ StringAttr(0) = KeptOf(written.docs[d + 1])
                   /\ at + 1 + Len(StringAttr(0).data) = HeadEnd + Ends(AttrRecords)[d + 1]
         /\ layout = "number" =>
              /\ bytes = FileOfSummary(written) => HasNumbers
              /\ HasNumbers =>
                   /\ Numbers = KeptOf(written.docs[d + 1])
                   /\ at + 1 + 4 * Numbers.size = HeadEnd + Ends(AttrRecords)[d + 1]
  <1> DEFINE N == Len(written.docs)
             v == written.docs[d + 1]
             W == FileOfSummary(written)
             e == Ends(AttrRecords)
             R == AttrBytes(v)
  <1>1. /\ N \in Nat /\ HeadEnd \in Nat /\ W \in Seq(Byte) /\ e \in [0..N -> Nat]
        /\ \A k \in 1..N :
             /\ IsAttr(written.docs[k]) /\ AttrBytes(written.docs[k]) \in Seq(Byte)
             /\ e[k] = e[k - 1] + Len(AttrBytes(written.docs[k]))
             /\ StandsAt(AttrBytes(written.docs[k]), HeadEnd + e[k - 1], W)
    BY SummaryInBytes
  <1>2. d + 1 \in 1..N /\ (d + 1) - 1 = d /\ d \in 0..N
    BY <1>1
  <1> HIDE DEF N, W, e
  <1>3. /\ IsAttr(v) /\ R \in Seq(Byte) /\ e[d + 1] = e[d] + Len(R)
        /\ StandsAt(R, at, W) /\ at \in Nat /\ Len(R) \in Nat /\ e[d] \in Nat
        /\ at = HeadEnd + e[d] /\ at + Len(R) = HeadEnd + e[d + 1]
    <2>1. /\ IsAttr(v) /\ R \in Seq(Byte) /\ e[d + 1] = e[(d + 1) - 1] + Len(R)
          /\ StandsAt(R, HeadEnd + e[(d + 1) - 1], W)
      BY <1>1, <1>2
    <2>2. at = HeadEnd + e[d] /\ e[d] \in Nat /\ Len(R) \in Nat
      BY <1>1, <1>2, <2>1, LenProperties DEF e
    <2> HIDE DEF v, R
    <2>3. e[d + 1] = e[d] + Len(R) /\ StandsAt(R, at, W)
      BY <1>2, <2>1, <2>2
    <2>4. at \in Nat /\ at + Len(R) = HeadEnd + (e[d] + Len(R))
      <3> DEFINE x == e[d]
                 y == Len(R)
      <3>1. at = HeadEnd + x /\ x \in Nat /\ y \in Nat /\ HeadEnd \in Nat
        BY <1>1, <2>2
      <3> HIDE DEF x, y
      <3>2. at \in Nat /\ at + y = HeadEnd + (x + y)
        BY <3>1
      <3> QED
        BY <3>2 DEF x, y
    <2> QED
      BY <2>1, <2>2, <2>3, <2>4
  <1>4. bytes = W => at + Len(R) <= Len(bytes)
    BY <1>3 DEF StandsAt
  <1> HIDE DEF v
  <1>5. IsBeginning(bytes, W)
    BY DEF W
  <1>6. ASSUME layout = "string"
        PROVE  /\ bytes = W => HasStrings(0)
               /\ HasStrings(0) =>
                    /\ StringAttr(0) = KeptOf(v)
                    /\ at + 1 + Len(StringAttr(0).data) = HeadEnd + e[d + 1]
    <2>1. AreTexts(v) /\ R = StringsIn(AttrString(v)) /\ KeptOf(v) = AttrString(v)
      BY <1>3, <1>6 DEF IsAttr, AttrBytes, KeptOf
    <2> DEFINE z == 0
    <2>2. z \in Nat /\ at + z = at
      BY <1>3
    <2> HIDE DEF z
    <2>3. /\ Len(R) = 1 + Len(AttrString(v).data) /\ Len(AttrString(v).data) \in Nat
          /\ HasStrings(z) <=> at + z + Len(R) <= Len(bytes)
          /\ HasStrings(z) => StringAttr(z) = AttrString(v)
      BY SMTT(40), <1>3, <1>5, <2>1, <2>2, StringsAreRead
    <2>4. \A x, y \in Nat : x + 1 + y = x + (1 + y)
      OBVIOUS
    <2> HIDE DEF R
    <2> QED
      BY <1>3, <1>4, <2>1, <2>2, <2>3, <2>4 DEF z
  <1>7. ASSUME layout = "number"
        PROVE  /\ bytes = W => HasNumbers
               /\ HasNumbers =>
                    /\ Numbers = KeptOf(v)
                    /\ at + 1 + 4 * Numbers.size = HeadEnd + e[d + 1]
    <2>1. AreNumbers(v) /\ KeptOf(v) = [size |-> Len(v), data |-> v]
      BY <1>3, <1>7 DEF IsAttr, KeptOf
    <2>2. /\ HasNumbers <=> at + 1 + 4 * Len(v) <= Len(bytes)
          /\ HasNumbers => Numbers = [size |-> Len(v), data |-> v]
      BY <1>3, <1>5, <1>7, <2>1, NumbersAreRead
    <2>3. at + 1 + 4 * Len(v) = at + Len(R)
      <3>1. Len(R) = 1 + 4 * Len(v) /\ Len(v) \in Nat
        BY <1>7, <2>1, NumbersInBytes
      <3> QED
        BY <1>3, <3>1
    <2> HIDE DEF R
    <2>4. HasNumbers => Numbers = KeptOf(v) /\ Numbers.size = Len(v)
      BY <2>1, <2>2
    <2>5. bytes = W => HasNumbers
      BY <1>4, <2>2, <2>3
    <2> QED
      BY <1>3, <2>3, <2>4, <2>5
  <1> QED
    BY <1>6, <1>7 DEF v, W, e

(* The head: the number of the documents, and the names.                   *)
LEMMA HeadIsRead ==
  ASSUME Summarized, IsBeginning(bytes, FileOfSummary(written)), at = 0
  PROVE  /\ bytes = FileOfSummary(written) => HasStrings(4)
         /\ HasStrings(4) =>
              /\ StringAttr(4) = AttrString(written.names)
              /\ Number(bytes) = Len(written.docs)
              /\ 5 + Len(StringAttr(4).data) = HeadEnd
  <1> DEFINE t == written.names
             count == U32(Len(written.docs))
             W == FileOfSummary(written)
             n == 4
  <1>1. /\ IsU32(Len(written.docs)) /\ AreTexts(t) /\ W \in Seq(Byte)
        /\ StandsAt(count, 0, W) /\ StandsAt(StringsIn(AttrString(t)), 4, W)
    BY SummaryInBytes
  <1>2. /\ bytes \in Seq(Byte) /\ Len(bytes) \in Nat /\ Len(bytes) <= Len(W)
        /\ IsBeginning(bytes, W)
    BY LenProperties DEF IsBeginning
  <1> HIDE DEF W, t
  <1>3. /\ Len(StringsIn(AttrString(t))) = 1 + Len(AttrString(t).data)
        /\ Len(AttrString(t).data) \in Nat
        /\ HasStrings(n) <=> at + n + Len(StringsIn(AttrString(t))) <= Len(bytes)
        /\ HasStrings(n) => StringAttr(n) = AttrString(t)
    <2>1. n \in Nat /\ at \in Nat /\ StandsAt(StringsIn(AttrString(t)), at + n, W)
      BY <1>1
    <2> HIDE DEF n
    <2> QED
      BY <1>1, <1>2, <2>1, StringsAreRead
  <1>4. ASSUME bytes = W
        PROVE  HasStrings(n)
    <2>1. 4 + Len(StringsIn(AttrString(t))) <= Len(W)
      BY <1>1 DEF StandsAt
    <2> QED
      BY <1>3, <1>4, <2>1
  <1>5. ASSUME HasStrings(n)
        PROVE  Number(bytes) = Len(written.docs) /\ 5 + Len(StringAttr(n).data) = HeadEnd
    <2>1. 0 + 4 <= Len(bytes)
      BY <1>2, <1>3, <1>5
    <2>2. count \in Seq(Byte) /\ Len(count) = 4
      BY <1>1, NumberOfBytes
    <2> DEFINE z == 0
    <2>3. z \in Nat /\ StandsAt(count, z, W) /\ z + Len(count) <= Len(bytes)
      BY <1>1, <2>1, <2>2
    <2> HIDE DEF z
    <2>4. Len(count) \in Nat
      BY <2>2
    <2> HIDE DEF count
    <2>5. StandsAt(count, z, bytes)
      BY <1>2, <2>3, <2>4, BeginningStands
    <2>6. StandsAt(U32(Len(written.docs)), 0, bytes)
      BY <2>5 DEF z, count
    <2>7. Number(bytes) = Len(written.docs)
      BY <1>1, <2>6, NumberOfBytes
    <2> QED
      BY <1>3, <1>5, <2>7 DEF HeadEnd, t
  <1> QED
    BY <1>3, <1>4, <1>5 DEF W, t

(* The reader has the head and d documents.                                *)
SummaryRead(d) ==
  /\ at = HeadEnd + Ends(AttrRecords)[d] /\ left = Len(written.docs) - d
  /\ read = [names |-> AttrString(written.names), docs |-> FirstOf(Kept, d)]

AttributesFollow ==
  layout # "index" =>
    /\ label \in {"writing", "reading", "done", "undefined"}
    /\ label # "writing" => IsBeginning(bytes, FileOfSummary(written))
    /\ \/ at = 0 /\ left = 0 /\ read = [names |-> <<>>, docs |-> <<>>]
       \/ label # "writing" /\ \E d \in 0..Len(written.docs) : SummaryRead(d)
    /\ label = "done" => at > 0 /\ left = 0
    /\ label = "undefined" => bytes # FileOfSummary(written)

(* The attributes that searchd will have, document by document.            *)
LEMMA KeptDocs ==
  ASSUME Summarized
  PROVE  /\ Len(Kept) = Len(written.docs) /\ Kept \in Seq(ToSet(Kept))
         /\ FirstOf(Kept, 0) = <<>>
         /\ \A k \in 1..Len(written.docs) : Kept[k] = KeptOf(written.docs[k])
  <1> DEFINE N == Len(written.docs)
  <1>1. N \in Nat
    BY SummaryInBytes
  <1> HIDE DEF N
  <1>2. \A S, f : f \in [1..N -> S] => f \in Seq(S) /\ Len(f) = N
    BY <1>1
  <1>3. Kept = [d \in 1..N |-> KeptOf(written.docs[d])]
    BY DEF Kept, N
  <1>4. Kept \in [1..N -> {Kept[d] : d \in 1..N}]
    BY <1>3
  <1>5. Len(Kept) = N
    BY <1>2, <1>4
  <1>6. ToSet(Kept) = {Kept[d] : d \in 1..N}
    BY <1>5 DEF ToSet
  <1>7. Kept \in Seq(ToSet(Kept))
    BY <1>2, <1>4, <1>6
  <1>8. FirstOf(Kept, 0) = <<>>
    BY DEF FirstOf
  <1> QED
    BY <1>3, <1>5, <1>7, <1>8 DEF N

(* From the start to the first document.                                   *)
LEMMA NamesStep ==
  ASSUME Summarized, IsBeginning(bytes, FileOfSummary(written)), ReadNames,
         read = [names |-> <<>>, docs |-> <<>>]
  PROVE  SummaryRead(0)'
  <1>1. /\ at = 0 /\ HasStrings(4) /\ UNCHANGED <<layout, written>>
        /\ left' = Number(bytes) /\ read' = [read EXCEPT !.names = StringAttr(4)]
        /\ at' = 5 + Len(StringAttr(4).data)
    BY DEF ReadNames, ReadingNames
  <1>2. /\ StringAttr(4) = AttrString(written.names) /\ Number(bytes) = Len(written.docs)
        /\ 5 + Len(StringAttr(4).data) = HeadEnd
    BY <1>1, HeadIsRead
  <1>3. HeadEnd \in Nat /\ Len(written.docs) \in Nat /\ Ends(AttrRecords)[0] = 0
    BY SummaryInBytes
  <1>4. at' = HeadEnd + Ends(AttrRecords)[0] /\ left' = Len(written.docs) - 0
    BY <1>1, <1>2, <1>3
  <1>5. read' = [names |-> AttrString(written.names), docs |-> FirstOf(Kept, 0)]
    BY <1>1, <1>2, KeptDocs
  <1>6. /\ AttrRecords' = AttrRecords /\ HeadEnd' = HeadEnd /\ Kept' = Kept
        /\ AttrString(written.names)' = AttrString(written.names)
    BY <1>1 DEF AttrRecords, AttrBytes, HeadEnd, Kept, KeptOf
  <1> QED
    BY <1>1, <1>4, <1>5, <1>6 DEF SummaryRead

(* From one document to the next.                                          *)
LEMMA AttrStep ==
  ASSUME Summarized, IsBeginning(bytes, FileOfSummary(written)),
         NEW d \in 0..Len(written.docs), SummaryRead(d), ReadTexts \/ ReadNumbers
  PROVE  d + 1 \in 0..Len(written.docs) /\ SummaryRead(d + 1)'
  <1> DEFINE N == Len(written.docs)
             e == Ends(AttrRecords)
  <1>1. /\ at = HeadEnd + e[d] /\ left = N - d /\ left > 0 /\ N \in Nat
        /\ read = [names |-> AttrString(written.names), docs |-> FirstOf(Kept, d)]
    BY SummaryInBytes DEF SummaryRead, ReadTexts, ReadNumbers, ReadingAttr
  <1>2. d \in 0..(N - 1) /\ d \in Nat /\ d + 1 \in 0..N /\ d + 1 \in 1..N
        /\ left - 1 = N - (d + 1)
    BY <1>1
  <1>3. UNCHANGED <<layout, written>> /\ left' = left - 1
    BY DEF ReadTexts, ReadNumbers
  <1>4. /\ AttrRecords' = AttrRecords /\ HeadEnd' = HeadEnd /\ Kept' = Kept
        /\ AttrString(written.names)' = AttrString(written.names)
    BY <1>3 DEF AttrRecords, AttrBytes, HeadEnd, Kept, KeptOf
  <1>5. /\ read' = [read EXCEPT !.docs = Append(@, KeptOf(written.docs[d + 1]))]
        /\ at' = HeadEnd + e[d + 1]
    <2>1. CASE ReadTexts
      <3>1. layout = "string" /\ HasStrings(0)
        BY <2>1 DEF ReadTexts
      <3>2. /\ StringAttr(0) = KeptOf(written.docs[d + 1])
            /\ at + 1 + Len(StringAttr(0).data) = HeadEnd + e[d + 1]
        BY <1>1, <1>2, <3>1, AttrIsRead
      <3> QED
        BY <2>1, <3>2 DEF ReadTexts
    <2>2. CASE ReadNumbers
      <3>1. layout = "number" /\ HasNumbers
        BY <2>2 DEF ReadNumbers
      <3>2. /\ Numbers = KeptOf(written.docs[d + 1])
            /\ at + 1 + 4 * Numbers.size = HeadEnd + e[d + 1]
        BY <1>1, <1>2, <3>1, AttrIsRead
      <3> QED
        BY <2>2, <3>2 DEF ReadNumbers
    <2> QED
      BY <2>1, <2>2
  <1>6. Append(FirstOf(Kept, d), KeptOf(written.docs[d + 1])) = FirstOf(Kept, d + 1)
    <2>1. /\ Kept[d + 1] = KeptOf(written.docs[d + 1])
          /\ Len(Kept) = N /\ Kept \in Seq(ToSet(Kept))
      BY <1>2, KeptDocs
    <2>2. d \in 0..(Len(Kept) - 1)
      BY <1>2, <2>1
    <2>3. Append(FirstOf(Kept, d), Kept[d + 1]) = FirstOf(Kept, d + 1)
      BY <2>1, <2>2, FirstOfDocs
    <2> QED
      BY <2>1, <2>3
  <1>7. read' = [names |-> AttrString(written.names), docs |-> FirstOf(Kept, d + 1)]
    BY <1>1, <1>5, <1>6
  <1>8. left' = N - (d + 1)
    BY <1>2, <1>3
  <1> HIDE DEF N, e
  <1>9. /\ Len(written.docs)' = N /\ Ends(AttrRecords)' = e
    BY <1>3, <1>4 DEF N, e
  <1>10. SummaryRead(d + 1)'
    BY <1>4, <1>5, <1>7, <1>8, <1>9 DEF SummaryRead
  <1> QED
    BY <1>2, <1>10 DEF N

-----------------------------------------------------------------------------
(* The inductive invariant.                                                *)
(* The file is a beginning of the whole one, and the reader stands between *)
(* two of its records with all that it has read of the records before.     *)
FormatInv == Kind /\ PostingsWhole /\ AttributesFollow

(* As long as it is the same file, so are its records.                     *)
LEMMA SameContents ==
  ASSUME UNCHANGED <<layout, written>>
  PROVE  /\ Records' = Records /\ \A i : Tok(i)' = Tok(i)
         /\ FileOfIndex(written)' = FileOfIndex(written)
         /\ AttrRecords' = AttrRecords /\ HeadEnd' = HeadEnd /\ Kept' = Kept
         /\ FileOfSummary(written)' = FileOfSummary(written)
         /\ Short' <=> Short
         /\ Kind' <=> Kind
  <1>1. Records' = Records /\ \A i : Tok(i)' = Tok(i)
    BY DEF Records, Tok
  <1>2. FileOfIndex(written)' = FileOfIndex(written)
    OBVIOUS
  <1>3. AttrRecords' = AttrRecords /\ FileOfSummary(written)' = FileOfSummary(written)
    BY DEF AttrRecords, AttrBytes, FileOfSummary
  <1>4. HeadEnd' = HeadEnd /\ Kept' = Kept
    BY DEF HeadEnd, Kept, KeptOf
  <1>5. Short' <=> Short
    BY <1>1 DEF Short
  <1>6. Kind' <=> Kind
    BY DEF Kind
  <1> QED
    BY <1>1, <1>2, <1>3, <1>4, <1>5, <1>6

(* A step that reads nothing leaves the reader where it is.                *)
LEMMA StandsStill ==
  ASSUME UNCHANGED <<layout, written, at, left, token, read>>
  PROVE  /\ \A i : Between(i) => Between(i)'
         /\ Somewhere => Somewhere'
         /\ \A d : SummaryRead(d) => SummaryRead(d)'
  <1>1. /\ Records' = Records /\ \A i : Tok(i)' = Tok(i)
        /\ AttrRecords' = AttrRecords /\ HeadEnd' = HeadEnd /\ Kept' = Kept
    BY SameContents
  <1>2. \A i : Between(i) => Between(i)'
    BY <1>1 DEF Between, HasListsOf
  <1>3. \A i, j : Within(i, j) => Within(i, j)'
    BY <1>1 DEF Within, HasListsOf
  <1>4. \A d : SummaryRead(d) => SummaryRead(d)'
    BY <1>1 DEF SummaryRead
  <1>5. Somewhere => Somewhere'
    BY <1>1, <1>2, <1>3 DEF Somewhere
  <1> QED
    BY <1>2, <1>4, <1>5

(* A file that was torn is a beginning of the whole.                       *)
LEMMA WrittenBytes ==
  ASSUME NEW W \in Seq(Byte), NEW b,
         b = W \/ \E n \in 0..(Len(W) - 1) : b = SubSeq(W, 1, n)
  PROVE  IsBeginning(b, W)
  <1>1. Len(W) \in Nat
    BY LenProperties
  <1>2. CASE b = W
    BY <1>1, <1>2 DEF IsBeginning
  <1>3. CASE \E n \in 0..(Len(W) - 1) : b = SubSeq(W, 1, n)
    <2>1. PICK n \in 0..(Len(W) - 1) : b = SubSeq(W, 1, n)
      BY <1>3
    <2> DEFINE m == 0
    <2>2. /\ m \in Nat /\ n \in Nat /\ m <= n /\ n <= Len(W) /\ m + 1 = 1 /\ n - m = n
          /\ \A i \in 1..n : m + i = i
      BY <1>1
    <2> HIDE DEF m
    <2>3. /\ SubSeq(W, m + 1, n) \in Seq(Byte) /\ Len(SubSeq(W, m + 1, n)) = n - m
          /\ \A i \in 1..(n - m) : SubSeq(W, m + 1, n)[i] = W[m + i]
      BY <2>2, PartOf
    <2>4. b \in Seq(Byte) /\ Len(b) = n /\ \A i \in 1..n : b[i] = W[i]
      BY <2>1, <2>2, <2>3
    <2> QED
      BY <2>2, <2>4 DEF IsBeginning
  <1> QED
    BY <1>2, <1>3

(* The invariant holds before a file is written.                           *)
LEMMA PostingsInit == ASSUME FormatInit PROVE PostingsWhole
  <1> SUFFICES ASSUME layout = "index"
               PROVE  PostingsWhole
    BY DEF PostingsWhole
  <1>1. written \in Inverters /\ left = 0 /\ at = 0 /\ read = <<>> /\ label = "writing"
    BY DEF FormatInit
  <1>2. Between(0)
    BY <1>1, IndexStart
  <1> QED
    BY <1>1, <1>2 DEF PostingsWhole

(* Every step of a reader of the inverted index, and of its writer ...     *)
LEMMA PostingsNext ==
  ASSUME Kind, PostingsWhole, layout = "index", [FormatNext]_formatVars
  PROVE  PostingsWhole'
  <1> DEFINE W == FileOfIndex(written)
  <1>1. /\ written \in Inverters /\ W \in Seq(Byte) /\ Len(written) \in Nat
    <2>1. written \in Inverters
      BY DEF Kind
    <2> QED
      BY <2>1, IndexInBytes
  <1>2. UNCHANGED <<layout, written>>
    BY DEF FormatNext, formatVars, Write, WriteTorn, ReadToken, ReadInvert, EndOfIndex,
           ReadNames, ReadTexts, ReadNumbers, EndOfSummary, Undefined
  <1>3. W' = W /\ (Short' <=> Short) /\ layout' = "index" /\ \A i : Tok(i)' = Tok(i)
    <2>1. UNCHANGED <<layout, written>>
      BY <1>2
    <2>2. /\ FileOfIndex(written)' = FileOfIndex(written)
          /\ (Short' <=> Short) /\ \A i : Tok(i)' = Tok(i)
      BY <2>1, SameContents
    <2> QED
      BY <2>1, <2>2
  <1>4. /\ label \in {"writing", "reading", "done", "undefined"}
        /\ label = "writing" => Between(0)
        /\ label # "writing" => IsBeginning(bytes, W)
        /\ label # "writing" /\ Short => Somewhere
        /\ label = "done" => left = 0 /\ at >= Len(bytes)
        /\ label = "undefined" /\ Short => bytes # W
    BY DEF PostingsWhole
  <1> HIDE DEF W
  <1>5. ASSUME Write \/ WriteTorn
        PROVE  PostingsWhole'
    <2>1. /\ label = "writing" /\ label' = "reading"
          /\ UNCHANGED <<layout, written, at, left, token, read>>
          /\ bytes' = W \/ \E n \in 0..(Len(W) - 1) : bytes' = SubSeq(W, 1, n)
      BY <1>5 DEF Write, WriteTorn, W
    <2>2. IsBeginning(bytes', W')
      BY <1>1, <1>3, <2>1, WrittenBytes
    <2>3. Between(0)' /\ 0 \in 0..Len(written')
      BY <1>1, <1>2, <1>4, <2>1, StandsStill
    <2>4. Somewhere'
      BY <2>3 DEF Somewhere
    <2> QED
      BY <2>1, <2>2, <2>4 DEF PostingsWhole, W
  <1>6. ASSUME ReadToken
        PROVE  PostingsWhole'
    <2>1. label = "reading" /\ left = 0 /\ UNCHANGED <<label, bytes>>
      BY <1>6 DEF ReadToken, ReadingToken
    <2>2. ASSUME Short
          PROVE  Somewhere'
      <3>1. PICK i \in 0..Len(written) : Between(i)
        <4>1. \A i \in 1..Len(written) : \A j \in 0..Len(Tok(i).docs) : ~Within(i, j)
          <5> SUFFICES ASSUME NEW i \in 1..Len(written), NEW j \in 0..Len(Tok(i).docs),
                              Within(i, j)
                       PROVE  FALSE
            OBVIOUS
          <5>1. Len(Tok(i).docs) \in Nat
            BY <1>1, IndexInBytes, TokenInBytes
          <5> QED
            BY <2>1, <5>1 DEF Within
        <4> QED
          BY <1>4, <2>1, <2>2, <4>1 DEF Somewhere
      <3>2. i + 1 \in 1..Len(written) /\ Within(i + 1, 0)'
        <4>1. IsBeginning(bytes, FileOfIndex(written))
          BY <1>4, <2>1 DEF W
        <4> QED
          BY <1>1, <1>6, <2>2, <3>1, <4>1, TokenStep
      <3>3. i + 1 \in 1..Len(written') /\ 0 \in 0..Len(Tok(i + 1)'.docs)
        <4>1. Len(Tok(i + 1).docs) \in Nat
          BY <1>1, <3>2, IndexInBytes, TokenInBytes
        <4> QED
          BY <1>2, <1>3, <3>2, <4>1
      <3> QED
        BY <3>2, <3>3 DEF Somewhere
    <2> QED
      BY <1>3, <1>4, <2>1, <2>2 DEF PostingsWhole, W
  <1>7. ASSUME ReadInvert
        PROVE  PostingsWhole'
    <2>1. label = "reading" /\ left > 0 /\ UNCHANGED <<label, bytes>>
      BY <1>7 DEF ReadInvert, ReadingInvert
    <2>2. ASSUME Short
          PROVE  Somewhere'
      <3>1. PICK i \in 1..Len(written) : \E j \in 0..Len(Tok(i).docs) : Within(i, j)
        <4>1. \A i : ~Between(i)
          BY <2>1 DEF Between
        <4> QED
          BY <1>4, <2>1, <2>2, <4>1 DEF Somewhere
      <3>2. PICK j \in 0..Len(Tok(i).docs) : Within(i, j)
        BY <3>1
      <3>3. \/ j + 1 \in 0..Len(Tok(i).docs) /\ Within(i, j + 1)'
            \/ Between(i)'
        BY <1>1, <1>4, <1>7, <2>1, <3>2, InvertStep DEF W
      <3>4. i \in 1..Len(written') /\ i \in 0..Len(written') /\ Tok(i)' = Tok(i)
        BY <1>1, <1>2, <1>3
      <3> QED
        BY <3>3, <3>4 DEF Somewhere
    <2> QED
      BY <1>3, <1>4, <2>1, <2>2 DEF PostingsWhole, W
  <1>8. ASSUME EndOfIndex
        PROVE  PostingsWhole'
    <2>1. /\ label = "reading" /\ left = 0 /\ at >= Len(bytes) /\ label' = "done"
          /\ UNCHANGED <<layout, written, bytes, at, left, token, read>>
      BY <1>8 DEF EndOfIndex
    <2>2. Somewhere => Somewhere'
      BY <2>1, StandsStill
    <2> QED
      BY <1>3, <1>4, <2>1, <2>2 DEF PostingsWhole, W
  <1>9. ASSUME Undefined
        PROVE  PostingsWhole'
    <2>1. /\ label = "reading" /\ label' = "undefined"
          /\ UNCHANGED <<layout, written, bytes, at, left, token, read>>
          /\ (ReadingToken /\ ~HasToken) \/ (ReadingInvert /\ ~HasInvert)
      <3>1. ~ReadingNames /\ ~ReadingAttr
        BY DEF ReadingNames, ReadingAttr
      <3>2. ReadingToken \/ ReadingInvert => label = "reading"
        BY DEF ReadingToken, ReadingInvert
      <3>3. /\ label' = "undefined"
            /\ UNCHANGED <<layout, written, bytes, at, left, token, read>>
        BY <1>9 DEF Undefined
      <3>4. (ReadingToken /\ ~HasToken) \/ (ReadingInvert /\ ~HasInvert)
        BY <1>9, <3>1 DEF Undefined
      <3> QED
        BY <3>2, <3>3, <3>4
    <2>2. Somewhere => Somewhere'
      BY <2>1, StandsStill
    <2>3. IsBeginning(bytes, FileOfIndex(written))
      BY <1>4, <2>1 DEF W
    <2>4. ASSUME Short, NEW i \in 0..Len(written), Between(i)
          PROVE  bytes # W
      <3>1. ReadingToken /\ ~HasToken /\ at = Ends(Records)[i] /\ at < Len(bytes)
        BY <2>1, <2>4 DEF ReadingToken, ReadingInvert, Between
      <3>2. i + 1 \in 1..Len(written)
        BY <1>1, <2>3, <3>1, TokenIsRead
      <3>3. Len(Tok(i + 1).str) \in Nat /\ Len(Tok(i + 1).str) < BUFF_SIZE
        BY <1>1, <2>4, <3>2, IndexInBytes, TokenInBytes DEF Short
      <3>4. Len(Tok(i + 1).str) <= BUFF_SIZE
        BY <3>3, FormatAssumption
      <3> QED
        BY <1>1, <2>3, <3>1, <3>4, TokenIsRead DEF W
    <2>5. ASSUME NEW i \in 1..Len(written), NEW j \in 0..Len(Tok(i).docs), Within(i, j)
          PROVE  bytes # W
      <3>1. Len(Tok(i).docs) \in Nat
        BY <1>1, IndexInBytes, TokenInBytes
      <3>2. j \in 0..(Len(Tok(i).docs) - 1) /\ left > 0
        BY <2>5, <3>1 DEF Within
      <3>3. ~HasInvert
        BY <2>1, <3>2 DEF ReadingToken
      <3>4. at = Ends(Records)[i - 1] + HeadLength(Tok(i)) + Ends(InvertsOf(Tok(i)))[j]
        BY <2>5 DEF Within
      <3> QED
        BY <1>1, <2>3, <3>2, <3>3, <3>4, InvertIsRead DEF W
    <2>6. Short => bytes # W
      BY <1>4, <2>1, <2>4, <2>5 DEF Somewhere
    <2> QED
      BY <1>3, <1>4, <2>1, <2>2, <2>6 DEF PostingsWhole, W
  <1>10. ASSUME UNCHANGED formatVars
         PROVE  PostingsWhole'
    <2>1. UNCHANGED <<label, bytes, layout, written, at, left, token, read>>
      BY <1>10 DEF formatVars
    <2>2. /\ Somewhere => Somewhere'
          /\ Between(0) => Between(0)'
      BY <2>1, StandsStill
    <2> QED
      BY <1>3, <1>4, <2>1, <2>2 DEF PostingsWhole, W
  <1>11. ~(ReadNames \/ ReadTexts \/ ReadNumbers \/ EndOfSummary)
    BY DEF ReadNames, ReadTexts, ReadNumbers, EndOfSummary, ReadingNames, ReadingAttr
  <1> QED
    BY <1>5, <1>6, <1>7, <1>8, <1>9, <1>10, <1>11 DEF FormatNext

(* ... and those of a summary.                                             *)
LEMMA AttributesNext ==
  ASSUME Kind, AttributesFollow, layout # "index", [FormatNext]_formatVars
  PROVE  AttributesFollow'
  <1> DEFINE W == FileOfSummary(written)
  <1>1. Summarized
    BY DEF Kind, Summarized
  <1>2. W \in Seq(Byte) /\ HeadEnd \in Nat /\ HeadEnd >= 5 /\ Len(written.docs) \in Nat
        /\ Ends(AttrRecords) \in [0..Len(written.docs) -> Nat]
    BY <1>1, SummaryInBytes
  <1>3. UNCHANGED <<layout, written>>
    BY DEF FormatNext, formatVars, Write, WriteTorn, ReadToken, ReadInvert, EndOfIndex,
           ReadNames, ReadTexts, ReadNumbers, EndOfSummary, Undefined
  <1>4. W' = W
    BY <1>3, SameContents
  <1>5. /\ label \in {"writing", "reading", "done", "undefined"}
        /\ label # "writing" => IsBeginning(bytes, W)
        /\ \/ at = 0 /\ left = 0 /\ read = [names |-> <<>>, docs |-> <<>>]
           \/ label # "writing" /\ \E d \in 0..Len(written.docs) : SummaryRead(d)
        /\ label = "done" => at > 0 /\ left = 0
        /\ label = "undefined" => bytes # W
    BY DEF AttributesFollow
  <1> HIDE DEF W
  <1>6. \A d \in 0..Len(written.docs) : SummaryRead(d) => at > 0
    <2> SUFFICES ASSUME NEW d \in 0..Len(written.docs), SummaryRead(d)
                 PROVE  at > 0
      OBVIOUS
    <2>1. Ends(AttrRecords)[d] \in Nat
      BY <1>2
    <2> QED
      BY <1>2, <2>1 DEF SummaryRead
  <1>7. ASSUME Write \/ WriteTorn
        PROVE  AttributesFollow'
    <2>1. /\ label = "writing" /\ label' = "reading"
          /\ UNCHANGED <<at, left, read>>
          /\ bytes' = W \/ \E n \in 0..(Len(W) - 1) : bytes' = SubSeq(W, 1, n)
      BY <1>7 DEF Write, WriteTorn, W
    <2>2. IsBeginning(bytes', W')
      BY <1>2, <1>4, <2>1, WrittenBytes
    <2> QED
      BY <1>5, <2>1, <2>2 DEF AttributesFollow, W
  <1>8. ASSUME ReadNames
        PROVE  AttributesFollow'
    <2>1. label = "reading" /\ at = 0 /\ UNCHANGED <<label, bytes>>
      BY <1>8 DEF ReadNames, ReadingNames
    <2>2. read = [names |-> <<>>, docs |-> <<>>]
      BY <1>5, <1>6, <2>1
    <2>3. SummaryRead(0)' /\ 0 \in 0..Len(written'.docs)
      BY <1>1, <1>2, <1>3, <1>5, <1>8, <2>1, <2>2, NamesStep DEF W
    <2> QED
      BY <1>4, <1>5, <2>1, <2>3 DEF AttributesFollow, W
  <1>9. ASSUME ReadTexts \/ ReadNumbers
        PROVE  AttributesFollow'
    <2>1. label = "reading" /\ at > 0 /\ UNCHANGED <<label, bytes>>
      BY <1>9 DEF ReadTexts, ReadNumbers, ReadingAttr
    <2>2. PICK d \in 0..Len(written.docs) : SummaryRead(d)
      BY <1>5, <2>1
    <2>3. d + 1 \in 0..Len(written.docs) /\ SummaryRead(d + 1)'
      BY <1>1, <1>5, <1>9, <2>1, <2>2, AttrStep DEF W
    <2>4. \E k \in 0..Len(written'.docs) : SummaryRead(k)'
      BY <1>3, <2>3
    <2> QED
      BY <1>4, <1>5, <2>1, <2>4 DEF AttributesFollow, W
  <1>10. ASSUME EndOfSummary \/ Undefined \/ UNCHANGED formatVars
         PROVE  AttributesFollow'
    <2>1. /\ UNCHANGED <<layout, written, bytes, at, left, token, read>>
          /\ label' = label \/ (label = "reading" /\ label' \in {"done", "undefined"})
          /\ label = "reading" /\ label' = "done" => at > 0 /\ left = 0
      <3>1. ~ReadingToken /\ ~ReadingInvert
        BY DEF ReadingToken, ReadingInvert
      <3>2. ReadingNames \/ ReadingAttr => label = "reading"
        BY DEF ReadingNames, ReadingAttr
      <3>3. CASE EndOfSummary
        BY <3>3 DEF EndOfSummary
      <3>4. CASE Undefined
        BY <3>1, <3>2, <3>4 DEF Undefined
      <3>5. CASE UNCHANGED formatVars
        <4>1. UNCHANGED <<layout, written, bytes, at, left, token, read>> /\ label' = label
          BY <3>5 DEF formatVars
        <4> QED
          BY <4>1
      <3> QED
        BY <1>10, <3>3, <3>4, <3>5
    <2>2. \A d : SummaryRead(d) => SummaryRead(d)'
      BY <2>1, StandsStill
    <2>3. ASSUME label = "reading", label' = "undefined", bytes = W
          PROVE  FALSE
      <3>1. \/ ReadingNames /\ ~HasStrings(4)
            \/ ReadingAttr /\ ~(IF layout = "string" THEN HasStrings(0) ELSE HasNumbers)
        BY <1>10, <2>3 DEF EndOfSummary, Undefined, formatVars, ReadingToken, ReadingInvert
      <3>2. CASE ReadingNames /\ ~HasStrings(4)
        BY <1>1, <1>5, <2>3, <3>2, HeadIsRead DEF ReadingNames, W
      <3>3. CASE ReadingAttr /\ ~(IF layout = "string" THEN HasStrings(0) ELSE HasNumbers)
        <4>1. PICK d \in 0..Len(written.docs) : SummaryRead(d)
          BY <1>5, <3>3 DEF ReadingAttr
        <4>2. d \in 0..(Len(written.docs) - 1) /\ at = HeadEnd + Ends(AttrRecords)[d]
          BY <1>2, <3>3, <4>1 DEF ReadingAttr, SummaryRead
        <4>3. layout = "string" => HasStrings(0)
          BY <1>1, <1>5, <2>3, <4>2, AttrIsRead DEF W
        <4>4. layout = "number" => HasNumbers
          BY <1>1, <1>5, <2>3, <4>2, AttrIsRead DEF W
        <4> QED
          BY <1>1, <3>3, <4>3, <4>4 DEF Summarized
      <3> QED
        BY <3>1, <3>2, <3>3
    <2>4. \/ at' = 0 /\ left' = 0 /\ read' = [names |-> <<>>, docs |-> <<>>]
          \/ label' # "writing" /\ \E d \in 0..Len(written'.docs) : SummaryRead(d)'
      BY <1>5, <2>1, <2>2
    <2> QED
      BY <1>4, <1>5, <2>1, <2>3, <2>4 DEF AttributesFollow, W
  <1>11. ~(ReadToken \/ ReadInvert \/ EndOfIndex)
    BY DEF ReadToken, ReadInvert, EndOfIndex, ReadingToken, ReadingInvert
  <1> QED
    BY <1>7, <1>8, <1>9, <1>10, <1>11 DEF FormatNext

-----------------------------------------------------------------------------
(* What the invariant says of what searchd has.                            *)
LEMMA ListsOfTokens ==
  ASSUME written \in Inverters
  PROVE  /\ DOMAIN Lists = {Tok(i).str : i \in 1..Len(written)}
         /\ Lists = [s \in DOMAIN Lists |-> Lists[s]]
         /\ \A i \in 1..Len(written) : Lists[Tok(i).str] = Tok(i).docs
  <1>1. DOMAIN Lists = {Tok(i).str : i \in 1..Len(written)}
    BY DEF Lists, Tok
  <1>2. Lists = [s \in DOMAIN Lists |-> Lists[s]]
    BY DEF Lists
  <1>3. ASSUME NEW i \in 1..Len(written)
        PROVE  Lists[Tok(i).str] = Tok(i).docs
    <2> DEFINE s == Tok(i).str
               t == CHOOSE x \in ToSet(written) : x.str = s
    <2>1. ToSet(written) = {Tok(k) : k \in 1..Len(written)}
      <3>1. written \in Seq(ToSet(written))
        BY FormatAssumption
      <3>2. DOMAIN written = 1..Len(written)
        BY <3>1
      <3> QED
        BY <3>2 DEF ToSet, Tok
    <2>2. \E x \in ToSet(written) : x.str = s
      BY <2>1
    <2>3. t \in ToSet(written) /\ t.str = s
      BY <2>2
    <2>4. PICK k \in 1..Len(written) : t = Tok(k)
      BY <2>1, <2>3
    <2>5. k = i
      BY <2>3, <2>4, IndexInBytes
    <2>6. Lists[s] = t.docs
      BY <1>1 DEF Lists
    <2> QED
      BY <2>4, <2>5, <2>6
  <1> QED
    BY <1>1, <1>2, <1>3

(* The first of a token's documents.                                       *)
LEMMA FirstIsPrefix ==
  ASSUME NEW docs, docs \in Seq(ToSet(docs)), NEW j \in 0..Len(docs)
  PROVE  IsPrefix(FirstOf(docs, j), docs) /\ Len(FirstOf(docs, j)) = j
  <1> DEFINE S == ToSet(docs)
             f == FirstOf(docs, j)
             z == 0
  <1>1. /\ Len(docs) \in Nat /\ j \in Nat /\ j <= Len(docs)
        /\ \A k \in 1..Len(docs) : docs[k] \in S
    BY LenProperties, ElementOfSeq
  <1>2. f \in [1..j -> S] /\ \A k \in 1..j : f[k] = docs[k]
    <2>1. \A k \in 1..j : docs[k] \in S
      BY <1>1
    <2> HIDE DEF S
    <2> QED
      BY <2>1 DEF FirstOf
  <1>3. docs \in Seq(S)
    OBVIOUS
  <1> HIDE DEF f, S
  <1>4. f \in Seq(S) /\ Len(f) = j
    BY <1>1, <1>2
  <1>5. \A k \in 1..j : z + k = k
    BY <1>1
  <1>6. z \in Nat /\ z + 1 = 1 /\ z + Len(f) = Len(f) /\ z + Len(f) <= Len(docs)
    BY <1>1, <1>4
  <1> HIDE DEF z
  <1>7. StandsAt(f, z, docs)
    BY <1>2, <1>4, <1>5, <1>6 DEF StandsAt
  <1>8. SubSeq(docs, z + 1, z + Len(f)) = f
    BY <1>3, <1>4, <1>6, <1>7, StandingPart
  <1>9. SubSeq(f, 1, Len(f)) = f
    BY <1>4, WholePart
  <1>10. IsPrefix(f, docs)
    BY <1>1, <1>4, <1>6, <1>8, <1>9 DEF IsPrefix
  <1> QED
    BY <1>4, <1>10 DEF f

(* Only the end of the file is followed by no token.                       *)
LEMMA TokensFollow ==
  ASSUME written \in Inverters, NEW i \in 0..Len(written),
         Ends(Records)[i] >= Len(FileOfIndex(written))
  PROVE  i = Len(written)
  <1> SUFFICES ASSUME i # Len(written)
               PROVE  FALSE
    OBVIOUS
  <1>1. i + 1 \in 1..Len(written) /\ (i + 1) - 1 = i
    BY IndexInBytes
  <1> DEFINE R == TokenBytes(Tok(i + 1))
             e == Ends(Records)
  <1>2. IsToken(Tok(i + 1)) /\ StandsAt(R, e[i], FileOfIndex(written)) /\ e[i] \in Nat
    <2>1. StandsAt(R, e[(i + 1) - 1], FileOfIndex(written)) /\ IsToken(Tok(i + 1))
      BY <1>1, IndexInBytes
    <2> QED
      BY <1>1, <2>1, IndexInBytes
  <1>3. R \in Seq(Byte) /\ Len(R) \in Nat /\ Len(R) > 0
    <2> DEFINE t == Tok(i + 1)
    <2>1. /\ R \in Seq(Byte) /\ Len(t.str) \in Nat /\ Len(t.docs) \in Nat
          /\ Ends(InvertsOf(t)) \in [0..Len(t.docs) -> Nat]
          /\ Len(R) = HeadLength(t) + Ends(InvertsOf(t))[Len(t.docs)]
      BY <1>2, TokenInBytes
    <2>2. Ends(InvertsOf(t))[Len(t.docs)] \in Nat /\ HeadLength(t) = 16 + Len(t.str)
      BY <2>1 DEF HeadLength
    <2> HIDE DEF t
    <2>3. \A x, y \in Nat : 16 + x + y \in Nat /\ 16 + x + y > 0
      OBVIOUS
    <2> QED
      BY <2>1, <2>2, <2>3
  <1>4. FileOfIndex(written) \in Seq(Byte) /\ Len(FileOfIndex(written)) \in Nat
    BY IndexInBytes, LenProperties
  <1>5. e[i] + Len(R) <= Len(FileOfIndex(written)) /\ e[i] >= Len(FileOfIndex(written))
    BY <1>2 DEF StandsAt
  <1> HIDE DEF R, e
  <1> QED
    BY <1>2, <1>3, <1>4, <1>5

(* What the invariant says of posting lists is what searchd should have.   *)
LEMMA PostingsAreRead ==
  ASSUME Kind, PostingsWhole
  PROVE  PostingsReadBack
  <1> SUFFICES ASSUME layout = "index", \A s \in DOMAIN Lists : Len(s) < BUFF_SIZE
               PROVE  /\ \A s \in DOMAIN read :
                           s \in DOMAIN Lists /\ IsPrefix(read[s], Lists[s])
                      /\ label = "done" /\ bytes = FileOfIndex(written) => read = Lists
                      /\ label = "undefined" => bytes # FileOfIndex(written)
    BY DEF PostingsReadBack
  <1>1. written \in Inverters /\ Len(written) \in Nat
    <2>1. written \in Inverters
      BY DEF Kind
    <2> QED
      BY <2>1, IndexInBytes
  <1>2. /\ DOMAIN Lists = {Tok(i).str : i \in 1..Len(written)}
        /\ Lists = [s \in DOMAIN Lists |-> Lists[s]]
        /\ \A i \in 1..Len(written) : Lists[Tok(i).str] = Tok(i).docs
    BY <1>1, ListsOfTokens
  <1>3. Short
    BY <1>2 DEF Short
  <1>4. Somewhere
    BY <1>1, <1>3 DEF PostingsWhole, Somewhere
  <1>5. ASSUME NEW i \in 1..Len(written)
        PROVE  /\ Tok(i).docs \in Seq(ToSet(Tok(i).docs)) /\ Len(Tok(i).docs) \in Nat
               /\ Tok(i).str \in DOMAIN Lists
               /\ IsPrefix(Tok(i).docs, Lists[Tok(i).str])
               /\ \A j \in 0..Len(Tok(i).docs) :
                    IsPrefix(FirstOf(Tok(i).docs, j), Lists[Tok(i).str])
    <2> DEFINE docs == Tok(i).docs
    <2>1. docs \in Seq(ToSet(docs))
      BY <1>1, IndexInBytes DEF IsToken
    <2>2. Len(docs) \in Nat /\ Len(docs) \in 0..Len(docs)
      BY <2>1, LenProperties
    <2> HIDE DEF docs
    <2>3. \A j \in 0..Len(docs) : IsPrefix(FirstOf(docs, j), docs)
      BY <2>1, FirstIsPrefix
    <2>4. IsPrefix(docs, docs)
      BY <2>1, <2>2, <2>3, FirstOfDocs
    <2> QED
      BY <1>2, <2>1, <2>2, <2>3, <2>4 DEF docs
  <1>6. ASSUME NEW s \in DOMAIN read
        PROVE  s \in DOMAIN Lists /\ IsPrefix(read[s], Lists[s])
    <2>1. CASE \E i \in 0..Len(written) : Between(i)
      <3>1. PICK i \in 0..Len(written) : Between(i)
        BY <2>1
      <3>2. PICK k \in 1..i : s = Tok(k).str
        BY <3>1 DEF Between
      <3>3. k \in 1..Len(written) /\ read[s] = Tok(k).docs
        BY <1>1, <3>1, <3>2 DEF Between, HasListsOf
      <3> QED
        BY <1>5, <3>2, <3>3
    <2>2. CASE \E i \in 1..Len(written) : \E j \in 0..Len(Tok(i).docs) : Within(i, j)
      <3>1. PICK i \in 1..Len(written) : \E j \in 0..Len(Tok(i).docs) : Within(i, j)
        BY <2>2
      <3>2. PICK j \in 0..Len(Tok(i).docs) : Within(i, j)
        BY <3>1
      <3>3. CASE \E k \in 1..(i - 1) : s = Tok(k).str
        <4>1. PICK k \in 1..(i - 1) : s = Tok(k).str
          BY <3>3
        <4>2. k \in 1..Len(written) /\ read[s] = Tok(k).docs
          BY <1>1, <3>2, <4>1 DEF Within, HasListsOf
        <4> QED
          BY <1>5, <4>1, <4>2
      <3>4. CASE j # 0 /\ s = token
        <4>1. s = Tok(i).str /\ read[s] = FirstOf(Tok(i).docs, j)
          BY <3>2, <3>4 DEF Within
        <4> QED
          BY <1>5, <3>2, <4>1
      <3> QED
        BY <3>2, <3>3, <3>4 DEF Within
    <2> QED
      BY <1>4, <2>1, <2>2 DEF Somewhere
  <1>7. ASSUME label = "done", bytes = FileOfIndex(written)
        PROVE  read = Lists
    <2>1. left = 0 /\ at >= Len(FileOfIndex(written))
      BY <1>7 DEF PostingsWhole
    <2>2. PICK i \in 0..Len(written) : Between(i)
      <3>1. \A i \in 1..Len(written) : \A j \in 0..Len(Tok(i).docs) : ~Within(i, j)
        <4> SUFFICES ASSUME NEW i \in 1..Len(written), NEW j \in 0..Len(Tok(i).docs),
                            Within(i, j)
                     PROVE  FALSE
          OBVIOUS
        <4>1. Len(Tok(i).docs) \in Nat
          BY <1>5
        <4> QED
          BY <2>1, <4>1 DEF Within
      <3> QED
        BY <1>4, <3>1 DEF Somewhere
    <2>3. i = Len(written)
      BY <1>1, <2>1, <2>2, TokensFollow DEF Between
    <2>4. /\ DOMAIN read = DOMAIN Lists /\ read = [s \in DOMAIN read |-> read[s]]
          /\ \A k \in 1..Len(written) : read[Tok(k).str] = Lists[Tok(k).str]
      BY <1>2, <2>2, <2>3 DEF Between, HasListsOf
    <2>5. \A s \in DOMAIN read : read[s] = Lists[s]
      BY <1>2, <2>4
    <2> QED
      BY <1>2, <2>4, <2>5
  <1>8. label = "undefined" => bytes # FileOfIndex(written)
    BY <1>3 DEF PostingsWhole
  <1> QED
    BY <1>6, <1>7, <1>8

(* What the invariant says of attributes is what searchd should have.      *)
LEMMA AttributesAreRead ==
  ASSUME Kind, AttributesFollow
  PROVE  AttributesReadBack
  <1> SUFFICES ASSUME layout # "index"
               PROVE  /\ at > 0 => StoredTexts(read.names) = written.names
                      /\ \A d \in 1..Len(read.docs) : ValuesOf(read.docs[d]) = written.docs[d]
                      /\ label = "done" => Len(read.docs) = Len(written.docs)
                      /\ label = "undefined" => bytes # FileOfSummary(written)
    BY DEF AttributesReadBack
  <1>1. Summarized
    BY DEF Kind, Summarized
  <1>2. /\ AreTexts(written.names) /\ Len(written.docs) \in Nat
        /\ \A d \in 1..Len(written.docs) : IsAttr(written.docs[d])
    BY <1>1, SummaryInBytes
  <1>3. /\ \/ at = 0 /\ read = [names |-> <<>>, docs |-> <<>>]
           \/ \E d \in 0..Len(written.docs) : SummaryRead(d)
        /\ label = "done" => at > 0 /\ left = 0
        /\ label = "undefined" => bytes # FileOfSummary(written)
    BY DEF AttributesFollow
  <1>4. ASSUME NEW k \in 1..Len(written.docs)
        PROVE  ValuesOf(KeptOf(written.docs[k])) = written.docs[k]
    <2> DEFINE v == written.docs[k]
    <2>1. IsAttr(v)
      BY <1>2
    <2> HIDE DEF v
    <2>2. CASE layout = "string"
      <3>1. StoredTexts(AttrString(v)) = v
        BY <2>1, <2>2, TextsAreStored DEF IsAttr
      <3> QED
        BY <2>2, <3>1 DEF ValuesOf, KeptOf, v
    <2>3. CASE layout # "string"
      BY <2>3 DEF ValuesOf, KeptOf
    <2> QED
      BY <2>2, <2>3
  <1>5. CASE at = 0 /\ read = [names |-> <<>>, docs |-> <<>>]
    <2>1. Len(read.docs) = 0 /\ ~(at > 0)
      BY <1>5
    <2> QED
      BY <1>3, <2>1
  <1>6. CASE \E d \in 0..Len(written.docs) : SummaryRead(d)
    <2>1. PICK d \in 0..Len(written.docs) : SummaryRead(d)
      BY <1>6
    <2>2. /\ Len(Kept) = Len(written.docs) /\ Kept \in Seq(ToSet(Kept))
          /\ \A k \in 1..Len(written.docs) : Kept[k] = KeptOf(written.docs[k])
      BY <1>1, KeptDocs
    <2>3. read.names = AttrString(written.names) /\ read.docs = FirstOf(Kept, d)
          /\ left = Len(written.docs) - d
      BY <2>1 DEF SummaryRead
    <2>4. Len(read.docs) = d
      BY <2>2, <2>3, FirstIsPrefix
    <2>5. StoredTexts(read.names) = written.names
      BY <1>2, <2>3, TextsAreStored
    <2>6. ASSUME NEW k \in 1..Len(read.docs)
          PROVE  ValuesOf(read.docs[k]) = written.docs[k]
      <3>1. k \in 1..d /\ k \in 1..Len(written.docs)
        BY <1>2, <2>4
      <3>2. read.docs[k] = KeptOf(written.docs[k])
        BY <2>2, <2>3, <3>1 DEF FirstOf
      <3> QED
        BY <1>4, <3>1, <3>2
    <2>7. label = "done" => Len(read.docs) = Len(written.docs)
      BY <1>2, <1>3, <2>3, <2>4
    <2> QED
      BY <1>3, <2>5, <2>6, <2>7
  <1> QED
    BY <1>3, <1>5, <1>6

(* LookaIndexReader undoes LookaIndexWriter: whatever is written, searchd  *)
(* has the same lists, numbers and texts, and of a torn file only true     *)
(* ones (looka_file.cpp:17-335).                                           *)
THEOREM FilesAreReadBack == FormatSpec => []FilesReadBack
  <1>1. FormatInit => FormatInv
    <2> SUFFICES ASSUME FormatInit
                 PROVE  FormatInv
      OBVIOUS
    <2>1. Kind
      BY DEF FormatInit, Kind
    <2>2. PostingsWhole
      BY PostingsInit
    <2>3. AttributesFollow
      BY DEF FormatInit, AttributesFollow
    <2> QED
      BY <2>1, <2>2, <2>3 DEF FormatInv
  <1>2. FormatInv /\ [FormatNext]_formatVars => FormatInv'
    <2> SUFFICES ASSUME FormatInv, [FormatNext]_formatVars
                 PROVE  FormatInv'
      OBVIOUS
    <2>1. UNCHANGED <<layout, written>>
      BY DEF FormatNext, formatVars, Write, WriteTorn, ReadToken, ReadInvert, EndOfIndex,
             ReadNames, ReadTexts, ReadNumbers, EndOfSummary, Undefined
    <2>2. Kind'
      BY <2>1, SameContents DEF FormatInv
    <2>3. PostingsWhole'
      <3>1. CASE layout = "index"
        BY <3>1, PostingsNext DEF FormatInv
      <3>2. CASE layout # "index"
        BY <2>1, <3>2 DEF PostingsWhole
      <3> QED
        BY <3>1, <3>2
    <2>4. AttributesFollow'
      <3>1. CASE layout # "index"
        BY <3>1, AttributesNext DEF FormatInv
      <3>2. CASE layout = "index"
        BY <2>1, <3>2 DEF AttributesFollow
      <3> QED
        BY <3>1, <3>2
    <2> QED
      BY <2>2, <2>3, <2>4 DEF FormatInv
  <1>3. FormatInv => FilesReadBack
    BY PostingsAreRead, AttributesAreRead DEF FormatInv, FilesReadBack
  <1> QED
    BY <1>1, <1>2, <1>3, PTL DEF FormatSpec

=============================================================================
