---------------------------- MODULE TextsProofs ----------------------------
(***************************************************************************)
(* Proofs about three of the parts that turn text into data: ConfigParser, *)
(* for every file of any number of sections, SqlFile, for every text, and  *)
(* RequestText, for every header and every parameters.                     *)
(***************************************************************************)
EXTENDS ConfigParser, SqlFile, RequestText, SequenceTheorems, WellFoundedInduction, TLAPS

-----------------------------------------------------------------------------
(* Sequences.                                                              *)

(* A sequence, of whatever.                                                *)
IsText(s) == s \in Seq(ToSet(s))

(* The least element of a set of numbers.                                  *)
LEMMA LeastNatural ==
  ASSUME NEW S \in SUBSET Nat, S # {}
  PROVE  \E m \in S : \A n \in S : m <= n
  <1> DEFINE R == OpToRel(<, Nat)
  <1>1. IsWellFoundedOn(R, Nat)
    BY NatLessThanWellFounded
  <1>2. \E m \in S : \A n \in S : ~ (<<n, m>> \in R)
    <2> HIDE DEF R
    <2> QED
      BY <1>1, WFMin
  <1>3. \A m, n \in Nat : n < m => <<n, m>> \in R
    BY DEF OpToRel
  <1> HIDE DEF R
  <1>4. \A m, n \in Nat : ~(n < m) => m <= n
    OBVIOUS
  <1> QED
    BY <1>2, <1>3, <1>4

(* Induction, with a set in the place of a predicate.                      *)
LEMMA SetInduction ==
  ASSUME NEW P \in SUBSET Nat, 0 \in P, \A n \in P : n + 1 \in P
  PROVE  P = Nat
  <1> SUFFICES ASSUME Nat \ P # {}
               PROVE  FALSE
    OBVIOUS
  <1>1. PICK m \in Nat \ P : \A n \in Nat \ P : m <= n
    <2>1. Nat \ P \in SUBSET Nat
      OBVIOUS
    <2> QED
      BY <2>1, LeastNatural
  <1>2. m # 0 /\ m - 1 \in Nat /\ ~(m <= m - 1) /\ m = (m - 1) + 1
    BY <1>1
  <1>3. m - 1 \in P
    BY <1>1, <1>2
  <1> QED
    BY <1>1, <1>2, <1>3

(* ConcatAssociative, for all sequences of a set.                          *)
LEMMA Regrouped ==
  ASSUME NEW S
  PROVE  \A x, y, z \in Seq(S) : (x \o y) \o z = x \o (y \o z)
  <1> SUFFICES ASSUME NEW x \in Seq(S), NEW y \in Seq(S), NEW z \in Seq(S)
               PROVE  (x \o y) \o z = x \o (y \o z)
    OBVIOUS
  <1> QED
    BY ConcatAssociative

(* A sequence is a text.                                                   *)
LEMMA TextOfSeq ==
  ASSUME NEW S, NEW s \in Seq(S)
  PROVE  IsText(s)
  <1>1. Len(s) \in Nat /\ s \in [1..Len(s) -> S] /\ DOMAIN s = 1..Len(s)
    BY LenProperties
  <1>2. s \in [1..Len(s) -> ToSet(s)]
    BY <1>1 DEF ToSet
  <1> QED
    BY <1>1, <1>2, SeqDef DEF IsText

(* Two sequences and an element are of one set.                            *)
LEMMA TextsOfOneSet ==
  ASSUME NEW s, NEW t, IsText(s), IsText(t), NEW e
  PROVE  \E S : e \in S /\ s \in Seq(S) /\ t \in Seq(S)
  <1> DEFINE S == ToSet(s) \cup ToSet(t) \cup {e}
  <1>1. s \in Seq(S)
    <2>1. ToSet(s) \subseteq S
      OBVIOUS
    <2> QED
      BY <2>1, SeqMonotonic DEF IsText
  <1>2. t \in Seq(S)
    <2>1. ToSet(t) \subseteq S
      OBVIOUS
    <2> QED
      BY <2>1, SeqMonotonic DEF IsText
  <1>3. e \in S
    OBVIOUS
  <1> QED
    BY <1>1, <1>2, <1>3

(* What Append adds, without a set the elements are in.                    *)
LEMMA AppendToText ==
  ASSUME NEW s, IsText(s), NEW e
  PROVE  /\ IsText(Append(s, e))
         /\ Len(s) \in Nat /\ Len(Append(s, e)) = Len(s) + 1
         /\ \A i \in 1..Len(s) : Append(s, e)[i] = s[i]
         /\ Append(s, e)[Len(s) + 1] = e
  <1>1. PICK S : e \in S /\ s \in Seq(S)
    BY TextsOfOneSet
  <1>2. Append(s, e) \in Seq(S)
    BY <1>1, AppendProperties
  <1>3. Len(s) \in Nat /\ Len(Append(s, e)) = Len(s) + 1
        /\ (\A i \in 1..Len(s) : Append(s, e)[i] = s[i])
        /\ Append(s, e)[Len(s) + 1] = e
    BY <1>1, AppendProperties, LenProperties
  <1> QED
    BY <1>2, <1>3, TextOfSeq

(* A sum over a line of ancestors, each with a smaller number than the     *)
(* one before: up[k] = 0 if there is none.                                 *)
Above(up, N) == \A k \in 1..N : up[k] < k

SumOf(f, own, up, N) ==
  \A k \in 1..N : f[k] = IF up[k] = 0 THEN own[k] ELSE own[k] \o f[up[k]]

(* Whatever is inherited along places further up is there for every place. *)
LEMMA SumOfAncestors ==
  ASSUME NEW S, NEW N \in Nat, NEW own \in [1..N -> Seq(S)], NEW up \in [1..N -> Nat],
         Above(up, N)
  PROVE  \E f \in [1..N -> Seq(S)] : SumOf(f, own, up, N)
  <1>0. \A k \in 1..N : up[k] < k
    BY DEF Above
  <1> DEFINE Sums(g, n) == \A k \in 1..n :
                  g[k] = IF up[k] = 0 THEN own[k] ELSE own[k] \o g[up[k]]
             P == {n \in Nat : n <= N => \E g \in [1..n -> Seq(S)] : Sums(g, n)}
  <1>1. 0 \in P
    <2>1. [i \in 1..0 |-> <<>>] \in [1..0 -> Seq(S)] /\ Sums([i \in 1..0 |-> <<>>], 0)
      OBVIOUS
    <2> QED
      BY <2>1
  <1>2. ASSUME NEW n \in P
        PROVE  n + 1 \in P
    <2>0. n \in Nat /\ n + 1 \in Nat
      OBVIOUS
    <2> SUFFICES ASSUME n + 1 <= N
                 PROVE  \E h \in [1..(n + 1) -> Seq(S)] : Sums(h, n + 1)
      BY <2>0
    <2>1. PICK g \in [1..n -> Seq(S)] : Sums(g, n)
      <3>1. n <= N
        BY <2>0
      <3>2. \E g \in [1..n -> Seq(S)] : Sums(g, n)
        <4> HIDE DEF Sums
        <4> QED
          BY <1>2, <3>1
      <3> QED
        BY <3>2
    <2> DEFINE last == IF up[n + 1] = 0 THEN own[n + 1] ELSE own[n + 1] \o g[up[n + 1]]
               h == [i \in 1..(n + 1) |-> IF i = n + 1 THEN last ELSE g[i]]
    <2>2. n + 1 \in 1..N /\ up[n + 1] \in 0..n
      BY <1>0, <2>0
    <2>3. last \in Seq(S)
      <3>1. CASE up[n + 1] = 0
        BY <2>2, <3>1
      <3>2. CASE up[n + 1] # 0
        <4>1. g[up[n + 1]] \in Seq(S) /\ own[n + 1] \in Seq(S)
          BY <2>0, <2>1, <2>2, <3>2
        <4> QED
          BY <3>2, <4>1, ConcatProperties
      <3> QED
        BY <3>1, <3>2
    <2>4. h \in [1..(n + 1) -> Seq(S)]
      <3> HIDE DEF last
      <3> QED
        BY <2>0, <2>1, <2>3
    <2>5. Sums(h, n + 1)
      <3>1. \A i \in 1..n : h[i] = g[i]
        <4> HIDE DEF last
        <4> QED
          BY <2>0
      <3>2. h[n + 1] = last
        BY <2>0
      <3> HIDE DEF h
      <3> SUFFICES ASSUME NEW k \in 1..(n + 1)
                   PROVE  h[k] = IF up[k] = 0 THEN own[k] ELSE own[k] \o h[up[k]]
        OBVIOUS
      <3>3. CASE k = n + 1
        <4>1. up[n + 1] # 0 => h[up[n + 1]] = g[up[n + 1]]
          BY SMTT(40), <2>0, <2>2, <3>1
        <4> QED
          BY <3>2, <3>3, <4>1
      <3>4. CASE k # n + 1
        <4>1. k \in 1..n /\ k \in 1..N /\ up[k] \in Nat /\ up[k] < k
          BY <1>0, <2>0, <3>4
        <4>2. h[k] = g[k] /\ (up[k] # 0 => h[up[k]] = g[up[k]])
          <5>1. up[k] # 0 => up[k] \in 1..n
            <6>1. k \in Nat /\ k <= n
              BY <2>0, <4>1
            <6>2. \A u \in Nat : u # 0 /\ u < k => u \in 1..n
              BY <2>0, <6>1
            <6> QED
              BY <4>1, <6>2
          <5> QED
            BY <3>1, <4>1, <5>1
        <4>3. g[k] = IF up[k] = 0 THEN own[k] ELSE own[k] \o g[up[k]]
          BY <2>1, <4>1
        <4> QED
          BY <4>2, <4>3
      <3> QED
        BY <3>3, <3>4
    <2> QED
      BY <2>4, <2>5
  <1>3. N \in P
    <2>1. P \in SUBSET Nat
      OBVIOUS
    <2> HIDE DEF P
    <2> QED
      BY <1>1, <1>2, <2>1, SetInduction
  <1>4. PICK g \in [1..N -> Seq(S)] : Sums(g, N)
    BY <1>3
  <1> QED
    BY <1>4 DEF SumOf

(* Flattened sequences.                                                    *)

(* FlattenSeq's partial results: the n-th is the first n sequences.        *)
LEMMA FlattenUnfolds ==
  ASSUME NEW S, NEW s \in Seq(Seq(S)), s # <<>>
  PROVE  \E g \in [1..Len(s) -> Seq(S)] :
           /\ FlattenSeq(s) = g[Len(s)]
           /\ g[1] = s[1]
           /\ \A n \in 1..(Len(s) - 1) : g[n + 1] = g[n] \o s[n + 1]
  <1> DEFINE N == Len(s)
             Grows(g, n) == \A i \in 1..n : g[i] = IF i = 1 THEN s[i] ELSE g[i - 1] \o s[i]
             P == {n \in Nat : n <= N => \E g \in [1..n -> Seq(S)] : Grows(g, n)}
  <1>1. N \in Nat /\ N # 0 /\ \A i \in 1..N : s[i] \in Seq(S)
    BY EmptySeq, LenProperties, ElementOfSeq
  <1>2. 0 \in P
    <2>1. [i \in 1..0 |-> <<>>] \in [1..0 -> Seq(S)] /\ Grows([i \in 1..0 |-> <<>>], 0)
      OBVIOUS
    <2> QED
      BY <2>1
  <1>3. ASSUME NEW n \in P
        PROVE  n + 1 \in P
    <2>0. n \in Nat /\ n + 1 \in Nat
      OBVIOUS
    <2> SUFFICES ASSUME n + 1 <= N
                 PROVE  \E h \in [1..(n + 1) -> Seq(S)] : Grows(h, n + 1)
      BY <2>0
    <2>1. PICK g \in [1..n -> Seq(S)] : Grows(g, n)
      BY <1>1
    <2> DEFINE last == IF n = 0 THEN s[1] ELSE g[n] \o s[n + 1]
               h == [i \in 1..(n + 1) |-> IF i = n + 1 THEN last ELSE g[i]]
    <2>2. last \in Seq(S)
      <3>1. CASE n = 0
        BY <3>1, <1>1
      <3>2. CASE n # 0
        <4>1. g[n] \in Seq(S) /\ s[n + 1] \in Seq(S)
          BY <1>1, <2>1, <3>2
        <4> QED
          BY <3>2, <4>1, ConcatProperties
      <3> QED
        BY <3>1, <3>2
    <2>3. h \in [1..(n + 1) -> Seq(S)]
      <3> HIDE DEF last
      <3> QED
        BY <2>1, <2>2
    <2>4. Grows(h, n + 1)
      <3>1. \A i \in 1..n : h[i] = g[i]
        <4> HIDE DEF last
        <4> QED
          BY <2>0
      <3>2. h[n + 1] = last
        BY <2>0
      <3> SUFFICES ASSUME NEW i \in 1..(n + 1)
                   PROVE  h[i] = IF i = 1 THEN s[i] ELSE h[i - 1] \o s[i]
        OBVIOUS
      <3>3. CASE i = n + 1
        <4>1. n # 0 => h[n] = g[n]
          BY <2>0, <3>1
        <4> HIDE DEF h
        <4> QED
          BY <2>0, <3>2, <3>3, <4>1
      <3>4. CASE i # n + 1
        <4>0. i \in 1..n
          BY <2>0, <3>4
        <4>1. g[i] = IF i = 1 THEN s[i] ELSE g[i - 1] \o s[i]
          BY <2>1, <4>0
        <4>2. h[i] = g[i] /\ (i # 1 => h[i - 1] = g[i - 1])
          BY <2>0, <3>1, <3>4
        <4> HIDE DEF h
        <4> QED
          BY <4>1, <4>2
      <3> QED
        BY <3>3, <3>4
    <2> QED
      BY <2>3, <2>4
  <1>4. PICK g \in [1..N -> Seq(S)] : Grows(g, N)
    <2>1. P \in SUBSET Nat
      OBVIOUS
    <2> HIDE DEF P
    <2>2. P = Nat
      BY <1>2, <1>3, <2>1, SetInduction
    <2>3. N \in P
      BY <1>1, <2>2
    <2> QED
      BY SMTT(40), <1>1, <2>3 DEF P
  <1> DEFINE Flattens(f) ==
        f = [i \in 1..N |-> IF i = 1 THEN s[i] ELSE f[i - 1] \o s[i]]
  <1>5. Flattens(g)
    BY <1>4
  <1> DEFINE f == CHOOSE f : Flattens(f)
  <1>6. Flattens(f)
    <2> HIDE DEF Flattens
    <2> QED
      BY <1>5
  <1>7. FlattenSeq(s) = f[N]
    BY <1>1 DEF FlattenSeq
  <1> HIDE DEF f
  <1>8. \A i \in 1..N : f[i] = IF i = 1 THEN s[i] ELSE f[i - 1] \o s[i]
    BY <1>6
  <1>9. f = [i \in 1..N |-> f[i]]
    BY <1>6
  <1> DEFINE Q == {n \in Nat : n + 1 <= N => f[n + 1] \in Seq(S)}
  <1>10. 0 \in Q
    BY <1>1, <1>8
  <1>11. ASSUME NEW n \in Q
         PROVE  n + 1 \in Q
    <2>0. n \in Nat /\ n + 1 \in Nat /\ (n + 1) + 1 = n + 2
      OBVIOUS
    <2> SUFFICES ASSUME n + 2 <= N
                 PROVE  f[n + 2] \in Seq(S)
      BY <2>0
    <2>1. f[n + 2] = f[n + 1] \o s[n + 2]
      <3>1. n + 2 \in 1..N /\ n + 2 # 1 /\ (n + 2) - 1 = n + 1
        BY <1>1, <2>0
      <3> HIDE DEF N
      <3> QED
        BY <1>8, <3>1
    <2>2. f[n + 1] \in Seq(S) /\ s[n + 2] \in Seq(S)
      BY <1>1, <2>0
    <2> QED
      BY <2>1, <2>2, ConcatProperties
  <1>12. \A n \in 1..N : f[n] \in Seq(S)
    <2>1. Q \in SUBSET Nat
      OBVIOUS
    <2> HIDE DEF Q
    <2>2. Q = Nat
      BY <1>10, <1>11, <2>1, SetInduction
    <2>3. ASSUME NEW n \in 1..N
          PROVE  f[n] \in Seq(S)
      <3>1. n - 1 \in Q /\ (n - 1) + 1 = n
        BY <1>1, <2>2
      <3> QED
        BY <3>1, <1>1 DEF Q
    <2> QED
      BY <2>3
  <1>13. f \in [1..N -> Seq(S)]
    BY <1>9, <1>12
  <1>14. f[1] = s[1]
    BY <1>1, <1>8
  <1>15. ASSUME NEW n \in 1..(N - 1)
         PROVE  f[n + 1] = f[n] \o s[n + 1]
    <2>1. n + 1 \in 1..N /\ n + 1 # 1 /\ (n + 1) - 1 = n
      BY <1>1
    <2> HIDE DEF N
    <2> QED
      BY <1>8, <2>1
  <1> QED
    BY <1>7, <1>13, <1>14, <1>15

(* FlattenSeq's partial results, from none of the sequences to all: each   *)
(* is the beginning of every later one.                                    *)
Beginnings(g, s) ==
  /\ g[0] = <<>> /\ g[Len(s)] = FlattenSeq(s)
  /\ \A n \in 1..Len(s) :
       /\ g[n] = g[n - 1] \o s[n]
       /\ Len(g[n]) = Len(g[n - 1]) + Len(s[n])
       /\ \A j \in 1..Len(s[n]) : g[n][Len(g[n - 1]) + j] = s[n][j]
  /\ \A n \in 0..Len(s) : \A c \in 0..n :
       /\ Len(g[c]) <= Len(g[n])
       /\ \A i \in 1..Len(g[c]) : g[n][i] = g[c][i]

(* The beginnings of a flattened sequence of sequences exist.              *)
LEMMA FlattenPrefixes ==
  ASSUME NEW S, NEW s \in Seq(Seq(S))
  PROVE  \E g \in [0..Len(s) -> Seq(S)] : Beginnings(g, s)
  <1> DEFINE N == Len(s)
             Grows(g) == /\ g[0] = <<>> /\ g[N] = FlattenSeq(s)
                         /\ \A n \in 1..N : g[n] = g[n - 1] \o s[n]
  <1>0. N \in Nat /\ \A n \in 1..N : s[n] \in Seq(S) /\ Len(s[n]) \in Nat
    BY ElementOfSeq, LenProperties
  <1>1. \E g \in [0..N -> Seq(S)] : Grows(g)
    <2>1. CASE s = <<>>
      <3> DEFINE none == [n \in 0..N |-> <<>>]
      <3>1. N = 0 /\ FlattenSeq(s) = <<>> /\ 1..N = {} /\ 0..N = {0}
        BY <2>1 DEF FlattenSeq
      <3>2. none \in [0..N -> Seq(S)] /\ none[0] = <<>>
        BY <3>1
      <3> HIDE DEF none
      <3> QED
        BY <3>1, <3>2
    <2>2. CASE s # <<>>
      <3>1. PICK f \in [1..N -> Seq(S)] :
              /\ FlattenSeq(s) = f[N]
              /\ f[1] = s[1]
              /\ \A n \in 1..(N - 1) : f[n + 1] = f[n] \o s[n + 1]
        BY <2>2, FlattenUnfolds
      <3> DEFINE g == [n \in 0..N |-> IF n = 0 THEN <<>> ELSE f[n]]
      <3>2. g \in [0..N -> Seq(S)] /\ g[0] = <<>> /\ \A n \in 1..N : g[n] = f[n]
        BY <1>0
      <3>3. N \in 1..N
        BY <2>2, <1>0, EmptySeq
      <3> HIDE DEF g, N
      <3>4. ASSUME NEW n \in 1..N
            PROVE  g[n] = g[n - 1] \o s[n]
        <4>1. CASE n = 1
          <5>1. s[1] \in Seq(S) /\ 1 - 1 = 0
            BY <1>0, <4>1
          <5> QED
            BY <3>1, <3>2, <4>1, <5>1, ConcatEmptySeq
        <4>2. CASE n # 1
          <5>1. n - 1 \in 1..(N - 1) /\ n - 1 \in 1..N /\ (n - 1) + 1 = n
            BY <1>0, <4>2
          <5> QED
            BY <3>1, <3>2, <5>1
        <4> QED
          BY <4>1, <4>2
      <3> QED
        BY <3>1, <3>2, <3>3, <3>4
    <2> QED
      BY <2>1, <2>2
  <1>2. PICK g \in [0..N -> Seq(S)] : Grows(g)
    BY <1>1
  <1>3. \A n \in 0..N : g[n] \in Seq(S) /\ Len(g[n]) \in Nat
    BY LenProperties
  <1> DEFINE Kept(c, n) == /\ Len(g[c]) <= Len(g[n])
                           /\ \A i \in 1..Len(g[c]) : g[n][i] = g[c][i]
             P == {n \in Nat : n <= N => \A c \in 0..n : Kept(c, n)}
  <1>4. ASSUME NEW n \in 1..N
        PROVE  /\ n - 1 \in 0..N
               /\ Len(g[n]) = Len(g[n - 1]) + Len(s[n])
               /\ \A j \in 1..Len(s[n]) : g[n][Len(g[n - 1]) + j] = s[n][j]
               /\ Kept(n - 1, n)
    <2> DEFINE a == g[n - 1]
               b == s[n]
    <2>1. n - 1 \in 0..N
      BY <1>0
    <2>2. a \in Seq(S) /\ b \in Seq(S) /\ g[n] = a \o b /\ Len(a) \in Nat /\ Len(b) \in Nat
      BY <1>0, <1>2, <1>3, <2>1
    <2> HIDE DEF a, b
    <2>3. /\ Len(a \o b) = Len(a) + Len(b)
          /\ \A i \in 1..(Len(a) + Len(b)) :
               (a \o b)[i] = IF i <= Len(a) THEN a[i] ELSE b[i - Len(a)]
      BY <2>2, ConcatProperties
    <2>4. \A i \in 1..Len(a) : (a \o b)[i] = a[i]
      BY <2>2, <2>3
    <2>5. ASSUME NEW j \in 1..Len(b)
          PROVE  (a \o b)[Len(a) + j] = b[j]
      <3>1. /\ Len(a) + j \in 1..(Len(a) + Len(b)) /\ ~(Len(a) + j <= Len(a))
            /\ (Len(a) + j) - Len(a) = j
        BY <2>2
      <3> QED
        BY <2>3, <3>1
    <2>6. Len(a) <= Len(a \o b)
      BY <2>2, <2>3
    <2> QED
      BY <2>1, <2>2, <2>3, <2>4, <2>5, <2>6 DEF a, b
  <1>5. 0 \in P
    <2>1. \A c \in 0..0 : c = 0
      OBVIOUS
    <2>2. Len(g[0]) <= Len(g[0])
      BY <1>0, <1>3
    <2> QED
      BY <2>1, <2>2
  <1>6. ASSUME NEW n \in P
        PROVE  n + 1 \in P
    <2>1. n \in Nat /\ n + 1 \in Nat /\ (n + 1) - 1 = n
      OBVIOUS
    <2> SUFFICES ASSUME n + 1 <= N, NEW c \in 0..(n + 1)
                 PROVE  Kept(c, n + 1)
      BY <2>1
    <2>2. n + 1 \in 1..N /\ n \in 0..N /\ n + 1 \in 0..N /\ c \in 0..N
      BY <1>0, <2>1
    <2>3. CASE c = n + 1
      <3>1. Len(g[n + 1]) <= Len(g[n + 1])
        BY <1>3, <2>2
      <3> QED
        BY <2>3, <3>1
    <2>4. CASE c # n + 1
      <3>1. c \in 0..n
        BY <2>1, <2>4
      <3>2. Kept(c, n)
        BY <1>0, <2>1, <2>2, <3>1
      <3>3. Kept(n, n + 1)
        <4>1. Kept((n + 1) - 1, n + 1)
          <5> HIDE DEF Kept
          <5> QED
            BY <1>4, <2>2
        <4> QED
          BY <2>1, <4>1
      <3>4. Len(g[c]) \in Nat /\ Len(g[n]) \in Nat /\ Len(g[n + 1]) \in Nat
        BY <1>3, <2>2
      <3> DEFINE x == g[c]
                 y == g[n]
                 z == g[n + 1]
      <3>5. /\ Len(x) <= Len(y) /\ Len(y) <= Len(z)
            /\ \A i \in 1..Len(x) : y[i] = x[i]
            /\ \A i \in 1..Len(y) : z[i] = y[i]
        BY <3>2, <3>3
      <3>6. Len(x) \in Nat /\ Len(y) \in Nat /\ Len(z) \in Nat
        BY <3>4
      <3> HIDE DEF x, y, z
      <3>7. Len(x) <= Len(z) /\ \A i \in 1..Len(x) : i \in 1..Len(y)
        <4> SUFFICES ASSUME NEW k \in Nat, NEW l \in Nat, NEW m \in Nat, k <= l, l <= m
                     PROVE  k <= m /\ \A i \in 1..k : i \in 1..l
          BY <3>5, <3>6
        <4> QED
          OBVIOUS
      <3>8. \A i \in 1..Len(x) : z[i] = x[i]
        BY <3>5, <3>7
      <3> QED
        BY <3>7, <3>8 DEF x, y, z
    <2> QED
      BY <2>3, <2>4
  <1>7. \A n \in 0..N : \A c \in 0..n : Kept(c, n)
    <2>1. P \in SUBSET Nat
      OBVIOUS
    <2>2. P = Nat
      <3> HIDE DEF P
      <3> QED
        BY <1>5, <1>6, <2>1, SetInduction
    <2>3. \A n \in 0..N : n \in Nat /\ n <= N
      BY <1>0
    <2> HIDE DEF Kept
    <2> QED
      BY <2>2, <2>3
  <1> HIDE DEF P
  <1> QED
    BY <1>2, <1>4, <1>7 DEF Beginnings

(* Texts one after the other.                                              *)
Joined(s, t, S) ==
  /\ s \o t \in Seq(S) /\ Len(s \o t) = Len(s) + Len(t)
  /\ \A i \in 1..Len(s) : (s \o t)[i] = s[i]
  /\ \A i \in 1..Len(t) : (s \o t)[Len(s) + i] = t[i]
  /\ \A i \in 1..(Len(s) + Len(t)) : (s \o t)[i] = IF i <= Len(s) THEN s[i] ELSE t[i - Len(s)]

(* Where the elements of two texts stand in their concatenation.           *)
LEMMA JoinedTexts ==
  ASSUME NEW S, NEW s \in Seq(S), NEW t \in Seq(S)
  PROVE  Joined(s, t, S)
  BY ConcatProperties DEF Joined

Associates(a, b, c) == (a \o b) \o c = a \o (b \o c)

(* Concatenation is associative.                                           *)
LEMMA Associated ==
  ASSUME NEW S, NEW a \in Seq(S), NEW b \in Seq(S), NEW c \in Seq(S)
  PROVE  Associates(a, b, c)
  BY Regrouped DEF Associates

(* The least element of a set of numbers, when there is one.               *)
LEMMA MinIsLeast ==
  ASSUME NEW M \in SUBSET Nat, M # {}
  PROVE  Min(M) \in M /\ \A i \in M : Min(M) <= i
  <1>1. \E m \in M : \A i \in M : m <= i
    BY LeastNatural
  <1> QED
    BY <1>1 DEF Min

(* A part of the second of two texts.                                      *)
LEMMA PartOfSecond ==
  ASSUME NEW S, NEW q \in Seq(S), NEW r \in Seq(S),
         NEW m \in 1..(Len(r) + 1), NEW n \in Nat, m - 1 <= n, n <= Len(r)
  PROVE  SubSeq(q \o r, Len(q) + m, Len(q) + n) = SubSeq(r, m, n)
  <1>1. Len(q) \in Nat /\ Len(r) \in Nat
    BY LenProperties
  <1>2. CASE m <= n
    <2>1. Len(q) + m \in (Len(q) + 1)..(Len(q) + Len(r)) /\
          Len(q) + n \in (Len(q) + 1)..(Len(q) + Len(r)) /\
          (Len(q) + m) - Len(q) = m /\ (Len(q) + n) - Len(q) = n
      BY <1>1, <1>2
    <2> QED
      BY <2>1, SubSeqOfConcat2
  <1>3. CASE ~(m <= n)
    <2>1. m \in Int /\ n \in Int /\ Len(q) + m \in Int /\ Len(q) + n \in Int
          /\ n < m /\ Len(q) + n < Len(q) + m
      BY <1>1, <1>3
    <2>2. SubSeq(q \o r, Len(q) + m, Len(q) + n) = <<>>
      BY <2>1, SubSeqEmpty
    <2>3. SubSeq(r, m, n) = <<>>
      BY <2>1, SubSeqEmpty
    <2> QED
      BY <2>2, <2>3
  <1> QED
    BY <1>2, <1>3

(* A part of the first of two texts.                                       *)
LEMMA PartOfFirst ==
  ASSUME NEW S, NEW q \in Seq(S), NEW r \in Seq(S),
         NEW m \in 1..(Len(q) + 1), NEW n \in Nat, m - 1 <= n, n <= Len(q)
  PROVE  SubSeq(q \o r, m, n) = SubSeq(q, m, n)
  <1>1. Len(q) \in Nat /\ Len(r) \in Nat
    BY LenProperties
  <1>2. CASE m <= n
    <2>1. m \in 1..Len(q) /\ n \in 1..Len(q)
      BY <1>1, <1>2
    <2> QED
      BY <2>1, SubSeqOfConcat1
  <1>3. CASE ~(m <= n)
    <2>1. m \in Int /\ n \in Int /\ n < m
      BY <1>1, <1>3
    <2> QED
      BY <2>1, SubSeqEmpty
  <1> QED
    BY <1>2, <1>3

(* The part between two places of a text is a text of as many elements.    *)
LEMMA PartIsText ==
  ASSUME NEW S, NEW s \in Seq(S), NEW m \in 1..(Len(s) + 1), NEW n \in Nat,
         m - 1 <= n, n <= Len(s)
  PROVE  /\ SubSeq(s, m, n) \in Seq(S)
         /\ Len(SubSeq(s, m, n)) = n - m + 1
         /\ \A i \in 1..(n - m + 1) : SubSeq(s, m, n)[i] = s[m + i - 1]
  <1>1. Len(s) \in Nat /\ \A i \in 1..Len(s) : s[i] \in S
    BY LenProperties, ElementOfSeq
  <1>2. m \in Int /\ n \in Int /\ (\A i \in m..n : s[i] \in S)
    BY <1>1
  <1>3. /\ SubSeq(s, m, n) \in Seq(S)
        /\ Len(SubSeq(s, m, n)) = IF m <= n THEN n - m + 1 ELSE 0
        /\ \A i \in 1..(n - m + 1) : SubSeq(s, m, n)[i] = s[m + i - 1]
    BY <1>2, SubSeqProperties
  <1>4. ~(m <= n) => n - m + 1 = 0
    BY <1>1
  <1> QED
    BY <1>3, <1>4

-----------------------------------------------------------------------------
(* Where a separator is found.                                             *)
Found(s, sep, from) ==
  {i \in from..(Len(s) - Len(sep) + 1) : SubSeq(s, i, i + Len(sep) - 1) = sep}

(* The first place of a separator from some place on.                      *)
LEMMA FirstFound ==
  ASSUME NEW S, NEW s \in Seq(S), NEW sep \in Seq(S), sep # <<>>,
         NEW from \in 1..(Len(s) + 1), Found(s, sep, from) # {}
  PROVE  LET m == Min(Found(s, sep, from))
         IN  /\ m \in Found(s, sep, from) /\ m \in Nat /\ from <= m
             /\ m + Len(sep) <= Len(s) + 1 /\ Len(sep) \in Nat \ {0}
             /\ \A i \in Found(s, sep, from) : m <= i
  <1>1. Len(s) \in Nat /\ Len(sep) \in Nat \ {0}
    BY LenProperties, EmptySeq
  <1>2. \A i \in Found(s, sep, from) : i \in Nat /\ from <= i /\ i + Len(sep) <= Len(s) + 1
    BY <1>1 DEF Found
  <1>3. Found(s, sep, from) \in SUBSET Nat
    BY <1>2
  <1> QED
    BY <1>1, <1>2, <1>3, MinIsLeast

(* The pieces from each place on.                                          *)
CutsAt(R, s, sep) ==
  \A from \in 1..(Len(s) + 1) :
    R[from] = IF Found(s, sep, from) = {} THEN <<SubSeq(s, from, Len(s))>>
              ELSE <<SubSeq(s, from, Min(Found(s, sep, from)) - 1)>> \o
                   R[Min(Found(s, sep, from)) + Len(sep)]

(* The recursive function in Cut exists, and satisfies its equations.      *)
LEMMA CutUnfolds ==
  ASSUME NEW S, NEW s \in Seq(S), NEW sep \in Seq(S), sep # <<>>
  PROVE  \E R \in [1..(Len(s) + 1) -> Seq(Seq(S))] :
           Cut(s, sep) = R[1] /\ CutsAt(R, s, sep)
  <1> DEFINE L == Len(s)
             n == Len(sep)
             T == Seq(Seq(S))
             F(from) == Found(s, sep, from)
             m(from) == Min(F(from))
  <1>1. L \in Nat /\ n \in Nat \ {0}
    BY LenProperties, EmptySeq
  <1>2. ASSUME NEW from \in 1..(L + 1), F(from) # {}
        PROVE  m(from) \in Nat /\ from <= m(from) /\ m(from) + n <= L + 1
    BY <1>2, FirstFound
  <1> DEFINE part(from) == IF F(from) = {} THEN <<SubSeq(s, from, L)>>
                           ELSE <<SubSeq(s, from, m(from) - 1)>>
             next(from) == IF F(from) = {} THEN 0 ELSE m(from) + n
  <1>3. ASSUME NEW from \in 1..(L + 1)
        PROVE  part(from) \in T
    <2>1. CASE F(from) = {}
      <3>1. SubSeq(s, from, L) \in Seq(S)
        BY <1>1, PartIsText
      <3> HIDE DEF F
      <3> QED
        BY <2>1, <3>1
    <2>2. CASE F(from) # {}
      <3>1. m(from) - 1 \in Nat /\ from - 1 <= m(from) - 1 /\ m(from) - 1 <= L
        <4> HIDE DEF m, L, n, F
        <4> QED
          BY <1>1, <1>2, <2>2
      <3>2. SubSeq(s, from, m(from) - 1) \in Seq(S)
        <4> HIDE DEF m
        <4> QED
          BY <1>1, <3>1, PartIsText
      <3> HIDE DEF F, m
      <3> QED
        BY <2>2, <3>2
    <2> QED
      BY <2>1, <2>2
  <1>4. ASSUME NEW from \in 1..(L + 1)
        PROVE  next(from) = 0 \/ next(from) \in (from + 1)..(L + 1)
    <2> HIDE DEF m, L, n, F
    <2> QED
      BY <1>1, <1>2
  <1>5. \A from \in 1..(L + 1) : F(from) # {} => next(from) = m(from) + n /\ next(from) # 0
    <2> HIDE DEF m, L, n, F
    <2> QED
      BY <1>1, <1>2
  <1> HIDE DEF part, next
  <1> DEFINE own == [k \in 1..(L + 1) |-> part(L + 2 - k)]
             up  == [k \in 1..(L + 1) |-> IF next(L + 2 - k) = 0 THEN 0
                                          ELSE L + 2 - next(L + 2 - k)]
  <1> HIDE DEF L, n
  <1>6. \A k \in 1..(L + 1) : L + 2 - k \in 1..(L + 1) /\ L + 2 - (L + 2 - k) = k
    BY <1>1
  <1>7. own \in [1..(L + 1) -> Seq(Seq(S))]
    <2> SUFFICES ASSUME NEW k \in 1..(L + 1)
                 PROVE  part(L + 2 - k) \in T
      OBVIOUS
    <2> HIDE DEF T
    <2> QED
      BY <1>3, <1>6
  <1>8. up \in [1..(L + 1) -> Nat] /\ Above(up, L + 1)
    <2> SUFFICES ASSUME NEW k \in 1..(L + 1)
                 PROVE  up[k] \in Nat /\ up[k] < k
      BY DEF Above
    <2> DEFINE x == next(L + 2 - k)
    <2>1. x = 0 \/ x \in (L + 2 - k + 1)..(L + 1)
      BY <1>4, <1>6
    <2>2. up[k] = IF x = 0 THEN 0 ELSE L + 2 - x
      OBVIOUS
    <2> HIDE DEF x, up
    <2> QED
      BY <1>1, <2>1, <2>2
  <1>9. PICK f \in [1..(L + 1) -> Seq(Seq(S))] : SumOf(f, own, up, L + 1)
    <2> HIDE DEF own, up
    <2>1. L + 1 \in Nat
      BY <1>1
    <2> QED
      BY <1>7, <1>8, <2>1, SumOfAncestors
  <1> DEFINE Onward(R, from) ==
               IF F(from) = {} THEN <<SubSeq(s, from, L)>>
               ELSE <<SubSeq(s, from, m(from) - 1)>> \o R[m(from) + n]
             Rests(R) == R = [from \in 1..(L + 1) |-> Onward(R, from)]
             h == [from \in 1..(L + 1) |-> f[L + 2 - from]]
  <1>10. \A from \in 1..(L + 1) : h[from] = Onward(h, from)
    <2> SUFFICES ASSUME NEW from \in 1..(L + 1)
                 PROVE  h[from] = Onward(h, from)
      OBVIOUS
    <2> DEFINE k == L + 2 - from
    <2>1. k \in 1..(L + 1) /\ L + 2 - k = from
      BY <1>1
    <2>2. h[from] = f[k]
      OBVIOUS
    <2>3. f[k] = IF up[k] = 0 THEN own[k] ELSE own[k] \o f[up[k]]
      <3> HIDE DEF own, up, k
      <3> QED
        BY <1>9, <2>1 DEF SumOf
    <2>4. own[k] = part(from) /\ up[k] = IF next(from) = 0 THEN 0 ELSE L + 2 - next(from)
      <3> HIDE DEF k
      <3> QED
        BY <2>1
    <2>5. next(from) # 0 => up[k] # 0 /\ h[next(from)] = f[up[k]]
      <3> SUFFICES ASSUME next(from) # 0
                   PROVE  up[k] # 0 /\ h[next(from)] = f[up[k]]
        OBVIOUS
      <3> DEFINE x == next(from)
      <3>1. x \in (from + 1)..(L + 1) /\ up[k] = L + 2 - x
        <4> HIDE DEF up, k
        <4> QED
          BY <1>4, <2>4
      <3> HIDE DEF x, up, k
      <3>2. x \in 1..(L + 1) /\ up[k] # 0
        BY <1>1, <3>1
      <3>3. h[x] = f[up[k]]
        BY <3>1, <3>2
      <3> QED
        BY <3>2, <3>3 DEF x
    <2> HIDE DEF h, k, up, own
    <2>6. CASE F(from) = {}
      <3>1. next(from) = 0 /\ part(from) = <<SubSeq(s, from, L)>>
        BY <2>6 DEF next, part
      <3> HIDE DEF F
      <3> QED
        BY <2>2, <2>3, <2>4, <2>6, <3>1
    <2>7. CASE F(from) # {}
      <3>1. next(from) = m(from) + n /\ next(from) # 0
        BY <1>5, <2>7
      <3>2. part(from) = <<SubSeq(s, from, m(from) - 1)>>
        BY <2>7 DEF part
      <3> HIDE DEF F, m
      <3> QED
        BY <2>2, <2>3, <2>4, <2>5, <2>7, <3>1, <3>2
    <2> QED
      BY <2>6, <2>7
  <1>11. Rests(h)
    <2>1. h = [from \in 1..(L + 1) |-> h[from]]
      OBVIOUS
    <2> HIDE DEF h, Onward
    <2> QED
      BY <1>10, <2>1
  <1> DEFINE R == CHOOSE R : Rests(R)
  <1>12. Rests(R)
    <2> HIDE DEF Rests, h
    <2> QED
      BY <1>11
  <1>13. Cut(s, sep) = R[1]
    BY DEF Cut, Found, L, n
  <1> HIDE DEF R, h
  <1>14. /\ \A from \in 1..(L + 1) : R[from] = Onward(R, from)
         /\ R = [from \in 1..(L + 1) |-> R[from]]
    <2> HIDE DEF Onward
    <2> QED
      BY <1>12
  <1> DEFINE P == {c \in Nat : \A from \in 1..(L + 1) : L + 1 - from <= c => R[from] \in T}
  <1>15. \A from \in 1..(L + 1) :
           (F(from) # {} => R[m(from) + n] \in T) => R[from] \in T
    <2> SUFFICES ASSUME NEW from \in 1..(L + 1), F(from) # {} => R[m(from) + n] \in T
                 PROVE  R[from] \in T
      OBVIOUS
    <2>1. R[from] = Onward(R, from) /\ part(from) \in T
      <3> HIDE DEF Onward, T
      <3> QED
        BY <1>3, <1>14
    <2>2. CASE F(from) = {}
      <3>1. part(from) = R[from]
        <4> HIDE DEF F
        <4> QED
          BY <2>1, <2>2 DEF part
      <3> HIDE DEF T
      <3> QED
        BY <2>1, <3>1
    <2>3. CASE F(from) # {}
      <3>1. R[from] = part(from) \o R[m(from) + n]
        <4> HIDE DEF F, m
        <4> QED
          BY <2>1, <2>3 DEF part
      <3>2. R[m(from) + n] \in T
        BY <2>3
      <3> DEFINE a == part(from)
                 b == R[m(from) + n]
      <3>3. a \in Seq(Seq(S)) /\ b \in Seq(Seq(S))
        BY <2>1, <3>2
      <3> HIDE DEF a, b
      <3>4. a \o b \in Seq(Seq(S))
        BY <3>3, ConcatProperties
      <3> QED
        BY <3>1, <3>4 DEF a, b
    <2> QED
      BY <2>2, <2>3
  <1> HIDE DEF T, F, m
  <1>16. 0 \in P
    <2> SUFFICES ASSUME NEW from \in 1..(L + 1), L + 1 - from <= 0
                 PROVE  R[from] \in T
      OBVIOUS
    <2>1. from = L + 1
      BY <1>1
    <2>2. F(from) = {}
      <3> SUFFICES ASSUME F(from) # {} PROVE FALSE
        OBVIOUS
      <3> DEFINE y == m(from)
      <3>1. y \in Nat /\ from <= y /\ y + n <= L + 1
        BY <1>2
      <3> HIDE DEF y
      <3> QED
        BY <1>1, <2>1, <3>1
    <2> QED
      BY <1>15, <2>2
  <1>17. ASSUME NEW c \in P
         PROVE  c + 1 \in P
    <2>1. c \in Nat /\ c + 1 \in Nat
      OBVIOUS
    <2> SUFFICES ASSUME NEW from \in 1..(L + 1), L + 1 - from <= c + 1
                 PROVE  R[from] \in T
      BY <2>1
    <2>2. F(from) # {} => R[m(from) + n] \in T
      <3> SUFFICES ASSUME F(from) # {} PROVE R[m(from) + n] \in T
        OBVIOUS
      <3> DEFINE x == m(from) + n
      <3>1. x \in 1..(L + 1) /\ L + 1 - x <= c
        <4> DEFINE y == m(from)
        <4>1. y \in Nat /\ from <= y /\ y + n <= L + 1
          BY <1>2
        <4> HIDE DEF y
        <4>2. x = y + n
          BY DEF y
        <4> HIDE DEF x
        <4> QED
          BY <1>1, <2>1, <4>1, <4>2
      <3> HIDE DEF x
      <3>2. R[x] \in T
        BY <3>1
      <3> QED
        BY <3>2 DEF x
    <2> QED
      BY <1>15, <2>2
  <1>18. P = Nat
    <2>1. P \in SUBSET Nat
      OBVIOUS
    <2> HIDE DEF P
    <2> QED
      BY <1>16, <1>17, <2>1, SetInduction
  <1>19. \A from \in 1..(L + 1) : R[from] \in T
    <2> SUFFICES ASSUME NEW from \in 1..(L + 1)
                 PROVE  R[from] \in T
      OBVIOUS
    <2>1. L + 1 - from \in Nat /\ L + 1 - from <= L + 1 - from
      BY <1>1
    <2>2. L + 1 - from \in P
      BY <1>18, <2>1
    <2> QED
      BY <2>1, <2>2
  <1>20. R \in [1..(L + 1) -> T]
    BY <1>14, <1>19
  <1>21. CutsAt(R, s, sep)
    BY <1>14 DEF CutsAt, F, m, L, n
  <1> QED
    BY <1>13, <1>20, <1>21 DEF T, L

(* Behind q the separators of q \o r are those of r.                       *)
LEMMA FoundBehind ==
  ASSUME NEW S, NEW q \in Seq(S), NEW r \in Seq(S), NEW sep \in Seq(S), sep # <<>>,
         NEW from \in 1..(Len(r) + 1)
  PROVE  /\ \A i \in Found(r, sep, from) : Len(q) + i \in Found(q \o r, sep, Len(q) + from)
         /\ \A i \in Found(q \o r, sep, Len(q) + from) :
              i - Len(q) \in Found(r, sep, from) /\ Len(q) + (i - Len(q)) = i
  <1> DEFINE k == Len(q)
             n == Len(sep)
             L == Len(r)
  <1>1. k \in Nat /\ L \in Nat /\ n \in Nat \ {0} /\ Len(q \o r) = k + L
    BY LenProperties, EmptySeq, ConcatProperties
  <1>2. ASSUME NEW i \in from..(L - n + 1)
        PROVE  SubSeq(q \o r, k + i, k + i + n - 1) = SubSeq(r, i, i + n - 1)
    <2>1. i \in 1..(L + 1) /\ i + n - 1 \in Nat /\ i - 1 <= i + n - 1 /\ i + n - 1 <= L
          /\ k + (i + n - 1) = k + i + n - 1
      BY <1>1
    <2> DEFINE e == i + n - 1
    <2>2. SubSeq(q \o r, k + i, k + e) = SubSeq(r, i, e)
      <3> HIDE DEF e
      <3> QED
        BY <2>1, PartOfSecond DEF e
    <2> QED
      BY <2>1, <2>2
  <1> HIDE DEF k, n, L
  <1>3. ASSUME NEW i \in Found(r, sep, from)
        PROVE  k + i \in Found(q \o r, sep, k + from)
    <2>1. i \in from..(L - n + 1) /\ SubSeq(r, i, i + n - 1) = sep
      BY DEF Found, n, L
    <2>2. k + i \in (k + from)..(k + L - n + 1)
      BY <1>1, <2>1
    <2>3. SubSeq(q \o r, k + i, k + i + n - 1) = sep
      BY <1>2, <2>1
    <2> QED
      BY <1>1, <2>2, <2>3 DEF Found, n
  <1>4. ASSUME NEW i \in Found(q \o r, sep, k + from)
        PROVE  i - k \in Found(r, sep, from) /\ k + (i - k) = i
    <2>1. i \in (k + from)..(k + L - n + 1) /\ SubSeq(q \o r, i, i + n - 1) = sep
      BY <1>1 DEF Found, n
    <2> DEFINE j == i - k
    <2>2. j \in from..(L - n + 1) /\ k + j = i
      BY <1>1, <2>1
    <2> HIDE DEF j
    <2>3. SubSeq(r, j, j + n - 1) = sep
      BY <1>2, <2>1, <2>2
    <2>4. j \in Found(r, sep, from)
      BY <2>2, <2>3 DEF Found, n, L
    <2> QED
      BY <2>2, <2>4 DEF j
  <1> QED
    BY <1>3, <1>4 DEF k

(* What is found behind a place does not depend on what is before it.      *)
LEMMA CutBehind ==
  ASSUME NEW S, NEW q \in Seq(S), NEW r \in Seq(S), NEW sep \in Seq(S), sep # <<>>,
         NEW R, CutsAt(R, q \o r, sep), NEW Z, CutsAt(Z, r, sep)
  PROVE  R[Len(q) + 1] = Z[1]
  <1> DEFINE k == Len(q)
             n == Len(sep)
             L == Len(r)
             F(from) == Found(q \o r, sep, k + from)
             G(from) == Found(r, sep, from)
  <1>1. k \in Nat /\ L \in Nat /\ n \in Nat \ {0} /\ Len(q \o r) = k + L
        /\ q \o r \in Seq(S)
    BY LenProperties, EmptySeq, ConcatProperties
  <1>2. ASSUME NEW from \in 1..(L + 1)
        PROVE  F(from) = {} <=> G(from) = {}
    BY FoundBehind
  <1>3. ASSUME NEW from \in 1..(L + 1), G(from) # {}
        PROVE  /\ Min(F(from)) = k + Min(G(from)) /\ Min(G(from)) \in Nat
               /\ from <= Min(G(from)) /\ Min(G(from)) + n <= L + 1
    <2> DEFINE f == Min(F(from))
               g == Min(G(from))
    <2>1. /\ \A i \in G(from) : k + i \in F(from)
          /\ \A i \in F(from) : i - k \in G(from) /\ k + (i - k) = i
      BY FoundBehind
    <2>2. g \in G(from) /\ g \in Nat /\ from <= g /\ g + n <= L + 1 /\ \A i \in G(from) : g <= i
      <3> HIDE DEF g
      <3> QED
        BY <1>3, FirstFound DEF g
    <2>3. f \in F(from) /\ f \in Nat /\ \A i \in F(from) : f <= i
      <3>1. k + from \in 1..(Len(q \o r) + 1) /\ F(from) # {}
        <4> HIDE DEF F, G, k
        <4> QED
          BY <1>1, <1>2, <1>3
      <3> HIDE DEF f
      <3> QED
        BY <1>1, <3>1, FirstFound DEF f
    <2> HIDE DEF f, g, F, G, k, n, L
    <2>4. g <= f - k /\ f <= k + g
      BY <2>1, <2>2, <2>3
    <2>5. f = k + g
      BY <1>1, <2>2, <2>3, <2>4
    <2> QED
      BY <2>2, <2>5 DEF f, g
  <1>4. ASSUME NEW from \in 1..(L + 1),
               G(from) # {} => R[k + (Min(G(from)) + n)] = Z[Min(G(from)) + n]
        PROVE  R[k + from] = Z[from]
    <2>1. k + from \in 1..(Len(q \o r) + 1) /\ from \in 1..(Len(r) + 1)
      BY <1>1
    <2>2. /\ R[k + from] = IF F(from) = {} THEN <<SubSeq(q \o r, k + from, k + L)>>
                           ELSE <<SubSeq(q \o r, k + from, Min(F(from)) - 1)>> \o R[Min(F(from)) + n]
          /\ Z[from] = IF G(from) = {} THEN <<SubSeq(r, from, L)>>
                       ELSE <<SubSeq(r, from, Min(G(from)) - 1)>> \o Z[Min(G(from)) + n]
      BY <1>1, <2>1 DEF CutsAt
    <2>3. CASE G(from) = {}
      <3>1. SubSeq(q \o r, k + from, k + L) = SubSeq(r, from, L)
        BY <1>1, PartOfSecond
      <3> HIDE DEF F, G
      <3> QED
        BY <1>2, <2>2, <2>3, <3>1
    <2>4. CASE G(from) # {}
      <3> DEFINE g == Min(G(from))
                 e == g - 1
      <3>1. g \in Nat /\ from <= g /\ g + n <= L + 1 /\ Min(F(from)) = k + g
        BY <1>3, <2>4
      <3> HIDE DEF g
      <3>2. e \in Nat /\ from - 1 <= e /\ e <= L /\ (k + g) - 1 = k + e /\ (k + g) + n = k + (g + n)
        BY <1>1, <3>1
      <3>3. SubSeq(q \o r, k + from, k + e) = SubSeq(r, from, e)
        <4> HIDE DEF e
        <4> QED
          BY <3>2, PartOfSecond
      <3>4. R[k + (g + n)] = Z[g + n]
        BY <1>4, <2>4 DEF g
      <3>5. F(from) # {}
        BY <1>2, <2>4
      <3>6. R[k + from] = <<SubSeq(q \o r, k + from, k + e)>> \o R[k + (g + n)]
        <4> HIDE DEF F, G, k, e, n
        <4> QED
          BY <2>2, <3>1, <3>2, <3>5
      <3>7. Z[from] = <<SubSeq(r, from, e)>> \o Z[g + n]
        <4> HIDE DEF F, G
        <4> QED
          BY <2>2, <2>4 DEF g
      <3> QED
        BY <3>3, <3>4, <3>6, <3>7
    <2> QED
      BY <2>3, <2>4
  <1> HIDE DEF F
  <1> DEFINE P == {c \in Nat : \A from \in 1..(L + 1) : L + 1 - from <= c => R[k + from] = Z[from]}
  <1>5. ASSUME NEW from \in 1..(L + 1), G(from) # {}
        PROVE  Min(G(from)) + n \in (from + 1)..(L + 1)
    <2> DEFINE g == Min(G(from))
    <2>1. g \in Nat /\ from <= g /\ g + n <= L + 1
      BY <1>3, <1>5
    <2> HIDE DEF g
    <2>2. g + n \in (from + 1)..(L + 1)
      BY <1>1, <2>1
    <2> QED
      BY <2>2 DEF g
  <1> HIDE DEF G, L, k, n
  <1>6. 0 \in P
    <2> SUFFICES ASSUME NEW from \in 1..(L + 1), L + 1 - from <= 0
                 PROVE  R[k + from] = Z[from]
      OBVIOUS
    <2>1. from = L + 1
      BY <1>1
    <2>2. G(from) = {}
      BY <1>1, <1>5, <2>1
    <2> QED
      BY <1>4, <2>2
  <1>7. ASSUME NEW c \in P
        PROVE  c + 1 \in P
    <2>1. c \in Nat /\ c + 1 \in Nat
      OBVIOUS
    <2> SUFFICES ASSUME NEW from \in 1..(L + 1), L + 1 - from <= c + 1
                 PROVE  R[k + from] = Z[from]
      BY <2>1
    <2>2. G(from) # {} => R[k + (Min(G(from)) + n)] = Z[Min(G(from)) + n]
      <3> SUFFICES ASSUME G(from) # {}
                   PROVE  R[k + (Min(G(from)) + n)] = Z[Min(G(from)) + n]
        OBVIOUS
      <3> DEFINE x == Min(G(from)) + n
      <3>1. x \in (from + 1)..(L + 1)
        BY <1>5
      <3> HIDE DEF x
      <3>2. x \in 1..(L + 1) /\ L + 1 - x <= c
        BY <1>1, <2>1, <3>1
      <3>3. R[k + x] = Z[x]
        BY <3>2
      <3> QED
        BY <3>3 DEF x
    <2> QED
      BY <1>4, <2>2
  <1>8. P = Nat
    <2>1. P \in SUBSET Nat
      OBVIOUS
    <2> HIDE DEF P
    <2> QED
      BY <1>6, <1>7, <2>1, SetInduction
  <1>9. 1 \in 1..(L + 1) /\ L + 1 - 1 \in Nat /\ L + 1 - 1 <= L + 1 - 1
    BY <1>1
  <1>10. R[k + 1] = Z[1]
    <2>1. L + 1 - 1 \in P
      BY <1>8, <1>9
    <2> QED
      BY <1>9, <2>1
  <1> QED
    BY <1>10 DEF k

(* A text without separators is a piece.                                   *)
LEMMA CutNone ==
  ASSUME NEW S, NEW s \in Seq(S), NEW sep \in Seq(S), sep # <<>>, sep[1] \notin ToSet(s)
  PROVE  Cut(s, sep) = <<s>>
  <1>1. Len(s) \in Nat /\ Len(sep) \in Nat \ {0} /\ DOMAIN s = 1..Len(s)
    BY LenProperties, EmptySeq
  <1>2. Found(s, sep, 1) = {}
    <2> SUFFICES ASSUME NEW i \in Found(s, sep, 1)
                 PROVE  FALSE
      OBVIOUS
    <2>1. i \in 1..(Len(s) - Len(sep) + 1) /\ SubSeq(s, i, i + Len(sep) - 1) = sep
      BY DEF Found
    <2> DEFINE e == i + Len(sep) - 1
    <2>2. i \in 1..(Len(s) + 1) /\ e \in Nat /\ i - 1 <= e /\ e <= Len(s)
          /\ 1 \in 1..(e - i + 1) /\ i + 1 - 1 = i /\ i \in 1..Len(s)
      BY <1>1, <2>1
    <2>3. SubSeq(s, i, e)[1] = s[i + 1 - 1]
      <3> HIDE DEF e
      <3> QED
        BY <2>2, PartIsText
    <2>4. sep[1] = s[i]
      BY <2>1, <2>2, <2>3
    <2> QED
      BY <1>1, <2>2, <2>4 DEF ToSet
  <1>3. PICK R \in [1..(Len(s) + 1) -> Seq(Seq(S))] : Cut(s, sep) = R[1] /\ CutsAt(R, s, sep)
    BY CutUnfolds
  <1>4. 1 \in 1..(Len(s) + 1)
    BY <1>1
  <1>5. R[1] = <<SubSeq(s, 1, Len(s))>>
    BY <1>2, <1>3, <1>4 DEF CutsAt
  <1>6. SubSeq(s, 1, Len(s)) = s
    BY SubSeqFull
  <1> QED
    BY <1>3, <1>5, <1>6

(* A text before the first separator is the first piece.                   *)
LEMMA CutStep ==
  ASSUME NEW S, NEW p \in Seq(S), NEW r \in Seq(S), NEW sep \in Seq(S), sep # <<>>,
         sep[1] \notin ToSet(p)
  PROVE  Cut((p \o sep) \o r, sep) = <<p>> \o Cut(r, sep)
  <1> DEFINE q == p \o sep
             s == q \o r
             n == Len(sep)
             k == Len(p)
             L == Len(r)
  <1>1. k \in Nat /\ L \in Nat /\ n \in Nat \ {0} /\ q \in Seq(S) /\ Len(q) = k + n
        /\ s \in Seq(S) /\ Len(s) = k + n + L /\ DOMAIN p = 1..k
    <2>1. q \in Seq(S) /\ Len(q) = k + n
      BY ConcatProperties
    <2>2. s \in Seq(S) /\ Len(s) = Len(q) + L
      <3> HIDE DEF q
      <3> QED
        BY <2>1, ConcatProperties
    <2> HIDE DEF q, s
    <2> QED
      BY <2>1, <2>2, LenProperties, EmptySeq
  <1>2. ASSUME NEW i \in 1..k
        PROVE  s[i] = p[i]
    <2>1. q[i] = p[i] /\ i \in 1..Len(q)
      BY <1>1, ConcatProperties
    <2>2. s[i] = q[i]
      <3> HIDE DEF q
      <3> QED
        BY <1>1, <2>1, ConcatProperties
    <2> QED
      BY <2>1, <2>2
  <1>3. SubSeq(s, k + 1, k + n) = sep
    <2>1. SubSeq(s, k + 1, k + n) = SubSeq(q, k + 1, k + n)
      <3>1. k + 1 \in 1..(Len(q) + 1) /\ k + n \in Nat /\ (k + 1) - 1 <= k + n /\ k + n <= Len(q)
        BY <1>1
      <3> HIDE DEF q, k, n
      <3> QED
        BY <1>1, <3>1, PartOfFirst
    <2>2. SubSeq(q, k + 1, k + n) = SubSeq(sep, 1, n)
      <3>1. 1 \in 1..(Len(sep) + 1) /\ n \in Nat /\ 1 - 1 <= n /\ n <= Len(sep)
        BY <1>1
      <3> QED
        BY <3>1, PartOfSecond
    <2> QED
      BY <2>1, <2>2, SubSeqFull
  <1>4. SubSeq(s, 1, k) = p
    <2>1. 1 \in 1..(k + 1) /\ k \in Nat /\ 1 - 1 <= k /\ k <= k /\ k <= Len(q)
          /\ 1 \in 1..(Len(q) + 1)
      BY <1>1
    <2>2. SubSeq(s, 1, k) = SubSeq(q, 1, k)
      <3> HIDE DEF q, k
      <3> QED
        BY <1>1, <2>1, PartOfFirst
    <2>3. SubSeq(q, 1, k) = SubSeq(p, 1, k)
      BY <2>1, PartOfFirst
    <2> QED
      BY <2>2, <2>3, SubSeqFull
  <1> HIDE DEF s, q, k, n, L
  <1> DEFINE F == Found(s, sep, 1)
  <1>5. k + 1 \in F
    <2>1. k + 1 \in 1..(Len(s) - n + 1) /\ (k + 1) + n - 1 = k + n
      BY <1>1
    <2> QED
      BY <1>3, <2>1 DEF Found, n
  <1>6. ASSUME NEW i \in F
        PROVE  k + 1 <= i
    <2>1. i \in 1..(Len(s) - n + 1) /\ SubSeq(s, i, i + n - 1) = sep
      BY DEF Found, n
    <2> DEFINE e == i + n - 1
    <2>2. i \in 1..(Len(s) + 1) /\ e \in Nat /\ i - 1 <= e /\ e <= Len(s)
          /\ 1 \in 1..(e - i + 1) /\ i + 1 - 1 = i /\ i \in Nat
      BY <1>1, <2>1
    <2>3. SubSeq(s, i, e)[1] = s[i + 1 - 1]
      <3> HIDE DEF e
      <3> QED
        BY <1>1, <2>2, PartIsText
    <2>4. sep[1] = s[i]
      BY <2>1, <2>2, <2>3
    <2>5. CASE i \in 1..k
      BY <1>1, <1>2, <2>4, <2>5 DEF ToSet
    <2>6. CASE i \notin 1..k
      BY <1>1, <2>1, <2>6
    <2> QED
      BY <2>5, <2>6
  <1>7. Min(F) = k + 1
    <2>1. F \in SUBSET Nat /\ F # {}
      <3>1. \A i \in F : i \in 1..(Len(s) - n + 1)
        BY DEF Found, n
      <3> HIDE DEF F
      <3> QED
        BY <1>1, <1>5, <3>1
    <2> HIDE DEF F
    <2>2. Min(F) \in F /\ \A i \in F : Min(F) <= i
      BY <2>1, MinIsLeast
    <2>3. k + 1 <= Min(F) /\ Min(F) <= k + 1
      BY <1>5, <1>6, <2>2
    <2>4. Min(F) \in Nat
      BY <2>1, <2>2
    <2> QED
      BY <1>1, <2>3, <2>4
  <1>8. PICK R \in [1..(Len(s) + 1) -> Seq(Seq(S))] : Cut(s, sep) = R[1] /\ CutsAt(R, s, sep)
    BY <1>1, CutUnfolds
  <1>9. PICK Z \in [1..(Len(r) + 1) -> Seq(Seq(S))] : Cut(r, sep) = Z[1] /\ CutsAt(Z, r, sep)
    BY CutUnfolds
  <1>10. R[1] = <<p>> \o R[k + 1 + n]
    <2>1. 1 \in 1..(Len(s) + 1) /\ F # {}
      BY <1>1, <1>5
    <2>2. R[1] = <<SubSeq(s, 1, Min(F) - 1)>> \o R[Min(F) + n]
      BY <1>8, <2>1 DEF CutsAt, n
    <2>3. (k + 1) - 1 = k
      BY <1>1
    <2> HIDE DEF F
    <2> QED
      BY <1>4, <1>7, <2>2, <2>3
  <1>11. R[Len(q) + 1] = Z[1]
    <2>1. CutsAt(R, q \o r, sep)
      BY <1>8 DEF s
    <2>2. q \in Seq(S) /\ CutsAt(Z, r, sep)
      BY <1>1, <1>9
    <2> QED
      BY <2>1, <2>2, CutBehind
  <1>12. k + 1 + n = Len(q) + 1
    BY <1>1
  <1> QED
    BY <1>8, <1>9, <1>10, <1>11, <1>12 DEF s, q

CutsOnce(p, separator, r) == Cut((p \o separator) \o r, separator) = <<p>> \o Cut(r, separator)

(* A text without the separator's first element, then the separator: one   *)
(* cut, and the rest is cut by itself.                                     *)
LEMMA CutOnce ==
  ASSUME NEW S, NEW p \in Seq(S), NEW r \in Seq(S), NEW sep \in Seq(S), sep # <<>>,
         sep[1] \notin ToSet(p)
  PROVE  CutsOnce(p, sep, r)
  BY CutStep DEF CutsOnce

(* The pieces of a text are texts of the same elements.                    *)
LEMMA CutIsText ==
  ASSUME NEW S, NEW s \in Seq(S), NEW sep \in Seq(S), sep # <<>>
  PROVE  Cut(s, sep) \in Seq(Seq(S))
  <1>1. PICK R \in [1..(Len(s) + 1) -> Seq(Seq(S))] : Cut(s, sep) = R[1]
    BY CutUnfolds
  <1>2. 1 \in 1..(Len(s) + 1)
    BY LenProperties
  <1> QED
    BY <1>1, <1>2

(* s has its first c between a and b.                                      *)
Parted(s, c, a, b) ==
  s = (a \o <<c>>) \o b /\ c \notin ToSet(a) /\ Len(s) = Len(a) + 1 + Len(b)

(* An element of a text is at a first place, which divides the text in     *)
(* two.                                                                    *)
LEMMA FirstPlace ==
  ASSUME NEW S, NEW s \in Seq(S), NEW c \in ToSet(s)
  PROVE  \E a, b \in Seq(S) : Parted(s, c, a, b)
  <1>1. Len(s) \in Nat /\ DOMAIN s = 1..Len(s) /\ \A i \in 1..Len(s) : s[i] \in S
    BY LenProperties, ElementOfSeq
  <1> DEFINE M == {i \in 1..Len(s) : s[i] = c}
  <1>2. M \in SUBSET Nat /\ M # {}
    BY <1>1 DEF ToSet
  <1> DEFINE m == Min(M)
  <1>3. m \in M /\ \A i \in M : m <= i
    <2> HIDE DEF M
    <2> QED
      BY <1>2, MinIsLeast
  <1> HIDE DEF m
  <1>4. m \in 1..Len(s) /\ s[m] = c
    BY <1>3
  <1> DEFINE a == SubSeq(s, 1, m - 1)
             b == SubSeq(s, m + 1, Len(s))
  <1>5. a \in Seq(S) /\ Len(a) = m - 1 /\ \A i \in 1..(m - 1) : a[i] = s[i]
    <2> DEFINE e == m - 1
    <2>1. 1 \in 1..(Len(s) + 1) /\ e \in Nat /\ 1 - 1 <= e /\ e <= Len(s) /\ e - 1 + 1 = e
      BY <1>1, <1>4
    <2> HIDE DEF e
    <2>2. /\ SubSeq(s, 1, e) \in Seq(S) /\ Len(SubSeq(s, 1, e)) = e - 1 + 1
          /\ \A i \in 1..(e - 1 + 1) : SubSeq(s, 1, e)[i] = s[1 + i - 1]
      BY <2>1, PartIsText
    <2>3. \A i \in 1..e : 1 + i - 1 = i
      BY <2>1
    <2> QED
      BY <2>1, <2>2, <2>3 DEF e
  <1>6. b \in Seq(S) /\ Len(b) = Len(s) - m
    <2> DEFINE e == m + 1
    <2>1. e \in 1..(Len(s) + 1) /\ Len(s) \in Nat /\ e - 1 <= Len(s) /\ Len(s) <= Len(s)
          /\ Len(s) - e + 1 = Len(s) - m
      BY <1>1, <1>4
    <2> HIDE DEF e
    <2>2. SubSeq(s, e, Len(s)) \in Seq(S) /\ Len(SubSeq(s, e, Len(s))) = Len(s) - e + 1
      BY <2>1, PartIsText
    <2> QED
      BY <2>1, <2>2 DEF e
  <1>7. c \notin ToSet(a)
    <2> SUFFICES ASSUME NEW i \in DOMAIN a, a[i] = c
                 PROVE  FALSE
      BY DEF ToSet
    <2>1. i \in 1..(m - 1)
      BY <1>5, LenProperties
    <2>2. i \in 1..Len(s) /\ s[i] = c /\ ~(m <= i)
      BY <1>1, <1>4, <1>5, <2>1
    <2> QED
      BY <1>3, <2>2
  <1>8. SubSeq(s, 1, m) = a \o <<c>>
    <2>1. 1 \in 1..Len(s) /\ m \in 1..Len(s)
      BY <1>1, <1>4
    <2> QED
      BY <1>4, <2>1, SubSeqRecursiveSecond
  <1>9. s = (a \o <<c>>) \o b
    <2>1. /\ 1 \in 1..(Len(s) + 1) /\ m \in (1 - 1)..Len(s) /\ Len(s) \in m..Len(s)
      BY <1>1, <1>4
    <2>2. SubSeq(s, 1, m) \o SubSeq(s, m + 1, Len(s)) = SubSeq(s, 1, Len(s))
      BY <2>1, ConcatAdjacentSubSeq
    <2> QED
      BY <1>8, <2>2, SubSeqFull
  <1>10. Len(s) = Len(a) + 1 + Len(b)
    <2>1. Len(a) = m - 1 /\ Len(b) = Len(s) - m
      BY <1>5, <1>6
    <2> HIDE DEF a, b
    <2> QED
      BY <1>1, <1>4, <2>1
  <1> QED
    BY <1>5, <1>6, <1>7, <1>9, <1>10 DEF Parted

(* A text has one piece, or a first one and those of the rest.             *)
Whole(s, c)       == c \notin ToSet(s) /\ Cut(s, <<c>>) = <<s>>
CutAt(s, c, a, b) == Parted(s, c, a, b) /\ Cut(s, <<c>>) = <<a>> \o Cut(b, <<c>>)

(* A text is cut nowhere, or at the separator's first place.               *)
LEMMA CutCases ==
  ASSUME NEW S, NEW s \in Seq(S), NEW c \in S
  PROVE  Whole(s, c) \/ \E a, b \in Seq(S) : CutAt(s, c, a, b)
  <1> DEFINE sep == <<c>>
  <1>1. sep \in Seq(S) /\ sep # <<>> /\ sep[1] = c
    OBVIOUS
  <1>2. CASE c \notin ToSet(s)
    <2>1. Cut(s, sep) = <<s>>
      <3> HIDE DEF sep
      <3> QED
        BY <1>1, <1>2, CutNone
    <2> QED
      BY <1>2, <2>1 DEF Whole
  <1>3. CASE c \in ToSet(s)
    <2>1. PICK a, b \in Seq(S) : Parted(s, c, a, b)
      BY <1>3, FirstPlace
    <2>2. s = (a \o sep) \o b /\ sep[1] \notin ToSet(a)
      BY <1>1, <2>1 DEF Parted
    <2> HIDE DEF sep
    <2>3. Cut((a \o sep) \o b, sep) = <<a>> \o Cut(b, sep)
      BY <1>1, <2>2, CutStep
    <2>4. Cut(s, <<c>>) = <<a>> \o Cut(b, <<c>>)
      BY <2>2, <2>3 DEF sep
    <2>5. CutAt(s, c, a, b)
      BY <2>1, <2>4 DEF CutAt
    <2> QED
      BY <2>5
  <1> QED
    BY <1>2, <1>3

(* A text and its last, or its first, element.                             *)
EndsIn(s, a, x)   == s = a \o <<x>> /\ Len(s) = Len(a) + 1
StartsIn(s, x, b) == s = <<x>> \o b /\ Len(s) = Len(b) + 1

(* A text that is not empty has a last element.                            *)
LEMMA LastOfText ==
  ASSUME NEW S, NEW s \in Seq(S), s # <<>>
  PROVE  \E a \in Seq(S), x \in S : EndsIn(s, a, x)
  <1> DEFINE n == Len(s)
             a == SubSeq(s, 1, n - 1)
  <1>1. n \in Nat \ {0} /\ s[n] \in S
    BY LenProperties, EmptySeq, ElementOfSeq
  <1>2. a \in Seq(S) /\ Len(a) = n - 1
    <2>1. 1 \in 1..(Len(s) + 1) /\ n - 1 \in Nat /\ 1 - 1 <= n - 1 /\ n - 1 <= Len(s)
          /\ (n - 1) - 1 + 1 = n - 1
      BY <1>1
    <2> DEFINE e == n - 1
    <2> HIDE DEF e
    <2>2. SubSeq(s, 1, e) \in Seq(S) /\ Len(SubSeq(s, 1, e)) = e - 1 + 1
      BY <2>1, PartIsText DEF e
    <2> QED
      BY <2>1, <2>2 DEF e
  <1>3. s = a \o <<s[n]>>
    <2>1. 1 \in 1..Len(s) /\ n \in 1..Len(s) /\ SubSeq(s, 1, n) = s
      BY <1>1, SubSeqFull
    <2> QED
      BY <2>1, SubSeqRecursiveSecond
  <1>4. Len(s) = Len(a) + 1
    <2> HIDE DEF a
    <2> QED
      BY <1>1, <1>2
  <1>5. EndsIn(s, a, s[n])
    BY <1>3, <1>4 DEF EndsIn
  <1> HIDE DEF a
  <1> QED
    BY <1>1, <1>2, <1>5

(* A text that is not empty has a first element.                           *)
LEMMA FirstOfText ==
  ASSUME NEW S, NEW s \in Seq(S), s # <<>>
  PROVE  \E x \in S, b \in Seq(S) : StartsIn(s, x, b)
  <1> DEFINE n == Len(s)
             b == SubSeq(s, 2, n)
  <1>1. n \in Nat \ {0} /\ s[1] \in S
    BY LenProperties, EmptySeq, ElementOfSeq
  <1>2. b \in Seq(S) /\ Len(b) = n - 1
    <2>1. 2 \in 1..(Len(s) + 1) /\ n \in Nat /\ 2 - 1 <= n /\ n <= Len(s) /\ n - 2 + 1 = n - 1
      BY <1>1
    <2> HIDE DEF n
    <2>2. SubSeq(s, 2, n) \in Seq(S) /\ Len(SubSeq(s, 2, n)) = n - 2 + 1
      BY <2>1, PartIsText
    <2> QED
      BY <2>1, <2>2
  <1>3. s = <<s[1]>> \o b
    <2>1. 1 \in 1..Len(s) /\ n \in 1..Len(s) /\ SubSeq(s, 1, n) = s /\ 1 + 1 = 2
      BY <1>1, SubSeqFull
    <2> QED
      BY <2>1, SubSeqRecursiveFirst
  <1>4. Len(s) = Len(b) + 1
    <2> HIDE DEF b
    <2> QED
      BY <1>1, <1>2
  <1>5. StartsIn(s, s[1], b)
    BY <1>3, <1>4 DEF StartsIn
  <1> HIDE DEF b
  <1> QED
    BY <1>1, <1>2, <1>5

(* Induction over texts, by a last or by a first element.                  *)
LEMMA AppendInduction ==
  ASSUME NEW S, NEW P \in SUBSET Seq(S), <<>> \in P,
         \A a \in P, x \in S : a \o <<x>> \in P
  PROVE  P = Seq(S)
  <1> DEFINE N == {n \in Nat : \A s \in Seq(S) : Len(s) = n => s \in P}
  <1>1. 0 \in N
    BY EmptySeq
  <1>2. ASSUME NEW n \in N
        PROVE  n + 1 \in N
    <2>1. n \in Nat /\ n + 1 \in Nat
      OBVIOUS
    <2> SUFFICES ASSUME NEW s \in Seq(S), Len(s) = n + 1
                 PROVE  s \in P
      BY <2>1
    <2>2. s # <<>>
      BY <2>1, EmptySeq
    <2>3. PICK a \in Seq(S), x \in S : EndsIn(s, a, x)
      BY <2>2, LastOfText
    <2>4. Len(a) = n /\ s = a \o <<x>>
      BY <2>1, <2>3, LenProperties DEF EndsIn
    <2>5. a \in P
      BY <2>4
    <2> QED
      BY <2>4, <2>5
  <1>3. N = Nat
    <2>1. N \in SUBSET Nat
      OBVIOUS
    <2> HIDE DEF N
    <2> QED
      BY <1>1, <1>2, <2>1, SetInduction
  <1>4. \A s \in Seq(S) : s \in P
    BY <1>3, LenProperties
  <1> QED
    BY <1>4

(* Induction over texts that grow at their beginning, with a set in the    *)
(* place of a predicate.                                                   *)
LEMMA PrependInduction ==
  ASSUME NEW S, NEW P \in SUBSET Seq(S), <<>> \in P,
         \A b \in P, x \in S : <<x>> \o b \in P
  PROVE  P = Seq(S)
  <1> DEFINE N == {n \in Nat : \A s \in Seq(S) : Len(s) = n => s \in P}
  <1>1. 0 \in N
    BY EmptySeq
  <1>2. ASSUME NEW n \in N
        PROVE  n + 1 \in N
    <2>1. n \in Nat /\ n + 1 \in Nat
      OBVIOUS
    <2> SUFFICES ASSUME NEW s \in Seq(S), Len(s) = n + 1
                 PROVE  s \in P
      BY <2>1
    <2>2. s # <<>>
      BY <2>1, EmptySeq
    <2>3. PICK x \in S, b \in Seq(S) : StartsIn(s, x, b)
      BY <2>2, FirstOfText
    <2>4. Len(b) = n /\ s = <<x>> \o b
      BY <2>1, <2>3, LenProperties DEF StartsIn
    <2>5. b \in P
      BY <2>4
    <2> QED
      BY <2>4, <2>5
  <1>3. N = Nat
    <2>1. N \in SUBSET Nat
      OBVIOUS
    <2> HIDE DEF N
    <2> QED
      BY <1>1, <1>2, <2>1, SetInduction
  <1>4. \A s \in Seq(S) : s \in P
    BY <1>3, LenProperties
  <1> QED
    BY <1>4

(* Induction over shorter texts.                                           *)
LEMMA ShorterInduction ==
  ASSUME NEW S, NEW P \in SUBSET Seq(S),
         \A s \in Seq(S) : (\A t \in Seq(S) : Len(t) < Len(s) => t \in P) => s \in P
  PROVE  P = Seq(S)
  <1> DEFINE N == {n \in Nat : \A s \in Seq(S) : Len(s) < n => s \in P}
  <1>1. 0 \in N
    BY LenProperties
  <1>2. ASSUME NEW n \in N
        PROVE  n + 1 \in N
    <2>1. n \in Nat /\ n + 1 \in Nat
      OBVIOUS
    <2> SUFFICES ASSUME NEW s \in Seq(S), Len(s) < n + 1
                 PROVE  s \in P
      BY <2>1
    <2>2. ASSUME NEW t \in Seq(S), Len(t) < Len(s)
          PROVE  t \in P
      <3>1. Len(t) < n
        BY <2>1, <2>2, LenProperties
      <3> QED
        BY <3>1
    <2> QED
      BY <2>2
  <1>3. N = Nat
    <2>1. N \in SUBSET Nat
      OBVIOUS
    <2> HIDE DEF N
    <2> QED
      BY <1>1, <1>2, <2>1, SetInduction
  <1>4. ASSUME NEW s \in Seq(S)
        PROVE  s \in P
    <2>1. Len(s) + 1 \in N /\ Len(s) < Len(s) + 1
      BY <1>3, LenProperties
    <2> QED
      BY <2>1
  <1> QED
    BY <1>4

-----------------------------------------------------------------------------
(* FlattenSeq of a concatenation.                                          *)
LEMMA FlattenIsText ==
  ASSUME NEW S, NEW s \in Seq(Seq(S))
  PROVE  FlattenSeq(s) \in Seq(S)
  <1>1. PICK g \in [0..Len(s) -> Seq(S)] : Beginnings(g, s)
    BY FlattenPrefixes
  <1>2. Len(s) \in 0..Len(s)
    BY LenProperties
  <1> QED
    BY <1>1, <1>2 DEF Beginnings

(* One more element.                                                       *)
LEMMA OneMore ==
  ASSUME NEW S, NEW s \in Seq(S), NEW a \in S
  PROVE  /\ s \o <<a>> \in Seq(S) /\ Len(s \o <<a>>) = Len(s) + 1 /\ Len(s) \in Nat
         /\ (\A i \in 1..Len(s) : (s \o <<a>>)[i] = s[i])
         /\ (s \o <<a>>)[Len(s) + 1] = a
  <1> DEFINE o == <<a>>
             N == Len(s)
  <1>1. o \in Seq(S) /\ Len(o) = 1 /\ o[1] = a
    OBVIOUS
  <1> HIDE DEF o
  <1>2. /\ s \o o \in Seq(S) /\ Len(s \o o) = N + 1 /\ N \in Nat
        /\ \A i \in 1..(N + 1) : (s \o o)[i] = IF i <= N THEN s[i] ELSE o[i - N]
    BY <1>1, ConcatProperties, LenProperties
  <1> HIDE DEF N
  <1>3. N + 1 \in 1..(N + 1) /\ ~(N + 1 <= N) /\ (N + 1) - N = 1
        /\ \A i \in 1..N : i \in 1..(N + 1) /\ i <= N
    BY <1>2
  <1>4. (\A i \in 1..N : (s \o o)[i] = s[i]) /\ (s \o o)[N + 1] = o[1]
    BY <1>2, <1>3
  <1> QED
    BY <1>1, <1>2, <1>4 DEF o, N

(* FlattenSeq of one more sequence.                                        *)
LEMMA FlattenAppended ==
  ASSUME NEW S, NEW s \in Seq(Seq(S)), NEW a \in Seq(S)
  PROVE  FlattenSeq(s \o <<a>>) = FlattenSeq(s) \o a
  <1> DEFINE t == s \o <<a>>
             N == Len(s)
  <1>1. N \in Nat /\ t \in Seq(Seq(S)) /\ Len(t) = N + 1
        /\ (\A i \in 1..N : t[i] = s[i]) /\ t[N + 1] = a
    BY OneMore
  <1> HIDE DEF t
  <1>2. PICK g \in [0..Len(s) -> Seq(S)] : Beginnings(g, s)
    BY FlattenPrefixes
  <1>3. PICK h \in [0..Len(t) -> Seq(S)] : Beginnings(h, t)
    BY <1>1, FlattenPrefixes
  <1> HIDE DEF N
  <1>4. /\ g[0] = <<>> /\ g[N] = FlattenSeq(s) /\ \A n \in 1..N : g[n] = g[n - 1] \o s[n]
        /\ h[0] = <<>> /\ h[N + 1] = FlattenSeq(t) /\ \A n \in 1..(N + 1) : h[n] = h[n - 1] \o t[n]
    BY <1>1, <1>2, <1>3 DEF Beginnings, N
  <1> DEFINE P == {n \in Nat : n <= N => g[n] = h[n]}
  <1>5. 0 \in P
    BY <1>4
  <1>6. ASSUME NEW n \in P
        PROVE  n + 1 \in P
    <2>1. n \in Nat /\ n + 1 \in Nat /\ (n + 1) - 1 = n
      OBVIOUS
    <2> SUFFICES ASSUME n + 1 <= N
                 PROVE  g[n + 1] = h[n + 1]
      BY <2>1
    <2>2. n + 1 \in 1..N /\ n + 1 \in 1..(N + 1) /\ n <= N
      BY <1>1, <2>1
    <2>3. g[n] = h[n] /\ t[n + 1] = s[n + 1]
      BY <1>1, <2>2
    <2> QED
      BY <1>4, <2>1, <2>2, <2>3
  <1>7. P = Nat
    <2>1. P \in SUBSET Nat
      OBVIOUS
    <2> HIDE DEF P
    <2> QED
      BY <1>5, <1>6, <2>1, SetInduction
  <1>8. g[N] = h[N]
    <2>1. N \in P
      BY <1>1, <1>7
    <2>2. N <= N
      BY <1>1
    <2> QED
      BY <2>1, <2>2
  <1>9. N + 1 \in 1..(N + 1) /\ (N + 1) - 1 = N
    BY <1>1
  <1>10. h[N + 1] = h[(N + 1) - 1] \o t[N + 1]
    BY <1>4, <1>9
  <1> QED
    BY <1>1, <1>4, <1>8, <1>9, <1>10 DEF t

(* FlattenSeq of a concatenation is the concatenation.                     *)
LEMMA FlattenOfConcat ==
  ASSUME NEW S, NEW s \in Seq(Seq(S)), NEW t \in Seq(Seq(S))
  PROVE  FlattenSeq(s \o t) = FlattenSeq(s) \o FlattenSeq(t)
  <1> DEFINE T == Seq(S)
             P == {u \in Seq(T) : FlattenSeq(s \o u) = FlattenSeq(s) \o FlattenSeq(u)}
  <1>1. <<>> \in P
    <2>1. s \o <<>> = s /\ FlattenSeq(<<>>) = <<>> /\ <<>> \in Seq(T)
      BY ConcatEmptySeq DEF FlattenSeq
    <2>2. FlattenSeq(s) \o <<>> = FlattenSeq(s)
      BY FlattenIsText, ConcatEmptySeq
    <2> QED
      BY <2>1, <2>2
  <1>2. ASSUME NEW a \in P, NEW x \in T
        PROVE  a \o <<x>> \in P
    <2>1. a \in Seq(T) /\ FlattenSeq(s \o a) = FlattenSeq(s) \o FlattenSeq(a)
      OBVIOUS
    <2> HIDE DEF P
    <2>2. a \o <<x>> \in Seq(T) /\ s \in Seq(T) /\ s \o a \in Seq(T)
      BY <2>1, OneMore, ConcatProperties
    <2>3. s \o (a \o <<x>>) = (s \o a) \o <<x>>
      <3> DEFINE o == <<x>>
      <3>1. o \in Seq(T)
        OBVIOUS
      <3> HIDE DEF o, T
      <3>2. (s \o a) \o o = s \o (a \o o)
        BY <2>1, <2>2, <3>1, Regrouped
      <3> QED
        BY <3>2 DEF o
    <2>4. FlattenSeq((s \o a) \o <<x>>) = FlattenSeq(s \o a) \o x
      BY <2>2, FlattenAppended
    <2>5. FlattenSeq(a \o <<x>>) = FlattenSeq(a) \o x
      BY <2>1, FlattenAppended
    <2>6. (FlattenSeq(s) \o FlattenSeq(a)) \o x = FlattenSeq(s) \o (FlattenSeq(a) \o x)
      <3>1. FlattenSeq(s) \in Seq(S) /\ FlattenSeq(a) \in Seq(S) /\ x \in Seq(S)
        BY <2>1, FlattenIsText
      <3> QED
        BY <3>1, Regrouped
    <2>7. FlattenSeq(s \o (a \o <<x>>)) = FlattenSeq(s) \o FlattenSeq(a \o <<x>>)
      BY <2>1, <2>3, <2>4, <2>5, <2>6
    <2> QED
      BY <2>2, <2>7 DEF P
  <1>3. P = Seq(T)
    <2>1. P \in SUBSET Seq(T)
      OBVIOUS
    <2> HIDE DEF P, T
    <2> QED
      BY <1>1, <1>2, <2>1, AppendInduction
  <1>4. t \in P
    BY <1>3
  <1> QED
    BY <1>4

(* FlattenSeq of one sequence is that sequence.                            *)
LEMMA FlattenOfOne ==
  ASSUME NEW S, NEW a \in Seq(S)
  PROVE  FlattenSeq(<<a>>) = a
  <1>1. <<>> \in Seq(Seq(S)) /\ FlattenSeq(<<>>) = <<>>
    BY DEF FlattenSeq
  <1> DEFINE e == <<>>
  <1>2. e \o <<a>> = <<a>> /\ e \o a = a
    OBVIOUS
  <1>3. FlattenSeq(e \o <<a>>) = FlattenSeq(e) \o a
    <2>1. e \in Seq(Seq(S))
      OBVIOUS
    <2> HIDE DEF e
    <2> QED
      BY <2>1, FlattenAppended
  <1> QED
    BY <1>1, <1>2, <1>3

(* A text with each element replaced, by another or by a text.             *)
Mapped(f, s) == [i \in 1..Len(s) |-> f[s[i]]]
Spread(f, s) == FlattenSeq(Mapped(f, s))
Maps(f, A, B) == f \in [A -> B]
Spreads(f, A, B) == Maps(f, A, Seq(B))

(* The elements of texts.                                                  *)
LEMMA ElementsOfText ==
  ASSUME NEW S, NEW s \in Seq(S)
  PROVE  /\ ToSet(s) \subseteq S /\ s \in Seq(ToSet(s))
         /\ \A i \in 1..Len(s) : s[i] \in ToSet(s)
         /\ \A x \in ToSet(s) : \E i \in 1..Len(s) : x = s[i]
  <1>1. Len(s) \in Nat /\ DOMAIN s = 1..Len(s) /\ \A i \in 1..Len(s) : s[i] \in S
    BY LenProperties, ElementOfSeq
  <1>2. s \in Seq(ToSet(s))
    BY TextOfSeq DEF IsText
  <1> QED
    BY <1>1, <1>2 DEF ToSet

(* The element of a text of one element.                                   *)
LEMMA ElementsOfOne ==
  ASSUME NEW x
  PROVE  ToSet(<<x>>) = {x}
  <1>1. DOMAIN <<x>> = {1} /\ <<x>>[1] = x
    OBVIOUS
  <1> QED
    BY <1>1 DEF ToSet

(* The empty text has no elements.                                         *)
LEMMA ElementsOfNone == ToSet(<<>>) = {}
  <1>1. DOMAIN <<>> = {}
    OBVIOUS
  <1> QED
    BY <1>1 DEF ToSet

(* A concatenation has the elements of both texts.                         *)
LEMMA ElementsOfConcat ==
  ASSUME NEW S, NEW s \in Seq(S), NEW t \in Seq(S)
  PROVE  ToSet(s \o t) = ToSet(s) \cup ToSet(t)
  <1> DEFINE k == Len(s)
             l == Len(t)
             u == s \o t
  <1>1. k \in Nat /\ l \in Nat /\ u \in Seq(S) /\ Len(u) = k + l
        /\ DOMAIN u = 1..(k + l) /\ DOMAIN s = 1..k /\ DOMAIN t = 1..l
        /\ \A i \in 1..(k + l) : u[i] = IF i <= k THEN s[i] ELSE t[i - k]
    BY ConcatProperties, LenProperties
  <1> HIDE DEF u, k, l
  <1>2. ASSUME NEW x \in ToSet(u)
        PROVE  x \in ToSet(s) \cup ToSet(t)
    <2>1. PICK i \in 1..(k + l) : x = u[i]
      BY <1>1 DEF ToSet
    <2>2. CASE i <= k
      <3>1. i \in 1..k /\ u[i] = s[i]
        BY <1>1, <2>2
      <3> QED
        BY <1>1, <2>1, <3>1 DEF ToSet
    <2>3. CASE ~(i <= k)
      <3>1. i - k \in 1..l
        BY <1>1, <2>3
      <3> QED
        BY <1>1, <2>1, <2>3, <3>1 DEF ToSet
    <2> QED
      BY <2>2, <2>3
  <1>3. ASSUME NEW x \in ToSet(s)
        PROVE  x \in ToSet(u)
    <2>1. PICK i \in 1..k : x = s[i]
      BY <1>1 DEF ToSet
    <2>2. i \in 1..(k + l) /\ i <= k
      BY <1>1
    <2> QED
      BY <1>1, <2>1, <2>2 DEF ToSet
  <1>4. ASSUME NEW x \in ToSet(t)
        PROVE  x \in ToSet(u)
    <2>1. PICK i \in 1..l : x = t[i]
      BY <1>1 DEF ToSet
    <2>2. k + i \in 1..(k + l) /\ ~(k + i <= k) /\ k + i - k = i
      BY <1>1
    <2>3. u[k + i] = x
      BY <1>1, <2>1, <2>2
    <2> QED
      BY <1>1, <2>2, <2>3 DEF ToSet
  <1> QED
    BY <1>2, <1>3, <1>4 DEF u

(* A text in which each element is replaced.                               *)
LEMMA MappedIsText ==
  ASSUME NEW A, NEW B, NEW f, Maps(f, A, B), NEW s \in Seq(A)
  PROVE  /\ Mapped(f, s) \in Seq(B) /\ Len(Mapped(f, s)) = Len(s)
         /\ \A i \in 1..Len(s) : Mapped(f, s)[i] = f[s[i]]
  <1>1. Len(s) \in Nat /\ \A i \in 1..Len(s) : f[s[i]] \in B
    BY LenProperties, ElementOfSeq DEF Maps
  <1>2. Mapped(f, s) \in Seq(B)
    BY <1>1 DEF Mapped
  <1>3. DOMAIN Mapped(f, s) = 1..Len(s) /\ \A i \in 1..Len(s) : Mapped(f, s)[i] = f[s[i]]
    BY DEF Mapped
  <1>4. Len(Mapped(f, s)) \in Nat /\ 1..Len(Mapped(f, s)) = 1..Len(s)
    BY <1>2, <1>3, LenProperties
  <1>5. Len(Mapped(f, s)) = Len(s)
    BY <1>1, <1>4
  <1> QED
    BY <1>2, <1>3, <1>5

(* In the empty text there is nothing to replace.                          *)
LEMMA MappedOfNone ==
  ASSUME NEW f
  PROVE  Mapped(f, <<>>) = <<>> /\ Spread(f, <<>>) = <<>>
  <1>1. Mapped(f, <<>>) = <<>>
    BY DEF Mapped
  <1> QED
    BY <1>1 DEF Spread, FlattenSeq

(* A text of one element, replaced.                                        *)
LEMMA MappedOfOne ==
  ASSUME NEW A, NEW B, NEW f, Maps(f, A, B), NEW x \in A
  PROVE  Mapped(f, <<x>>) = <<f[x]>>
  <1> DEFINE o == <<x>>
             p == <<f[x]>>
  <1>1. o \in Seq(A) /\ Len(o) = 1 /\ o[1] = x /\ p \in Seq(B) /\ Len(p) = 1 /\ p[1] = f[x]
    BY DEF Maps
  <1> HIDE DEF o, p
  <1>2. Mapped(f, o) \in Seq(B) /\ Len(Mapped(f, o)) = 1 /\ Mapped(f, o)[1] = f[x]
    <2>1. 1 \in 1..Len(o)
      BY <1>1
    <2> QED
      BY <1>1, <2>1, MappedIsText
  <1>3. Mapped(f, o) = p
    <2>1. \A i \in 1..1 : Mapped(f, o)[i] = p[i]
      BY <1>1, <1>2
    <2> QED
      BY <1>1, <1>2, <2>1, SeqEqual
  <1> QED
    BY <1>3 DEF o, p

(* A concatenation is replaced part by part.                               *)
LEMMA MappedOfConcat ==
  ASSUME NEW A, NEW B, NEW f, Maps(f, A, B), NEW s \in Seq(A), NEW t \in Seq(A)
  PROVE  Mapped(f, s \o t) = Mapped(f, s) \o Mapped(f, t)
  <1> DEFINE x == Mapped(f, s \o t)
             k == Len(s)
             l == Len(t)
             p == Mapped(f, s)
             q == Mapped(f, t)
  <1>1. k \in Nat /\ l \in Nat /\ s \o t \in Seq(A) /\ Len(s \o t) = k + l
        /\ \A i \in 1..(k + l) : (s \o t)[i] = IF i <= k THEN s[i] ELSE t[i - k]
    BY ConcatProperties, LenProperties
  <1>2. x \in Seq(B) /\ Len(x) = k + l /\ \A i \in 1..(k + l) : x[i] = f[(s \o t)[i]]
    <2> DEFINE u == s \o t
    <2>1. u \in Seq(A) /\ Len(u) = k + l
      BY <1>1
    <2> HIDE DEF u, k, l
    <2>2. Mapped(f, u) \in Seq(B) /\ Len(Mapped(f, u)) = Len(u)
          /\ \A i \in 1..Len(u) : Mapped(f, u)[i] = f[u[i]]
      BY <2>1, MappedIsText
    <2> QED
      BY <2>1, <2>2 DEF u
  <1>3. p \in Seq(B) /\ Len(p) = k /\ \A i \in 1..k : p[i] = f[s[i]]
    BY MappedIsText
  <1>4. q \in Seq(B) /\ Len(q) = l /\ \A i \in 1..l : q[i] = f[t[i]]
    BY MappedIsText
  <1> HIDE DEF p, q, x, k, l
  <1>5. p \o q \in Seq(B) /\ Len(p \o q) = k + l
        /\ \A i \in 1..(k + l) : (p \o q)[i] = IF i <= k THEN p[i] ELSE q[i - k]
    <2>1. Joined(p, q, B)
      BY <1>3, <1>4, JoinedTexts
    <2> QED
      BY <1>3, <1>4, <2>1 DEF Joined
  <1>6. ASSUME NEW i \in 1..(k + l)
        PROVE  x[i] = (p \o q)[i]
    <2>1. CASE i <= k
      <3>1. i \in 1..k
        BY <1>1, <2>1
      <3>2. (p \o q)[i] = p[i] /\ (s \o t)[i] = s[i]
        BY <1>1, <1>5, <2>1
      <3> QED
        BY <1>2, <1>3, <3>1, <3>2
    <2>2. CASE ~(i <= k)
      <3>1. i - k \in 1..l
        BY <1>1, <2>2
      <3>2. (p \o q)[i] = q[i - k] /\ (s \o t)[i] = t[i - k]
        BY <1>1, <1>5, <2>2
      <3> QED
        BY <1>2, <1>4, <3>1, <3>2
    <2> QED
      BY <2>1, <2>2
  <1>7. x = p \o q
    BY <1>2, <1>5, <1>6, SeqEqual
  <1> QED
    BY <1>7 DEF x, p, q

(* Each element replaced by a text.                                        *)
LEMMA SpreadIsText ==
  ASSUME NEW A, NEW B, NEW f, Spreads(f, A, B), NEW s \in Seq(A)
  PROVE  Spread(f, s) \in Seq(B)
  <1>1. Mapped(f, s) \in Seq(Seq(B))
    BY MappedIsText DEF Spreads
  <1> QED
    BY <1>1, FlattenIsText DEF Spread

(* A text of one element, each of which yields a text.                     *)
LEMMA SpreadOfOne ==
  ASSUME NEW A, NEW B, NEW f, Spreads(f, A, B), NEW x \in A
  PROVE  Spread(f, <<x>>) = f[x]
  <1>1. Mapped(f, <<x>>) = <<f[x]>> /\ f[x] \in Seq(B)
    BY MappedOfOne DEF Maps, Spreads
  <1> QED
    BY <1>1, FlattenOfOne DEF Spread

(* A concatenation is spread part by part.                                 *)
LEMMA SpreadOfConcat ==
  ASSUME NEW A, NEW B, NEW f, Spreads(f, A, B), NEW s \in Seq(A), NEW t \in Seq(A)
  PROVE  Spread(f, s \o t) = Spread(f, s) \o Spread(f, t)
  <1>0. Maps(f, A, Seq(B))
    BY DEF Spreads
  <1>1. Mapped(f, s \o t) = Mapped(f, s) \o Mapped(f, t)
    BY <1>0, MappedOfConcat
  <1>2. Mapped(f, s) \in Seq(Seq(B)) /\ Mapped(f, t) \in Seq(Seq(B))
    BY <1>0, MappedIsText
  <1> QED
    BY <1>1, <1>2, FlattenOfConcat DEF Spread

Value(f, x) == f[x]

One(x) == <<x>>

(* The first element of a text that is spread.                             *)
LEMMA SpreadOfFirst ==
  ASSUME NEW A, NEW B, NEW f, Spreads(f, A, B), NEW x \in A, NEW s \in Seq(A)
  PROVE  Spread(f, One(x) \o s) = Value(f, x) \o Spread(f, s)
  <1> DEFINE o == <<x>>
  <1>0. Spread(f, o) = f[x]
    BY SpreadOfOne
  <1>1. o \in Seq(A)
    OBVIOUS
  <1> HIDE DEF o
  <1>2. Spread(f, o \o s) = Spread(f, o) \o Spread(f, s)
    BY <1>1, SpreadOfConcat
  <1> QED
    BY <1>0, <1>2 DEF o, Value, One

(* The last element of a text that is spread.                              *)
LEMMA SpreadOfLast ==
  ASSUME NEW A, NEW B, NEW f, Spreads(f, A, B), NEW x \in A, NEW s \in Seq(A)
  PROVE  Spread(f, s \o <<x>>) = Spread(f, s) \o Value(f, x)
  <1> DEFINE o == <<x>>
  <1>0. Spread(f, o) = f[x]
    BY SpreadOfOne
  <1>1. o \in Seq(A)
    OBVIOUS
  <1> HIDE DEF o
  <1>2. Spread(f, s \o o) = Spread(f, s) \o Spread(f, o)
    BY <1>1, SpreadOfConcat
  <1> QED
    BY <1>0, <1>2 DEF o, Value

(* Replacing the elements of what elements are replaced by.                *)
Composed(h, f, g, T) == \A x \in T : g[f[x]] = h[x]
Rendered(h, f, g, T) == \A x \in T : Mapped(g, f[x]) = h[x]

(* Elements that are replaced and then spread may be spread at once.       *)
LEMMA SpreadMapped ==
  ASSUME NEW A, NEW B, NEW C, NEW f, Maps(f, A, B), NEW g, Spreads(g, B, C), NEW s \in Seq(A),
         NEW h, Spreads(h, A, C), Composed(h, f, g, ToSet(s))
  PROVE  Spread(g, Mapped(f, s)) = Spread(h, s)
  <1>1. Len(s) \in Nat /\ \A i \in 1..Len(s) : s[i] \in A /\ s[i] \in ToSet(s)
    BY LenProperties, ElementOfSeq DEF ToSet
  <1>2. Mapped(f, s) \in Seq(B) /\ Len(Mapped(f, s)) = Len(s)
        /\ \A i \in 1..Len(s) : Mapped(f, s)[i] = f[s[i]]
    BY MappedIsText
  <1>3. Mapped(g, Mapped(f, s)) = Mapped(h, s)
    <2> DEFINE m == Mapped(f, s)
    <2> HIDE DEF m
    <2>1. Len(m) = Len(s) /\ \A i \in 1..Len(s) : g[m[i]] = h[s[i]]
      BY <1>1, <1>2 DEF m, Composed
    <2>2. Mapped(g, m) = Mapped(h, s)
      BY <2>1 DEF Mapped
    <2> QED
      BY <2>2 DEF m
  <1> QED
    BY <1>3 DEF Spread

(* Elements that are spread and then replaced may be spread at once.       *)
LEMMA MappedSpread ==
  ASSUME NEW A, NEW B, NEW C, NEW f, Spreads(f, A, B), NEW g, Maps(g, B, C), NEW s \in Seq(A),
         NEW h, Spreads(h, A, C), Rendered(h, f, g, ToSet(s))
  PROVE  Mapped(g, Spread(f, s)) = Spread(h, s)
  <1> DEFINE P == {u \in Seq(A) : ToSet(u) \subseteq ToSet(s) =>
                                    Mapped(g, Spread(f, u)) = Spread(h, u)}
  <1>1. <<>> \in P
    <2>1. Mapped(g, Spread(f, <<>>)) = Spread(h, <<>>)
      BY MappedOfNone
    <2> QED
      BY <2>1
  <1>2. ASSUME NEW a \in P, NEW x \in A
        PROVE  a \o <<x>> \in P
    <2> DEFINE o == a \o <<x>>
    <2>1. a \in Seq(A)
      OBVIOUS
    <2>2. o \in Seq(A) /\ Len(o) = Len(a) + 1 /\ Len(a) \in Nat
          /\ (\A i \in 1..Len(a) : o[i] = a[i]) /\ o[Len(a) + 1] = x
      BY <2>1, OneMore
    <2>3. Spread(f, o) = Spread(f, a) \o f[x] /\ Spread(h, o) = Spread(h, a) \o h[x]
      <3>1. Spread(f, a \o <<x>>) = Spread(f, a) \o Value(f, x)
        BY <2>1, SpreadOfLast
      <3>2. Spread(h, a \o <<x>>) = Spread(h, a) \o Value(h, x)
        BY <2>1, SpreadOfLast
      <3> QED
        BY <3>1, <3>2 DEF Value
    <2> HIDE DEF o
    <2> SUFFICES ASSUME ToSet(o) \subseteq ToSet(s)
                 PROVE  Mapped(g, Spread(f, o)) = Spread(h, o)
      BY <2>2 DEF o
    <2>4. ToSet(a) \subseteq ToSet(s) /\ x \in ToSet(s)
      <3> DEFINE p == <<x>>
      <3>1. p \in Seq(A) /\ ToSet(p) = {x} /\ o = a \o p
        BY ElementsOfOne DEF o
      <3> HIDE DEF p
      <3> QED
        BY <2>1, <3>1, ElementsOfConcat
    <2>5. Mapped(g, Spread(f, a)) = Spread(h, a)
      BY <2>4
    <2>6. Mapped(g, f[x]) = h[x] /\ f[x] \in Seq(B)
      BY <2>4 DEF Rendered, Maps, Spreads
    <2> DEFINE y == Spread(f, a)
               z == f[x]
    <2>7. y \in Seq(B) /\ z \in Seq(B)
      BY <2>1, <2>6, SpreadIsText
    <2> HIDE DEF y, z
    <2>8. Mapped(g, y \o z) = Mapped(g, y) \o Mapped(g, z)
      BY <2>7, MappedOfConcat
    <2> QED
      BY <2>3, <2>5, <2>6, <2>8 DEF y, z
  <1>3. P = Seq(A)
    <2>1. P \in SUBSET Seq(A)
      OBVIOUS
    <2> HIDE DEF P
    <2> QED
      BY <1>1, <1>2, <2>1, AppendInduction
  <1>4. s \in P
    BY <1>3
  <1> QED
    BY <1>4

(* Those elements that are in a set.                                       *)
Keeper(A, T) == [x \in A |-> IF x \in T THEN <<x>> ELSE <<>>]

(* Selecting spreads each element into itself or nothing.                  *)
LEMMA ThoseSpread ==
  ASSUME NEW A, NEW T, NEW s \in Seq(A)
  PROVE  /\ Those(s, T) = Spread(Keeper(A, T), s)
         /\ Spreads(Keeper(A, T), A, A) /\ Spreads(Keeper(A, T), A, A \cap T)
  <1>1. \A i \in 1..Len(s) : s[i] \in A
    BY ElementOfSeq
  <1>2. Mapped(Keeper(A, T), s) = [i \in 1..Len(s) |-> IF s[i] \in T THEN <<s[i]>> ELSE <<>>]
    BY <1>1 DEF Mapped, Keeper
  <1>3. Those(s, T) = Spread(Keeper(A, T), s)
    BY <1>2 DEF Those, Spread
  <1>4. \A x \in A : Keeper(A, T)[x] \in Seq(A) /\ Keeper(A, T)[x] \in Seq(A \cap T)
    <2> SUFFICES ASSUME NEW x \in A
                 PROVE  Keeper(A, T)[x] \in Seq(A) /\ Keeper(A, T)[x] \in Seq(A \cap T)
      OBVIOUS
    <2>1. CASE x \in T
      <3>1. Keeper(A, T)[x] = <<x>> /\ x \in A \cap T
        BY <2>1 DEF Keeper
      <3> QED
        BY <3>1
    <2>2. CASE x \notin T
      <3>1. Keeper(A, T)[x] = <<>>
        BY <2>2 DEF Keeper
      <3> QED
        BY <3>1
    <2> QED
      BY <2>1, <2>2
  <1>5. Keeper(A, T) = [x \in A |-> Keeper(A, T)[x]]
    BY DEF Keeper
  <1>6. Spreads(Keeper(A, T), A, A)
    <2> DEFINE K == Keeper(A, T)
    <2> HIDE DEF K
    <2>1. K \in [A -> Seq(A)]
      BY <1>4, <1>5 DEF K
    <2> QED
      BY <2>1 DEF Spreads, Maps, K
  <1>7. Spreads(Keeper(A, T), A, A \cap T)
    <2> DEFINE K == Keeper(A, T)
               U == A \cap T
    <2> HIDE DEF K
    <2>1. K \in [A -> Seq(U)]
      BY <1>4, <1>5 DEF K
    <2> QED
      BY <2>1 DEF Spreads, Maps, K
  <1> QED
    BY <1>3, <1>6, <1>7

(* What is selected is a text of what it was selected from.                *)
LEMMA ThoseIsText ==
  ASSUME NEW A, NEW T, NEW s \in Seq(A)
  PROVE  Those(s, T) \in Seq(A) /\ Those(s, T) \in Seq(A \cap T)
  <1> DEFINE K == Keeper(A, T)
             U == A \cap T
  <1>1. Those(s, T) = Spread(K, s) /\ Spreads(K, A, A) /\ Spreads(K, A, U)
    BY ThoseSpread
  <1> HIDE DEF K, U
  <1>2. Spread(K, s) \in Seq(A)
    BY <1>1, SpreadIsText
  <1>3. Spread(K, s) \in Seq(U)
    BY <1>1, SpreadIsText
  <1> QED
    BY <1>1, <1>2, <1>3 DEF U

(* A concatenation is selected from part by part.                          *)
LEMMA ThoseOfConcat ==
  ASSUME NEW A, NEW T, NEW s \in Seq(A), NEW t \in Seq(A)
  PROVE  Those(s \o t, T) = Those(s, T) \o Those(t, T)
  <1> DEFINE K == Keeper(A, T)
  <1>1. Those(s, T) = Spread(K, s) /\ Spreads(K, A, A)
    BY ThoseSpread
  <1>2. Those(t, T) = Spread(K, t)
    BY ThoseSpread
  <1>3. s \o t \in Seq(A)
    BY ConcatProperties
  <1>4. Those(s \o t, T) = Spread(K, s \o t)
    <2> DEFINE u == s \o t
    <2>1. u \in Seq(A)
      BY <1>3
    <2> HIDE DEF u
    <2>2. Those(u, T) = Spread(K, u)
      BY <2>1, ThoseSpread
    <2> QED
      BY <2>2 DEF u
  <1> HIDE DEF K
  <1>5. Spread(K, s \o t) = Spread(K, s) \o Spread(K, t)
    BY <1>1, SpreadOfConcat
  <1> QED
    BY <1>1, <1>2, <1>4, <1>5

(* Selecting from a text of one element.                                   *)
LEMMA ThoseOfOne ==
  ASSUME NEW T, NEW x
  PROVE  Those(<<x>>, T) = IF x \in T THEN <<x>> ELSE <<>>
  <1> DEFINE A == {x}
             K == Keeper(A, T)
             o == <<x>>
  <1>1. o \in Seq(A) /\ x \in A
    OBVIOUS
  <1>2. K[x] = IF x \in T THEN <<x>> ELSE <<>>
    BY DEF Keeper
  <1> HIDE DEF A, K
  <1>3. Spread(K, o) = K[x]
    <2>1. Spreads(K, A, A)
      BY <1>1, ThoseSpread DEF K
    <2> QED
      BY <1>1, <2>1, SpreadOfOne
  <1>4. Those(o, T) = Spread(K, o)
    <2> HIDE DEF o
    <2> QED
      BY <1>1, ThoseSpread DEF K
  <1> QED
    BY <1>2, <1>3, <1>4

(* Selecting from the empty text.                                          *)
LEMMA ThoseOfNone ==
  ASSUME NEW T
  PROVE  Those(<<>>, T) = <<>>
  <1>1. <<>> \in Seq({})
    OBVIOUS
  <1>2. Those(<<>>, T) = Spread(Keeper({}, T), <<>>)
    BY <1>1, ThoseSpread
  <1> QED
    BY <1>2, MappedOfNone

(* All elements, or none.                                                  *)
LEMMA ThoseAll ==
  ASSUME NEW T, NEW s \in Seq(T)
  PROVE  Those(s, T) = s
  <1> DEFINE P == {u \in Seq(T) : Those(u, T) = u}
  <1>1. <<>> \in P
    BY ThoseOfNone
  <1>2. ASSUME NEW a \in P, NEW x \in T
        PROVE  a \o <<x>> \in P
    <2> DEFINE o == <<x>>
    <2>1. a \in Seq(T) /\ Those(a, T) = a /\ o \in Seq(T)
      OBVIOUS
    <2>2. Those(o, T) = o
      BY ThoseOfOne
    <2> HIDE DEF o
    <2>3. Those(a \o o, T) = Those(a, T) \o Those(o, T)
      BY <2>1, ThoseOfConcat
    <2>4. a \o o \in Seq(T)
      BY <2>1, ConcatProperties
    <2> QED
      BY <2>1, <2>2, <2>3, <2>4 DEF o
  <1>3. P = Seq(T)
    <2>1. P \in SUBSET Seq(T)
      OBVIOUS
    <2> HIDE DEF P
    <2> QED
      BY <1>1, <1>2, <2>1, AppendInduction
  <1>4. s \in P
    BY <1>3
  <1> QED
    BY <1>4

(* Which elements they are.                                                *)
LEMMA ElementsOfThose ==
  ASSUME NEW A, NEW T, NEW s \in Seq(A)
  PROVE  ToSet(Those(s, T)) = ToSet(s) \cap T
  <1> DEFINE P == {u \in Seq(A) : ToSet(Those(u, T)) = ToSet(u) \cap T}
  <1>1. <<>> \in P
    <2>1. Those(<<>>, T) = <<>> /\ ToSet(<<>>) = {} /\ <<>> \in Seq(A)
      BY ThoseOfNone, ElementsOfNone
    <2> DEFINE e == <<>>
    <2>2. e \in Seq(A) /\ ToSet(Those(e, T)) = ToSet(e) \cap T
      BY <2>1
    <2> HIDE DEF e
    <2>3. e \in P
      BY <2>2
    <2> QED
      BY <2>3 DEF e
  <1>2. ASSUME NEW a \in P, NEW x \in A
        PROVE  a \o <<x>> \in P
    <2> DEFINE o == <<x>>
    <2>1. a \in Seq(A) /\ ToSet(Those(a, T)) = ToSet(a) \cap T /\ o \in Seq(A)
      OBVIOUS
    <2>2. ToSet(Those(o, T)) = ToSet(o) \cap T
      <3>1. Those(o, T) = IF x \in T THEN <<x>> ELSE <<>>
        BY ThoseOfOne
      <3>2. ToSet(<<x>>) = {x} /\ ToSet(<<>>) = {}
        BY ElementsOfOne, ElementsOfNone
      <3>3. CASE x \in T
        BY <3>1, <3>2, <3>3
      <3>4. CASE x \notin T
        BY <3>1, <3>2, <3>4
      <3> QED
        BY <3>3, <3>4
    <2> HIDE DEF o
    <2>3. Those(a \o o, T) = Those(a, T) \o Those(o, T)
      BY <2>1, ThoseOfConcat
    <2>4. a \o o \in Seq(A) /\ Those(a, T) \in Seq(A) /\ Those(o, T) \in Seq(A)
      BY <2>1, ConcatProperties, ThoseIsText
    <2>5. ToSet(Those(a, T) \o Those(o, T)) = ToSet(Those(a, T)) \cup ToSet(Those(o, T))
      BY <2>4, ElementsOfConcat
    <2>6. ToSet(a \o o) = ToSet(a) \cup ToSet(o)
      BY <2>1, ElementsOfConcat
    <2> QED
      BY <2>1, <2>2, <2>3, <2>4, <2>5, <2>6 DEF o
  <1>3. P = Seq(A)
    <2>1. P \in SUBSET Seq(A)
      OBVIOUS
    <2> HIDE DEF P
    <2> QED
      BY <1>1, <1>2, <2>1, AppendInduction
  <1>4. s \in P
    BY <1>3
  <1> QED
    BY <1>4

(* Which elements, before or after they are replaced.                      *)
Matched(f, U, T, D) == \A x \in D : f[x] \in U <=> x \in T

(* Selecting before or after elements are replaced, if what is selected is *)
(* replaced with what is selected.                                         *)
LEMMA ThoseMapped ==
  ASSUME NEW A, NEW B, NEW f, Maps(f, A, B), NEW s \in Seq(A), NEW T, NEW U,
         Matched(f, U, T, ToSet(s))
  PROVE  Those(Mapped(f, s), U) = Mapped(f, Those(s, T))
  <1> DEFINE K == Keeper(B, U)
             H == Keeper(A, T)
             h == [x \in A |-> IF f[x] \in U THEN <<f[x]>> ELSE <<>>]
  <1>0. \A x \in A : f[x] \in B
    BY DEF Maps
  <1>1. Mapped(f, s) \in Seq(B) /\ ToSet(s) \subseteq A
    BY MappedIsText, ElementsOfText
  <1>2. Spreads(h, A, B)
    <2>1. \A x \in A : h[x] \in Seq(B)
      BY <1>0
    <2>2. h = [x \in A |-> h[x]]
      OBVIOUS
    <2> HIDE DEF h
    <2>3. h \in [A -> Seq(B)]
      BY <2>1, <2>2
    <2> QED
      BY <2>3 DEF Spreads, Maps
  <1>3. Composed(h, f, K, ToSet(s))
    BY <1>0, <1>1 DEF Composed, Keeper
  <1>4. Rendered(h, H, f, ToSet(s))
    <2> SUFFICES ASSUME NEW x \in ToSet(s)
                 PROVE  Mapped(f, H[x]) = h[x]
      BY DEF Rendered
    <2>1. x \in A /\ (f[x] \in U <=> x \in T)
      BY <1>1 DEF Matched
    <2>2. CASE x \in T
      <3>1. H[x] = <<x>> /\ h[x] = <<f[x]>>
        BY <2>1, <2>2 DEF Keeper
      <3> QED
        BY <2>1, <3>1, MappedOfOne
    <2>3. CASE x \notin T
      <3>1. H[x] = <<>> /\ h[x] = <<>>
        BY <2>1, <2>3 DEF Keeper
      <3> QED
        BY <3>1, MappedOfNone
    <2> QED
      BY <2>2, <2>3
  <1> HIDE DEF h
  <1>5. Those(Mapped(f, s), U) = Spread(K, Mapped(f, s)) /\ Spreads(K, B, B)
    <2> DEFINE m == Mapped(f, s)
    <2>1. m \in Seq(B)
      BY <1>1
    <2> HIDE DEF m, K
    <2>2. Those(m, U) = Spread(K, m) /\ Spreads(K, B, B)
      BY <2>1, ThoseSpread DEF K
    <2> QED
      BY <2>2 DEF m
  <1>6. Those(s, T) = Spread(H, s) /\ Spreads(H, A, A)
    BY ThoseSpread
  <1> HIDE DEF K, H
  <1>7. Spread(K, Mapped(f, s)) = Spread(h, s)
    BY <1>2, <1>3, <1>5, SpreadMapped
  <1>8. Mapped(f, Spread(H, s)) = Spread(h, s)
    BY <1>2, <1>4, <1>6, MappedSpread
  <1> QED
    BY <1>5, <1>6, <1>7, <1>8

(* A part of a text of which the elements are replaced.                    *)
LEMMA PartMapped ==
  ASSUME NEW A, NEW B, NEW f, Maps(f, A, B), NEW s \in Seq(A),
         NEW m \in 1..(Len(s) + 1), NEW n \in Nat, m - 1 <= n, n <= Len(s)
  PROVE  SubSeq(Mapped(f, s), m, n) = Mapped(f, SubSeq(s, m, n))
  <1> DEFINE u == SubSeq(s, m, n)
             g == Mapped(f, s)
             x == SubSeq(g, m, n)
             y == Mapped(f, u)
             l == n - m + 1
  <1>1. u \in Seq(A) /\ Len(u) = l /\ \A i \in 1..l : u[i] = s[m + i - 1]
    BY PartIsText
  <1>2. g \in Seq(B) /\ Len(g) = Len(s) /\ \A i \in 1..Len(s) : g[i] = f[s[i]]
    BY MappedIsText
  <1> HIDE DEF u, g
  <1>3. x \in Seq(B) /\ Len(x) = l /\ \A i \in 1..l : x[i] = g[m + i - 1]
    BY <1>2, PartIsText
  <1>4. y \in Seq(B) /\ Len(y) = l /\ \A i \in 1..l : y[i] = f[u[i]]
    <2>1. y \in Seq(B) /\ Len(y) = Len(u) /\ \A i \in 1..Len(u) : y[i] = f[u[i]]
      BY <1>1, MappedIsText
    <2> HIDE DEF y, l
    <2> QED
      BY <1>1, <2>1
  <1>5. Len(s) \in Nat /\ \A i \in 1..l : m + i - 1 \in 1..Len(s)
    BY LenProperties
  <1> HIDE DEF x, y, l
  <1>6. \A i \in 1..l : x[i] = y[i]
    BY <1>1, <1>2, <1>3, <1>4, <1>5
  <1>7. x = y
    BY <1>3, <1>4, <1>6, SeqEqual
  <1> QED
    BY <1>7 DEF x, y, g, u

(* The first, the last and the other elements of a text that is replaced.  *)
LEMMA FrontMapped ==
  ASSUME NEW A, NEW B, NEW f, Maps(f, A, B), NEW s \in Seq(A), s # <<>>
  PROVE  /\ Front(Mapped(f, s)) = Mapped(f, Front(s))
         /\ Last(Mapped(f, s)) = f[Last(s)] /\ Head(Mapped(f, s)) = f[Head(s)]
         /\ Mapped(f, s) # <<>>
         /\ Front(s) \in Seq(A) /\ Last(s) \in A /\ Head(s) \in A
         /\ Last(s) = s[Len(s)] /\ Head(s) = s[1] /\ Len(Front(s)) = Len(s) - 1
  <1> DEFINE L == Len(s)
             g == Mapped(f, s)
  <1>1. L \in Nat \ {0}
    BY LenProperties, EmptySeq
  <1>2. g \in Seq(B) /\ Len(g) = L /\ \A i \in 1..L : g[i] = f[s[i]]
    BY MappedIsText
  <1> DEFINE n == L - 1
  <1>3. 1 \in 1..(Len(s) + 1) /\ n \in Nat /\ 1 - 1 <= n /\ n <= Len(s) /\ n - 1 + 1 = n
        /\ 1 \in 1..L /\ L \in 1..L
    BY <1>1
  <1> HIDE DEF n
  <1>4. SubSeq(Mapped(f, s), 1, n) = Mapped(f, SubSeq(s, 1, n))
    BY <1>3, PartMapped
  <1>5. SubSeq(s, 1, n) \in Seq(A) /\ Len(SubSeq(s, 1, n)) = n - 1 + 1
    BY <1>3, PartIsText
  <1> HIDE DEF L, g
  <1>6. Front(s) = SubSeq(s, 1, n) /\ Front(g) = SubSeq(g, 1, n)
    BY <1>2 DEF Front, n, L
  <1>7. Last(g) = f[s[L]] /\ Last(s) = s[L] /\ s[L] \in A
    <2>1. s[L] \in A
      BY <1>3, ElementOfSeq DEF L
    <2>2. Last(g) = g[L] /\ Last(s) = s[L]
      BY <1>2 DEF Last, L
    <2> QED
      BY <1>2, <1>3, <2>1, <2>2
  <1>8. Head(g) = f[s[1]] /\ Head(s) = s[1] /\ s[1] \in A
    <2>1. s[1] \in A
      BY <1>3, ElementOfSeq DEF L
    <2>2. Head(g) = g[1] /\ Head(s) = s[1]
      OBVIOUS
    <2> QED
      BY <1>2, <1>3, <2>1, <2>2
  <1>9. g # <<>>
    BY <1>1, <1>2, EmptySeq
  <1>10. Front(g) = Mapped(f, Front(s)) /\ Front(s) \in Seq(A)
    BY <1>4, <1>5, <1>6 DEF g
  <1>11. Len(Front(s)) = L - 1
    BY <1>3, <1>5, <1>6 DEF n
  <1> QED
    BY <1>7, <1>8, <1>9, <1>10, <1>11 DEF g, L

-----------------------------------------------------------------------------
(* Separators before and after elements are replaced.                      *)
Marks(f, A, c, d) == \A x \in A : f[x] = d <=> x = c
Each(f, A) == [u \in Seq(A) |-> Mapped(f, u)]

(* Replacing in each text of a sequence is a mapping of texts.             *)
LEMMA EachMaps ==
  ASSUME NEW A, NEW B, NEW f, Maps(f, A, B)
  PROVE  /\ Maps(Each(f, A), Seq(A), Seq(B))
         /\ \A u \in Seq(A) : Each(f, A)[u] = Mapped(f, u) /\ Mapped(f, u) \in Seq(B)
  <1>1. \A u \in Seq(A) : Mapped(f, u) \in Seq(B)
    BY MappedIsText
  <1>2. Each(f, A) \in [Seq(A) -> Seq(B)]
    BY <1>1 DEF Each
  <1>3. \A u \in Seq(A) : Each(f, A)[u] = Mapped(f, u)
    BY DEF Each
  <1> QED
    BY <1>1, <1>2, <1>3 DEF Maps

(* A separator is in a replaced text if it was in the text.                *)
LEMMA MarkedElements ==
  ASSUME NEW A, NEW B, NEW f, Maps(f, A, B), NEW c, NEW d, Marks(f, A, c, d), NEW s \in Seq(A)
  PROVE  d \in ToSet(Mapped(f, s)) <=> c \in ToSet(s)
  <1> DEFINE g == Mapped(f, s)
  <1>1. g \in Seq(B) /\ Len(g) = Len(s) /\ \A i \in 1..Len(s) : g[i] = f[s[i]]
    BY MappedIsText
  <1>2. \A i \in 1..Len(s) : s[i] \in A /\ (f[s[i]] = d <=> s[i] = c)
    BY ElementOfSeq DEF Marks
  <1> HIDE DEF g
  <1>3. DOMAIN g = 1..Len(s) /\ DOMAIN s = 1..Len(s)
    BY <1>1, LenProperties
  <1>4. d \in ToSet(g) <=> \E i \in 1..Len(s) : s[i] = c
    BY <1>1, <1>2, <1>3 DEF ToSet
  <1>5. c \in ToSet(s) <=> \E i \in 1..Len(s) : s[i] = c
    BY <1>3 DEF ToSet
  <1> QED
    BY <1>4, <1>5 DEF g

(* Cut has at least one piece, and its pieces are texts.                   *)
LEMMA CutIsNotEmpty ==
  ASSUME NEW S, NEW s \in Seq(S), NEW c \in S
  PROVE  Cut(s, <<c>>) # <<>> /\ Cut(s, <<c>>) \in Seq(Seq(S))
         /\ Len(Cut(s, <<c>>)) \in Nat \ {0}
  <1> DEFINE o == <<c>>
             y == Cut(s, o)
  <1>1. y \in Seq(Seq(S))
    <2>1. o \in Seq(S) /\ o # <<>>
      OBVIOUS
    <2> HIDE DEF o
    <2> QED
      BY <2>1, CutIsText
  <1>2. Len(y) \in Nat \ {0}
    <2>1. CASE Whole(s, c)
      BY <2>1 DEF Whole
    <2>2. CASE \E a, b \in Seq(S) : CutAt(s, c, a, b)
      <3>0. PICK a \in Seq(S), b \in Seq(S) : CutAt(s, c, a, b)
        BY <2>2
      <3>1. y = <<a>> \o Cut(b, o)
        BY <3>0 DEF CutAt
      <3>2. Cut(b, o) \in Seq(Seq(S))
        <4>1. o \in Seq(S) /\ o # <<>>
          OBVIOUS
        <4> HIDE DEF o
        <4> QED
          BY <4>1, CutIsText
      <3> DEFINE z == Cut(b, o)
                 p == <<a>>
      <3>3. z \in Seq(Seq(S)) /\ p \in Seq(Seq(S)) /\ Len(p) = 1 /\ y = p \o z
        <4>1. <<a>> \in Seq(Seq(S)) /\ Len(<<a>>) = 1
          OBVIOUS
        <4> HIDE DEF y, o
        <4> QED
          BY <3>1, <3>2, <4>1
      <3> HIDE DEF z, p, y, o
      <3>4. Len(y) = Len(p) + Len(z) /\ Len(z) \in Nat
        BY <3>3, ConcatProperties, LenProperties
      <3> QED
        BY <3>3, <3>4
    <2> HIDE DEF y
    <2> QED
      BY <2>1, <2>2, CutCases
  <1> HIDE DEF y
  <1>3. y # <<>>
    BY <1>1, <1>2, EmptySeq
  <1> QED
    BY <1>1, <1>2, <1>3 DEF y

(* The first element of a text that is replaced.                           *)
LEMMA MappedOfFirst ==
  ASSUME NEW A, NEW B, NEW f, Maps(f, A, B), NEW a \in A, NEW z \in Seq(A)
  PROVE  Mapped(f, One(a) \o z) = One(Value(f, a)) \o Mapped(f, z)
  <1> DEFINE p == <<a>>
  <1>1. p \in Seq(A)
    OBVIOUS
  <1>2. Mapped(f, p) = <<f[a]>>
    BY MappedOfOne
  <1> HIDE DEF p
  <1>3. Mapped(f, p \o z) = Mapped(f, p) \o Mapped(f, z)
    BY <1>1, MappedOfConcat
  <1> QED
    BY <1>2, <1>3 DEF p, One, Value

(* A text with a separator is replaced part by part.                       *)
LEMMA MappedOfParted ==
  ASSUME NEW A, NEW B, NEW f, Maps(f, A, B), NEW c \in A, NEW a \in Seq(A), NEW b \in Seq(A)
  PROVE  Mapped(f, (a \o One(c)) \o b) = (Mapped(f, a) \o One(Value(f, c))) \o Mapped(f, b)
  <1> DEFINE o == <<c>>
             q == a \o o
  <1>1. o \in Seq(A)
    OBVIOUS
  <1>2. Mapped(f, o) = <<f[c]>>
    BY MappedOfOne
  <1> HIDE DEF o
  <1>3. q \in Seq(A)
    BY <1>1, ConcatProperties
  <1>4. Mapped(f, a \o o) = Mapped(f, a) \o Mapped(f, o)
    BY <1>1, MappedOfConcat
  <1> HIDE DEF q
  <1>5. Mapped(f, q \o b) = Mapped(f, q) \o Mapped(f, b)
    BY <1>3, MappedOfConcat
  <1> QED
    BY <1>2, <1>4, <1>5 DEF o, q, One, Value

(* Cutting before or after elements are replaced makes no difference, if   *)
(* the separator is all that becomes a separator.                          *)
LEMMA CutMapped ==
  ASSUME NEW A, NEW B, NEW f, Maps(f, A, B), NEW c \in A, NEW d \in B, Marks(f, A, c, d),
         NEW s \in Seq(A)
  PROVE  Cut(Mapped(f, s), <<d>>) = Mapped(Each(f, A), Cut(s, <<c>>))
  <1> DEFINE E == Each(f, A)
             P == {u \in Seq(A) : Cut(Mapped(f, u), <<d>>) = Mapped(E, Cut(u, <<c>>))}
  <1>0. Maps(E, Seq(A), Seq(B)) /\ \A u \in Seq(A) : E[u] = Mapped(f, u)
    BY EachMaps
  <1>00. <<d>> \in Seq(B) /\ <<d>> # <<>> /\ <<d>>[1] = d
    OBVIOUS
  <1> HIDE DEF E
  <1>1. ASSUME NEW u \in Seq(A), \A t \in Seq(A) : Len(t) < Len(u) => t \in P
        PROVE  u \in P
    <2>1. CASE Whole(u, c)
      <3>1. Mapped(f, u) \in Seq(B) /\ d \notin ToSet(Mapped(f, u))
        BY <2>1, MappedIsText, MarkedElements DEF Whole
      <3>2. Cut(Mapped(f, u), <<d>>) = <<Mapped(f, u)>>
        <4> DEFINE g == Mapped(f, u)
                   o == <<d>>
        <4>1. g \in Seq(B) /\ o \in Seq(B) /\ o # <<>> /\ o[1] \notin ToSet(g)
          BY <1>00, <3>1
        <4> HIDE DEF g, o
        <4>2. Cut(g, o) = <<g>>
          BY <4>1, CutNone
        <4> QED
          BY <4>2 DEF g, o
      <3>3. Mapped(E, <<u>>) = <<E[u]>>
        BY <1>0, MappedOfOne
      <3> QED
        BY <1>0, <2>1, <3>2, <3>3 DEF Whole
    <2>2. CASE \E a, b \in Seq(A) : CutAt(u, c, a, b)
      <3>0. PICK a \in Seq(A), b \in Seq(A) : CutAt(u, c, a, b)
        BY <2>2
      <3>1. Parted(u, c, a, b) /\ Cut(u, <<c>>) = <<a>> \o Cut(b, <<c>>)
        BY <3>0 DEF CutAt
      <3>2. u = (a \o <<c>>) \o b /\ c \notin ToSet(a) /\ Len(u) = Len(a) + 1 + Len(b)
            /\ Len(a) \in Nat /\ Len(b) \in Nat
        BY <3>1, LenProperties DEF Parted
      <3>3. b \in P
        <4>1. Len(b) < Len(u)
          BY <3>2
        <4> HIDE DEF P
        <4> QED
          BY <1>1, <4>1
      <3>4. Mapped(f, u) = (Mapped(f, a) \o <<d>>) \o Mapped(f, b)
        <4>1. Value(f, c) = d
          BY DEF Marks, Value
        <4>2. Mapped(f, (a \o One(c)) \o b) = (Mapped(f, a) \o One(Value(f, c))) \o Mapped(f, b)
          BY MappedOfParted
        <4> QED
          BY <3>2, <4>1, <4>2 DEF One
      <3>5. Mapped(f, a) \in Seq(B) /\ Mapped(f, b) \in Seq(B) /\ d \notin ToSet(Mapped(f, a))
        BY <3>2, MappedIsText, MarkedElements
      <3>6. Cut(Mapped(f, u), <<d>>) = <<Mapped(f, a)>> \o Cut(Mapped(f, b), <<d>>)
        <4> DEFINE g == Mapped(f, a)
                   h == Mapped(f, b)
                   o == <<d>>
        <4>1. g \in Seq(B) /\ h \in Seq(B) /\ o \in Seq(B) /\ o # <<>> /\ o[1] \notin ToSet(g)
          BY <1>00, <3>5
        <4>2. Mapped(f, u) = (g \o o) \o h
          BY <3>4
        <4> HIDE DEF g, h, o
        <4>3. Cut((g \o o) \o h, o) = <<g>> \o Cut(h, o)
          BY <4>1, CutStep
        <4> QED
          BY <4>2, <4>3 DEF g, h, o
      <3>7. Mapped(E, <<a>> \o Cut(b, <<c>>)) = <<E[a]>> \o Mapped(E, Cut(b, <<c>>))
        <4> DEFINE z == Cut(b, <<c>>)
        <4>1. z \in Seq(Seq(A))
          BY CutIsNotEmpty
        <4> HIDE DEF z, P
        <4>2. Mapped(E, One(a) \o z) = One(Value(E, a)) \o Mapped(E, z)
          <5>1. Maps(E, Seq(A), Seq(B))
            BY <1>0
          <5> QED
            BY <4>1, <5>1, MappedOfFirst
        <4> QED
          BY <4>2 DEF z, One, Value
      <3>8. Cut(Mapped(f, b), <<d>>) = Mapped(E, Cut(b, <<c>>)) /\ E[a] = Mapped(f, a)
        BY <1>0, <3>3
      <3> QED
        BY <3>1, <3>6, <3>7, <3>8
    <2> HIDE DEF P
    <2> QED
      BY <2>1, <2>2, CutCases
  <1>2. P = Seq(A)
    <2>1. P \in SUBSET Seq(A)
      OBVIOUS
    <2> HIDE DEF P
    <2> QED
      BY <1>1, <2>1, ShorterInduction
  <1>3. s \in P
    BY <1>2
  <1> QED
    BY <1>3 DEF E

(* The pieces: texts of elements replaced.                                 *)
LEMMA PiecesMapped ==
  ASSUME NEW A, NEW B, NEW f, Maps(f, A, B), NEW c \in A, NEW d \in B, Marks(f, A, c, d),
         NEW s \in Seq(A)
  PROVE  /\ Pieces(Mapped(f, s), <<d>>) = Mapped(Each(f, A), Pieces(s, <<c>>))
         /\ Pieces(s, <<c>>) \in Seq(Seq(A))
  <1> DEFINE E == Each(f, A)
             x == Cut(s, <<c>>)
             y == Cut(Mapped(f, s), <<d>>)
  <1>0. Maps(E, Seq(A), Seq(B)) /\ \A u \in Seq(A) : E[u] = Mapped(f, u)
    BY EachMaps
  <1>1. x \in Seq(Seq(A)) /\ x # <<>>
    BY CutIsNotEmpty
  <1>2. y = Mapped(E, x)
    BY CutMapped
  <1>3. Pieces(s, <<c>>) = IF Last(x) = <<>> THEN Front(x) ELSE x
    BY DEF Pieces
  <1>4. Pieces(Mapped(f, s), <<d>>) = IF Last(y) = <<>> THEN Front(y) ELSE y
    BY DEF Pieces
  <1> HIDE DEF E, x, y
  <1>5. Front(y) = Mapped(E, Front(x)) /\ Last(y) = E[Last(x)] /\ Front(x) \in Seq(Seq(A)) /\ Last(x) \in Seq(A)
    BY <1>0, <1>1, <1>2, FrontMapped
  <1>6. Last(y) = Mapped(f, Last(x))
    BY <1>0, <1>5
  <1>7. Last(y) = <<>> <=> Last(x) = <<>>
    <2> DEFINE z == Last(x)
    <2> HIDE DEF z
    <2>1. z \in Seq(A)
      BY <1>5 DEF z
    <2>2. Mapped(f, z) \in Seq(B) /\ Len(Mapped(f, z)) = Len(z)
      BY <2>1, MappedIsText
    <2>3. Mapped(f, z) = <<>> <=> z = <<>>
      BY <2>1, <2>2, EmptySeq
    <2> QED
      BY <1>6, <2>3 DEF z
  <1> QED
    BY <1>1, <1>2, <1>3, <1>4, <1>5, <1>7 DEF E

(* The greatest of some numbers that are not above n.                      *)
LEMMA MaxIsGreatest ==
  ASSUME NEW n \in Nat, NEW M \in SUBSET (0..n), M # {}
  PROVE  Max(M) \in M /\ Max(M) \in 0..n /\ \A i \in M : i <= Max(M)
  <1> DEFINE D == {n - i : i \in M}
  <1>0. \A i \in M : i \in Nat /\ n - i \in Nat
    OBVIOUS
  <1>1. D \in SUBSET Nat /\ D # {}
    BY <1>0
  <1>2. PICK d \in D : \A e \in D : d <= e
    <2> HIDE DEF D
    <2> QED
      BY <1>1, LeastNatural
  <1>3. PICK m \in M : d = n - m
    BY <1>2
  <1>4. \A i \in M : i <= m
    <2> SUFFICES ASSUME NEW i \in M
                 PROVE  i <= m
      OBVIOUS
    <2>1. n - i \in D /\ i \in 0..n /\ m \in 0..n
      OBVIOUS
    <2>2. n - m <= n - i
      BY <1>2, <1>3, <2>1
    <2> QED
      BY <2>1, <2>2
  <1>5. \E x \in M : \A i \in M : i <= x
    BY <1>4
  <1>6. Max(M) \in M /\ \A i \in M : i <= Max(M)
    <2>1. Max(M) = CHOOSE x \in M : \A i \in M : i <= x
      BY DEF Max
    <2> QED
      BY <1>5, <2>1
  <1> QED
    BY <1>6

-----------------------------------------------------------------------------
(* A text in which a last element is added.                                *)
LEMMA OneIsText ==
  ASSUME NEW S, NEW x \in S
  PROVE  One(x) \in Seq(S) /\ Len(One(x)) = 1 /\ One(x)[1] = x /\ One(x) # <<>>
         /\ ToSet(One(x)) = {x}
  <1>1. <<x>> \in Seq(S) /\ Len(<<x>>) = 1 /\ <<x>>[1] = x /\ <<x>> # <<>>
    OBVIOUS
  <1> QED
    BY <1>1, ElementsOfOne DEF One

(* A text and one more element.                                            *)
LEMMA Prolonged ==
  ASSUME NEW S, NEW s \in Seq(S), NEW x \in S
  PROVE  /\ s \o One(x) \in Seq(S) /\ Len(s \o One(x)) = Len(s) + 1 /\ Len(s) \in Nat
         /\ (\A i \in 1..Len(s) : (s \o One(x))[i] = s[i])
         /\ (s \o One(x))[Len(s) + 1] = x
         /\ s \o One(x) # <<>>
         /\ Front(s \o One(x)) = s /\ Last(s \o One(x)) = x
  <1> DEFINE u == s \o One(x)
  <1>1. u \in Seq(S) /\ Len(u) = Len(s) + 1 /\ Len(s) \in Nat
         /\ (\A i \in 1..Len(s) : u[i] = s[i]) /\ u[Len(s) + 1] = x
    BY OneMore DEF One
  <1> HIDE DEF u
  <1>2. u # <<>>
    BY <1>1, EmptySeq
  <1>3. Last(u) = x
    BY <1>1 DEF Last
  <1>4. Front(u) = s
    <2> DEFINE n == Len(s)
               v == SubSeq(u, 1, n)
    <2>1. 1 \in 1..(Len(u) + 1) /\ n \in Nat /\ 1 - 1 <= n /\ n <= Len(u) /\ n - 1 + 1 = n
      BY <1>1
    <2>2. v \in Seq(S) /\ Len(v) = n - 1 + 1 /\ \A i \in 1..(n - 1 + 1) : v[i] = u[1 + i - 1]
      <3> HIDE DEF n
      <3> QED
        BY <1>1, <2>1, PartIsText
    <2>3. \A i \in 1..n : i \in Nat /\ 1 + i - 1 = i
      BY <2>1
    <2>4. \A i \in 1..n : v[i] = s[i]
      <3> HIDE DEF v
      <3> QED
        BY <1>1, <2>1, <2>2, <2>3
    <2>5. v = s
      <3> HIDE DEF v
      <3> QED
        BY <2>1, <2>2, <2>4, SeqEqual
    <2>6. Front(u) = v
      <3>1. Len(u) - 1 = n
        BY <1>1
      <3> QED
        BY <3>1 DEF Front
    <2> QED
      BY <2>5, <2>6
  <1> QED
    BY <1>1, <1>2, <1>3, <1>4 DEF u

SameElements(s, t) == ToSet(s \o t) = ToSet(s) \cup ToSet(t)

(* A concatenation has the elements of both texts (with the equality as a  *)
(* named predicate).                                                       *)
LEMMA ElementsJoined ==
  ASSUME NEW S, NEW s \in Seq(S), NEW t \in Seq(S)
  PROVE  SameElements(s, t)
  BY ElementsOfConcat DEF SameElements

SameGrouped(a, b, x) == (a \o b) \o One(x) = a \o (b \o One(x))

(* Parentheses around a text of one element.                               *)
LEMMA RegroupedOne ==
  ASSUME NEW S, NEW a \in Seq(S), NEW b \in Seq(S), NEW x \in S
  PROVE  SameGrouped(a, b, x)
  <1> DEFINE o == One(x)
  <1>1. o \in Seq(S)
    BY OneIsText
  <1> HIDE DEF o
  <1>2. (a \o b) \o o = a \o (b \o o)
    BY <1>1, Regrouped
  <1> QED
    BY <1>2 DEF o, SameGrouped

(* The complete pieces of a text that is being written, and the last.      *)
Complete(s, c) == Front(Cut(s, <<c>>))
Current(s, c)  == Last(Cut(s, <<c>>))

CutInto(s, c, q, l) == Cut(s, <<c>>) = q \o One(l) /\ c \notin ToSet(l)
PieceWritten(s, c, x, q, l) ==
  /\ CutInto(s, c, q, l)
  /\ x = c => CutInto(s \o One(x), c, q \o One(l), <<>>)
  /\ x # c => CutInto(s \o One(x), c, q, l \o One(x))

(* A text without a separator is its own last piece.                       *)
LEMMA CutWhole ==
  ASSUME NEW S, NEW s \in Seq(S), NEW c \in S, c \notin ToSet(s)
  PROVE  CutInto(s, c, <<>>, s)
  <1> DEFINE o == <<c>>
  <1>1. o \in Seq(S) /\ o # <<>> /\ o[1] \notin ToSet(s)
    OBVIOUS
  <1> HIDE DEF o
  <1>2. Cut(s, o) = <<s>>
    BY <1>1, CutNone
  <1>3. <<>> \o One(s) = <<s>>
    BY DEF One
  <1> QED
    BY <1>2, <1>3 DEF CutInto, o

(* A piece and a separator before a text that is cut.                      *)
LEMMA CutFurther ==
  ASSUME NEW S, NEW c \in S, NEW a \in Seq(S), c \notin ToSet(a), NEW b \in Seq(S),
         NEW q \in Seq(Seq(S)), NEW l \in Seq(S), CutInto(b, c, q, l)
  PROVE  CutInto((a \o One(c)) \o b, c, One(a) \o q, l)
  <1> DEFINE o == One(c)
  <1>1. o \in Seq(S) /\ o # <<>> /\ o[1] \notin ToSet(a)
    BY OneIsText
  <1> HIDE DEF o
  <1>2. Cut((a \o o) \o b, o) = <<a>> \o Cut(b, o)
    BY <1>1, CutStep
  <1>3. Cut(b, o) = q \o One(l)
    BY DEF CutInto, o, One
  <1>4. (One(a) \o q) \o One(l) = One(a) \o (q \o One(l))
    <2>1. One(a) \in Seq(Seq(S))
      BY OneIsText
    <2> QED
      BY <2>1, RegroupedOne DEF SameGrouped
  <1>5. Cut((a \o o) \o b, o) = (One(a) \o q) \o One(l)
    BY <1>2, <1>3, <1>4 DEF One
  <1> QED
    BY <1>5 DEF CutInto, o, One

(* One more character begins a piece or belongs to the last one.           *)
LEMMA WrittenOn ==
  ASSUME NEW S, NEW s \in Seq(S), NEW c \in S, NEW x \in S
  PROVE  \E q \in Seq(Seq(S)), l \in Seq(S) : PieceWritten(s, c, x, q, l)
  <1> DEFINE P == {u \in Seq(S) : \E q \in Seq(Seq(S)), l \in Seq(S) : PieceWritten(u, c, x, q, l)}
  <1>1. ASSUME NEW u \in Seq(S), \A t \in Seq(S) : Len(t) < Len(u) => t \in P
        PROVE  u \in P
    <2>1. CASE c \notin ToSet(u)
      <3>1. CutInto(u, c, <<>>, u)
        BY <2>1, CutWhole
      <3>2. ASSUME x = c
            PROVE  CutInto(u \o One(x), c, <<>> \o One(u), <<>>)
        <4> DEFINE e == <<>>
        <4>0. e \in Seq(S) /\ e \in Seq(Seq(S)) /\ c \notin ToSet(e)
          BY ElementsOfNone
        <4>1. CutInto(e, c, e, e)
          BY <4>0, CutWhole
        <4>2. CutInto((u \o One(c)) \o e, c, One(u) \o e, e)
          <5> HIDE DEF e, P
          <5> QED
            BY <2>1, <4>0, <4>1, CutFurther
        <4>3. (u \o One(c)) \o e = u \o One(c)
          BY Prolonged, ConcatEmptySeq
        <4>4. One(u) \o e = e \o One(u)
          BY DEF One
        <4> QED
          BY <3>2, <4>2, <4>3, <4>4
      <3>3. ASSUME x # c
            PROVE  CutInto(u \o One(x), c, <<>>, u \o One(x))
        <4> DEFINE v == u \o One(x)
        <4>1. v \in Seq(S)
          BY Prolonged
        <4>2. c \notin ToSet(v)
          <5>1. One(x) \in Seq(S) /\ ToSet(One(x)) = {x}
            BY OneIsText
          <5>2. ToSet(v) = ToSet(u) \cup ToSet(One(x))
            BY <5>1, ElementsOfConcat
          <5> QED
            BY <2>1, <3>3, <5>1, <5>2
        <4> HIDE DEF v
        <4>3. CutInto(v, c, <<>>, v)
          BY <4>1, <4>2, CutWhole
        <4> QED
          BY <4>3 DEF v
      <3>4. PieceWritten(u, c, x, <<>>, u)
        BY <3>1, <3>2, <3>3 DEF PieceWritten
      <3>5. <<>> \in Seq(Seq(S))
        OBVIOUS
      <3> QED
        BY <3>4, <3>5
    <2>2. CASE c \in ToSet(u)
      <3>1. PICK a \in Seq(S), b \in Seq(S) : Parted(u, c, a, b)
        BY <2>2, FirstPlace
      <3>2. u = (a \o One(c)) \o b /\ c \notin ToSet(a) /\ Len(b) < Len(u)
        <4>1. u = (a \o <<c>>) \o b /\ c \notin ToSet(a) /\ Len(u) = Len(a) + 1 + Len(b)
          BY <3>1 DEF Parted
        <4>2. Len(a) \in Nat /\ Len(b) \in Nat
          BY LenProperties
        <4>3. Len(b) < Len(u)
          BY <4>1, <4>2
        <4> QED
          BY <4>1, <4>3 DEF One
      <3>3. b \in P
        BY <1>1, <3>2
      <3>4. PICK q \in Seq(Seq(S)), l \in Seq(S) : PieceWritten(b, c, x, q, l)
        BY <3>3
      <3> HIDE DEF P
      <3>5. CutInto(u, c, One(a) \o q, l)
        BY <3>2, <3>4, CutFurther DEF PieceWritten
      <3>6. u \o One(x) = (a \o One(c)) \o (b \o One(x)) /\ b \o One(x) \in Seq(S)
        <4>1. a \o One(c) \in Seq(S) /\ b \o One(x) \in Seq(S)
          BY Prolonged
        <4>2. SameGrouped(a \o One(c), b, x)
          BY <4>1, RegroupedOne
        <4> QED
          BY <3>2, <4>1, <4>2 DEF SameGrouped
      <3>7. One(a) \in Seq(Seq(S)) /\ One(a) \o q \in Seq(Seq(S))
        BY OneIsText, ConcatProperties
      <3>8. ASSUME x = c
            PROVE  CutInto(u \o One(x), c, (One(a) \o q) \o One(l), <<>>)
        <4> DEFINE e == <<>>
                   p == q \o One(l)
                   d == b \o One(x)
        <4>1. e \in Seq(S) /\ p \in Seq(Seq(S)) /\ d \in Seq(S)
          BY <3>6, Prolonged
        <4>2. CutInto(d, c, p, e)
          BY <3>4, <3>8 DEF PieceWritten
        <4> HIDE DEF e, p, d
        <4>3. CutInto((a \o One(c)) \o d, c, One(a) \o p, e)
          BY <3>2, <4>1, <4>2, CutFurther
        <4>4. SameGrouped(One(a), q, l)
          BY <3>7, RegroupedOne
        <4> QED
          BY <3>6, <4>3, <4>4 DEF d, e, p, SameGrouped
      <3>9. ASSUME x # c
            PROVE  CutInto(u \o One(x), c, One(a) \o q, l \o One(x))
        <4> DEFINE d == b \o One(x)
                   m == l \o One(x)
        <4>1. d \in Seq(S) /\ m \in Seq(S)
          BY <3>6, Prolonged
        <4>2. CutInto(d, c, q, m)
          BY <3>4, <3>9 DEF PieceWritten
        <4> HIDE DEF d, m
        <4>3. CutInto((a \o One(c)) \o d, c, One(a) \o q, m)
          BY <3>2, <4>1, <4>2, CutFurther
        <4> QED
          BY <3>6, <4>3 DEF d, m
      <3>10. PieceWritten(u, c, x, One(a) \o q, l)
        BY <3>5, <3>8, <3>9 DEF PieceWritten
      <3> QED
        BY <3>7, <3>10 DEF P
    <2> QED
      BY <2>1, <2>2
  <1>2. P = Seq(S)
    <2>1. P \in SUBSET Seq(S)
      OBVIOUS
    <2> HIDE DEF P
    <2> QED
      BY <1>1, <2>1, ShorterInduction
  <1>3. s \in P
    BY <1>2
  <1> QED
    BY <1>3

NextPiece(s, c, x) ==
  /\ Complete(s \o One(x), c) = Complete(s, c) \o One(Current(s, c))
  /\ Current(s \o One(x), c) = <<>>
SamePiece(s, c, x) ==
  /\ Complete(s \o One(x), c) = Complete(s, c)
  /\ Current(s \o One(x), c) = Current(s, c) \o One(x)

(* What one more character changes about the complete pieces and the last  *)
(* one.                                                                    *)
LEMMA OneMoreCharacter ==
  ASSUME NEW S, NEW s \in Seq(S), NEW c \in S, NEW x \in S
  PROVE  /\ Complete(s, c) \in Seq(Seq(S)) /\ Current(s, c) \in Seq(S)
         /\ c \notin ToSet(Current(s, c))
         /\ Cut(s, <<c>>) = Complete(s, c) \o One(Current(s, c))
         /\ x = c => NextPiece(s, c, x)
         /\ x # c => SamePiece(s, c, x)
  <1>1. PICK q \in Seq(Seq(S)), l \in Seq(S) : PieceWritten(s, c, x, q, l)
    BY WrittenOn
  <1>2. ASSUME NEW t, NEW p \in Seq(Seq(S)), NEW m \in Seq(S), CutInto(t, c, p, m)
        PROVE  Complete(t, c) = p /\ Current(t, c) = m
    <2>1. Front(p \o One(m)) = p /\ Last(p \o One(m)) = m
      BY Prolonged
    <2> QED
      BY <1>2, <2>1 DEF CutInto, Complete, Current
  <1>3. Complete(s, c) = q /\ Current(s, c) = l
    BY <1>1, <1>2 DEF PieceWritten
  <1>4. ASSUME x = c
        PROVE  Complete(s \o One(x), c) = q \o One(l) /\ Current(s \o One(x), c) = <<>>
    <2> DEFINE e == <<>>
               p == q \o One(l)
    <2>1. e \in Seq(S) /\ p \in Seq(Seq(S))
      BY Prolonged
    <2>2. CutInto(s \o One(x), c, p, e)
      BY <1>1, <1>4 DEF PieceWritten
    <2> HIDE DEF e, p
    <2>3. Complete(s \o One(x), c) = p /\ Current(s \o One(x), c) = e
      BY <1>2, <2>1, <2>2
    <2> QED
      BY <2>3 DEF e, p
  <1>5. ASSUME x # c
        PROVE  Complete(s \o One(x), c) = q /\ Current(s \o One(x), c) = l \o One(x)
    <2> DEFINE m == l \o One(x)
    <2>1. m \in Seq(S)
      BY Prolonged
    <2>2. CutInto(s \o One(x), c, q, m)
      BY <1>1, <1>5 DEF PieceWritten
    <2> HIDE DEF m
    <2> QED
      BY <1>2, <2>1, <2>2 DEF m
  <1>6. Cut(s, <<c>>) = q \o One(l) /\ c \notin ToSet(l)
    BY <1>1 DEF PieceWritten, CutInto
  <1> QED
    BY <1>3, <1>4, <1>5, <1>6 DEF NextPiece, SamePiece

(* Of the empty text no piece is complete.                                 *)
LEMMA NoCharacter ==
  ASSUME NEW c
  PROVE  Complete(<<>>, c) = <<>> /\ Current(<<>>, c) = <<>>
  <1> DEFINE S == {c}
             e == <<>>
  <1>1. e \in Seq(S) /\ e \in Seq(Seq(S)) /\ c \in S /\ c \notin ToSet(e)
    BY ElementsOfNone
  <1>2. CutInto(e, c, e, e)
    <2>1. CutInto(e, c, <<>>, e)
      <3> HIDE DEF e, S
      <3> QED
        BY <1>1, CutWhole
    <2> QED
      BY <2>1
  <1>3. Front(e \o One(e)) = e /\ Last(e \o One(e)) = e
    <2> DEFINE T == Seq(S)
    <2>1. e \in Seq(T) /\ e \in T
      BY <1>1
    <2> HIDE DEF e, T
    <2> QED
      BY <2>1, Prolonged
  <1> QED
    BY <1>2, <1>3 DEF CutInto, Complete, Current

(* What a text is made of that elements are replaced by.                   *)
LEMMA ElementsOfSpread ==
  ASSUME NEW A, NEW B, NEW f, Spreads(f, A, B), NEW s \in Seq(A), NEW y
  PROVE  y \in ToSet(Spread(f, s)) <=> \E x \in ToSet(s) : y \in ToSet(f[x])
  <1> DEFINE Agrees(u) == y \in ToSet(Spread(f, u)) <=> \E x \in ToSet(u) : y \in ToSet(f[x])
             P == {u \in Seq(A) : Agrees(u)}
  <1>1. <<>> \in P
    <2>1. Spread(f, <<>>) = <<>> /\ ToSet(<<>>) = {}
      BY MappedOfNone, ElementsOfNone
    <2> QED
      BY <2>1
  <1>2. ASSUME NEW b \in P, NEW x \in A
        PROVE  <<x>> \o b \in P
    <2>1. b \in Seq(A) /\ Agrees(b)
      OBVIOUS
    <2> DEFINE q == One(x)
               u == q \o b
    <2>2. q \in Seq(A) /\ ToSet(q) = {x}
      BY OneIsText
    <2>3. Spread(f, u) = Value(f, x) \o Spread(f, b)
      BY <2>1, SpreadOfFirst
    <2>4. Value(f, x) \in Seq(B) /\ Spread(f, b) \in Seq(B) /\ Value(f, x) = f[x]
      BY <2>1, SpreadIsText DEF Spreads, Maps, Value
    <2> HIDE DEF q
    <2>5. ToSet(u) = {x} \cup ToSet(b) /\ u \in Seq(A)
      BY <2>1, <2>2, ElementsOfConcat, ConcatProperties
    <2>6. ToSet(Spread(f, u)) = ToSet(f[x]) \cup ToSet(Spread(f, b))
      <3> DEFINE v == Value(f, x)
                 w == Spread(f, b)
      <3>1. v \in Seq(B) /\ w \in Seq(B)
        BY <2>4
      <3> HIDE DEF v, w
      <3>2. ToSet(v \o w) = ToSet(v) \cup ToSet(w)
        BY <3>1, ElementsOfConcat
      <3> QED
        BY <2>3, <2>4, <3>2 DEF v, w
    <2> HIDE DEF u
    <2>7. Agrees(u)
      BY <2>1, <2>5, <2>6
    <2> HIDE DEF Agrees
    <2> QED
      BY <2>5, <2>7 DEF u, q, One
  <1>3. P = Seq(A)
    <2>1. P \in SUBSET Seq(A)
      OBVIOUS
    <2> HIDE DEF P
    <2> QED
      BY <1>1, <1>2, <2>1, PrependInduction
  <1>4. Agrees(s)
    <2> HIDE DEF Agrees
    <2> QED
      BY <1>3
  <1> QED
    BY <1>4

-----------------------------------------------------------------------------
(* The last piece.                                                         *)
LEMMA CutAtEnd ==
  ASSUME NEW S, NEW c \in S, NEW u \in Seq(S), NEW v \in Seq(S), c \notin ToSet(v)
  PROVE  Cut((u \o One(c)) \o v, One(c)) = Cut(u, One(c)) \o One(v)
  <1> DEFINE w == u \o One(c)
             Ends1(t) == c \notin ToSet(t) => Complete(w \o t, c) = Cut(u, One(c)) /\ Current(w \o t, c) = t
             P == {t \in Seq(S) : Ends1(t)}
  <1>1. w \in Seq(S)
    BY Prolonged
  <1>2. Complete(w, c) = Cut(u, One(c)) /\ Current(w, c) = <<>>
    <2>1. /\ Cut(u, <<c>>) = Complete(u, c) \o One(Current(u, c))
          /\ NextPiece(u, c, c)
      BY OneMoreCharacter
    <2> QED
      BY <2>1 DEF NextPiece, One
  <1> HIDE DEF w
  <1>3. <<>> \in P
    <2>1. w \o <<>> = w
      BY <1>1, ConcatEmptySeq
    <2> QED
      BY <1>2, <2>1
  <1>4. ASSUME NEW t \in P, NEW x \in S
        PROVE  t \o <<x>> \in P
    <2>1. t \in Seq(S) /\ Ends1(t)
      OBVIOUS
    <2> DEFINE o == One(x)
               n == t \o o
    <2>2. o \in Seq(S) /\ ToSet(o) = {x}
      BY OneIsText
    <2>3. n \in Seq(S) /\ ToSet(n) = ToSet(t) \cup {x}
      <3> HIDE DEF o
      <3> QED
        BY <2>1, <2>2, ElementsOfConcat, ConcatProperties
    <2>4. w \o n = (w \o t) \o o
      <3> HIDE DEF o
      <3>1. (w \o t) \o o = w \o (t \o o)
        BY <1>1, <2>1, <2>2, Regrouped
      <3> QED
        BY <3>1 DEF n
    <2>5. ASSUME c \notin ToSet(n)
          PROVE  Complete(w \o n, c) = Cut(u, One(c)) /\ Current(w \o n, c) = n
      <3>1. c \notin ToSet(t) /\ x # c
        BY <2>3, <2>5
      <3>2. Complete(w \o t, c) = Cut(u, One(c)) /\ Current(w \o t, c) = t
        BY <2>1, <3>1
      <3> DEFINE k == w \o t
      <3>3. k \in Seq(S)
        BY <1>1, <2>1, ConcatProperties
      <3> HIDE DEF k
      <3>4. SamePiece(k, c, x)
        BY <3>1, <3>3, OneMoreCharacter
      <3> QED
        BY <2>4, <3>2, <3>4 DEF SamePiece, k
    <2> HIDE DEF n
    <2>6. n \in P
      BY <2>3, <2>5
    <2> QED
      BY <2>6 DEF n, One
  <1>5. P = Seq(S)
    <2>1. P \in SUBSET Seq(S)
      OBVIOUS
    <2> HIDE DEF P
    <2> QED
      BY <1>3, <1>4, <2>1, AppendInduction
  <1>6. Ends1(v)
    <2> HIDE DEF Ends1
    <2> QED
      BY <1>5
  <1>7. w \o v \in Seq(S)
    BY <1>1, ConcatProperties
  <1>8. Cut(w \o v, <<c>>) = Complete(w \o v, c) \o One(Current(w \o v, c))
    <2> DEFINE k == w \o v
    <2>1. k \in Seq(S)
      BY <1>7
    <2> HIDE DEF k
    <2>2. Cut(k, <<c>>) = Complete(k, c) \o One(Current(k, c))
      BY <2>1, OneMoreCharacter
    <2> QED
      BY <2>2 DEF k
  <1> QED
    BY <1>6, <1>8 DEF w, One

(* A text with a separator has more than one piece.                        *)
LEMMA CutInPieces ==
  ASSUME NEW S, NEW s \in Seq(S), NEW c \in S, c \in ToSet(s)
  PROVE  Len(Cut(s, <<c>>)) # 1
  <1>1. ~Whole(s, c)
    BY DEF Whole
  <1>2. PICK a \in Seq(S), b \in Seq(S) : CutAt(s, c, a, b)
    BY <1>1, CutCases
  <1>3. Cut(s, <<c>>) = One(a) \o Cut(b, <<c>>)
    BY <1>2 DEF CutAt, One
  <1> DEFINE z == Cut(b, <<c>>)
             o == One(a)
  <1>4. z \in Seq(Seq(S)) /\ Len(z) \in Nat \ {0}
    BY CutIsNotEmpty
  <1>5. o \in Seq(Seq(S)) /\ Len(o) = 1
    BY OneIsText
  <1> HIDE DEF z, o
  <1>6. Len(o \o z) = Len(o) + Len(z)
    BY <1>4, <1>5, ConcatProperties
  <1> QED
    BY <1>3, <1>4, <1>5, <1>6 DEF z, o

(* A text of three elements in parts.                                      *)
LEMMA ThreeAre ==
  ASSUME NEW S, NEW a \in S, NEW b \in S, NEW c \in S
  PROVE  <<a, b, c>> = (One(a) \o One(b)) \o One(c)
  <1> DEFINE p == One(a)
             q == p \o One(b)
             r == q \o One(c)
             t == <<a, b, c>>
  <1>1. p \in Seq(S) /\ Len(p) = 1 /\ p[1] = a
    BY OneIsText
  <1> HIDE DEF p
  <1>2. q \in Seq(S) /\ Len(q) = 1 + 1 /\ q[1] = a /\ q[1 + 1] = b
    <2>1. 1 \in 1..1
      OBVIOUS
    <2>2. /\ p \o One(b) \in Seq(S) /\ Len(p \o One(b)) = Len(p) + 1
          /\ (\A i \in 1..Len(p) : (p \o One(b))[i] = p[i])
          /\ (p \o One(b))[Len(p) + 1] = b
      <3> HIDE DEF q, r, t
      <3>1. p \in Seq(S)
        BY <1>1
      <3> QED
        BY <3>1, Prolonged
    <2> QED
      BY <1>1, <2>1, <2>2
  <1> HIDE DEF q
  <1>3. r \in Seq(S) /\ Len(r) = 3 /\ r[1] = a /\ r[2] = b /\ r[3] = c
    <2>1. 1 \in 1..2 /\ 2 \in 1..2 /\ 1 + 1 = 2 /\ 2 + 1 = 3
      OBVIOUS
    <2>2. Len(q) = 2 /\ q[1] = a /\ q[2] = b
      BY <1>2, <2>1
    <2>3. /\ q \o One(c) \in Seq(S) /\ Len(q \o One(c)) = Len(q) + 1
          /\ (\A i \in 1..Len(q) : (q \o One(c))[i] = q[i])
          /\ (q \o One(c))[Len(q) + 1] = c
      BY <1>2, Prolonged
    <2> QED
      BY <2>1, <2>2, <2>3
  <1>4. t \in Seq(S) /\ Len(t) = 3 /\ t[1] = a /\ t[2] = b /\ t[3] = c
    OBVIOUS
  <1> HIDE DEF r, t
  <1>5. \A i \in 1..3 : t[i] = r[i]
    <2> TAKE i \in 1..3
    <2>1. i = 1 \/ i = 2 \/ i = 3
      OBVIOUS
    <2> QED
      BY <1>3, <1>4, <2>1
  <1>6. t = r
    BY <1>3, <1>4, <1>5, SeqEqual
  <1> QED
    BY <1>6 DEF t, r, q, p

(* A text of two elements in parts.                                        *)
LEMMA PairIs ==
  ASSUME NEW S, NEW x \in S, NEW y \in S
  PROVE  One(x) \o One(y) = <<x, y>>
  <1> DEFINE k == One(x) \o One(y)
             l == <<x, y>>
  <1>1. /\ k \in Seq(S) /\ Len(k) = 2 /\ k[1] = x /\ k[2] = y
    <2>1. k = Append(<<x>>, y)
      BY DEF One
    <2> QED
      BY <2>1
  <1>2. l \in Seq(S) /\ Len(l) = 2 /\ l[1] = x /\ l[2] = y
    OBVIOUS
  <1> HIDE DEF k, l
  <1>3. \A i \in 1..Len(k) : k[i] = l[i]
    BY <1>1, <1>2
  <1>4. k = l
    BY <1>1, <1>2, <1>3, SeqEqual
  <1> QED
    BY <1>4 DEF k, l

(* The first of a text that is looked for.                                 *)
LEMMA FirstOfThose ==
  ASSUME NEW A, NEW T, NEW s \in Seq(A), NEW i \in 1..Len(s), s[i] \in T,
         \A j \in 1..(i - 1) : s[j] \notin T
  PROVE  Those(s, T) # <<>> /\ Head(Those(s, T)) = s[i]
  <1> DEFINE Leading(t, k) == t[k] \in T /\ \A j \in 1..(k - 1) : t[j] \notin T
             Is(t) == \A k \in 1..Len(t) :
                        Leading(t, k) => Those(t, T) # <<>> /\ Head(Those(t, T)) = t[k]
             P == {t \in Seq(A) : Is(t)}
  <1>1. <<>> \in P
    OBVIOUS
  <1>2. ASSUME NEW b \in P, NEW x \in A
        PROVE  <<x>> \o b \in P
    <2>1. b \in Seq(A) /\ Is(b)
      OBVIOUS
    <2> DEFINE o == One(x)
               t == o \o b
    <2>2. o \in Seq(A) /\ Len(o) = 1 /\ o[1] = x
      BY OneIsText
    <2>3. Those(o, T) = IF x \in T THEN One(x) ELSE <<>>
      BY ThoseOfOne DEF One
    <2> HIDE DEF o
    <2>4. Joined(o, b, A)
      BY <2>1, <2>2, JoinedTexts
    <2>5. t \in Seq(A) /\ Len(t) = 1 + Len(b) /\ Len(b) \in Nat
      BY <2>1, <2>2, <2>4, LenProperties DEF Joined
    <2>6. t[1] = x
      <3>1. 1 \in 1..Len(o)
        BY <2>2
      <3> QED
        BY <2>2, <2>4, <3>1 DEF Joined
    <2>7. \A j \in 1..Len(b) : t[1 + j] = b[j]
      BY <2>2, <2>4 DEF Joined
    <2>8. Those(t, T) = Those(o, T) \o Those(b, T)
      BY <2>1, <2>2, ThoseOfConcat
    <2>9. Those(b, T) \in Seq(A)
      BY <2>1, ThoseIsText
    <2> HIDE DEF t
    <2>10. ASSUME NEW k \in 1..Len(t), Leading(t, k)
           PROVE  Those(t, T) # <<>> /\ Head(Those(t, T)) = t[k]
      <3>1. CASE x \in T
        <4>1. k = 1
          <5>1. ASSUME k # 1
                PROVE  FALSE
            <6>1. 1 \in 1..(k - 1)
              BY <5>1, <2>5
            <6>2. t[1] \notin T
              BY <6>1, <2>10
            <6> QED
              BY <6>2, <2>6, <3>1
          <5> QED
            BY <5>1
        <4>2. Those(t, T) = One(x) \o Those(b, T)
          BY <2>3, <2>8, <3>1
        <4> DEFINE d == Those(b, T)
        <4>3. d \in Seq(A)
          BY <2>9
        <4> HIDE DEF d
        <4>4. <<x>> \o d # <<>> /\ Head(<<x>> \o d) = x
          BY <4>3
        <4> QED
          BY <4>1, <4>2, <4>4, <2>6 DEF d, One
      <3>2. CASE x \notin T
        <4>1. k # 1
          BY <2>6, <2>10, <3>2
        <4> DEFINE l == k - 1
        <4>2. l \in 1..Len(b) /\ 1 + l = k /\ l \in Nat
          BY <4>1, <2>5
        <4> HIDE DEF l
        <4>3. t[k] = b[l]
          BY <4>2, <2>7
        <4>4. \A j \in 1..(l - 1) : b[j] \notin T
          <5> TAKE j \in 1..(l - 1)
          <5>1. j \in 1..Len(b) /\ 1 + j \in 1..(k - 1)
            BY <4>2, <2>5
          <5>2. t[1 + j] = b[j]
            BY <5>1, <2>7
          <5>3. t[1 + j] \notin T
            BY <5>1, <2>10
          <5> QED
            BY <5>2, <5>3
        <4>5. Those(t, T) = Those(b, T)
          <5>1. Those(t, T) = <<>> \o Those(b, T)
            BY <2>3, <2>8, <3>2
          <5> QED
            BY <5>1, <2>9, ConcatEmptySeq
        <4>6. Leading(b, l)
          BY <2>10, <4>3, <4>4
        <4>7. Those(b, T) # <<>> /\ Head(Those(b, T)) = b[l]
          BY <2>1, <4>2, <4>6
        <4> QED
          BY <4>3, <4>5, <4>7
      <3> QED
        BY <3>1, <3>2
    <2>11. Is(t)
      BY <2>10
    <2> HIDE DEF Is
    <2> QED
      BY <2>5, <2>11 DEF t, o, One
  <1>3. P = Seq(A)
    <2>1. P \in SUBSET Seq(A)
      OBVIOUS
    <2> HIDE DEF P
    <2> QED
      BY <1>1, <1>2, <2>1, PrependInduction
  <1>4. Is(s)
    <2> HIDE DEF Is
    <2> QED
      BY <1>3
  <1>5. Leading(s, i)
    OBVIOUS
  <1> QED
    BY <1>4, <1>5

-----------------------------------------------------------------------------
(* Items in a text.                                                        *)

(* A line, or nothing.                                                     *)
LEMMA IfMatchingIsText ==
  ASSUME NEW S, NEW line \in S, NEW item
  PROVE  IfMatching(line, item) \in Seq(S)
  BY DEF IfMatching

(* Matching's partial results: the n-th is of the first n lines.           *)
Steps(g, s, item, m) ==
  /\ g[0] = <<>>
  /\ \A n \in 1..m : g[n] = g[n - 1] \o IfMatching(s[n], item)

(* The lines of an item, line by line.                                     *)
LEMMA MatchingUnfolds ==
  ASSUME NEW S, NEW s \in Seq(S), NEW item
  PROVE  \E g \in [0..Len(s) -> Seq(S)] :
           Steps(g, s, item, Len(s)) /\ Matching(s, item) = g[Len(s)]
  <1> DEFINE N == Len(s)
             P == {n \in Nat : n <= N => \E g \in [0..n -> Seq(S)] : Steps(g, s, item, n)}
  <1>1. N \in Nat /\ \A i \in 1..N : s[i] \in S /\ IfMatching(s[i], item) \in Seq(S)
    BY LenProperties, ElementOfSeq, IfMatchingIsText
  <1>2. 0 \in P
    <2>1. [i \in 0..0 |-> <<>>] \in [0..0 -> Seq(S)] /\ Steps([i \in 0..0 |-> <<>>], s, item, 0)
      BY EmptySeq DEF Steps
    <2> QED
      BY <2>1
  <1>3. ASSUME NEW n \in P
        PROVE  n + 1 \in P
    <2>0. n \in Nat /\ n + 1 \in Nat
      OBVIOUS
    <2> SUFFICES ASSUME n + 1 <= N
                 PROVE  \E h \in [0..(n + 1) -> Seq(S)] : Steps(h, s, item, n + 1)
      BY <2>0
    <2>1. PICK g \in [0..n -> Seq(S)] : Steps(g, s, item, n)
      <3>1. n <= N
        BY <1>1, <2>0
      <3> QED
        BY <1>3, <3>1
    <2> DEFINE last == g[n] \o IfMatching(s[n + 1], item)
               h == [i \in 0..(n + 1) |-> IF i = n + 1 THEN last ELSE g[i]]
    <2>2. last \in Seq(S)
      <3>1. g[n] \in Seq(S) /\ IfMatching(s[n + 1], item) \in Seq(S)
        BY <1>1, <2>0, <2>1
      <3> QED
        BY <3>1, ConcatProperties
    <2>3. h \in [0..(n + 1) -> Seq(S)]
      <3> HIDE DEF last
      <3> QED
        BY <2>0, <2>1, <2>2
    <2>4. Steps(h, s, item, n + 1)
      <3>1. \A i \in 0..n : h[i] = g[i]
        <4> HIDE DEF last
        <4> QED
          BY <2>0
      <3>2. h[n + 1] = last
        BY <2>0
      <3>3. h[0] = <<>>
        BY <2>0, <2>1, <3>1 DEF Steps
      <3> HIDE DEF h, last
      <3>4. ASSUME NEW i \in 1..(n + 1)
            PROVE  h[i] = h[i - 1] \o IfMatching(s[i], item)
        <4>1. CASE i = n + 1
          <5>1. i - 1 = n /\ h[n] = g[n]
            BY <2>0, <3>1, <4>1
          <5> QED
            BY <3>2, <4>1, <5>1 DEF last
        <4>2. CASE i # n + 1
          <5>1. i \in 1..n /\ i \in 0..n /\ i - 1 \in 0..n
            BY <2>0, <4>2
          <5> QED
            BY <2>1, <3>1, <5>1 DEF Steps
        <4> QED
          BY <4>1, <4>2
      <3> QED
        BY <3>3, <3>4 DEF Steps
    <2> QED
      BY <2>3, <2>4
  <1>4. N \in P
    <2>1. P \in SUBSET Nat
      OBVIOUS
    <2> HIDE DEF P
    <2> QED
      BY <1>1, <1>2, <1>3, <2>1, SetInduction
  <1>5. PICK g \in [0..N -> Seq(S)] : Steps(g, s, item, N)
    BY <1>1, <1>4
  <1> DEFINE Own(f, n) == IF n = 0 THEN <<>> ELSE f[n - 1] \o IfMatching(s[n], item)
             Finds(f) == f = [n \in 0..N |-> Own(f, n)]
  <1>6. Finds(g)
    <2>1. \A n \in 0..N : g[n] = Own(g, n)
      <3>1. g[0] = Own(g, 0)
        BY <1>5 DEF Steps
      <3>2. ASSUME NEW n \in 0..N, n # 0
            PROVE  g[n] = Own(g, n)
        <4>1. n \in 1..N
          BY <1>1, <3>2
        <4> QED
          BY <1>5, <3>2, <4>1 DEF Steps
      <3> QED
        BY <3>1, <3>2
    <2> HIDE DEF Own
    <2> QED
      BY <2>1
  <1> DEFINE f == CHOOSE f : Finds(f)
  <1>7. Finds(f)
    <2> HIDE DEF Finds
    <2> QED
      BY <1>6
  <1>8. Matching(s, item) = f[N]
    BY DEF Matching
  <1> HIDE DEF f
  <1>9. f[0] = <<>> /\ \A n \in 1..N : f[n] = f[n - 1] \o IfMatching(s[n], item)
    <2>1. \A n \in 0..N : f[n] = Own(f, n)
      <3> HIDE DEF Own
      <3> QED
        BY <1>7
    <2>2. f[0] = Own(f, 0) /\ \A n \in 1..N : n # 0 /\ f[n] = Own(f, n)
      <3> HIDE DEF Own
      <3> QED
        BY <1>1, <2>1
    <2> QED
      BY <2>2
  <1> HIDE DEF Finds, Own
  <1>10. \A n \in 0..N : f[n] = g[n]
    <2> DEFINE Q == {n \in Nat : n <= N => f[n] = g[n]}
    <2>1. 0 \in Q
      BY <1>5, <1>9 DEF Steps
    <2>2. ASSUME NEW n \in Q
          PROVE  n + 1 \in Q
      <3>1. n \in Nat /\ n + 1 \in Nat /\ (n + 1) - 1 = n
        OBVIOUS
      <3>2. n + 1 <= N => n + 1 \in 1..N /\ n <= N
        BY <1>1, <3>1
      <3>3. n + 1 <= N => f[n] = g[n]
        BY <3>2
      <3>4. n + 1 <= N => f[n + 1] = g[n + 1]
        BY <1>5, <1>9, <3>1, <3>2, <3>3 DEF Steps
      <3> QED
        BY <3>1, <3>4
    <2>3. Q = Nat
      <3>1. Q \in SUBSET Nat
        OBVIOUS
      <3> HIDE DEF Q
      <3> QED
        BY <2>1, <2>2, <3>1, SetInduction
    <2> QED
      BY <1>1, <2>3
  <1>11. f[N] = g[N]
    BY <1>1, <1>10
  <1> QED
    BY <1>5, <1>8, <1>11

(* What matches in two texts is what matches in the one and in the other.  *)
LEMMA MatchingOfConcat ==
  ASSUME NEW S, NEW s \in Seq(S), NEW t \in Seq(S), NEW item
  PROVE  /\ Matching(s \o t, item) = Matching(s, item) \o Matching(t, item)
         /\ Matching(s, item) \in Seq(S)
  <1> DEFINE M == Len(s)
             N == Len(t)
             u == s \o t
  <1>0. M = Len(s) /\ N = Len(t) /\ u = s \o t
    OBVIOUS
  <1> HIDE DEF M, N, u
  <1>1. /\ M \in Nat /\ N \in Nat /\ u \in Seq(S) /\ Len(u) = M + N
        /\ \A i \in 1..M : u[i] = s[i]
        /\ \A i \in 1..N : u[M + i] = t[i]
    <2>1. M \in Nat /\ N \in Nat
      BY <1>0, LenProperties
    <2>2. /\ u \in Seq(S) /\ Len(u) = M + N
          /\ \A i \in 1..(M + N) : u[i] = IF i <= M THEN s[i] ELSE t[i - M]
      BY <1>0, ConcatProperties
    <2> QED
      BY <2>1, <2>2
  <1>2. PICK f \in [0..M -> Seq(S)] : Steps(f, s, item, M) /\ Matching(s, item) = f[M]
    BY <1>0, MatchingUnfolds
  <1>3. PICK g \in [0..N -> Seq(S)] : Steps(g, t, item, N) /\ Matching(t, item) = g[N]
    BY <1>0, MatchingUnfolds
  <1>4. PICK h \in [0..Len(u) -> Seq(S)] : Steps(h, u, item, Len(u)) /\ Matching(u, item) = h[Len(u)]
    <2>1. u \in Seq(S)
      BY <1>1
    <2> QED
      BY <2>1, MatchingUnfolds
  <1>5. f[M] \in Seq(S)
    <2>1. M \in 0..M
      BY <1>1
    <2> QED
      BY <1>2, <2>1
  <1>6. h[M] = f[M]
    <2> DEFINE P == {n \in Nat : n <= M => h[n] = f[n]}
    <2>1. 0 \in P
      BY <1>1, <1>2, <1>4 DEF Steps
    <2>2. ASSUME NEW n \in P
          PROVE  n + 1 \in P
      <3>1. n \in Nat /\ n + 1 \in Nat /\ (n + 1) - 1 = n
        OBVIOUS
      <3> SUFFICES ASSUME n + 1 <= M
                   PROVE  h[n + 1] = f[n + 1]
        BY <3>1
      <3>2. n + 1 \in 1..M /\ n + 1 \in 1..Len(u) /\ n <= M
        BY <1>1, <3>1
      <3>3. h[n] = f[n] /\ u[n + 1] = s[n + 1]
        BY <1>1, <3>2
      <3> QED
        BY <1>2, <1>4, <3>1, <3>2, <3>3 DEF Steps
    <2>3. P = Nat
      <3>1. P \in SUBSET Nat
        OBVIOUS
      <3> HIDE DEF P
      <3> QED
        BY <2>1, <2>2, <3>1, SetInduction
    <2>4. M \in P
      BY <1>1, <2>3
    <2> QED
      BY <1>1, <2>4
  <1>7. h[M + N] = f[M] \o g[N]
    <2> DEFINE P == {n \in Nat : n <= N => h[M + n] = f[M] \o g[n]}
    <2>1. 0 \in P
      <3>1. f[M] \o g[0] = f[M]
        BY <1>3, <1>5, ConcatEmptySeq DEF Steps
      <3>2. M + 0 = M
        BY <1>1
      <3>3. h[M + 0] = f[M] \o g[0]
        BY <1>6, <3>1, <3>2
      <3> QED
        BY <3>3
    <2>2. ASSUME NEW n \in P
          PROVE  n + 1 \in P
      <3>1. n \in Nat /\ n + 1 \in Nat /\ (n + 1) - 1 = n
        OBVIOUS
      <3> SUFFICES ASSUME n + 1 <= N
                   PROVE  h[M + (n + 1)] = f[M] \o g[n + 1]
        BY <3>1
      <3>2. /\ n + 1 \in 1..N /\ M + (n + 1) \in 1..Len(u) /\ n <= N /\ n \in 0..N
            /\ (M + (n + 1)) - 1 = M + n
        BY <1>1, <3>1
      <3>3. h[M + n] = f[M] \o g[n] /\ u[M + (n + 1)] = t[n + 1]
        BY <1>1, <3>2
      <3> DEFINE own == IfMatching(t[n + 1], item)
      <3>4. h[M + (n + 1)] = (f[M] \o g[n]) \o own
        BY <1>4, <3>2, <3>3 DEF Steps
      <3>5. g[n + 1] = g[n] \o own
        BY <1>3, <3>1, <3>2 DEF Steps
      <3>6. g[n] \in Seq(S) /\ own \in Seq(S)
        <4>1. t[n + 1] \in S
          BY <1>0, <3>2, ElementOfSeq
        <4> QED
          BY <3>2, <4>1, IfMatchingIsText
      <3> HIDE DEF own
      <3>7. (f[M] \o g[n]) \o own = f[M] \o (g[n] \o own)
        <4>1. \A x, y, z \in Seq(S) : (x \o y) \o z = x \o (y \o z)
          BY SMTT(60), Regrouped
        <4> DEFINE a == f[M]
                   b == g[n]
        <4>2. a \in Seq(S) /\ b \in Seq(S) /\ own \in Seq(S)
          BY <1>5, <3>6
        <4> HIDE DEF a, b
        <4>3. (a \o b) \o own = a \o (b \o own)
          BY Zenon, <4>1, <4>2
        <4> QED
          BY <4>3 DEF a, b
      <3> QED
        BY <3>4, <3>5, <3>7
    <2>3. P = Nat
      <3>1. P \in SUBSET Nat
        OBVIOUS
      <3> HIDE DEF P
      <3> QED
        BY <2>1, <2>2, <3>1, SetInduction
    <2>4. N \in P
      BY <1>1, <2>3
    <2> QED
      BY <1>1, <2>4
  <1> QED
    BY <1>0, <1>1, <1>2, <1>3, <1>4, <1>5, <1>7

(* The lines of an item in a text of one line.                             *)
LEMMA MatchingOfLine ==
  ASSUME NEW line, NEW item
  PROVE  Matching(<<line>>, item) = IfMatching(line, item)
  <1> DEFINE S == {line}
             s == <<line>>
  <1>1. s \in Seq(S) /\ Len(s) = 1 /\ s[1] = line /\ line \in S
    OBVIOUS
  <1>2. IfMatching(line, item) \in Seq(S)
    BY <1>1, IfMatchingIsText
  <1> HIDE DEF s, S
  <1>3. PICK g \in [0..Len(s) -> Seq(S)] : Steps(g, s, item, Len(s)) /\ Matching(s, item) = g[Len(s)]
    BY <1>1, MatchingUnfolds
  <1>4. g[1] = g[0] \o IfMatching(s[1], item) /\ g[0] = <<>>
    <2>1. 1 \in 1..Len(s) /\ 1 - 1 = 0
      BY <1>1
    <2> QED
      BY <1>3, <2>1 DEF Steps
  <1>5. Matching(s, item) = <<>> \o IfMatching(line, item)
    BY <1>1, <1>3, <1>4
  <1>6. <<>> \o IfMatching(line, item) = IfMatching(line, item)
    BY <1>2, ConcatEmptySeq
  <1> QED
    BY <1>5, <1>6 DEF s

-----------------------------------------------------------------------------
(* The inductive invariant.                                                *)

(* Sections and texts are what they are taken for.                         *)
TypeOK ==
  /\ DOMAIN m_sec_info = Tags
  /\ \A t \in Tags : IsText(m_sec_info[t])
  /\ file \in Seq(Sections \ {Malformed})
  /\ \A k \in 1..Len(file) : Conf(file[k]) # <<>>

(* A section of the file is found by its name, ...                         *)
SectionsAreKept ==
  \A k \in 1..Len(file) : Named(file[k].tag, file[k].name) # {}

(* ... and nothing else is.                                                *)
KeptAreSections ==
  \A t \in Tags : \A i \in 1..Len(m_sec_info[t]) :
    \E k \in 1..Len(file) :
      file[k].tag = t /\ file[k].name = m_sec_info[t][i].name

NamesDiffer ==
  \A t \in Tags : \A i, j \in 1..Len(m_sec_info[t]) :
    m_sec_info[t][i].name = m_sec_info[t][j].name => i = j

(* A section's text is its own, or its own before its parent's, which has  *)
(* not changed since.                                                      *)
ConfsAreJoined ==
  \A k \in 1..Len(file) : \A i \in Named(file[k].tag, file[k].name) :
    /\ Parent(k) = {} => m_sec_info[file[k].tag][i].conf = Conf(file[k])
    /\ Parent(k) # {} => \A n \in Named(file[k].tag, file[k].parent) :
         m_sec_info[file[k].tag][i].conf
           = Join(Conf(file[k]), m_sec_info[file[k].tag][n].conf)

Inv ==
  /\ TypeOK
  /\ SectionsAreKept
  /\ KeptAreSections
  /\ NamesDiffer
  /\ SectionsAreSound
  /\ ConfsAreJoined

-----------------------------------------------------------------------------
(* The invariant is inductive.                                             *)

(* What it means to store a section.                                       *)
LEMMA Stored ==
  ASSUME TypeOK, NEW sec \in Sections \ {Malformed}, NEW conf, Store(sec, conf)
  PROVE  /\ sec.tag \in Tags
         /\ Len(file) \in Nat /\ Len(file') = Len(file) + 1
         /\ file' \in Seq(Sections \ {Malformed})
         /\ \A k \in 1..Len(file) : file'[k] = file[k]
         /\ file'[Len(file) + 1] = sec
         /\ DOMAIN m_sec_info' = Tags
         /\ \A t \in Tags : t # sec.tag => m_sec_info'[t] = m_sec_info[t]
         /\ IsText(m_sec_info'[sec.tag])
         /\ \A t \in Tags : Len(m_sec_info[t]) \in Nat
         /\ Len(m_sec_info'[sec.tag]) = Len(m_sec_info[sec.tag]) + 1
         /\ \A i \in 1..Len(m_sec_info[sec.tag]) :
              m_sec_info'[sec.tag][i] = m_sec_info[sec.tag][i]
         /\ m_sec_info'[sec.tag][Len(m_sec_info[sec.tag]) + 1].name = sec.name
         /\ m_sec_info'[sec.tag][Len(m_sec_info[sec.tag]) + 1].conf = conf
  <1>1. sec.tag \in Tags
    BY ConfigAssumption
  <1>2. /\ Len(file) \in Nat /\ Len(file') = Len(file) + 1
        /\ file' \in Seq(Sections \ {Malformed})
        /\ \A k \in 1..Len(file) : file'[k] = file[k]
        /\ file'[Len(file) + 1] = sec
    <2>1. file' = Append(file, sec) /\ file \in Seq(Sections \ {Malformed})
      BY DEF Store, TypeOK
    <2> QED
      BY <2>1, AppendProperties, LenProperties
  <1> DEFINE entry == [name |-> sec.name, parent |-> sec.parent, conf |-> conf]
  <1>3. /\ DOMAIN m_sec_info' = Tags
        /\ \A t \in Tags : t # sec.tag => m_sec_info'[t] = m_sec_info[t]
        /\ m_sec_info'[sec.tag] = Append(m_sec_info[sec.tag], entry)
    <2>1. m_sec_info' = [m_sec_info EXCEPT ![sec.tag] = Append(@, entry)]
      BY DEF Store
    <2> HIDE DEF entry
    <2> QED
      BY <1>1, <2>1 DEF TypeOK
  <1>4. entry.name = sec.name /\ entry.conf = conf
    OBVIOUS
  <1> HIDE DEF entry
  <1>5. \A t \in Tags : Len(m_sec_info[t]) \in Nat
    BY AppendToText DEF TypeOK
  <1>6. IsText(m_sec_info[sec.tag])
    BY <1>1 DEF TypeOK
  <1>7. /\ IsText(m_sec_info'[sec.tag])
        /\ Len(m_sec_info'[sec.tag]) = Len(m_sec_info[sec.tag]) + 1
        /\ \A i \in 1..Len(m_sec_info[sec.tag]) :
             m_sec_info'[sec.tag][i] = m_sec_info[sec.tag][i]
        /\ m_sec_info'[sec.tag][Len(m_sec_info[sec.tag]) + 1] = entry
    BY <1>3, <1>6, AppendToText
  <1> QED
    BY <1>1, <1>2, <1>3, <1>4, <1>5, <1>7

(* When a section is stored as the first of its tag, or alone, or with its *)
(* parent's text.                                                          *)
Storable(sec, conf) ==
  /\ Conf(sec) # <<>>
  /\ \/ First(sec) /\ conf = Conf(sec)
     \/ /\ ~Defined(sec)
        /\ \/ sec.parent = NoName /\ conf = Conf(sec)
           \/ /\ sec.parent # NoName
              /\ \E i \in Named(sec.tag, sec.parent) :
                   conf = Join(Conf(sec), m_sec_info[sec.tag][i].conf)

(* StoreSection keeps the invariant.                                       *)
LEMMA StoreInvariance ==
  ASSUME Inv, NEW sec \in Sections \ {Malformed}, NEW conf,
         Storable(sec, conf), Store(sec, conf)
  PROVE  Inv'
  <1> DEFINE K == Len(file) + 1
             tag == sec.tag
             I == Len(m_sec_info[tag]) + 1
             NewNamed(t, name) ==
               {i \in 1..Len(m_sec_info'[t]) : m_sec_info'[t][i].name = name}
             NewParent(k) == {j \in 1..(k - 1) : /\ file'[k].parent # NoName
                                                 /\ file'[j].tag = file'[k].tag
                                                 /\ file'[j].name = file'[k].parent}
  <1>0. TypeOK
    BY DEF Inv
  <1>1. /\ tag \in Tags
        /\ Len(file) \in Nat /\ Len(file') = K
        /\ file' \in Seq(Sections \ {Malformed})
        /\ \A k \in 1..Len(file) : file'[k] = file[k]
        /\ file'[K] = sec
    BY <1>0, Stored
  <1>2. /\ DOMAIN m_sec_info' = Tags
        /\ \A t \in Tags : t # tag => m_sec_info'[t] = m_sec_info[t]
        /\ \A t \in Tags : Len(m_sec_info[t]) \in Nat
        /\ Len(m_sec_info'[tag]) = I
        /\ \A i \in 1..(I - 1) : m_sec_info'[tag][i] = m_sec_info[tag][i]
        /\ m_sec_info'[tag][I].name = sec.name
        /\ m_sec_info'[tag][I].conf = conf
        /\ I \in Nat /\ I - 1 = Len(m_sec_info[tag])
    <2>1. Len(m_sec_info[tag]) \in Nat
      BY <1>0, Stored
    <2>2. I \in Nat /\ I - 1 = Len(m_sec_info[tag])
      BY <2>1
    <2> QED
      BY <1>0, <2>2, Stored
  <1>3. IsText(m_sec_info'[tag])
    BY <1>0, Stored
  <1>4. \A k \in 1..Len(file) : file[k].tag \in Tags
    <2>1. \A k \in 1..Len(file) : file[k] \in Sections \ {Malformed}
      BY <1>0, ElementOfSeq DEF TypeOK
    <2> QED
      BY <2>1, ConfigAssumption
  <1> HIDE DEF K, tag, I
  <1>5. K = Len(file) + 1 /\ tag = sec.tag
    BY DEF K, tag
  <1>6. \A k \in 1..K : k \in 1..Len(file) \/ k = K
    BY <1>1, <1>5
  <1>7. \A k \in 1..Len(file) : NewParent(k) = Parent(k)
    <2>1. ASSUME NEW k \in 1..Len(file)
          PROVE  NewParent(k) = Parent(k)
      <3>1. \A j \in 1..(k - 1) : file'[j] = file[j]
        BY <1>1
      <3>2. file'[k] = file[k]
        BY <1>1
      <3> QED
        BY <3>1, <3>2 DEF Parent
    <2> QED
      BY <2>1
  <1>8. NewParent(K) = {j \in 1..Len(file) : /\ sec.parent # NoName
                                          /\ file[j].tag = tag
                                          /\ file[j].name = sec.parent}
    <2>1. K - 1 = Len(file)
      BY <1>1, <1>5
    <2> QED
      BY <1>1, <1>5, <2>1 DEF Parent
  <1>9. \A t \in Tags : \A name :
          NewNamed(t, name) = Named(t, name) \cup (IF t = tag /\ name = sec.name THEN {I} ELSE {})
    <2> SUFFICES ASSUME NEW t \in Tags, NEW name
                 PROVE  NewNamed(t, name)
                          = Named(t, name) \cup (IF t = tag /\ name = sec.name THEN {I} ELSE {})
      OBVIOUS
    <2>1. CASE t # tag
      BY <1>2, <2>1 DEF Named
    <2>2. CASE t = tag
      <3>1. 1..I = 1..(I - 1) \cup {I}
        BY <1>2
      <3> QED
        BY <1>2, <2>2, <3>1 DEF Named
    <2> QED
      BY <2>1, <2>2
  <1> HIDE DEF NewNamed, NewParent
  <1>10. ASSUME NEW t \in Tags, NEW name, t # tag \/ name # sec.name
         PROVE  NewNamed(t, name) = Named(t, name)
    <2>1. NewNamed(t, name) = Named(t, name) \cup (IF t = tag /\ name = sec.name THEN {I} ELSE {})
      BY <1>9
    <2> QED
      BY <1>10, <2>1
  <1>11. First(sec) => \A k \in 1..Len(file) : file[k].tag # tag
    <2> SUFFICES ASSUME First(sec), NEW k \in 1..Len(file), file[k].tag = tag
                 PROVE  FALSE
      OBVIOUS
    <2>1. Len(m_sec_info[tag]) = 0
      BY <1>5, EmptySeq DEF First
    <2>2. Named(tag, file[k].name) = {}
      BY <2>1 DEF Named
    <2> QED
      BY <2>2 DEF Inv, SectionsAreKept
  <1>12. Named(tag, sec.name) = {}
    <2>1. CASE First(sec)
      <3>1. Len(m_sec_info[tag]) = 0
        BY <1>5, <2>1, EmptySeq DEF First
      <3> QED
        BY <3>1 DEF Named
    <2>2. CASE ~First(sec)
      BY <1>5, <2>2 DEF Storable, Defined
    <2> QED
      BY <2>1, <2>2
  <1>13. \A k \in 1..Len(file) : file[k].tag = tag => file[k].name # sec.name
    BY <1>12 DEF Inv, SectionsAreKept
  <1>14. Conf(sec) # <<>>
    BY DEF Storable
  <1>15. TypeOK'
    <2>1. \A t \in Tags : IsText(m_sec_info'[t])
      <3> SUFFICES ASSUME NEW t \in Tags
                   PROVE  IsText(m_sec_info'[t])
        OBVIOUS
      <3>1. CASE t = tag
        BY <1>3, <3>1
      <3>2. CASE t # tag
        <4>1. IsText(m_sec_info[t]) /\ m_sec_info'[t] = m_sec_info[t]
          BY <1>0, <1>2, <3>2 DEF TypeOK
        <4> QED
          BY <4>1
      <3> QED
        BY <3>1, <3>2
    <2>2. \A k \in 1..Len(file') : Conf(file'[k]) # <<>>
      <3> SUFFICES ASSUME NEW k \in 1..K
                   PROVE  Conf(file'[k]) # <<>>
        BY <1>1
      <3>1. CASE k \in 1..Len(file)
        <4>1. file'[k] = file[k] /\ Conf(file[k]) # <<>>
          BY <1>0, <1>1, <3>1 DEF TypeOK
        <4> QED
          BY <4>1
      <3>2. CASE k = K
        BY <1>1, <1>14, <3>2
      <3> QED
        BY <1>6, <3>1, <3>2
    <2> QED
      BY <1>1, <1>2, <2>1, <2>2 DEF TypeOK
  <1>16. SectionsAreKept'
    <2> SUFFICES ASSUME NEW k \in 1..K
                 PROVE  NewNamed(file'[k].tag, file'[k].name) # {}
      BY <1>1 DEF SectionsAreKept, Named, NewNamed
    <2>1. CASE k \in 1..Len(file)
      <3>1. Named(file[k].tag, file[k].name) # {} /\ file[k].tag \in Tags
        BY <1>4, <2>1 DEF Inv, SectionsAreKept
      <3>2. file'[k] = file[k]
        BY <1>1, <2>1
      <3>3. Named(file[k].tag, file[k].name) \subseteq NewNamed(file'[k].tag, file'[k].name)
        BY <1>9, <3>1, <3>2
      <3> QED
        BY <3>1, <3>3
    <2>2. CASE k = K
      BY <1>1, <1>5, <1>9, <2>2
    <2> QED
      BY <1>6, <2>1, <2>2
  <1>17. KeptAreSections'
    <2> SUFFICES ASSUME NEW t \in Tags, NEW i \in 1..Len(m_sec_info'[t])
                 PROVE  \E k \in 1..K : file'[k].tag = t /\ file'[k].name = m_sec_info'[t][i].name
      BY <1>1 DEF KeptAreSections
    <2>1. CASE t = tag /\ i = I
      <3>1. K \in 1..K
        BY <1>1, <1>5
      <3> QED
        BY <1>1, <1>2, <1>5, <2>1, <3>1
    <2>2. CASE ~(t = tag /\ i = I)
      <3>1. i \in 1..Len(m_sec_info[t]) /\ m_sec_info'[t][i] = m_sec_info[t][i]
        BY <1>2, <2>2
      <3>2. PICK k \in 1..Len(file) : file[k].tag = t /\ file[k].name = m_sec_info[t][i].name
        BY <3>1 DEF Inv, KeptAreSections
      <3>3. k \in 1..K /\ file'[k] = file[k]
        BY <1>1, <1>5
      <3> QED
        BY <3>1, <3>2, <3>3
    <2> QED
      BY <2>1, <2>2
  <1>18. NamesDiffer'
    <2> SUFFICES ASSUME NEW t \in Tags,
                        NEW i \in 1..Len(m_sec_info'[t]), NEW j \in 1..Len(m_sec_info'[t]),
                        m_sec_info'[t][i].name = m_sec_info'[t][j].name
                 PROVE  i = j
      BY DEF NamesDiffer
    <2>1. CASE t # tag
      <3>1. m_sec_info'[t] = m_sec_info[t]
        BY <1>2, <2>1
      <3> QED
        BY <3>1 DEF Inv, NamesDiffer
    <2>2. CASE t = tag
      <3>1. \A n \in 1..(I - 1) : m_sec_info[tag][n].name # sec.name
        BY <1>2, <1>12 DEF Named
      <3>2. i \in 1..I /\ j \in 1..I
        BY <1>2, <2>2
      <3>3. CASE i = I \/ j = I
        BY <1>2, <2>2, <3>1, <3>2, <3>3
      <3>4. CASE i # I /\ j # I
        <4>1. i \in 1..(I - 1) /\ j \in 1..(I - 1)
          BY <1>2, <3>2, <3>4
        <4>2. m_sec_info[tag][i].name = m_sec_info[tag][j].name
          BY <1>2, <2>2, <4>1
        <4> QED
          BY <1>1, <1>2, <4>1, <4>2 DEF Inv, NamesDiffer
      <3> QED
        BY <3>3, <3>4
    <2> QED
      BY <2>1, <2>2
  <1>19. sec.parent # NoName /\ Named(tag, sec.parent) # {} => NewParent(K) # {}
    <2> SUFFICES ASSUME sec.parent # NoName, NEW i \in Named(tag, sec.parent)
                 PROVE  NewParent(K) # {}
      OBVIOUS
    <2>1. i \in 1..Len(m_sec_info[tag]) /\ m_sec_info[tag][i].name = sec.parent
      BY DEF Named
    <2>2. \E k \in 1..Len(file) : file[k].tag = tag /\ file[k].name = sec.parent
      BY <1>1, <2>1 DEF Inv, KeptAreSections
    <2> QED
      BY <1>8, <2>2
  <1>20. SectionsAreSound'
    <2> SUFFICES ASSUME NEW k \in 1..K, NEW j \in 1..(k - 1), file'[j].tag = file'[k].tag
                 PROVE  /\ file'[j].name # file'[k].name
                        /\ file'[k].parent # NoName => NewParent(k) # {}
      BY <1>1 DEF SectionsAreSound, Parent, NewParent
    <2>0. j \in 1..Len(file) /\ file'[j] = file[j]
      BY <1>1, <1>5
    <2>1. CASE k \in 1..Len(file)
      <3>1. file'[k] = file[k] /\ NewParent(k) = Parent(k)
        BY <1>1, <1>7, <2>1
      <3> QED
        BY <2>0, <2>1, <3>1 DEF Inv, SectionsAreSound
    <2>2. CASE k = K
      <3>1. file'[k] = sec /\ file[j].tag = tag
        BY <1>1, <1>5, <2>0, <2>2
      <3>2. file[j].name # sec.name
        BY <1>13, <2>0, <3>1
      <3>3. ~First(sec)
        BY <1>11, <2>0, <3>1
      <3>4. sec.parent # NoName => Named(tag, sec.parent) # {}
        BY <1>5, <3>3 DEF Storable
      <3> QED
        BY <1>19, <2>0, <2>2, <3>1, <3>2, <3>4
    <2> QED
      BY <1>6, <2>1, <2>2
  <1>21. ConfsAreJoined'
    <2> SUFFICES ASSUME NEW k \in 1..K, NEW i \in NewNamed(file'[k].tag, file'[k].name)
                 PROVE  /\ NewParent(k) = {} => m_sec_info'[file'[k].tag][i].conf = Conf(file'[k])
                        /\ NewParent(k) # {} => \A n \in NewNamed(file'[k].tag, file'[k].parent) :
                             m_sec_info'[file'[k].tag][i].conf
                               = Join(Conf(file'[k]), m_sec_info'[file'[k].tag][n].conf)
      BY <1>1 DEF ConfsAreJoined, Named, NewNamed, Parent, NewParent
    <2>1. CASE k \in 1..Len(file)
      <3> DEFINE t == file[k].tag
      <3>1. file'[k] = file[k] /\ NewParent(k) = Parent(k) /\ t \in Tags
        BY <1>1, <1>4, <1>7, <2>1
      <3>2. \A name : t # tag \/ name # sec.name => NewNamed(t, name) = Named(t, name)
        BY <1>10, <3>1
      <3>3. i \in Named(t, file[k].name)
        BY <1>13, <2>1, <3>1, <3>2
      <3>4. Parent(k) # {} => NewNamed(t, file[k].parent) = Named(t, file[k].parent)
        <4> SUFFICES ASSUME NEW j \in Parent(k)
                     PROVE  t # tag \/ file[k].parent # sec.name
          BY <3>2
        <4>1. j \in 1..Len(file) /\ file[j].tag = t /\ file[j].name = file[k].parent
          BY <1>1, <2>1 DEF Parent
        <4> QED
          BY <1>13, <4>1
      <3>5. \A name : \A n \in Named(t, name) : m_sec_info'[t][n] = m_sec_info[t][n]
        <4>1. CASE t = tag
          BY <1>2, <4>1 DEF Named
        <4>2. CASE t # tag
          BY <1>2, <3>1, <4>2
        <4> QED
          BY <4>1, <4>2
      <3>6. /\ Parent(k) = {} => m_sec_info[t][i].conf = Conf(file[k])
            /\ Parent(k) # {} => \A n \in Named(t, file[k].parent) :
                 m_sec_info[t][i].conf = Join(Conf(file[k]), m_sec_info[t][n].conf)
        BY <2>1, <3>3 DEF Inv, ConfsAreJoined
      <3> HIDE DEF t
      <3>7. file'[k].tag = t /\ file'[k].parent = file[k].parent
        BY <3>1 DEF t
      <3> QED
        BY <3>1, <3>3, <3>4, <3>5, <3>6, <3>7
    <2>2. CASE k = K
      <3>1. file'[k] = sec /\ i = I
        <4>1. file'[k] = sec
          BY <1>1, <2>2
        <4> QED
          BY <1>1, <1>5, <1>9, <1>12, <4>1
      <3>2. m_sec_info'[tag][I].conf = conf
        BY <1>2
      <3>3. CASE First(sec)
        <4>1. NewParent(K) = {}
          BY <1>8, <1>11, <3>3
        <4>2. conf = Conf(sec)
          <5>1. Named(tag, sec.parent) = {}
            <6>1. Len(m_sec_info[tag]) = 0
              BY <1>5, <3>3, EmptySeq DEF First
            <6> QED
              BY <6>1 DEF Named
          <5> QED
            BY <1>5, <5>1 DEF Storable
        <4> QED
          BY <1>5, <2>2, <3>1, <3>2, <4>1, <4>2
      <3>4. CASE ~First(sec) /\ sec.parent = NoName /\ conf = Conf(sec)
        <4>1. NewParent(K) = {}
          BY <1>8, <3>4
        <4> QED
          BY <1>5, <2>2, <3>1, <3>2, <3>4, <4>1
      <3>5. CASE /\ ~First(sec)
                 /\ sec.parent # NoName
                 /\ \E n \in Named(tag, sec.parent) :
                      conf = Join(Conf(sec), m_sec_info[tag][n].conf)
        <4>1. PICK n \in Named(tag, sec.parent) :
                 conf = Join(Conf(sec), m_sec_info[tag][n].conf)
          BY <3>5
        <4>2. NewNamed(tag, sec.parent) = Named(tag, sec.parent)
          <5>1. sec.parent # sec.name
            BY <1>12
          <5> QED
            BY <1>1, <1>10, <5>1
        <4>3. \A m \in Named(tag, sec.parent) : m = n
          BY <1>1 DEF Inv, NamesDiffer, Named
        <4>4. m_sec_info'[tag][n] = m_sec_info[tag][n]
          BY <1>2 DEF Named
        <4> QED
          <5>1. NewParent(K) # {}
            BY <1>19, <3>5
          <5>2. ASSUME NEW m \in NewNamed(tag, sec.parent)
                PROVE  m_sec_info'[tag][I].conf = Join(Conf(sec), m_sec_info'[tag][m].conf)
            <6>1. m = n
              BY <4>2, <4>3
            <6> QED
              BY <3>2, <4>1, <4>4, <6>1
          <5> QED
            BY <1>5, <2>2, <3>1, <5>1, <5>2
      <3> QED
        BY <1>5, <3>3, <3>4, <3>5 DEF Storable
    <2> QED
      BY <1>6, <2>1, <2>2
  <1> QED
    BY <1>15, <1>16, <1>17, <1>18, <1>20, <1>21 DEF Inv

(* The invariant holds before a file is read.                              *)
LEMMA StartsInvariant == Init => Inv
  <1> SUFFICES ASSUME Init
               PROVE  Inv
    OBVIOUS
  <1>1. DOMAIN m_sec_info = Tags /\ \A t \in Tags : m_sec_info[t] = <<>>
    BY DEF Init
  <1>2. IsText(<<>>) /\ Len(<<>>) = 0
    BY EmptySeq DEF IsText
  <1>3. file = <<>> /\ 1..0 = {}
    BY DEF Init
  <1>4. file \in Seq(Sections \ {Malformed}) /\ Len(file) = 0
    BY <1>3, EmptySeq
  <1> QED
    BY <1>1, <1>2, <1>3, <1>4
       DEF Inv, TypeOK, SectionsAreKept, KeptAreSections, NamesDiffer, SectionsAreSound,
           ConfsAreJoined

(* Whatever the parser does with a section keeps the invariant.            *)
LEMMA StepKeepsInvariant == Inv /\ [Next]_vars => Inv'
  <1> SUFFICES ASSUME Inv, [Next]_vars
               PROVE  Inv'
    OBVIOUS
  <1>1. CASE UNCHANGED <<m_sec_info, file>>
    <2>1. m_sec_info' = m_sec_info /\ file' = file
      BY <1>1
    <2>2. TypeOK' /\ KeptAreSections' /\ NamesDiffer'
      BY <2>1 DEF Inv, TypeOK, KeptAreSections, NamesDiffer
    <2>3. SectionsAreKept'
      BY <2>1 DEF Inv, SectionsAreKept, Named
    <2>4. SectionsAreSound'
      BY <2>1 DEF Inv, SectionsAreSound, Parent
    <2>5. ConfsAreJoined'
      BY <2>1 DEF Inv, ConfsAreJoined, Named, Parent
    <2> QED
      BY <2>2, <2>3, <2>4, <2>5 DEF Inv
  <1>2. ASSUME NEW sec \in Sections, ParseFirst(sec)
        PROVE  Inv'
    <2>1. /\ sec \in Sections \ {Malformed} /\ Storable(sec, Conf(sec))
          /\ Store(sec, Conf(sec))
      BY <1>2 DEF ParseFirst, Readable, Storable
    <2> QED
      BY <2>1, StoreInvariance
  <1>3. ASSUME NEW sec \in Sections, ParseAlone(sec)
        PROVE  Inv'
    <2>1. /\ sec \in Sections \ {Malformed} /\ Storable(sec, Conf(sec))
          /\ Store(sec, Conf(sec))
      BY <1>3 DEF ParseAlone, Readable, Storable
    <2> QED
      BY <2>1, StoreInvariance
  <1>4. ASSUME NEW sec \in Sections, ParseChild(sec)
        PROVE  Inv'
    <2>1. PICK i \in Named(sec.tag, sec.parent) :
             Store(sec, Join(Conf(sec), m_sec_info[sec.tag][i].conf))
      BY <1>4 DEF ParseChild
    <2> DEFINE conf == Join(Conf(sec), m_sec_info[sec.tag][i].conf)
    <2>2. sec \in Sections \ {Malformed} /\ Storable(sec, conf) /\ Store(sec, conf)
      BY <1>4, <2>1 DEF ParseChild, Readable, Storable
    <2> HIDE DEF conf
    <2> QED
      BY <2>2, StoreInvariance
  <1>5. ASSUME NEW sec, Reject(sec)
        PROVE  Inv'
    BY <1>1, <1>5 DEF Reject
  <1>6. CASE Load
    BY <1>1, <1>6 DEF Load
  <1>7. CASE UNCHANGED vars
    BY <1>1, <1>7 DEF vars
  <1> QED
    BY <1>2, <1>3, <1>4, <1>5, <1>6, <1>7 DEF Next

(* Every file, of whatever sections: what is kept per tag are the file's   *)
(* sections, and a section's text is its own and its parent's.             *)
THEOREM Invariance == Spec => []Inv
  BY StartsInvariant, StepKeepsInvariant, PTL DEF Spec

(* In a file that is not refused no tag has two sections of one name, and  *)
(* a parent is a section of the tag further up                             *)
(* (looka_config_parser.cpp:209-229).                                      *)
THEOREM SectionsSound == Spec => []SectionsAreSound
  <1>1. Inv => SectionsAreSound
    BY DEF Inv
  <1> QED
    BY <1>1, Invariance, PTL

-----------------------------------------------------------------------------
(* Looking up.                                                             *)

(* The text of a section: blank where it is not on the line of its brace,  *)
(* and with its lines' items.                                              *)
LEMMA ConfOfSection ==
  ASSUME NEW sec \in Sections \ {Malformed}
  PROVE  /\ IsText(sec.lines)
         /\ IsText(Conf(sec))
         /\ ~sec.closes => Conf(sec)[Len(Conf(sec))] = Blank
         /\ ~sec.opens /\ Conf(sec) # <<>> => Conf(sec)[1] = Blank /\ Len(Conf(sec)) >= 2
         /\ \A item : Matching(Conf(sec), item) = Matching(sec.lines, item)
  <1> DEFINE S == ToSet(sec.lines) \cup {Blank}
             before == IF sec.opens THEN <<>> ELSE <<Blank>>
             after == IF sec.closes THEN <<>> ELSE <<Blank>>
             lines == sec.lines
  <1>1. IsText(lines) /\ (lines = <<>> => sec.opens = sec.closes)
    BY ConfigAssumption DEF IsText
  <1>2. lines \in Seq(S)
    <2>1. ToSet(sec.lines) \subseteq S
      OBVIOUS
    <2> QED
      BY <1>1, <2>1, SeqMonotonic DEF IsText
  <1>3. /\ before \in Seq(S) /\ after \in Seq(S)
        /\ Len(before) = (IF sec.opens THEN 0 ELSE 1)
        /\ Len(after) = (IF sec.closes THEN 0 ELSE 1)
        /\ ~sec.opens => before[1] = Blank
        /\ ~sec.closes => after[1] = Blank
    <2>1. Blank \in S /\ <<>> \in Seq(S)
      BY EmptySeq
    <2> HIDE DEF S
    <2>2. <<Blank>> \in Seq(S)
      BY <2>1
    <2> QED
      BY <2>1, <2>2
  <1>4. Conf(sec) = (before \o lines) \o after
    BY DEF Conf
  <1>5. \A item : Matching(<<>>, item) = <<>> /\ Matching(<<Blank>>, item) = <<>>
    <2> SUFFICES ASSUME NEW item
                 PROVE  Matching(<<>>, item) = <<>> /\ Matching(<<Blank>>, item) = <<>>
      OBVIOUS
    <2>1. Matching(<<Blank>>, item) = <<>>
      BY MatchingOfLine DEF IfMatching
    <2>2. Matching(<<>>, item) = <<>>
      <3>1. <<>> \in Seq(S) /\ Len(<<>>) = 0
        BY EmptySeq
      <3>2. PICK g \in [0..Len(<<>>) -> Seq(S)] :
               Steps(g, <<>>, item, Len(<<>>)) /\ Matching(<<>>, item) = g[Len(<<>>)]
        BY <3>1, MatchingUnfolds
      <3>3. g[0] = <<>>
        BY <3>2 DEF Steps
      <3> QED
        BY <3>1, <3>2, <3>3
    <2> QED
      BY <2>1, <2>2
  <1>6. \A item : Matching(before, item) = <<>> /\ Matching(after, item) = <<>>
    BY <1>5
  <1>7. Len(lines) \in Nat /\ (Len(lines) = 0 => lines = <<>>)
    BY <1>2, EmptySeq, LenProperties
  <1> HIDE DEF S, before, after, lines
  <1>8. /\ before \o lines \in Seq(S)
        /\ Len(before \o lines) = Len(before) + Len(lines)
        /\ \A i \in 1..Len(before) : (before \o lines)[i] = before[i]
    <2>1. /\ before \o lines \in Seq(S)
          /\ Len(before \o lines) = Len(before) + Len(lines)
          /\ \A i \in 1..(Len(before) + Len(lines)) :
               (before \o lines)[i] = IF i <= Len(before) THEN before[i] ELSE lines[i - Len(before)]
      BY <1>2, <1>3, ConcatProperties
    <2> QED
      BY <1>3, <1>7, <2>1
  <1>9. /\ Conf(sec) \in Seq(S)
        /\ Len(Conf(sec)) = Len(before) + Len(lines) + Len(after)
        /\ \A i \in 1..Len(before) : Conf(sec)[i] = before[i]
        /\ \A i \in 1..Len(after) : Conf(sec)[Len(before) + Len(lines) + i] = after[i]
    <2> DEFINE u == before \o lines
    <2>0. u \in Seq(S) /\ Len(u) = Len(before) + Len(lines)
      BY <1>8
    <2>1. /\ u \o after \in Seq(S)
          /\ Len(u \o after) = Len(u) + Len(after)
          /\ \A i \in 1..(Len(u) + Len(after)) :
               (u \o after)[i] = IF i <= Len(u) THEN u[i] ELSE after[i - Len(u)]
      <3> HIDE DEF u
      <3> QED
        BY <1>3, <2>0, ConcatProperties
    <2>2. \A i \in 1..Len(before) : u[i] = before[i]
      BY <1>8
    <2>3. Conf(sec) = u \o after
      BY <1>4
    <2> HIDE DEF u
    <2> QED
      <3>1. Len(before) \in Nat /\ Len(after) \in Nat /\ Len(u) \in Nat
        BY <1>3, <1>7, <2>0
      <3>2. \A i \in 1..Len(before) : Conf(sec)[i] = before[i]
        BY <1>7, <2>0, <2>1, <2>2, <2>3, <3>1
      <3>3. \A i \in 1..Len(after) : Conf(sec)[Len(u) + i] = after[i]
        <4> SUFFICES ASSUME NEW i \in 1..Len(after)
                     PROVE  Conf(sec)[Len(u) + i] = after[i]
          OBVIOUS
        <4>1. Len(u) + i \in 1..(Len(u) + Len(after)) /\ ~(Len(u) + i <= Len(u))
              /\ (Len(u) + i) - Len(u) = i
          BY <3>1
        <4> QED
          BY <2>1, <2>3, <4>1
      <3> QED
        BY <2>0, <2>1, <2>3, <3>2, <3>3
  <1>10. IsText(Conf(sec))
    BY <1>9, TextOfSeq
  <1>11. ~sec.closes => Conf(sec)[Len(Conf(sec))] = Blank
    BY <1>3, <1>7, <1>9
  <1>12. ~sec.opens /\ Conf(sec) # <<>> => Conf(sec)[1] = Blank /\ Len(Conf(sec)) >= 2
    <2> SUFFICES ASSUME ~sec.opens
                 PROVE  Conf(sec)[1] = Blank /\ Len(Conf(sec)) >= 2
      OBVIOUS
    <2>1. Conf(sec)[1] = Blank
      BY <1>3, <1>9
    <2>2. sec.closes => Len(lines) # 0
      BY <1>1, <1>7 DEF lines
    <2> QED
      BY <1>3, <1>7, <1>9, <2>1, <2>2
  <1>13. \A item : Matching(Conf(sec), item) = Matching(lines, item)
    <2> SUFFICES ASSUME NEW item
                 PROVE  Matching(Conf(sec), item) = Matching(lines, item)
      OBVIOUS
    <2>1. Matching(lines, item) \in Seq(S)
      BY <1>2, MatchingOfConcat
    <2> DEFINE u == before \o lines
    <2>2. before \in Seq(S) /\ after \in Seq(S) /\ u \in Seq(S)
      BY <1>3, <1>8
    <2>3. \A s, t \in Seq(S) : /\ Matching(s \o t, item) = Matching(s, item) \o Matching(t, item)
                               /\ Matching(s, item) \in Seq(S)
      BY MatchingOfConcat
    <2>4. Matching(u, item) = <<>> \o Matching(lines, item)
      <3>1. Matching(before \o lines, item) = Matching(before, item) \o Matching(lines, item)
        BY <1>2, <2>2, <2>3
      <3> QED
        BY <1>6, <3>1
    <2>5. Conf(sec) = u \o after
      BY <1>4
    <2> HIDE DEF u
    <2>6. Matching(Conf(sec), item) = Matching(u, item) \o <<>>
      BY <1>6, <2>2, <2>3, <2>5
    <2> QED
      BY <2>1, <2>4, <2>6, ConcatEmptySeq
  <1> QED
    BY <1>1, <1>10, <1>11, <1>12, <1>13 DEF lines

(* Where one of the lines that are glued is blank, no item is lost.        *)
LEMMA JoinOfConfs ==
  ASSUME NEW c, NEW p, IsText(c), IsText(p), c # <<>>, p # <<>>
  PROVE  /\ IsText(Join(c, p)) /\ Join(c, p) # <<>>
         /\ Len(c) >= 2 => Join(c, p)[1] = c[1]
         /\ c[Len(c)] = Blank \/ p[1] = Blank =>
              \A item : Matching(Join(c, p), item) = Matching(c, item) \o Matching(p, item)
  <1> DEFINE glued == Glue(Last(c), Head(p))
             front == Front(c)
             last  == Last(c)
             head  == Head(p)
             tail  == Tail(p)
  <1>1. PICK S : glued \in S /\ c \in Seq(S) /\ p \in Seq(S)
    <2> HIDE DEF glued
    <2> QED
      BY TextsOfOneSet
  <1>2. Len(c) \in Nat \ {0} /\ Len(p) \in Nat \ {0}
    BY <1>1, EmptySeq
  <1>3. /\ front \in Seq(S) /\ Len(front) = Len(c) - 1
        /\ \A i \in 1..(Len(c) - 1) : front[i] = c[i]
    <2>1. front = SubSeq(c, 1, Len(c) - 1)
      BY DEF Front
    <2>2. \A i \in 1..(Len(c) - 1) : c[i] \in S
      BY <1>1, <1>2, ElementOfSeq
    <2>3. /\ SubSeq(c, 1, Len(c) - 1) \in Seq(S)
          /\ Len(SubSeq(c, 1, Len(c) - 1)) = IF 1 <= Len(c) - 1 THEN (Len(c) - 1) - 1 + 1 ELSE 0
          /\ \A i \in 1..((Len(c) - 1) - 1 + 1) : SubSeq(c, 1, Len(c) - 1)[i] = c[1 + i - 1]
      BY <1>2, <2>2, SubSeqProperties
    <2> HIDE DEF front
    <2>4. \A i \in 1..(Len(c) - 1) : front[i] = c[i]
      <3> SUFFICES ASSUME NEW i \in 1..(Len(c) - 1)
                   PROVE  front[i] = c[i]
        OBVIOUS
      <3>1. i \in 1..((Len(c) - 1) - 1 + 1) /\ 1 + i - 1 = i
        BY <1>2
      <3> QED
        BY <2>1, <2>3, <3>1
    <2> QED
      <3>1. front \in Seq(S)
        BY SMTT(30), <2>1, <2>3
      <3>2. Len(front) = Len(c) - 1
        <4>1. Len(front) = IF 1 <= Len(c) - 1 THEN (Len(c) - 1) - 1 + 1 ELSE 0
          BY <2>1, <2>3
        <4>2. Len(c) \in Nat /\ Len(c) # 0
          BY <1>2
        <4>3. (Len(c) - 1) - 1 + 1 = Len(c) - 1 /\ (~(1 <= Len(c) - 1) => Len(c) - 1 = 0)
          BY <4>2
        <4> QED
          BY <4>1, <4>3
      <3> QED
        BY <2>4, <3>1, <3>2
  <1>4. last = c[Len(c)] /\ head = p[1] /\ last \in S /\ head \in S
    <2>1. last = c[Len(c)] /\ head = p[1]
      BY DEF Last
    <2>2. Len(c) \in 1..Len(c) /\ 1 \in 1..Len(p)
      BY <1>2
    <2> HIDE DEF last, head
    <2> QED
      BY <1>1, <2>1, <2>2, ElementOfSeq
  <1>5. tail \in Seq(S) /\ Len(tail) = Len(p) - 1 /\ \A i \in 1..Len(tail) : tail[i] = p[i + 1]
    BY <1>1, HeadTailProperties
  <1>6. Join(c, p) = (front \o <<glued>>) \o tail
    BY DEF Join
  <1> HIDE DEF front, last, head, tail
  <1>7. glued = Glue(last, head)
    BY DEF last, head
  <1> HIDE DEF glued
  <1>8. <<glued>> \in Seq(S) /\ <<last>> \in Seq(S) /\ <<head>> \in Seq(S)
    BY <1>1, <1>4
  <1>9. c = front \o <<last>>
    <2>1. /\ front \o <<last>> \in Seq(S)
          /\ Len(front \o <<last>>) = Len(front) + Len(<<last>>)
          /\ \A i \in 1..(Len(front) + Len(<<last>>)) :
               (front \o <<last>>)[i] = IF i <= Len(front) THEN front[i] ELSE <<last>>[i - Len(front)]
      BY <1>3, <1>8, ConcatProperties
    <2>2. Len(front \o <<last>>) = Len(c)
      BY <1>2, <1>3, <2>1
    <2>3. ASSUME NEW i \in 1..Len(c)
          PROVE  c[i] = (front \o <<last>>)[i]
      <3>1. CASE i <= Len(front)
        BY <1>2, <1>3, <2>1, <3>1
      <3>2. CASE ~(i <= Len(front))
        <4>1. i = Len(c) /\ i - Len(front) = 1
          BY <1>2, <1>3, <3>2
        <4>2. (front \o <<last>>)[i] = <<last>>[1]
          BY <1>2, <1>3, <2>1, <3>2, <4>1
        <4> QED
          BY <1>4, <4>1, <4>2
      <3> QED
        BY <3>1, <3>2
    <2> QED
      BY <1>1, <2>1, <2>2, <2>3, SeqEqual
  <1>10. p = <<head>> \o tail
    <2>1. /\ <<head>> \o tail \in Seq(S)
          /\ Len(<<head>> \o tail) = Len(<<head>>) + Len(tail)
          /\ \A i \in 1..(Len(<<head>>) + Len(tail)) :
               (<<head>> \o tail)[i] = IF i <= Len(<<head>>) THEN <<head>>[i] ELSE tail[i - Len(<<head>>)]
      BY <1>5, <1>8, ConcatProperties
    <2>2. Len(<<head>> \o tail) = Len(p)
      BY <1>2, <1>5, <2>1
    <2>3. ASSUME NEW i \in 1..Len(p)
          PROVE  p[i] = (<<head>> \o tail)[i]
      <3>1. CASE i = 1
        BY <1>2, <1>4, <1>5, <2>1, <3>1
      <3>2. CASE i # 1
        <4>1. i - 1 \in 1..Len(tail) /\ (i - 1) + 1 = i
          BY <1>2, <1>5, <3>2
        <4>2. (<<head>> \o tail)[i] = tail[i - 1]
          BY <1>2, <1>5, <2>1, <3>2
        <4> QED
          BY <1>5, <4>1, <4>2
      <3> QED
        BY <3>1, <3>2
    <2> QED
      BY <1>1, <2>1, <2>2, <2>3, SeqEqual
  <1> DEFINE before == front \o <<glued>>
  <1>11. /\ before \in Seq(S) /\ Len(before) = Len(c)
         /\ \A i \in 1..(Len(c) - 1) : before[i] = c[i]
    <2>1. /\ front \o <<glued>> \in Seq(S)
          /\ Len(front \o <<glued>>) = Len(front) + Len(<<glued>>)
          /\ \A i \in 1..(Len(front) + Len(<<glued>>)) :
               (front \o <<glued>>)[i] = IF i <= Len(front) THEN front[i] ELSE <<glued>>[i - Len(front)]
      BY <1>3, <1>8, ConcatProperties
    <2>2. Len(front) + Len(<<glued>>) = Len(c)
      BY <1>2, <1>3
    <2> HIDE DEF before
    <2>3. before = front \o <<glued>>
      BY DEF before
    <2> QED
      BY <1>2, <1>3, <2>1, <2>2, <2>3
  <1> HIDE DEF before
  <1>12. /\ Join(c, p) \in Seq(S) /\ Len(Join(c, p)) = Len(before) + Len(tail)
         /\ \A i \in 1..Len(before) : Join(c, p)[i] = before[i]
    <2>1. Join(c, p) = before \o tail
      BY <1>6 DEF before
    <2>2. /\ before \o tail \in Seq(S) /\ Len(before \o tail) = Len(before) + Len(tail)
          /\ \A i \in 1..(Len(before) + Len(tail)) :
               (before \o tail)[i] = IF i <= Len(before) THEN before[i] ELSE tail[i - Len(before)]
      <3>1. before \in Seq(S) /\ tail \in Seq(S)
        BY <1>5, <1>11
      <3> QED
        BY <3>1, ConcatProperties
    <2> QED
      BY <1>2, <1>5, <1>11, <2>1, <2>2
  <1>13. IsText(Join(c, p)) /\ Join(c, p) # <<>>
    <2>1. Len(Join(c, p)) # 0
      BY <1>2, <1>5, <1>11, <1>12
    <2> QED
      BY <1>12, <2>1, TextOfSeq, EmptySeq
  <1>14. Len(c) >= 2 => Join(c, p)[1] = c[1]
    BY <1>2, <1>11, <1>12
  <1>15. ASSUME c[Len(c)] = Blank \/ p[1] = Blank, NEW item
         PROVE  Matching(Join(c, p), item) = Matching(c, item) \o Matching(p, item)
    <2> DEFINE M(s) == Matching(s, item)
               A == M(front)
               B == M(<<last>>)
               C == M(<<head>>)
               D == M(tail)
    <2>1. \A s, t \in Seq(S) : M(s \o t) = M(s) \o M(t) /\ M(s) \in Seq(S)
      BY MatchingOfConcat
    <2>2. M(<<glued>>) = B \o C
      <3>1. M(<<glued>>) = IfMatching(glued, item) /\ B = IfMatching(last, item)
            /\ C = IfMatching(head, item)
        BY MatchingOfLine
      <3>2. IfMatching(Blank, item) = <<>>
        BY DEF IfMatching
      <3>3. IfMatching(last, item) \in Seq(S) /\ IfMatching(head, item) \in Seq(S)
        BY <1>4, IfMatchingIsText
      <3>4. CASE last = Blank
        <4>1. glued = head
          BY <1>7, <3>4 DEF Glue
        <4> QED
          BY <3>1, <3>2, <3>3, <3>4, <4>1, ConcatEmptySeq
      <3>5. CASE last # Blank /\ head = Blank
        <4>1. glued = last
          BY <1>7, <3>5 DEF Glue
        <4> QED
          BY <3>1, <3>2, <3>3, <3>5, <4>1, ConcatEmptySeq
      <3> QED
        BY <1>4, <1>15, <3>4, <3>5
    <2>3. A \in Seq(S) /\ B \in Seq(S) /\ C \in Seq(S) /\ D \in Seq(S)
      <3> HIDE DEF M
      <3> QED
        BY <1>3, <1>5, <1>8, <2>1
    <2>4. M(Join(c, p)) = (A \o (B \o C)) \o D
      <3>1. M(before) = A \o (B \o C)
        <4> HIDE DEF M
        <4> QED
          BY <1>3, <1>8, <2>1, <2>2 DEF before
      <3>2. Join(c, p) = before \o tail
        BY <1>6 DEF before
      <3> HIDE DEF M
      <3> QED
        BY <1>5, <1>11, <2>1, <3>1, <3>2
    <2>5. M(c) = A \o B /\ M(p) = C \o D
      <3>1. M(front \o <<last>>) = A \o B /\ M(<<head>> \o tail) = C \o D
        <4> HIDE DEF M
        <4> QED
          BY <1>3, <1>5, <1>8, <2>1
      <3> HIDE DEF M
      <3> QED
        BY <1>9, <1>10, <3>1
    <2>6. (A \o (B \o C)) \o D = (A \o B) \o (C \o D)
      <3> HIDE DEF A, B, C, D
      <3>1. \A x, y, z \in Seq(S) : (x \o y) \o z = x \o (y \o z)
        BY SMTT(60), Regrouped
      <3>2. A \o B \in Seq(S)
        BY <2>3, ConcatProperties
      <3>3. A \o (B \o C) = (A \o B) \o C
        BY Zenon, <2>3, <3>1
      <3>4. ((A \o B) \o C) \o D = (A \o B) \o (C \o D)
        BY <2>3, <3>1, <3>2
      <3> QED
        BY <3>3, <3>4
    <2> QED
      BY <2>4, <2>5, <2>6
  <1> QED
    BY <1>13, <1>14, <1>15

-----------------------------------------------------------------------------
(* Ancestors.                                                              *)

ParentOf(k) == IF Parent(k) = {} THEN 0 ELSE CHOOSE j \in Parent(k) : TRUE

(* A section's parent stands further up in the file.                       *)
LEMMA ParentIsAbove ==
  ASSUME NEW k \in Nat
  PROVE  /\ ParentOf(k) \in Nat
         /\ k # 0 => ParentOf(k) < k
         /\ Parent(k) = {} <=> ParentOf(k) = 0
         /\ ParentOf(k) # 0 => ParentOf(k) \in Parent(k) /\ ParentOf(k) \in 1..(k - 1)
  <1>1. CASE Parent(k) = {}
    BY <1>1 DEF ParentOf
  <1>2. CASE Parent(k) # {}
    <2>1. ParentOf(k) \in Parent(k)
      BY <1>2 DEF ParentOf
    <2>2. ParentOf(k) \in 1..(k - 1)
      BY <2>1 DEF Parent
    <2> QED
      BY <1>2, <2>1, <2>2
  <1> QED
    BY <1>1, <1>2

(* A lineage is the section and its parent's lineage, and so is what was   *)
(* written in it.                                                          *)
LEMMA LineageUnfolds ==
  ASSUME TypeOK, NEW k \in 1..Len(file)
  PROVE  /\ Lineage[k] = IF ParentOf(k) = 0 THEN <<k>> ELSE <<k>> \o Lineage[ParentOf(k)]
         /\ Written[k] = IF ParentOf(k) = 0 THEN file[k].lines
                         ELSE file[k].lines \o Written[ParentOf(k)]
  <1> DEFINE N == Len(file)
             up == [n \in 1..N |-> ParentOf(n)]
             numbers == [n \in 1..N |-> <<n>>]
             S == UNION {ToSet(file[n].lines) : n \in 1..N}
             lines == [n \in 1..N |-> file[n].lines]
  <1>1. N \in Nat /\ \A n \in 1..N : file[n] \in Sections \ {Malformed}
    BY LenProperties, ElementOfSeq DEF TypeOK
  <1>2. up \in [1..N -> Nat] /\ \A n \in 1..N : up[n] < n
    BY SMTT(40), <1>1, ParentIsAbove
  <1>3. numbers \in [1..N -> Seq(Nat)]
    BY <1>1
  <1>4. lines \in [1..N -> Seq(S)]
    <2>1. ASSUME NEW n \in 1..N
          PROVE  file[n].lines \in Seq(S)
      <3>1. file[n].lines \in Seq(ToSet(file[n].lines))
        BY <1>1, ConfigAssumption
      <3>2. ToSet(file[n].lines) \subseteq S
        OBVIOUS
      <3> HIDE DEF S
      <3> QED
        BY <3>1, <3>2, SeqMonotonic
    <2> QED
      BY <2>1
  <1>5. \A n : Parent(n) = {} \/ ParentOf(n) = CHOOSE j \in Parent(n) : TRUE
    BY DEF ParentOf
  <1> DEFINE IsLineage(f) ==
        f = [n \in 1..N |-> IF Parent(n) = {} THEN <<n>>
                            ELSE <<n>> \o f[CHOOSE j \in Parent(n) : TRUE]]
             IsWritten(f) ==
        f = [n \in 1..N |-> IF Parent(n) = {} THEN file[n].lines
                            ELSE file[n].lines \o f[CHOOSE j \in Parent(n) : TRUE]]
  <1>6. \A n \in 1..N : up[n] = ParentOf(n) /\ numbers[n] = <<n>> /\ lines[n] = file[n].lines
    OBVIOUS
  <1>7. \A n \in 1..N : Parent(n) = {} <=> ParentOf(n) = 0
    <2>1. \A n \in 1..N : n \in Nat
      BY <1>1
    <2> QED
      BY <2>1, ParentIsAbove
  <1> HIDE DEF up, numbers, lines, S
  <1>8. \E f : IsLineage(f)
    <2>1. PICK f \in [1..N -> Seq(Nat)] :
             SumOf(f, numbers, up, N)
      <3>1. N \in Nat
        BY <1>1
      <3>2. up \in [1..N -> Nat] /\ Above(up, N)
        BY <1>2 DEF Above
      <3>3. numbers \in [1..N -> Seq(Nat)]
        BY <1>3
      <3> HIDE DEF N
      <3> QED
        BY <3>1, <3>2, <3>3, SumOfAncestors
    <2>2. \A n \in 1..N : (IF up[n] = 0 THEN numbers[n] ELSE numbers[n] \o f[up[n]])
                            = (IF Parent(n) = {} THEN <<n>>
                               ELSE <<n>> \o f[CHOOSE j \in Parent(n) : TRUE])
      BY <1>5, <1>6, <1>7
    <2> DEFINE E(n) == IF Parent(n) = {} THEN <<n>>
                       ELSE <<n>> \o f[CHOOSE j \in Parent(n) : TRUE]
    <2>3. f = [n \in 1..N |-> E(n)]
      <3>1. \A n \in 1..N : f[n] = E(n)
        BY <2>1, <2>2 DEF SumOf
      <3> HIDE DEF E
      <3> QED
        BY <2>1, <3>1
    <2> QED
      BY <2>3
  <1>9. \E f : IsWritten(f)
    <2>1. PICK f \in [1..N -> Seq(S)] :
             SumOf(f, lines, up, N)
      <3>1. N \in Nat
        BY <1>1
      <3>2. up \in [1..N -> Nat] /\ Above(up, N)
        BY <1>2 DEF Above
      <3>3. lines \in [1..N -> Seq(S)]
        BY <1>4
      <3> HIDE DEF N
      <3> QED
        BY <3>1, <3>2, <3>3, SumOfAncestors
    <2>2. \A n \in 1..N : (IF up[n] = 0 THEN lines[n] ELSE lines[n] \o f[up[n]])
                            = (IF Parent(n) = {} THEN file[n].lines
                               ELSE file[n].lines \o f[CHOOSE j \in Parent(n) : TRUE])
      BY <1>5, <1>6, <1>7
    <2> DEFINE E(n) == IF Parent(n) = {} THEN file[n].lines
                       ELSE file[n].lines \o f[CHOOSE j \in Parent(n) : TRUE]
    <2>3. f = [n \in 1..N |-> E(n)]
      <3>1. \A n \in 1..N : f[n] = E(n)
        BY <2>1, <2>2 DEF SumOf
      <3> HIDE DEF E
      <3> QED
        BY <2>1, <3>1
    <2> QED
      BY <2>3
  <1>10. Lineage = (CHOOSE f : IsLineage(f)) /\ Written = (CHOOSE f : IsWritten(f))
    BY DEF Lineage, Written
  <1>11. IsLineage(Lineage) /\ IsWritten(Written)
    <2> HIDE DEF IsLineage, IsWritten
    <2> QED
      BY <1>8, <1>9, <1>10
  <1>12. Lineage[k] = IF Parent(k) = {} THEN <<k>>
                      ELSE <<k>> \o Lineage[CHOOSE j \in Parent(k) : TRUE]
    BY <1>11
  <1>13. Written[k] = IF Parent(k) = {} THEN file[k].lines
                      ELSE file[k].lines \o Written[CHOOSE j \in Parent(k) : TRUE]
    BY <1>11
  <1>14. Parent(k) = {} <=> ParentOf(k) = 0
    BY <1>7
  <1>15. Parent(k) # {} => ParentOf(k) = CHOOSE j \in Parent(k) : TRUE
    BY <1>5
  <1> QED
    BY <1>12, <1>13, <1>14, <1>15

(* A section is looked up with its own text or with that of its parent     *)
(* behind it.                                                              *)
LEMMA LookedUp ==
  ASSUME Inv, NEW k \in 1..Len(file)
  PROVE  GetSectionConf(file[k].tag, file[k].name)
           = IF ParentOf(k) = 0 THEN Conf(file[k])
             ELSE Join(Conf(file[k]),
                       GetSectionConf(file[ParentOf(k)].tag, file[ParentOf(k)].name))
  <1>1. Len(file) \in Nat /\ \A n \in 1..Len(file) : file[n].tag \in Tags
    <2>1. Len(file) \in Nat /\ \A n \in 1..Len(file) : file[n] \in Sections \ {Malformed}
      BY LenProperties, ElementOfSeq DEF Inv, TypeOK
    <2> QED
      BY <2>1, ConfigAssumption
  <1>2. ASSUME NEW n \in 1..Len(file)
        PROVE  \E i \in Named(file[n].tag, file[n].name) :
                 GetSectionConf(file[n].tag, file[n].name) = m_sec_info[file[n].tag][i].conf
    <2> DEFINE N == Named(file[n].tag, file[n].name)
    <2>1. PICK i \in N : TRUE
      BY DEF Inv, SectionsAreKept
    <2>2. i \in Nat /\ \A j \in N : j = i
      <3>1. file[n].tag \in Tags
        BY <1>1
      <3> QED
        BY <3>1 DEF Inv, NamesDiffer, Named
    <2> HIDE DEF N
    <2>3. (CHOOSE m \in N : \A j \in N : m <= j) = i
      <3>1. \E m \in N : \A j \in N : m <= j
        BY <2>1, <2>2
      <3>2. (CHOOSE m \in N : \A j \in N : m <= j) \in N
        BY <3>1
      <3> QED
        BY <2>2, <3>2
    <2>4. GetSectionConf(file[n].tag, file[n].name) = m_sec_info[file[n].tag][i].conf
      BY <2>3 DEF GetSectionConf, N
    <2> QED
      BY <2>1, <2>4 DEF N
  <1>3. PICK i \in Named(file[k].tag, file[k].name) :
           GetSectionConf(file[k].tag, file[k].name) = m_sec_info[file[k].tag][i].conf
    BY <1>2
  <1>4. CASE ParentOf(k) = 0
    <2>1. Parent(k) = {}
      BY <1>1, <1>4, ParentIsAbove
    <2> QED
      BY <1>3, <1>4, <2>1 DEF Inv, ConfsAreJoined
  <1>5. CASE ParentOf(k) # 0
    <2> DEFINE j == ParentOf(k)
    <2>1. j \in Parent(k) /\ Parent(k) # {} /\ j \in 1..Len(file)
      <3>1. j \in Parent(k) /\ j \in 1..(k - 1)
        BY <1>1, <1>5, ParentIsAbove
      <3> HIDE DEF j
      <3> QED
        BY <1>1, <3>1
    <2>2. file[j].tag = file[k].tag /\ file[j].name = file[k].parent
      BY <2>1 DEF Parent
    <2>3. PICK n \in Named(file[j].tag, file[j].name) :
             GetSectionConf(file[j].tag, file[j].name) = m_sec_info[file[j].tag][n].conf
      BY <1>2, <2>1
    <2>4. m_sec_info[file[k].tag][i].conf
            = Join(Conf(file[k]), m_sec_info[file[k].tag][n].conf)
      BY <2>1, <2>2, <2>3 DEF Inv, ConfsAreJoined
    <2> QED
      BY <1>3, <1>5, <2>2, <2>3, <2>4
  <1> QED
    BY <1>4, <1>5

(* By induction on a section's place in the file.                          *)
LEMMA ItemsAreWritten ==
  ASSUME Inv, NEW k \in 1..Len(file), Separate(Lineage[k]), NEW item
  PROVE  Matching(GetSectionConf(file[k].tag, file[k].name), item) = Matching(Written[k], item)
  <1> DEFINE C(n) == GetSectionConf(file[n].tag, file[n].name)
             Good(n) ==
               /\ IsText(C(n)) /\ C(n) # <<>>
               /\ ~file[n].opens => C(n)[1] = Blank
               /\ IsText(Written[n])
               /\ Lineage[n] \in Seq(Nat) /\ Lineage[n] # <<>> /\ Lineage[n][1] = n
               /\ Separate(Lineage[n]) =>
                    \A x : Matching(C(n), x) = Matching(Written[n], x)
             P == {n \in Nat : \A m \in 1..Len(file) : m <= n => Good(m)}
  <1>1. /\ TypeOK /\ Len(file) \in Nat
        /\ \A n \in 1..Len(file) : file[n] \in Sections \ {Malformed} /\ Conf(file[n]) # <<>>
    BY LenProperties, ElementOfSeq DEF Inv, TypeOK
  <1>2. ASSUME NEW n \in 1..Len(file), ParentOf(n) # 0 => Good(ParentOf(n))
        PROVE  Good(n)
    <2> DEFINE sec == file[n]
               own == Conf(sec)
    <2>1. /\ IsText(sec.lines)
          /\ IsText(own) /\ own # <<>>
          /\ ~sec.closes => own[Len(own)] = Blank
          /\ ~sec.opens => own[1] = Blank /\ Len(own) >= 2
          /\ \A x : Matching(own, x) = Matching(sec.lines, x)
      BY <1>1, ConfOfSection
    <2>2. <<n>> \in Seq(Nat) /\ Len(<<n>>) = 1 /\ <<n>>[1] = n /\ n \in Nat
      BY <1>1
    <2>3. CASE ParentOf(n) = 0
      <3>1. C(n) = own /\ Written[n] = sec.lines /\ Lineage[n] = <<n>>
        BY <1>1, <2>3, LookedUp, LineageUnfolds
      <3> HIDE DEF C, own, sec
      <3>2. ~file[n].opens => C(n)[1] = Blank
        BY <2>1, <3>1 DEF sec
      <3> QED
        BY <2>1, <2>2, <3>1, <3>2
    <2>4. CASE ParentOf(n) # 0
      <3> DEFINE j == ParentOf(n)
      <3>1. Good(j)
        BY <1>2, <2>4
      <3>2. /\ C(n) = Join(own, C(j)) /\ Written[n] = sec.lines \o Written[j]
            /\ Lineage[n] = <<n>> \o Lineage[j]
        BY <1>1, <2>4, LookedUp, LineageUnfolds
      <3> HIDE DEF j, C, own
      <3>3. /\ IsText(C(n)) /\ C(n) # <<>>
            /\ Len(own) >= 2 => C(n)[1] = own[1]
            /\ own[Len(own)] = Blank \/ C(j)[1] = Blank =>
                 \A x : Matching(C(n), x) = Matching(own, x) \o Matching(C(j), x)
        BY SMTT(30), <2>1, <3>1, <3>2, JoinOfConfs
      <3>4. PICK S : sec.lines \in Seq(S) /\ Written[j] \in Seq(S)
        BY <2>1, <3>1, TextsOfOneSet
      <3>5. /\ IsText(Written[n])
            /\ \A x : Matching(Written[n], x) = Matching(sec.lines, x) \o Matching(Written[j], x)
        <4>1. sec.lines \o Written[j] \in Seq(S)
          BY <3>4, ConcatProperties
        <4>2. IsText(sec.lines \o Written[j])
          BY <4>1, TextOfSeq
        <4>3. \A x : Matching(sec.lines \o Written[j], x)
                       = Matching(sec.lines, x) \o Matching(Written[j], x)
          <5>1. \A x : \A s, t \in Seq(S) :
                  /\ Matching(s \o t, x) = Matching(s, x) \o Matching(t, x)
                  /\ Matching(s, x) \in Seq(S)
            BY MatchingOfConcat
          <5> QED
            BY <3>4, <5>1
        <4> QED
          BY <3>2, <4>2, <4>3
      <3>6. /\ Lineage[n] \in Seq(Nat) /\ Len(Lineage[n]) = Len(Lineage[j]) + 1
            /\ Lineage[n][1] = n
            /\ \A m \in 1..Len(Lineage[j]) : Lineage[n][m + 1] = Lineage[j][m]
            /\ Len(Lineage[j]) \in Nat \ {0}
        <4> DEFINE L == Lineage[j]
        <4>1. L \in Seq(Nat) /\ Len(L) \in Nat \ {0}
          BY <3>1, EmptySeq
        <4> HIDE DEF L
        <4>2. /\ <<n>> \o L \in Seq(Nat) /\ Len(<<n>> \o L) = 1 + Len(L)
              /\ \A m \in 1..(1 + Len(L)) :
                   (<<n>> \o L)[m] = IF m <= 1 THEN <<n>>[m] ELSE L[m - 1]
          BY <2>2, <4>1, ConcatProperties
        <4>3. (<<n>> \o L)[1] = n
          BY <2>2, <4>1, <4>2
        <4>4. ASSUME NEW m \in 1..Len(L)
              PROVE  (<<n>> \o L)[m + 1] = L[m]
          <5>1. m + 1 \in 1..(1 + Len(L)) /\ ~(m + 1 <= 1) /\ (m + 1) - 1 = m
            BY <4>1
          <5> QED
            BY <4>2, <5>1
        <4>5. Lineage[n] = <<n>> \o L
          BY <3>2 DEF L
        <4>6. Len(<<n>> \o L) = Len(L) + 1
          BY <4>1, <4>2
        <4> QED
          BY <4>1, <4>2, <4>3, <4>4, <4>5, <4>6 DEF L
      <3>7. Separate(Lineage[n]) =>
              Separate(Lineage[j]) /\ ~(file[n].closes /\ file[j].opens)
        <4> SUFFICES ASSUME Separate(Lineage[n])
                     PROVE  Separate(Lineage[j]) /\ ~(file[n].closes /\ file[j].opens)
          OBVIOUS
        <4>1. \A m \in 1..Len(Lineage[j]) :
                ~(file[Lineage[n][m]].closes /\ file[Lineage[n][m + 1]].opens)
          BY SMTT(30), <3>6 DEF Separate
        <4>2. Separate(Lineage[j])
          <5> SUFFICES ASSUME NEW m \in 1..(Len(Lineage[j]) - 1)
                       PROVE  ~(file[Lineage[j][m]].closes /\ file[Lineage[j][m + 1]].opens)
            BY DEF Separate
          <5>1. m \in 1..Len(Lineage[j]) /\ m + 1 \in 1..Len(Lineage[j])
            BY <3>6
          <5> QED
            BY <3>6, <4>1, <5>1
        <4>3. ~(file[n].closes /\ file[j].opens)
          <5>1. 1 \in 1..Len(Lineage[j])
            BY <3>6
          <5>2. Lineage[n][1] = n /\ Lineage[n][1 + 1] = j
            BY <3>1, <3>6, <5>1
          <5> QED
            BY <4>1, <5>1, <5>2
        <4> QED
          BY <4>2, <4>3
      <3>8. Separate(Lineage[n]) => \A x : Matching(C(n), x) = Matching(Written[n], x)
        <4> SUFFICES ASSUME Separate(Lineage[n]), NEW x
                     PROVE  Matching(C(n), x) = Matching(Written[n], x)
          OBVIOUS
        <4>1. own[Len(own)] = Blank \/ C(j)[1] = Blank
          BY <2>1, <3>1, <3>7
        <4>2. Matching(C(j), x) = Matching(Written[j], x)
          BY <3>1, <3>7
        <4> QED
          BY <2>1, <3>3, <3>5, <4>1, <4>2
      <3>9. ~file[n].opens => C(n)[1] = Blank
        BY <2>1, <3>3
      <3>10. Lineage[n] # <<>>
        BY <3>6, EmptySeq
      <3> QED
        BY <3>3, <3>5, <3>6, <3>8, <3>9, <3>10
    <2> QED
      BY <2>3, <2>4
  <1> HIDE DEF Good
  <1>3. 0 \in P
    BY <1>1
  <1>4. ASSUME NEW n \in P
        PROVE  n + 1 \in P
    <2>1. n \in Nat /\ n + 1 \in Nat
      OBVIOUS
    <2>2. \A m \in 1..Len(file) : m <= n => Good(m)
      OBVIOUS
    <2> SUFFICES ASSUME NEW m \in 1..Len(file), m <= n + 1
                 PROVE  Good(m)
      BY <2>1
    <2>3. m \in Nat /\ (ParentOf(m) # 0 => ParentOf(m) \in 1..Len(file) /\ ParentOf(m) <= n)
      <3>1. m \in Nat
        BY <1>1
      <3>2. ParentOf(m) # 0 => ParentOf(m) \in 1..(m - 1)
        BY <3>1, ParentIsAbove
      <3> QED
        BY <1>1, <2>1, <3>1, <3>2
    <2> QED
      BY <1>2, <2>2, <2>3
  <1>5. P = Nat
    <2>1. P \in SUBSET Nat
      OBVIOUS
    <2> HIDE DEF P
    <2> QED
      BY <1>3, <1>4, <2>1, SetInduction
  <1>6. Good(k)
    <2>1. Len(file) \in P
      BY <1>1, <1>5
    <2> QED
      BY <1>1, <2>1
  <1> QED
    BY <1>6 DEF Good

(* An item with several values has those of the section and of all its     *)
(* ancestors, nearest first; an item with one value has the first of them  *)
(* (looka_config_parser.cpp:121-161, 217-231), for every file in which no  *)
(* two texts of a lineage share a line.                                    *)
THEOREM ValuesOfLineage == Spec => []ValuesAccumulate
  <1>1. Inv => ValuesAccumulate
    <2> SUFFICES ASSUME Inv, NEW k \in 1..Len(file), NEW item \in Items, Separate(Lineage[k])
                 PROVE  LET lines  == Matching(Written[k], item)
                            values == [n \in 1..Len(lines) |-> lines[n].value]
                        IN  /\ ReadStringV(file[k].tag, file[k].name, item) = values
                            /\ ReadString(file[k].tag, file[k].name, item) =
                                 (IF values = <<>> THEN NoValue ELSE values[1])
      BY DEF ValuesAccumulate
    <2>1. Matching(GetSectionConf(file[k].tag, file[k].name), item) = Matching(Written[k], item)
      BY ItemsAreWritten
    <2> DEFINE lines == Matching(Written[k], item)
               values == [n \in 1..Len(lines) |-> lines[n].value]
    <2>2. ReadStringV(file[k].tag, file[k].name, item) = values
      BY <2>1 DEF ReadStringV
    <2> HIDE DEF values
    <2>3. ReadString(file[k].tag, file[k].name, item) = (IF values = <<>> THEN NoValue ELSE values[1])
      BY <2>2 DEF ReadString
    <2> QED
      BY <2>2, <2>3 DEF values
  <1> QED
    BY <1>1, Invariance, PTL

-----------------------------------------------------------------------------
(* The words of a text.                                                    *)
WordEnds(s, i)  == ~IsSpace(s[i]) /\ (i = Len(s) \/ IsSpace(s[i + 1]))
Spaces(s, i)    == {0} \cup {j \in 1..i : IsSpace(s[j])}
WordAt(s, i)    == IF WordEnds(s, i) THEN <<SubSeq(s, Max(Spaces(s, i)) + 1, i)>> ELSE <<>>
WordsFrom(s)    == [i \in 1..Len(s) |-> WordAt(s, i)]

(* The words of a text, by the place at which each ends.                   *)
LEMMA WordsAreThose ==
  ASSUME NEW S, NEW s \in Seq(S)
  PROVE  /\ Words(s) = FlattenSeq(WordsFrom(s))
         /\ WordsFrom(s) \in Seq(Seq(Seq(S))) /\ Len(WordsFrom(s)) = Len(s)
         /\ \A i \in 1..Len(s) : WordsFrom(s)[i] = WordAt(s, i)
  <1>1. Words(s) = FlattenSeq(WordsFrom(s))
    BY DEF Words, WordsFrom, WordAt, WordEnds, Spaces
  <1>2. Len(s) \in Nat
    BY LenProperties
  <1>3. ASSUME NEW i \in 1..Len(s)
        PROVE  WordAt(s, i) \in Seq(Seq(S))
    <2> DEFINE m == Max(Spaces(s, i))
    <2>1. m \in 0..i
      <3>1. i \in Nat /\ Spaces(s, i) \in SUBSET (0..i) /\ Spaces(s, i) # {}
        BY <1>2 DEF Spaces
      <3> QED
        BY <3>1, MaxIsGreatest
    <2> HIDE DEF m
    <2> DEFINE k == m + 1
    <2>2. k \in 1..(Len(s) + 1) /\ i \in Nat /\ k - 1 <= i /\ i <= Len(s)
      BY <1>2, <2>1
    <2> HIDE DEF k
    <2>3. SubSeq(s, k, i) \in Seq(S)
      BY <2>2, PartIsText
    <2>4. WordAt(s, i) = IF WordEnds(s, i) THEN <<SubSeq(s, k, i)>> ELSE <<>>
      BY DEF WordAt, k, m
    <2> QED
      BY <2>3, <2>4
  <1> DEFINE w == WordsFrom(s)
  <1>4. w \in Seq(Seq(Seq(S)))
    <2>1. w = [i \in 1..Len(s) |-> WordAt(s, i)]
      BY DEF WordsFrom
    <2> HIDE DEF w
    <2> QED
      BY <1>2, <1>3, <2>1
  <1>5. DOMAIN w = 1..Len(s) /\ \A i \in 1..Len(s) : w[i] = WordAt(s, i)
    BY DEF WordsFrom
  <1> HIDE DEF w
  <1>6. Len(w) \in Nat /\ 1..Len(w) = 1..Len(s)
    BY <1>4, <1>5, LenProperties
  <1>7. Len(w) = Len(s)
    BY <1>2, <1>6
  <1> QED
    BY <1>1, <1>4, <1>5, <1>7 DEF w

(* A blank before a text adds no word.                                     *)
LEMMA BlankBefore ==
  ASSUME NEW S, NEW t \in Seq(S), NEW x \in S, IsSpace(x)
  PROVE  Words(One(x) \o t) = Words(t)
  <1> DEFINE u == One(x) \o t
             n == Len(t)
  <1>1. n \in Nat /\ u \in Seq(S) /\ Len(u) = n + 1 /\ u[1] = x
        /\ \A i \in 1..n : u[i + 1] = t[i]
    <2> DEFINE o == One(x)
    <2>1. o \in Seq(S) /\ Len(o) = 1 /\ o[1] = x
      BY OneIsText
    <2> HIDE DEF o
    <2>2. n \in Nat /\ o \o t \in Seq(S) /\ Len(o \o t) = 1 + n
          /\ \A i \in 1..(1 + n) : (o \o t)[i] = IF i <= 1 THEN o[i] ELSE t[i - 1]
      <3>1. Joined(o, t, S) /\ n \in Nat
        BY <2>1, JoinedTexts, LenProperties
      <3> HIDE DEF n
      <3>2. Len(t) = n
        BY DEF n
      <3> QED
        BY <2>1, <3>1, <3>2 DEF Joined
    <2> HIDE DEF n
    <2>3. 1 \in 1..(1 + n) /\ 1 <= 1 /\ 1 + n = n + 1
          /\ \A i \in 1..n : i + 1 \in 1..(1 + n) /\ ~(i + 1 <= 1) /\ i + 1 - 1 = i
      BY <2>2
    <2> QED
      BY <2>1, <2>2, <2>3 DEF o, n
  <1>2. ASSUME NEW i \in 1..n, NEW k \in 1..(n + 1), k - 1 <= i
        PROVE  SubSeq(u, k + 1, i + 1) = SubSeq(t, k, i)
    <2> DEFINE o == One(x)
    <2>1. o \in Seq(S) /\ Len(o) = 1
      BY OneIsText
    <2>2. i \in Nat /\ i <= Len(t) /\ 1 + k = k + 1 /\ 1 + i = i + 1
      BY <1>1
    <2> HIDE DEF o
    <2>3. SubSeq(o \o t, Len(o) + k, Len(o) + i) = SubSeq(t, k, i)
      <3> HIDE DEF u
      <3> QED
        BY <1>1, <1>2, <2>1, <2>2, PartOfSecond
    <2> QED
      BY <2>1, <2>2, <2>3 DEF o
  <1> HIDE DEF u, n
  <1>3. ASSUME NEW i \in 1..n
        PROVE  WordAt(u, i + 1) = WordAt(t, i)
    <2>1. i + 1 \in Nat /\ i \in Nat /\ u[i + 1] = t[i]
      BY <1>1
    <2>2. WordEnds(u, i + 1) <=> WordEnds(t, i)
      <3>1. i + 1 = n + 1 <=> i = n
        BY <1>1
      <3>2. i # n => u[(i + 1) + 1] = t[i + 1]
        <4> SUFFICES ASSUME i # n PROVE u[(i + 1) + 1] = t[i + 1]
          OBVIOUS
        <4>1. i + 1 \in 1..n
          BY <1>1
        <4> QED
          BY <1>1, <4>1
      <3> QED
        BY <1>1, <2>1, <3>1, <3>2 DEF WordEnds, n
    <2> DEFINE M == Spaces(t, i)
               N == Spaces(u, i + 1)
               a == Max(M)
               b == Max(N)
    <2>3. /\ \A j \in M : j + 1 \in N
          /\ \A j \in N : j # 0 => j - 1 \in M
          /\ 1 \in N /\ N \in SUBSET (0..(i + 1)) /\ M \in SUBSET (0..i) /\ M # {} /\ N # {}
      <3>1. 1 \in N /\ M \in SUBSET (0..i) /\ N \in SUBSET (0..(i + 1)) /\ 0 \in M
        BY <1>1, <2>1 DEF Spaces
      <3>2. ASSUME NEW j \in M
            PROVE  j + 1 \in N
        <4>1. CASE j = 0
          BY <3>1, <4>1
        <4>2. CASE j # 0
          <5>1. j \in 1..i /\ IsSpace(t[j])
            BY <4>2 DEF Spaces
          <5>2. j + 1 \in 1..(i + 1) /\ u[j + 1] = t[j]
            BY <1>1, <5>1
          <5> QED
            BY <5>1, <5>2 DEF Spaces
        <4> QED
          BY <4>1, <4>2
      <3>3. ASSUME NEW j \in N, j # 0
            PROVE  j - 1 \in M
        <4>1. j \in 1..(i + 1) /\ IsSpace(u[j])
          BY <3>3 DEF Spaces
        <4>2. CASE j = 1
          BY <3>1, <4>2
        <4>3. CASE j # 1
          <5>1. j - 1 \in 1..i /\ j - 1 \in 1..n /\ (j - 1) + 1 = j
            BY <1>1, <4>1, <4>3
          <5>2. u[j] = t[j - 1]
            <6> DEFINE l == j - 1
            <6>1. l \in 1..n /\ l + 1 = j
              BY <5>1
            <6> HIDE DEF l
            <6>2. u[l + 1] = t[l]
              BY <1>1, <6>1
            <6> QED
              BY <6>1, <6>2 DEF l
          <5> QED
            BY <4>1, <5>1, <5>2 DEF Spaces
        <4> QED
          BY <4>2, <4>3
      <3> QED
        BY <3>1, <3>2, <3>3
    <2> HIDE DEF M, N
    <2>4. a \in M /\ a \in 0..i /\ \A j \in M : j <= a
      BY <2>1, <2>3, MaxIsGreatest
    <2>5. b \in N /\ b \in 0..(i + 1) /\ \A j \in N : j <= b
      BY <2>1, <2>3, MaxIsGreatest
    <2> HIDE DEF a, b
    <2>6. b = a + 1
      <3>1. a + 1 <= b
        BY <2>3, <2>4, <2>5
      <3>2. b # 0 /\ b - 1 <= a
        BY <2>3, <2>4, <2>5
      <3> QED
        BY <2>4, <2>5, <3>1, <3>2
    <2> DEFINE k == a + 1
    <2>7. k \in 1..(n + 1) /\ k - 1 <= i /\ b + 1 = k + 1
      BY <1>1, <2>4, <2>6
    <2> HIDE DEF k
    <2>8. SubSeq(u, b + 1, i + 1) = SubSeq(t, k, i)
      BY <1>2, <2>7
    <2> QED
      BY <2>2, <2>8 DEF WordAt, a, b, M, N, k
  <1>4. WordAt(u, 1) = <<>>
    BY <1>1 DEF WordAt, WordEnds
  <1> DEFINE v == WordsFrom(u)
             w == WordsFrom(t)
             T == Seq(Seq(S))
  <1>5. v \in Seq(T) /\ Len(v) = n + 1 /\ \A i \in 1..(n + 1) : v[i] = WordAt(u, i)
    <2>1. WordsFrom(u) \in Seq(Seq(Seq(S))) /\ Len(WordsFrom(u)) = Len(u)
          /\ \A i \in 1..Len(u) : WordsFrom(u)[i] = WordAt(u, i)
      BY <1>1, WordsAreThose
    <2> QED
      BY <1>1, <2>1
  <1>6. w \in Seq(T) /\ Len(w) = n /\ \A i \in 1..n : w[i] = WordAt(t, i)
    BY WordsAreThose DEF n
  <1>7. Words(u) = FlattenSeq(v) /\ Words(t) = FlattenSeq(w)
    BY <1>1, WordsAreThose
  <1> DEFINE e == <<>>
             o == One(e)
  <1>8. e \in T /\ o \in Seq(T) /\ Len(o) = 1 /\ o[1] = e
    <2>1. e \in T
      OBVIOUS
    <2> HIDE DEF e, T
    <2> QED
      BY <2>1, OneIsText
  <1> HIDE DEF v, w, T, o
  <1>9. v = o \o w
    <2>1. o \o w \in Seq(T) /\ Len(o \o w) = 1 + n
          /\ \A i \in 1..(1 + n) : (o \o w)[i] = IF i <= 1 THEN o[i] ELSE w[i - 1]
      <3>1. w \in Seq(T) /\ o \in Seq(T)
        BY <1>6, <1>8
      <3>2. o \o w \in Seq(T) /\ Len(o \o w) = Len(o) + Len(w)
            /\ \A i \in 1..(Len(o) + Len(w)) :
                 (o \o w)[i] = IF i <= Len(o) THEN o[i] ELSE w[i - Len(o)]
        BY <3>1, ConcatProperties
      <3>3. Len(o) = 1 /\ Len(w) = n
        BY <1>6, <1>8
      <3> QED
        BY <3>2, <3>3
    <2>2. ASSUME NEW i \in 1..(n + 1)
          PROVE  v[i] = (o \o w)[i]
      <3>0. i \in 1..(1 + n)
        BY <1>1
      <3>1. CASE i = 1
        <4>1. (o \o w)[i] = e /\ v[i] = WordAt(u, 1)
          BY <1>1, <1>5, <1>8, <2>1, <3>0, <3>1
        <4> QED
          BY <1>4, <4>1
      <3>2. CASE i # 1
        <4> DEFINE j == i - 1
        <4>1. j \in 1..n /\ j + 1 = i /\ ~(i <= 1)
          BY <1>1, <3>2
        <4>2. (o \o w)[i] = w[j]
          BY <2>1, <3>0, <4>1
        <4> HIDE DEF j
        <4>3. v[i] = WordAt(u, j + 1) /\ w[j] = WordAt(t, j)
          BY <1>5, <1>6, <4>1
        <4> QED
          BY <1>3, <4>1, <4>2, <4>3
      <3> QED
        BY <3>1, <3>2
    <2>3. Len(v) = Len(o \o w)
      BY <1>1, <1>5, <2>1
    <2>4. \A i \in 1..Len(v) : v[i] = (o \o w)[i]
      BY <1>5, <2>2
    <2> QED
      BY <1>5, <2>1, <2>3, <2>4, SeqEqual
  <1>10. FlattenSeq(v) = FlattenSeq(w)
    <2>1. FlattenSeq(o \o w) = FlattenSeq(o) \o FlattenSeq(w)
      BY <1>6, <1>8, FlattenOfConcat DEF T
    <2>2. FlattenSeq(o) = e
      <3> HIDE DEF e
      <3> QED
        BY <1>8, FlattenOfOne DEF o, One, T
    <2>3. e \o FlattenSeq(w) = FlattenSeq(w)
      <3> DEFINE f == FlattenSeq(w)
      <3>1. f \in Seq(Seq(S))
        BY <1>6, FlattenIsText DEF T
      <3> HIDE DEF f
      <3> QED
        BY <3>1, ConcatEmptySeq
    <2> QED
      BY <1>9, <2>1, <2>2, <2>3
  <1> QED
    BY <1>7, <1>10 DEF u

Spaced == {" ", "\t", "\r", "\n"}

(* Blanks before a text add no word.                                       *)
LEMMA BlanksBefore ==
  ASSUME NEW S, NEW t \in Seq(S), NEW b \in Seq(Spaced), Spaced \subseteq S
  PROVE  Words(b \o t) = Words(t)
  <1> DEFINE P == {a \in Seq(Spaced) : Words(a \o t) = Words(t)}
  <1>1. <<>> \in P
    <2>1. <<>> \o t = t
      BY ConcatEmptySeq
    <2> QED
      BY <2>1
  <1>2. ASSUME NEW a \in P, NEW x \in Spaced
        PROVE  <<x>> \o a \in P
    <2>1. a \in Seq(Spaced) /\ Words(a \o t) = Words(t)
      OBVIOUS
    <2> HIDE DEF P
    <2> DEFINE o == One(x)
    <2>2. o \in Seq(Spaced) /\ o \in Seq(S) /\ a \in Seq(S)
      <3>1. x \in S
        OBVIOUS
      <3>2. a \in Seq(S)
        BY <2>1, SeqMonotonic
      <3> HIDE DEF o
      <3> QED
        BY <3>1, <3>2, OneIsText DEF o
    <2> HIDE DEF o
    <2>3. o \o a \in Seq(Spaced) /\ a \o t \in Seq(S)
      BY <2>1, <2>2, ConcatProperties
    <2>4. Words(o \o (a \o t)) = Words(a \o t)
      <3> DEFINE y == a \o t
      <3>1. y \in Seq(S) /\ x \in S /\ IsSpace(x)
        BY <2>3 DEF IsSpace, Spaced
      <3> HIDE DEF y
      <3>2. Words(One(x) \o y) = Words(y)
        BY <3>1, BlankBefore
      <3> QED
        BY <3>2 DEF y, o
    <2>5. (o \o a) \o t = o \o (a \o t)
      BY <2>2, Regrouped
    <2>6. Words((o \o a) \o t) = Words(t)
      BY <2>1, <2>4, <2>5
    <2> QED
      BY <2>3, <2>6 DEF P, o, One
  <1>3. P = Seq(Spaced)
    <2>1. P \in SUBSET Seq(Spaced)
      OBVIOUS
    <2> HIDE DEF P
    <2> QED
      BY <1>1, <1>2, <2>1, PrependInduction
  <1>4. b \in P
    BY <1>3
  <1> QED
    BY <1>4

-----------------------------------------------------------------------------
(* Trimming.                                                               *)
Visible(s) == {0} \cup {i \in 1..Len(s) : ~IsSpace(s[i])}

(* rtrim cuts behind the last character that is not blank.                 *)
LEMMA TrimmedText ==
  ASSUME NEW S, NEW s \in Seq(S)
  PROVE  /\ Max(Visible(s)) \in 0..Len(s) /\ Max(Visible(s)) \in Visible(s)
         /\ (\A i \in Visible(s) : i <= Max(Visible(s)))
         /\ rtrim(s) = SubSeq(s, 1, Max(Visible(s)))
         /\ rtrim(s) \in Seq(S) /\ Len(rtrim(s)) = Max(Visible(s))
  <1> DEFINE m == Max(Visible(s))
  <1>1. Len(s) \in Nat /\ Visible(s) \in SUBSET (0..Len(s)) /\ Visible(s) # {}
    <2>1. Len(s) \in Nat
      BY LenProperties
    <2> QED
      BY <2>1 DEF Visible
  <1>2. m \in Visible(s) /\ m \in 0..Len(s) /\ \A i \in Visible(s) : i <= m
    BY <1>1, MaxIsGreatest
  <1>3. rtrim(s) = SubSeq(s, 1, m)
    BY DEF rtrim, Visible
  <1> HIDE DEF m
  <1>4. 1 \in 1..(Len(s) + 1) /\ m \in Nat /\ 1 - 1 <= m /\ m <= Len(s) /\ m - 1 + 1 = m
    BY <1>1, <1>2
  <1>5. SubSeq(s, 1, m) \in Seq(S) /\ Len(SubSeq(s, 1, m)) = m - 1 + 1
    BY <1>4, PartIsText
  <1> QED
    BY <1>2, <1>3, <1>4, <1>5 DEF m

(* A blank behind a text is trimmed.                                       *)
LEMMA BlankBehind ==
  ASSUME NEW S, NEW s \in Seq(S), NEW x \in S, IsSpace(x)
  PROVE  rtrim(s \o One(x)) = rtrim(s)
  <1> DEFINE u == s \o One(x)
             n == Len(s)
             m == Max(Visible(s))
  <1>1. u \in Seq(S) /\ Len(u) = n + 1 /\ n \in Nat /\ (\A i \in 1..n : u[i] = s[i]) /\ u[n + 1] = x
    BY Prolonged
  <1>2. One(x) \in Seq(S)
    BY OneIsText
  <1> HIDE DEF u
  <1>3. Visible(u) = Visible(s)
    <2>1. \A i \in 1..(n + 1) : ~IsSpace(u[i]) <=> i \in 1..n /\ ~IsSpace(s[i])
      <3> SUFFICES ASSUME NEW i \in 1..(n + 1)
                   PROVE  ~IsSpace(u[i]) <=> i \in 1..n /\ ~IsSpace(s[i])
        OBVIOUS
      <3>1. CASE i = n + 1
        <4>1. i \notin 1..n
          BY <1>1, <3>1
        <4> QED
          BY <1>1, <3>1, <4>1
      <3>2. CASE i # n + 1
        <4>1. i \in 1..n
          BY <1>1, <3>2
        <4> QED
          BY <1>1, <4>1
      <3> QED
        BY <3>1, <3>2
    <2>2. \A i \in 1..n : i \in 1..(n + 1)
      BY <1>1
    <2> QED
      BY <1>1, <2>1, <2>2 DEF Visible
  <1>4. m \in 0..n /\ rtrim(s) = SubSeq(s, 1, m)
    BY TrimmedText
  <1>5. rtrim(u) = SubSeq(u, 1, m)
    BY <1>1, <1>3, TrimmedText
  <1> HIDE DEF m, n
  <1>6. 1 \in 1..(n + 1) /\ m \in Nat /\ 1 - 1 <= m /\ m <= n
    BY <1>1, <1>4
  <1>7. SubSeq(s \o One(x), 1, m) = SubSeq(s, 1, m)
    <2> DEFINE o == One(x)
    <2>1. o \in Seq(S)
      BY <1>2
    <2> HIDE DEF o
    <2>2. SubSeq(s \o o, 1, m) = SubSeq(s, 1, m)
      BY <1>6, <2>1, PartOfFirst DEF n
    <2> QED
      BY <2>2 DEF o
  <1> QED
    BY <1>4, <1>5, <1>7 DEF u

(* A text that ends in no blank is not trimmed.                            *)
LEMMA NoBlankBehind ==
  ASSUME NEW S, NEW s \in Seq(S), NEW x \in S, ~IsSpace(x)
  PROVE  rtrim(s \o One(x)) = s \o One(x)
  <1> DEFINE u == s \o One(x)
             n == Len(s)
             m == Max(Visible(u))
  <1>1. u \in Seq(S) /\ Len(u) = n + 1 /\ n \in Nat /\ u[n + 1] = x
    BY Prolonged
  <1> HIDE DEF u, n
  <1>2. m \in 0..(n + 1) /\ (\A i \in Visible(u) : i <= m) /\ rtrim(u) = SubSeq(u, 1, m)
    BY <1>1, TrimmedText
  <1>3. n + 1 \in Visible(u)
    BY <1>1 DEF Visible
  <1>4. m = n + 1
    <2> HIDE DEF m
    <2> QED
      BY <1>1, <1>2, <1>3
  <1>5. SubSeq(u, 1, Len(u)) = u
    BY <1>1, SubSeqFull
  <1> QED
    BY <1>1, <1>2, <1>4, <1>5 DEF u

(* A text with a character that is not blank does not vanish.              *)
LEMMA NotAllBlank ==
  ASSUME NEW S, NEW s \in Seq(S), NEW x \in ToSet(s), ~IsSpace(x)
  PROVE  rtrim(s) \in Seq(S) /\ rtrim(s) # <<>>
  <1> DEFINE m == Max(Visible(s))
  <1>1. m \in 0..Len(s) /\ (\A i \in Visible(s) : i <= m) /\ rtrim(s) \in Seq(S)
        /\ Len(rtrim(s)) = m
    BY TrimmedText
  <1>2. PICK i \in 1..Len(s) : x = s[i]
    BY ElementsOfText
  <1>3. i \in Visible(s)
    BY <1>2 DEF Visible
  <1> HIDE DEF m
  <1>4. m # 0
    BY <1>1, <1>3
  <1> QED
    BY <1>1, <1>4, EmptySeq

(* rtrimc gives a text.                                                    *)
LEMMA UnendedText ==
  ASSUME NEW S, NEW s \in Seq(S), s # <<>>, NEW c
  PROVE  rtrimc(s, c) \in Seq(S)
  <1> DEFINE M == {1} \cup {i \in 1..Len(s) : s[i] # c}
             m == Max(M)
  <1>1. Len(s) \in Nat \ {0}
    BY LenProperties, EmptySeq
  <1>2. M \in SUBSET (0..Len(s)) /\ M # {} /\ \A i \in M : 1 <= i
    BY <1>1
  <1>3. rtrimc(s, c) = SubSeq(s, 1, m)
    BY DEF rtrimc
  <1> HIDE DEF M
  <1>4. m \in M /\ m \in 0..Len(s)
    BY <1>1, <1>2, MaxIsGreatest
  <1> HIDE DEF m
  <1>5. 1 \in 1..(Len(s) + 1) /\ m \in Nat /\ 1 - 1 <= m /\ m <= Len(s)
    BY <1>1, <1>2, <1>4
  <1> QED
    BY <1>3, <1>5, PartIsText

(* rtrimc takes one semicolon, and nothing else if there is one.           *)
LEMMA EndingTaken ==
  ASSUME NEW S, NEW s \in Seq(S), NEW c \in S, s # <<>>, c \notin ToSet(s)
  PROVE  rtrimc(s \o One(c), c) = s
  <1> DEFINE u == s \o One(c)
             n == Len(s)
             M == {1} \cup {i \in 1..Len(u) : u[i] # c}
             m == Max(M)
  <1>1. u \in Seq(S) /\ Len(u) = n + 1 /\ n \in Nat /\ (\A i \in 1..n : u[i] = s[i]) /\ u[n + 1] = c
    BY Prolonged
  <1>2. One(c) \in Seq(S) /\ n # 0 /\ \A i \in 1..n : s[i] # c
    BY OneIsText, EmptySeq, ElementsOfText
  <1>3. rtrimc(u, c) = SubSeq(u, 1, m)
    BY DEF rtrimc
  <1> HIDE DEF u, n
  <1>4. M \in SUBSET (0..n) /\ n \in M
    <2>1. \A i \in 1..(n + 1) : u[i] # c => i \in 1..n
      <3> SUFFICES ASSUME NEW i \in 1..(n + 1), i \notin 1..n
                   PROVE  u[i] = c
        OBVIOUS
      <3>1. i = n + 1
        BY <1>1
      <3> QED
        BY <1>1, <3>1
    <2>2. n \in 1..n /\ n \in 1..(n + 1) /\ 1 \in 0..n /\ \A i \in 1..n : i \in 0..n
      BY <1>1, <1>2
    <2> QED
      BY <1>1, <1>2, <2>1, <2>2
  <1> HIDE DEF M
  <1>5. m \in 0..n /\ n <= m
    <2>1. m \in 0..n /\ \A i \in M : i <= m
      BY <1>1, <1>4, MaxIsGreatest
    <2> QED
      BY <1>4, <2>1
  <1>6. m = n
    <2> HIDE DEF m
    <2> QED
      BY <1>1, <1>5
  <1>7. SubSeq(s \o One(c), 1, n) = SubSeq(s, 1, n)
    <2> DEFINE o == One(c)
    <2>1. o \in Seq(S) /\ 1 \in 1..(Len(s) + 1) /\ n \in Nat /\ 1 - 1 <= n /\ n <= Len(s)
      BY <1>1, <1>2 DEF n
    <2> HIDE DEF o
    <2>2. SubSeq(s \o o, 1, n) = SubSeq(s, 1, n)
      BY <2>1, PartOfFirst
    <2> QED
      BY <2>2 DEF o
  <1>8. SubSeq(s, 1, n) = s
    BY SubSeqFull DEF n
  <1> QED
    BY <1>3, <1>6, <1>7, <1>8 DEF u

-----------------------------------------------------------------------------
(* Without line breaks.                                                    *)
LEMMA UnbrokenText ==
  ASSUME NEW S, NEW s \in Seq(S)
  PROVE  /\ Unbroken(s) = Those(s, S \ {"\n"})
         /\ Unbroken(s) \in Seq(S) /\ ToSet(Unbroken(s)) = ToSet(s) \ {"\n"}
  <1> DEFINE A == ToSet(s) \ {"\n"}
             B == S \ {"\n"}
  <1>1. \A i \in 1..Len(s) : s[i] \in A <=> s[i] \in B
    BY ElementsOfText, ElementOfSeq
  <1>2. Those(s, A) = Those(s, B)
    <2> HIDE DEF A, B
    <2> QED
      BY <1>1 DEF Those
  <1>3. Unbroken(s) = Those(s, A)
    BY DEF Unbroken
  <1> HIDE DEF A, B
  <1>4. Those(s, B) \in Seq(S)
    BY ThoseIsText
  <1>5. ToSet(Those(s, A)) = ToSet(s) \cap A
    BY ElementsOfThose
  <1> QED
    BY <1>2, <1>3, <1>4, <1>5 DEF A, B

(* One more character in a text without its line breaks.                   *)
LEMMA UnbrokenOn ==
  ASSUME NEW S, NEW s \in Seq(S), NEW x \in S
  PROVE  /\ x = "\n" => Unbroken(s \o One(x)) = Unbroken(s)
         /\ x # "\n" => Unbroken(s \o One(x)) = Unbroken(s) \o One(x)
  <1> DEFINE B == S \ {"\n"}
             o == One(x)
             u == s \o o
  <1>1. o \in Seq(S) /\ u \in Seq(S)
    BY OneIsText, Prolonged
  <1>2. Those(o, B) = IF x \in B THEN o ELSE <<>>
    BY ThoseOfOne DEF One
  <1> HIDE DEF B, o
  <1>3. Those(s \o o, B) = Those(s, B) \o Those(o, B)
    BY <1>1, ThoseOfConcat
  <1> HIDE DEF u
  <1>4. Unbroken(u) = Those(u, B) /\ Unbroken(s) = Those(s, B) /\ Those(s, B) \in Seq(S)
    BY <1>1, UnbrokenText DEF B
  <1>5. Those(s, B) \o <<>> = Those(s, B)
    BY <1>4, ConcatEmptySeq
  <1>6. CASE x = "\n"
    <2>1. x \notin B
      BY <1>6 DEF B
    <2> QED
      BY <1>2, <1>3, <1>4, <1>5, <1>6, <2>1 DEF u, o
  <1>7. CASE x # "\n"
    <2>1. x \in B
      BY <1>7 DEF B
    <2> QED
      BY <1>2, <1>3, <1>4, <1>7, <2>1 DEF u, o
  <1> QED
    BY <1>6, <1>7

-----------------------------------------------------------------------------
(* Lines glued one by one.                                                 *)
NoLine == [s |-> <<>>, sqls |-> <<>>]
Gluing(g, ls) ==
  g = [n \in 0..Len(ls) |-> IF n = 0 THEN NoLine ELSE AppendLine(g[n - 1], ls[n])]
GluedLines(ls) ==
  LET Glued[n \in 0..Len(ls)] ==
        IF n = 0 THEN [s |-> <<>>, sqls |-> <<>>]
        ELSE AppendLine(Glued[n - 1], ls[n])
  IN  Glued[Len(ls)]

(* The recursive function in Glued, as equations.                          *)
LEMMA GluingSteps ==
  ASSUME NEW S, NEW ls \in Seq(S), NEW g
  PROVE  Gluing(g, ls) <=>
           /\ g = [n \in 0..Len(ls) |-> g[n]]
           /\ g[0] = NoLine
           /\ \A n \in 1..Len(ls) : g[n] = AppendLine(g[n - 1], ls[n])
  <1> DEFINE N == Len(ls)
             Step(n) == IF n = 0 THEN NoLine ELSE AppendLine(g[n - 1], ls[n])
  <1>1. N \in Nat /\ 0 \in 0..N /\ \A n \in 0..N : n # 0 <=> n \in 1..N
    BY LenProperties
  <1>2. ASSUME Gluing(g, ls)
        PROVE  g = [n \in 0..N |-> g[n]] /\ \A n \in 0..N : g[n] = Step(n)
    <2>1. g = [n \in 0..N |-> Step(n)]
      BY <1>2 DEF Gluing
    <2> HIDE DEF Step, N
    <2> QED
      BY <2>1
  <1>3. ASSUME g = [n \in 0..N |-> g[n]], \A n \in 0..N : g[n] = Step(n)
        PROVE  Gluing(g, ls)
    <2>1. g = [n \in 0..N |-> Step(n)]
      <3> HIDE DEF Step, N
      <3> QED
        BY <1>3
    <2> QED
      BY <2>1 DEF Gluing
  <1>4. (\A n \in 0..N : g[n] = Step(n)) <=>
          g[0] = NoLine /\ \A n \in 1..N : g[n] = AppendLine(g[n - 1], ls[n])
    <2> HIDE DEF N
    <2>1. Step(0) = NoLine /\ \A n \in 1..N : Step(n) = AppendLine(g[n - 1], ls[n]) /\ n \in 0..N
      BY <1>1
    <2> HIDE DEF Step
    <2> QED
      BY <1>1, <2>1
  <1> HIDE DEF Step
  <1> QED
    BY <1>2, <1>3, <1>4

(* A function with these equations exists.                                 *)
LEMMA GluingExists ==
  ASSUME NEW S, NEW ls \in Seq(S)
  PROVE  \E g : Gluing(g, ls)
  <1> DEFINE P == {k \in Seq(S) : \E g : Gluing(g, k)}
  <1>1. <<>> \in P
    <2> DEFINE g == [n \in 0..0 |-> NoLine]
               e == <<>>
    <2>1. g[0] = NoLine /\ g = [n \in 0..Len(e) |-> g[n]] /\ e \in Seq(S) /\ Len(e) = 0
      OBVIOUS
    <2>2. \A n \in 1..Len(e) : FALSE
      BY <2>1
    <2> HIDE DEF g, e
    <2>3. Gluing(g, e)
      BY <2>1, <2>2, GluingSteps
    <2>4. e \in P
      BY <2>1, <2>3
    <2> QED
      BY <2>4 DEF e
  <1>2. ASSUME NEW k \in P, NEW x \in S
        PROVE  k \o <<x>> \in P
    <2>1. k \in Seq(S) /\ \E g : Gluing(g, k)
      OBVIOUS
    <2>2. PICK g : Gluing(g, k)
      BY <2>1
    <2> HIDE DEF P
    <2> DEFINE N == Len(k)
               o == k \o <<x>>
               h == [n \in 0..(N + 1) |-> IF n \in 0..N THEN g[n] ELSE AppendLine(g[N], x)]
    <2>3. N \in Nat /\ o \in Seq(S) /\ Len(o) = N + 1 /\ (\A i \in 1..N : o[i] = k[i])
          /\ o[N + 1] = x
      BY <2>1, OneMore
    <2>4. g[0] = NoLine /\ \A n \in 1..N : g[n] = AppendLine(g[n - 1], k[n])
      BY <2>1, <2>2, GluingSteps
    <2> HIDE DEF N, o
    <2>5. h[0] = NoLine /\ h = [n \in 0..(N + 1) |-> h[n]]
      <3>1. 0 \in 0..N /\ 0 \in 0..(N + 1)
        BY <2>3
      <3> QED
        BY <2>4, <3>1
    <2>6. \A n \in 0..N : h[n] = g[n]
      <3>1. \A n \in 0..N : n \in 0..(N + 1)
        BY <2>3
      <3> QED
        BY <3>1
    <2>7. h[N + 1] = AppendLine(g[N], x)
      <3>1. N + 1 \in 0..(N + 1) /\ N + 1 \notin 0..N
        BY <2>3
      <3> QED
        BY <3>1
    <2> HIDE DEF h
    <2>8. ASSUME NEW n \in 1..(N + 1)
          PROVE  h[n] = AppendLine(h[n - 1], o[n])
      <3>1. CASE n = N + 1
        <4>1. n - 1 = N /\ N \in 0..N
          BY <2>3, <3>1
        <4> QED
          BY <2>3, <2>6, <2>7, <3>1, <4>1
      <3>2. CASE n # N + 1
        <4>1. n \in 1..N /\ n \in 0..N /\ n - 1 \in 0..N
          BY <2>3, <3>2
        <4> QED
          BY <2>3, <2>4, <2>6, <4>1
      <3> QED
        BY <3>1, <3>2
    <2>9. Gluing(h, o)
      <3>1. h = [n \in 0..Len(o) |-> h[n]]
        BY <2>3, <2>5
      <3>2. \A n \in 1..Len(o) : h[n] = AppendLine(h[n - 1], o[n])
        BY <2>3, <2>8
      <3> QED
        BY <2>3, <2>5, <3>1, <3>2, GluingSteps
    <2> QED
      BY <2>3, <2>9 DEF P, o
  <1>3. P = Seq(S)
    <2>1. P \in SUBSET Seq(S)
      OBVIOUS
    <2> HIDE DEF P
    <2> QED
      BY <1>1, <1>2, <2>1, AppendInduction
  <1>4. ls \in P
    BY <1>3
  <1> QED
    BY <1>4

(* The one that Glued chooses has these equations.                         *)
LEMMA GluedGlues ==
  ASSUME NEW S, NEW ls \in Seq(S)
  PROVE  \E g : Gluing(g, ls) /\ GluedLines(ls) = g[Len(ls)]
  <1> DEFINE G == CHOOSE g : Gluing(g, ls)
  <1>1. Gluing(G, ls)
    BY GluingExists
  <1>2. GluedLines(ls) = G[Len(ls)]
    BY DEF GluedLines, Gluing, NoLine
  <1> QED
    BY <1>1, <1>2

(* One more line.                                                          *)
LEMMA GluedOn ==
  ASSUME NEW S, NEW ls \in Seq(S), NEW l \in S
  PROVE  GluedLines(ls \o One(l)) = AppendLine(GluedLines(ls), l)
  <1> DEFINE o == ls \o One(l)
             N == Len(ls)
  <1>1. N \in Nat /\ o \in Seq(S) /\ Len(o) = N + 1 /\ (\A i \in 1..N : o[i] = ls[i])
        /\ o[N + 1] = l
    BY Prolonged
  <1> HIDE DEF o
  <1>2. PICK g : Gluing(g, ls) /\ GluedLines(ls) = g[N]
    BY GluedGlues
  <1>3. PICK h : Gluing(h, o) /\ GluedLines(o) = h[N + 1]
    BY <1>1, GluedGlues
  <1>4. g[0] = NoLine /\ \A n \in 1..N : g[n] = AppendLine(g[n - 1], ls[n])
    BY <1>2, GluingSteps
  <1>5. h[0] = NoLine /\ \A n \in 1..(N + 1) : h[n] = AppendLine(h[n - 1], o[n])
    <2>1. h[0] = NoLine /\ \A n \in 1..Len(o) : h[n] = AppendLine(h[n - 1], o[n])
      BY <1>1, <1>3, GluingSteps
    <2> QED
      BY <1>1, <2>1
  <1> HIDE DEF N
  <1> DEFINE P == {n \in Nat : n <= N => g[n] = h[n]}
  <1>6. 0 \in P
    BY <1>4, <1>5
  <1>7. ASSUME NEW n \in P
        PROVE  n + 1 \in P
    <2>1. n \in Nat /\ n + 1 \in Nat /\ (n + 1) - 1 = n
      OBVIOUS
    <2> SUFFICES ASSUME n + 1 <= N
                 PROVE  g[n + 1] = h[n + 1]
      BY <2>1
    <2>2. n + 1 \in 1..N /\ n + 1 \in 1..(N + 1) /\ n <= N
      BY <1>1, <2>1
    <2>3. g[n] = h[n] /\ o[n + 1] = ls[n + 1]
      BY <1>1, <2>2
    <2> QED
      BY <1>4, <1>5, <2>1, <2>2, <2>3
  <1>8. P = Nat
    <2>1. P \in SUBSET Nat
      OBVIOUS
    <2> HIDE DEF P
    <2> QED
      BY <1>6, <1>7, <2>1, SetInduction
  <1>9. g[N] = h[N]
    <2>1. N \in P /\ N <= N
      BY <1>1, <1>8
    <2> QED
      BY <2>1
  <1>10. N + 1 \in 1..(N + 1) /\ (N + 1) - 1 = N
    BY <1>1
  <1> QED
    BY <1>1, <1>2, <1>3, <1>5, <1>9, <1>10 DEF o

(* No lines.                                                               *)
LEMMA GluedNone == GluedLines(<<>>) = NoLine
  <1> DEFINE e == <<>>
  <1>1. e \in Seq({}) /\ Len(e) = 0
    OBVIOUS
  <1> HIDE DEF e
  <1>2. PICK g : Gluing(g, e) /\ GluedLines(e) = g[Len(e)]
    BY <1>1, GluedGlues
  <1>3. g[0] = NoLine
    BY <1>1, <1>2, GluingSteps
  <1> QED
    BY <1>1, <1>2, <1>3 DEF e

-----------------------------------------------------------------------------
(* What one line does.                                                     *)
IsGlued(r, S) == r \in [s : Seq(S), sqls : Seq(Seq(S))]

(* A line without a semicolon is glued to the statement so far.            *)
LEMMA LineWithout ==
  ASSUME NEW S, NEW r, IsGlued(r, S), NEW l \in Seq(S), ";" \notin ToSet(l)
  PROVE  /\ AppendLine(r, l).s = r.s \o l /\ AppendLine(r, l).sqls = r.sqls
         /\ IsGlued(AppendLine(r, l), S)
  <1>1. r \in [s : Seq(S), sqls : Seq(Seq(S))] /\ r.s \in Seq(S) /\ r.sqls \in Seq(Seq(S))
    BY DEF IsGlued
  <1>2. r.s \o l \in Seq(S)
    BY <1>1, ConcatProperties
  <1> DEFINE t == r.s \o l
  <1>3. AppendLine(r, l) = [r EXCEPT !.s = t]
    BY DEF AppendLine
  <1> HIDE DEF t
  <1>4. t \in Seq(S)
    BY <1>2 DEF t
  <1> DEFINE T == Seq(S)
             U == Seq(Seq(S))
  <1> HIDE DEF T, U
  <1>5. r \in [s : T, sqls : U] /\ t \in T
    BY <1>1, <1>4 DEF T, U
  <1>6. [r EXCEPT !.s = t].s = t /\ [r EXCEPT !.s = t].sqls = r.sqls
        /\ [r EXCEPT !.s = t] \in [s : T, sqls : U]
    BY <1>5
  <1> QED
    BY <1>3, <1>6 DEF IsGlued, T, U, t

Ending(r, l) == rtrimc(rtrim(r.s \o l), ";")

(* A line with a semicolon ends the statement.                             *)
LEMMA LineWith ==
  ASSUME NEW S, NEW r, IsGlued(r, S), NEW l \in Seq(S), ";" \in ToSet(l)
  PROVE  /\ AppendLine(r, l).s = <<>>
         /\ AppendLine(r, l).sqls = r.sqls \o One(Ending(r, l))
         /\ Ending(r, l) \in Seq(S)
         /\ IsGlued(AppendLine(r, l), S)
  <1>1. r.s \in Seq(S) /\ r.sqls \in Seq(Seq(S))
    BY DEF IsGlued
  <1> DEFINE t == r.s \o l
             w == Ending(r, l)
  <1>2. t \in Seq(S) /\ ";" \in ToSet(t)
    <2>1. ToSet(r.s \o l) = ToSet(r.s) \cup ToSet(l)
      BY <1>1, ElementsOfConcat
    <2> QED
      BY <1>1, <2>1, ConcatProperties
  <1>3. w = rtrimc(rtrim(t), ";")
    BY DEF Ending
  <1>4. AppendLine(r, l) = [s |-> <<>>, sqls |-> Append(r.sqls, w)]
    BY DEF AppendLine, Ending
  <1> HIDE DEF t, w
  <1>5. rtrim(t) \in Seq(S) /\ rtrim(t) # <<>>
    <2>1. ~IsSpace(";")
      BY DEF IsSpace
    <2> QED
      BY <1>2, <2>1, NotAllBlank
  <1>6. w \in Seq(S)
    BY <1>3, <1>5, UnendedText
  <1>7. Append(r.sqls, w) = r.sqls \o One(w) /\ r.sqls \o One(w) \in Seq(Seq(S))
    <2>1. r.sqls \o One(w) \in Seq(Seq(S))
      BY <1>1, <1>6, Prolonged
    <2>2. Append(r.sqls, w) = r.sqls \o <<w>>
      BY <1>1, <1>6, AppendIsConcat
    <2> QED
      BY <2>1, <2>2 DEF One
  <1> DEFINE X == r.sqls \o One(w)
             e == <<>>
             a == [s |-> e, sqls |-> X]
  <1>8. e \in Seq(S)
    BY EmptySeq
  <1>9. X \in Seq(Seq(S)) /\ AppendLine(r, l) = a
    BY <1>4, <1>7
  <1> HIDE DEF X, e
  <1>10. a.s = e /\ a.sqls = X /\ a \in [s : Seq(S), sqls : Seq(Seq(S))]
    BY <1>8, <1>9
  <1> HIDE DEF a
  <1>11. AppendLine(r, l).s = e /\ AppendLine(r, l).sqls = X /\ IsGlued(AppendLine(r, l), S)
    BY <1>9, <1>10 DEF IsGlued
  <1> QED
    BY <1>6, <1>11 DEF w, X, e

(* A ";" is the last of its line; one is on the last line.                 *)
Tidy(T) ==
  \A i \in Places(T, ";") :
    \A j \in i..Len(T) :
      (\A k \in i..j : T[k] # "\n") => j = i \/ IsSpace(T[j])
OpenAt(T, i) == i \in Places(T, ";") /\ \A k \in i..Len(T) : T[k] # "\n"
Open(T)      == \E i \in Nat : OpenAt(T, i)

(* One more character in a text, and where its semicolons are.             *)
LEMMA PlacesOn ==
  ASSUME NEW S, NEW T \in Seq(S), NEW x \in S
  PROVE  /\ Places(T, ";") \subseteq Places(T \o One(x), ";") /\ Places(T, ";") \subseteq 1..Len(T)
         /\ x = ";" => Len(T) + 1 \in Places(T \o One(x), ";")
  <1> DEFINE u == T \o One(x)
  <1>1. Len(u) = Len(T) + 1 /\ Len(T) \in Nat /\ (\A i \in 1..Len(T) : u[i] = T[i])
        /\ u[Len(T) + 1] = x
    BY Prolonged
  <1> HIDE DEF u
  <1>2. \A i \in 1..Len(T) : i \in 1..Len(u)
    BY <1>1
  <1>3. Len(T) + 1 \in 1..Len(u)
    BY <1>1
  <1>4. Places(T, ";") \subseteq Places(u, ";") /\ Places(T, ";") \subseteq 1..Len(T)
    BY <1>1, <1>2 DEF Places
  <1>5. x = ";" => Len(T) + 1 \in Places(u, ";")
    BY <1>1, <1>3 DEF Places
  <1> QED
    BY <1>4, <1>5 DEF u

(* Places that are in a text are in a longer one.                          *)
LEMMA NoneBetween ==
  ASSUME NEW n \in Nat, NEW i \in 1..n, NEW j \in i..n
  PROVE  j \in i..(n + 1) /\ j \in 1..n /\ \A k \in i..j : k \in 1..n
  OBVIOUS

(* A text without text behind a semicolon on a line is one as far as it    *)
(* has been written.                                                       *)
LEMMA TidyBefore ==
  ASSUME NEW S, NEW T \in Seq(S), NEW x \in S, Tidy(T \o One(x))
  PROVE  Tidy(T)
  <1> DEFINE u == T \o One(x)
             n == Len(T)
  <1>1. Len(u) = n + 1 /\ n \in Nat /\ (\A i \in 1..n : u[i] = T[i])
    BY Prolonged
  <1>2. Places(T, ";") \subseteq Places(u, ";") /\ Places(T, ";") \subseteq 1..n
    BY PlacesOn
  <1>3. Tidy(u)
    OBVIOUS
  <1> HIDE DEF u, n
  <1> SUFFICES ASSUME NEW i \in Places(T, ";"), NEW j \in i..n,
                      \A k \in i..j : T[k] # "\n"
               PROVE  j = i \/ IsSpace(T[j])
    BY DEF Tidy, n
  <1>0. i \in 1..n /\ i \in Places(u, ";") /\ n \in Nat
    BY <1>1, <1>2
  <1>00. j \in i..(n + 1) /\ j \in 1..n /\ \A k \in i..j : k \in 1..n
    BY <1>0, NoneBetween
  <1>4. i \in 1..n /\ i \in Places(u, ";") /\ j \in i..(n + 1) /\ j \in 1..n /\ u[j] = T[j]
        /\ \A k \in i..j : k \in 1..n
    BY <1>0, <1>00, <1>1
  <1>5. \A k \in i..j : u[k] # "\n"
    BY <1>1, <1>4
  <1>6. j = i \/ IsSpace(u[j])
    BY <1>1, <1>3, <1>4, <1>5 DEF Tidy
  <1> QED
    BY <1>4, <1>6

(* Behind a semicolon only blanks follow until the line ends.              *)
LEMMA OpenOn ==
  ASSUME NEW S, NEW T \in Seq(S), NEW x \in S, x # "\n"
  PROVE  /\ Open(T) \/ x = ";" => Open(T \o One(x))
         /\ Open(T) /\ Tidy(T \o One(x)) => IsSpace(x)
  <1> DEFINE u == T \o One(x)
             n == Len(T)
  <1>1. Len(u) = n + 1 /\ n \in Nat /\ (\A i \in 1..n : u[i] = T[i]) /\ u[n + 1] = x
    BY Prolonged
  <1>2. /\ Places(T, ";") \subseteq Places(u, ";") /\ Places(T, ";") \subseteq 1..n
        /\ x = ";" => n + 1 \in Places(u, ";")
    BY PlacesOn
  <1> HIDE DEF u, n
  <1>3. ASSUME NEW i \in Nat, OpenAt(T, i)
        PROVE  i \in Places(u, ";") /\ i \in 1..n /\ \A k \in i..(n + 1) : u[k] # "\n"
    <2>1. i \in Places(u, ";") /\ i \in 1..n /\ \A k \in i..n : T[k] # "\n"
      BY <1>2, <1>3 DEF OpenAt, n
    <2>2. ASSUME NEW k \in i..(n + 1)
          PROVE  u[k] # "\n"
      <3>1. CASE k = n + 1
        BY <1>1, <3>1
      <3>2. CASE k # n + 1
        <4>0. n \in Nat /\ i \in 1..n
          BY <1>1, <2>1
        <4>1. k \in i..n /\ k \in 1..n
          BY <4>0, <3>2
        <4> QED
          BY <1>1, <2>1, <4>1
      <3> QED
        BY <3>1, <3>2
    <2> QED
      BY <2>1, <2>2
  <1>4. ASSUME Open(T)
        PROVE  Open(u)
    <2>1. PICK i \in Nat : OpenAt(T, i)
      BY <1>4 DEF Open
    <2>2. OpenAt(u, i)
      BY <1>1, <1>3, <2>1 DEF OpenAt
    <2> QED
      BY <2>2 DEF Open
  <1>5. ASSUME x = ";"
        PROVE  Open(u)
    <2>1. n + 1 \in Nat /\ \A k \in (n + 1)..(n + 1) : k = n + 1
      BY <1>1
    <2>2. OpenAt(u, n + 1)
      BY <1>1, <1>2, <1>5, <2>1 DEF OpenAt
    <2> QED
      BY <2>1, <2>2 DEF Open
  <1>6. ASSUME Open(T), Tidy(u)
        PROVE  IsSpace(x)
    <2>1. PICK i \in Nat : OpenAt(T, i)
      BY <1>6 DEF Open
    <2>2. i \in Places(u, ";") /\ i \in 1..n /\ \A k \in i..(n + 1) : u[k] # "\n"
      BY <1>3, <2>1
    <2> DEFINE j == n + 1
    <2>3. j \in i..j /\ j # i
      <3>1. n \in Nat /\ i \in 1..n
        BY <1>1, <2>2
      <3> QED
        BY <3>1
    <2> HIDE DEF j
    <2>4. Len(u) = j /\ u[j] = x /\ \A k \in i..j : u[k] # "\n"
      BY <1>1, <2>2 DEF j
    <2>5. j = i \/ IsSpace(u[j])
      BY <1>6, <2>2, <2>3, <2>4 DEF Tidy
    <2> QED
      BY <2>3, <2>4, <2>5
  <1> QED
    BY <1>4, <1>5, <1>6 DEF u

-----------------------------------------------------------------------------
(* Statements of the same words.                                           *)
Alike(a, b) == Len(a) = Len(b) /\ \A i \in 1..Len(b) : Words(a[i]) = Words(b[i])

(* One more statement with the same words.                                 *)
LEMMA AlikeOn ==
  ASSUME NEW X, NEW a \in Seq(X), NEW b \in Seq(X), NEW x \in X, NEW y \in X,
         Alike(a, b), Words(x) = Words(y)
  PROVE  Alike(a \o One(x), b \o One(y))
  <1> DEFINE c == a \o One(x)
             d == b \o One(y)
             n == Len(b)
  <1>1. Len(a) = n /\ \A i \in 1..n : Words(a[i]) = Words(b[i])
    BY DEF Alike
  <1>2. Len(c) = Len(a) + 1 /\ (\A i \in 1..Len(a) : c[i] = a[i]) /\ c[Len(a) + 1] = x
    BY Prolonged
  <1>3. Len(d) = n + 1 /\ n \in Nat /\ (\A i \in 1..n : d[i] = b[i]) /\ d[n + 1] = y
    BY Prolonged
  <1> HIDE DEF c, d, n
  <1>4. ASSUME NEW i \in 1..(n + 1)
        PROVE  Words(c[i]) = Words(d[i])
    <2>1. CASE i = n + 1
      BY <1>1, <1>2, <1>3, <2>1
    <2>2. CASE i # n + 1
      <3>1. i \in 1..n
        BY <1>3, <2>2
      <3> QED
        BY <1>1, <1>2, <1>3, <3>1
    <2> QED
      BY <2>1, <2>2
  <1>5. Alike(c, d)
    BY <1>1, <1>2, <1>3, <1>4 DEF Alike
  <1> QED
    BY <1>5 DEF c, d

(* Statements that have words, which are not joined.                       *)
IsMeant(p)    == Words(p) # <<>> /\ WordsUnbroken(p)
AreMeant(ps)  == \A i \in 1..Len(ps) : IsMeant(ps[i])

(* Statements have words, and so had those that were written before.       *)
LEMMA MeantBefore ==
  ASSUME NEW X, NEW ps \in Seq(X), NEW p \in X, AreMeant(ps \o One(p))
  PROVE  AreMeant(ps) /\ IsMeant(p)
  <1> DEFINE u == ps \o One(p)
             n == Len(ps)
  <1>1. Len(u) = n + 1 /\ n \in Nat /\ (\A i \in 1..n : u[i] = ps[i]) /\ u[n + 1] = p
    BY Prolonged
  <1>2. AreMeant(u)
    OBVIOUS
  <1> HIDE DEF u, n
  <1>3. n + 1 \in 1..(n + 1) /\ \A i \in 1..n : i \in 1..(n + 1)
    BY <1>1
  <1> QED
    BY <1>1, <1>2, <1>3 DEF AreMeant, n

-----------------------------------------------------------------------------
(* A text that has been read as far as it is written.                      *)
State(T)    == GluedLines(Complete(T, "\n"))
LastLine(T) == Current(T, "\n")
SoFar(T)    == AppendLine(State(T), LastLine(T))
Led(p, t)   == \E b \in Seq(Spaced) : p = b \o t
Trailing    == Spaced \ {"\n"}

IsRead(T, S) ==
  /\ IsGlued(State(T), S)
  /\ Alike(SoFar(T).sqls, Complete(T, ";"))
  /\ ";" \in ToSet(LastLine(T)) => Open(T) /\ Current(T, ";") \in Seq(Trailing)
  /\ ";" \notin ToSet(LastLine(T)) =>
       Led(Unbroken(Current(T, ";")), State(T).s \o LastLine(T))

(* The parts of a text, when a character is added to it.                   *)
Parts(T, S) ==
  /\ Complete(T, "\n") \in Seq(Seq(S)) /\ LastLine(T) \in Seq(S)
  /\ "\n" \notin ToSet(LastLine(T))
  /\ Complete(T, ";") \in Seq(Seq(S)) /\ Current(T, ";") \in Seq(S)
  /\ ";" \notin ToSet(Current(T, ";"))

(* The lines and the statements of a text are texts.                       *)
LEMMA PartsOfText ==
  ASSUME NEW S, {";", "\n"} \subseteq S, NEW T \in Seq(S)
  PROVE  Parts(T, S)
  <1>1. ";" \in S /\ "\n" \in S
    OBVIOUS
  <1>2. Complete(T, "\n") \in Seq(Seq(S)) /\ LastLine(T) \in Seq(S)
        /\ "\n" \notin ToSet(LastLine(T))
    BY <1>1, OneMoreCharacter DEF LastLine
  <1>3. Complete(T, ";") \in Seq(Seq(S)) /\ Current(T, ";") \in Seq(S)
        /\ ";" \notin ToSet(Current(T, ";"))
    BY <1>1, OneMoreCharacter
  <1> QED
    BY <1>2, <1>3 DEF Parts

Broken(T, u) ==
  /\ State(u) = SoFar(T) /\ LastLine(u) = <<>>
  /\ Complete(u, ";") = Complete(T, ";") /\ Current(u, ";") = Current(T, ";") \o One("\n")
Ended1(T, u) ==
  /\ State(u) = State(T) /\ LastLine(u) = LastLine(T) \o One(";")
  /\ Complete(u, ";") = Complete(T, ";") \o One(Current(T, ";")) /\ Current(u, ";") = <<>>
Continued(T, x, u) ==
  /\ State(u) = State(T) /\ LastLine(u) = LastLine(T) \o One(x)
  /\ Complete(u, ";") = Complete(T, ";") /\ Current(u, ";") = Current(T, ";") \o One(x)

(* One more character changes the last line and the last statement only: a *)
(* line break ends the line, a semicolon the statement.                    *)
LEMMA PartsOn ==
  ASSUME NEW S, {";", "\n"} \subseteq S, NEW T \in Seq(S), NEW x \in S
  PROVE  /\ x = "\n" => Broken(T, T \o One(x))
         /\ x = ";" => Ended1(T, T \o One(x))
         /\ x \notin {";", "\n"} => Continued(T, x, T \o One(x))
  <1> DEFINE u == T \o One(x)
  <1>1. ";" \in S /\ "\n" \in S
    OBVIOUS
  <1>2. /\ x = "\n" => /\ Complete(u, "\n") = Complete(T, "\n") \o One(LastLine(T))
                       /\ LastLine(u) = <<>>
        /\ x # "\n" => /\ Complete(u, "\n") = Complete(T, "\n")
                       /\ LastLine(u) = LastLine(T) \o One(x)
    <2>1. (x = "\n" => NextPiece(T, "\n", x)) /\ (x # "\n" => SamePiece(T, "\n", x))
      BY <1>1, OneMoreCharacter
    <2> QED
      BY <2>1 DEF LastLine, NextPiece, SamePiece
  <1>3. /\ x = ";" => /\ Complete(u, ";") = Complete(T, ";") \o One(Current(T, ";"))
                       /\ Current(u, ";") = <<>>
        /\ x # ";" => /\ Complete(u, ";") = Complete(T, ";")
                       /\ Current(u, ";") = Current(T, ";") \o One(x)
    <2>1. (x = ";" => NextPiece(T, ";", x)) /\ (x # ";" => SamePiece(T, ";", x))
      BY <1>1, OneMoreCharacter
    <2> QED
      BY <2>1 DEF NextPiece, SamePiece
  <1>4. GluedLines(Complete(T, "\n") \o One(LastLine(T))) = SoFar(T)
    <2>1. Complete(T, "\n") \in Seq(Seq(S)) /\ LastLine(T) \in Seq(S)
      BY PartsOfText DEF Parts
    <2> QED
      BY <2>1, GluedOn DEF SoFar, State
  <1> HIDE DEF u
  <1>5. ASSUME x = "\n"
        PROVE  Broken(T, u)
    BY <1>2, <1>3, <1>4, <1>5 DEF Broken, State
  <1>6. ASSUME x = ";"
        PROVE  Ended1(T, u)
    BY <1>2, <1>3, <1>6 DEF Ended1, State
  <1>7. ASSUME x \notin {";", "\n"}
        PROVE  Continued(T, x, u)
    BY <1>2, <1>3, <1>7 DEF Continued, State
  <1> QED
    BY <1>5, <1>6, <1>7 DEF u

IsAlphabet(S) == {";", "\n"} \cup Spaced \subseteq S

(* After a line break what was read goes on, or begins again.              *)
LEMMA ReadBreak ==
  ASSUME NEW S, IsAlphabet(S), NEW T \in Seq(S), IsRead(T, S), NEW u, Broken(T, u)
  PROVE  IsRead(u, S)
  <1> DEFINE l == LastLine(T)
             r == State(T)
             a == SoFar(T)
             p == Current(T, ";")
             e == <<>>
  <1>0. {";", "\n"} \subseteq S /\ ";" \in S /\ "\n" \in S
    BY DEF IsAlphabet
  <1>1. l \in Seq(S) /\ p \in Seq(S) /\ "\n" \notin ToSet(l)
    BY <1>0, PartsOfText DEF Parts
  <1>2. IsGlued(r, S) /\ Alike(a.sqls, Complete(T, ";"))
    BY DEF IsRead
  <1>3. a = AppendLine(r, l)
    BY DEF SoFar
  <1>4. State(u) = a /\ LastLine(u) = e /\ Complete(u, ";") = Complete(T, ";")
        /\ Current(u, ";") = p \o One("\n")
    BY DEF Broken
  <1>5. e \in Seq(S) /\ ";" \notin ToSet(e)
    BY ElementsOfNone, EmptySeq
  <1>6. (";" \in ToSet(l) => p \in Seq(Trailing)) /\
        (";" \notin ToSet(l) => Led(Unbroken(p), r.s \o l))
    BY DEF IsRead
  <1>7. Unbroken(p \o One("\n")) = Unbroken(p)
    BY <1>0, <1>1, UnbrokenOn
  <1> HIDE DEF l, r, a, p, e
  <1>8. IsGlued(a, S)
    <2>1. CASE ";" \in ToSet(l)
      BY <1>1, <1>2, <1>3, <2>1, LineWith
    <2>2. CASE ";" \notin ToSet(l)
      BY <1>1, <1>2, <1>3, <2>2, LineWithout
    <2> QED
      BY <2>1, <2>2
  <1>9. SoFar(u).sqls = a.sqls
    <2>1. SoFar(u) = AppendLine(a, e)
      BY <1>4 DEF SoFar
    <2> QED
      BY <1>5, <1>8, <2>1, LineWithout
  <1>10. a.s \o e = a.s
    <2>1. a.s \in Seq(S)
      BY <1>8 DEF IsGlued
    <2> QED
      BY <2>1, ConcatEmptySeq DEF e
  <1>11. Led(Unbroken(p), a.s)
    <2>1. CASE ";" \in ToSet(l)
      <3>1. a.s = <<>>
        BY <1>1, <1>2, <1>3, <2>1, LineWith
      <3>2. p \in Seq(Trailing) /\ p \in Seq(Spaced)
        <4>1. p \in Seq(Trailing) /\ Trailing \subseteq Spaced
          BY <1>6, <2>1 DEF Trailing
        <4> QED
          BY <4>1, SeqMonotonic
      <3>3. Unbroken(p) = p
        <4>1. ToSet(p) \subseteq Trailing
          BY <3>2, ElementsOfText
        <4>2. p \in Seq(ToSet(p) \ {"\n"})
          <5>1. ToSet(p) \ {"\n"} = ToSet(p)
            BY <4>1 DEF Trailing
          <5>2. p \in Seq(ToSet(p))
            BY <3>2, ElementsOfText
          <5> QED
            BY <5>1, <5>2
        <4> QED
          BY <4>2, ThoseAll DEF Unbroken
      <3>4. p \o <<>> = p
        BY <3>2, ConcatEmptySeq
      <3>5. Unbroken(p) = p \o a.s
        BY <3>1, <3>3, <3>4
      <3> QED
        BY <3>2, <3>5 DEF Led
    <2>2. CASE ";" \notin ToSet(l)
      <3>1. a.s = r.s \o l
        BY <1>1, <1>2, <1>3, <2>2, LineWithout
      <3> QED
        BY <1>6, <2>2, <3>1
    <2> QED
      BY <2>1, <2>2
  <1>12. Led(Unbroken(Current(u, ";")), State(u).s \o LastLine(u))
    BY <1>4, <1>7, <1>10, <1>11
  <1> QED
    BY <1>2, <1>4, <1>5, <1>8, <1>9, <1>12 DEF IsRead

(* The empty text has no words.                                            *)
LEMMA WordsOfNone == Words(<<>>) = <<>>
  <1> DEFINE e == <<>>
  <1>1. e \in Seq({}) /\ Len(e) = 0
    OBVIOUS
  <1> HIDE DEF e
  <1>2. Words(e) = FlattenSeq(WordsFrom(e)) /\ Len(WordsFrom(e)) = 0
        /\ WordsFrom(e) \in Seq(Seq(Seq({})))
    BY <1>1, WordsAreThose
  <1>3. WordsFrom(e) = <<>>
    BY <1>2, EmptySeq
  <1>4. FlattenSeq(<<>>) = <<>>
    BY DEF FlattenSeq
  <1> QED
    BY <1>2, <1>3, <1>4 DEF e

(* A ";" gives the words before it.                                        *)
LEMMA ReadEnd ==
  ASSUME NEW S, IsAlphabet(S), NEW T \in Seq(S), IsRead(T, S), NEW u, Ended1(T, u),
         ";" \notin ToSet(LastLine(T)), IsMeant(Current(T, ";")), Open(u)
  PROVE  IsRead(u, S)
  <1> DEFINE l == LastLine(T)
             r == State(T)
             p == Current(T, ";")
             t == r.s \o l
             m == l \o One(";")
  <1>0. {";", "\n"} \subseteq S /\ ";" \in S /\ "\n" \in S /\ Spaced \subseteq S
    BY DEF IsAlphabet
  <1>1. l \in Seq(S) /\ p \in Seq(S) /\ ";" \notin ToSet(p) /\ Complete(T, ";") \in Seq(Seq(S))
    BY <1>0, PartsOfText DEF Parts
  <1>2. IsGlued(r, S) /\ r.s \in Seq(S) /\ r.sqls \in Seq(Seq(S))
    BY DEF IsRead, IsGlued
  <1>3. SoFar(T).sqls = r.sqls
    BY <1>1, <1>2, LineWithout DEF SoFar
  <1>4. State(u) = r /\ LastLine(u) = m /\ Complete(u, ";") = Complete(T, ";") \o One(p)
        /\ Current(u, ";") = <<>>
    BY DEF Ended1
  <1>5. m \in Seq(S) /\ ";" \in ToSet(m)
    <2>1. m \in Seq(S) /\ One(";") \in Seq(S) /\ ToSet(One(";")) = {";"}
      BY <1>0, <1>1, Prolonged, OneIsText
    <2>2. SameElements(l, One(";"))
      BY <1>1, <2>1, ElementsJoined
    <2> QED
      BY <2>1, <2>2 DEF SameElements
  <1>6. Led(Unbroken(p), t)
    BY DEF IsRead
  <1>7. Alike(r.sqls, Complete(T, ";"))
    BY <1>3 DEF IsRead
  <1>8. PICK b \in Seq(Spaced) : Unbroken(p) = b \o t
    BY <1>6 DEF Led
  <1>9. t \in Seq(S) /\ Words(t) = Words(p) /\ Words(p) # <<>>
    <2>1. t \in Seq(S)
      BY <1>1, <1>2, ConcatProperties
    <2> HIDE DEF t
    <2>2. Words(b \o t) = Words(t)
      BY <1>0, <2>1, BlanksBefore
    <2>3. Words(p) # <<>> /\ Words(Unbroken(p)) = Words(p)
      BY DEF IsMeant, WordsUnbroken
    <2> QED
      BY <1>8, <2>1, <2>2, <2>3
  <1>10. ";" \notin ToSet(t)
    <2>1. ";" \notin ToSet(Unbroken(p))
      BY <1>1, UnbrokenText
    <2>2. b \in Seq(S)
      BY <1>0, SeqMonotonic
    <2> HIDE DEF t
    <2>3. SameElements(b, t)
      BY <1>9, <2>2, ElementsJoined
    <2> QED
      BY <1>8, <2>1, <2>3 DEF SameElements
  <1>11. t # <<>>
    <2>1. Words(<<>>) = <<>>
      BY WordsOfNone
    <2> HIDE DEF t
    <2> QED
      BY <1>9, <2>1
  <1>12. Ending(r, m) = t
    <2>1. SameGrouped(r.s, l, ";")
      BY <1>0, <1>1, <1>2, RegroupedOne
    <2>2. r.s \o m = t \o One(";")
      BY <2>1 DEF SameGrouped
    <2> HIDE DEF t, m
    <2>3. rtrim(t \o One(";")) = t \o One(";")
      <3>1. ~IsSpace(";")
        BY DEF IsSpace
      <3> QED
        BY <1>0, <1>9, <3>1, NoBlankBehind
    <2>4. rtrimc(t \o One(";"), ";") = t
      BY <1>0, <1>9, <1>10, <1>11, EndingTaken
    <2> QED
      BY <2>2, <2>3, <2>4 DEF Ending
  <1> HIDE DEF t, m, p, r, l
  <1>13. SoFar(u).sqls = r.sqls \o One(t)
    <2>1. SoFar(u) = AppendLine(r, m)
      BY <1>4 DEF SoFar
    <2>2. AppendLine(r, m).sqls = r.sqls \o One(Ending(r, m))
      BY <1>2, <1>5, LineWith
    <2> QED
      BY <1>12, <2>1, <2>2
  <1>14. Alike(r.sqls \o One(t), Complete(T, ";") \o One(p))
    <2> DEFINE X == Seq(S)
               c == Complete(T, ";")
               d == r.sqls
    <2>1. t \in X /\ p \in X /\ c \in Seq(X) /\ d \in Seq(X) /\ Alike(d, c) /\ Words(t) = Words(p)
      BY <1>1, <1>2, <1>7, <1>9
    <2> HIDE DEF X, c, d
    <2>2. Alike(d \o One(t), c \o One(p))
      BY <2>1, AlikeOn
    <2> QED
      BY <2>2 DEF c, d
  <1>15. <<>> \in Seq(Trailing)
    BY EmptySeq
  <1> QED
    BY <1>2, <1>4, <1>5, <1>13, <1>14, <1>15 DEF IsRead

(* Another character.                                                      *)
LEMMA ReadOther ==
  ASSUME NEW S, IsAlphabet(S), NEW T \in Seq(S), IsRead(T, S), NEW x \in S, x \notin {";", "\n"},
         NEW u, Continued(T, x, u), ";" \in ToSet(LastLine(T)) => IsSpace(x) /\ Open(u)
  PROVE  IsRead(u, S)
  <1> DEFINE l == LastLine(T)
             r == State(T)
             p == Current(T, ";")
             m == l \o One(x)
  <1>0. {";", "\n"} \subseteq S /\ ";" \in S /\ "\n" \in S /\ Spaced \subseteq S
    BY DEF IsAlphabet
  <1>1. l \in Seq(S) /\ p \in Seq(S) /\ ";" \notin ToSet(p) /\ Complete(T, ";") \in Seq(Seq(S))
    BY <1>0, PartsOfText DEF Parts
  <1>2. IsGlued(r, S) /\ r.s \in Seq(S) /\ r.sqls \in Seq(Seq(S))
    BY DEF IsRead, IsGlued
  <1>4. State(u) = r /\ LastLine(u) = m /\ Complete(u, ";") = Complete(T, ";")
        /\ Current(u, ";") = p \o One(x)
    BY DEF Continued
  <1>5. m \in Seq(S) /\ (";" \in ToSet(m) <=> ";" \in ToSet(l))
    <2>1. m \in Seq(S) /\ One(x) \in Seq(S) /\ ToSet(One(x)) = {x}
      BY <1>1, Prolonged, OneIsText
    <2>2. SameElements(l, One(x))
      BY <1>1, <2>1, ElementsJoined
    <2> QED
      BY <2>1, <2>2 DEF SameElements
  <1>6. Alike(SoFar(T).sqls, Complete(T, ";"))
        /\ (";" \in ToSet(l) => p \in Seq(Trailing))
        /\ (";" \notin ToSet(l) => Led(Unbroken(p), r.s \o l))
    BY DEF IsRead
  <1>7. SoFar(T) = AppendLine(r, l) /\ SoFar(u) = AppendLine(r, m)
    BY <1>4 DEF SoFar
  <1>8. SameGrouped(r.s, l, x)
    BY <1>1, <1>2, RegroupedOne
  <1>9. r.s \o m = (r.s \o l) \o One(x) /\ r.s \o l \in Seq(S)
    BY <1>1, <1>2, <1>8, ConcatProperties DEF SameGrouped
  <1>10. CASE ";" \in ToSet(l)
    <2>0. IsSpace(x) /\ Open(u)
      BY <1>10
    <2>1. Ending(r, m) = Ending(r, l)
      <3> DEFINE t == r.s \o l
      <3>1. t \in Seq(S) /\ r.s \o m = t \o One(x)
        BY <1>9
      <3> HIDE DEF t, m
      <3>2. rtrim(t \o One(x)) = rtrim(t)
        BY <2>0, <3>1, BlankBehind
      <3> QED
        BY <3>1, <3>2 DEF Ending, t
    <2> HIDE DEF m, l, r, p
    <2>2. AppendLine(r, l).sqls = r.sqls \o One(Ending(r, l))
      BY <1>1, <1>2, <1>10, LineWith
    <2>3. AppendLine(r, m).sqls = r.sqls \o One(Ending(r, m))
      BY <1>2, <1>5, <1>10, LineWith
    <2>4. SoFar(u).sqls = SoFar(T).sqls
      BY <1>7, <2>1, <2>2, <2>3
    <2>5. p \o One(x) \in Seq(Trailing)
      <3>1. x \in Trailing
        BY <2>0 DEF IsSpace, Trailing, Spaced
      <3>2. p \in Seq(Trailing)
        BY <1>6, <1>10
      <3> QED
        BY <3>1, <3>2, Prolonged
    <2> QED
      BY <1>2, <1>4, <1>5, <1>6, <1>10, <2>0, <2>4, <2>5 DEF IsRead
  <1>11. CASE ";" \notin ToSet(l)
    <2>1. SoFar(u).sqls = SoFar(T).sqls
      <3> HIDE DEF m, l, r, p
      <3>1. AppendLine(r, l).sqls = r.sqls
        BY <1>1, <1>2, <1>11, LineWithout
      <3>2. AppendLine(r, m).sqls = r.sqls
        BY <1>2, <1>5, <1>11, LineWithout
      <3> QED
        BY <1>7, <3>1, <3>2
    <2>2. PICK b \in Seq(Spaced) : Unbroken(p) = b \o (r.s \o l)
      BY <1>6, <1>11 DEF Led
    <2>3. Unbroken(p \o One(x)) = Unbroken(p) \o One(x)
      BY <1>1, UnbrokenOn
    <2>4. (b \o (r.s \o l)) \o One(x) = b \o ((r.s \o l) \o One(x))
      <3> DEFINE t == r.s \o l
      <3>1. t \in Seq(S) /\ b \in Seq(S)
        BY <1>0, <1>9, SeqMonotonic
      <3> HIDE DEF t
      <3>2. SameGrouped(b, t, x)
        BY <3>1, RegroupedOne
      <3> QED
        BY <3>2 DEF SameGrouped, t
    <2>5. Unbroken(p \o One(x)) = b \o (r.s \o m)
      BY <1>9, <2>2, <2>3, <2>4
    <2>6. Led(Unbroken(p \o One(x)), r.s \o m)
      BY <2>5 DEF Led
    <2> HIDE DEF m, l, r, p
    <2> QED
      BY <1>2, <1>4, <1>5, <1>6, <1>11, <2>1, <2>6 DEF IsRead
  <1> QED
    BY <1>10, <1>11

(* Every text of which each ";" is the last of its line is read.           *)
Legible(T) == Tidy(T) /\ AreMeant(Complete(T, ";"))

(* Every text has been read as far as it is written; by induction over the *)
(* text.                                                                   *)
LEMMA TextsAreRead ==
  ASSUME NEW S, IsAlphabet(S), NEW T \in Seq(S), Legible(T)
  PROVE  IsRead(T, S)
  <1> DEFINE P == {u \in Seq(S) : Legible(u) => IsRead(u, S)}
  <1>0. {";", "\n"} \subseteq S /\ ";" \in S /\ "\n" \in S
    BY DEF IsAlphabet
  <1>1. <<>> \in P
    <2> DEFINE e == <<>>
    <2>1. e \in Seq(S) /\ e \in Seq(Seq(S)) /\ ";" \notin ToSet(e) /\ Len(e) = 0 /\ e \in Seq(Spaced)
      BY ElementsOfNone, EmptySeq
    <2>2. Complete(e, "\n") = e /\ LastLine(e) = e /\ Complete(e, ";") = e /\ Current(e, ";") = e
      BY NoCharacter DEF LastLine
    <2>3. State(e) = NoLine
      BY <2>2, GluedNone DEF State
    <2>4. NoLine.s = e /\ NoLine.sqls = e /\ IsGlued(NoLine, S)
      BY <2>1 DEF NoLine, IsGlued
    <2>5. Unbroken(e) = e
      BY ThoseOfNone DEF Unbroken
    <2>6. e \o e = e
      OBVIOUS
    <2> HIDE DEF e
    <2>7. SoFar(e).sqls = e
      BY <2>1, <2>2, <2>3, <2>4, LineWithout DEF SoFar
    <2>8. Alike(e, e)
      BY <2>1 DEF Alike
    <2>9. Led(e, e)
      BY <2>1, <2>6 DEF Led
    <2>10. IsRead(e, S)
      BY <2>1, <2>2, <2>3, <2>4, <2>5, <2>6, <2>7, <2>8, <2>9 DEF IsRead
    <2>11. e \in P
      BY <2>1, <2>10
    <2> QED
      BY <2>11 DEF e
  <1>2. ASSUME NEW v \in P, NEW x \in S
        PROVE  v \o <<x>> \in P
    <2> DEFINE u == v \o One(x)
    <2>1. v \in Seq(S) /\ (Legible(v) => IsRead(v, S))
      OBVIOUS
    <2> HIDE DEF P
    <2>2. u \in Seq(S) /\ u = v \o <<x>>
      BY <2>1, Prolonged DEF One
    <2> SUFFICES ASSUME Legible(u)
                 PROVE  IsRead(u, S)
      BY <2>2 DEF P
    <2>3. Tidy(u) /\ AreMeant(Complete(u, ";"))
      BY DEF Legible
    <2>4. Tidy(v)
      BY <2>1, <2>3, TidyBefore
    <2>5. /\ x = "\n" => Broken(v, u)
          /\ x = ";" => Ended1(v, u)
          /\ x \notin {";", "\n"} => Continued(v, x, u)
      BY <1>0, <2>1, PartsOn
    <2>6. /\ x # "\n" => (Open(v) \/ x = ";" => Open(u))
          /\ x # "\n" => (Open(v) /\ Tidy(u) => IsSpace(x))
      BY <2>1, OpenOn
    <2>7. Complete(v, ";") \in Seq(Seq(S)) /\ Current(v, ";") \in Seq(S)
      BY <1>0, <2>1, PartsOfText DEF Parts
    <2> HIDE DEF u
    <2>8. CASE x = "\n"
      <3>1. Broken(v, u) /\ Complete(u, ";") = Complete(v, ";")
        BY <2>5, <2>8 DEF Broken
      <3>2. IsRead(v, S)
        BY <2>1, <2>3, <2>4, <3>1 DEF Legible
      <3> QED
        BY <2>1, <3>1, <3>2, ReadBreak
    <2>9. CASE x = ";"
      <3>1. Ended1(v, u) /\ Complete(u, ";") = Complete(v, ";") \o One(Current(v, ";"))
        BY <2>5, <2>9 DEF Ended1
      <3>2. AreMeant(Complete(v, ";")) /\ IsMeant(Current(v, ";"))
        BY <2>3, <2>7, <3>1, MeantBefore
      <3>3. IsRead(v, S)
        BY <2>1, <2>4, <3>2 DEF Legible
      <3>4. Open(u) /\ ~Open(v)
        <4>1. ~IsSpace(x)
          BY <2>9 DEF IsSpace
        <4> QED
          BY <2>3, <2>6, <2>9, <4>1
      <3>5. ";" \notin ToSet(LastLine(v))
        BY <3>3, <3>4 DEF IsRead
      <3> QED
        BY <2>1, <3>1, <3>2, <3>3, <3>4, <3>5, ReadEnd
    <2>10. CASE x \notin {";", "\n"}
      <3>1. Continued(v, x, u) /\ Complete(u, ";") = Complete(v, ";")
        BY <2>5, <2>10 DEF Continued
      <3>2. IsRead(v, S)
        BY <2>1, <2>3, <2>4, <3>1 DEF Legible
      <3>3. ";" \in ToSet(LastLine(v)) => IsSpace(x) /\ Open(u)
        BY <2>3, <2>6, <2>10, <3>2 DEF IsRead
      <3> QED
        BY <2>1, <2>10, <3>1, <3>2, <3>3, ReadOther
    <2> QED
      BY <2>8, <2>9, <2>10
  <1>3. P = Seq(S)
    <2>1. P \in SUBSET Seq(S)
      OBVIOUS
    <2> HIDE DEF P
    <2> QED
      BY <1>1, <1>2, <2>1, AppendInduction
  <1>4. T \in P
    BY <1>3
  <1> QED
    BY <1>4

Alphabet == Characters \cup {";", "\n"} \cup Spaced
SqlText == sql \in Seq(Alphabet)

(* Of a text that is read as it is written, the statements are read as     *)
(* they are meant.                                                         *)
LEMMA StatementsOfText ==
  ASSUME SqlText
  PROVE  StatementsAreRead
  <1> DEFINE ls == Complete(sql, "\n")
             l == LastLine(sql)
  <1>0. sql \in Seq(Alphabet) /\ IsAlphabet(Alphabet) /\ "\n" \in Alphabet /\ ";" \in Alphabet
    BY DEF SqlText, IsAlphabet, Alphabet
  <1> SUFFICES ASSUME EndsOfLines,
                      \A i \in 1..Len(Ended(sql, ";")) :
                        Words(Ended(sql, ";")[i]) # <<>> /\ WordsUnbroken(Ended(sql, ";")[i])
               PROVE  Alike(AppendSqlFromFile(sql), Ended(sql, ";"))
    BY DEF StatementsAreRead, Alike
  <1>1. Ended(sql, ";") = Complete(sql, ";")
    BY DEF Ended, Complete
  <1>2. Legible(sql)
    BY <1>1 DEF Legible, AreMeant, IsMeant, Tidy, EndsOfLines
  <1> HIDE DEF Alphabet
  <1>3. IsRead(sql, Alphabet)
    BY <1>0, <1>2, TextsAreRead
  <1>4. Alike(SoFar(sql).sqls, Complete(sql, ";")) /\ IsGlued(State(sql), Alphabet)
    BY <1>3 DEF IsRead
  <1>5. SoFar(sql) = AppendLine(GluedLines(ls), l)
    BY DEF SoFar, State
  <1>6. ls \in Seq(Seq(Alphabet)) /\ l \in Seq(Alphabet) /\ Cut(sql, <<"\n">>) = ls \o One(l)
    BY <1>0, OneMoreCharacter DEF LastLine
  <1>7. Front(ls \o One(l)) = ls /\ Last(ls \o One(l)) = l
    BY <1>6, Prolonged
  <1>8. Lines(sql) = IF l = <<>> THEN ls ELSE ls \o One(l)
    BY <1>6, <1>7 DEF Lines, Pieces
  <1>9. IsGlued(GluedLines(ls), Alphabet)
    BY <1>4 DEF State
  <1>10. AppendSqlFromFile(sql) = GluedLines(Lines(sql)).sqls
    BY DEF AppendSqlFromFile, GluedLines
  <1> HIDE DEF ls, l
  <1>11. GluedLines(Lines(sql)).sqls = SoFar(sql).sqls
    <2>1. CASE l = <<>>
      <3>1. ";" \notin ToSet(l)
        BY <2>1, ElementsOfNone
      <3>2. AppendLine(GluedLines(ls), l).sqls = GluedLines(ls).sqls
        BY <1>6, <1>9, <3>1, LineWithout
      <3> QED
        BY <1>5, <1>8, <2>1, <3>2
    <2>2. CASE l # <<>>
      <3>1. GluedLines(ls \o One(l)) = AppendLine(GluedLines(ls), l)
        BY <1>6, GluedOn
      <3> QED
        BY <1>5, <1>8, <2>2, <3>1
    <2> QED
      BY <2>1, <2>2
  <1> QED
    BY <1>1, <1>4, <1>10, <1>11

(* Of every text in which each semicolon ends its line, and words are not  *)
(* joined by breaking a line, AppendSqlFromFile                            *)
(* (looka_config_source.cpp:69-93) gives the statements before the         *)
(* semicolons, word by word and in their order.                            *)
THEOREM StatementsCorrect == SqlSpec => []StatementsAreRead
  <1>1. SqlInit => SqlText
    BY EmptySeq DEF SqlInit, SqlText
  <1>2. SqlText /\ [SqlNext]_sql => SqlText'
    <2> SUFFICES ASSUME SqlText, [SqlNext]_sql
                 PROVE  SqlText'
      OBVIOUS
    <2>1. CASE SqlNext
      <3>1. PICK c \in Characters : sql' = Append(sql, c)
        BY <2>1 DEF SqlNext, WriteCharacter
      <3>2. c \in Alphabet
        BY DEF Alphabet
      <3>3. Append(sql, c) \in Seq(Alphabet)
        BY <3>2, AppendProperties DEF SqlText
      <3> QED
        BY <3>1, <3>3 DEF SqlText
    <2>2. CASE UNCHANGED sql
      BY <2>2 DEF SqlText
    <2> QED
      BY <2>1, <2>2
  <1>3. SqlText => StatementsAreRead
    BY StatementsOfText
  <1> QED
    BY <1>1, <1>2, <1>3, PTL DEF SqlSpec

-----------------------------------------------------------------------------
(* The bytes that a client means.  None of those that it escaped is taken  *)
(* for a separator.                                                        *)
Clean == {b \in 0..511 : b >= 256 => b - 256 \notin LeftEscaped}
Low   == [b \in Clean |-> b % 256]

(* A byte without the mark that it was escaped is a byte.                  *)
LEMMA LowMaps ==
  /\ Maps(Low, Clean, 0..255)
  /\ \A b \in Clean : Low[b] = b % 256 /\ Low[b] = IF b < 256 THEN b ELSE b - 256
  <1>1. \A b \in 0..511 : b % 256 = IF b < 256 THEN b ELSE b - 256
    OBVIOUS
  <1>2. \A b \in Clean : b \in 0..511
    BY DEF Clean
  <1>3. \A b \in Clean : b % 256 \in 0..255
    BY <1>1, <1>2
  <1> QED
    BY <1>1, <1>2, <1>3 DEF Low, Maps

(* No byte becomes a separator by losing that mark.                        *)
LEMMA LowMarks ==
  ASSUME NEW c \in LeftEscaped
  PROVE  Marks(Low, Clean, c, c) /\ c \in Clean /\ c \in 0..255
  <1>1. c \in 0..255
    BY DEF LeftEscaped, Digits, Letters
  <1>2. ASSUME NEW b \in Clean
        PROVE  Low[b] = c <=> b = c
    <2>1. b \in 0..511 /\ (b >= 256 => b - 256 # c)
      BY DEF Clean
    <2>2. Low[b] = IF b < 256 THEN b ELSE b - 256
      BY LowMaps
    <2> HIDE DEF Clean, Low
    <2> QED
      BY <1>1, <2>1, <2>2
  <1>3. c \in Clean
    BY <1>1 DEF Clean
  <1> QED
    BY <1>1, <1>2, <1>3 DEF Marks

(* The separators that the code splits at are not unescaped.               *)
LEMMA SeparatorsStay ==
  /\ Ch.ampersand \in LeftEscaped /\ Ch.comma \in LeftEscaped /\ Ch.colon \in LeftEscaped
  /\ Ch.semicolon \in LeftEscaped /\ Ch.equals \in LeftEscaped
  BY DEF Ch, LeftEscaped

(* Plain replaces each byte.                                               *)
LEMMA PlainIsMapped ==
  ASSUME NEW s \in Seq(Clean)
  PROVE  Plain(s) = Mapped(Low, s) /\ Mapped(Low, s) \in Seq(0..255)
  <1>1. \A i \in 1..Len(s) : s[i] \in Clean /\ Low[s[i]] = s[i] % 256
    BY ElementOfSeq, LowMaps
  <1>2. Plain(s) = Mapped(Low, s)
    BY <1>1 DEF Plain, Mapped
  <1>3. Mapped(Low, s) \in Seq(0..255)
    BY LowMaps, MappedIsText
  <1> QED
    BY <1>2, <1>3

(* Where nothing was escaped there is nothing to replace.                  *)
LEMMA PlainOfPlain ==
  ASSUME NEW s \in Seq(0..255)
  PROVE  Plain(s) = s /\ s \in Seq(Clean)
  <1>1. \A i \in 1..Len(s) : s[i] \in 0..255
    BY ElementOfSeq
  <1>2. \A i \in 1..Len(s) : s[i] % 256 = s[i]
    <2>1. \A b \in 0..255 : b % 256 = b
      OBVIOUS
    <2> QED
      BY <1>1, <2>1
  <1>3. s = [i \in 1..Len(s) |-> s[i]]
    OBVIOUS
  <1>4. Plain(s) = s
    BY <1>2, <1>3 DEF Plain
  <1>5. 0..255 \subseteq Clean
    BY DEF Clean
  <1>6. Len(s) \in Nat /\ \A i \in 1..Len(s) : s[i] \in Clean
    BY <1>1, <1>5, LenProperties
  <1>7. s \in Seq(Clean)
    BY <1>3, <1>6
  <1> QED
    BY <1>4, <1>7

-----------------------------------------------------------------------------
(* What is stripped and what is split does not depend on what was escaped. *)
Seen(s, blanks) == {i \in 1..Len(s) : s[i] % 256 \notin blanks}

(* What is stripped is outside of the first and the last byte to be seen.  *)
LEMMA StrippedPart ==
  ASSUME NEW S, NEW s \in Seq(S), NEW blanks
  PROVE  /\ Seen(s, blanks) = {} => Stripped(s, blanks) = <<>>
         /\ Seen(s, blanks) # {} =>
              /\ Stripped(s, blanks) = SubSeq(s, Min(Seen(s, blanks)), Max(Seen(s, blanks)))
              /\ Min(Seen(s, blanks)) \in Seen(s, blanks) /\ Max(Seen(s, blanks)) \in Seen(s, blanks)
              /\ \A i \in Seen(s, blanks) : Min(Seen(s, blanks)) <= i /\ i <= Max(Seen(s, blanks))
  <1> DEFINE M == Seen(s, blanks)
             L == Len(s)
  <1>1. L \in Nat
    BY LenProperties
  <1>2. M \in SUBSET (1..L)
    BY DEF Seen
  <1>3. Stripped(s, blanks) = IF M = {} THEN <<>> ELSE SubSeq(s, Min(M), Max(M))
    BY DEF Stripped, Seen
  <1> HIDE DEF M, L
  <1>4. M \in SUBSET Nat /\ M \in SUBSET (0..L)
    BY <1>1, <1>2
  <1>5. M # {} => /\ Min(M) \in M /\ \A i \in M : Min(M) <= i
                  /\ Max(M) \in M /\ \A i \in M : i <= Max(M)
    BY <1>1, <1>4, MinIsLeast, MaxIsGreatest
  <1> QED
    BY <1>3, <1>5 DEF M

(* What is stripped leaves a text.                                         *)
LEMMA StrippedIsText ==
  ASSUME NEW S, NEW s \in Seq(S), NEW blanks
  PROVE  Stripped(s, blanks) \in Seq(S)
  <1> DEFINE M == Seen(s, blanks)
             m == Min(M)
             n == Max(M)
  <1>1. CASE M = {}
    <2>1. Stripped(s, blanks) = <<>>
      BY <1>1, StrippedPart
    <2> QED
      BY <2>1
  <1>2. CASE M # {}
    <2>1. /\ Stripped(s, blanks) = SubSeq(s, m, n) /\ m \in M /\ n \in M /\ m <= n
      BY <1>2, StrippedPart
    <2>2. \A i \in M : i \in 1..Len(s)
      BY DEF Seen
    <2> HIDE DEF M, m, n
    <2>3. m \in 1..(Len(s) + 1) /\ n \in Nat /\ m - 1 <= n /\ n <= Len(s)
      BY <2>1, <2>2, LenProperties
    <2> QED
      BY <2>1, <2>3, PartIsText
  <1> QED
    BY <1>1, <1>2

(* Stripping does not depend on what was escaped.                          *)
LEMMA StrippedMapped ==
  ASSUME NEW s \in Seq(Clean), NEW blanks
  PROVE  Stripped(Mapped(Low, s), blanks) = Mapped(Low, Stripped(s, blanks))
  <1> DEFINE g == Mapped(Low, s)
             M == Seen(s, blanks)
             m == Min(M)
             n == Max(M)
  <1>0. Maps(Low, Clean, 0..255)
    BY LowMaps
  <1>1. g \in Seq(0..255) /\ Len(g) = Len(s) /\ \A i \in 1..Len(s) : g[i] = Low[s[i]]
    BY <1>0, MappedIsText
  <1>2. \A i \in 1..Len(s) : g[i] % 256 = s[i] % 256
    <2> TAKE i \in 1..Len(s)
    <2>1. s[i] \in Clean
      BY ElementOfSeq
    <2> DEFINE b == s[i]
    <2>2. Low[b] = b % 256 /\ b \in 0..511
      BY <2>1, LowMaps DEF Clean
    <2>3. g[i] = Low[b]
      BY <1>1
    <2> HIDE DEF b, g
    <2>4. (b % 256) % 256 = b % 256
      BY <2>2
    <2> QED
      BY <2>2, <2>3, <2>4 DEF b
  <1>3. Seen(g, blanks) = M
    BY <1>1, <1>2 DEF Seen
  <1> HIDE DEF g
  <1>4. CASE M = {}
    <2>1. Stripped(g, blanks) = <<>> /\ Stripped(s, blanks) = <<>>
      BY <1>1, <1>3, <1>4, StrippedPart
    <2> QED
      BY <2>1, MappedOfNone DEF g
  <1>5. CASE M # {}
    <2>1. /\ Stripped(s, blanks) = SubSeq(s, m, n) /\ m \in M /\ n \in M /\ m <= n
      BY <1>5, StrippedPart
    <2>2. Stripped(g, blanks) = SubSeq(g, m, n)
      BY <1>1, <1>3, <1>5, StrippedPart
    <2>3. \A i \in M : i \in 1..Len(s)
      BY DEF Seen
    <2> HIDE DEF M, m, n
    <2>4. m \in 1..(Len(s) + 1) /\ n \in Nat /\ m - 1 <= n /\ n <= Len(s)
      BY <2>1, <2>3, LenProperties
    <2>5. SubSeq(Mapped(Low, s), m, n) = Mapped(Low, SubSeq(s, m, n))
      BY <1>0, <2>4, PartMapped
    <2> QED
      BY <2>1, <2>2, <2>5 DEF g
  <1> QED
    BY <1>4, <1>5

(* The text up to the first NUL.                                           *)
Nuls(s)  == {i \in 1..Len(s) : s[i] % 256 = Nul}
Valid(s) == IF Nuls(s) = {} THEN s ELSE SubSeq(s, 1, Min(Nuls(s)) - 1)

(* Neither does it where a C string ends.                                  *)
LEMMA ValidMapped ==
  ASSUME NEW s \in Seq(Clean)
  PROVE  /\ Valid(Mapped(Low, s)) = Mapped(Low, Valid(s))
         /\ Valid(s) \in Seq(Clean)
  <1> DEFINE g == Mapped(Low, s)
             M == Nuls(s)
             n == Min(M) - 1
  <1>0. Maps(Low, Clean, 0..255)
    BY LowMaps
  <1>1. g \in Seq(0..255) /\ Len(g) = Len(s) /\ \A i \in 1..Len(s) : g[i] = Low[s[i]]
    BY <1>0, MappedIsText
  <1>2. \A i \in 1..Len(s) : g[i] % 256 = s[i] % 256
    <2> TAKE i \in 1..Len(s)
    <2>1. s[i] \in Clean
      BY ElementOfSeq
    <2> DEFINE b == s[i]
    <2>2. Low[b] = b % 256 /\ b \in 0..511
      BY <2>1, LowMaps DEF Clean
    <2>3. g[i] = Low[b]
      BY <1>1
    <2> HIDE DEF b, g
    <2>4. (b % 256) % 256 = b % 256
      BY <2>2
    <2> QED
      BY <2>2, <2>3, <2>4 DEF b
  <1>3. Nuls(g) = M
    BY <1>1, <1>2 DEF Nuls
  <1> HIDE DEF g
  <1>4. CASE M = {}
    BY <1>3, <1>4 DEF Valid, g
  <1>5. CASE M # {}
    <2>1. Valid(s) = SubSeq(s, 1, n) /\ Valid(g) = SubSeq(g, 1, n)
      BY <1>3, <1>5 DEF Valid
    <2>2. Min(M) \in M
      <3>1. M \in SUBSET Nat
        BY DEF Nuls
      <3> HIDE DEF M
      <3> QED
        BY <1>5, <3>1, MinIsLeast
    <2>3. Min(M) \in 1..Len(s)
      BY <2>2 DEF Nuls
    <2>4. 1 \in 1..(Len(s) + 1) /\ n \in Nat /\ 1 - 1 <= n /\ n <= Len(s)
      <3> DEFINE m == Min(M)
      <3>1. m \in 1..Len(s) /\ n = m - 1 /\ Len(s) \in Nat
        BY <2>3, LenProperties
      <3> HIDE DEF m, n
      <3> QED
        BY <3>1
    <2> HIDE DEF M, n
    <2>5. SubSeq(Mapped(Low, s), 1, n) = Mapped(Low, SubSeq(s, 1, n))
      BY <1>0, <2>4, PartMapped
    <2>6. SubSeq(s, 1, n) \in Seq(Clean)
      BY <2>4, PartIsText
    <2> QED
      BY <2>1, <2>5, <2>6 DEF g
  <1> QED
    BY <1>4, <1>5

(* Pieces without the blanks around them.                                  *)
Trimmed(A) == [u \in Seq(A) |-> trim(u)]

(* trim is a mapping of texts.                                             *)
LEMMA TrimmedMaps ==
  ASSUME NEW A
  PROVE  /\ Maps(Trimmed(A), Seq(A), Seq(A))
         /\ \A u \in Seq(A) : Trimmed(A)[u] = trim(u) /\ trim(u) \in Seq(A)
  <1>1. \A u \in Seq(A) : trim(u) \in Seq(A)
    BY StrippedIsText DEF trim
  <1> QED
    BY <1>1 DEF Trimmed, Maps

(* trim does not depend on what was escaped.                               *)
LEMMA trimMapped ==
  ASSUME NEW s \in Seq(Clean)
  PROVE  trim(Mapped(Low, s)) = Mapped(Low, trim(s)) /\ trim(s) \in Seq(Clean)
  BY StrippedMapped, StrippedIsText DEF trim

LowEach == Each(Low, Clean)

(* Replacing in each piece is a mapping of texts.                          *)
LEMMA LowEachMaps ==
  /\ Maps(LowEach, Seq(Clean), Seq(0..255))
  /\ \A u \in Seq(Clean) : LowEach[u] = Mapped(Low, u) /\ Mapped(Low, u) \in Seq(0..255)
  BY LowMaps, EachMaps DEF LowEach

(* Elements replaced twice.                                                *)
LEMMA MappedTwice ==
  ASSUME NEW A, NEW B, NEW C, NEW D, NEW f, Maps(f, A, B), NEW g, Maps(g, B, D),
         NEW h, Maps(h, A, C), NEW k, Maps(k, C, D),
         NEW s \in Seq(A), \A x \in A : g[f[x]] = k[h[x]]
  PROVE  Mapped(g, Mapped(f, s)) = Mapped(k, Mapped(h, s))
  <1>1. /\ Mapped(f, s) \in Seq(B) /\ Len(Mapped(f, s)) = Len(s)
        /\ \A i \in 1..Len(s) : Mapped(f, s)[i] = f[s[i]]
    BY MappedIsText
  <1>2. /\ Mapped(h, s) \in Seq(C) /\ Len(Mapped(h, s)) = Len(s)
        /\ \A i \in 1..Len(s) : Mapped(h, s)[i] = h[s[i]]
    BY MappedIsText
  <1>3. \A i \in 1..Len(s) : s[i] \in A
    BY ElementOfSeq
  <1> DEFINE p == Mapped(f, s)
             q == Mapped(h, s)
  <1> HIDE DEF p, q
  <1>4. \A i \in 1..Len(s) : g[p[i]] = k[q[i]]
    BY <1>1, <1>2, <1>3 DEF p, q
  <1>5. Mapped(g, p) = Mapped(k, q)
    BY <1>1, <1>2, <1>4 DEF Mapped, p, q
  <1> QED
    BY <1>5 DEF p, q

(* splitString splits the same pieces off whatever was escaped.            *)
LEMMA splitStringMapped ==
  ASSUME NEW s \in Seq(Clean), NEW c \in LeftEscaped
  PROVE  /\ splitString(Mapped(Low, s), c) = Mapped(LowEach, splitString(s, c))
         /\ splitString(s, c) \in Seq(Seq(Clean))
  <1> DEFINE v == Valid(s)
             p == Pieces(v, <<c>>)
             w == Valid(Mapped(Low, s))
             q == Pieces(w, <<c>>)
             T == Trimmed(Clean)
             U == Trimmed(0..255)
  <1>1. splitString(s, c) = [i \in 1..Len(p) |-> trim(p[i])]
    BY DEF splitString, Valid, Nuls
  <1>2. splitString(Mapped(Low, s), c) = [i \in 1..Len(q) |-> trim(q[i])]
    BY DEF splitString, Valid, Nuls
  <1>3. w = Mapped(Low, v) /\ v \in Seq(Clean)
    BY ValidMapped
  <1> HIDE DEF v, w
  <1>4. Maps(Low, Clean, 0..255) /\ Marks(Low, Clean, c, c) /\ c \in Clean /\ c \in 0..255
    BY LowMaps, LowMarks
  <1>5. q = Mapped(Each(Low, Clean), p) /\ p \in Seq(Seq(Clean))
    <2>1. /\ Pieces(Mapped(Low, v), <<c>>) = Mapped(Each(Low, Clean), Pieces(v, <<c>>))
          /\ Pieces(v, <<c>>) \in Seq(Seq(Clean))
      BY <1>3, <1>4, PiecesMapped
    <2> QED
      BY <1>3, <2>1
  <1>6. Maps(LowEach, Seq(Clean), Seq(0..255))
        /\ \A u \in Seq(Clean) : LowEach[u] = Mapped(Low, u)
    BY LowEachMaps
  <1>7. Maps(T, Seq(Clean), Seq(Clean)) /\ \A u \in Seq(Clean) : T[u] = trim(u)
    BY TrimmedMaps
  <1>8. Maps(U, Seq(0..255), Seq(0..255)) /\ \A u \in Seq(0..255) : U[u] = trim(u)
    BY TrimmedMaps
  <1> HIDE DEF p, q, T, U
  <1>9. q = Mapped(LowEach, p) /\ q \in Seq(Seq(0..255))
    <2>1. q = Mapped(LowEach, p)
      BY <1>5 DEF LowEach
    <2>2. Mapped(LowEach, p) \in Seq(Seq(0..255))
      BY <1>5, <1>6, MappedIsText
    <2> QED
      BY <2>1, <2>2
  <1>10. splitString(s, c) = Mapped(T, p)
    <2>1. \A i \in 1..Len(p) : trim(p[i]) = T[p[i]]
      BY <1>5, <1>7, ElementOfSeq
    <2> QED
      BY <1>1, <2>1 DEF Mapped
  <1>11. splitString(Mapped(Low, s), c) = Mapped(U, q)
    <2>1. \A i \in 1..Len(q) : trim(q[i]) = U[q[i]]
      BY <1>8, <1>9, ElementOfSeq
    <2> QED
      BY <1>2, <2>1 DEF Mapped
  <1>12. \A u \in Seq(Clean) : U[LowEach[u]] = LowEach[T[u]]
    <2> TAKE u \in Seq(Clean)
    <2>1. Mapped(Low, u) \in Seq(0..255) /\ LowEach[u] = Mapped(Low, u)
      BY LowEachMaps
    <2>2. trim(Mapped(Low, u)) = Mapped(Low, trim(u)) /\ trim(u) \in Seq(Clean)
      BY trimMapped
    <2>3. U[LowEach[u]] = trim(Mapped(Low, u))
      BY <1>8, <2>1
    <2>4. LowEach[T[u]] = Mapped(Low, trim(u))
      BY <1>6, <1>7, <2>2
    <2> QED
      BY <2>2, <2>3, <2>4
  <1>13. Mapped(U, Mapped(LowEach, p)) = Mapped(LowEach, Mapped(T, p))
    BY <1>5, <1>6, <1>7, <1>8, <1>12, MappedTwice
  <1>14. Mapped(T, p) \in Seq(Seq(Clean))
    BY <1>5, <1>7, MappedIsText
  <1> QED
    BY <1>9, <1>10, <1>11, <1>13, <1>14

(* Cutting at a separator does not depend on what was escaped.             *)
LEMMA LowCut ==
  ASSUME NEW s \in Seq(Clean), NEW c \in LeftEscaped
  PROVE  Cut(Mapped(Low, s), <<c>>) = Mapped(LowEach, Cut(s, <<c>>))
  <1> DEFINE A == Clean
             B == 0..255
  <1>1. Maps(Low, A, B) /\ Marks(Low, A, c, c) /\ c \in A /\ c \in B /\ s \in Seq(A)
    BY LowMaps, LowMarks
  <1> HIDE DEF A, B
  <1>2. Cut(Mapped(Low, s), <<c>>) = Mapped(Each(Low, A), Cut(s, <<c>>))
    BY <1>1, CutMapped
  <1> QED
    BY <1>2 DEF LowEach, A

(* What stands left and right of a separator.                              *)
LEMMA Halves ==
  ASSUME NEW S, NEW s \in Seq(S), NEW c \in S
  PROVE  /\ Left(s, c) \in Seq(S)
         /\ Splits(s, c) => /\ Right(s, c) \in Seq(S)
                            /\ Len(Left(s, c)) + 1 <= Len(s)
  <1> DEFINE x == Cut(s, <<c>>)
             l == Left(s, c)
             n == Len(l) + 2
             k == Len(s)
  <1>1. x \in Seq(Seq(S)) /\ x # <<>>
    BY CutIsNotEmpty
  <1>2. l = Head(x)
    BY DEF Left
  <1>3. l \in Seq(S)
    <2> HIDE DEF x, l
    <2>1. Len(x) \in Nat \ {0} /\ Head(x) = x[1]
      BY <1>1, LenProperties, EmptySeq
    <2>2. 1 \in 1..Len(x)
      BY <2>1
    <2>3. x[1] \in Seq(S)
      BY <1>1, <2>2, ElementOfSeq
    <2> QED
      BY <1>2, <2>1, <2>3
  <1>4. ASSUME Splits(s, c)
        PROVE  Right(s, c) \in Seq(S) /\ Len(l) + 1 <= Len(s)
    <2>1. c \in ToSet(s)
      BY <1>4 DEF Splits
    <2>2. PICK a \in Seq(S), b \in Seq(S) : CutAt(s, c, a, b)
      BY <2>1, CutCases DEF Whole
    <2>3. x = <<a>> \o Cut(b, <<c>>) /\ Len(s) = Len(a) + 1 + Len(b)
      BY <2>2 DEF CutAt, Parted
    <2>4. Head(x) = a
      <3> DEFINE z == Cut(b, <<c>>)
      <3>1. z \in Seq(Seq(S)) /\ x = <<a>> \o z
        BY <2>3, CutIsNotEmpty
      <3> HIDE DEF x, z
      <3>2. <<a>> \in Seq(Seq(S)) /\ Len(<<a>>) = 1 /\ <<a>>[1] = a /\ 1 \in 1..1
        OBVIOUS
      <3>3. (<<a>> \o z)[1] = a
        BY <3>1, <3>2, ConcatProperties
      <3> QED
        BY <3>1, <3>3
    <2>5. Len(a) \in Nat /\ Len(b) \in Nat
      BY LenProperties
    <2>6. Len(l) = Len(a)
      BY <1>2, <2>4
    <2> HIDE DEF l, x
    <2>7. Len(l) + 1 <= Len(s) /\ n \in 1..(Len(s) + 1) /\ k \in Nat /\ n - 1 <= k /\ k <= Len(s)
      BY <2>3, <2>5, <2>6
    <2>8. Right(s, c) = SubSeq(s, n, k)
      <3>1. (Len(l) + 1) + 1 = n
        BY <2>5, <2>6
      <3> QED
        BY <3>1 DEF Right, After, l
    <2> HIDE DEF n, k
    <2> QED
      BY <2>7, <2>8, PartIsText
  <1> QED
    BY <1>3, <1>4

(* Neither do the parts before and behind a separator.                     *)
LEMMA HalvesMapped ==
  ASSUME NEW s \in Seq(Clean), NEW c \in LeftEscaped
  PROVE  /\ Splits(Mapped(Low, s), c) <=> Splits(s, c)
         /\ Left(Mapped(Low, s), c) = Mapped(Low, Left(s, c))
         /\ Left(s, c) \in Seq(Clean)
         /\ Splits(s, c) => /\ Right(Mapped(Low, s), c) = Mapped(Low, Right(s, c))
                            /\ Right(s, c) \in Seq(Clean)
  <1> DEFINE g == Mapped(Low, s)
             l == Left(s, c)
             n == Len(l) + 2
             k == Len(s)
             x == Cut(s, <<c>>)
  <1>1. Maps(Low, Clean, 0..255) /\ Marks(Low, Clean, c, c) /\ c \in Clean /\ c \in 0..255
    BY LowMaps, LowMarks
  <1>2. g \in Seq(0..255) /\ Len(g) = Len(s)
    BY <1>1, MappedIsText
  <1>3. Splits(g, c) <=> Splits(s, c)
    BY <1>1, MarkedElements DEF Splits
  <1>4. l \in Seq(Clean) /\ (Splits(s, c) => Right(s, c) \in Seq(Clean) /\ Len(l) + 1 <= Len(s))
    BY <1>1, Halves
  <1>5. Left(g, c) = Mapped(Low, l)
    <2>1. Cut(g, <<c>>) = Mapped(LowEach, x)
      BY LowCut
    <2>2. x \in Seq(Seq(Clean)) /\ x # <<>>
      BY <1>1, CutIsNotEmpty
    <2>3. l = Head(x) /\ Left(g, c) = Head(Cut(g, <<c>>))
      BY DEF Left
    <2> HIDE DEF x, g, l
    <2>4. Maps(LowEach, Seq(Clean), Seq(0..255))
      BY LowEachMaps
    <2>5. Head(Mapped(LowEach, x)) = LowEach[Head(x)]
      BY <2>2, <2>4, FrontMapped
    <2>6. LowEach[l] = Mapped(Low, l)
      BY <1>4, LowEachMaps
    <2> QED
      BY <2>1, <2>3, <2>5, <2>6
  <1>6. ASSUME Splits(s, c)
        PROVE  Right(g, c) = Mapped(Low, Right(s, c))
    <2>1. Len(Left(g, c)) = Len(l)
      <3> HIDE DEF l, g
      <3> QED
        BY <1>1, <1>4, <1>5, MappedIsText
    <2>2. Len(l) \in Nat /\ Len(l) + 1 <= Len(s) /\ Len(s) \in Nat
      BY <1>4, <1>6, LenProperties
    <2>3. (Len(l) + 1) + 1 = n
      BY <2>2
    <2>4. Right(s, c) = SubSeq(s, n, k)
      BY <2>3 DEF Right, After
    <2>5. Right(g, c) = SubSeq(g, n, k)
      BY <1>2, <2>1, <2>3 DEF Right, After
    <2> HIDE DEF l
    <2>6. n \in 1..(Len(s) + 1) /\ k \in Nat /\ n - 1 <= k /\ k <= Len(s)
      BY <2>2
    <2> HIDE DEF n, k, g
    <2>7. SubSeq(Mapped(Low, s), n, k) = Mapped(Low, SubSeq(s, n, k))
      BY <1>1, <2>6, PartMapped
    <2> QED
      BY <2>4, <2>5, <2>7 DEF g
  <1> QED
    BY <1>3, <1>4, <1>5, <1>6

(* Bytes that are not marked may be taken for bytes that could be.         *)
LEMMA LowWithin ==
  /\ Maps(Low, Clean, Clean) /\ Maps(LowEach, Seq(Clean), Seq(Clean))
  /\ \A u \in Seq(Clean) : LowEach[u] = Mapped(Low, u) /\ Mapped(Low, u) \in Seq(Clean)
  <1>1. 0..255 \subseteq Clean
    BY DEF Clean
  <1>2. \A b \in Clean : Low[b] \in Clean
    BY <1>1, LowMaps DEF Maps
  <1>3. Low = [b \in Clean |-> Low[b]]
    BY DEF Low
  <1>4. Maps(Low, Clean, Clean)
    BY <1>2, <1>3 DEF Maps
  <1> QED
    BY <1>4, EachMaps DEF LowEach

(* Elements replaced before they are spread, or afterwards.                *)
LEMMA SpreadCommutes ==
  ASSUME NEW A, NEW C, NEW f, Spreads(f, A, C), NEW g, Maps(g, A, A), NEW k, Maps(k, C, C),
         NEW s \in Seq(A), \A x \in A : f[g[x]] = Mapped(k, f[x])
  PROVE  Spread(f, Mapped(g, s)) = Mapped(k, Spread(f, s))
  <1> DEFINE h == [x \in A |-> f[g[x]]]
  <1>1. Spreads(h, A, C)
    BY DEF Spreads, Maps
  <1>2. ToSet(s) \subseteq A
    BY ElementsOfText
  <1>3. \A x \in A : h[x] = f[g[x]] /\ h[x] = Mapped(k, f[x])
    OBVIOUS
  <1> HIDE DEF h
  <1>4. Composed(h, g, f, ToSet(s))
    BY <1>2, <1>3 DEF Composed
  <1>5. Rendered(h, f, k, ToSet(s))
    BY <1>2, <1>3 DEF Rendered
  <1>6. Spread(f, Mapped(g, s)) = Spread(h, s)
    BY <1>1, <1>4, SpreadMapped
  <1>7. Mapped(k, Spread(f, s)) = Spread(h, s)
    BY <1>1, <1>5, MappedSpread
  <1> QED
    BY <1>6, <1>7

-----------------------------------------------------------------------------
(* Filters.                                                                *)
Filters == [key : Seq(Clean), values : Seq(Seq(Clean))]

ReadFilter(piece) ==
  LET kvs == splitString(piece, Ch.colon)
  IN  IF Len(kvs) # 2 THEN <<>>
      ELSE LET vs == splitString(kvs[2], Ch.comma)
           IN  IF vs = <<>> THEN <<>> ELSE <<[key |-> kvs[1], values |-> vs]>>

Reader     == [u \in Seq(Clean) |-> ReadFilter(u)]
FilterRead == [f \in Filters |-> PlainFilter(f)]

(* A filter without the marks.                                             *)
LEMMA PlainFilterIs ==
  ASSUME NEW k \in Seq(Clean), NEW vs \in Seq(Seq(Clean))
  PROVE  /\ FilterRead[[key |-> k, values |-> vs]] =
              [key |-> Mapped(Low, k), values |-> Mapped(LowEach, vs)]
         /\ [key |-> k, values |-> vs] \in Filters
         /\ [key |-> Mapped(Low, k), values |-> Mapped(LowEach, vs)] \in Filters
  <1> DEFINE f == [key |-> k, values |-> vs]
  <1>1. f \in Filters /\ f.key = k /\ f.values = vs
    BY DEF Filters
  <1>2. Plain(k) = Mapped(Low, k) /\ Mapped(Low, k) \in Seq(Clean)
    BY PlainIsMapped, LowWithin
  <1>3. [j \in 1..Len(vs) |-> Plain(vs[j])] = Mapped(LowEach, vs)
    <2>1. \A j \in 1..Len(vs) : Plain(vs[j]) = LowEach[vs[j]]
      BY ElementOfSeq, PlainIsMapped, LowWithin
    <2> QED
      BY <2>1 DEF Mapped
  <1>4. Mapped(LowEach, vs) \in Seq(Seq(Clean))
    BY LowWithin, MappedIsText
  <1>5. FilterRead[f] = PlainFilter(f)
    BY <1>1 DEF FilterRead
  <1> HIDE DEF f
  <1>6. PlainFilter(f) = [key |-> Mapped(Low, k), values |-> Mapped(LowEach, vs)]
    BY <1>1, <1>2, <1>3 DEF PlainFilter
  <1>7. [key |-> Mapped(Low, k), values |-> Mapped(LowEach, vs)] \in Filters
    BY <1>2, <1>4 DEF Filters
  <1> QED
    BY <1>1, <1>5, <1>6, <1>7 DEF f

(* That is a mapping of filters.                                           *)
LEMMA FilterReadMaps == Maps(FilterRead, Filters, Filters)
  <1> SUFFICES ASSUME NEW f \in Filters
               PROVE  FilterRead[f] \in Filters
    BY DEF Maps, FilterRead
  <1>1. f.key \in Seq(Clean) /\ f.values \in Seq(Seq(Clean)) /\ f = [key |-> f.key, values |-> f.values]
    BY DEF Filters
  <1> DEFINE k == f.key
             v == f.values
  <1> HIDE DEF k, v
  <1>2. k \in Seq(Clean) /\ v \in Seq(Seq(Clean)) /\ f = [key |-> k, values |-> v]
    BY <1>1 DEF k, v
  <1>3. FilterRead[[key |-> k, values |-> v]] \in Filters
    BY <1>2, PlainFilterIs
  <1> QED
    BY <1>2, <1>3

(* A filter is read the same whatever was escaped.                         *)
LEMMA ReadFilterMapped ==
  ASSUME NEW u \in Seq(Clean)
  PROVE  /\ ReadFilter(u) \in Seq(Filters)
         /\ ReadFilter(Mapped(Low, u)) = Mapped(FilterRead, ReadFilter(u))
  <1> DEFINE kvs == splitString(u, Ch.colon)
             lkvs == splitString(Mapped(Low, u), Ch.colon)
             k  == kvs[1]
             v  == kvs[2]
             vs == splitString(v, Ch.comma)
             lvs == splitString(lkvs[2], Ch.comma)
             f  == [key |-> k, values |-> vs]
             g  == [key |-> lkvs[1], values |-> lvs]
  <1>1. lkvs = Mapped(LowEach, kvs) /\ kvs \in Seq(Seq(Clean))
    BY SeparatorsStay, splitStringMapped
  <1>2. ReadFilter(u) = IF Len(kvs) # 2 \/ vs = <<>> THEN <<>> ELSE <<f>>
    BY DEF ReadFilter
  <1>3. ReadFilter(Mapped(Low, u)) = IF Len(lkvs) # 2 \/ lvs = <<>> THEN <<>> ELSE <<g>>
    BY DEF ReadFilter
  <1> HIDE DEF kvs, lkvs
  <1>4. Len(lkvs) = Len(kvs) /\ \A i \in 1..Len(kvs) : lkvs[i] = LowEach[kvs[i]]
    <2>1. Maps(LowEach, Seq(Clean), Seq(Clean))
      BY LowWithin
    <2>2. /\ Len(Mapped(LowEach, kvs)) = Len(kvs)
          /\ \A i \in 1..Len(kvs) : Mapped(LowEach, kvs)[i] = LowEach[kvs[i]]
      BY <1>1, <2>1, MappedIsText
    <2> QED
      BY <1>1, <2>2
  <1>5. CASE Len(kvs) # 2
    <2>1. ReadFilter(u) = <<>> /\ ReadFilter(Mapped(Low, u)) = <<>>
      BY <1>2, <1>3, <1>4, <1>5
    <2> QED
      BY <2>1, MappedOfNone
  <1>6. CASE Len(kvs) = 2
    <2>1. k \in Seq(Clean) /\ v \in Seq(Clean) /\ lkvs[1] = LowEach[k] /\ lkvs[2] = LowEach[v]
      <3>1. 1 \in 1..Len(kvs) /\ 2 \in 1..Len(kvs)
        BY <1>6
      <3> QED
        BY <1>1, <1>4, <3>1, ElementOfSeq
    <2>2. lkvs[1] = Mapped(Low, k) /\ lkvs[2] = Mapped(Low, v)
      <3> HIDE DEF k, v
      <3> QED
        BY <2>1, LowWithin
    <2>3. lvs = Mapped(LowEach, vs) /\ vs \in Seq(Seq(Clean))
      <3> HIDE DEF v
      <3>1. splitString(Mapped(Low, v), Ch.comma) = Mapped(LowEach, vs) /\ vs \in Seq(Seq(Clean))
        BY <2>1, SeparatorsStay, splitStringMapped
      <3> QED
        BY <2>2, <3>1
    <2> HIDE DEF k, v, vs, lvs
    <2>4. lvs = <<>> <=> vs = <<>>
      <3>1. lvs \in Seq(Seq(Clean)) /\ Len(lvs) = Len(vs)
        BY <2>3, LowWithin, MappedIsText
      <3> QED
        BY <2>3, <3>1, EmptySeq
    <2>5. f \in Filters /\ FilterRead[f] = g
      BY <2>1, <2>2, <2>3, PlainFilterIs
    <2>6. CASE vs = <<>>
      <3>1. ReadFilter(u) = <<>> /\ ReadFilter(Mapped(Low, u)) = <<>>
        BY <1>2, <1>3, <2>4, <2>6
      <3> QED
        BY <3>1, MappedOfNone
    <2>7. CASE vs # <<>>
      <3>1. ReadFilter(u) = <<f>> /\ ReadFilter(Mapped(Low, u)) = <<g>>
        BY <1>2, <1>3, <1>4, <1>6, <2>4, <2>7
      <3> HIDE DEF f, g
      <3>2. <<f>> \in Seq(Filters)
        BY <2>5
      <3>3. Mapped(FilterRead, <<f>>) = <<FilterRead[f]>>
        BY <2>5, FilterReadMaps, MappedOfOne
      <3> QED
        BY <2>5, <3>1, <3>2, <3>3
    <2> QED
      BY <2>6, <2>7
  <1> QED
    BY <1>5, <1>6

(* So are all filters of a value.                                          *)
LEMMA FilterPiecesMapped ==
  ASSUME NEW v \in Seq(Clean)
  PROVE  /\ FilterPieces(v) \in Seq(Filters)
         /\ FilterPieces(Mapped(Low, v)) = Mapped(FilterRead, FilterPieces(v))
  <1> DEFINE p == splitString(v, Ch.semicolon)
             q == splitString(Mapped(Low, v), Ch.semicolon)
  <1>1. q = Mapped(LowEach, p) /\ p \in Seq(Seq(Clean))
    BY SeparatorsStay, splitStringMapped
  <1>2. FilterPieces(v) = FlattenSeq([i \in 1..Len(p) |-> ReadFilter(p[i])])
    BY DEF FilterPieces, ReadFilter
  <1>3. FilterPieces(Mapped(Low, v)) = FlattenSeq([i \in 1..Len(q) |-> ReadFilter(q[i])])
    BY DEF FilterPieces, ReadFilter
  <1> HIDE DEF p, q
  <1>4. q \in Seq(Seq(Clean))
    BY <1>1, LowWithin, MappedIsText
  <1>5. \A u \in Seq(Clean) : Reader[u] = ReadFilter(u) /\ ReadFilter(u) \in Seq(Filters)
    BY ReadFilterMapped DEF Reader
  <1>6. Spreads(Reader, Seq(Clean), Filters)
    BY <1>5 DEF Reader, Spreads, Maps
  <1>7. FilterPieces(v) = Spread(Reader, p)
    <2>1. \A i \in 1..Len(p) : ReadFilter(p[i]) = Reader[p[i]]
      BY <1>1, <1>5, ElementOfSeq
    <2> QED
      BY <1>2, <2>1 DEF Spread, Mapped
  <1>8. FilterPieces(Mapped(Low, v)) = Spread(Reader, q)
    <2>1. \A i \in 1..Len(q) : ReadFilter(q[i]) = Reader[q[i]]
      BY <1>4, <1>5, ElementOfSeq
    <2> QED
      BY <1>3, <2>1 DEF Spread, Mapped
  <1>9. \A u \in Seq(Clean) : Reader[LowEach[u]] = Mapped(FilterRead, Reader[u])
    <2> TAKE u \in Seq(Clean)
    <2>1. LowEach[u] = Mapped(Low, u) /\ Mapped(Low, u) \in Seq(Clean)
      BY LowWithin
    <2>2. Reader[LowEach[u]] = ReadFilter(Mapped(Low, u))
      BY <1>5, <2>1
    <2>3. ReadFilter(Mapped(Low, u)) = Mapped(FilterRead, ReadFilter(u))
      BY ReadFilterMapped
    <2> QED
      BY <1>5, <2>2, <2>3
  <1>10. Maps(LowEach, Seq(Clean), Seq(Clean)) /\ Maps(FilterRead, Filters, Filters)
    BY LowWithin, FilterReadMaps
  <1>11. Spread(Reader, Mapped(LowEach, p)) = Mapped(FilterRead, Spread(Reader, p))
    BY <1>1, <1>6, <1>9, <1>10, SpreadCommutes
  <1>12. Spread(Reader, p) \in Seq(Filters)
    BY <1>1, <1>6, SpreadIsText
  <1> QED
    BY <1>1, <1>7, <1>8, <1>11, <1>12

-----------------------------------------------------------------------------
(* Parameters.                                                             *)
NamedPieces(full)     == {p \in ToSet(full) : Splits(p, Ch.equals) /\ Left(p, Ch.equals) # <<>>}
KeyOf(p)        == trim(Left(p, Ch.equals))
For(split, key) == {p \in ToSet(split) : KeyOf(p) = KeyText[key]}

(* A key of which no byte has been escaped.                                *)
LEMMA KeysApart ==
  ASSUME NEW t \in Seq(Clean), NEW k \in Seq(LeftEscaped)
  PROVE  Mapped(Low, t) = k <=> t = k
  <1> DEFINE g == Mapped(Low, t)
  <1>1. g \in Seq(Clean) /\ Len(g) = Len(t) /\ \A i \in 1..Len(t) : g[i] = Low[t[i]]
    BY LowWithin, MappedIsText
  <1>2. \A i \in 1..Len(t) : t[i] \in Clean
    BY ElementOfSeq
  <1>3. \A i \in 1..Len(k) : k[i] \in LeftEscaped
    BY ElementOfSeq
  <1>4. \A b \in Clean, c \in LeftEscaped : Low[b] = c <=> b = c
    BY LowMarks DEF Marks
  <1> HIDE DEF g
  <1>5. ASSUME Len(t) = Len(k)
        PROVE  \A i \in 1..Len(k) : g[i] = k[i] <=> t[i] = k[i]
    <2> TAKE i \in 1..Len(k)
    <2>1. i \in 1..Len(t)
      BY <1>5
    <2>2. g[i] = Low[t[i]] /\ t[i] \in Clean /\ k[i] \in LeftEscaped
      BY <1>1, <1>2, <1>3, <2>1
    <2> QED
      BY <1>4, <2>2
  <1>6. ASSUME g = k PROVE t = k
    <2>1. Len(t) = Len(k)
      BY <1>1, <1>6
    <2>2. \A i \in 1..Len(k) : t[i] = k[i]
      BY <1>5, <1>6, <2>1
    <2> QED
      BY <2>1, <2>2, SeqEqual
  <1>7. ASSUME t = k PROVE g = k
    <2>1. Len(g) = Len(k)
      BY <1>1, <1>7
    <2>2. \A i \in 1..Len(k) : g[i] = k[i]
      BY <1>5, <1>7
    <2> QED
      BY <1>1, <2>1, <2>2, SeqEqual
  <1> QED
    BY <1>6, <1>7 DEF g

(* An element of a text, replaced.                                         *)
LEMMA ElementsOfMapped ==
  ASSUME NEW A, NEW B, NEW f, Maps(f, A, B), NEW s \in Seq(A), NEW x \in ToSet(s)
  PROVE  x \in A /\ f[x] \in ToSet(Mapped(f, s))
  <1> DEFINE g == Mapped(f, s)
  <1>1. g \in Seq(B) /\ Len(g) = Len(s) /\ \A i \in 1..Len(s) : g[i] = f[s[i]]
    BY MappedIsText
  <1>2. x \in A /\ \E i \in 1..Len(s) : x = s[i]
    BY ElementsOfText
  <1> HIDE DEF g
  <1>3. \A i \in 1..Len(g) : g[i] \in ToSet(g)
    BY <1>1, ElementsOfText
  <1> QED
    BY <1>1, <1>2, <1>3 DEF g

(* The pieces with a key are the same whatever was escaped.                *)
LEMMA NamedMapped ==
  ASSUME NEW full \in Seq(Seq(Clean))
  PROVE  /\ Those(Mapped(LowEach, full), NamedPieces(Mapped(LowEach, full))) =
              Mapped(LowEach, Those(full, NamedPieces(full)))
         /\ Those(full, NamedPieces(full)) \in Seq(Seq(Clean))
         /\ \A p \in ToSet(Those(full, NamedPieces(full))) : Splits(p, Ch.equals)
  <1> DEFINE g == Mapped(LowEach, full)
             T == NamedPieces(full)
             U == NamedPieces(g)
  <1>1. Maps(LowEach, Seq(Clean), Seq(Clean))
    BY LowWithin
  <1>2. ASSUME NEW p \in ToSet(full)
        PROVE  LowEach[p] \in U <=> p \in T
    <2>1. p \in Seq(Clean) /\ LowEach[p] \in ToSet(g)
      BY <1>1, ElementsOfMapped
    <2>2. LowEach[p] = Mapped(Low, p)
      BY <2>1, LowWithin
    <2> DEFINE m == Mapped(Low, p)
               l == Left(p, Ch.equals)
               n == Left(m, Ch.equals)
    <2>3. /\ Splits(m, Ch.equals) <=> Splits(p, Ch.equals)
          /\ n = Mapped(Low, l) /\ l \in Seq(Clean)
      BY <2>1, SeparatorsStay, HalvesMapped
    <2>4. n = <<>> <=> l = <<>>
      <3> HIDE DEF l, n
      <3>1. Len(Mapped(Low, l)) = Len(l) /\ Mapped(Low, l) \in Seq(Clean)
        BY <2>3, LowWithin, MappedIsText
      <3> QED
        BY <2>3, <3>1, EmptySeq
    <2>5. LowEach[p] \in U <=> Splits(m, Ch.equals) /\ n # <<>>
      <3>1. LowEach[p] = m
        BY <2>2
      <3> HIDE DEF m, g
      <3> QED
        BY <2>1, <3>1 DEF NamedPieces
    <2>6. p \in T <=> Splits(p, Ch.equals) /\ l # <<>>
      BY DEF NamedPieces
    <2> QED
      BY <2>3, <2>4, <2>5, <2>6
  <1> HIDE DEF T, U, g
  <1>3. Matched(LowEach, U, T, ToSet(full))
    BY <1>2 DEF Matched
  <1>4. Those(Mapped(LowEach, full), U) = Mapped(LowEach, Those(full, T))
    BY <1>1, <1>3, ThoseMapped
  <1>5. Those(full, T) \in Seq(Seq(Clean)) /\ ToSet(Those(full, T)) = ToSet(full) \cap T
    BY ThoseIsText, ElementsOfThose
  <1>6. \A p \in T : Splits(p, Ch.equals)
    BY DEF T, NamedPieces
  <1> QED
    BY <1>4, <1>5, <1>6 DEF T, U, g

(* So are those with a certain key.                                        *)
LEMMA ForMapped ==
  ASSUME NEW split \in Seq(Seq(Clean)), NEW key \in DOMAIN KeyText
  PROVE  /\ Those(Mapped(LowEach, split), For(Mapped(LowEach, split), key)) =
              Mapped(LowEach, Those(split, For(split, key)))
         /\ Those(split, For(split, key)) \in Seq(Seq(Clean))
         /\ ToSet(Those(split, For(split, key))) \subseteq ToSet(split)
  <1> DEFINE g == Mapped(LowEach, split)
             T == For(split, key)
             U == For(g, key)
  <1>1. Maps(LowEach, Seq(Clean), Seq(Clean))
    BY LowWithin
  <1>0. KeyText[key] \in Seq(LeftEscaped)
    BY RequestAssumption
  <1>2. ASSUME NEW p \in ToSet(split)
        PROVE  LowEach[p] \in U <=> p \in T
    <2>1. p \in Seq(Clean) /\ LowEach[p] \in ToSet(g)
      BY <1>1, ElementsOfMapped
    <2>2. LowEach[p] = Mapped(Low, p)
      BY <2>1, LowWithin
    <2> DEFINE m == Mapped(Low, p)
               l == Left(p, Ch.equals)
               n == Left(m, Ch.equals)
    <2>3. n = Mapped(Low, l) /\ l \in Seq(Clean)
      BY <2>1, SeparatorsStay, HalvesMapped
    <2>4. trim(n) = KeyText[key] <=> trim(l) = KeyText[key]
      <3> HIDE DEF l, n
      <3>1. trim(n) = Mapped(Low, trim(l)) /\ trim(l) \in Seq(Clean)
        BY <2>3, trimMapped
      <3> QED
        BY <1>0, <3>1, KeysApart
    <2>5. LowEach[p] \in U <=> trim(n) = KeyText[key]
      <3>1. LowEach[p] = m
        BY <2>2
      <3> HIDE DEF m, g
      <3> QED
        BY <2>1, <3>1 DEF For, KeyOf
    <2>6. p \in T <=> trim(l) = KeyText[key]
      BY DEF For, KeyOf
    <2> QED
      BY <2>4, <2>5, <2>6
  <1> HIDE DEF T, U, g
  <1>3. Matched(LowEach, U, T, ToSet(split))
    BY <1>2 DEF Matched
  <1>4. Those(Mapped(LowEach, split), U) = Mapped(LowEach, Those(split, T))
    BY <1>1, <1>3, ThoseMapped
  <1>5. Those(split, T) \in Seq(Seq(Clean)) /\ ToSet(Those(split, T)) = ToSet(split) \cap T
    BY ThoseIsText, ElementsOfThose
  <1> QED
    BY <1>4, <1>5 DEF T, U, g

(* The values.                                                             *)
ValueOf == [p \in Seq(Clean) |->
              IF Splits(p, Ch.equals) THEN trim(Right(p, Ch.equals)) ELSE <<>>]

(* So is a piece's value.                                                  *)
LEMMA ValueOfMaps ==
  /\ Maps(ValueOf, Seq(Clean), Seq(Clean))
  /\ \A p \in Seq(Clean) : ValueOf[LowEach[p]] = LowEach[ValueOf[p]]
  <1>1. ASSUME NEW p \in Seq(Clean), Splits(p, Ch.equals)
        PROVE  /\ trim(Right(p, Ch.equals)) \in Seq(Clean)
               /\ trim(Right(Mapped(Low, p), Ch.equals)) = Mapped(Low, trim(Right(p, Ch.equals)))
    <2> DEFINE r == Right(p, Ch.equals)
    <2>1. Right(Mapped(Low, p), Ch.equals) = Mapped(Low, r) /\ r \in Seq(Clean)
      BY <1>1, SeparatorsStay, HalvesMapped
    <2> HIDE DEF r
    <2>2. trim(Mapped(Low, r)) = Mapped(Low, trim(r)) /\ trim(r) \in Seq(Clean)
      BY <2>1, trimMapped
    <2> QED
      BY <2>1, <2>2 DEF r
  <1>2. <<>> \in Seq(Clean) /\ Mapped(Low, <<>>) = <<>>
    BY MappedOfNone
  <1>3. ASSUME NEW p \in Seq(Clean)
        PROVE  ValueOf[p] \in Seq(Clean)
    BY <1>1, <1>2 DEF ValueOf
  <1>4. ASSUME NEW p \in Seq(Clean)
        PROVE  ValueOf[LowEach[p]] = LowEach[ValueOf[p]]
    <2> DEFINE m == Mapped(Low, p)
               v == ValueOf[p]
    <2>1. LowEach[p] = m /\ m \in Seq(Clean)
      BY LowWithin
    <2>2. Splits(m, Ch.equals) <=> Splits(p, Ch.equals)
      BY SeparatorsStay, HalvesMapped
    <2>3. ValueOf[m] = Mapped(Low, v)
      <3> HIDE DEF m
      <3>1. ValueOf[m] = IF Splits(m, Ch.equals) THEN trim(Right(m, Ch.equals)) ELSE <<>>
        BY <2>1 DEF ValueOf
      <3>2. v = IF Splits(p, Ch.equals) THEN trim(Right(p, Ch.equals)) ELSE <<>>
        BY DEF ValueOf
      <3> HIDE DEF v
      <3>3. CASE Splits(p, Ch.equals)
        <4>1. trim(Right(m, Ch.equals)) = Mapped(Low, trim(Right(p, Ch.equals)))
          BY <1>1, <3>3 DEF m
        <4> QED
          BY <2>2, <3>1, <3>2, <3>3, <4>1
      <3>4. CASE ~Splits(p, Ch.equals)
        BY <1>2, <2>2, <3>1, <3>2, <3>4
      <3> QED
        BY <3>3, <3>4
    <2>4. LowEach[v] = Mapped(Low, v)
      <3>1. v \in Seq(Clean)
        BY <1>3
      <3> HIDE DEF v
      <3> QED
        BY <3>1, LowWithin
    <2> QED
      BY <2>1, <2>3, <2>4
  <1>5. Maps(ValueOf, Seq(Clean), Seq(Clean))
    BY <1>3 DEF Maps, ValueOf
  <1> QED
    BY <1>4, <1>5

Split(full)      == Those(full, NamedPieces(full))
Pairs(full, key) == Those(Split(full), For(Split(full), key))
Given(full, key) ==
  [i \in 1..Len(Pairs(full, key)) |-> trim(Right(Pairs(full, key)[i], Ch.equals))]
Answer(full, key) ==
  IF key = "filter"
  THEN FlattenSeq([i \in 1..Len(Given(full, key)) |-> FilterPieces(Given(full, key)[i])])
  ELSE IF Given(full, key) = <<>> THEN Defaults[key] ELSE Last(Given(full, key))

(* What Parameters gives, key by key.                                      *)
LEMMA ParametersAre ==
  ASSUME NEW s
  PROVE  Parameters(s) =
           IF splitString(s, Ch.ampersand) = <<>> THEN Refused
           ELSE [key \in DOMAIN KeyText |-> Answer(splitString(s, Ch.ampersand), key)]
  BY DEF Parameters, Answer, Given, Pairs, Split, NamedPieces, For, KeyOf

(* The values that are given for a key are texts.                          *)
LEMMA GivenIs ==
  ASSUME NEW full \in Seq(Seq(Clean)), NEW key \in DOMAIN KeyText
  PROVE  /\ Pairs(full, key) \in Seq(Seq(Clean))
         /\ Given(full, key) = Mapped(ValueOf, Pairs(full, key))
         /\ Given(full, key) \in Seq(Seq(Clean))
  <1> DEFINE x == Split(full)
             p == Pairs(full, key)
  <1>1. x \in Seq(Seq(Clean)) /\ \A u \in ToSet(x) : Splits(u, Ch.equals)
    BY NamedMapped DEF Split
  <1> HIDE DEF x
  <1>2. p \in Seq(Seq(Clean)) /\ ToSet(p) \subseteq ToSet(x)
    <2>1. Those(x, For(x, key)) \in Seq(Seq(Clean)) /\ ToSet(Those(x, For(x, key))) \subseteq ToSet(x)
      BY <1>1, ForMapped
    <2> QED
      BY <2>1 DEF Pairs, x
  <1>3. Given(full, key) = [i \in 1..Len(p) |-> trim(Right(p[i], Ch.equals))]
    BY DEF Given
  <1> HIDE DEF p
  <1>4. ASSUME NEW i \in 1..Len(p)
        PROVE  trim(Right(p[i], Ch.equals)) = ValueOf[p[i]]
    <2>1. p[i] \in Seq(Clean) /\ p[i] \in ToSet(p)
      BY <1>2, ElementOfSeq, ElementsOfText
    <2>2. Splits(p[i], Ch.equals)
      BY <1>1, <1>2, <2>1
    <2> QED
      BY <2>1, <2>2 DEF ValueOf
  <1>5. Given(full, key) = Mapped(ValueOf, p)
    BY <1>3, <1>4 DEF Mapped
  <1>6. Mapped(ValueOf, p) \in Seq(Seq(Clean))
    BY <1>2, ValueOfMaps, MappedIsText
  <1> QED
    BY <1>2, <1>5, <1>6 DEF p

(* They are the same whatever was escaped.                                 *)
LEMMA GivenMapped ==
  ASSUME NEW full \in Seq(Seq(Clean)), NEW key \in DOMAIN KeyText
  PROVE  Given(Mapped(LowEach, full), key) = Mapped(LowEach, Given(full, key))
  <1> DEFINE g == Mapped(LowEach, full)
             x == Split(full)
             p == Pairs(full, key)
  <1>0. Maps(LowEach, Seq(Clean), Seq(Clean)) /\ Maps(ValueOf, Seq(Clean), Seq(Clean))
    BY LowWithin, ValueOfMaps
  <1>1. g \in Seq(Seq(Clean))
    BY <1>0, MappedIsText
  <1>2. Split(g) = Mapped(LowEach, x) /\ x \in Seq(Seq(Clean))
    BY NamedMapped DEF Split
  <1> HIDE DEF g, x
  <1>3. Pairs(g, key) = Mapped(LowEach, p)
    <2>1. Those(Mapped(LowEach, x), For(Mapped(LowEach, x), key)) =
            Mapped(LowEach, Those(x, For(x, key)))
      BY <1>2, ForMapped
    <2> QED
      BY <1>2, <2>1 DEF Pairs, x
  <1>4. p \in Seq(Seq(Clean)) /\ Given(full, key) = Mapped(ValueOf, p)
    BY GivenIs
  <1> HIDE DEF p
  <1>5. Given(g, key) = Mapped(ValueOf, Mapped(LowEach, p))
    <2>1. Given(g, key) = Mapped(ValueOf, Pairs(g, key))
      BY <1>1, GivenIs
    <2> QED
      BY <1>3, <2>1
  <1>6. Mapped(ValueOf, Mapped(LowEach, p)) = Mapped(LowEach, Mapped(ValueOf, p))
    BY <1>0, <1>4, ValueOfMaps, MappedTwice
  <1> QED
    BY <1>4, <1>5, <1>6 DEF g

FiltersOf == [v \in Seq(Clean) |-> FilterPieces(v)]

(* Each value yields its filters.                                          *)
LEMMA FiltersOfSpreads ==
  /\ Spreads(FiltersOf, Seq(Clean), Filters)
  /\ \A v \in Seq(Clean) : FiltersOf[v] = FilterPieces(v)
  /\ \A v \in Seq(Clean) : FiltersOf[LowEach[v]] = Mapped(FilterRead, FiltersOf[v])
  <1>1. \A v \in Seq(Clean) : FiltersOf[v] = FilterPieces(v) /\ FilterPieces(v) \in Seq(Filters)
    BY FilterPiecesMapped DEF FiltersOf
  <1>2. Spreads(FiltersOf, Seq(Clean), Filters)
    BY <1>1 DEF Spreads, Maps, FiltersOf
  <1>3. ASSUME NEW v \in Seq(Clean)
        PROVE  FiltersOf[LowEach[v]] = Mapped(FilterRead, FiltersOf[v])
    <2>1. LowEach[v] = Mapped(Low, v) /\ Mapped(Low, v) \in Seq(Clean)
      BY LowWithin
    <2>2. FilterPieces(Mapped(Low, v)) = Mapped(FilterRead, FilterPieces(v))
      BY FilterPiecesMapped
    <2> QED
      BY <1>1, <2>1, <2>2
  <1> QED
    BY <1>1, <1>2, <1>3

(* All filters of all values.                                              *)
LEMMA FiltersAre ==
  ASSUME NEW g \in Seq(Seq(Clean))
  PROVE  /\ FlattenSeq([i \in 1..Len(g) |-> FilterPieces(g[i])]) = Spread(FiltersOf, g)
         /\ Spread(FiltersOf, g) \in Seq(Filters)
  <1>1. \A i \in 1..Len(g) : FilterPieces(g[i]) = FiltersOf[g[i]]
    BY ElementOfSeq, FiltersOfSpreads
  <1>2. [i \in 1..Len(g) |-> FilterPieces(g[i])] = Mapped(FiltersOf, g)
    BY <1>1 DEF Mapped
  <1>3. Spread(FiltersOf, g) \in Seq(Filters)
    BY FiltersOfSpreads, SpreadIsText
  <1> QED
    BY <1>2, <1>3 DEF Spread

PlainAnswer(key, answer) ==
  IF key # "filter" THEN Plain(answer)
  ELSE [i \in 1..Len(answer) |-> PlainFilter(answer[i])]

(* The answer for a key is the same whatever was escaped.                  *)
LEMMA AnswerMapped ==
  ASSUME NEW full \in Seq(Seq(Clean)), NEW key \in DOMAIN KeyText
  PROVE  Answer(Mapped(LowEach, full), key) = PlainAnswer(key, Answer(full, key))
  <1> DEFINE g == Given(full, key)
             h == Given(Mapped(LowEach, full), key)
  <1>1. h = Mapped(LowEach, g) /\ g \in Seq(Seq(Clean))
    BY GivenMapped, GivenIs
  <1>2. Answer(full, key) =
          IF key = "filter" THEN FlattenSeq([i \in 1..Len(g) |-> FilterPieces(g[i])])
          ELSE IF g = <<>> THEN Defaults[key] ELSE Last(g)
    BY DEF Answer
  <1>3. Answer(Mapped(LowEach, full), key) =
          IF key = "filter" THEN FlattenSeq([i \in 1..Len(h) |-> FilterPieces(h[i])])
          ELSE IF h = <<>> THEN Defaults[key] ELSE Last(h)
    BY DEF Answer
  <1> HIDE DEF g, h
  <1>4. Maps(LowEach, Seq(Clean), Seq(Clean))
    BY LowWithin
  <1>5. h \in Seq(Seq(Clean)) /\ Len(h) = Len(g)
    BY <1>1, <1>4, MappedIsText
  <1>6. CASE key = "filter"
    <2> DEFINE a == Spread(FiltersOf, g)
               b == Spread(FiltersOf, h)
    <2>1. Answer(full, key) = a /\ a \in Seq(Filters)
      BY <1>1, <1>2, <1>6, FiltersAre
    <2>2. Answer(Mapped(LowEach, full), key) = b
      BY <1>3, <1>5, <1>6, FiltersAre
    <2>3. Spread(FiltersOf, Mapped(LowEach, g)) = Mapped(FilterRead, Spread(FiltersOf, g))
      BY <1>1, <1>4, FiltersOfSpreads, FilterReadMaps, SpreadCommutes
    <2>4. b = Mapped(FilterRead, a)
      BY <1>1, <2>3
    <2> HIDE DEF a, b
    <2>5. \A i \in 1..Len(a) : FilterRead[a[i]] = PlainFilter(a[i])
      BY <2>1, ElementOfSeq DEF FilterRead
    <2>6. [i \in 1..Len(a) |-> PlainFilter(a[i])] = Mapped(FilterRead, a)
      BY <2>5 DEF Mapped
    <2> QED
      BY <1>6, <2>1, <2>2, <2>4, <2>6 DEF PlainAnswer
  <1>7. CASE key # "filter" /\ g = <<>>
    <2>1. h = <<>>
      BY <1>1, <1>7, MappedOfNone
    <2>2. Answer(full, key) = Defaults[key] /\ Answer(Mapped(LowEach, full), key) = Defaults[key]
      BY <1>2, <1>3, <1>7, <2>1
    <2>3. Defaults[key] \in Seq(0..255)
      BY <1>7, RequestAssumption
    <2>4. Plain(Defaults[key]) = Defaults[key]
      BY <2>3, PlainOfPlain
    <2> QED
      BY <1>7, <2>2, <2>4 DEF PlainAnswer
  <1>8. CASE key # "filter" /\ g # <<>>
    <2>1. Last(h) = LowEach[Last(g)] /\ h # <<>> /\ Last(g) \in Seq(Clean)
      BY <1>1, <1>4, <1>8, FrontMapped
    <2>2. LowEach[Last(g)] = Plain(Last(g))
      <3> DEFINE l == Last(g)
      <3> HIDE DEF l
      <3>1. l \in Seq(Clean)
        BY <2>1 DEF l
      <3>2. LowEach[l] = Plain(l)
        BY <3>1, PlainIsMapped, LowWithin
      <3> QED
        BY <3>2 DEF l
    <2>3. Answer(full, key) = Last(g) /\ Answer(Mapped(LowEach, full), key) = Last(h)
      BY <1>2, <1>3, <1>8, <2>1
    <2> QED
      BY <1>8, <2>1, <2>2, <2>3 DEF PlainAnswer
  <1> QED
    BY <1>6, <1>7, <1>8

(* The parameters of a plain text are those of the marked text, without    *)
(* the marks: what a client escaped is not taken for a separator.          *)
LEMMA ParametersMapped ==
  ASSUME NEW s \in Seq(Clean)
  PROVE  Parameters(Plain(s)) = PlainRequest(Parameters(s))
  <1> DEFINE full == splitString(s, Ch.ampersand)
             low  == splitString(Mapped(Low, s), Ch.ampersand)
             K == DOMAIN KeyText
             r == [key \in K |-> Answer(full, key)]
  <1>1. low = Mapped(LowEach, full) /\ full \in Seq(Seq(Clean))
    BY SeparatorsStay, splitStringMapped
  <1>2. Parameters(s) = IF full = <<>> THEN Refused ELSE r
    BY ParametersAre
  <1>3. Parameters(Mapped(Low, s)) = IF low = <<>> THEN Refused ELSE [key \in K |-> Answer(low, key)]
    BY ParametersAre
  <1>4. Plain(s) = Mapped(Low, s)
    BY PlainIsMapped
  <1> HIDE DEF full, low
  <1>5. low = <<>> <=> full = <<>>
    <2>1. low \in Seq(Seq(Clean)) /\ Len(low) = Len(full)
      BY <1>1, LowWithin, MappedIsText
    <2> QED
      BY <1>1, <2>1, EmptySeq
  <1>6. CASE full = <<>>
    <2>1. Parameters(s) = Refused /\ Parameters(Plain(s)) = Refused
      BY <1>2, <1>3, <1>4, <1>5, <1>6
    <2> QED
      BY <2>1 DEF PlainRequest
  <1>7. CASE full # <<>>
    <2>1. Parameters(s) = r /\ Parameters(Plain(s)) = [key \in K |-> Answer(low, key)]
      BY <1>2, <1>3, <1>4, <1>5, <1>7
    <2>2. \A key \in K : Answer(low, key) = PlainAnswer(key, Answer(full, key))
      BY <1>1, AnswerMapped
    <2>3. r # Refused /\ DOMAIN r = K /\ \A key \in K : r[key] = Answer(full, key)
      <3>1. "refused" \notin K
        BY RequestAssumption
      <3>2. DOMAIN r = K
        OBVIOUS
      <3>3. DOMAIN Refused = {"refused"}
        BY DEF Refused
      <3> HIDE DEF K
      <3> QED
        BY <3>1, <3>2, <3>3
    <2> HIDE DEF r, K
    <2>4. PlainRequest(r) = [key \in K |-> PlainAnswer(key, r[key])]
      BY <2>3 DEF PlainRequest, PlainAnswer
    <2>5. [key \in K |-> Answer(low, key)] = [key \in K |-> PlainAnswer(key, r[key])]
      BY <2>2, <2>3
    <2> QED
      BY <2>1, <2>4, <2>5
  <1> QED
    BY <1>6, <1>7

-----------------------------------------------------------------------------
(* A text that is read in steps, each of which yields a text.              *)
Forward(next, N) == \A i \in 1..N : next[i] \in Nat /\ i < next[i] /\ next[i] <= N + 1
Runs(R, own, next, N) ==
  R[N + 1] = <<>> /\ \A i \in 1..N : R[i] = own[i] \o R[next[i]]

(* A text that is read in steps, each of which goes forward, is read.      *)
LEMMA RunsExist ==
  ASSUME NEW S, NEW N \in Nat, NEW own, \A i \in 1..N : own[i] \in Seq(S),
         NEW next, Forward(next, N)
  PROVE  \E R \in [1..(N + 1) -> Seq(S)] : Runs(R, own, next, N)
  <1> DEFINE mine == [k \in 1..N |-> own[N + 1 - k]]
             up   == [k \in 1..N |-> N + 1 - next[N + 1 - k]]
  <1>1. \A k \in 1..N : N + 1 - k \in 1..N /\ N + 1 - (N + 1 - k) = k
    OBVIOUS
  <1>2. mine \in [1..N -> Seq(S)]
    BY <1>1
  <1>3. up \in [1..N -> Nat] /\ Above(up, N)
    <2> SUFFICES ASSUME NEW k \in 1..N
                 PROVE  up[k] \in Nat /\ up[k] < k
      BY DEF Above
    <2> DEFINE x == next[N + 1 - k]
    <2>1. x \in Nat /\ N + 1 - k < x /\ x <= N + 1
      BY <1>1 DEF Forward
    <2>2. up[k] = N + 1 - x
      OBVIOUS
    <2> HIDE DEF x, up
    <2> QED
      BY <2>1, <2>2
  <1> HIDE DEF mine, up
  <1>4. PICK f \in [1..N -> Seq(S)] : SumOf(f, mine, up, N)
    BY <1>2, <1>3, SumOfAncestors
  <1> DEFINE R == [i \in 1..(N + 1) |-> IF i = N + 1 THEN <<>> ELSE f[N + 1 - i]]
  <1>5. \A i \in 1..N : i \in 1..(N + 1) /\ i # N + 1 /\ N + 1 - i \in 1..N
    OBVIOUS
  <1>6. R \in [1..(N + 1) -> Seq(S)]
    <2>1. \A i \in 1..(N + 1) : i # N + 1 => N + 1 - i \in 1..N
      OBVIOUS
    <2>2. <<>> \in Seq(S)
      OBVIOUS
    <2> QED
      BY <2>1, <2>2
  <1>7. R[N + 1] = <<>>
    OBVIOUS
  <1>8. ASSUME NEW i \in 1..N
        PROVE  R[i] = own[i] \o R[next[i]]
    <2> DEFINE k == N + 1 - i
               x == next[i]
    <2>1. k \in 1..N /\ N + 1 - k = i
      BY <1>5
    <2>2. R[i] = f[k]
      BY <1>5
    <2>3. f[k] = IF up[k] = 0 THEN mine[k] ELSE mine[k] \o f[up[k]]
      <3> HIDE DEF k
      <3> QED
        BY <1>4, <2>1 DEF SumOf
    <2>4. mine[k] = own[i] /\ up[k] = N + 1 - x
      <3> HIDE DEF k
      <3> QED
        BY <2>1 DEF mine, up
    <2>5. x \in Nat /\ i < x /\ x <= N + 1
      BY DEF Forward
    <2>6. R[x] = IF x = N + 1 THEN <<>> ELSE f[N + 1 - x]
      <3>1. x \in 1..(N + 1)
        BY <2>5
      <3> HIDE DEF x
      <3> QED
        BY <3>1
    <2>7. own[i] \in Seq(S)
      OBVIOUS
    <2> HIDE DEF R, k, x
    <2>8. CASE x = N + 1
      <3>1. up[k] = 0
        BY <2>4, <2>8
      <3>2. own[i] \o <<>> = own[i]
        BY <2>7, ConcatEmptySeq
      <3> QED
        BY <2>2, <2>3, <2>4, <2>6, <2>8, <3>1, <3>2 DEF x
    <2>9. CASE x # N + 1
      <3>1. up[k] # 0
        BY <2>4, <2>5, <2>9
      <3> QED
        BY <2>2, <2>3, <2>4, <2>6, <2>9, <3>1 DEF x
    <2> QED
      BY <2>8, <2>9
  <1> HIDE DEF R
  <1>9. Runs(R, own, next, N)
    BY <1>7, <1>8 DEF Runs
  <1> QED
    BY <1>6, <1>9

(* It is read in one way.                                                  *)
LEMMA RunsUnique ==
  ASSUME NEW N \in Nat, NEW own, NEW next, Forward(next, N),
         NEW R, Runs(R, own, next, N), NEW Z, Runs(Z, own, next, N)
  PROVE  \A i \in 1..(N + 1) : R[i] = Z[i]
  <1> DEFINE P == {c \in Nat : \A i \in 1..(N + 1) : N + 1 - i <= c => R[i] = Z[i]}
  <1>1. R[N + 1] = Z[N + 1]
    BY DEF Runs
  <1>2. 0 \in P
    <2> SUFFICES ASSUME NEW i \in 1..(N + 1), N + 1 - i <= 0
                 PROVE  R[i] = Z[i]
      OBVIOUS
    <2>1. i = N + 1
      OBVIOUS
    <2> QED
      BY <1>1, <2>1
  <1>3. ASSUME NEW c \in P
        PROVE  c + 1 \in P
    <2>1. c \in Nat /\ c + 1 \in Nat
      OBVIOUS
    <2>2. \A i \in 1..(N + 1) : N + 1 - i <= c => R[i] = Z[i]
      OBVIOUS
    <2> SUFFICES ASSUME NEW i \in 1..(N + 1), N + 1 - i <= c + 1
                 PROVE  R[i] = Z[i]
      BY <2>1
    <2> HIDE DEF P
    <2>3. CASE i = N + 1
      BY <1>1, <2>3
    <2>4. CASE i # N + 1
      <3>1. i \in 1..N
        BY <2>4
      <3> DEFINE x == next[i]
      <3>2. x \in Nat /\ i < x /\ x <= N + 1
        BY <3>1 DEF Forward
      <3>3. R[i] = own[i] \o R[x] /\ Z[i] = own[i] \o Z[x]
        BY <3>1 DEF Runs
      <3> HIDE DEF x
      <3>4. x \in 1..(N + 1) /\ N + 1 - x <= c
        BY <2>1, <3>2
      <3>5. R[x] = Z[x]
        BY <2>2, <3>4
      <3> QED
        BY <3>3, <3>5
    <2> QED
      BY <2>3, <2>4
  <1>4. P = Nat
    <2>1. P \in SUBSET Nat
      OBVIOUS
    <2> HIDE DEF P
    <2> QED
      BY <1>2, <1>3, <2>1, SetInduction
  <1> SUFFICES ASSUME NEW i \in 1..(N + 1)
               PROVE  R[i] = Z[i]
    OBVIOUS
  <1>5. N + 1 - i \in P /\ N + 1 - i <= N + 1 - i
    <2>1. N + 1 - i \in Nat /\ N + 1 - i <= N + 1 - i
      OBVIOUS
    <2> HIDE DEF P
    <2> QED
      BY <1>4, <2>1
  <1> QED
    BY <1>5

-----------------------------------------------------------------------------
(* What UrlDecode does with a byte.                                        *)
Octets == 0..255

ByteAt(s, i) == IF i <= Len(s) THEN s[i] ELSE Nul
CodeAt(s, i) == 16 * HexValue(s[i + 1]) + HexValue(s[i + 2])
IsEscape(s, i) ==
  /\ s[i] = Ch.percent /\ ByteAt(s, i + 1) \in Hex /\ ByteAt(s, i + 2) \in Hex
  /\ CodeAt(s, i) \notin LeftEscaped

Step(s, i) ==
  IF s[i] = Ch.plus THEN <<Space>> ELSE IF IsEscape(s, i) THEN <<CodeAt(s, i)>> ELSE <<s[i]>>
Next1(s, i) == IF s[i] # Ch.plus /\ IsEscape(s, i) THEN i + 3 ELSE i + 1

StepsOf(s) == [i \in 1..Len(s) |-> Step(s, i)]
NextsOf(s) == [i \in 1..Len(s) |-> Next1(s, i)]
Decodes(R, s) == Runs(R, StepsOf(s), NextsOf(s), Len(s))

(* Hexadecimal digits and their values.                                    *)
LEMMA HexAre ==
  /\ Hex \subseteq Octets /\ Nul \notin Hex /\ Ch.percent \notin Hex /\ Ch.plus \notin Hex
  /\ \A b \in Hex : HexValue(b) \in 0..15
  <1>1. Hex \subseteq Octets /\ Nul \notin Hex /\ Ch.percent \notin Hex /\ Ch.plus \notin Hex
    BY DEF Hex, Digits, Nul, Ch, Octets
  <1>2. ASSUME NEW b \in Hex
        PROVE  HexValue(b) \in 0..15
    <2>1. b \in 48..57 \/ b \in 65..70 \/ b \in 97..102
      BY DEF Hex, Digits
    <2>2. HexValue(b) = IF b \in 48..57 THEN b - 48 ELSE (b % 32) + 9
      BY DEF HexValue, Digits
    <2>3. (b \in 65..70 => b % 32 = b - 64) /\ (b \in 97..102 => b % 32 = b - 96)
      OBVIOUS
    <2> QED
      BY <2>1, <2>2, <2>3
  <1> QED
    BY <1>1, <1>2

(* Each step of UrlDecode yields at most a byte and goes forward.          *)
LEMMA StepsAre ==
  ASSUME NEW s \in Seq(Octets)
  PROVE  /\ Forward(NextsOf(s), Len(s))
         /\ \A i \in 1..Len(s) : /\ StepsOf(s)[i] = Step(s, i) /\ NextsOf(s)[i] = Next1(s, i)
                                 /\ Step(s, i) \in Seq(Octets)
  <1>0. Len(s) \in Nat
    BY LenProperties
  <1>1. ASSUME NEW i \in 1..Len(s)
        PROVE  Step(s, i) \in Seq(Octets) /\ Next1(s, i) \in Nat /\ i < Next1(s, i)
               /\ Next1(s, i) <= Len(s) + 1
    <2>1. s[i] \in Octets
      BY ElementOfSeq
    <2>2. IsEscape(s, i) => /\ i + 2 <= Len(s) /\ CodeAt(s, i) \in Octets
      <3> SUFFICES ASSUME IsEscape(s, i)
                   PROVE  i + 2 <= Len(s) /\ CodeAt(s, i) \in Octets
        OBVIOUS
      <3>1. i + 1 <= Len(s) /\ i + 2 <= Len(s)
        BY HexAre DEF IsEscape, ByteAt
      <3>2. s[i + 1] \in Hex /\ s[i + 2] \in Hex
        BY <3>1 DEF IsEscape, ByteAt
      <3> DEFINE h == HexValue(s[i + 1])
                 l == HexValue(s[i + 2])
      <3>3. h \in 0..15 /\ l \in 0..15
        BY <3>2, HexAre
      <3>4. CodeAt(s, i) = 16 * h + l
        BY DEF CodeAt
      <3> HIDE DEF h, l
      <3> QED
        BY <3>1, <3>3, <3>4 DEF Octets
    <2>3. Step(s, i) \in Seq(Octets)
      <3>1. Space \in Octets
        BY DEF Space, Octets
      <3> HIDE DEF Octets
      <3> QED
        BY <2>1, <2>2, <3>1 DEF Step
    <2>4. Next1(s, i) = i + 1 \/ (Next1(s, i) = i + 3 /\ i + 2 <= Len(s))
      BY <2>2 DEF Next1
    <2> QED
      BY <1>0, <2>3, <2>4
  <1>2. \A i \in 1..Len(s) : StepsOf(s)[i] = Step(s, i) /\ NextsOf(s)[i] = Next1(s, i)
    BY DEF StepsOf, NextsOf
  <1> QED
    BY <1>1, <1>2 DEF Forward

(* UrlDecode is what the steps yield.                                      *)
LEMMA DecodeIs ==
  ASSUME NEW s \in Seq(Octets), NEW R, Decodes(R, s)
  PROVE  UrlDecode(s) = R[1]
  <1> DEFINE L == Len(s)
             Body(X, i) ==
               IF i > L THEN <<>>
               ELSE IF s[i] = Ch.plus THEN <<Space>> \o X[i + 1]
               ELSE IF /\ s[i] = Ch.percent /\ ByteAt(s, i + 1) \in Hex
                       /\ ByteAt(s, i + 2) \in Hex
                       /\ CodeAt(s, i) \notin LeftEscaped
                    THEN <<CodeAt(s, i)>> \o X[i + 3]
               ELSE <<s[i]>> \o X[i + 1]
             Unfolds(X) == X = [i \in 1..(L + 1) |-> Body(X, i)]
             h == [i \in 1..(L + 1) |-> R[i]]
             C == CHOOSE X : Unfolds(X)
  <1>0. L \in Nat
    BY LenProperties
  <1>1. UrlDecode(s) = C[1]
    BY DEF UrlDecode, ByteAt, CodeAt
  <1>2. ASSUME NEW X, NEW i \in 1..L
        PROVE  Body(X, i) = Step(s, i) \o X[Next1(s, i)]
    <2>1. ~(i > L)
      BY <1>0
    <2> QED
      BY <2>1 DEF Step, Next1, IsEscape
  <1>3. ASSUME NEW X
        PROVE  Body(X, L + 1) = <<>>
    BY <1>0
  <1> HIDE DEF Body
  <1>4. ASSUME NEW i \in 1..(L + 1)
        PROVE  h[i] = Body(h, i)
    <2>1. CASE i = L + 1
      BY <1>3, <2>1 DEF Decodes, Runs
    <2>2. CASE i # L + 1
      <3>1. i \in 1..L
        BY <1>0, <2>2
      <3>2. Next1(s, i) \in 1..(L + 1)
        <4>1. Next1(s, i) \in Nat /\ i < Next1(s, i) /\ Next1(s, i) <= L + 1
          BY <3>1, StepsAre DEF Forward
        <4> QED
          BY <1>0, <4>1
      <3>3. R[i] = Step(s, i) \o R[Next1(s, i)]
        BY <3>1, StepsAre DEF Decodes, Runs
      <3>4. h[i] = R[i] /\ h[Next1(s, i)] = R[Next1(s, i)]
        BY <3>2
      <3> HIDE DEF h
      <3> QED
        BY <1>2, <3>1, <3>3, <3>4
    <2> QED
      BY <2>1, <2>2
  <1>5. Unfolds(h)
    <2>1. h = [i \in 1..(L + 1) |-> h[i]]
      OBVIOUS
    <2> HIDE DEF h
    <2> QED
      BY <1>4, <2>1
  <1>6. Unfolds(C)
    <2> HIDE DEF Unfolds, h
    <2> QED
      BY <1>5
  <1> HIDE DEF C, h
  <1>7. \A i \in 1..(L + 1) : C[i] = Body(C, i)
    BY <1>6
  <1>8. Decodes(C, s)
    <2>1. C[L + 1] = <<>>
      <3>1. L + 1 \in 1..(L + 1)
        BY <1>0
      <3> QED
        BY <1>3, <1>7, <3>1
    <2>2. ASSUME NEW i \in 1..L
          PROVE  C[i] = StepsOf(s)[i] \o C[NextsOf(s)[i]]
      <3>1. i \in 1..(L + 1)
        BY <1>0
      <3>2. C[i] = Step(s, i) \o C[Next1(s, i)]
        BY <1>2, <1>7, <3>1
      <3> QED
        BY <3>2, StepsAre
    <2> QED
      BY <2>1, <2>2 DEF Decodes, Runs
  <1>9. \A i \in 1..(L + 1) : C[i] = R[i]
    BY <1>0, <1>8, StepsAre, RunsUnique DEF Decodes
  <1>10. 1 \in 1..(L + 1)
    BY <1>0
  <1> QED
    BY <1>1, <1>9, <1>10

(* What follows is read as if nothing stood before it.                     *)
LEMMA DecodeBehind ==
  ASSUME NEW q \in Seq(Octets), NEW r \in Seq(Octets), NEW R, Decodes(R, q \o r)
  PROVE  UrlDecode(r) = R[Len(q) + 1]
  <1> DEFINE s == q \o r
             n == Len(q)
             m == Len(r)
             Z == [i \in 1..(m + 1) |-> R[n + i]]
  <1>1. /\ n \in Nat /\ m \in Nat /\ s \in Seq(Octets) /\ Len(s) = n + m
        /\ \A i \in 1..m : n + i \in 1..Len(s) /\ s[n + i] = r[i]
    <2>1. s \in Seq(Octets) /\ Len(s) = n + m /\ n \in Nat /\ m \in Nat
      BY ConcatProperties, LenProperties
    <2>2. ASSUME NEW i \in 1..m
          PROVE  n + i \in 1..Len(s) /\ s[n + i] = r[i]
      <3> DEFINE k == n + i
      <3>1. k \in 1..Len(s) /\ k > n /\ k - n = i
        BY <2>1
      <3>2. k \in 1..(Len(q) + Len(r)) /\ k > Len(q)
        BY <2>1, <3>1
      <3> HIDE DEF k
      <3>3. (q \o r)[k] = r[k - Len(q)]
        BY <3>2, ConcatProperties
      <3> QED
        BY <3>1, <3>3 DEF k
    <2> QED
      BY <2>1, <2>2
  <1>2. Decodes(R, s)
    OBVIOUS
  <1> HIDE DEF s, Z
  <1>3. ASSUME NEW i \in Nat \ {0}
        PROVE  ByteAt(s, n + i) = ByteAt(r, i)
    <2>1. n + i <= Len(s) <=> i <= m
      BY <1>1
    <2>2. i <= m => s[n + i] = r[i]
      BY <1>1
    <2> QED
      BY <2>1, <2>2 DEF ByteAt
  <1>4. ASSUME NEW i \in 1..m
        PROVE  Step(s, n + i) = Step(r, i) /\ Next1(s, n + i) = n + Next1(r, i)
    <2>1. s[n + i] = r[i]
      BY <1>1
    <2>2. (n + i) + 1 = n + (i + 1) /\ (n + i) + 2 = n + (i + 2) /\ (n + i) + 3 = n + (i + 3)
          /\ i + 1 \in Nat \ {0} /\ i + 2 \in Nat \ {0}
      BY <1>1
    <2>3. ByteAt(s, (n + i) + 1) = ByteAt(r, i + 1) /\ ByteAt(s, (n + i) + 2) = ByteAt(r, i + 2)
      BY <1>3, <2>2
    <2>4. IsEscape(s, n + i) <=> IsEscape(r, i)
      <3>1. ASSUME ByteAt(r, i + 1) \in Hex, ByteAt(r, i + 2) \in Hex
            PROVE  CodeAt(s, n + i) = CodeAt(r, i)
        <4>1. i + 1 <= m /\ i + 2 <= m
          BY <3>1, HexAre DEF ByteAt
        <4>2. s[n + (i + 1)] = r[i + 1] /\ s[n + (i + 2)] = r[i + 2]
          <5>1. i + 1 \in 1..m /\ i + 2 \in 1..m
            BY <1>1, <4>1
          <5> QED
            BY <1>1, <5>1
        <4> QED
          BY <2>2, <4>2 DEF CodeAt
      <3> QED
        BY <2>1, <2>3, <3>1 DEF IsEscape
    <2>5. IsEscape(r, i) => CodeAt(s, n + i) = CodeAt(r, i)
      <3> SUFFICES ASSUME IsEscape(r, i)
                   PROVE  CodeAt(s, n + i) = CodeAt(r, i)
        OBVIOUS
      <3>1. i + 1 <= m /\ i + 2 <= m
        BY HexAre DEF ByteAt, IsEscape
      <3>2. s[n + (i + 1)] = r[i + 1] /\ s[n + (i + 2)] = r[i + 2]
        <4>1. i + 1 \in 1..m /\ i + 2 \in 1..m
          BY <1>1, <3>1
        <4> QED
          BY <1>1, <4>1
      <3> QED
        BY <2>2, <3>2 DEF CodeAt
    <2>6. Step(s, n + i) = Step(r, i)
      BY <2>1, <2>4, <2>5 DEF Step
    <2>7. Next1(s, n + i) = n + Next1(r, i)
      BY <2>1, <2>2, <2>4 DEF Next1
    <2> QED
      BY <2>6, <2>7
  <1>5. Decodes(Z, r)
    <2>1. Z[m + 1] = <<>>
      <3>1. m + 1 \in 1..(m + 1) /\ n + (m + 1) = Len(s) + 1
        BY <1>1
      <3>2. Z[m + 1] = R[n + (m + 1)]
        BY <3>1 DEF Z
      <3>3. R[Len(s) + 1] = <<>>
        BY <1>2 DEF Decodes, Runs
      <3> QED
        BY <3>1, <3>2, <3>3
    <2>2. ASSUME NEW i \in 1..m
          PROVE  Z[i] = StepsOf(r)[i] \o Z[NextsOf(r)[i]]
      <3>1. /\ StepsOf(r)[i] = Step(r, i) /\ NextsOf(r)[i] = Next1(r, i)
            /\ Next1(r, i) \in 1..(m + 1) /\ i \in 1..(m + 1)
        <4>1. /\ StepsOf(r)[i] = Step(r, i) /\ NextsOf(r)[i] = Next1(r, i)
              /\ NextsOf(r)[i] \in Nat /\ i < NextsOf(r)[i] /\ NextsOf(r)[i] <= m + 1
          BY StepsAre DEF Forward
        <4> QED
          BY <1>1, <4>1
      <3>2. R[n + i] = Step(s, n + i) \o R[Next1(s, n + i)]
        <4>1. n + i \in 1..Len(s)
          BY <1>1
        <4> QED
          BY <1>1, <1>2, <4>1, StepsAre DEF Decodes, Runs
      <3>3. Z[i] = R[n + i] /\ Z[Next1(r, i)] = R[n + Next1(r, i)]
        BY <3>1 DEF Z
      <3> QED
        BY <1>4, <3>1, <3>2, <3>3
    <2> QED
      BY <2>1, <2>2 DEF Decodes, Runs
  <1>6. UrlDecode(r) = Z[1]
    BY <1>5, DecodeIs
  <1>7. Z[1] = R[n + 1]
    <2>1. 1 \in 1..(m + 1)
      BY <1>1
    <2> QED
      BY <2>1 DEF Z
  <1> QED
    BY <1>6, <1>7

(* The steps of UrlDecode exist.                                           *)
LEMMA DecodeRuns ==
  ASSUME NEW s \in Seq(Octets)
  PROVE  \E R \in [1..(Len(s) + 1) -> Seq(Octets)] : Decodes(R, s)
  <1> DEFINE own == StepsOf(s)
             next == NextsOf(s)
             N == Len(s)
  <1>1. \A i \in 1..N : own[i] \in Seq(Octets)
    BY StepsAre
  <1>2. Forward(next, N) /\ N \in Nat
    BY StepsAre, LenProperties
  <1> HIDE DEF own, next, N
  <1>3. \E R \in [1..(N + 1) -> Seq(Octets)] : Runs(R, own, next, N)
    BY <1>1, <1>2, RunsExist
  <1> QED
    BY <1>3 DEF Decodes, own, next, N

(* UrlDecode yields bytes.                                                 *)
LEMMA DecodedIsText ==
  ASSUME NEW s \in Seq(Octets)
  PROVE  UrlDecode(s) \in Seq(Octets)
  <1>1. PICK R \in [1..(Len(s) + 1) -> Seq(Octets)] : Decodes(R, s)
    BY DecodeRuns
  <1>2. UrlDecode(s) = R[1]
    BY <1>1, DecodeIs
  <1>3. 1 \in 1..(Len(s) + 1)
    BY LenProperties
  <1> QED
    BY <1>2, <1>3

(* The first step, and the rest by itself.                                 *)
LEMMA DecodeFirst ==
  ASSUME NEW q \in Seq(Octets), NEW r \in Seq(Octets), q # <<>>,
         Next1(q \o r, 1) = Len(q) + 1
  PROVE  UrlDecode(q \o r) = Step(q \o r, 1) \o UrlDecode(r)
  <1> DEFINE s == q \o r
             N == Len(s)
  <1>1. s \in Seq(Octets) /\ N \in Nat /\ 1 \in 1..N
    <2>1. s \in Seq(Octets) /\ N = Len(q) + Len(r) /\ Len(q) \in Nat \ {0} /\ Len(r) \in Nat
      BY ConcatProperties, LenProperties, EmptySeq
    <2> HIDE DEF s
    <2> QED
      BY <2>1
  <1> HIDE DEF s
  <1>3. PICK R : Decodes(R, s)
    BY <1>1, DecodeRuns
  <1>4. UrlDecode(s) = R[1]
    BY <1>1, <1>3, DecodeIs
  <1>5. R[1] = Step(s, 1) \o R[Next1(s, 1)]
    BY <1>1, <1>3, StepsAre DEF Decodes, Runs
  <1>6. UrlDecode(r) = R[Len(q) + 1]
    BY <1>3, DecodeBehind DEF s
  <1>7. Next1(s, 1) = Len(q) + 1
    BY DEF s
  <1> QED
    BY <1>4, <1>5, <1>6, <1>7 DEF s

(* UrlDecode of the empty text.                                            *)
LEMMA DecodeNone == UrlDecode(<<>>) = <<>>
  <1> DEFINE e == <<>>
             Z == [i \in 1..1 |-> <<>>]
  <1>1. e \in Seq(Octets) /\ Len(e) = 0
    OBVIOUS
  <1>2. Z[1] = <<>>
    OBVIOUS
  <1> HIDE DEF e, Z
  <1>3. Decodes(Z, e)
    BY <1>1, <1>2 DEF Decodes, Runs
  <1>4. UrlDecode(e) = Z[1]
    BY <1>1, <1>3, DecodeIs
  <1> QED
    BY <1>2, <1>4 DEF e

(* A byte that stands for itself, a "+", an escape.                        *)
FirstAndRest(s, x, r) == s[1] = x /\ \A i \in Nat \ {0} : ByteAt(s, i + 1) = ByteAt(r, i)

(* What follows the first byte.                                            *)
LEMMA AfterOne ==
  ASSUME NEW x \in Octets, NEW r \in Seq(Octets)
  PROVE  /\ One(x) \in Seq(Octets) /\ Len(One(x)) = 1 /\ One(x) # <<>>
         /\ FirstAndRest(One(x) \o r, x, r)
  <1> DEFINE q == One(x)
             s == q \o r
  <1>1. q \in Seq(Octets) /\ Len(q) = 1 /\ q[1] = x /\ q # <<>>
    BY OneIsText
  <1> HIDE DEF q
  <1>2. Len(r) \in Nat /\ Len(s) = 1 + Len(r)
    BY <1>1, ConcatProperties, LenProperties
  <1>3. s[1] = x
    <2>1. 1 \in 1..(Len(q) + Len(r)) /\ 1 <= Len(q)
      BY <1>1, <1>2
    <2>2. s[1] = q[1]
      BY <1>1, <2>1, ConcatProperties
    <2> QED
      BY <1>1, <2>2
  <1>4. ASSUME NEW i \in Nat \ {0}
        PROVE  ByteAt(s, i + 1) = ByteAt(r, i)
    <2>1. i + 1 <= Len(s) <=> i <= Len(r)
      BY <1>2
    <2>2. ASSUME i <= Len(r)
          PROVE  s[i + 1] = r[i]
      <3> DEFINE k == i + 1
      <3>1. k \in 1..(Len(q) + Len(r)) /\ k > Len(q) /\ k - Len(q) = i
        BY <1>1, <1>2, <2>2
      <3> HIDE DEF k
      <3>2. (q \o r)[k] = r[k - Len(q)]
        BY <1>1, <3>1, ConcatProperties
      <3> QED
        BY <3>1, <3>2 DEF k
    <2> QED
      BY <2>1, <2>2 DEF ByteAt
  <1> HIDE DEF s
  <1>5. FirstAndRest(s, x, r)
    BY <1>3, <1>4 DEF FirstAndRest
  <1> QED
    BY <1>1, <1>5 DEF q, s

(* A plus is decoded into a space.                                         *)
LEMMA DecodePlus ==
  ASSUME NEW r \in Seq(Octets)
  PROVE  UrlDecode(One(Ch.plus) \o r) = One(Space) \o UrlDecode(r)
  <1> DEFINE q == One(Ch.plus)
             s == q \o r
  <1>1. q \in Seq(Octets) /\ Len(q) = 1 /\ q # <<>> /\ FirstAndRest(s, Ch.plus, r)
    <2>1. Ch.plus \in Octets
      BY DEF Ch, Octets
    <2> QED
      BY <2>1, AfterOne
  <1> HIDE DEF q
  <1>2. Step(s, 1) = <<Space>> /\ Next1(s, 1) = 2
    BY <1>1 DEF FirstAndRest, Step, Next1
  <1>3. UrlDecode(q \o r) = Step(q \o r, 1) \o UrlDecode(r)
    <2>1. Next1(q \o r, 1) = Len(q) + 1
      BY <1>1, <1>2
    <2> QED
      BY <1>1, <2>1, DecodeFirst
  <1> QED
    BY <1>2, <1>3 DEF q, One

Undecoded(x, r) ==
  \/ x # Ch.percent
  \/ ByteAt(r, 1) \notin Hex
  \/ ByteAt(r, 2) \notin Hex
  \/ 16 * HexValue(ByteAt(r, 1)) + HexValue(ByteAt(r, 2)) \in LeftEscaped

(* A byte that begins no escape, or one that is left as it is.             *)
LEMMA DecodeOther ==
  ASSUME NEW x \in Octets, NEW r \in Seq(Octets), x # Ch.plus, Undecoded(x, r)
  PROVE  UrlDecode(One(x) \o r) = One(x) \o UrlDecode(r)
  <1> DEFINE q == One(x)
             s == q \o r
  <1>1. q \in Seq(Octets) /\ Len(q) = 1 /\ q # <<>> /\ FirstAndRest(s, x, r)
    BY AfterOne
  <1>2. s[1] = x /\ ByteAt(s, 2) = ByteAt(r, 1) /\ ByteAt(s, 3) = ByteAt(r, 2)
    <2>1. 1 + 1 = 2 /\ 2 + 1 = 3 /\ 1 \in Nat \ {0} /\ 2 \in Nat \ {0}
      OBVIOUS
    <2> QED
      BY <1>1, <2>1 DEF FirstAndRest
  <1> HIDE DEF q, s
  <1>3. ~IsEscape(s, 1)
    <2> SUFFICES ASSUME IsEscape(s, 1)
                 PROVE  FALSE
      OBVIOUS
    <2>1. 1 + 1 = 2 /\ 1 + 2 = 3
      OBVIOUS
    <2>2. s[1] = Ch.percent /\ ByteAt(s, 2) \in Hex /\ ByteAt(s, 3) \in Hex
          /\ CodeAt(s, 1) \notin LeftEscaped
      BY <2>1 DEF IsEscape
    <2>3. s[2] = ByteAt(s, 2) /\ s[3] = ByteAt(s, 3)
      BY <2>2, HexAre DEF ByteAt
    <2>4. CodeAt(s, 1) = 16 * HexValue(ByteAt(r, 1)) + HexValue(ByteAt(r, 2))
      BY <1>2, <2>1, <2>3 DEF CodeAt
    <2> QED
      BY <1>2, <2>2, <2>4 DEF Undecoded
  <1>4. Step(s, 1) = <<x>> /\ Next1(s, 1) = 2
    BY <1>2, <1>3 DEF Step, Next1
  <1>5. UrlDecode(q \o r) = Step(q \o r, 1) \o UrlDecode(r)
    <2>1. Next1(q \o r, 1) = Len(q) + 1
      BY <1>1, <1>4 DEF s
    <2> QED
      BY <1>1, <2>1, DecodeFirst
  <1> QED
    BY <1>4, <1>5 DEF q, s, One

(* An escape is decoded into its byte.                                     *)
LEMMA DecodeEscape ==
  ASSUME NEW h \in Hex, NEW l \in Hex, NEW b \in Octets, 16 * HexValue(h) + HexValue(l) = b,
         b \notin LeftEscaped, NEW r \in Seq(Octets)
  PROVE  UrlDecode(<<Ch.percent, h, l>> \o r) = One(b) \o UrlDecode(r)
  <1> DEFINE q == <<Ch.percent, h, l>>
             s == q \o r
  <1>1. q \in Seq(Octets) /\ Len(q) = 3 /\ q[1] = Ch.percent /\ q[2] = h /\ q[3] = l
    <2>1. Ch.percent \in Octets /\ h \in Octets /\ l \in Octets
      BY HexAre DEF Ch, Octets
    <2> HIDE DEF Octets
    <2> QED
      BY <2>1
  <1>2. q # <<>>
    OBVIOUS
  <1> HIDE DEF q
  <1>3. Len(r) \in Nat /\ Len(s) = 3 + Len(r)
    <2>1. Len(r) \in Nat
      BY LenProperties
    <2>2. Len(q \o r) = Len(q) + Len(r)
      BY <1>1, ConcatProperties
    <2> QED
      BY <1>1, <2>1, <2>2
  <1>4. \A i \in 1..3 : s[i] = q[i]
    <2> TAKE i \in 1..3
    <2>1. i \in 1..(Len(q) + Len(r)) /\ i <= Len(q)
      BY <1>1, <1>3
    <2> QED
      BY <1>1, <2>1, ConcatProperties
  <1> HIDE DEF s
  <1>5. s[1] = Ch.percent /\ s[2] = h /\ s[3] = l
    <2>1. 1 \in 1..3 /\ 2 \in 1..3 /\ 3 \in 1..3
      OBVIOUS
    <2> QED
      BY <1>1, <1>4, <2>1
  <1>6. IsEscape(s, 1) /\ CodeAt(s, 1) = b /\ s[1] # Ch.plus
    <2>1. 1 + 1 = 2 /\ 1 + 2 = 3 /\ 2 <= Len(s) /\ 3 <= Len(s)
      BY <1>3
    <2>2. ByteAt(s, 1 + 1) = h /\ ByteAt(s, 1 + 2) = l
      BY <1>5, <2>1 DEF ByteAt
    <2>3. CodeAt(s, 1) = b
      BY <1>5, <2>1 DEF CodeAt
    <2>4. Ch.percent # Ch.plus
      BY DEF Ch
    <2> QED
      BY <1>5, <2>2, <2>3, <2>4 DEF IsEscape
  <1>7. Step(s, 1) = <<b>> /\ Next1(s, 1) = 4
    BY <1>6 DEF Step, Next1
  <1>8. UrlDecode(q \o r) = Step(q \o r, 1) \o UrlDecode(r)
    <2>1. Next1(q \o r, 1) = Len(q) + 1
      BY <1>1, <1>7 DEF s
    <2> QED
      BY <1>1, <1>2, <2>1, DecodeFirst
  <1> QED
    BY <1>7, <1>8 DEF q, s, One

-----------------------------------------------------------------------------
(* What a client sends and what it means.                                  *)
Sym == {x \in [byte : 0..255, escaped : BOOLEAN] : x.escaped \/ x.byte \in InLine}

SpellOf == [x \in Sym |-> IF x.escaped THEN Escape(x.byte) ELSE <<x.byte>>]
MeanOf ==
  [x \in Sym |-> IF x.escaped /\ x.byte \notin LeftEscaped THEN <<256 + x.byte>>
                 ELSE IF x.escaped THEN Escape(x.byte)
                 ELSE IF x.byte = Ch.plus THEN <<Space>> ELSE <<x.byte>>]

(* Escape gives two digits with the byte's value.                          *)
LEMMA EscapeIs ==
  ASSUME NEW b \in Octets
  PROVE  \E h, l \in Hex : Escape(b) = <<Ch.percent, h, l>> /\ 16 * HexValue(h) + HexValue(l) = b
  <1>1. ASSUME NEW n \in 0..15
        PROVE  HexDigit(n) \in Hex /\ HexValue(HexDigit(n)) = n
    <2>1. HexDigit(n) = IF n < 10 THEN 48 + n ELSE 55 + n
      BY DEF HexDigit
    <2>2. HexDigit(n) \in Hex
      BY <2>1 DEF Hex, Digits
    <2>3. HexValue(HexDigit(n)) = IF HexDigit(n) \in 48..57 THEN HexDigit(n) - 48
                                  ELSE (HexDigit(n) % 32) + 9
      BY DEF HexValue, Digits
    <2> DEFINE d == HexDigit(n)
    <2> HIDE DEF d
    <2>4. d = (IF n < 10 THEN 48 + n ELSE 55 + n)
      BY <2>1 DEF d
    <2>5. n >= 10 => d % 32 = n - 9
      BY <2>4
    <2>6. (IF d \in 48..57 THEN d - 48 ELSE (d % 32) + 9) = n
      BY <2>4, <2>5
    <2> QED
      BY <2>2, <2>3, <2>6 DEF d
  <1> DEFINE m == b \div 16
             n == b % 16
  <1>2. m \in 0..15 /\ n \in 0..15 /\ 16 * m + n = b
    <2>1. b \in Int /\ 0 <= b /\ b <= 255
      BY DEF Octets
    <2>2. m \in Int /\ 0 <= m /\ m <= 15
      BY <2>1
    <2>3. n \in Int /\ 0 <= n /\ n <= 15
      BY <2>1
    <2>4. 16 * m + n = b
      BY <2>1
    <2> HIDE DEF m, n
    <2> QED
      BY <2>2, <2>3, <2>4
  <1>3. Escape(b) = <<Ch.percent, HexDigit(m), HexDigit(n)>>
    BY DEF Escape
  <1> HIDE DEF m, n
  <1>4. m \in 0..15 /\ n \in 0..15 /\ 16 * m + n = b
    BY <1>2
  <1>5. HexDigit(m) \in Hex /\ HexDigit(n) \in Hex
        /\ 16 * HexValue(HexDigit(m)) + HexValue(HexDigit(n)) = b
    BY <1>1, <1>4
  <1> QED
    BY <1>3, <1>5

(* An escape is three bytes.                                               *)
LEMMA EscapeIsText ==
  ASSUME NEW b \in Octets
  PROVE  /\ Escape(b) \in Seq(Octets) /\ Len(Escape(b)) = 3 /\ Escape(b)[1] = Ch.percent
         /\ \A x \in ToSet(Escape(b)) : x \in Hex \cup {Ch.percent}
  <1>1. PICK h \in Hex, l \in Hex : Escape(b) = <<Ch.percent, h, l>>
    BY EscapeIs
  <1>2. Ch.percent \in Octets /\ h \in Octets /\ l \in Octets
    BY HexAre DEF Ch, Octets
  <1> DEFINE e == <<Ch.percent, h, l>>
             O == Octets
  <1>3. e \in Seq(O) /\ Len(e) = 3 /\ e[1] = Ch.percent
    <2> HIDE DEF O
    <2> QED
      BY <1>2 DEF O
  <1>4. ToSet(e) = {Ch.percent, h, l}
    BY DEF ToSet
  <1> QED
    BY <1>1, <1>3, <1>4

(* Each symbol is spelled in bytes, and means one byte or its escape.      *)
LEMMA SymbolsSpread ==
  /\ Spreads(SpellOf, Sym, Octets) /\ Spreads(MeanOf, Sym, Clean)
  /\ \A x \in Sym : /\ x.byte \in Octets /\ x.escaped \in BOOLEAN
                    /\ ~x.escaped => x.byte \in InLine
                    /\ SpellOf[x] = IF x.escaped THEN Escape(x.byte) ELSE <<x.byte>>
  <1>1. \A x \in Sym : /\ x.byte \in Octets /\ x.escaped \in BOOLEAN
                       /\ ~x.escaped => x.byte \in InLine
    BY DEF Sym, Octets
  <1>2. ASSUME NEW x \in Sym
        PROVE  SpellOf[x] \in Seq(Octets)
    <2>1. Escape(x.byte) \in Seq(Octets) /\ <<x.byte>> \in Seq(Octets)
      BY <1>1, EscapeIsText
    <2> QED
      BY <2>1 DEF SpellOf
  <1>3. ASSUME NEW x \in Sym
        PROVE  MeanOf[x] \in Seq(Clean)
    <2> DEFINE b == x.byte
    <2>1. b \in Octets
      BY <1>1
    <2>2. Escape(b) \in Seq(Clean) /\ <<b>> \in Seq(Clean) /\ <<Space>> \in Seq(Clean)
      <3>1. Escape(b) \in Seq(Octets)
        BY <2>1, EscapeIsText
      <3>2. Escape(b) \in Seq(Clean)
        BY <3>1, PlainOfPlain DEF Octets
      <3>3. b \in Clean /\ Space \in Clean
        BY <2>1 DEF Clean, Octets, Space
      <3> HIDE DEF b
      <3> QED
        BY <3>2, <3>3
    <2>3. ASSUME b \notin LeftEscaped
          PROVE  <<256 + b>> \in Seq(Clean)
      <3>1. 256 + b \in Clean
        <4> HIDE DEF b
        <4>1. 256 + b \in 0..511 /\ (256 + b) - 256 = b
          BY <2>1 DEF Octets
        <4> QED
          BY <2>3, <4>1 DEF Clean
      <3> HIDE DEF b
      <3> QED
        BY <3>1
    <2>4. MeanOf[x] = IF x.escaped /\ b \notin LeftEscaped THEN <<256 + b>>
                      ELSE IF x.escaped THEN Escape(b)
                      ELSE IF b = Ch.plus THEN <<Space>> ELSE <<b>>
      BY DEF MeanOf
    <2> HIDE DEF b
    <2> QED
      BY <2>2, <2>3, <2>4
  <1>4. Spreads(SpellOf, Sym, Octets)
    BY <1>2 DEF Spreads, Maps, SpellOf
  <1>5. Spreads(MeanOf, Sym, Clean)
    BY <1>3 DEF Spreads, Maps, MeanOf
  <1>6. \A x \in Sym : SpellOf[x] = IF x.escaped THEN Escape(x.byte) ELSE <<x.byte>>
    BY DEF SpellOf
  <1> QED
    BY <1>1, <1>4, <1>5, <1>6

(* What symbols are spelled and what they mean.                            *)
LEMMA SpelledIs ==
  ASSUME NEW symbols \in Seq(Sym)
  PROVE  /\ Spelled(symbols) = Spread(SpellOf, symbols) /\ Spelled(symbols) \in Seq(Octets)
         /\ Meant(symbols) = Spread(MeanOf, symbols) /\ Meant(symbols) \in Seq(Clean)
  <1>1. \A i \in 1..Len(symbols) : symbols[i] \in Sym
    BY ElementOfSeq
  <1>2. Mapped(SpellOf, symbols) =
          [i \in 1..Len(symbols) |->
             IF symbols[i].escaped THEN Escape(symbols[i].byte) ELSE <<symbols[i].byte>>]
    BY <1>1 DEF Mapped, SpellOf
  <1>3. Spelled(symbols) = Spread(SpellOf, symbols)
    BY <1>2 DEF Spelled, Spread
  <1> DEFINE Meaning(s) ==
               IF s.escaped /\ s.byte \notin LeftEscaped THEN <<256 + s.byte>>
               ELSE IF s.escaped THEN Escape(s.byte)
               ELSE IF s.byte = Ch.plus THEN <<Space>> ELSE <<s.byte>>
  <1>4. Meant(symbols) = FlattenSeq([i \in 1..Len(symbols) |-> Meaning(symbols[i])])
    BY DEF Meant
  <1>5. \A x \in Sym : MeanOf[x] = Meaning(x)
    BY DEF MeanOf
  <1> HIDE DEF Meaning
  <1>6. Mapped(MeanOf, symbols) = [i \in 1..Len(symbols) |-> Meaning(symbols[i])]
    BY <1>1, <1>5 DEF Mapped
  <1>7. Meant(symbols) = Spread(MeanOf, symbols)
    BY <1>4, <1>6 DEF Spread
  <1>8. Spread(SpellOf, symbols) \in Seq(Octets) /\ Spread(MeanOf, symbols) \in Seq(Clean)
    BY SymbolsSpread, SpreadIsText
  <1> QED
    BY <1>3, <1>7, <1>8

(* A hexadecimal digit can only have been sent as it is.                   *)
Bare(c, z, d) ==
  /\ StartsIn(c, z, d) /\ ~z.escaped /\ z.byte \in Hex
  /\ \A i \in Nat \ {0} : ByteAt(Spread(SpellOf, c), i + 1) = ByteAt(Spread(SpellOf, d), i)

(* A digit at the beginning is a symbol that is not escaped.               *)
LEMMA FirstIsBare ==
  ASSUME NEW c \in Seq(Sym), ByteAt(Spread(SpellOf, c), 1) \in Hex
  PROVE  \E z \in Sym, d \in Seq(Sym) : Bare(c, z, d)
  <1>1. c # <<>>
    <2> SUFFICES ASSUME c = <<>> PROVE FALSE
      OBVIOUS
    <2>1. Spread(SpellOf, c) = <<>>
      BY MappedOfNone
    <2>2. ByteAt(Spread(SpellOf, c), 1) = Nul
      BY <2>1 DEF ByteAt
    <2> QED
      BY <2>2, HexAre
  <1>2. PICK z \in Sym, d \in Seq(Sym) : StartsIn(c, z, d)
    BY <1>1, FirstOfText
  <1>3. Spread(SpellOf, c) = Value(SpellOf, z) \o Spread(SpellOf, d)
    <2>1. Spread(SpellOf, One(z) \o d) = Value(SpellOf, z) \o Spread(SpellOf, d)
      <3>1. Spreads(SpellOf, Sym, Octets)
        BY SymbolsSpread
      <3> QED
        BY <3>1, SpreadOfFirst
    <2> QED
      BY <1>2, <2>1 DEF StartsIn, One
  <1> DEFINE r == Spread(SpellOf, d)
             v == Value(SpellOf, z)
             s == Spread(SpellOf, c)
  <1>4. r \in Seq(Octets) /\ v \in Seq(Octets) /\ v = SpellOf[z]
    BY SymbolsSpread, SpreadIsText DEF Spreads, Maps, Value
  <1>5. v = IF z.escaped THEN Escape(z.byte) ELSE <<z.byte>>
    BY <1>4, SymbolsSpread
  <1>6. ByteAt(s, 1) \in Hex /\ s = v \o r
    BY <1>3
  <1> HIDE DEF r, v, s
  <1>7. ~z.escaped
    <2> SUFFICES ASSUME z.escaped PROVE FALSE
      OBVIOUS
    <2>1. Len(v) = 3 /\ v[1] = Ch.percent
      BY <1>5, SymbolsSpread, EscapeIsText
    <2>2. Len(s) = 3 + Len(r) /\ Len(r) \in Nat
      <3>1. Len(v \o r) = Len(v) + Len(r) /\ Len(r) \in Nat
        BY <1>4, ConcatProperties, LenProperties
      <3> QED
        BY <1>6, <2>1, <3>1
    <2>3. s[1] = v[1]
      <3>1. 1 \in 1..(Len(v) + Len(r)) /\ 1 <= Len(v)
        BY <2>1, <2>2
      <3>2. (v \o r)[1] = v[1]
        BY <1>4, <3>1, ConcatProperties
      <3> QED
        BY <1>6, <3>2
    <2>4. ByteAt(s, 1) = Ch.percent
      BY <2>1, <2>2, <2>3 DEF ByteAt
    <2> QED
      BY <1>6, <2>4, HexAre
  <1>8. s = One(z.byte) \o r /\ z.byte \in Octets
    BY <1>5, <1>6, <1>7, SymbolsSpread DEF One
  <1>9. FirstAndRest(s, z.byte, r)
    BY <1>4, <1>8, AfterOne
  <1>10. z.byte \in Hex
    <2>1. ByteAt(s, 1) = s[1]
      BY <1>6, HexAre DEF ByteAt
    <2> QED
      BY <1>6, <1>9, <2>1 DEF FirstAndRest
  <1>11. Bare(c, z, d)
    BY <1>2, <1>7, <1>9, <1>10 DEF Bare, FirstAndRest, s, r
  <1> QED
    BY <1>11

(* One more symbol in front.                                               *)
LEMMA NextSymbol ==
  ASSUME NEW x \in Sym, NEW b \in Seq(Sym)
  PROVE  /\ One(x) \o b \in Seq(Sym) /\ Len(One(x) \o b) = Len(b) + 1 /\ Len(b) \in Nat
         /\ (One(x) \o b)[1] = x
         /\ \A i \in 1..Len(b) : (One(x) \o b)[i + 1] = b[i]
  <1> DEFINE q == One(x)
             s == q \o b
  <1>1. q \in Seq(Sym) /\ Len(q) = 1 /\ q[1] = x
    BY OneIsText
  <1> HIDE DEF q
  <1>2. s \in Seq(Sym) /\ Len(s) = Len(b) + 1 /\ Len(b) \in Nat
    <2>1. Len(b) \in Nat /\ Len(q \o b) = Len(q) + Len(b) /\ q \o b \in Seq(Sym)
      BY <1>1, ConcatProperties, LenProperties
    <2> QED
      BY <1>1, <2>1
  <1>3. s[1] = x
    <2>1. 1 \in 1..(Len(q) + Len(b)) /\ 1 <= Len(q)
      BY <1>1, <1>2
    <2>2. (q \o b)[1] = q[1]
      BY <1>1, <2>1, ConcatProperties
    <2> QED
      BY <1>1, <2>2
  <1>4. ASSUME NEW i \in 1..Len(b)
        PROVE  s[i + 1] = b[i]
    <2> DEFINE k == i + 1
    <2>1. k \in 1..(Len(q) + Len(b)) /\ k > Len(q) /\ k - Len(q) = i
      BY <1>1, <1>2
    <2> HIDE DEF k
    <2>2. (q \o b)[k] = b[k - Len(q)]
      BY <1>1, <2>1, ConcatProperties
    <2> QED
      BY <2>1, <2>2 DEF k
  <1> QED
    BY <1>2, <1>3, <1>4 DEF q

(* Symbols that mislead do so with another in front.                       *)
LEMMA MisleadingFurther ==
  ASSUME NEW x \in Sym, NEW b \in Seq(Sym), Misleading(b)
  PROVE  Misleading(One(x) \o b)
  <1> DEFINE s == One(x) \o b
  <1>1. Len(s) = Len(b) + 1 /\ Len(b) \in Nat /\ \A i \in 1..Len(b) : s[i + 1] = b[i]
    BY NextSymbol
  <1>2. PICK i \in 1..(Len(b) - 2) :
          /\ \A j \in i..(i + 2) : ~b[j].escaped
          /\ b[i].byte = Ch.percent /\ b[i + 1].byte \in Hex /\ b[i + 2].byte \in Hex
    BY DEF Misleading
  <1> HIDE DEF s
  <1>3. i + 1 \in 1..(Len(s) - 2)
    BY <1>1
  <1>4. s[i + 1] = b[i] /\ s[(i + 1) + 1] = b[i + 1] /\ s[(i + 2) + 1] = b[i + 2]
        /\ (i + 1) + 2 = (i + 2) + 1
    BY <1>1
  <1>5. \A j \in (i + 1)..((i + 1) + 2) : ~s[j].escaped
    <2> TAKE j \in (i + 1)..((i + 1) + 2)
    <2> DEFINE k == j - 1
    <2>1. k \in i..(i + 2) /\ k \in 1..Len(b) /\ k + 1 = j
      BY <1>1
    <2> HIDE DEF k
    <2>2. s[k + 1] = b[k]
      BY <1>1, <2>1
    <2> QED
      BY <1>2, <2>1, <2>2
  <1>6. Misleading(s)
    <2> DEFINE m == i + 1
    <2>1. /\ \A j \in m..(m + 2) : ~s[j].escaped
          /\ s[m].byte = Ch.percent /\ s[m + 1].byte \in Hex /\ s[m + 2].byte \in Hex
      <3>1. s[m + 2] = s[(i + 2) + 1]
        BY <1>4
      <3> QED
        BY <1>2, <1>4, <1>5, <3>1
    <2>2. m \in 1..(Len(s) - 2)
      BY <1>3
    <2> HIDE DEF m
    <2> QED
      BY <2>1, <2>2 DEF Misleading
  <1> QED
    BY <1>6 DEF s

(* A "%" that is sent as it is begins no escape, unless it misleads.       *)
LEMMA PercentStays ==
  ASSUME NEW x \in Sym, NEW b \in Seq(Sym), ~Misleading(One(x) \o b),
         ~x.escaped, x.byte = Ch.percent
  PROVE  Undecoded(Ch.percent, Spread(SpellOf, b))
  <1> DEFINE r == Spread(SpellOf, b)
             s == One(x) \o b
  <1> SUFFICES ASSUME ByteAt(r, 1) \in Hex, ByteAt(r, 2) \in Hex
               PROVE  FALSE
    BY DEF Undecoded
  <1>1. PICK y \in Sym, c \in Seq(Sym) : Bare(b, y, c)
    BY FirstIsBare
  <1>2. ByteAt(Spread(SpellOf, c), 1) \in Hex
    <2>1. 1 + 1 = 2 /\ 1 \in Nat \ {0}
      OBVIOUS
    <2>2. ByteAt(r, 1 + 1) = ByteAt(Spread(SpellOf, c), 1)
      BY <1>1, <2>1 DEF Bare
    <2> QED
      BY <2>1, <2>2
  <1>3. PICK z \in Sym, d \in Seq(Sym) : Bare(c, z, d)
    BY <1>2, FirstIsBare
  <1>4. b = One(y) \o c /\ c = One(z) \o d /\ ~y.escaped /\ ~z.escaped
        /\ y.byte \in Hex /\ z.byte \in Hex
    BY <1>1, <1>3 DEF Bare, StartsIn, One
  <1>5. Len(c) = Len(d) + 1 /\ Len(d) \in Nat /\ c[1] = z
    BY <1>4, NextSymbol
  <1>6. Len(b) = Len(c) + 1 /\ b[1] = y /\ \A i \in 1..Len(c) : b[i + 1] = c[i]
    <2>1. /\ Len(One(y) \o c) = Len(c) + 1 /\ (One(y) \o c)[1] = y
          /\ \A i \in 1..Len(c) : (One(y) \o c)[i + 1] = c[i]
      BY NextSymbol
    <2>2. b = One(y) \o c
      BY <1>4
    <2> QED
      BY <2>1, <2>2
  <1>7. Len(s) = Len(b) + 1 /\ s[1] = x /\ \A i \in 1..Len(b) : s[i + 1] = b[i]
    BY NextSymbol
  <1> HIDE DEF s, r
  <1>8. Len(s) - 2 >= 1 /\ Len(s) \in Nat /\ 1 \in 1..Len(b) /\ 2 \in 1..Len(b) /\ 1 \in 1..Len(c)
    BY <1>5, <1>6, <1>7
  <1>9. s[2] = y /\ s[3] = z
    <2>1. 1 + 1 = 2 /\ 2 + 1 = 3
      OBVIOUS
    <2>2. s[1 + 1] = b[1] /\ s[2 + 1] = b[2] /\ b[1 + 1] = c[1]
      BY <1>6, <1>7, <1>8
    <2> QED
      BY <1>5, <1>6, <2>1, <2>2
  <1>10. \A j \in 1..3 : ~s[j].escaped
    <2> TAKE j \in 1..3
    <2>1. j = 1 \/ j = 2 \/ j = 3
      OBVIOUS
    <2> QED
      BY <1>4, <1>7, <1>9, <2>1
  <1>11. Misleading(s)
    <2>1. 1 \in 1..(Len(s) - 2) /\ 1 + 1 = 2 /\ 1 + 2 = 3
      BY <1>8
    <2> QED
      BY <1>4, <1>7, <1>9, <1>10, <2>1 DEF Misleading
  <1> QED
    BY <1>11 DEF s

(* Bytes without marks stay as they are.                                   *)
LEMMA LowOfOctets ==
  ASSUME NEW s \in Seq(Octets)
  PROVE  Mapped(Low, s) = s
  <1>1. s \in Seq(0..255)
    BY DEF Octets
  <1>2. Plain(s) = s /\ s \in Seq(Clean)
    BY <1>1, PlainOfPlain
  <1> QED
    BY <1>2, PlainIsMapped

(* The first symbol is decoded into what it means, unless it is one of     *)
(* those that mislead.                                                     *)
LEMMA SymbolDecoded ==
  ASSUME NEW x \in Sym, NEW b \in Seq(Sym), ~Misleading(One(x) \o b)
  PROVE  UrlDecode(Value(SpellOf, x) \o Spread(SpellOf, b)) =
           Mapped(Low, Value(MeanOf, x)) \o UrlDecode(Spread(SpellOf, b))
  <1> DEFINE r == Spread(SpellOf, b)
             y == x.byte
  <1>1. r \in Seq(Octets)
    BY SymbolsSpread, SpreadIsText
  <1>2. y \in Octets /\ x.escaped \in BOOLEAN
    BY SymbolsSpread
  <1>3. Value(SpellOf, x) = IF x.escaped THEN Escape(y) ELSE One(y)
    BY SymbolsSpread DEF Value, One
  <1>4. Value(MeanOf, x) = IF x.escaped /\ y \notin LeftEscaped THEN One(256 + y)
                           ELSE IF x.escaped THEN Escape(y)
                           ELSE IF y = Ch.plus THEN One(Space) ELSE One(y)
    BY DEF Value, MeanOf, One
  <1>5. \A o \in Octets : Mapped(Low, One(o)) = One(o)
    BY OneIsText, LowOfOctets
  <1>6. CASE ~x.escaped /\ y = Ch.plus
    <2>1. Mapped(Low, One(Space)) = One(Space)
      <3>1. Space \in Octets
        BY DEF Space, Octets
      <3> QED
        BY <1>5, <3>1
    <2>2. UrlDecode(One(Ch.plus) \o r) = One(Space) \o UrlDecode(r)
      BY <1>1, DecodePlus
    <2> QED
      BY <1>3, <1>4, <1>6, <2>1, <2>2
  <1>7. CASE ~x.escaped /\ y # Ch.plus
    <2>1. Undecoded(y, r)
      <3>1. CASE y = Ch.percent
        BY <1>7, <3>1, PercentStays
      <3>2. CASE y # Ch.percent
        BY <3>2 DEF Undecoded
      <3> QED
        BY <3>1, <3>2
    <2> HIDE DEF r, y
    <2>2. UrlDecode(One(y) \o r) = One(y) \o UrlDecode(r)
      BY <1>1, <1>2, <1>7, <2>1, DecodeOther
    <2>3. Mapped(Low, One(y)) = One(y)
      BY <1>2, <1>5
    <2> QED
      BY <1>3, <1>4, <1>7, <2>2, <2>3 DEF r
  <1>8. PICK h \in Hex, l \in Hex : Escape(y) = <<Ch.percent, h, l>> /\ 16 * HexValue(h) + HexValue(l) = y
    BY <1>2, EscapeIs
  <1>9. CASE x.escaped /\ y \notin LeftEscaped
    <2> HIDE DEF r, y
    <2>1. UrlDecode(<<Ch.percent, h, l>> \o r) = One(y) \o UrlDecode(r)
      BY <1>1, <1>2, <1>8, <1>9, DecodeEscape
    <2>2. Mapped(Low, One(256 + y)) = One(y)
      <3> DEFINE b1 == 256 + y
      <3>1. b1 \in Clean /\ ~(b1 < 256) /\ b1 - 256 = y
        BY <1>2, <1>9 DEF Clean, Octets
      <3> HIDE DEF b1
      <3>2. Low[b1] = y
        BY <3>1, LowMaps
      <3>3. Mapped(Low, <<b1>>) = <<Low[b1]>>
        BY <3>1, LowMaps, MappedOfOne
      <3> QED
        BY <3>2, <3>3 DEF One, b1
    <2>3. Value(SpellOf, x) = <<Ch.percent, h, l>> /\ Value(MeanOf, x) = One(256 + y)
      BY <1>3, <1>4, <1>8, <1>9
    <2> QED
      BY <2>1, <2>2, <2>3 DEF r
  <1>10. CASE x.escaped /\ y \in LeftEscaped
    <2> HIDE DEF r, y
    <2>1. h \in Octets /\ l \in Octets /\ Ch.percent \in Octets /\ Ch.percent # Ch.plus
          /\ h # Ch.plus /\ h # Ch.percent /\ l # Ch.plus /\ l # Ch.percent
      BY HexAre DEF Ch, Octets
    <2> DEFINE L == One(l) \o r
               H == One(h) \o L
               E == One(Ch.percent) \o H
    <2>2. L \in Seq(Octets)
      <3>1. One(l) \in Seq(Octets)
        BY <2>1, OneIsText
      <3> QED
        BY <1>1, <3>1, ConcatProperties
    <2>3. H \in Seq(Octets)
      <3>1. One(h) \in Seq(Octets)
        BY <2>1, OneIsText
      <3> HIDE DEF L
      <3> QED
        BY <2>2, <3>1, ConcatProperties
    <2>4. <<Ch.percent, h, l>> \o r = E
      <3> DEFINE p == One(Ch.percent)
                 u == One(h)
                 v == One(l)
      <3>1. <<Ch.percent, h, l>> = (p \o u) \o v
        BY <2>1, ThreeAre
      <3>2. p \in Seq(Octets) /\ u \in Seq(Octets) /\ v \in Seq(Octets)
        BY <2>1, OneIsText
      <3> HIDE DEF p, u, v
      <3>3. p \o u \in Seq(Octets) /\ v \o r \in Seq(Octets)
        BY <1>1, <3>2, ConcatProperties
      <3>4. ((p \o u) \o v) \o r = (p \o u) \o (v \o r)
        BY <1>1, <3>2, <3>3, Regrouped
      <3>5. (p \o u) \o (v \o r) = p \o (u \o (v \o r))
        <4> DEFINE z == v \o r
        <4>1. z \in Seq(Octets)
          BY <3>3
        <4> HIDE DEF z
        <4>2. (p \o u) \o z = p \o (u \o z)
          BY <3>2, <4>1, Regrouped
        <4> QED
          BY <4>2 DEF z
      <3> QED
        BY <3>1, <3>4, <3>5 DEF p, u, v
    <2>5. UrlDecode(L) = One(l) \o UrlDecode(r)
      <3>1. Undecoded(l, r)
        BY <2>1 DEF Undecoded
      <3> QED
        BY <1>1, <2>1, <3>1, DecodeOther
    <2>6. UrlDecode(H) = One(h) \o UrlDecode(L)
      <3>1. Undecoded(h, L)
        BY <2>1 DEF Undecoded
      <3> HIDE DEF L
      <3> QED
        BY <2>1, <2>2, <3>1, DecodeOther
    <2>7. UrlDecode(E) = One(Ch.percent) \o UrlDecode(H)
      <3>1. ByteAt(H, 1) = h /\ ByteAt(H, 2) = l
        <4>1. FirstAndRest(H, h, L)
          <5> HIDE DEF L
          <5> QED
            BY <2>1, <2>2, AfterOne
        <4>2. FirstAndRest(L, l, r)
          BY <1>1, <2>1, AfterOne
        <4>3. L # <<>> /\ H # <<>> /\ Len(L) \in Nat \ {0} /\ Len(H) \in Nat \ {0}
          <5>1. Len(L) = Len(One(l)) + Len(r) /\ Len(One(l)) = 1 /\ Len(r) \in Nat
            BY <1>1, <2>1, OneIsText, ConcatProperties, LenProperties
          <5>2. Len(H) = Len(One(h)) + Len(L) /\ Len(One(h)) = 1
            <6> HIDE DEF L
            <6> QED
              BY <2>1, <2>2, OneIsText, ConcatProperties
          <5> HIDE DEF L, H
          <5>3. Len(L) \in Nat \ {0} /\ Len(H) \in Nat \ {0}
            BY <5>1, <5>2
          <5> QED
            BY <2>2, <2>3, <5>3, EmptySeq
        <4> HIDE DEF L, H
        <4>4. ByteAt(H, 1) = H[1] /\ ByteAt(L, 1) = L[1]
          BY <4>3 DEF ByteAt
        <4>5. ByteAt(H, 2) = ByteAt(L, 1)
          <5>1. 1 + 1 = 2 /\ 1 \in Nat \ {0}
            OBVIOUS
          <5>2. ByteAt(H, 1 + 1) = ByteAt(L, 1)
            BY <4>1, <5>1 DEF FirstAndRest
          <5> QED
            BY <5>1, <5>2
        <4> QED
          BY <4>1, <4>2, <4>4, <4>5 DEF FirstAndRest
      <3>2. Undecoded(Ch.percent, H)
        <4> HIDE DEF H
        <4> QED
          BY <1>8, <1>10, <3>1 DEF Undecoded
      <3> HIDE DEF H
      <3> QED
        BY <2>1, <2>3, <3>2, DecodeOther
    <2>8. Mapped(Low, Escape(y)) = Escape(y)
      BY <1>2, EscapeIsText, LowOfOctets
    <2>9. UrlDecode(E) = <<Ch.percent, h, l>> \o UrlDecode(r)
      <3> DEFINE p == One(Ch.percent)
                 u == One(h)
                 v == One(l)
                 w == UrlDecode(r)
      <3>1. <<Ch.percent, h, l>> = (p \o u) \o v
        BY <2>1, ThreeAre
      <3>2. p \in Seq(Octets) /\ u \in Seq(Octets) /\ v \in Seq(Octets)
        BY <2>1, OneIsText
      <3>3. UrlDecode(E) = p \o (u \o (v \o w))
        <4> HIDE DEF E, L, H
        <4> QED
          BY <2>5, <2>6, <2>7
      <3>4. w \in Seq(Octets)
        BY <1>1, DecodedIsText
      <3> HIDE DEF p, u, v, w
      <3>5. p \o u \in Seq(Octets) /\ v \o w \in Seq(Octets)
        BY <3>2, <3>4, ConcatProperties
      <3>6. ((p \o u) \o v) \o w = (p \o u) \o (v \o w)
        <4>1. Associates(p \o u, v, w)
          BY <3>2, <3>4, <3>5, Associated
        <4> QED
          BY <4>1 DEF Associates
      <3>7. (p \o u) \o (v \o w) = p \o (u \o (v \o w))
        <4> DEFINE z == v \o w
        <4>1. z \in Seq(Octets)
          BY <3>5
        <4> HIDE DEF z
        <4>2. (p \o u) \o z = p \o (u \o z)
          BY <3>2, <4>1, Regrouped
        <4> QED
          BY <4>2 DEF z
      <3> QED
        BY <3>1, <3>3, <3>6, <3>7 DEF w
    <2>10. Value(SpellOf, x) = Escape(y) /\ Value(MeanOf, x) = Escape(y)
      BY <1>3, <1>4, <1>10
    <2> HIDE DEF E, L, H
    <2> QED
      BY <1>8, <2>4, <2>8, <2>9, <2>10 DEF r
  <1> QED
    BY <1>2, <1>6, <1>7, <1>9, <1>10

(* What a client sends is decoded to what it means.                        *)
LEMMA SymbolsDecoded ==
  ASSUME NEW symbols \in Seq(Sym), ~Misleading(symbols)
  PROVE  UrlDecode(Spelled(symbols)) = Plain(Meant(symbols))
  <1> DEFINE IsDecoded(s) == UrlDecode(Spread(SpellOf, s)) = Mapped(Low, Spread(MeanOf, s))
             P == {s \in Seq(Sym) : ~Misleading(s) => IsDecoded(s)}
  <1>1. <<>> \in P
    <2>1. Spread(SpellOf, <<>>) = <<>> /\ Mapped(Low, Spread(MeanOf, <<>>)) = <<>>
      BY MappedOfNone
    <2> QED
      BY <2>1, DecodeNone
  <1>2. ASSUME NEW b \in P, NEW x \in Sym
        PROVE  <<x>> \o b \in P
    <2>1. b \in Seq(Sym) /\ (~Misleading(b) => IsDecoded(b))
      OBVIOUS
    <2> DEFINE s == One(x) \o b
    <2>2. s \in Seq(Sym)
      BY <2>1, NextSymbol
    <2>3. ASSUME ~Misleading(s)
          PROVE  IsDecoded(s)
      <3>1. IsDecoded(b)
        BY <2>1, <2>3, MisleadingFurther
      <3>2. Spread(SpellOf, s) = Value(SpellOf, x) \o Spread(SpellOf, b)
        BY <2>1, SymbolsSpread, SpreadOfFirst
      <3>3. Spread(MeanOf, s) = Value(MeanOf, x) \o Spread(MeanOf, b)
        BY <2>1, SymbolsSpread, SpreadOfFirst
      <3>4. UrlDecode(Value(SpellOf, x) \o Spread(SpellOf, b)) =
              Mapped(Low, Value(MeanOf, x)) \o UrlDecode(Spread(SpellOf, b))
        BY <2>1, <2>3, SymbolDecoded
      <3>5. Mapped(Low, Value(MeanOf, x) \o Spread(MeanOf, b)) =
              Mapped(Low, Value(MeanOf, x)) \o Mapped(Low, Spread(MeanOf, b))
        <4>1. Value(MeanOf, x) \in Seq(Clean) /\ Spread(MeanOf, b) \in Seq(Clean)
          BY <2>1, SymbolsSpread, SpreadIsText DEF Spreads, Maps, Value
        <4> DEFINE u == Value(MeanOf, x)
                   v == Spread(MeanOf, b)
        <4>2. u \in Seq(Clean) /\ v \in Seq(Clean)
          BY <4>1
        <4> HIDE DEF u, v
        <4>3. Maps(Low, Clean, Clean)
          BY LowWithin DEF Maps
        <4>4. Mapped(Low, u \o v) = Mapped(Low, u) \o Mapped(Low, v)
          BY <4>2, <4>3, MappedOfConcat
        <4> QED
          BY <4>4 DEF u, v
      <3> QED
        BY <3>1, <3>2, <3>3, <3>4, <3>5
    <2> HIDE DEF IsDecoded
    <2>4. s \in P
      BY <2>2, <2>3
    <2> QED
      BY <2>4 DEF One
  <1>3. P = Seq(Sym)
    <2>1. P \in SUBSET Seq(Sym)
      OBVIOUS
    <2> HIDE DEF P
    <2> QED
      BY <1>1, <1>2, <2>1, PrependInduction
  <1>4. UrlDecode(Spread(SpellOf, symbols)) = Mapped(Low, Spread(MeanOf, symbols))
    BY <1>3
  <1> QED
    BY <1>4, SpelledIs, PlainIsMapped

(* There is a line break in no spelling, and a space if it is not escaped. *)
LEMMA SpelledElements ==
  ASSUME NEW symbols \in Seq(Sym)
  PROVE  /\ CrLf[1] \notin ToSet(Spelled(symbols))
         /\ Space \in ToSet(Spelled(symbols)) <=> [byte |-> Space, escaped |-> FALSE] \in ToSet(symbols)
  <1>1. ASSUME NEW y
        PROVE  y \in ToSet(Spelled(symbols)) <=> \E x \in ToSet(symbols) : y \in ToSet(SpellOf[x])
    BY SpelledIs, SymbolsSpread, ElementsOfSpread
  <1>2. ToSet(symbols) \subseteq Sym
    BY ElementsOfText
  <1>3. ASSUME NEW x \in Sym, x.escaped, NEW y \in ToSet(SpellOf[x])
        PROVE  y # CrLf[1] /\ y # Space
    <2>1. y \in ToSet(Escape(x.byte)) /\ x.byte \in Octets
      BY <1>3, SymbolsSpread
    <2>2. y \in Hex \cup {Ch.percent}
      BY <2>1, EscapeIsText
    <2> QED
      BY <2>2 DEF Hex, Digits, Ch, CrLf, Space
  <1>4. ASSUME NEW x \in Sym, ~x.escaped
        PROVE  ToSet(SpellOf[x]) = {x.byte} /\ x.byte # CrLf[1]
    <2>1. SpellOf[x] = <<x.byte>> /\ x.byte \in InLine
      BY <1>4, SymbolsSpread
    <2> QED
      BY <2>1, ElementsOfOne DEF InLine
  <1>5. CrLf[1] \notin ToSet(Spelled(symbols))
    <2> SUFFICES ASSUME NEW x \in ToSet(symbols), CrLf[1] \in ToSet(SpellOf[x])
                 PROVE  FALSE
      BY <1>1
    <2>1. x \in Sym
      BY <1>2
    <2>2. CASE x.escaped
      BY <1>3, <2>1, <2>2
    <2>3. CASE ~x.escaped
      BY <1>4, <2>1, <2>3
    <2> QED
      BY <2>2, <2>3
  <1> DEFINE blank == [byte |-> Space, escaped |-> FALSE]
  <1>6. ASSUME Space \in ToSet(Spelled(symbols))
        PROVE  blank \in ToSet(symbols)
    <2>1. PICK x \in ToSet(symbols) : Space \in ToSet(SpellOf[x])
      BY <1>1, <1>6
    <2>2. x \in Sym
      BY <1>2
    <2>3. ~x.escaped
      BY <1>3, <2>1, <2>2
    <2>4. x.byte = Space
      BY <1>4, <2>1, <2>2, <2>3
    <2>5. x = [byte |-> x.byte, escaped |-> x.escaped] /\ x.escaped \in BOOLEAN
      BY <2>2 DEF Sym
    <2>6. x.escaped = FALSE
      BY <2>3, <2>5
    <2> QED
      BY <2>4, <2>5, <2>6
  <1>7. ASSUME blank \in ToSet(symbols)
        PROVE  Space \in ToSet(Spelled(symbols))
    <2>1. blank \in Sym
      BY <1>2, <1>7
    <2>2. ~blank.escaped /\ blank.byte = Space
      OBVIOUS
    <2> HIDE DEF blank
    <2>3. Space \in ToSet(SpellOf[blank])
      BY <1>4, <2>1, <2>2
    <2> QED
      BY <1>1, <1>7, <2>3
  <1> QED
    BY <1>5, <1>6, <1>7

(* A line of the header but the first.                                     *)
Fields == {f \in [name   : Seq(InLine \ {Ch.colon}), value : Seq(InLine),
                  before : Seq(Blanks), after : Seq(Blanks)] : IsField(f)}

BareLine(f) == f.name \o <<Ch.colon>> \o f.before \o f.value \o f.after

(* A byte is less than 256.                                                *)
LEMMA OctetStays == \A x \in Octets : x % 256 = x
  <1>1. \A x \in 0..255 : x % 256 = x
    OBVIOUS
  <1> QED
    BY <1>1 DEF Octets

(* What is left of a text between blanks.                                  *)
LEMMA TrimmedValue ==
  ASSUME NEW b \in Seq(Blanks), NEW a \in Seq(Blanks), NEW v \in Seq(Octets), v # <<>>,
         v[1] \notin Blanks, v[Len(v)] \notin Blanks
  PROVE  Trim((b \o v) \o a) = v
  <1> DEFINE r == v \o a
             s == b \o r
  <1>1. b \in Seq(Octets) /\ a \in Seq(Octets) /\ Blanks = {9, 32}
    BY DEF Octets, Blanks, Space
  <1>2. r \in Seq(Octets) /\ Len(r) = Len(v) + Len(a)
    BY <1>1, ConcatProperties
  <1>3. s \in Seq(Octets) /\ Len(s) = Len(b) + Len(r)
    <2> HIDE DEF r
    <2> QED
      BY <1>1, <1>2, ConcatProperties
  <1>4. (b \o v) \o a = s
    BY <1>1, Regrouped
  <1>5. Len(b) \in Nat /\ Len(a) \in Nat /\ Len(v) \in Nat \ {0}
    BY EmptySeq
  <1> DEFINE m == Len(b) + 1
             n == Len(b) + Len(v)
  <1>6. /\ \A i \in 1..Len(b) : s[i] = b[i]
        /\ \A i \in 1..Len(r) : s[Len(b) + i] = r[i]
    <2> HIDE DEF r
    <2> QED
      BY <1>1, <1>2, <1>3, ConcatProperties
  <1>7. /\ \A i \in 1..Len(v) : r[i] = v[i]
        /\ \A i \in 1..Len(a) : r[Len(v) + i] = a[i]
    BY <1>1, ConcatProperties
  <1> HIDE DEF s, r
  <1>8. s[m] = v[1] /\ m \in 1..Len(s)
    BY <1>2, <1>3, <1>5, <1>6, <1>7
  <1>9. s[n] = v[Len(v)] /\ n \in 1..Len(s)
    BY <1>2, <1>3, <1>5, <1>6, <1>7
  <1>10. \A x \in Octets : x % 256 = x
    BY OctetStays
  <1>11. v[1] \in Octets /\ v[Len(v)] \in Octets
    BY <1>5
  <1>12. m \in Seen(s, Blanks) /\ n \in Seen(s, Blanks)
    BY <1>8, <1>9, <1>10, <1>11 DEF Seen
  <1>13. ASSUME NEW i \in Seen(s, Blanks)
         PROVE  m <= i /\ i <= n
    <2>1. i \in 1..Len(s) /\ s[i] % 256 \notin Blanks
      BY DEF Seen
    <2>2. ASSUME i < m
          PROVE  FALSE
      <3>1. i \in 1..Len(b)
        BY <2>1, <2>2, <1>5
      <3>2. s[i] \in Blanks
        BY <3>1, <1>6
      <3> QED
        BY <3>2, <2>1, <1>1
    <2>3. ASSUME n < i
          PROVE  FALSE
      <3> DEFINE j == i - n
      <3>1. j \in 1..Len(a) /\ i = Len(b) + (Len(v) + j) /\ Len(v) + j \in 1..Len(r)
        BY <2>1, <2>3, <1>2, <1>3, <1>5
      <3>2. s[i] = a[j]
        BY <3>1, <1>6, <1>7
      <3>3. s[i] \in Blanks
        BY <3>1, <3>2
      <3> QED
        BY <3>3, <2>1, <1>1
    <2> QED
      BY <2>1, <2>2, <2>3, <1>5
  <1>14. Min(Seen(s, Blanks)) = m /\ Max(Seen(s, Blanks)) = n
    <2> DEFINE M == Min(Seen(s, Blanks))
               N == Max(Seen(s, Blanks))
    <2>1. Seen(s, Blanks) # {} /\ Seen(s, Blanks) \subseteq Nat
      BY <1>12 DEF Seen
    <2>2. /\ M \in Seen(s, Blanks) /\ N \in Seen(s, Blanks)
          /\ \A i \in Seen(s, Blanks) : M <= i /\ i <= N
      BY <1>3, <2>1, StrippedPart
    <2>3. m <= M /\ M <= m /\ n <= N /\ N <= n
      BY <1>12, <1>13, <2>2
    <2>4. M \in Nat /\ N \in Nat /\ m \in Nat /\ n \in Nat
      BY <1>12, <2>1, <2>2
    <2> HIDE DEF M, N, m, n
    <2> QED
      BY <2>3, <2>4 DEF M, N
  <1>15. SubSeq(s, m, n) = v
    <2>1. SubSeq(b \o r, Len(b) + 1, Len(b) + Len(v)) = SubSeq(r, 1, Len(v))
      BY <1>1, <1>2, <1>5, PartOfSecond
    <2>2. SubSeq(v \o a, 1, Len(v)) = SubSeq(v, 1, Len(v))
      BY <1>1, <1>5, PartOfFirst
    <2>3. SubSeq(v, 1, Len(v)) = v
      BY SubSeqFull
    <2> QED
      BY <2>1, <2>2, <2>3 DEF s, r
  <1>16. Stripped(s, Blanks) = v
    BY <1>3, <1>12, <1>14, <1>15, StrippedPart
  <1>17. Trim(s) = v
    BY <1>16 DEF Trim, Blanks
  <1> QED
    BY <1>4, <1>17

(* Trim of the empty text.                                                 *)
LEMMA TrimmedNone == Trim(<<>>) = <<>>
  <1>1. <<>> \in Seq(Octets) /\ Seen(<<>>, Blanks) = {}
    BY DEF Seen
  <1>2. Stripped(<<>>, Blanks) = <<>>
    BY <1>1, StrippedPart
  <1> QED
    BY <1>2 DEF Trim, Blanks

(* What is before a separator, and what behind.                            *)
LEMMA HalvesOfParted ==
  ASSUME NEW S, NEW c \in S, NEW p \in Seq(S), NEW r \in Seq(S), c \notin ToSet(p)
  PROVE  /\ Splits((p \o One(c)) \o r, c)
         /\ Left((p \o One(c)) \o r, c) = p /\ Right((p \o One(c)) \o r, c) = r
  <1> DEFINE o == One(c)
             q == p \o o
             s == q \o r
  <1>1. o \in Seq(S) /\ o # <<>> /\ o[1] = c /\ Len(o) = 1 /\ ToSet(o) = {c}
    BY OneIsText
  <1>2. q \in Seq(S) /\ Len(q) = Len(p) + 1 /\ Len(p) \in Nat
    BY Prolonged
  <1>3. Cut(s, <<c>>) = <<p>> \o Cut(r, <<c>>)
    <2>1. o[1] \notin ToSet(p)
      BY <1>1
    <2> HIDE DEF o
    <2>2. Cut((p \o o) \o r, o) = <<p>> \o Cut(r, o)
      BY <1>1, <2>1, CutStep
    <2> QED
      BY <2>2 DEF o, One
  <1>4. Left(s, c) = p
    <2>1. Cut(r, <<c>>) \in Seq(Seq(S))
      BY CutIsNotEmpty
    <2> DEFINE z == Cut(r, <<c>>)
    <2> HIDE DEF z
    <2>2. Head(<<p>> \o z) = p
      BY <2>1 DEF z
    <2> QED
      BY <1>3, <2>2 DEF Left, z
  <1>5. c \in ToSet(s)
    <2> HIDE DEF o
    <2>1. ToSet(q) = ToSet(p) \cup ToSet(o)
      BY <1>1, ElementsOfConcat
    <2> HIDE DEF q
    <2>2. ToSet(s) = ToSet(q) \cup ToSet(r)
      BY <1>2, ElementsOfConcat
    <2> QED
      BY <1>1, <2>1, <2>2
  <1>6. Right(s, c) = r
    <2>1. Len(s) = Len(q) + Len(r) /\ Len(q) \in Nat /\ Len(r) \in Nat
      <3> HIDE DEF q
      <3>1. q \o r \in Seq(S) /\ Len(q \o r) = Len(q) + Len(r)
        BY <1>2, ConcatProperties
      <3> QED
        BY <1>2, <3>1, LenProperties
    <2>2. SubSeq(q \o r, Len(q) + 1, Len(q) + Len(r)) = SubSeq(r, 1, Len(r))
      <3> HIDE DEF q
      <3>1. 1 \in 1..(Len(r) + 1) /\ 1 - 1 <= Len(r) /\ Len(r) <= Len(r)
        BY <2>1
      <3> QED
        BY <1>2, <2>1, <3>1, PartOfSecond
    <2>3. SubSeq(r, 1, Len(r)) = r
      BY SubSeqFull
    <2> HIDE DEF q
    <2>4. Right(s, c) = SubSeq(s, Len(p) + 1 + 1, Len(s))
      BY <1>4 DEF Right, After
    <2> QED
      BY <1>2, <2>1, <2>2, <2>3, <2>4
  <1> QED
    BY <1>4, <1>5, <1>6 DEF Splits

(* A field is found in its line.                                           *)
LEMMA FieldIsRead ==
  ASSUME NEW f \in Fields
  PROVE  /\ BareLine(f) \in Seq(Octets) /\ CrLf[1] \notin ToSet(BareLine(f))
         /\ Line(f) = BareLine(f) \o CrLf
         /\ Splits(BareLine(f), Ch.colon)
         /\ Trim(Left(BareLine(f), Ch.colon)) = f.name
         /\ Trim(Right(BareLine(f), Ch.colon)) = f.value
  <1> DEFINE n == f.name
             b == f.before
             v == f.value
             a == f.after
             o == One(Ch.colon)
  <1>1. /\ n \in Seq(InLine \ {Ch.colon}) /\ v \in Seq(InLine)
        /\ b \in Seq(Blanks) /\ a \in Seq(Blanks)
    BY DEF Fields
  <1>2. IsField(f)
    BY DEF Fields
  <1>3. /\ Trim(n) = n
        /\ IF v = <<>> THEN b = <<>> /\ a = <<>> ELSE v[1] \notin Blanks /\ Last(v) \notin Blanks
    BY <1>2 DEF IsField
  <1>4. /\ Blanks \subseteq InLine /\ InLine \subseteq Octets /\ Ch.colon \in InLine
        /\ CrLf[1] \notin InLine
    BY DEF Blanks, InLine, Octets, CrLf, Ch, Space
  <1>5. n \in Seq(InLine) /\ b \in Seq(InLine) /\ a \in Seq(InLine) /\ Ch.colon \notin ToSet(n)
    <2>1. ToSet(n) \subseteq InLine \ {Ch.colon}
      BY <1>1, ElementsOfText
    <2> QED
      BY <1>1, <1>4, <2>1
  <1>6. o \in Seq(InLine)
    BY <1>4, OneIsText
  <1>7. BareLine(f) = (((n \o o) \o b) \o v) \o a
    BY DEF BareLine, One
  <1> HIDE DEF n, b, v, a, o
  <1> DEFINE q == n \o o
             r == (b \o v) \o a
  <1>8. q \in Seq(InLine) /\ b \o v \in Seq(InLine)
    BY <1>1, <1>5, <1>6, ConcatProperties
  <1>9. r \in Seq(InLine)
    BY <1>5, <1>8, ConcatProperties
  <1>10. BareLine(f) = q \o r
    <2> HIDE DEF q
    <2>1. Associates(q, b, v)
      BY <1>1, <1>5, <1>8, Associated
    <2> DEFINE k == b \o v
    <2>2. k \in Seq(InLine)
      BY <1>8
    <2> HIDE DEF k
    <2>3. Associates(q, k, a)
      BY <1>5, <1>8, <2>2, Associated
    <2> QED
      BY <1>7, <2>1, <2>3 DEF Associates, q, k
  <1>11. q \o r \in Seq(InLine)
    <2> HIDE DEF q, r
    <2> QED
      BY <1>8, <1>9, ConcatProperties
  <1>12. /\ Splits(q \o r, Ch.colon)
         /\ Left(q \o r, Ch.colon) = n /\ Right(q \o r, Ch.colon) = r
    <2> HIDE DEF r
    <2> QED
      BY <1>4, <1>5, <1>9, HalvesOfParted DEF o
  <1>13. Trim(r) = v
    <2>1. CASE v = <<>>
      <3>1. r = <<>>
        BY <1>3, <2>1 DEF n, b, v, a
      <3> QED
        BY <2>1, <3>1, TrimmedNone
    <2>2. CASE v # <<>>
      <3>1. v \in Seq(Octets)
        BY <1>1, <1>4
      <3>2. v[1] \notin Blanks /\ v[Len(v)] \notin Blanks
        BY <1>3, <2>2 DEF Last, n, b, v, a
      <3> QED
        BY <1>1, <2>2, <3>1, <3>2, TrimmedValue
    <2> QED
      BY <2>1, <2>2
  <1> HIDE DEF q, r
  <1>14. q \o r \in Seq(Octets) /\ CrLf[1] \notin ToSet(q \o r)
    <2> DEFINE s == q \o r
    <2>1. s \in Seq(InLine)
      BY <1>11
    <2> HIDE DEF s
    <2>2. ToSet(s) \subseteq InLine
      BY <2>1, ElementsOfText
    <2>3. s \in Seq(Octets)
      BY <2>1, <1>4
    <2> QED
      BY <1>4, <2>2, <2>3 DEF s
  <1>15. Line(f) = BareLine(f) \o CrLf
    BY DEF Line, BareLine
  <1> QED
    BY <1>3, <1>10, <1>12, <1>13, <1>14, <1>15 DEF n, v

(* The first line of a header, and the others.                             *)
FirstLine(m, q, v) == m \o <<Space, 47>> \o q \o <<Space>> \o v
Uri(q)  == One(47) \o q
BareOf  == [f \in Fields |-> BareLine(f)]
LineOf  == [f \in Fields |-> Line(f)]
Further(fs) == FlattenSeq([i \in 1..Len(fs) |-> Line(fs[i])])
HeaderEnd == One(<<>>) \o One(<<>>)

(* The end of a line.                                                      *)
LEMMA CrLfIs ==
  CrLf \in Seq(Octets) /\ CrLf # <<>>
  <1>1. CrLf = <<13, 10>> /\ 13 \in Octets /\ 10 \in Octets
    BY DEF CrLf, Octets
  <1> HIDE DEF CrLf
  <1> QED
    BY <1>1

(* The lines of fields are texts.                                          *)
LEMMA LinesMap ==
  /\ Maps(BareOf, Fields, Seq(Octets)) /\ Spreads(LineOf, Fields, Octets)
  /\ \A f \in Fields : BareOf[f] = BareLine(f) /\ LineOf[f] = BareLine(f) \o CrLf
  <1>1. \A f \in Fields : BareLine(f) \in Seq(Octets) /\ Line(f) = BareLine(f) \o CrLf
    BY FieldIsRead
  <1>2. \A f \in Fields : BareLine(f) \o CrLf \in Seq(Octets)
    BY <1>1, CrLfIs, ConcatProperties
  <1> QED
    BY <1>1, <1>2 DEF Maps, Spreads, BareOf, LineOf

(* The lines of a header are spread from its fields.                       *)
LEMMA FurtherIs ==
  ASSUME NEW fs \in Seq(Fields)
  PROVE  Further(fs) = Spread(LineOf, fs) /\ Further(fs) \in Seq(Octets)
  <1>1. \A i \in 1..Len(fs) : LineOf[fs[i]] = Line(fs[i])
    BY DEF LineOf
  <1>2. [i \in 1..Len(fs) |-> Line(fs[i])] = Mapped(LineOf, fs)
    BY <1>1 DEF Mapped
  <1>3. Further(fs) = Spread(LineOf, fs)
    BY <1>2 DEF Further, Spread
  <1> QED
    BY <1>3, LinesMap, SpreadIsText

(* The other lines, as they are found.                                     *)
LEMMA FurtherCut ==
  ASSUME NEW fields_ \in Seq(Fields)
  PROVE  Cut(Further(fields_) \o CrLf, CrLf) = Mapped(BareOf, fields_) \o HeaderEnd
  <1> DEFINE IsCut(s) == Cut(Spread(LineOf, s) \o CrLf, CrLf) = Mapped(BareOf, s) \o HeaderEnd
             P == {s \in Seq(Fields) : IsCut(s)}
  <1>1. HeaderEnd \in Seq(Seq(Octets))
    <2>1. One(<<>>) \in Seq(Seq(Octets))
      BY EmptySeq, OneIsText
    <2> DEFINE o == One(<<>>)
    <2> HIDE DEF o
    <2>2. o \o o \in Seq(Seq(Octets))
      BY <2>1, ConcatProperties DEF o
    <2> QED
      BY <2>2 DEF HeaderEnd, o
  <1>2. <<>> \in P
    <2>1. Spread(LineOf, <<>>) = <<>> /\ Mapped(BareOf, <<>>) = <<>>
      BY MappedOfNone
    <2> DEFINE n == <<>>
    <2>2. n \in Seq(Octets) /\ CrLf[1] \notin ToSet(n)
      BY EmptySeq, ElementsOfNone
    <2>3. n \o CrLf = CrLf /\ CrLf \o n = CrLf
      BY CrLfIs, ConcatEmptySeq
    <2> HIDE DEF n
    <2>4. Cut((n \o CrLf) \o n, CrLf) = <<n>> \o Cut(n, CrLf)
      BY <2>2, CrLfIs, CutStep
    <2>5. Cut(n, CrLf) = <<n>>
      BY <2>2, CrLfIs, CutNone
    <2>6. Cut(n \o CrLf, CrLf) = One(n) \o One(n)
      BY <2>3, <2>4, <2>5 DEF One
    <2>7. n \o HeaderEnd = HeaderEnd
      BY <1>1, ConcatEmptySeq DEF n
    <2>8. HeaderEnd = One(n) \o One(n)
      BY DEF HeaderEnd, n
    <2>9. Spread(LineOf, n) = n /\ Mapped(BareOf, n) = n
      BY <2>1 DEF n
    <2>10. IsCut(n)
      <3> HIDE DEF HeaderEnd
      <3> QED
        BY <2>6, <2>7, <2>8, <2>9
    <2>11. n \in Seq(Fields)
      BY EmptySeq DEF n
    <2> HIDE DEF IsCut
    <2> QED
      BY <2>10, <2>11 DEF n
  <1>3. ASSUME NEW b \in P, NEW x \in Fields
        PROVE  <<x>> \o b \in P
    <2>1. b \in Seq(Fields) /\ IsCut(b)
      OBVIOUS
    <2> DEFINE s == One(x) \o b
               p == BareLine(x)
               w == Spread(LineOf, b)
               k == w \o CrLf
               z == Mapped(BareOf, b)
    <2>2. s \in Seq(Fields)
      <3>1. One(x) \in Seq(Fields)
        BY OneIsText
      <3> DEFINE o == One(x)
      <3> HIDE DEF o
      <3>2. o \o b \in Seq(Fields)
        BY <2>1, <3>1, ConcatProperties DEF o
      <3> QED
        BY <3>2 DEF o
    <2>3. Spread(LineOf, s) = Value(LineOf, x) \o w
      BY <2>1, LinesMap, SpreadOfFirst
    <2>4. Mapped(BareOf, s) = One(Value(BareOf, x)) \o z
      BY <2>1, LinesMap, MappedOfFirst
    <2>5. p \in Seq(Octets) /\ CrLf[1] \notin ToSet(p)
      BY FieldIsRead
    <2>6. Value(LineOf, x) = p \o CrLf /\ Value(BareOf, x) = p
      BY LinesMap DEF Value
    <2>7. w \in Seq(Octets)
      BY <2>1, LinesMap, SpreadIsText
    <2>8. z \in Seq(Seq(Octets))
      BY <2>1, LinesMap, MappedIsText
    <2>9. Cut(k, CrLf) = z \o HeaderEnd
      BY <2>1
    <2> HIDE DEF p, w, z
    <2>10. k \in Seq(Octets)
      BY <2>7, CrLfIs, ConcatProperties
    <2>11. (Value(LineOf, x) \o w) \o CrLf = (p \o CrLf) \o k
      <3> DEFINE l == p \o CrLf
      <3>1. l \in Seq(Octets)
        BY <2>5, CrLfIs, ConcatProperties
      <3> HIDE DEF l
      <3>2. (l \o w) \o CrLf = l \o (w \o CrLf)
        BY <3>1, <2>7, CrLfIs, Regrouped
      <3> QED
        BY <2>6, <3>2 DEF l
    <2> HIDE DEF k
    <2>12. Cut((p \o CrLf) \o k, CrLf) = <<p>> \o Cut(k, CrLf)
      BY <2>5, <2>10, CrLfIs, CutStep
    <2>13. One(p) \o (z \o HeaderEnd) = (One(p) \o z) \o HeaderEnd
      <3>1. One(p) \in Seq(Seq(Octets))
        BY <2>5, OneIsText
      <3> DEFINE o == One(p)
      <3>2. o \in Seq(Seq(Octets))
        BY <3>1
      <3> HIDE DEF o
      <3>3. Associates(o, z, HeaderEnd)
        BY <3>2, <2>8, <1>1, Associated
      <3> QED
        BY <3>3 DEF o, Associates
    <2>14. IsCut(s)
      <3>1. Cut(Spread(LineOf, s) \o CrLf, CrLf) = One(p) \o (z \o HeaderEnd)
        BY <2>3, <2>11, <2>12, <2>9 DEF One, k, w
      <3> QED
        BY <3>1, <2>13, <2>4, <2>6
    <2> HIDE DEF IsCut
    <2>15. s \in P
      BY <2>2, <2>14
    <2> QED
      BY <2>15 DEF One
  <1>4. P = Seq(Fields)
    <2>1. P \in SUBSET Seq(Fields)
      OBVIOUS
    <2> HIDE DEF P
    <2> QED
      BY <1>2, <1>3, <2>1, PrependInduction
  <1>5. IsCut(fields_)
    <2> HIDE DEF IsCut
    <2> QED
      BY <1>4
  <1> QED
    BY <1>5, FurtherIs

(* The words of the first line.                                            *)
LEMMA UriIs ==
  ASSUME NEW q \in Seq(Octets)
  PROVE  /\ Uri(q) \in Seq(Octets)
         /\ Space \in ToSet(Uri(q)) <=> Space \in ToSet(q)
  <1>1. 47 \in Octets /\ Space # 47
    BY DEF Octets, Space
  <1>2. One(47) \in Seq(Octets) /\ ToSet(One(47)) = {47}
    BY <1>1, OneIsText
  <1> DEFINE o == One(47)
  <1>3. o \in Seq(Octets) /\ ToSet(o) = {47}
    BY <1>2
  <1> HIDE DEF o
  <1>4. o \o q \in Seq(Octets) /\ ToSet(o \o q) = ToSet(o) \cup ToSet(q)
    BY <1>3, ElementsOfConcat, ConcatProperties
  <1> QED
    BY <1>1, <1>3, <1>4 DEF Uri, o

AfterMethod(q, v) == (Uri(q) \o One(Space)) \o v
BeginsWith(m, q, v) == FirstLine(m, q, v) = (m \o One(Space)) \o AfterMethod(q, v)
Separators == {Space, 47}

(* The bytes of the first line.                                            *)
LEMMA FirstLineIs ==
  ASSUME NEW m \in Seq(Octets), NEW q \in Seq(Octets), NEW v \in Seq(Octets)
  PROVE  /\ BeginsWith(m, q, v)
         /\ FirstLine(m, q, v) \in Seq(Octets)
         /\ AfterMethod(q, v) \in Seq(Octets)
         /\ ToSet(FirstLine(m, q, v)) = ToSet(m) \cup ToSet(q) \cup ToSet(v) \cup Separators
  <1> DEFINE o == One(Space)
             n == One(47)
             u == n \o q
             k == u \o o
             r == k \o v
             l == m \o o
  <1>1. /\ o \in Seq(Octets) /\ n \in Seq(Octets) /\ <<Space, 47>> = o \o n
        /\ ToSet(o) = {Space} /\ ToSet(n) = {47}
    <2>1. Space \in Octets /\ 47 \in Octets
      BY DEF Octets, Space
    <2>2. <<Space, 47>> = o \o n
      BY DEF One
    <2> QED
      BY <2>1, <2>2, OneIsText
  <1>2. FirstLine(m, q, v) = (((m \o (o \o n)) \o q) \o o) \o v
    <2>1. FirstLine(m, q, v) = (((m \o <<Space, 47>>) \o q) \o <<Space>>) \o v
      BY DEF FirstLine
    <2> QED
      BY <2>1, <1>1 DEF One
  <1>3. Uri(q) = u
    BY DEF Uri
  <1> HIDE DEF o, n
  <1>4. u \in Seq(Octets) /\ ToSet(u) = {47} \cup ToSet(q)
    BY <1>1, ElementsOfConcat, ConcatProperties
  <1>5. l \in Seq(Octets) /\ ToSet(l) = ToSet(m) \cup {Space}
    BY <1>1, ElementsOfConcat, ConcatProperties
  <1>6. k \in Seq(Octets) /\ ToSet(k) = {47} \cup ToSet(q) \cup {Space}
    <2> HIDE DEF u
    <2> QED
      BY <1>1, <1>4, ElementsOfConcat, ConcatProperties
  <1>7. r \in Seq(Octets) /\ ToSet(r) = {47} \cup ToSet(q) \cup {Space} \cup ToSet(v)
    <2> HIDE DEF k
    <2> QED
      BY <1>6, ElementsOfConcat, ConcatProperties
  <1>8. m \o (o \o n) = l \o n
    <2>1. Associates(m, o, n)
      BY <1>1, Associated
    <2> QED
      BY <2>1 DEF Associates
  <1>9. (l \o n) \o q = l \o u
    <2> HIDE DEF l
    <2>1. Associates(l, n, q)
      BY <1>1, <1>5, Associated
    <2> QED
      BY <2>1 DEF Associates
  <1>10. (l \o u) \o o = l \o k
    <2> HIDE DEF l, u
    <2>1. Associates(l, u, o)
      BY <1>1, <1>4, <1>5, Associated
    <2> QED
      BY <2>1 DEF Associates, k
  <1>11. (l \o k) \o v = l \o r
    <2> HIDE DEF l, k
    <2>1. Associates(l, k, v)
      BY <1>5, <1>6, Associated
    <2> QED
      BY <2>1 DEF Associates, r
  <1>12. FirstLine(m, q, v) = l \o r
    BY <1>2, <1>8, <1>9, <1>10, <1>11
  <1>13. l \o r \in Seq(Octets) /\ ToSet(l \o r) = ToSet(l) \cup ToSet(r)
    <2> HIDE DEF l, r
    <2> QED
      BY <1>5, <1>7, ElementsOfConcat, ConcatProperties
  <1>14. ToSet(FirstLine(m, q, v)) = ToSet(m) \cup ToSet(q) \cup ToSet(v) \cup {Space, 47}
    BY <1>5, <1>7, <1>12, <1>13
  <1>15. AfterMethod(q, v) = r
    BY <1>3 DEF o, n, AfterMethod
  <1>16. BeginsWith(m, q, v)
    BY <1>12, <1>15 DEF o, n, BeginsWith
  <1> QED
    BY <1>7, <1>12, <1>13, <1>14, <1>15, <1>16 DEF Separators

(* SplitString: nothing is left out when text follows the last separator.  *)
LEMMA SplitOfMany ==
  ASSUME NEW S, NEW z \in Seq(Seq(S)), z # <<>>, NEW v \in Seq(S), v # <<>>,
         NEW s, NEW separator, Cut(s, separator) = z \o One(v)
  PROVE  SplitString(s, separator) = z \o One(v)
  <1> DEFINE cut == Cut(s, separator)
  <1>1. /\ cut \in Seq(Seq(S)) /\ Len(cut) = Len(z) + 1 /\ Len(z) \in Nat
        /\ Last(cut) = v
    BY Prolonged
  <1>2. Len(cut) # 1
    BY <1>1, EmptySeq
  <1>3. Pieces(s, separator) = cut
    BY <1>1 DEF Pieces
  <1> QED
    BY <1>2, <1>3 DEF SplitString

WordsOf(m, q, v) == SplitString(FirstLine(m, q, v), <<Space>>)

(* The first line has three words if its parameters have no space.         *)
LEMMA WordsOfFirstLine ==
  ASSUME NEW m \in Seq(Octets), NEW q \in Seq(Octets), NEW v \in Seq(Octets),
         Space \notin ToSet(m), Space \notin ToSet(v), Len(v) # 0
  PROVE  /\ Space \in ToSet(q) => Len(WordsOf(m, q, v)) # 3
         /\ Space \notin ToSet(q) =>
              /\ Len(WordsOf(m, q, v)) = 3 /\ WordsOf(m, q, v)[1] = m
              /\ WordsOf(m, q, v)[2] = Uri(q) /\ WordsOf(m, q, v)[3] = v
  <1> DEFINE words == WordsOf(m, q, v)
             u == Uri(q)
             c == Cut(u, One(Space))
             r == AfterMethod(q, v)
             z == One(m) \o c
  <1>1. Space \in Octets
    BY DEF Octets, Space
  <1>2. u \in Seq(Octets)
    BY UriIs
  <1>3. c \in Seq(Seq(Octets)) /\ c # <<>> /\ Len(c) \in Nat \ {0}
    BY <1>1, <1>2, CutIsNotEmpty DEF One
  <1>4. One(m) \in Seq(Seq(Octets)) /\ Len(One(m)) = 1 /\ One(m)[1] = m
    BY OneIsText
  <1>5. One(v) \in Seq(Seq(Octets)) /\ Len(One(v)) = 1
    BY OneIsText
  <1> HIDE DEF u, c
  <1>6. Cut(r, One(Space)) = c \o One(v)
    <2>1. Cut((u \o One(Space)) \o v, One(Space)) = c \o One(v)
      BY <1>1, <1>2, CutAtEnd DEF c
    <2> QED
      BY <2>1 DEF u, AfterMethod
  <1>7. r \in Seq(Octets) /\ FirstLine(m, q, v) = (m \o One(Space)) \o r
    <2>1. r \in Seq(Octets) /\ BeginsWith(m, q, v)
      BY FirstLineIs
    <2> QED
      BY <2>1 DEF BeginsWith
  <1> HIDE DEF r
  <1>8. Cut((m \o One(Space)) \o r, One(Space)) = One(m) \o Cut(r, One(Space))
    <2> DEFINE o == One(Space)
    <2>1. o \in Seq(Octets) /\ o # <<>> /\ o[1] = Space
      BY <1>1, OneIsText
    <2> HIDE DEF o
    <2>2. Cut((m \o o) \o r, o) = <<m>> \o Cut(r, o)
      BY <1>7, <2>1, CutStep
    <2> QED
      BY <2>2 DEF o, One
  <1>9. One(m) \o (c \o One(v)) = z \o One(v)
    <2> DEFINE a == One(m)
               b == One(v)
    <2>1. a \in Seq(Seq(Octets)) /\ b \in Seq(Seq(Octets))
      BY <1>4, <1>5
    <2> HIDE DEF a, b
    <2>2. Associates(a, c, b)
      BY <2>1, <1>3, Associated
    <2> QED
      BY <2>2 DEF Associates, a, b
  <1>10. /\ z \in Seq(Seq(Octets)) /\ Len(z) = 1 + Len(c) /\ z[1] = m
         /\ \A i \in 1..Len(c) : z[1 + i] = c[i]
    <2> DEFINE a == One(m)
    <2>1. a \in Seq(Seq(Octets)) /\ Len(a) = 1 /\ a[1] = m
      BY <1>4
    <2> HIDE DEF a
    <2>2. Joined(a, c, Seq(Octets))
      BY <2>1, <1>3, JoinedTexts
    <2>3. 1 \in 1..Len(a)
      BY <2>1
    <2> QED
      BY <2>1, <2>2, <2>3 DEF a, Joined
  <1>11. Cut(FirstLine(m, q, v), <<Space>>) = z \o One(v)
    BY <1>6, <1>7, <1>8, <1>9 DEF One
  <1> HIDE DEF z
  <1>12. z # <<>>
    BY <1>3, <1>10, EmptySeq
  <1>13. words = z \o One(v)
    <2>1. v # <<>>
      BY EmptySeq
    <2> QED
      BY <1>10, <1>11, <1>12, <2>1, SplitOfMany DEF WordsOf
  <1> HIDE DEF words
  <1>14. /\ Len(words) = Len(z) + 1 /\ words[Len(z) + 1] = v
         /\ \A i \in 1..Len(z) : words[i] = z[i]
    <2> DEFINE k == z \o One(v)
    <2> DEFINE a == One(v)
    <2>3. a \in Seq(Seq(Octets)) /\ Len(a) = 1 /\ a[1] = v
      BY OneIsText
    <2> HIDE DEF a
    <2>4. Joined(z, a, Seq(Octets))
      BY <1>10, <2>3, JoinedTexts
    <2>1. /\ Len(k) = Len(z) + 1 /\ k[Len(z) + 1] = v
          /\ \A i \in 1..Len(z) : k[i] = z[i]
      BY <2>3, <2>4 DEF Joined, a
    <2> HIDE DEF k
    <2>2. words = k
      BY <1>13 DEF k
    <2> QED
      BY <2>1, <2>2
  <1>15. ASSUME Space \in ToSet(q)
         PROVE  Len(words) # 3
    <2>1. Space \in ToSet(u)
      BY <1>15, UriIs DEF u
    <2>2. Len(c) # 1
      BY <1>1, <1>2, <2>1, CutInPieces DEF c, One
    <2>3. Len(words) = (1 + Len(c)) + 1
      BY <1>10, <1>14
    <2>4. \A n \in Nat : n # 1 => (1 + n) + 1 # 3
      OBVIOUS
    <2>5. Len(c) \in Nat
      BY <1>3
    <2> QED
      BY <2>2, <2>3, <2>4, <2>5
  <1>16. ASSUME Space \notin ToSet(q)
         PROVE  Len(words) = 3 /\ words[1] = m /\ words[2] = Uri(q) /\ words[3] = v
    <2>1. Space \notin ToSet(u)
      BY <1>16, UriIs DEF u
    <2>2. c = One(u)
      <3> DEFINE o == One(Space)
      <3>1. o \in Seq(Octets) /\ o # <<>> /\ o[1] = Space
        BY <1>1, OneIsText
      <3> HIDE DEF o
      <3>2. Cut(u, o) = <<u>>
        BY <1>2, <2>1, <3>1, CutNone
      <3> QED
        BY <3>2 DEF c, o, One
    <2>3. Len(c) = 1 /\ c[1] = u
      BY <1>2, <2>2, OneIsText
    <2>4. Len(z) = 2 /\ z[2] = u
      BY <1>10, <2>3
    <2>5. Len(words) = 3 /\ words[3] = v
      BY <1>14, <2>4
    <2>6. words[1] = z[1] /\ words[2] = z[2] /\ z[1] = m
      <3>1. 1 \in 1..Len(z) /\ 2 \in 1..Len(z)
        BY <2>4
      <3>2. \A i \in 1..Len(z) : words[i] = z[i]
        BY <1>14
      <3>3. z[1] = m
        BY <1>10
      <3> QED
        BY <3>1, <3>2, <3>3
    <2> QED
      BY <2>4, <2>5, <2>6 DEF u
  <1> QED
    BY <1>15, <1>16 DEF words

(* The lines of a header.                                                  *)
HeaderText(m, q, v, fs) == FirstLine(m, q, v) \o CrLf \o Further(fs) \o CrLf
LinesOf(first, fs)      == One(first) \o (Mapped(BareOf, fs) \o One(<<>>))

(* The lines of a header.                                                  *)
LEMMA LinesAre ==
  ASSUME NEW first \in Seq(Octets), NEW fs \in Seq(Fields)
  PROVE  /\ Mapped(BareOf, fs) \o One(<<>>) \in Seq(Seq(Octets))
         /\ LinesOf(first, fs) \in Seq(Seq(Octets)) /\ LinesOf(first, fs) # <<>>
         /\ LinesOf(first, fs)[1] = first
         /\ Tail(LinesOf(first, fs)) = Mapped(BareOf, fs) \o One(<<>>)
         /\ ToSet(Mapped(BareOf, fs)) \subseteq ToSet(LinesOf(first, fs))
         /\ Mapped(BareOf, fs) \in Seq(Seq(Octets))
         /\ One(<<>>) \in Seq(Seq(Octets))
  <1> DEFINE o == One(first)
             e == One(<<>>)
             z == Mapped(BareOf, fs)
             w == z \o e
  <1>1. o \in Seq(Seq(Octets)) /\ Len(o) = 1 /\ o[1] = first
    BY OneIsText
  <1>2. e \in Seq(Seq(Octets))
    BY EmptySeq, OneIsText
  <1>3. z \in Seq(Seq(Octets))
    BY LinesMap, MappedIsText
  <1> HIDE DEF o, e, z
  <1>4. w \in Seq(Seq(Octets)) /\ ToSet(w) = ToSet(z) \cup ToSet(e)
    BY <1>2, <1>3, ElementsOfConcat, ConcatProperties
  <1>5. LinesOf(first, fs) = o \o w
    BY DEF LinesOf, o, e, z
  <1> HIDE DEF w
  <1>6. Joined(o, w, Seq(Octets)) /\ ToSet(o \o w) = ToSet(o) \cup ToSet(w)
    BY <1>1, <1>4, JoinedTexts, ElementsOfConcat
  <1>7. o \o w \in Seq(Seq(Octets)) /\ Len(o \o w) = Len(w) + 1 /\ Len(w) \in Nat
    BY <1>1, <1>4, <1>6, LenProperties DEF Joined
  <1>8. (o \o w)[1] = first /\ \A i \in 1..Len(w) : (o \o w)[1 + i] = w[i]
    <2>1. 1 \in 1..Len(o)
      BY <1>1
    <2> QED
      BY <1>1, <1>6, <2>1 DEF Joined
  <1>9. o \o w # <<>>
    BY <1>7, EmptySeq
  <1>10. Tail(o \o w) = w
    <2> DEFINE k == o \o w
    <2>1. k \in Seq(Seq(Octets)) /\ Len(k) = Len(w) + 1 /\ k # <<>>
          /\ \A i \in 1..Len(w) : k[1 + i] = w[i]
      BY <1>7, <1>8, <1>9
    <2> HIDE DEF k
    <2>2. /\ Tail(k) \in Seq(Seq(Octets)) /\ Len(Tail(k)) = Len(k) - 1
          /\ \A i \in 1..Len(Tail(k)) : Tail(k)[i] = k[i + 1]
      BY <2>1, HeadTailProperties
    <2>3. Len(Tail(k)) = Len(w)
      BY <1>7, <2>1, <2>2
    <2>4. \A i \in 1..Len(w) : Tail(k)[i] = w[i]
      <3> TAKE i \in 1..Len(w)
      <3>1. i + 1 = 1 + i
        BY <1>7
      <3> QED
        BY <2>1, <2>2, <2>3, <3>1
    <2> QED
      BY <1>4, <2>2, <2>3, <2>4, SeqEqual DEF k
  <1>11. ToSet(z) \subseteq ToSet(o \o w)
    BY <1>4, <1>6
  <1> QED
    BY <1>2, <1>3, <1>4, <1>5, <1>7, <1>8, <1>9, <1>10, <1>11 DEF w, z, e

Extends1(s, x) ==
  /\ Len(s \o One(x)) = Len(s) + 1 /\ Len(s) \in Nat
  /\ Front(s \o One(x)) = s /\ Last(s \o One(x)) = x

(* One more element (with the equalities as a named predicate).            *)
LEMMA ExtendedByOne ==
  ASSUME NEW S, NEW s \in Seq(S), NEW x \in S
  PROVE  Extends1(s, x)
  BY Prolonged DEF Extends1

(* SplitString finds the lines that were sent.                             *)
LEMMA HeaderLines ==
  ASSUME NEW m \in Seq(Octets), NEW q \in Seq(Octets), NEW v \in Seq(Octets),
         CrLf[1] \notin ToSet(m), CrLf[1] \notin ToSet(q), CrLf[1] \notin ToSet(v),
         NEW fs \in Seq(Fields)
  PROVE  SplitString(HeaderText(m, q, v, fs), CrLf) = LinesOf(FirstLine(m, q, v), fs)
  <1> DEFINE l == FirstLine(m, q, v)
             d == Further(fs)
             k == d \o CrLf
             a == l \o CrLf
             h == HeaderText(m, q, v, fs)
             e == One(<<>>)
             z == Mapped(BareOf, fs)
             o == One(l)
  <1>1. l \in Seq(Octets) /\ CrLf[1] \notin ToSet(l)
    <2>1. CrLf[1] \notin Separators
      BY DEF CrLf, Separators, Space
    <2> QED
      BY <2>1, FirstLineIs
  <1>2. d \in Seq(Octets)
    BY FurtherIs
  <1>3. Cut(k, CrLf) = z \o (e \o e)
    BY FurtherCut DEF HeaderEnd
  <1>4. h = (a \o d) \o CrLf
    BY DEF HeaderText
  <1>5. /\ z \in Seq(Seq(Octets)) /\ e \in Seq(Seq(Octets)) /\ o \in Seq(Seq(Octets))
        /\ LinesOf(l, fs) = o \o (z \o e) /\ LinesOf(l, fs) \in Seq(Seq(Octets))
        /\ LinesOf(l, fs) # <<>>
    BY <1>1, LinesAre, OneIsText DEF LinesOf
  <1> HIDE DEF l, d, h, z, o
  <1>6. k \in Seq(Octets) /\ a \in Seq(Octets)
    BY <1>1, <1>2, CrLfIs, ConcatProperties
  <1>7. h = a \o k
    <2> HIDE DEF a
    <2>1. Associates(a, d, CrLf)
      BY <1>2, <1>6, CrLfIs, Associated
    <2> QED
      BY <1>4, <2>1 DEF Associates
  <1> HIDE DEF k
  <1>8. Cut(h, CrLf) = o \o Cut(k, CrLf)
    <2>1. CutsOnce(l, CrLf, k)
      BY <1>1, <1>6, CrLfIs, CutOnce
    <2> QED
      BY <1>7, <2>1 DEF o, One, CutsOnce
  <1>9. o \o (z \o (e \o e)) = (o \o (z \o e)) \o e
    <2> DEFINE f == e
    <2>1. f \in Seq(Seq(Octets))
      BY <1>5
    <2> HIDE DEF f
    <2>2. Associates(z, f, f)
      BY <1>5, <2>1, Associated
    <2> DEFINE y == z \o f
    <2>3. y \in Seq(Seq(Octets))
      BY <1>5, <2>1, ConcatProperties
    <2> HIDE DEF y
    <2>4. Associates(o, y, f)
      BY <1>5, <2>1, <2>3, Associated
    <2>5. o \o (z \o (f \o f)) = (o \o y) \o f
      BY <2>2, <2>4 DEF Associates, y
    <2> QED
      BY <2>5 DEF f, y
  <1>10. Cut(h, CrLf) = LinesOf(l, fs) \o e
    BY <1>3, <1>5, <1>8, <1>9
  <1> DEFINE x == LinesOf(l, fs)
  <1>11. x \in Seq(Seq(Octets)) /\ x # <<>> /\ Cut(h, CrLf) = x \o e
    BY <1>5, <1>10
  <1> HIDE DEF x
  <1>12. /\ Len(x \o e) = Len(x) + 1 /\ Len(x) \in Nat
         /\ Front(x \o e) = x /\ Last(x \o e) = <<>>
    <2> DEFINE n == <<>>
    <2>1. n \in Seq(Octets) /\ e = One(n)
      BY EmptySeq
    <2> HIDE DEF n
    <2>2. Extends1(x, n)
      BY <1>11, <2>1, ExtendedByOne
    <2> HIDE DEF e
    <2> QED
      BY <2>1, <2>2 DEF Extends1, n
  <1>13. Len(x) # 0
    BY <1>11, EmptySeq
  <1>14. Len(Cut(h, CrLf)) # 1
    BY <1>11, <1>12, <1>13
  <1>15. Pieces(h, CrLf) = x
    BY <1>11, <1>12 DEF Pieces
  <1> QED
    BY <1>14, <1>15 DEF SplitString, h, x, l

(* The values of a header.                                                 *)
WordsIn(lines)   == SplitString(lines[1], <<Space>>)
NamedIn(lines)   == Those(Tail(lines), {l \in ToSet(lines) : Splits(l, Ch.colon)})
HeadersIn(named) == [i \in 1..Len(named) |-> [name  |-> Trim(Left(named[i], Ch.colon)),
                                              value |-> Trim(Right(named[i], Ch.colon))]]
HeadersOf(fs)    == [i \in 1..Len(fs) |-> [name |-> fs[i].name, value |-> fs[i].value]]

(* What ParseHeader does with the lines.                                   *)
LEMMA ParseHeaderIs ==
  ASSUME NEW header, NEW lines, lines = SplitString(header, CrLf), lines # <<>>
  PROVE  ParseHeader(header) =
           IF Len(WordsIn(lines)) # 3 \/ WordsIn(lines)[3] \notin Versions THEN Refused
           ELSE [method |-> WordsIn(lines)[1], uri |-> UrlDecode(WordsIn(lines)[2]),
                 headers |-> HeadersIn(NamedIn(lines))]
  BY DEF ParseHeader, WordsIn, NamedIn, HeadersIn

(* Each field's line has a colon.                                          *)
LEMMA LinesNamed ==
  ASSUME NEW first \in Seq(Octets), NEW fs \in Seq(Fields)
  PROVE  NamedIn(LinesOf(first, fs)) = Mapped(BareOf, fs)
  <1> DEFINE lines == LinesOf(first, fs)
             z == Mapped(BareOf, fs)
             e == One(<<>>)
             T == {l \in ToSet(lines) : Splits(l, Ch.colon)}
  <1>1. /\ z \in Seq(Seq(Octets)) /\ e \in Seq(Seq(Octets))
        /\ Tail(lines) = z \o e /\ ToSet(z) \subseteq ToSet(lines)
    BY LinesAre
  <1>2. \A l \in ToSet(z) : Splits(l, Ch.colon)
    <2> TAKE l \in ToSet(z)
    <2>1. /\ Len(z) = Len(fs) /\ \A i \in 1..Len(fs) : z[i] = BareOf[fs[i]]
      BY LinesMap, MappedIsText
    <2> HIDE DEF z
    <2>2. PICK i \in 1..Len(z) : l = z[i]
      BY <1>1, ElementsOfText
    <2>3. fs[i] \in Fields
      BY <2>1
    <2>4. BareOf[fs[i]] = BareLine(fs[i])
      BY <2>3, LinesMap
    <2>5. l = BareLine(fs[i])
      BY <2>1, <2>2, <2>4
    <2> QED
      BY <2>3, <2>5, FieldIsRead
  <1>3. ~Splits(<<>>, Ch.colon)
    BY ElementsOfNone DEF Splits
  <1> HIDE DEF lines, z
  <1>4. ToSet(z) \subseteq T
    BY <1>1, <1>2
  <1>5. <<>> \notin T
    BY <1>3
  <1> HIDE DEF T
  <1>6. z \in Seq(T)
    <2>1. z \in Seq(ToSet(z))
      BY <1>1, ElementsOfText
    <2> QED
      BY <1>4, <2>1
  <1>7. Those(z, T) = z
    BY <1>6, ThoseAll
  <1>8. Those(e, T) = <<>>
    BY <1>5, ThoseOfOne DEF One
  <1> HIDE DEF e
  <1>9. Those(z \o e, T) = z \o <<>>
    <2>1. Those(z \o e, T) = Those(z, T) \o Those(e, T)
      BY <1>1, ThoseOfConcat
    <2> QED
      BY <2>1, <1>7, <1>8
  <1>10. z \o <<>> = z
    BY <1>1, ConcatEmptySeq
  <1> QED
    BY <1>1, <1>9, <1>10 DEF NamedIn, lines, z, T

(* The fields are read as they were sent.                                  *)
LEMMA HeadersRead ==
  ASSUME NEW fs \in Seq(Fields)
  PROVE  HeadersIn(Mapped(BareOf, fs)) = HeadersOf(fs)
  <1> DEFINE z == Mapped(BareOf, fs)
  <1>1. /\ Len(z) = Len(fs) /\ \A i \in 1..Len(fs) : z[i] = BareOf[fs[i]]
    BY LinesMap, MappedIsText
  <1> HIDE DEF z
  <1>2. \A i \in 1..Len(fs) : /\ Trim(Left(z[i], Ch.colon)) = fs[i].name
                              /\ Trim(Right(z[i], Ch.colon)) = fs[i].value
    <2> TAKE i \in 1..Len(fs)
    <2>1. fs[i] \in Fields
      OBVIOUS
    <2>2. z[i] = BareLine(fs[i])
      BY <1>1, <2>1, LinesMap
    <2> QED
      BY <2>1, <2>2, FieldIsRead
  <1>3. HeadersIn(z) = HeadersOf(fs)
    BY <1>1, <1>2 DEF HeadersIn, HeadersOf
  <1> QED
    BY <1>3 DEF z

(* A header's value is found by its name.                                  *)
LEMMA ValueIsFound ==
  ASSUME NEW fs \in Seq(Fields), NEW i \in 1..Len(fs),
         \A j \in 1..(i - 1) : fs[j].name # fs[i].name
  PROVE  GetHeaderValue(HeadersOf(fs), fs[i].name) = fs[i].value
  <1> DEFINE hs == HeadersOf(fs)
             name == fs[i].name
             T == {h \in ToSet(hs) : h.name = name}
  <1>1. /\ Len(hs) = Len(fs) /\ hs \in Seq(ToSet(hs)) /\ Len(fs) \in Nat
        /\ \A j \in 1..Len(fs) : hs[j] = [name |-> fs[j].name, value |-> fs[j].value]
    <2> DEFINE R == {[name |-> fs[j].name, value |-> fs[j].value] : j \in 1..Len(fs)}
    <2>1. hs \in Seq(R) /\ Len(hs) = Len(fs) /\ Len(fs) \in Nat
      BY LenProperties DEF HeadersOf
    <2> HIDE DEF R
    <2>2. hs \in Seq(ToSet(hs))
      <3> HIDE DEF hs
      <3> QED
        BY <2>1, ElementsOfText
    <2>3. \A j \in 1..Len(fs) : hs[j] = [name |-> fs[j].name, value |-> fs[j].value]
      BY DEF HeadersOf
    <2> QED
      BY <2>1, <2>2, <2>3
  <1> HIDE DEF hs
  <1>2. \A j \in 1..Len(fs) : hs[j].name = fs[j].name /\ hs[j].value = fs[j].value
    <2> TAKE j \in 1..Len(fs)
    <2>1. hs[j] = [name |-> fs[j].name, value |-> fs[j].value]
      BY <1>1
    <2> QED
      BY ONLY <2>1
  <1>3. \A j \in 1..Len(hs) : hs[j] \in ToSet(hs)
    BY <1>1, ElementsOfText
  <1>4. i \in 1..Len(hs) /\ hs[i] \in T
    BY <1>1, <1>2, <1>3
  <1>5. \A j \in 1..(i - 1) : hs[j] \notin T
    <2> TAKE j \in 1..(i - 1)
    <2>1. j \in 1..Len(fs) /\ fs[j].name # fs[i].name
      BY <1>1
    <2>2. hs[j].name # name
      BY <1>2, <2>1
    <2> QED
      BY <2>2
  <1> HIDE DEF T
  <1>6. Those(hs, T) # <<>> /\ Head(Those(hs, T)) = hs[i]
    BY <1>1, <1>4, <1>5, FirstOfThose
  <1>7. GetHeaderValue(hs, name) = Head(Those(hs, T)).value
    BY <1>6 DEF GetHeaderValue, T
  <1> QED
    BY <1>2, <1>6, <1>7 DEF hs

(* A request in which every line is one.                                   *)
IsPart(s) == s \in Seq(Octets) /\ CrLf[1] \notin ToSet(s)
IsName(s) == IsPart(s) /\ Space \notin ToSet(s) /\ Len(s) # 0
Header3(m, q, fs) ==
  [method |-> m, uri |-> UrlDecode(Uri(q)), headers |-> HeadersOf(fs)]

(* A header is read as it was sent, or refused for a space in its          *)
(* parameters.                                                             *)
LEMMA HeaderRead ==
  ASSUME NEW m, IsName(m), NEW q, IsPart(q), NEW v \in Versions, IsName(v),
         NEW fs \in Seq(Fields)
  PROVE  ParseHeader(HeaderText(m, q, v, fs)) =
           IF Space \in ToSet(q) THEN Refused ELSE Header3(m, q, fs)
  <1> DEFINE lines == LinesOf(FirstLine(m, q, v), fs)
  <1>1. /\ m \in Seq(Octets) /\ q \in Seq(Octets) /\ v \in Seq(Octets)
        /\ CrLf[1] \notin ToSet(m) /\ CrLf[1] \notin ToSet(q) /\ CrLf[1] \notin ToSet(v)
        /\ Space \notin ToSet(m) /\ Space \notin ToSet(v) /\ Len(v) # 0
    BY DEF IsPart, IsName
  <1>2. FirstLine(m, q, v) \in Seq(Octets)
    BY <1>1, FirstLineIs
  <1>3. SplitString(HeaderText(m, q, v, fs), CrLf) = lines
    BY <1>1, HeaderLines
  <1>4. lines # <<>> /\ lines[1] = FirstLine(m, q, v)
    BY <1>2, LinesAre
  <1>5. HeadersIn(NamedIn(lines)) = HeadersOf(fs)
    BY <1>2, LinesNamed, HeadersRead
  <1>6. WordsIn(lines) = WordsOf(m, q, v)
    BY <1>4 DEF WordsIn, WordsOf
  <1> HIDE DEF lines
  <1>7. ParseHeader(HeaderText(m, q, v, fs)) =
          IF Len(WordsIn(lines)) # 3 \/ WordsIn(lines)[3] \notin Versions THEN Refused
          ELSE [method |-> WordsIn(lines)[1], uri |-> UrlDecode(WordsIn(lines)[2]),
                headers |-> HeadersIn(NamedIn(lines))]
    BY <1>3, <1>4, ParseHeaderIs
  <1>8. CASE Space \in ToSet(q)
    <2>1. Len(WordsOf(m, q, v)) # 3
      BY <1>1, <1>8, WordsOfFirstLine
    <2> QED
      BY <1>6, <1>7, <1>8, <2>1
  <1>9. CASE Space \notin ToSet(q)
    <2>1. /\ Len(WordsOf(m, q, v)) = 3 /\ WordsOf(m, q, v)[1] = m
          /\ WordsOf(m, q, v)[2] = Uri(q) /\ WordsOf(m, q, v)[3] = v
      BY <1>1, <1>9, WordsOfFirstLine
    <2> QED
      BY <1>5, <1>6, <1>7, <1>9, <2>1 DEF Header3
  <1> QED
    BY <1>8, <1>9

(* A header that is read is not refused.                                   *)
LEMMA HeaderIsRead ==
  ASSUME NEW m, NEW q, NEW fs
  PROVE  /\ Header3(m, q, fs) # Refused
         /\ Header3(m, q, fs).method = m /\ Header3(m, q, fs).uri = UrlDecode(Uri(q))
         /\ Header3(m, q, fs).headers = HeadersOf(fs)
  <1>1. DOMAIN Header3(m, q, fs) = {"method", "uri", "headers"} /\ DOMAIN Refused = {"refused"}
    BY DEF Header3, Refused
  <1>2. Header3(m, q, fs) # Refused
    BY <1>1
  <1> QED
    BY <1>2 DEF Header3

(* The parameters of a GET begin behind "/?".                              *)
LEMMA UriDecoded ==
  ASSUME NEW s \in Seq(Octets), NEW uri, uri = UrlDecode(Uri(One(63) \o s))
  PROVE  SubSeq(uri, 1, 2) = <<47, 63>> /\ SubSeq(uri, 3, Len(uri)) = UrlDecode(s)
  <1> DEFINE d == UrlDecode(s)
             a == One(47)
             b == One(63)
             p == b \o s
             q == a \o b
             k == q \o d
  <1>1. /\ 47 \in Octets /\ 63 \in Octets /\ 47 # Ch.plus /\ 63 # Ch.plus
        /\ 47 # Ch.percent /\ 63 # Ch.percent
    BY DEF Octets, Ch
  <1>2. d \in Seq(Octets)
    BY DecodedIsText
  <1>3. a \in Seq(Octets) /\ b \in Seq(Octets)
    BY <1>1, OneIsText
  <1>4. UrlDecode(p) = b \o d
    BY <1>1, DecodeOther DEF Undecoded
  <1>5. p \in Seq(Octets)
    <2> HIDE DEF b
    <2> QED
      BY <1>3, ConcatProperties
  <1>6. UrlDecode(a \o p) = a \o UrlDecode(p)
    <2> HIDE DEF p
    <2> QED
      BY <1>1, <1>5, DecodeOther DEF Undecoded
  <1>7. q = <<47, 63>>
    BY <1>1, PairIs
  <1>8. uri = k
    <2>1. uri = a \o (b \o d)
      BY <1>4, <1>6 DEF Uri
    <2> HIDE DEF a, b, d
    <2>2. Associates(a, b, d)
      BY <1>2, <1>3, Associated
    <2> QED
      BY <2>1, <2>2 DEF Associates
  <1>9. q \in Seq(Octets) /\ Len(q) = 2
    <2> HIDE DEF q
    <2> QED
      BY <1>1, <1>7
  <1> HIDE DEF q, d
  <1>10. Len(k) = Len(q) + Len(d) /\ Len(d) \in Nat /\ k \in Seq(Octets)
    BY <1>2, <1>9, ConcatProperties, LenProperties
  <1>11. SubSeq(k, 1, 2) = q
    <2>1. SubSeq(q \o d, 1, Len(q)) = SubSeq(q, 1, Len(q))
      BY <1>2, <1>9, PartOfFirst
    <2>2. SubSeq(q, 1, Len(q)) = q
      BY <1>9, SubSeqFull
    <2> QED
      BY <1>9, <2>1, <2>2
  <1>12. SubSeq(k, 3, Len(k)) = d
    <2>1. SubSeq(q \o d, Len(q) + 1, Len(q) + Len(d)) = SubSeq(d, 1, Len(d))
      <3>1. 1 \in 1..(Len(d) + 1) /\ 1 - 1 <= Len(d) /\ Len(d) <= Len(d)
        BY <1>10
      <3> QED
        BY <1>2, <1>9, <1>10, <3>1, PartOfSecond
    <2>2. SubSeq(d, 1, Len(d)) = d
      BY <1>2, SubSeqFull
    <2>3. Len(q) + 1 = 3
      BY <1>9
    <2> QED
      BY <1>10, <2>1, <2>2, <2>3
  <1> QED
    BY <1>7, <1>8, <1>11, <1>12 DEF d

(* A request that is being sent.                                           *)
RequestInv ==
  /\ method \in DOMAIN Methods
  /\ fields \in Seq(Fields)
  /\ sent \in Seq(Seq(Sym))

(* What RequestAssumption says of the constants.                           *)
LEMMA ConstantsAre ==
  /\ \A m \in DOMAIN Methods : IsName(Methods[m])
  /\ \A v \in Versions : IsName(v)
  /\ \A header \in Headers : header \in Seq(Fields)
  /\ \A chunk \in Begun \cup Chunks : chunk \in Seq(Sym)
  <1>1. ASSUME NEW s, IsWord(s)
        PROVE  IsName(s)
    <2>1. s \in Seq(InLine \ {Space}) /\ s # <<>>
      BY <1>1 DEF IsWord
    <2>2. InLine \subseteq Octets /\ CrLf[1] \notin InLine
      BY DEF InLine, Octets
    <2>3. ToSet(s) \subseteq InLine \ {Space}
      BY <2>1, ElementsOfText
    <2>4. s \in Seq(Octets) /\ Len(s) # 0
      BY <2>1, <2>2, EmptySeq
    <2> QED
      BY <2>2, <2>3, <2>4 DEF IsName, IsPart
  <1>2. ASSUME NEW header \in Headers
        PROVE  header \in Seq(Fields)
    <2>1. header \in Seq(ToSet(header)) /\ \A field \in ToSet(header) : IsField(field)
      BY RequestAssumption
    <2>2. \A field \in ToSet(header) : field \in Fields
      BY <2>1 DEF Fields, IsField
    <2>3. ToSet(header) \subseteq Fields
      BY <2>2
    <2> QED
      BY <2>1, <2>3
  <1>3. ASSUME NEW chunk \in Begun \cup Chunks
        PROVE  chunk \in Seq(Sym)
    <2>1. chunk \in Seq(ToSet(chunk)) /\ \A symbol \in ToSet(chunk) : IsSent(symbol)
      BY RequestAssumption
    <2>2. \A symbol \in ToSet(chunk) : symbol \in Sym
      BY <2>1 DEF Sym, IsSent
    <2>3. ToSet(chunk) \subseteq Sym
      BY <2>2
    <2> QED
      BY <2>1, <2>3
  <1> QED
    BY <1>1, <1>2, <1>3, RequestAssumption

(* The request is taken apart as the client put it together.               *)
SpaceByte == [byte |-> Space, escaped |-> FALSE]
Query(symbols) == IF method = "get" THEN <<63>> \o Spelled(symbols) ELSE <<>>
Version == CHOOSE v \in Versions : TRUE

(* The header that is sent, with what varies in it named.                  *)
LEMMA HeaderIs == Header = HeaderText(Methods[method], Query(Symbols), Version, fields)
  BY DEF Header, HeaderText, FirstLine, Query, Version, Further

(* The parameters of a get request are in the first line.                  *)
LEMMA QueryIs ==
  ASSUME NEW symbols \in Seq(Sym)
  PROVE  /\ IsPart(Query(symbols))
         /\ Space \in ToSet(Query(symbols)) <=> method = "get" /\ SpaceByte \in ToSet(symbols)
         /\ method = "get" => Query(symbols) = One(63) \o Spelled(symbols)
  <1> DEFINE s == Spelled(symbols)
             o == One(63)
  <1>1. s \in Seq(Octets) /\ CrLf[1] \notin ToSet(s)
    BY SpelledIs, SpelledElements
  <1>2. Space \in ToSet(s) <=> SpaceByte \in ToSet(symbols)
    BY SpelledElements DEF SpaceByte
  <1>3. 63 \in Octets /\ 63 # Space /\ 63 # CrLf[1]
    BY DEF Octets, Space, CrLf
  <1>4. o \in Seq(Octets) /\ ToSet(o) = {63}
    BY <1>3, OneIsText
  <1>5. method = "get" => Query(symbols) = o \o s
    BY DEF Query, One
  <1>6. method # "get" => Query(symbols) = <<>>
    BY DEF Query
  <1> HIDE DEF s, o
  <1>7. o \o s \in Seq(Octets) /\ ToSet(o \o s) = ToSet(o) \cup ToSet(s)
    BY <1>1, <1>4, ElementsOfConcat, ConcatProperties
  <1>8. CASE method = "get"
    BY <1>1, <1>2, <1>3, <1>4, <1>5, <1>7, <1>8 DEF IsPart, o, s
  <1>9. CASE method # "get"
    BY <1>6, <1>9, EmptySeq, ElementsOfNone DEF IsPart
  <1> QED
    BY <1>8, <1>9

(* The properties follow from the constants and what has been sent.        *)
LEMMA RequestIsRead ==
  ASSUME RequestInv
  PROVE  RequestsAreRead
  <1> DEFINE m == Methods[method]
             q == Query(Symbols)
             header == Header3(m, q, fields)
             refused == method = "get" /\ SpaceByte \in ToSet(Symbols)
             meant == PlainRequest(Parameters(Meant(Symbols)))
  <1>1. method \in DOMAIN Methods /\ fields \in Seq(Fields) /\ Symbols \in Seq(Sym)
    BY FlattenIsText DEF RequestInv, Symbols
  <1>2. Version \in Versions /\ IsName(Version)
    BY RequestAssumption, ConstantsAre DEF Version
  <1>3. IsName(m)
    BY <1>1, ConstantsAre
  <1>4. /\ IsPart(q)
        /\ Space \in ToSet(q) <=> refused
        /\ method = "get" => q = One(63) \o Spelled(Symbols)
    BY <1>1, QueryIs
  <1>5. ParseHeader(Header) = IF refused THEN Refused ELSE header
    <2> HIDE DEF q, m, header, refused
    <2>1. ParseHeader(HeaderText(m, q, Version, fields)) =
            IF Space \in ToSet(q) THEN Refused ELSE Header3(m, q, fields)
      BY <1>1, <1>2, <1>3, <1>4, HeaderRead
    <2> QED
      BY <1>4, <2>1, HeaderIs DEF q, m, header
  <1>6. /\ header # Refused /\ header.method = m /\ header.uri = UrlDecode(Uri(q))
        /\ header.headers = HeadersOf(fields)
    BY HeaderIsRead
  <1>7. ASSUME ~Misleading(Symbols)
        PROVE  Parameters(UrlDecode(Spelled(Symbols))) = meant
    <2>1. UrlDecode(Spelled(Symbols)) = Plain(Meant(Symbols))
      BY <1>1, <1>7, SymbolsDecoded
    <2>2. Meant(Symbols) \in Seq(Clean)
      BY <1>1, SpelledIs
    <2> QED
      BY <2>1, <2>2, ParametersMapped
  <1>8. /\ method \in {"get", "post", "other"}
        /\ Methods["get"] # Methods["post"] /\ Methods["get"] # Methods["other"]
        /\ Methods["post"] # Methods["other"]
    BY <1>1, RequestAssumption
  <1> HIDE DEF q, m, header, meant, refused
  <1>9. Received = IF refused THEN Refused ELSE Parse(header, UrlDecode(Spelled(Symbols)))
    BY <1>5, <1>6 DEF Received
  <1>10. ASSUME method = "get", ~Misleading(Symbols)
         PROVE  Parse(header, UrlDecode(Spelled(Symbols))) = meant
    <2> DEFINE uri == UrlDecode(Uri(One(63) \o Spelled(Symbols)))
    <2>1. header.uri = uri
      BY <1>4, <1>6, <1>10
    <2>2. Spelled(Symbols) \in Seq(Octets)
      BY <1>1, SpelledIs
    <2>3. /\ SubSeq(uri, 1, 2) = <<47, 63>>
          /\ SubSeq(uri, 3, Len(uri)) = UrlDecode(Spelled(Symbols))
      BY <2>2, UriDecoded
    <2> HIDE DEF uri
    <2>4. header.method = Methods["get"]
      BY <1>6, <1>10 DEF m
    <2> QED
      BY <1>7, <1>10, <2>1, <2>3, <2>4 DEF Parse
  <1>11. ASSUME method = "post", ~Misleading(Symbols)
         PROVE  Parse(header, UrlDecode(Spelled(Symbols))) = meant
    BY <1>6, <1>7, <1>8, <1>11 DEF Parse, m
  <1>12. ASSUME method = "other"
         PROVE  Parse(header, UrlDecode(Spelled(Symbols))) = Refused
    BY <1>6, <1>8, <1>12 DEF Parse, m
  <1>13. ASSUME ~Misleading(Symbols)
         PROVE  Received = IF method = "other" \/ refused THEN Refused ELSE meant
    BY <1>8, <1>9, <1>10, <1>11, <1>12, <1>13 DEF refused
  <1>14. ASSUME ParseHeader(Header) # Refused, NEW i \in 1..Len(fields),
                \A j \in 1..(i - 1) : fields[j].name # fields[i].name
         PROVE  GetHeaderValue(ParseHeader(Header).headers, fields[i].name) = fields[i].value
    <2>1. ParseHeader(Header).headers = HeadersOf(fields)
      BY <1>5, <1>6, <1>14
    <2>2. GetHeaderValue(HeadersOf(fields), fields[i].name) = fields[i].value
      BY <1>1, <1>14, ValueIsFound
    <2> QED
      BY <2>1, <2>2
  <1> QED
    BY <1>13, <1>14 DEF RequestsAreRead, refused, meant, SpaceByte

(* What is sent are fields and symbols.                                    *)
LEMMA RequestIsSent == RequestSpec => []RequestInv
  <1>1. RequestInit => RequestInv
    <2> SUFFICES ASSUME RequestInit PROVE RequestInv
      OBVIOUS
    <2>1. PICK begun \in Begun : sent = <<begun>>
      BY DEF RequestInit
    <2>2. begun \in Seq(Sym)
      BY ConstantsAre
    <2>3. sent \in Seq(Seq(Sym))
      BY <2>1, <2>2
    <2> QED
      BY <2>3, ConstantsAre DEF RequestInit, RequestInv
  <1>2. RequestInv /\ [RequestNext]_requestVars => RequestInv'
    <2> SUFFICES ASSUME RequestInv, [RequestNext]_requestVars PROVE RequestInv'
      OBVIOUS
    <2>1. CASE RequestNext
      <3>1. PICK chunk \in Chunks : Send(chunk)
        BY <2>1 DEF RequestNext
      <3>2. chunk \in Seq(Sym)
        BY ConstantsAre
      <3>3. sent' \in Seq(Seq(Sym))
        BY <3>1, <3>2 DEF Send, RequestInv
      <3> QED
        BY <3>1, <3>3 DEF Send, RequestInv
    <2>2. CASE UNCHANGED requestVars
      BY <2>2 DEF requestVars, RequestInv
    <2> QED
      BY <2>1, <2>2
  <1> QED
    BY <1>1, <1>2, PTL DEF RequestSpec

(* Every request, of any header and parameters: what ParseHeader,          *)
(* UrlDecode (http_request_parser.cpp:5-82) and LookaRequest               *)
(* (looka_request.cpp:18-95) make of its bytes are the parameters and the  *)
(* values of the header that the client means, and it is refused for a     *)
(* space in its URI or another method only; unless bytes that are not      *)
(* escaped look like an escape.                                            *)
THEOREM RequestsCorrect == RequestSpec => []RequestsAreRead
  BY RequestIsRead, RequestIsSent, PTL
=============================================================================
