------------------------------- MODULE Induction -------------------------------
(***************************************************************************)
(* Induction stated of sets instead of predicates: what holds of a number  *)
(* or of a sequence is proved of every one of them by taking the set of    *)
(* those it holds of.  With it, the recursive functions of the model are   *)
(* unfolded: a recursion over 0 .. n, and a sum over a finite set.         *)
(***************************************************************************)
EXTENDS Keeping, Integers, FiniteSets, FiniteSetTheorems, SequenceTheorems,
        WellFoundedInduction, TLAPS

LEMMA LeastExists ==
  ASSUME NEW S \in SUBSET Nat, S # {}
  PROVE  \E x \in S : \A y \in S : x <= y
<1> DEFINE R == {ss \in Nat \X Nat : ss[1] < ss[2]}
<1>1. IsWellFoundedOn(R, Nat)
  BY NatLessThanWellFounded DEF OpToRel
<1>2. \E x \in S : \A y \in S : <<y, x>> \notin R
  <2> HIDE DEF R
  <2> QED
    BY <1>1, WFMin
<1>3. PICK x \in S : \A y \in S : <<y, x>> \notin R
  BY <1>2
<1>4. ASSUME NEW y \in S
      PROVE  x <= y
  <2>1. <<y, x>> \in Nat \X Nat /\ <<y, x>>[1] = y /\ <<y, x>>[2] = x
    OBVIOUS
  <2>2. ~(y < x)
    BY <1>3, <2>1
  <2> QED
    BY <2>2
<1> QED
  BY <1>4

LEMMA NatInduct ==
  ASSUME NEW X, 0 \in X, \A n \in Nat : n \in X => n + 1 \in X
  PROVE  Nat \subseteq X
<1> SUFFICES ASSUME NEW m \in Nat, m \notin X
             PROVE  FALSE
  OBVIOUS
<1> DEFINE T == Nat \ X
<1>1. T \subseteq Nat /\ T # {}
  OBVIOUS
<1>2. PICK x \in T : \A y \in T : x <= y
  <2> HIDE DEF T
  <2> QED
    BY <1>1, LeastExists
<1>3. x # 0 /\ x - 1 \in Nat /\ x - 1 < x
  BY <1>2
<1>4. x - 1 \in X
  BY <1>2, <1>3
<1> QED
  BY <1>2, <1>3, <1>4

LEMMA RestIsSmaller ==
  ASSUME NEW s, IsFiniteSet(s), NEW x \in s, NEW n \in Nat, Cardinality(s) = n + 1
  PROVE  Cardinality(s \ {x}) = n
<1>1. Cardinality(s \ {x}) = Cardinality(s) - 1
  BY FS_RemoveElement
<1> QED
  BY <1>1

(***************************************************************************)
(* Recursion over 0 .. n: values in V, from b, by a function G of the      *)
(* index and of the value before it.                                       *)
(***************************************************************************)
Steps(G, n, V) == n \in Nat /\ G \in [1 .. n -> [V -> V]]

Follows(f, b, G, n) == f[0] = b /\ \A i \in 1 .. n : f[i] = G[i][f[i - 1]]

LEMMA RecursionExists ==
  ASSUME NEW n, NEW V, NEW b \in V, NEW G, Steps(G, n, V)
  PROVE  \E f \in [0 .. n -> V] : Follows(f, b, G, n)
<1> USE DEF Steps, Follows
<1> DEFINE UpTo(f, m) == f[0] = b /\ \A i \in 1 .. n : i <= m => f[i] = G[i][f[i - 1]]
           X == {m \in Nat : \E f \in [0 .. n -> V] : UpTo(f, m)}
<1>1. 0 \in X
  <2> DEFINE f == [i \in 0 .. n |-> b]
  <2>1. f \in [0 .. n -> V] /\ UpTo(f, 0)
    OBVIOUS
  <2> QED
    BY <2>1
<1>2. ASSUME NEW m \in Nat, m \in X
      PROVE  m + 1 \in X
  <2>1. PICK f \in [0 .. n -> V] : UpTo(f, m)
    BY <1>2
  <2> DEFINE g == [i \in 0 .. n |-> IF i = m + 1 THEN G[i][f[i - 1]] ELSE f[i]]
  <2>2. ASSUME NEW i \in 0 .. n
        PROVE  (IF i = m + 1 THEN G[i][f[i - 1]] ELSE f[i]) \in V
    <3>1. CASE i = m + 1
      <4>1. i \in 1 .. n /\ i - 1 \in 0 .. n
        BY <3>1
      <4> QED
        BY <3>1, <4>1
    <3> QED
      BY <3>1
  <2>3. g \in [0 .. n -> V]
    BY <2>2
  <2>4. UpTo(g, m + 1)
    <3>1. g[0] = b
      BY <2>1
    <3>2. ASSUME NEW i \in 1 .. n, i <= m + 1
          PROVE  g[i] = G[i][g[i - 1]]
      <4>1. i \in 0 .. n /\ i - 1 \in 0 .. n /\ i - 1 # m + 1
        BY <3>2
      <4>2. g[i - 1] = f[i - 1]
        BY <4>1
      <4>3. CASE i = m + 1
        BY <4>1, <4>2, <4>3
      <4>4. CASE i # m + 1
        <5>1. i <= m
          BY <3>2, <4>4
        <5>2. g[i] = f[i]
          BY <4>1, <4>4
        <5> QED
          BY <2>1, <4>2, <5>1, <5>2
      <4> QED
        BY <4>3, <4>4
    <3> HIDE DEF g
    <3> QED
      BY <3>1, <3>2
  <2> HIDE DEF g
  <2> QED
    BY <2>3, <2>4
<1> HIDE DEF X
<1>3. n \in X
  BY <1>1, <1>2, NatInduct
<1> QED
  BY <1>3 DEF X

(* Recursion down from n + 1, by steps of any length: next[i] is where the *)
(* value that i needs stands.                                              *)
Onward(next, n) == next \in [1 .. n -> 1 .. n + 1] /\ \A i \in 1 .. n : i < next[i]

FollowsDown(f, b, G, next, n) == f[n + 1] = b /\ \A i \in 1 .. n : f[i] = G[i][f[next[i]]]

LEMMA RecursionDown ==
  ASSUME NEW n, NEW V, NEW b \in V, NEW G, Steps(G, n, V), NEW next, Onward(next, n)
  PROVE  \E f \in [1 .. n + 1 -> V] : FollowsDown(f, b, G, next, n)
<1> DEFINE From(f, m) == f[n + 1] = b /\ \A i \in 1 .. n : n - m < i => f[i] = G[i][f[next[i]]]
           X == {m \in Nat : m <= n => \E f \in [1 .. n + 1 -> V] : From(f, m)}
<1>0. /\ n \in Nat /\ G \in [1 .. n -> [V -> V]]
      /\ next \in [1 .. n -> 1 .. n + 1] /\ \A i \in 1 .. n : i < next[i]
  BY DEF Steps, Onward
<1>1. 0 \in X
  <2> DEFINE f == [i \in 1 .. n + 1 |-> b]
  <2>1. f \in [1 .. n + 1 -> V] /\ From(f, 0)
    BY <1>0
  <2> HIDE DEF f, From
  <2> QED
    BY <2>1
<1>2. ASSUME NEW m \in Nat, m \in X
      PROVE  m + 1 \in X
  <2> SUFFICES ASSUME m + 1 <= n
               PROVE  \E f \in [1 .. n + 1 -> V] : From(f, m + 1)
    OBVIOUS
  <2>1. PICK f \in [1 .. n + 1 -> V] : From(f, m)
    BY <1>0, <1>2
  <2> DEFINE j == n - m
             v == G[j][f[next[j]]]
             h == [i \in 1 .. n + 1 |-> IF i = j THEN v ELSE f[i]]
  <2>2. j \in 1 .. n /\ next[j] \in 1 .. n + 1
    BY <1>0
  <2>3. v \in V
    BY <1>0, <2>2
  <2> HIDE DEF v
  <2>4. h \in [1 .. n + 1 -> V] /\ h[n + 1] = b
    BY <1>0, <2>1, <2>2, <2>3
  <2>5. ASSUME NEW i \in 1 .. n, n - (m + 1) < i
        PROVE  h[i] = G[i][h[next[i]]]
    <3>1. next[i] \in 1 .. n + 1 /\ next[i] # j /\ j <= i
      BY <1>0, <2>2, <2>5
    <3>2. h[next[i]] = f[next[i]]
      BY <3>1
    <3>3. CASE i = j
      <4>1. h[i] = v
        BY <1>0, <3>3
      <4>2. v = G[i][f[next[i]]]
        BY <3>3 DEF v
      <4> QED
        BY <3>2, <4>1, <4>2
    <3>4. CASE i # j
      <4>1. n - m < i
        BY <1>0, <3>1, <3>4
      <4> QED
        BY <1>0, <2>1, <3>2, <3>4, <4>1
    <3> QED
      BY <3>3, <3>4
  <2> HIDE DEF h
  <2>6. From(h, m + 1)
    BY <2>4, <2>5
  <2> HIDE DEF From
  <2> QED
    BY <2>4, <2>6
<1> HIDE DEF X
<1>3. n \in X
  BY <1>0, <1>1, <1>2, NatInduct
<1>4. PICK f \in [1 .. n + 1 -> V] : From(f, n)
  BY <1>0, <1>3 DEF X
<1>5. \A i \in 1 .. n : n - n < i
  BY <1>0
<1> QED
  BY <1>4, <1>5 DEF FollowsDown

(***************************************************************************)
(* Keep                                                                    *)
(***************************************************************************)
KeepStep(s, K, f, i) == IF i \in K THEN Append(f[i - 1], s[i]) ELSE f[i - 1]

(* f[i]: what is kept of the first i elements.                             *)
Keeps(f, s, K) ==
    f = [i \in 0 .. Len(s) |-> IF i = 0 THEN <<>> ELSE KeepStep(s, K, f, i)]

KeepRun(f, s, K) ==
    /\ f[0] = <<>>
    /\ \A i \in 1 .. Len(s) : f[i] = KeepStep(s, K, f, i)
    /\ Keep(s, K) = f[Len(s)]

LEMMA KeepUnfolds ==
  ASSUME NEW S, NEW s \in Seq(S), NEW K
  PROVE  \E f \in [0 .. Len(s) -> Seq(S)] : KeepRun(f, s, K)
<1> DEFINE n == Len(s)
           G == [i \in 1 .. n |-> [v \in Seq(S) |-> IF i \in K THEN Append(v, s[i]) ELSE v]]
<1>0. n \in Nat /\ \A i \in 1 .. n : s[i] \in S
  OBVIOUS
<1>1. G \in [1 .. n -> [Seq(S) -> Seq(S)]]
  BY <1>0
<1>2. \E f : Keeps(f, s, K)
  <2>1. PICK f \in [0 .. n -> Seq(S)] : f[0] = <<>> /\ \A i \in 1 .. n : f[i] = G[i][f[i - 1]]
    <3> DEFINE V == Seq(S)
    <3>1. <<>> \in V /\ Steps(G, n, V)
      BY <1>0, <1>1 DEF Steps
    <3> HIDE DEF G, n, V
    <3>2. \E f \in [0 .. n -> V] : Follows(f, <<>>, G, n)
      BY <3>1, RecursionExists
    <3> QED
      BY <3>2 DEF V, Follows
  <2>2. \A i \in 1 .. n : f[i] = KeepStep(s, K, f, i)
    <3> SUFFICES ASSUME NEW i \in 1 .. n
                 PROVE  f[i] = KeepStep(s, K, f, i)
      OBVIOUS
    <3>1. f[i - 1] \in Seq(S)
      BY <1>0
    <3> QED
      BY <2>1, <3>1 DEF KeepStep
  <2>3. f = [i \in 0 .. n |-> IF i = 0 THEN <<>> ELSE KeepStep(s, K, f, i)]
    <3> HIDE DEF G
    <3>1. f = [i \in 0 .. n |-> f[i]]
      OBVIOUS
    <3>2. \A i \in 0 .. n : f[i] = IF i = 0 THEN <<>> ELSE KeepStep(s, K, f, i)
      BY <1>0, <2>1, <2>2
    <3> QED
      BY <3>1, <3>2
  <2> QED
    BY <2>3 DEF Keeps
<1> DEFINE k == CHOOSE f : Keeps(f, s, K)
<1>3. Keeps(k, s, K) /\ Keep(s, K) = k[n]
  <2>1. Keep(s, K) = k[n]
    BY DEF Keep, Keeps, KeepStep
  <2> QED
    BY <1>2, <2>1
<1> HIDE DEF k, G
<1>4. k[0] = <<>> /\ \A i \in 1 .. n : k[i] = KeepStep(s, K, k, i)
  BY <1>0, <1>3 DEF Keeps
<1>5. \A i \in 0 .. n : k[i] \in Seq(S)
  <2> DEFINE X == {i \in Nat : i <= n => k[i] \in Seq(S)}
  <2>1. 0 \in X
    BY <1>4, EmptySeq
  <2>2. ASSUME NEW i \in Nat, i \in X
        PROVE  i + 1 \in X
    <3> SUFFICES ASSUME i + 1 <= n
                 PROVE  k[i + 1] \in Seq(S)
      OBVIOUS
    <3>1. i + 1 \in 1 .. n /\ k[i] \in Seq(S) /\ (i + 1) - 1 = i
      BY <1>0, <2>2
    <3>2. k[i + 1] = IF i + 1 \in K THEN Append(k[i], s[i + 1]) ELSE k[i]
      BY <1>4, <3>1 DEF KeepStep
    <3> QED
      BY <1>0, <3>1, <3>2
  <2> HIDE DEF X
  <2>3. Nat \subseteq X
    BY <2>1, <2>2, NatInduct
  <2> QED
    BY <1>0, <2>3 DEF X
<1>6. k \in [0 .. n -> Seq(S)]
  BY <1>3, <1>5 DEF Keeps
<1> QED
  BY <1>3, <1>4, <1>6 DEF KeepRun

(* What is kept is s read at increasing positions, which are all those of  *)
(* K.                                                                      *)
Reads(p, t, s, n, K) ==
    /\ p \in [1 .. Len(t) -> 1 .. n]
    /\ \A j \in 1 .. Len(t) : p[j] \in K /\ t[j] = s[p[j]]
    /\ \A i, j \in 1 .. Len(t) : i < j => p[i] < p[j]
    /\ \A i \in 1 .. n : i \in K => \E j \in 1 .. Len(t) : p[j] = i

LEMMA KeepReads ==
  ASSUME NEW S, NEW s \in Seq(S), NEW K
  PROVE  /\ Keep(s, K) \in Seq(S)
         /\ \E p : Reads(p, Keep(s, K), s, Len(s), K)
<1> DEFINE n == Len(s)
<1>0. n \in Nat /\ \A i \in 1 .. n : s[i] \in S
  OBVIOUS
<1>1. PICK f \in [0 .. n -> Seq(S)] :
        /\ f[0] = <<>>
        /\ \A i \in 1 .. n : f[i] = KeepStep(s, K, f, i)
        /\ Keep(s, K) = f[n]
  <2>1. PICK f \in [0 .. n -> Seq(S)] : KeepRun(f, s, K)
    BY KeepUnfolds
  <2> QED
    BY <2>1 DEF KeepRun
<1> DEFINE X == {i \in Nat : i <= n => \E p : Reads(p, f[i], s, i, K)}
<1>2. 0 \in X
  <2>1. Reads(<<>>, <<>>, s, 0, K)
    <3>1. Len(<<>>) = 0 /\ <<>> \in [1 .. 0 -> 1 .. 0]
      OBVIOUS
    <3> QED
      BY <3>1 DEF Reads
  <2> QED
    BY <1>1, <2>1
<1>3. ASSUME NEW i \in Nat, i \in X
      PROVE  i + 1 \in X
  <2> SUFFICES ASSUME i + 1 <= n
               PROVE  \E p : Reads(p, f[i + 1], s, i + 1, K)
    OBVIOUS
  <2>1. PICK p : Reads(p, f[i], s, i, K)
    BY <1>0, <1>3
  <2>2. i + 1 \in 1 .. n /\ f[i] \in Seq(S) /\ (i + 1) - 1 = i /\ s[i + 1] \in S
    BY <1>0
  <2>3. f[i + 1] = IF i + 1 \in K THEN Append(f[i], s[i + 1]) ELSE f[i]
    BY <1>1, <2>2 DEF KeepStep
  <2> DEFINE t == f[i]
             m == Len(t)
  <2>4. m \in Nat
    BY <2>2
  <2>5. CASE i + 1 \notin K
    <3>1. Reads(p, t, s, i + 1, K)
      <4>1. p \in [1 .. m -> 1 .. i + 1]
        BY <2>1 DEF Reads
      <4>2. \A l \in 1 .. i + 1 : l \in K => l \in 1 .. i
        BY <2>5
      <4> QED
        BY <2>1, <4>1, <4>2 DEF Reads
    <3> QED
      BY <2>3, <2>5, <3>1
  <2>6. CASE i + 1 \in K
    <3> DEFINE u == Append(t, s[i + 1])
               q == [j \in 1 .. m + 1 |-> IF j = m + 1 THEN i + 1 ELSE p[j]]
    <3>1. /\ Len(u) = m + 1 /\ u[m + 1] = s[i + 1]
          /\ \A j \in 1 .. m : u[j] = t[j]
      BY <2>2, AppendProperties
    <3>2. \A j \in 1 .. m : p[j] \in 1 .. i /\ p[j] \in K /\ t[j] = s[p[j]]
      BY <2>1 DEF Reads
    <3>3. q[m + 1] = i + 1 /\ \A j \in 1 .. m : q[j] = p[j]
      BY <2>4
    <3>4. q \in [1 .. m + 1 -> 1 .. i + 1]
      BY <2>4, <3>2
    <3> HIDE DEF q, u, t, m
    <3>5. \A j \in 1 .. m + 1 : j = m + 1 \/ j \in 1 .. m
      BY <2>4
    <3>6. \A j \in 1 .. m + 1 : q[j] \in K /\ u[j] = s[q[j]]
      BY <2>6, <3>1, <3>2, <3>3, <3>5
    <3>7. ASSUME NEW j \in 1 .. m + 1, NEW l \in 1 .. m + 1, j < l
          PROVE  q[j] < q[l]
      <4>1. j \in 1 .. m
        BY <2>4, <3>7
      <4>2. CASE l = m + 1
        BY <3>2, <3>3, <4>1, <4>2
      <4>3. CASE l \in 1 .. m
        BY <2>1, <3>3, <3>7, <4>1, <4>3 DEF Reads, t, m
      <4> QED
        BY <3>5, <4>2, <4>3
    <3>8. ASSUME NEW l \in 1 .. i + 1, l \in K
          PROVE  \E j \in 1 .. m + 1 : q[j] = l
      <4>1. CASE l = i + 1
        BY <2>4, <3>3, <4>1
      <4>2. CASE l \in 1 .. i
        <5>1. PICK j \in 1 .. m : p[j] = l
          BY <2>1, <3>8, <4>2 DEF Reads, t, m
        <5> QED
          BY <2>4, <3>3, <5>1
      <4> QED
        BY <4>1, <4>2
    <3>9. Reads(q, u, s, i + 1, K)
      BY <3>1, <3>4, <3>6, <3>7, <3>8 DEF Reads
    <3> QED
      BY <2>3, <2>6, <3>9 DEF u, t
  <2> QED
    BY <2>5, <2>6
<1> HIDE DEF X
<1>4. n \in X
  BY <1>0, <1>2, <1>3, NatInduct
<1> QED
  BY <1>0, <1>1, <1>4 DEF X

LEMMA PrefixGrows ==
  ASSUME NEW S, NEW s \in Seq(S), NEW i \in Nat, i + 1 <= Len(s)
  PROVE  SubSeq(s, 1, i + 1) = Append(SubSeq(s, 1, i), s[i + 1])
<1> DEFINE t == SubSeq(s, 1, i)
           u == SubSeq(s, 1, i + 1)
<1>1. i + 1 \in Int /\ 1 \in Int /\ i \in Int /\ \A j \in 1 .. i + 1 : s[j] \in S
  OBVIOUS
<1>2. /\ t \in Seq(S) /\ Len(t) = i
      /\ \A j \in 1 .. i : t[j] = s[j]
  <2>1. \A j \in 1 .. i : s[j] \in S
    BY <1>1
  <2> QED
    BY <1>1, <2>1, SubSeqProperties
<1>3. /\ u \in Seq(S) /\ Len(u) = i + 1
      /\ \A j \in 1 .. i + 1 : u[j] = s[j]
  BY <1>1, SubSeqProperties
<1> HIDE DEF t, u
<1>4. /\ Append(t, s[i + 1]) \in Seq(S) /\ Len(Append(t, s[i + 1])) = i + 1
      /\ \A j \in 1 .. i : Append(t, s[i + 1])[j] = s[j]
      /\ Append(t, s[i + 1])[i + 1] = s[i + 1]
  BY <1>1, <1>2, AppendProperties
<1>5. u = Append(t, s[i + 1])
  BY <1>3, <1>4, SeqEqual
<1> QED
  BY <1>5 DEF t, u

LEMMA KeepPrefix ==
  ASSUME NEW S, NEW s \in Seq(S), NEW K, NEW m \in 0 .. Len(s),
         \A i \in 1 .. Len(s) : i \in K <=> i <= m
  PROVE  Keep(s, K) = SubSeq(s, 1, m)
<1> DEFINE n == Len(s)
<1>0. n \in Nat /\ m \in Nat /\ m <= n
  OBVIOUS
<1>1. PICK f \in [0 .. n -> Seq(S)] : KeepRun(f, s, K)
  BY KeepUnfolds
<1> DEFINE X == {i \in Nat : i <= n => f[i] = SubSeq(s, 1, IF i <= m THEN i ELSE m)}
<1>2. 0 \in X
  BY <1>0, <1>1, SubSeqEmpty DEF KeepRun
<1>3. ASSUME NEW i \in Nat, i \in X
      PROVE  i + 1 \in X
  <2> SUFFICES ASSUME i + 1 <= n
               PROVE  f[i + 1] = SubSeq(s, 1, IF i + 1 <= m THEN i + 1 ELSE m)
    OBVIOUS
  <2>1. i + 1 \in 1 .. n /\ (i + 1) - 1 = i
    BY <1>0
  <2>2. f[i + 1] = IF i + 1 \in K THEN Append(f[i], s[i + 1]) ELSE f[i]
    BY <1>1, <2>1 DEF KeepRun, KeepStep
  <2>3. f[i] = SubSeq(s, 1, IF i <= m THEN i ELSE m)
    BY <1>0, <1>3
  <2>4. CASE i + 1 <= m
    BY <1>0, <2>1, <2>2, <2>3, <2>4, PrefixGrows
  <2>5. CASE ~(i + 1 <= m)
    <3>1. f[i + 1] = f[i] /\ (IF i <= m THEN i ELSE m) = m
      BY <1>0, <2>1, <2>2, <2>5
    <3> QED
      BY <2>3, <2>5, <3>1
  <2> QED
    BY <2>4, <2>5
<1> HIDE DEF X
<1>4. n \in X
  BY <1>0, <1>2, <1>3, NatInduct
<1>5. f[n] = SubSeq(s, 1, IF n <= m THEN n ELSE m)
  BY <1>0, <1>4 DEF X
<1> QED
  BY <1>0, <1>1, <1>5 DEF KeepRun

LEMMA KeepAll ==
  ASSUME NEW S, NEW s \in Seq(S), NEW K, 1 .. Len(s) \subseteq K
  PROVE  Keep(s, K) = s
<1>1. /\ Len(s) \in 0 .. Len(s)
      /\ \A i \in 1 .. Len(s) : i \in K <=> i <= Len(s)
  OBVIOUS
<1>2. Keep(s, K) = SubSeq(s, 1, Len(s))
  BY <1>1, KeepPrefix
<1> QED
  BY <1>2, SubSeqFull

LEMMA SeqInduct ==
  ASSUME NEW S, NEW X, <<>> \in X,
         \A s \in Seq(S) : \A e \in S : s \in X => Append(s, e) \in X
  PROVE  Seq(S) \subseteq X
<1> DEFINE N == {n \in Nat : \A s \in Seq(S) : Len(s) = n => s \in X}
<1>1. 0 \in N
  BY EmptySeq
<1>2. ASSUME NEW n \in Nat, n \in N
      PROVE  n + 1 \in N
  <2> SUFFICES ASSUME NEW s \in Seq(S), Len(s) = n + 1
               PROVE  s \in X
    OBVIOUS
  <2>1. s # <<>>
    BY EmptySeq
  <2>2. PICK t \in Seq(S), e \in S : s = Append(t, e)
    BY <2>1, SequenceEmptyOrAppend
  <2>3. Len(t) \in Nat /\ Len(s) = Len(t) + 1
    BY <2>2, AppendProperties
  <2>4. Len(t) = n
    BY <2>3
  <2> QED
    BY <1>2, <2>2, <2>4
<1> HIDE DEF N
<1>3. Nat \subseteq N
  BY <1>1, <1>2, NatInduct
<1> QED
  BY <1>3 DEF N

LEMMA KeepNothing ==
  ASSUME NEW K
  PROVE  Keep(<<>>, K) = <<>>
<1>1. <<>> \in Seq({})
  BY EmptySeq
<1>2. PICK f \in [0 .. Len(<<>>) -> Seq({})] : KeepRun(f, <<>>, K)
  BY <1>1, KeepUnfolds
<1> QED
  BY <1>2, EmptySeq DEF KeepRun

LEMMA KeepAppend ==
  ASSUME NEW S, NEW s \in Seq(S), NEW e \in S, NEW K, NEW L,
         \A i \in 1 .. Len(s) : i \in K <=> i \in L
  PROVE  Keep(Append(s, e), L) =
           IF Len(s) + 1 \in L THEN Append(Keep(s, K), e) ELSE Keep(s, K)
<1> DEFINE n == Len(s)
           t == Append(s, e)
<1>1. /\ n \in Nat /\ t \in Seq(S) /\ Len(t) = n + 1 /\ t[n + 1] = e
      /\ \A i \in 1 .. n : t[i] = s[i]
  BY AppendProperties
<1>2. PICK f \in [0 .. n -> Seq(S)] : KeepRun(f, s, K)
  BY KeepUnfolds
<1>3. PICK g \in [0 .. Len(t) -> Seq(S)] : KeepRun(g, t, L)
  BY <1>1, KeepUnfolds
<1> HIDE DEF t, n
<1>4. \A i \in 1 .. n + 1 : g[i] = IF i \in L THEN Append(g[i - 1], t[i]) ELSE g[i - 1]
  BY <1>1, <1>3 DEF KeepRun, KeepStep
<1>5. \A i \in 1 .. n : f[i] = IF i \in K THEN Append(f[i - 1], s[i]) ELSE f[i - 1]
  BY <1>2 DEF KeepRun, KeepStep, n
<1> DEFINE X == {i \in Nat : i <= n => g[i] = f[i]}
<1>6. 0 \in X
  BY <1>2, <1>3 DEF KeepRun
<1>7. ASSUME NEW i \in Nat, i \in X
      PROVE  i + 1 \in X
  <2> SUFFICES ASSUME i + 1 <= n
               PROVE  g[i + 1] = f[i + 1]
    OBVIOUS
  <2>1. /\ i + 1 \in 1 .. n /\ i + 1 \in 1 .. n + 1 /\ (i + 1) - 1 = i /\ g[i] = f[i]
    BY <1>1, <1>7
  <2> QED
    BY <1>1, <1>4, <1>5, <2>1 DEF n
<1> HIDE DEF X
<1>8. n \in X
  BY <1>1, <1>6, <1>7, NatInduct
<1>9. g[n] = f[n] /\ n + 1 \in 1 .. n + 1 /\ (n + 1) - 1 = n
  BY <1>1, <1>8 DEF X
<1>10. g[n + 1] = IF n + 1 \in L THEN Append(g[n], e) ELSE g[n]
  BY <1>1, <1>4, <1>9
<1>11. Keep(s, K) = f[n] /\ Keep(t, L) = g[n + 1]
  BY <1>1, <1>2, <1>3 DEF KeepRun, n
<1> QED
  BY <1>9, <1>10, <1>11 DEF t, n

(***************************************************************************)
(* Sums: g[s] is the sum of w over s, taken in the order in which CHOOSE   *)
(* empties s, which is how MapThenSumSet takes it.                         *)
(***************************************************************************)
SumStep(g, w, s) ==
    IF s = {} THEN 0 ELSE w[CHOOSE x \in s : TRUE] + g[s \ {CHOOSE x \in s : TRUE}]

Sums(g, w, D) == g = [s \in SUBSET D |-> SumStep(g, w, s)]

LEMMA SumExists ==
  ASSUME NEW D, IsFiniteSet(D), NEW w \in [D -> Nat]
  PROVE  \E g \in [SUBSET D -> Nat] : Sums(g, w, D)
<1> DEFINE UpTo(g, n) == \A s \in SUBSET D : Cardinality(s) <= n => g[s] = SumStep(g, w, s)
           X == {n \in Nat : \E g \in [SUBSET D -> Nat] : UpTo(g, n)}
<1>0. \A s \in SUBSET D : Cardinality(s) \in Nat /\ IsFiniteSet(s)
  BY FS_Subset, FS_CardinalityType
<1>1. 0 \in X
  <2> DEFINE g == [s \in SUBSET D |-> 0]
  <2>1. UpTo(g, 0)
    <3> SUFFICES ASSUME NEW s \in SUBSET D, Cardinality(s) <= 0
                 PROVE  g[s] = SumStep(g, w, s)
      OBVIOUS
    <3>1. s = {}
      BY <1>0, FS_EmptySet
    <3> QED
      BY <3>1 DEF SumStep
  <2> QED
    BY <2>1
<1>2. ASSUME NEW n \in Nat, n \in X
      PROVE  n + 1 \in X
  <2>1. PICK g \in [SUBSET D -> Nat] : UpTo(g, n)
    BY <1>2
  <2> DEFINE h == [s \in SUBSET D |-> IF Cardinality(s) = n + 1 THEN SumStep(g, w, s) ELSE g[s]]
  <2>2. \A s \in SUBSET D : SumStep(g, w, s) \in Nat
    BY DEF SumStep
  <2>3. h \in [SUBSET D -> Nat]
    BY <2>2
  <2>4. ASSUME NEW s \in SUBSET D, Cardinality(s) <= n + 1
        PROVE  h[s] = SumStep(h, w, s)
    <3>1. h[s] = SumStep(g, w, s)
      BY <1>0, <2>1, <2>4
    <3>2. CASE s = {}
      BY <3>1, <3>2 DEF SumStep
    <3>3. CASE s # {}
      <4> DEFINE x == CHOOSE x \in s : TRUE
      <4>1. x \in s
        BY <3>3
      <4>2. Cardinality(s \ {x}) = Cardinality(s) - 1
        BY <1>0, <4>1, FS_RemoveElement
      <4>3. h[s \ {x}] = g[s \ {x}]
        BY <1>0, <2>4, <4>2
      <4> QED
        BY <3>1, <3>3, <4>3 DEF SumStep
    <3> QED
      BY <3>2, <3>3
  <2> HIDE DEF h
  <2>5. UpTo(h, n + 1)
    BY <2>4
  <2> QED
    BY <2>3, <2>5
<1> HIDE DEF X
<1>3. Cardinality(D) \in X
  BY <1>0, <1>1, <1>2, NatInduct
<1>4. PICK g \in [SUBSET D -> Nat] : UpTo(g, Cardinality(D))
  BY <1>3 DEF X
<1>5. \A s \in SUBSET D : g[s] = SumStep(g, w, s)
  BY <1>4, FS_Subset
<1> QED
  BY <1>5 DEF Sums

LEMMA SumUnique ==
  ASSUME NEW D, IsFiniteSet(D), NEW E \in SUBSET D, NEW w, NEW v,
         \A x \in E : v[x] = w[x], NEW g, Sums(g, w, D), NEW h, Sums(h, v, E)
  PROVE  h[E] = g[E]
<1> DEFINE X == {n \in Nat : \A s \in SUBSET E : Cardinality(s) = n => h[s] = g[s]}
<1>0. \A s \in SUBSET E : Cardinality(s) \in Nat /\ IsFiniteSet(s)
  BY FS_Subset, FS_CardinalityType
<1>1. \A s \in SUBSET E : g[s] = SumStep(g, w, s) /\ h[s] = SumStep(h, v, s)
  BY DEF Sums
<1>2. 0 \in X
  <2> SUFFICES ASSUME NEW s \in SUBSET E, Cardinality(s) = 0
               PROVE  h[s] = g[s]
    OBVIOUS
  <2>1. s = {}
    BY <1>0, FS_EmptySet
  <2> QED
    BY <1>1, <2>1 DEF SumStep
<1>3. ASSUME NEW n \in Nat, n \in X
      PROVE  n + 1 \in X
  <2> SUFFICES ASSUME NEW s \in SUBSET E, Cardinality(s) = n + 1
               PROVE  h[s] = g[s]
    OBVIOUS
  <2> DEFINE x == CHOOSE x \in s : TRUE
  <2>1. s # {} /\ x \in s
    BY FS_EmptySet
  <2>2. Cardinality(s \ {x}) = n /\ s \ {x} \in SUBSET E
    BY <1>0, <2>1, RestIsSmaller
  <2>3. h[s \ {x}] = g[s \ {x}]
    BY <1>3, <2>2
  <2>4. v[x] = w[x]
    BY <2>1
  <2> QED
    BY <1>1, <2>1, <2>3, <2>4 DEF SumStep
<1> HIDE DEF X
<1>4. Cardinality(E) \in X
  BY <1>0, <1>2, <1>3, NatInduct
<1> QED
  BY <1>4 DEF X

(* The sum does not depend on the order: any element can be the last.      *)
LEMMA SumAdds ==
  ASSUME NEW D, IsFiniteSet(D), NEW w \in [D -> Nat],
         NEW g \in [SUBSET D -> Nat], Sums(g, w, D)
  PROVE  /\ g[{}] = 0
         /\ \A T \in SUBSET D : \A x \in D \ T : g[T \cup {x}] = g[T] + w[x]
<1>0. \A s \in SUBSET D : Cardinality(s) \in Nat /\ IsFiniteSet(s)
  BY FS_Subset, FS_CardinalityType
<1>1. \A s \in SUBSET D : g[s] = SumStep(g, w, s)
  BY DEF Sums
<1> DEFINE Adds(s) == \A x \in s : g[s] = g[s \ {x}] + w[x]
           X == {n \in Nat : \A s \in SUBSET D : Cardinality(s) = n => Adds(s)}
<1>2. 0 \in X
  BY <1>0, FS_EmptySet
<1>3. ASSUME NEW n \in Nat, n \in X
      PROVE  n + 1 \in X
  <2> SUFFICES ASSUME NEW s \in SUBSET D, Cardinality(s) = n + 1, NEW x \in s
               PROVE  g[s] = g[s \ {x}] + w[x]
    OBVIOUS
  <2> DEFINE y == CHOOSE y \in s : TRUE
  <2>1. y \in s /\ g[s] = w[y] + g[s \ {y}]
    BY <1>1 DEF SumStep
  <2> HIDE DEF y
  <2>2. Adds(s \ {x}) /\ Adds(s \ {y})
    <3>1. /\ Cardinality(s \ {x}) = n /\ s \ {x} \in SUBSET D
          /\ Cardinality(s \ {y}) = n /\ s \ {y} \in SUBSET D
      BY <1>0, <2>1, RestIsSmaller
    <3> QED
      BY <1>3, <3>1
  <2>3. CASE x = y
    BY <2>1, <2>3
  <2>4. CASE x # y
    <3>1. g[s \ {y}] = g[(s \ {y}) \ {x}] + w[x]
      BY <2>1, <2>2, <2>4
    <3>2. g[s \ {x}] = g[(s \ {x}) \ {y}] + w[y]
      BY <2>1, <2>2, <2>4
    <3>3. (s \ {y}) \ {x} = (s \ {x}) \ {y} /\ (s \ {x}) \ {y} \in SUBSET D
      OBVIOUS
    <3>4. g[(s \ {x}) \ {y}] \in Nat /\ w[x] \in Nat /\ w[y] \in Nat
      BY <2>1
    <3>5. g[(s \ {y}) \ {x}] = g[(s \ {x}) \ {y}]
      BY <3>3
    <3> QED
      BY <2>1, <3>1, <3>2, <3>4, <3>5
  <2> QED
    BY <2>3, <2>4
<1> HIDE DEF X
<1>4. Nat \subseteq X
  BY <1>2, <1>3, NatInduct
<1>5. ASSUME NEW T \in SUBSET D, NEW x \in D \ T
      PROVE  g[T \cup {x}] = g[T] + w[x]
  <2>1. T \cup {x} \in SUBSET D /\ (T \cup {x}) \ {x} = T
    OBVIOUS
  <2>2. Adds(T \cup {x})
    BY <1>0, <1>4, <2>1 DEF X
  <2> QED
    BY <2>1, <2>2
<1>6. g[{}] = 0
  BY <1>1 DEF SumStep
<1> QED
  BY <1>5, <1>6

LEMMA GreatestExists ==
  ASSUME NEW S \in SUBSET Nat, IsFiniteSet(S), S # {}
  PROVE  \E x \in S : \A y \in S : x >= y
<1> DEFINE HasOne(T) == \E x \in T : \A y \in T : x >= y
           X == {n \in Nat : \A T \in SUBSET S : Cardinality(T) = n /\ T # {} => HasOne(T)}
<1>0. \A T \in SUBSET S : IsFiniteSet(T) /\ Cardinality(T) \in Nat
  BY FS_Subset, FS_CardinalityType
<1>1. 0 \in X
  BY <1>0, FS_EmptySet
<1>2. ASSUME NEW n \in Nat, n \in X
      PROVE  n + 1 \in X
  <2> SUFFICES ASSUME NEW T \in SUBSET S, Cardinality(T) = n + 1, T # {}
               PROVE  HasOne(T)
    OBVIOUS
  <2>1. PICK x \in T : TRUE
    OBVIOUS
  <2>2. T \ {x} \in SUBSET S /\ Cardinality(T \ {x}) = n
    BY <1>0, <2>1, RestIsSmaller
  <2>3. CASE T \ {x} = {}
    <3>1. \A y \in T : y = x
      BY <2>3
    <3> QED
      BY <2>1, <3>1
  <2>4. CASE T \ {x} # {}
    <3>1. PICK z \in T \ {x} : \A y \in T \ {x} : z >= y
      BY <1>2, <2>2, <2>4
    <3>2. CASE x >= z
      BY <2>1, <3>1, <3>2
    <3>3. CASE ~(x >= z)
      BY <2>1, <3>1, <3>3
    <3> QED
      BY <3>2, <3>3
  <2> QED
    BY <2>3, <2>4
<1> HIDE DEF X
<1>3. Cardinality(S) \in X
  BY <1>0, <1>1, <1>2, NatInduct
<1> QED
  BY <1>3 DEF X

================================================================================
