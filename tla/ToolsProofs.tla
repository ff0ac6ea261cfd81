------------------------------ MODULE ToolsProofs ------------------------------
(***************************************************************************)
(* What the tools answer, for any catalog, indexes, household, words and   *)
(* requests: the best record of each entry is served, an appliance is not  *)
(* guessed, and what is proposed works.                                    *)
(***************************************************************************)
EXTENDS Tools, Induction

(***************************************************************************)
(* The index of error codes                                                *)
(***************************************************************************)
Better(r, s) == r.fields > s.fields \/ (r.fields = s.fields /\ r.confidence >= s.confidence)

(* index is the records, deduplicated: each entry once, by its best.       *)
Dedupes(index_, records) ==
    /\ index_ \subseteq records
    /\ \A k, l \in index_ : SameEntry(k, l) => k = l
    /\ \A r \in records : \E k \in index_ : SameEntry(k, r) /\ Better(k, r)

LEMMA BetterIsTotal ==
  ASSUME NEW a \in CodeRecords, NEW b \in CodeRecords, NEW c \in CodeRecords
  PROVE  /\ BetterOf(a, b) \in {a, b}
         /\ Better(BetterOf(a, b), a) /\ Better(BetterOf(a, b), b)
         /\ Better(a, b) /\ Better(b, c) => Better(a, c)
<1>1. /\ a.fields \in Nat /\ b.fields \in Nat /\ c.fields \in Nat
      /\ a.confidence \in Nat /\ b.confidence \in Nat /\ c.confidence \in Nat
  BY DEF CodeRecords
<1> QED
  BY <1>1 DEF BetterOf, Better

LEMMA EnteredDedupes ==
  ASSUME NEW R \in SUBSET CodeRecords, NEW d, Dedupes(d, R), NEW r \in CodeRecords
  PROVE  Dedupes(Entered(d, r), R \cup {r})
<1> DEFINE same == {k \in d : SameEntry(k, r)}
           e == Entered(d, r)
<1>0. d \subseteq CodeRecords
  BY DEF Dedupes
<1>s. /\ \A k : SameEntry(k, k)
      /\ \A k, l : SameEntry(k, l) => SameEntry(l, k)
      /\ \A k, l, m : SameEntry(k, l) /\ SameEntry(l, m) => SameEntry(k, m)
  BY DEF SameEntry
<1>1. CASE same = {}
  <2>1. e = d \cup {r}
    BY <1>1 DEF Entered
  <2>2. \A k \in d : ~SameEntry(k, r) /\ ~SameEntry(r, k)
    BY <1>1, <1>s
  <2>3. Better(r, r)
    BY DEF CodeRecords, Better
  <2> QED
    BY <1>s, <2>1, <2>2, <2>3 DEF Dedupes
<1>2. CASE same # {}
  <2>1. PICK k \in same : TRUE
    BY <1>2
  <2>2. k \in CodeRecords /\ SameEntry(k, r) /\ k \in d
    BY <1>0, <2>1
  <2>3. same = {k}
    BY <1>s, <2>2 DEF Dedupes
  <2> DEFINE b == BetterOf(k, r)
  <2>4. e = (d \ {k}) \cup {b}
    BY <2>3, <2>1 DEF Entered
  <2>5. b \in {k, r} /\ Better(b, k) /\ Better(b, r) /\ b \in CodeRecords
    BY <2>2, BetterIsTotal
  <2>6. SameEntry(b, k) /\ SameEntry(b, r)
    BY <1>s, <2>2, <2>5
  <2> HIDE DEF same, e, b
  <2>7. e \subseteq R \cup {r}
    BY <2>2, <2>4, <2>5 DEF Dedupes
  <2>8. \A l \in d \ {k} : ~SameEntry(l, b) /\ ~SameEntry(b, l)
    BY <1>s, <2>2, <2>6 DEF Dedupes
  <2>9. \A l, m \in e : SameEntry(l, m) => l = m
    BY <2>4, <2>8 DEF Dedupes
  <2>10. ASSUME NEW s \in R \cup {r}
         PROVE  \E l \in e : SameEntry(l, s) /\ Better(l, s)
    <3>1. CASE s = r
      BY <2>4, <2>5, <2>6, <3>1
    <3>2. CASE s \in R
      <4>1. PICK l \in d : SameEntry(l, s) /\ Better(l, s)
        BY <3>2 DEF Dedupes
      <4>2. CASE l = k
        <5>1. Better(b, s)
          BY <2>2, <2>5, <3>2, <4>1, <4>2, BetterIsTotal
        <5>2. SameEntry(b, s)
          BY <1>s, <2>6, <4>1, <4>2
        <5> QED
          BY <2>4, <5>1, <5>2
      <4> QED
        BY <2>4, <4>1, <4>2
    <3> QED
      BY <3>1, <3>2
  <2> QED
    BY <2>7, <2>9, <2>10 DEF Dedupes, e
<1> QED
  BY <1>1, <1>2

(* The dictionary, as it grows.                                            *)
DedupedRun(f, s) == f = [i \in 0 .. Len(s) |-> IF i = 0 THEN {} ELSE Entered(f[i - 1], s[i])]

LEMMA LoadIndexUnfolds ==
  ASSUME NEW s \in Seq(CodeRecords)
  PROVE  \E f : /\ f[0] = {} /\ \A i \in 1 .. Len(s) : f[i] = Entered(f[i - 1], s[i])
                /\ LoadIndex(s) = f[Len(s)]
<1> DEFINE n == Len(s)
           V == SUBSET CodeRecords
           G == [i \in 1 .. n |-> [v \in V |-> Entered(v, s[i])]]
<1>0. n \in Nat /\ \A i \in 1 .. n : s[i] \in CodeRecords
  OBVIOUS
<1>1. \A v \in V : \A r \in CodeRecords : Entered(v, r) \in V
  <2> SUFFICES ASSUME NEW v \in V, NEW r \in CodeRecords
               PROVE  Entered(v, r) \in V
    OBVIOUS
  <2>1. \A k \in v : BetterOf(k, r) \in CodeRecords
    BY DEF BetterOf
  <2> QED
    BY <2>1 DEF Entered
<1>2. {} \in V /\ Steps(G, n, V)
  BY <1>0, <1>1 DEF Steps
<1>3. \E f : DedupedRun(f, s)
  <2>1. PICK f \in [0 .. n -> V] : Follows(f, {}, G, n)
    <3> HIDE DEF V, G, n
    <3> QED
      BY <1>2, RecursionExists
  <2>2. f[0] = {} /\ \A i \in 1 .. n : f[i] = Entered(f[i - 1], s[i])
    <3>1. \A i \in 1 .. n : i - 1 \in 0 .. n
      BY <1>0
    <3> QED
      BY <2>1, <3>1 DEF Follows
  <2>3. f = [i \in 0 .. n |-> IF i = 0 THEN {} ELSE Entered(f[i - 1], s[i])]
    <3> HIDE DEF G, V
    <3>1. f = [i \in 0 .. n |-> f[i]]
      BY <2>1
    <3>2. \A i \in 0 .. n : f[i] = IF i = 0 THEN {} ELSE Entered(f[i - 1], s[i])
      BY <1>0, <2>2
    <3> QED
      BY <3>1, <3>2
  <2> QED
    BY <2>3 DEF DedupedRun
<1> DEFINE k == CHOOSE f : DedupedRun(f, s)
<1>4. DedupedRun(k, s) /\ LoadIndex(s) = k[n]
  <2>1. LoadIndex(s) = k[n]
    BY DEF LoadIndex, DedupedRun
  <2> QED
    BY <1>3, <2>1
<1> HIDE DEF k, G, V
<1>5. k[0] = {} /\ \A i \in 1 .. n : k[i] = Entered(k[i - 1], s[i])
  <2>1. 0 \in 0 .. n /\ \A i \in 1 .. n : i \in 0 .. n /\ i # 0
    BY <1>0
  <2>2. \A i \in 0 .. n : k[i] = IF i = 0 THEN {} ELSE Entered(k[i - 1], s[i])
    BY <1>4, Zenon DEF DedupedRun
  <2> QED
    BY <2>1, <2>2, Zenon
<1> QED
  BY <1>4, <1>5

LEMMA LoadIndexDedupes ==
  ASSUME NEW s \in Seq(CodeRecords)
  PROVE  Dedupes(LoadIndex(s), ToSet(s))
<1> DEFINE n == Len(s)
           R(i) == {s[j] : j \in 1 .. i}
<1>0. n \in Nat /\ \A i \in 1 .. n : s[i] \in CodeRecords
  OBVIOUS
<1>1. PICK f : /\ f[0] = {} /\ \A i \in 1 .. n : f[i] = Entered(f[i - 1], s[i])
               /\ LoadIndex(s) = f[n]
  BY LoadIndexUnfolds
<1> DEFINE X == {i \in Nat : i <= n => Dedupes(f[i], R(i))}
<1>2. 0 \in X
  BY <1>1 DEF Dedupes
<1>3. ASSUME NEW i \in Nat, i \in X
      PROVE  i + 1 \in X
  <2> SUFFICES ASSUME i + 1 <= n
               PROVE  Dedupes(f[i + 1], R(i + 1))
    OBVIOUS
  <2>1. i + 1 \in 1 .. n /\ (i + 1) - 1 = i /\ Dedupes(f[i], R(i))
    BY <1>0, <1>3
  <2>2. R(i + 1) = R(i) \cup {s[i + 1]}
    OBVIOUS
  <2>3. R(i) \in SUBSET CodeRecords /\ s[i + 1] \in CodeRecords
    BY <1>0, <2>1
  <2> HIDE DEF R
  <2>4. Dedupes(Entered(f[i], s[i + 1]), R(i) \cup {s[i + 1]})
    BY <2>1, <2>3, EnteredDedupes
  <2> QED
    BY <1>1, <2>1, <2>2, <2>4
<1> HIDE DEF X
<1>4. n \in X
  BY <1>0, <1>2, <1>3, NatInduct
<1>5. R(n) = ToSet(s)
  BY DEF ToSet
<1> HIDE DEF R
<1>6. Dedupes(f[n], R(n))
  BY <1>0, <1>4 DEF X
<1> QED
  BY <1>1, <1>5, <1>6

(* The index that is served is the file's, deduplicated.                   *)
LEMMA BestServed ==
  ASSUME NEW R \in SUBSET CodeRecords, Dedupes(index, R), R = ToSet(files.codes)
  PROVE  BestRecordsServed
<1> SUFFICES ASSUME NEW c \in Codes, NEW m \in Manuals
             PROVE  LET raw == {r \in R : r.code = c /\ r.manual = m}
                        best == {r \in raw : \A s \in raw : Better(r, s)}
                        served == {r \in ByCode(index, c) : r.manual = m}
                    IN  /\ Cardinality(served) <= 1
                        /\ \A r \in served : r \in best /\ IsLookupable(r)
                        /\ (raw # {} /\ \A r \in best : IsLookupable(r)) => served # {}
  BY DEF BestRecordsServed, Better
<1> DEFINE raw == {r \in R : r.code = c /\ r.manual = m}
           best == {r \in raw : \A s \in raw : Better(r, s)}
           served == {r \in ByCode(index, c) : r.manual = m}
<1>1. ASSUME NEW k \in index, k.code = c, k.manual = m
      PROVE  k \in best
  <2>1. ASSUME NEW s \in raw
        PROVE  Better(k, s)
    <3>1. PICK l \in index : SameEntry(l, s) /\ Better(l, s)
      BY DEF Dedupes
    <3>2. SameEntry(k, l)
      BY <1>1, <3>1 DEF SameEntry
    <3> QED
      BY <3>1, <3>2 DEF Dedupes
  <2>2. k \in raw
    BY <1>1 DEF Dedupes
  <2> QED
    BY <2>1, <2>2
<1>2. \A k, l \in served : k = l
  BY DEF ByCode, SameEntry, Dedupes
<1>3. Cardinality(served) <= 1
  <2>1. CASE served = {}
    <3> HIDE DEF served
    <3> QED
      BY <2>1, FS_EmptySet
  <2>2. CASE served # {}
    <3>1. PICK k \in served : TRUE
      BY <2>2
    <3>2. served = {k}
      BY <1>2, <3>1
    <3>3. Cardinality({k}) = 1
      BY FS_Singleton
    <3> HIDE DEF served
    <3> QED
      BY <3>2, <3>3
  <2> QED
    BY <2>1, <2>2
<1>4. \A r \in served : r \in best /\ IsLookupable(r)
  BY <1>1 DEF ByCode
<1>5. ASSUME raw # {}, \A r \in best : IsLookupable(r)
      PROVE  served # {}
  <2>1. PICK r \in raw : TRUE
    BY <1>5
  <2>2. PICK k \in index : SameEntry(k, r)
    BY <2>1 DEF Dedupes
  <2>3. k.code = c /\ k.manual = m
    BY <2>1, <2>2 DEF SameEntry
  <2> QED
    BY <1>1, <1>5, <2>2, <2>3 DEF ByCode
<1> QED
  BY <1>3, <1>4, <1>5

(***************************************************************************)
(* The groups of the symptom index                                         *)
(***************************************************************************)
Terms == {Fold(w) : w \in Vocabulary}

TypeOfManual(m, type) == \E e \in ToSet(Catalog) : m = e.manual /\ type = e.type

Rows == {r \in SymptomRecords(Manuals) : TypeOfManual(r.manual, r.type)}

Groups ==
    {g \in [manual : Manuals, type : STRING, phrase : Seq(Vocabulary), terms : SUBSET Terms,
            causes : SUBSET Terms, negated : BOOLEAN] :
        TypeOfManual(g.manual, g.type) /\ IsFiniteSet(g.terms) /\ IsFiniteSet(g.causes)}

LEMMA ImageFinite ==
  ASSUME NEW S, IsFiniteSet(S), NEW f, DOMAIN f = S
  PROVE  IsFiniteSet({f[x] : x \in S})
<1> DEFINE T == {f[x] : x \in S}
           g == [x \in S |-> f[x]]
<1>1. g \in Surjection(S, T)
  BY DEF Surjection
<1> QED
  BY <1>1, FS_Surjection

LEMMA WordsFinite ==
  ASSUME NEW words \in Seq(Vocabulary)
  PROVE  IsFiniteSet(ToSet(words)) /\ ToSet(words) \subseteq Vocabulary
<1>1. DOMAIN words = 1 .. Len(words) /\ Len(words) \in Nat
  OBVIOUS
<1>2. IsFiniteSet(1 .. Len(words))
  BY <1>1, FS_Interval
<1>3. IsFiniteSet({words[i] : i \in 1 .. Len(words)})
  BY <1>1, <1>2, ImageFinite
<1>4. ToSet(words) = {words[i] : i \in 1 .. Len(words)}
  BY <1>1 DEF ToSet
<1> QED
  BY <1>1, <1>3, <1>4

LEMMA TokensType ==
  ASSUME NEW words \in Seq(Vocabulary)
  PROVE  Tokens(words) \subseteq Terms /\ IsFiniteSet(Tokens(words))
<1> DEFINE S == ToSet(words) \ (Stopwords \cup Negations)
           f == [w \in S |-> Fold(w)]
<1>1. IsFiniteSet(S) /\ S \subseteq Vocabulary
  BY WordsFinite, FS_Difference
<1>2. Tokens(words) = {f[w] : w \in S}
  BY DEF Tokens
<1>3. Tokens(words) \subseteq Terms
  BY <1>1 DEF Tokens, Terms
<1>4. DOMAIN f = S
  OBVIOUS
<1> HIDE DEF S, f
<1> QED
  BY <1>1, <1>2, <1>3, <1>4, ImageFinite

LEMMA PlacedType ==
  ASSUME NEW gs \in Seq(Groups), NEW r \in Rows
  PROVE  Placed(gs, r) \in Seq(Groups) /\ Len(Placed(gs, r)) <= Len(gs) + 1
<1>1. /\ r.symptom \in Seq(Vocabulary) /\ r.label \in Seq(Vocabulary) /\ r.causes \in Seq(Vocabulary)
      /\ r.manual \in Manuals /\ r.type \in STRING /\ TypeOfManual(r.manual, r.type)
  BY DEF Rows, SymptomRecords
<1>2. /\ Tokens(r.symptom) \subseteq Terms /\ IsFiniteSet(Tokens(r.symptom))
      /\ Tokens(r.label) \subseteq Terms /\ IsFiniteSet(Tokens(r.label))
      /\ Tokens(r.causes) \subseteq Terms /\ IsFiniteSet(Tokens(r.causes))
  BY <1>1, TokensType
<1>3. NewGroup(r) \in Groups
  <2> DEFINE terms == Tokens(r.symptom) \cup Tokens(r.label)
             causes == Tokens(r.causes) \ terms
  <2>1. terms \in SUBSET Terms /\ IsFiniteSet(terms) /\ causes \in SUBSET Terms /\ IsFiniteSet(causes)
    BY <1>2, FS_Union, FS_Difference
  <2>2. IsNegated(r.symptom) \in BOOLEAN
    BY DEF IsNegated
  <2>3. NewGroup(r) = [manual |-> r.manual, type |-> r.type, phrase |-> r.symptom, terms |-> terms,
                       causes |-> causes, negated |-> IsNegated(r.symptom)]
    BY DEF NewGroup
  <2> HIDE DEF terms, causes
  <2> QED
    BY <1>1, <2>1, <2>2, <2>3 DEF Groups
<1>4. CASE r.continued /\ gs # <<>> /\ gs[Len(gs)].manual = r.manual
  <2> DEFINE n == Len(gs)
             g == gs[n]
             h == [g EXCEPT !.causes = @ \cup (Tokens(r.causes) \ g.terms)]
  <2>1. n \in 1 .. Len(gs) /\ g \in Groups
    BY <1>4
  <2>2. IsFiniteSet(g.causes \cup (Tokens(r.causes) \ g.terms))
    BY <1>2, <2>1, FS_Difference, FS_Union DEF Groups
  <2>3. h \in Groups
    <3>1. g.causes \cup (Tokens(r.causes) \ g.terms) \in SUBSET Terms
      BY <1>2, <2>1 DEF Groups
    <3>2. /\ h.manual = g.manual /\ h.type = g.type /\ h.terms = g.terms
          /\ h.causes = g.causes \cup (Tokens(r.causes) \ g.terms)
      BY <2>1 DEF Groups
    <3>3. h \in [manual : Manuals, type : STRING, phrase : Seq(Vocabulary), terms : SUBSET Terms,
                 causes : SUBSET Terms, negated : BOOLEAN]
      BY <2>1, <3>1 DEF Groups
    <3> HIDE DEF h
    <3> QED
      BY <2>1, <2>2, <3>2, <3>3 DEF Groups
  <2>4. Placed(gs, r) = [gs EXCEPT ![n] = h]
    BY <1>4 DEF Placed
  <2> HIDE DEF h, n
  <2>5. [gs EXCEPT ![n] = h] \in Seq(Groups) /\ Len([gs EXCEPT ![n] = h]) = Len(gs)
    BY <2>1, <2>3, ExceptSeq
  <2> QED
    BY <2>4, <2>5
<1>5. CASE ~(r.continued /\ gs # <<>> /\ gs[Len(gs)].manual = r.manual)
  <2>1. Placed(gs, r) = Append(gs, NewGroup(r))
    BY <1>5 DEF Placed
  <2> QED
    BY <1>3, <2>1, AppendProperties
<1> QED
  BY <1>4, <1>5

BuiltRun(f, s) == f = [i \in 0 .. Len(s) |-> IF i = 0 THEN <<>> ELSE Placed(f[i - 1], s[i])]

LEMMA BuildGroupsUnfolds ==
  ASSUME NEW s \in Seq(Rows)
  PROVE  \E f : /\ f[0] = <<>> /\ \A i \in 1 .. Len(s) : f[i] = Placed(f[i - 1], s[i])
                /\ BuildGroups(s) = f[Len(s)]
<1> DEFINE n == Len(s)
           V == Seq(Groups)
           G == [i \in 1 .. n |-> [v \in V |-> Placed(v, s[i])]]
<1>0. n \in Nat /\ \A i \in 1 .. n : s[i] \in Rows
  OBVIOUS
<1>1. \A v \in V : \A r \in Rows : Placed(v, r) \in V
  BY PlacedType
<1>2. <<>> \in V /\ Steps(G, n, V)
  <2>1. \A i \in 1 .. n : \A v \in V : Placed(v, s[i]) \in V
    BY <1>0, <1>1
  <2>2. <<>> \in V
    BY EmptySeq
  <2> HIDE DEF V
  <2> QED
    BY <1>0, <2>1, <2>2 DEF Steps
<1>3. \E f : BuiltRun(f, s)
  <2>1. PICK f \in [0 .. n -> V] : Follows(f, <<>>, G, n)
    <3> HIDE DEF V, G, n
    <3> QED
      BY <1>2, RecursionExists
  <2>2. f[0] = <<>> /\ \A i \in 1 .. n : f[i] = Placed(f[i - 1], s[i])
    <3>1. \A i \in 1 .. n : i - 1 \in 0 .. n
      BY <1>0
    <3>2. \A i \in 1 .. n : f[i - 1] \in V
      <4> HIDE DEF V
      <4> QED
        BY <2>1, <3>1
    <3>3. \A i \in 1 .. n : \A v \in V : G[i][v] = Placed(v, s[i])
      OBVIOUS
    <3> HIDE DEF V, G
    <3> QED
      BY <2>1, <3>2, <3>3 DEF Follows
  <2>3. f = [i \in 0 .. n |-> IF i = 0 THEN <<>> ELSE Placed(f[i - 1], s[i])]
    <3> HIDE DEF G, V
    <3>1. f = [i \in 0 .. n |-> f[i]]
      BY <2>1
    <3>2. \A i \in 0 .. n : f[i] = IF i = 0 THEN <<>> ELSE Placed(f[i - 1], s[i])
      BY <1>0, <2>2
    <3> QED
      BY <3>1, <3>2
  <2> QED
    BY <2>3 DEF BuiltRun
<1> DEFINE k == CHOOSE f : BuiltRun(f, s)
<1>4. BuiltRun(k, s) /\ BuildGroups(s) = k[n]
  <2>1. BuildGroups(s) = k[n]
    BY DEF BuildGroups, BuiltRun
  <2> QED
    BY <1>3, <2>1
<1> HIDE DEF k, G, V
<1>5. k[0] = <<>> /\ \A i \in 1 .. n : k[i] = Placed(k[i - 1], s[i])
  <2>1. 0 \in 0 .. n /\ \A i \in 1 .. n : i \in 0 .. n /\ i # 0
    BY <1>0
  <2>2. \A i \in 0 .. n : k[i] = IF i = 0 THEN <<>> ELSE Placed(k[i - 1], s[i])
    BY <1>4, Zenon DEF BuiltRun
  <2> QED
    BY <2>1, <2>2, Zenon
<1> QED
  BY <1>4, <1>5

LEMMA BuildGroupsType ==
  ASSUME NEW s \in Seq(Rows)
  PROVE  BuildGroups(s) \in Seq(Groups) /\ Len(BuildGroups(s)) <= Len(s)
<1> DEFINE n == Len(s)
<1>0. n \in Nat /\ \A i \in 1 .. n : s[i] \in Rows
  OBVIOUS
<1>1. PICK f : /\ f[0] = <<>> /\ \A i \in 1 .. n : f[i] = Placed(f[i - 1], s[i])
               /\ BuildGroups(s) = f[n]
  BY BuildGroupsUnfolds
<1> DEFINE X == {i \in Nat : i <= n => f[i] \in Seq(Groups) /\ Len(f[i]) <= i}
<1>2. 0 \in X
  <2>1. <<>> \in Seq(Groups) /\ Len(<<>>) = 0
    BY EmptySeq
  <2>2. f[0] \in Seq(Groups) /\ Len(f[0]) <= 0
    BY <1>1, <2>1
  <2> QED
    BY <2>2
<1>3. ASSUME NEW i \in Nat, i \in X
      PROVE  i + 1 \in X
  <2> SUFFICES ASSUME i + 1 <= n
               PROVE  f[i + 1] \in Seq(Groups) /\ Len(f[i + 1]) <= i + 1
    OBVIOUS
  <2>1. i + 1 \in 1 .. n /\ (i + 1) - 1 = i /\ f[i] \in Seq(Groups) /\ Len(f[i]) <= i
    BY <1>0, <1>3
  <2>2. f[i + 1] = Placed(f[i], s[i + 1]) /\ s[i + 1] \in Rows
    BY <1>0, <1>1, <2>1
  <2>3. Placed(f[i], s[i + 1]) \in Seq(Groups) /\ Len(Placed(f[i], s[i + 1])) <= Len(f[i]) + 1
    BY <2>1, <2>2, PlacedType
  <2>4. Len(f[i]) \in Nat /\ Len(f[i + 1]) \in Nat
    BY <2>1, <2>2, <2>3
  <2> QED
    BY <2>1, <2>2, <2>3, <2>4
<1> HIDE DEF X
<1>4. n \in X
  BY <1>0, <1>2, <1>3, NatInduct
<1> QED
  BY <1>0, <1>1, <1>4 DEF X

(***************************************************************************)
(* What a description says                                                 *)
(***************************************************************************)
SaidTerms == Terms \cup UNION {Phrases[p].means : p \in DOMAIN Phrases}

SaidTypes == {TypeWords[w] : w \in DOMAIN TypeWords} \cup {TypePairs[pair] : pair \in DOMAIN TypePairs}

Analyses ==
    {x \in [terms : SUBSET SaidTerms, negated : BOOLEAN, types : SUBSET SaidTypes] : IsFiniteSet(x.terms)}

LEMMA CorrectType ==
  ASSUME NEW w \in Vocabulary, NEW terms
  PROVE  Correct(w, terms) \in Vocabulary
<1> DEFINE targets == {c \in OneEdit[w] : Meant(c, terms) /\ Stem[c] \notin {Stem[i] : i \in Ignored}}
           meanings == {IF NamesType(c) THEN c ELSE Fold(c) : c \in targets}
           kept == w \in Ignored \/ Meant(w, terms) \/ InPhrase(w) \/ Cardinality(meanings) # 1
<1>1. Correct(w, terms) = IF kept THEN w ELSE CHOOSE c \in targets : TRUE
  BY DEF Correct
<1>2. targets \subseteq Vocabulary
  BY SearchAssumption
<1>3. ASSUME ~kept
      PROVE  targets # {}
  <2>1. targets = {} => meanings = {}
    OBVIOUS
  <2>2. Cardinality(meanings) = 1
    BY <1>3
  <2> HIDE DEF targets, meanings
  <2> QED
    BY <2>1, <2>2, FS_EmptySet
<1> HIDE DEF targets, kept
<1> QED
  BY <1>1, <1>2, <1>3

LEMMA PhraseType ==
  ASSUME NEW p \in DOMAIN Phrases
  PROVE  /\ Phrases[p].said \in Seq(STRING) /\ Len(Phrases[p].said) \in Nat \ {0}
         /\ PhraseSays(Phrases[p]) \in Analyses
<1> DEFINE means == Phrases[p].means
<1>1. /\ Phrases[p].said \in Seq(STRING) /\ Phrases[p].said # <<>> /\ IsFiniteSet(means)
  <2>1. Phrases \in Seq([said : Seq(STRING), means : SUBSET STRING])
    BY SearchAssumption
  <2>2. Phrases[p] \in [said : Seq(STRING), means : SUBSET STRING]
    <3> DEFINE P == [said : Seq(STRING), means : SUBSET STRING]
    <3>1. Phrases \in Seq(P)
      BY <2>1
    <3> HIDE DEF P
    <3>2. Phrases[p] \in P
      BY <3>1
    <3> QED
      BY <3>2 DEF P
  <2>3. Phrases[p].said \in Seq(STRING)
    BY <2>2
  <2> QED
    BY <2>3, SearchAssumption, Zenon
<1>2. IsFiniteSet(means \ {NEG}) /\ means \ {NEG} \in SUBSET SaidTerms
  BY <1>1, FS_Difference DEF SaidTerms
<1>3. Len(Phrases[p].said) \in Nat \ {0}
  BY <1>1
<1>4. /\ PhraseSays(Phrases[p]).terms = means \ {NEG}
      /\ PhraseSays(Phrases[p]) \in [terms : SUBSET SaidTerms, negated : BOOLEAN, types : SUBSET SaidTypes]
  <2> HIDE DEF means
  <2>1. (NEG \in means) \in BOOLEAN
    OBVIOUS
  <2> QED
    BY <1>2, <2>1 DEF PhraseSays, Nothing, means
<1>5. PhraseSays(Phrases[p]) \in Analyses
  BY <1>2, <1>4 DEF Analyses
<1> QED
  BY <1>1, <1>3, <1>5

LEMMA AloneType ==
  ASSUME NEW w \in Vocabulary
  PROVE  Alone(w) \in Analyses
<1>1. Nothing \in Analyses
  BY FS_EmptySet DEF Nothing, Analyses
<1>2. ASSUME w \in DOMAIN TypeWords
      PROVE  [Nothing EXCEPT !.types = {TypeWords[w]}] \in Analyses
  BY <1>2, FS_EmptySet DEF Nothing, Analyses, SaidTypes
<1>3. [Nothing EXCEPT !.negated = TRUE] \in Analyses
  BY FS_EmptySet DEF Nothing, Analyses
<1>4. [Nothing EXCEPT !.terms = {Fold(w)}] \in Analyses
  <2>1. IsFiniteSet({Fold(w)}) /\ {Fold(w)} \subseteq SaidTerms
    BY FS_Singleton DEF SaidTerms, Terms
  <2> QED
    BY <2>1 DEF Nothing, Analyses
<1> QED
  BY <1>1, <1>2, <1>3, <1>4, Zenon DEF Alone

LEMMA JoinedType ==
  ASSUME NEW a \in Analyses, NEW b \in Analyses
  PROVE  Joined(a, b) \in Analyses
<1>1. IsFiniteSet(a.terms \cup b.terms)
  BY FS_Union DEF Analyses
<1> QED
  BY <1>1 DEF Joined, Analyses

LEMMA ReadAtType ==
  ASSUME NEW words \in Seq(Vocabulary), NEW i \in 1 .. Len(words)
  PROVE  /\ ReadAt(words, i).says \in Analyses
         /\ i + ReadAt(words, i).length \in i + 1 .. Len(words) + 1
<1> DEFINE n == Len(words)
<1>0. n \in Nat /\ i \in Nat /\ i <= n /\ words[i] \in Vocabulary
  OBVIOUS
<1>1. CASE PairAt(words, i)
  <2> DEFINE pair == <<words[i], words[i + 1]>>
             says == [Nothing EXCEPT !.types = {TypePairs[pair]}]
  <2>1. ReadAt(words, i) = [says |-> says, length |-> 2]
    BY <1>1 DEF ReadAt
  <2>2. i < n /\ pair \in DOMAIN TypePairs
    BY <1>1 DEF PairAt
  <2> HIDE DEF pair
  <2>3. says \in Analyses
    BY <2>2, FS_EmptySet DEF Nothing, Analyses, SaidTypes
  <2> HIDE DEF says
  <2> QED
    BY <1>0, <2>1, <2>2, <2>3
<1>2. CASE ~PairAt(words, i) /\ PhrasesAt(words, i) # {}
  <2> DEFINE p == CHOOSE p \in PhrasesAt(words, i) : \A k \in PhrasesAt(words, i) : p <= k
             m == Len(Phrases[p].said)
  <2>1. ReadAt(words, i) = [says |-> PhraseSays(Phrases[p]), length |-> m]
    BY <1>2 DEF ReadAt
  <2>2. p \in PhrasesAt(words, i)
    <3>1. PhrasesAt(words, i) \subseteq Nat
      BY SearchAssumption DEF PhrasesAt
    <3>2. \E x \in PhrasesAt(words, i) : \A k \in PhrasesAt(words, i) : x <= k
      BY <1>2, <3>1, LeastExists
    <3> QED
      BY <3>2
  <2> HIDE DEF p
  <2>3. p \in DOMAIN Phrases /\ i + m - 1 <= n
    BY <2>2 DEF PhrasesAt, IsReadAt
  <2>4. m \in Nat \ {0} /\ PhraseSays(Phrases[p]) \in Analyses
    BY <2>3, PhraseType
  <2> HIDE DEF m
  <2> QED
    BY <1>0, <2>1, <2>3, <2>4
<1>3. CASE ~PairAt(words, i) /\ PhrasesAt(words, i) = {}
  <2>1. ReadAt(words, i) = [says |-> Alone(words[i]), length |-> 1]
    BY <1>3 DEF ReadAt
  <2>2. Alone(words[i]) \in Analyses
    BY <1>0, AloneType
  <2> QED
    BY <1>0, <2>1, <2>2
<1> QED
  BY <1>1, <1>2, <1>3

(* What is read from each word on.                                         *)
RestAt(f, words, i) == Joined(ReadAt(words, i).says, f[i + ReadAt(words, i).length])

AnalyzeRun(f, words) ==
    f = [i \in 1 .. Len(words) + 1 |-> IF i > Len(words) THEN Nothing ELSE RestAt(f, words, i)]

LEMMA AnalyzeWordsType ==
  ASSUME NEW words \in Seq(Vocabulary)
  PROVE  AnalyzeWords(words) \in Analyses
<1> DEFINE n == Len(words)
           V == Analyses
           G == [i \in 1 .. n |-> [v \in V |-> Joined(ReadAt(words, i).says, v)]]
           next == [i \in 1 .. n |-> i + ReadAt(words, i).length]
<1>0. n \in Nat
  OBVIOUS
<1>1. \A i \in 1 .. n : /\ ReadAt(words, i).says \in V
                        /\ i + ReadAt(words, i).length \in i + 1 .. n + 1
  BY ReadAtType
<1>2. Nothing \in V
  BY FS_EmptySet DEF Nothing, Analyses
<1>3. Steps(G, n, V)
  <2>1. \A i \in 1 .. n : \A v \in V : Joined(ReadAt(words, i).says, v) \in V
    BY <1>1, JoinedType
  <2> HIDE DEF V
  <2> QED
    BY <1>0, <2>1 DEF Steps
<1>4. Onward(next, n)
  <2>1. ASSUME NEW i \in 1 .. n
        PROVE  i + ReadAt(words, i).length \in 1 .. n + 1 /\ i < i + ReadAt(words, i).length
    <3> DEFINE j == i + ReadAt(words, i).length
    <3>1. j \in i + 1 .. n + 1
      BY <1>1
    <3> HIDE DEF j
    <3>2. j \in 1 .. n + 1 /\ i < j
      BY <1>0, <3>1
    <3> QED
      BY <3>2 DEF j
  <2> QED
    BY <2>1 DEF Onward
<1>5. \E f : AnalyzeRun(f, words)
  <2>1. PICK f \in [1 .. n + 1 -> V] : FollowsDown(f, Nothing, G, next, n)
    <3> HIDE DEF n, V, G, next
    <3> QED
      BY <1>2, <1>3, <1>4, RecursionDown
  <2>2. \A i \in 1 .. n : f[i] = RestAt(f, words, i)
    <3> SUFFICES ASSUME NEW i \in 1 .. n
                 PROVE  f[i] = RestAt(f, words, i)
      OBVIOUS
    <3>1. next[i] \in 1 .. n + 1 /\ next[i] = i + ReadAt(words, i).length
      BY <1>4 DEF Onward
    <3> HIDE DEF next, V
    <3>2. f[next[i]] \in V
      BY <2>1, <3>1
    <3>3. G[i][f[next[i]]] = Joined(ReadAt(words, i).says, f[next[i]])
      BY <3>2
    <3> HIDE DEF G
    <3> QED
      BY <2>1, <3>1, <3>3 DEF RestAt, FollowsDown
  <2>3. f = [i \in 1 .. n + 1 |-> f[i]]
    BY <2>1
  <2>4. ASSUME NEW i \in 1 .. n + 1
        PROVE  f[i] = IF i > n THEN Nothing ELSE RestAt(f, words, i)
    <3>1. CASE i > n
      <4>1. i = n + 1
        BY <1>0, <3>1
      <4> QED
        BY <2>1, <3>1, <4>1 DEF FollowsDown
    <3>2. CASE ~(i > n)
      <4>1. i \in 1 .. n
        BY <1>0, <3>2
      <4> QED
        BY <2>2, <3>2, <4>1
    <3> QED
      BY <3>1, <3>2
  <2> HIDE DEF G, V, next
  <2> QED
    BY <2>3, <2>4 DEF AnalyzeRun
<1> DEFINE k == CHOOSE f : AnalyzeRun(f, words)
<1>6. AnalyzeRun(k, words) /\ AnalyzeWords(words) = k[1]
  <2>1. AnalyzeWords(words) = k[1]
    BY DEF AnalyzeWords, AnalyzeRun, RestAt
  <2> QED
    BY <1>5, <2>1
<1> HIDE DEF k, G
<1>7. k[n + 1] = Nothing /\ \A i \in 1 .. n : k[i] = RestAt(k, words, i)
  <2>1. \A i \in 1 .. n + 1 : k[i] = IF i > n THEN Nothing ELSE RestAt(k, words, i)
    BY <1>6, Zenon DEF AnalyzeRun
  <2>2. n + 1 \in 1 .. n + 1 /\ n + 1 > n /\ \A i \in 1 .. n : i \in 1 .. n + 1 /\ ~(i > n)
    BY <1>0
  <2> QED
    BY <2>1, <2>2, Zenon
<1> DEFINE X == {m \in Nat : \A i \in 1 .. n + 1 : n + 1 - m <= i => k[i] \in V}
<1>8. 0 \in X
  <2>1. \A i \in 1 .. n + 1 : n + 1 - 0 <= i => i = n + 1
    BY <1>0
  <2> QED
    BY <1>2, <1>7, <2>1
<1>9. ASSUME NEW m \in Nat, m \in X
      PROVE  m + 1 \in X
  <2> SUFFICES ASSUME NEW i \in 1 .. n + 1, n + 1 - (m + 1) <= i
               PROVE  k[i] \in V
    OBVIOUS
  <2>1. CASE i = n + 1
    BY <1>2, <1>7, <2>1
  <2>2. CASE i # n + 1
    <3>1. i \in 1 .. n
      BY <1>0, <2>2
    <3> DEFINE j == i + ReadAt(words, i).length
    <3>2. j \in i + 1 .. n + 1
      BY <1>1, <3>1
    <3>3. k[i] = Joined(ReadAt(words, i).says, k[j])
      BY <1>7, <3>1 DEF RestAt
    <3> HIDE DEF j
    <3>4. j \in 1 .. n + 1 /\ n + 1 - m <= j
      BY <1>0, <3>1, <3>2
    <3>5. k[j] \in V
      BY <1>9, <3>4
    <3> QED
      BY <1>1, <3>1, <3>3, <3>5, JoinedType
  <2> QED
    BY <2>1, <2>2
<1> HIDE DEF X, V
<1>10. n + 1 \in X
  BY <1>0, <1>8, <1>9, NatInduct
<1>11. k[1] \in V
  <2>1. 1 \in 1 .. n + 1 /\ n + 1 - (n + 1) <= 1
    BY <1>0
  <2> QED
    BY <1>10, <2>1 DEF X
<1> QED
  BY <1>6, <1>11 DEF V

LEMMA AnalyzeQueryType ==
  ASSUME NEW description \in Seq(Vocabulary), NEW terms
  PROVE  AnalyzeQuery(description, terms) \in Analyses
<1> DEFINE K == {i \in DOMAIN description : description[i] \notin Determiners}
           spoken == Keep(description, K)
           words == [i \in DOMAIN spoken |-> Correct(spoken[i], terms)]
<1>1. spoken \in Seq(Vocabulary)
  <2> HIDE DEF K
  <2> QED
    BY KeepReads
<1>2. words \in Seq(Vocabulary)
  <2> HIDE DEF spoken
  <2>1. Len(spoken) \in Nat /\ DOMAIN spoken = 1 .. Len(spoken)
        /\ \A i \in DOMAIN spoken : spoken[i] \in Vocabulary
    BY <1>1
  <2>2. \A i \in DOMAIN spoken : Correct(spoken[i], terms) \in Vocabulary
    BY <2>1, CorrectType
  <2> QED
    BY <2>1, <2>2
<1>3. AnalyzeQuery(description, terms) = AnalyzeWords(words)
  BY DEF AnalyzeQuery
<1> HIDE DEF words
<1> QED
  BY <1>2, <1>3, AnalyzeWordsType

(***************************************************************************)
(* Searches.  What is found in some manuals is what is found in more, of   *)
(* those manuals, unless the larger search finds nothing at all: whether a *)
(* word is too common to go by depends on the description only.            *)
(***************************************************************************)
Matched(gs, q) == {g \in Candidates(gs, q) : q.terms \cap gs[g].terms # {}}

ScoreOf(gs, q, g) ==
    [group |-> g,
     score |-> WeightsOf(gs, q.terms \cap gs[g].terms) + WeightsOf(gs, q.terms \cap gs[g].causes) \div 4,
     matched |-> Cardinality(q.terms \cap gs[g].terms),
     distinctive |-> Distinctive(gs, q.terms \cap gs[g].terms)]

LEMMA ScoredIs ==
  ASSUME NEW gs, NEW q
  PROVE  Scored(gs, q) = {ScoreOf(gs, q, g) : g \in Matched(gs, q)}
BY DEF Scored, ScoreOf, Matched

(* q1 is q2, narrowed to some of its manuals.                              *)
Narrowed(gs, q1, q2) ==
    /\ q1.terms = q2.terms /\ q1.negated = q2.negated /\ q1.types = q2.types
    /\ \A g \in DOMAIN gs : gs[g].manual \in q1.manuals => gs[g].manual \in q2.manuals

LEMMA ScoredNarrows ==
  ASSUME NEW gs, NEW q1, NEW q2, Narrowed(gs, q1, q2)
  PROVE  Scored(gs, q1) = {s \in Scored(gs, q2) : gs[s.group].manual \in q1.manuals}
<1>1. \A g : ScoreOf(gs, q1, g) = ScoreOf(gs, q2, g) /\ ScoreOf(gs, q2, g).group = g
  BY DEF ScoreOf, Narrowed
<1>2. Matched(gs, q1) = {g \in Matched(gs, q2) : gs[g].manual \in q1.manuals}
  BY DEF Matched, Candidates, Narrowed
<1> QED
  BY <1>1, <1>2, ScoredIs

LEMMA ClearedNarrows ==
  ASSUME NEW gs, NEW q1, NEW q2, Narrowed(gs, q1, q2)
  PROVE  Cleared(gs, q1) = {s \in Cleared(gs, q2) : gs[s.group].manual \in q1.manuals}
<1>1. \A s : Clears(gs, q1, s) <=> Clears(gs, q2, s)
  BY DEF Clears, Narrowed
<1> QED
  BY <1>1, ScoredNarrows DEF Cleared

LEMMA ScoredFinite ==
  ASSUME NEW gs \in Seq(Groups), NEW q
  PROVE  IsFiniteSet(Scored(gs, q))
<1> DEFINE M == Matched(gs, q)
           f == [g \in M |-> ScoreOf(gs, q, g)]
<1>1. IsFiniteSet(M)
  <2>1. DOMAIN gs = 1 .. Len(gs) /\ Len(gs) \in Nat
    OBVIOUS
  <2>2. M \in SUBSET (1 .. Len(gs))
    BY <2>1 DEF Matched, Candidates
  <2>3. IsFiniteSet(1 .. Len(gs))
    BY <2>1, FS_Interval
  <2> HIDE DEF M
  <2> QED
    BY <2>2, <2>3, FS_Subset
<1>2. DOMAIN f = M /\ Scored(gs, q) = {f[g] : g \in M}
  BY ScoredIs
<1> HIDE DEF M, f
<1> QED
  BY <1>1, <1>2, ImageFinite

(* With one term, all that is found is as distinctive as the term.         *)
LEMMA OneTerm ==
  ASSUME NEW gs, NEW q, IsFiniteSet(q.terms), Cardinality(q.terms) = 1, NEW s \in Scored(gs, q)
  PROVE  s.distinctive = Distinctive(gs, q.terms)
<1>1. PICK g \in Matched(gs, q) : s = ScoreOf(gs, q, g)
  BY ScoredIs
<1>2. PICK t : q.terms = {t}
  BY FS_Singleton
<1>3. q.terms \cap gs[g].terms = q.terms
  BY <1>2 DEF Matched
<1> QED
  BY <1>1, <1>3 DEF ScoreOf

LEMMA CommonNarrows ==
  ASSUME NEW gs \in Seq(Groups), NEW q1, NEW q2, Narrowed(gs, q1, q2), IsFiniteSet(q2.terms),
         IsCommon(q1.terms, Cleared(gs, q1))
  PROVE  IsCommon(q2.terms, Cleared(gs, q2))
<1> DEFINE F1 == Cleared(gs, q1)
           F2 == Cleared(gs, q2)
<1>1. F1 \subseteq F2 /\ F2 \subseteq Scored(gs, q2)
  BY ClearedNarrows DEF Cleared
<1>2. IsFiniteSet(F2) /\ IsFiniteSet(F1)
  BY <1>1, ScoredFinite, FS_Subset
<1>3. Cardinality(F1) <= Cardinality(F2) /\ Cardinality(F1) \in Nat /\ Cardinality(F2) \in Nat
  BY <1>1, <1>2, FS_Subset, FS_CardinalityType
<1>4. q1.terms = q2.terms /\ Cardinality(q2.terms) = 1 /\ Cardinality(F1) > MaxMatches
      /\ \A s \in F1 : ~s.distinctive
  BY DEF IsCommon, Narrowed
<1>5. MaxMatches \in Nat
  BY SearchAssumption
<1> HIDE DEF F1, F2
<1>6. Cardinality(F2) > MaxMatches
  BY <1>3, <1>4, <1>5
<1>7. F1 # {}
  <2> SUFFICES ASSUME F1 = {}
               PROVE  FALSE
    OBVIOUS
  <2>1. Cardinality(F1) = 0
    BY FS_EmptySet
  <2> QED
    BY <1>4, <1>5, <2>1
<1>8. ~Distinctive(gs, q2.terms)
  BY <1>1, <1>4, <1>7, OneTerm
<1>9. \A s \in F2 : ~s.distinctive
  BY <1>1, <1>4, <1>8, OneTerm
<1> QED
  BY <1>4, <1>6, <1>9 DEF IsCommon, F2

LEMMA SearchNarrows ==
  ASSUME NEW gs \in Seq(Groups), NEW q1, NEW q2, Narrowed(gs, q1, q2), IsFiniteSet(q2.terms),
         Search(gs, q2) # {}
  PROVE  Search(gs, q1) = {s \in Search(gs, q2) : gs[s.group].manual \in q1.manuals}
<1>1. ~IsOffTopic(gs, q2.terms) /\ ~IsCommon(q2.terms, Cleared(gs, q2))
      /\ Search(gs, q2) = Cleared(gs, q2)
  BY DEF Search
<1>2. ~IsOffTopic(gs, q1.terms)
  BY <1>1 DEF Narrowed
<1>3. ~IsCommon(q1.terms, Cleared(gs, q1))
  BY <1>1, CommonNarrows
<1>4. Search(gs, q1) = Cleared(gs, q1)
  BY <1>2, <1>3 DEF Search
<1> QED
  BY <1>1, <1>4, ClearedNarrows

(***************************************************************************)
(* The manuals that diagnose_symptom hits                                  *)
(***************************************************************************)
Hits(analysis, manuals, type) == HitManuals({SearchIn(analysis, manuals, type)})

LEMMA HitsAre ==
  ASSUME NEW analysis, NEW manuals, NEW type
  PROVE  Hits(analysis, manuals, type) =
           IF analysis.terms = {} THEN {}
           ELSE {groups[s.group].manual : s \in Search(groups, SearchIn(analysis, manuals, type))}
<1> DEFINE query == SearchIn(analysis, manuals, type)
<1>1. query.terms = analysis.terms
  BY DEF SearchIn
<1>2. Hits(analysis, manuals, type) =
        UNION {{groups[s.group].manual : s \in Search(groups, x)} : x \in {x \in {query} : x.terms # {}}}
  BY DEF Hits, HitManuals
<1> HIDE DEF query
<1>3. CASE analysis.terms = {}
  BY <1>1, <1>2, <1>3
<1>4. CASE analysis.terms # {}
  <2>1. {x \in {query} : x.terms # {}} = {query}
    BY <1>1, <1>4
  <2> QED
    BY <1>2, <1>4, <2>1 DEF query
<1> QED
  BY <1>3, <1>4

LEMMA HitsOf ==
  ASSUME groups \in Seq(Groups), NEW analysis, NEW manuals, NEW type,
         NEW m \in Hits(analysis, manuals, type)
  PROVE  /\ m \in manuals /\ m \in AllManuals /\ m \in Manuals
         /\ type = None \/ TypeOfManual(m, type)
         /\ \E e \in ToSet(Catalog) : m = e.manual
<1> DEFINE query == SearchIn(analysis, manuals, type)
<1>1. PICK s \in Search(groups, query) : m = groups[s.group].manual
  BY HitsAre
<1>2. s \in Scored(groups, query)
  BY DEF Search, Cleared
<1>3. PICK g \in Matched(groups, query) : s = ScoreOf(groups, query, g)
  BY <1>2, ScoredIs
<1>4. s.group = g
  BY <1>3 DEF ScoreOf
<1>5. g \in DOMAIN groups /\ groups[g].manual \in query.manuals /\ groups[g].type \in query.types
  BY DEF Matched, Candidates
<1>6. query.manuals = manuals /\ query.types = (IF type = None THEN AllTypes ELSE {type})
  BY DEF SearchIn
<1>7. groups[g].manual \in Manuals /\ TypeOfManual(groups[g].manual, groups[g].type)
  <2>1. groups[g] \in Groups
    BY <1>5
  <2> QED
    BY <2>1 DEF Groups
<1>8. m \in AllManuals
  BY <1>1, <1>4, <1>5 DEF AllManuals
<1>9. \E e \in ToSet(Catalog) : m = e.manual
  BY <1>1, <1>4, <1>7 DEF TypeOfManual
<1> HIDE DEF query
<1> QED
  BY <1>1, <1>4, <1>5, <1>6, <1>7, <1>8, <1>9

LEMMA HitsNarrow ==
  ASSUME groups \in Seq(Groups), NEW analysis, IsFiniteSet(analysis.terms), NEW type,
         NEW M1, NEW M2, M1 \cap AllManuals \subseteq M2, Hits(analysis, M2, type) # {}
  PROVE  Hits(analysis, M1, type) = Hits(analysis, M2, type) \cap M1
<1> DEFINE q1 == SearchIn(analysis, M1, type)
           q2 == SearchIn(analysis, M2, type)
<1>1. Narrowed(groups, q1, q2)
  BY DEF Narrowed, SearchIn, AllManuals
<1>2. analysis.terms # {} /\ q2.terms = analysis.terms /\ q1.manuals = M1
  BY HitsAre DEF SearchIn
<1>3. /\ Hits(analysis, M1, type) = {groups[s.group].manual : s \in Search(groups, q1)}
      /\ Hits(analysis, M2, type) = {groups[s.group].manual : s \in Search(groups, q2)}
  BY <1>2, HitsAre
<1>4. Search(groups, q2) # {}
  BY <1>3
<1> HIDE DEF q1, q2
<1>5. Search(groups, q1) = {s \in Search(groups, q2) : groups[s.group].manual \in M1}
  BY <1>1, <1>2, <1>4, SearchNarrows
<1> QED
  BY <1>3, <1>5

(***************************************************************************)
(* The weight of a description                                             *)
(***************************************************************************)
(* The heaviness of a word is known for each number of symptoms it is in.  *)
Weighed(gs) == gs \in Seq(Groups) /\ (Len(gs) > 0 => Idf[Len(gs)] \in [1 .. Len(gs) -> Nat])

LEMMA TermsFinite ==
  ASSUME NEW gs \in Seq(Groups)
  PROVE  IsFiniteSet(TermsOf(gs))
<1> DEFINE f == [g \in DOMAIN gs |-> gs[g].terms \cup gs[g].causes]
           U == {f[g] : g \in DOMAIN gs}
<1>1. DOMAIN gs = 1 .. Len(gs) /\ Len(gs) \in Nat /\ \A g \in DOMAIN gs : gs[g] \in Groups
  OBVIOUS
<1>2. IsFiniteSet(DOMAIN gs)
  BY <1>1, FS_Interval
<1>3. \A g \in DOMAIN gs : IsFiniteSet(f[g])
  BY <1>1, FS_Union DEF Groups
<1>4. DOMAIN f = DOMAIN gs
  OBVIOUS
<1>5. TermsOf(gs) = UNION U
  BY DEF TermsOf
<1> HIDE DEF f
<1>6. IsFiniteSet(U) /\ \A T \in U : IsFiniteSet(T)
  BY <1>2, <1>3, <1>4, ImageFinite
<1> QED
  BY <1>5, <1>6, FS_UNION

LEMMA DfType ==
  ASSUME NEW gs \in Seq(Groups), NEW t \in TermsOf(gs)
  PROVE  Df(gs, t) \in 1 .. Len(gs) /\ Len(gs) > 0
<1> DEFINE S == {g \in DOMAIN gs : t \in gs[g].terms \cup gs[g].causes}
           n == Len(gs)
<1>1. DOMAIN gs = 1 .. n /\ n \in Nat
  OBVIOUS
<1>2. S # {} /\ S \in SUBSET (1 .. n)
  BY <1>1 DEF TermsOf
<1>3. IsFiniteSet(1 .. n) /\ Cardinality(1 .. n) = n
  <2>1. 1 \in Int /\ n \in Int
    BY <1>1
  <2>2. /\ IsFiniteSet(1 .. n)
        /\ Cardinality(1 .. n) = IF 1 > n THEN 0 ELSE n - 1 + 1
    <3> HIDE DEF n
    <3> QED
      BY <2>1, FS_Interval, Zenon
  <2> QED
    BY <1>1, <2>2
<1>4. Df(gs, t) = Cardinality(S)
  BY DEF Df
<1> HIDE DEF S
<1>5. IsFiniteSet(S) /\ Cardinality(S) <= n /\ Cardinality(S) \in Nat
  BY <1>2, <1>3, FS_Subset, FS_CardinalityType
<1>6. Cardinality(S) # 0
  BY <1>2, <1>5, FS_EmptySet
<1> QED
  BY <1>1, <1>4, <1>5, <1>6

LEMMA WeightType ==
  ASSUME NEW gs, Weighed(gs), TermsOf(gs) # {}, NEW t
  PROVE  Weight(gs, t) \in Nat
<1> DEFINE w == [k \in TermsOf(gs) |-> WeightOfDf(gs, Df(gs, k))]
           S == {w[k] : k \in TermsOf(gs)}
<1>1. gs \in Seq(Groups)
  BY DEF Weighed
<1>2. \A k \in TermsOf(gs) : WeightOfDf(gs, Df(gs, k)) \in Nat
  BY <1>1, DfType DEF WeightOfDf, Weighed
<1>3. IsFiniteSet(S) /\ S \in SUBSET Nat /\ S # {}
  <2>1. DOMAIN w = TermsOf(gs) /\ \A k \in TermsOf(gs) : w[k] \in Nat
    BY <1>2
  <2> HIDE DEF w
  <2> QED
    BY <1>1, <2>1, TermsFinite, ImageFinite
<1>4. Max(S) \in Nat
  <2> HIDE DEF S
  <2>1. \E x \in S : \A y \in S : x >= y
    BY <1>3, GreatestExists
  <2> QED
    BY <1>3, <2>1 DEF Max
<1>5. S = {WeightOfDf(gs, Df(gs, k)) : k \in TermsOf(gs)}
  OBVIOUS
<1> HIDE DEF S
<1>6. CASE t \in TermsOf(gs)
  BY <1>2, <1>6 DEF Weight
<1>7. CASE t \notin TermsOf(gs)
  BY <1>4, <1>5, <1>7 DEF Weight
<1> QED
  BY <1>6, <1>7

WeightsIn(gs, S) == [t \in S |-> Weight(gs, t)]

LEMMA WeightsIsASum ==
  ASSUME NEW gs, NEW S
  PROVE  WeightsOf(gs, S) = (CHOOSE g : Sums(g, WeightsIn(gs, S), S))[S]
<1> DEFINE w == WeightsIn(gs, S)
           Iter(g) == g = [s \in SUBSET S |->
                              IF s = {} THEN 0
                              ELSE Weight(gs, CHOOSE x \in s : TRUE) + g[s \ {CHOOSE x \in s : TRUE}]]
<1>1. WeightsOf(gs, S) = (CHOOSE g : Iter(g))[S]
  BY DEF WeightsOf, MapThenSumSet, MapThenFoldSet
<1>2. ASSUME NEW s \in SUBSET S, s # {}
      PROVE  w[CHOOSE x \in s : TRUE] = Weight(gs, CHOOSE x \in s : TRUE)
  <2>1. (CHOOSE x \in s : TRUE) \in S
    BY <1>2
  <2> QED
    BY <2>1 DEF WeightsIn
<1>3. ASSUME NEW g
      PROVE  Iter(g) <=> Sums(g, w, S)
  <2> HIDE DEF w
  <2> QED
    BY <1>2 DEF Sums, SumStep
<1>4. (CHOOSE g : Iter(g)) = (CHOOSE g : Sums(g, w, S))
  <2> HIDE DEF w, Iter
  <2> QED
    BY <1>3
<1> QED
  BY <1>1, <1>4

(* One word more weighs no less.                                           *)
LEMMA WeightsGrow ==
  ASSUME NEW gs, Weighed(gs), TermsOf(gs) # {}, NEW S, IsFiniteSet(S), NEW u, u \notin S
  PROVE  /\ WeightsOf(gs, S) \in Nat
         /\ WeightsOf(gs, S \cup {u}) \in Nat
         /\ WeightsOf(gs, S \cup {u}) >= WeightsOf(gs, S)
<1> DEFINE D == S \cup {u}
           w == WeightsIn(gs, D)
           v == WeightsIn(gs, S)
<1>0. IsFiniteSet(D) /\ S \in SUBSET D /\ D \in SUBSET D /\ u \in D \ S
  BY FS_AddElement
<1>1. w \in [D -> Nat] /\ v \in [S -> Nat] /\ \A x \in S : v[x] = w[x]
  BY WeightType DEF WeightsIn
<1> HIDE DEF w, v, D
<1>2. PICK g \in [SUBSET D -> Nat] : Sums(g, w, D)
  BY <1>0, <1>1, SumExists
<1> DEFINE h == CHOOSE x : Sums(x, w, D)
           k == CHOOSE x : Sums(x, v, S)
<1>3. Sums(h, w, D)
  BY <1>2
<1>4. Sums(k, v, S)
  <2>1. \E x \in [SUBSET S -> Nat] : Sums(x, v, S)
    BY <1>1, SumExists
  <2> QED
    BY <2>1
<1>5. WeightsOf(gs, D) = h[D] /\ WeightsOf(gs, S) = k[S]
  BY WeightsIsASum DEF w, v
<1> HIDE DEF h, k
<1>6. h[D] = g[D]
  BY <1>0, <1>2, <1>3, SumUnique
<1>7. k[S] = g[S]
  BY <1>0, <1>1, <1>2, <1>4, SumUnique
<1>8. g[S \cup {u}] = g[S] + w[u] /\ g[S] \in Nat /\ w[u] \in Nat
  <2>1. /\ g[{}] = 0
        /\ \A T \in SUBSET D : \A x \in D \ T : g[T \cup {x}] = g[T] + w[x]
    BY <1>0, <1>1, <1>2, SumAdds
  <2>2. g[S \cup {u}] = g[S] + w[u]
    BY <1>0, <2>1
  <2> QED
    BY <1>0, <1>1, <1>2, <2>2
<1>9. D = S \cup {u}
  BY DEF D
<1> QED
  BY <1>5, <1>6, <1>7, <1>8, <1>9

(***************************************************************************)
(* Answers                                                                 *)
(***************************************************************************)
NoManual == ""

LEMMA AnswerFields ==
  /\ Answer.status = "not_found" /\ Answer.registered = None /\ Answer.id = None
  /\ Answer.cites = NoManual /\ Answer.choices = {} /\ Answer.nearest = <<>> /\ Answer.days = 0
BY DEF Answer, NoManual

LEMMA FoundFields ==
  ASSUME NEW a, NEW m
  PROVE  /\ Found(a, m).status = "found" /\ Found(a, m).registered = "yes" /\ Found(a, m).id = a.id
         /\ Found(a, m).cites = m /\ Found(a, m).choices = {} /\ Found(a, m).days = 0
BY DEF Found, Answer

LEMMA DocumentedFields ==
  ASSUME NEW m
  PROVE  /\ Documented(m).status = "found" /\ Documented(m).registered = "no" /\ Documented(m).id = None
         /\ Documented(m).cites = m /\ Documented(m).choices = {} /\ Documented(m).days = 0
BY DEF Documented, Answer

LEMMA AmbiguousFields ==
  ASSUME NEW ids
  PROVE  /\ Ambiguous(ids).status = "ambiguous_appliance" /\ Ambiguous(ids).registered = None
         /\ Ambiguous(ids).id = None /\ Ambiguous(ids).cites = NoManual /\ Ambiguous(ids).choices = ids
         /\ Ambiguous(ids).days = 0
BY DEF Ambiguous, Answer, NoManual

LEMMA OnlyIs ==
  ASSUME NEW x
  PROVE  Only({x}) = x
BY DEF Only

LEMMA HowMany ==
  ASSUME NEW S, IsFiniteSet(S)
  PROVE  /\ S = {} <=> ~(Cardinality(S) = 1) /\ ~(Cardinality(S) > 1)
         /\ Cardinality(S) = 1 <=> \E x : S = {x}
         /\ Cardinality(S) = 1 => ~(Cardinality(S) > 1)
<1>1. Cardinality(S) \in Nat /\ (Cardinality(S) = 0 <=> S = {})
  BY FS_CardinalityType, FS_EmptySet
<1>2. Cardinality(S) = 1 <=> \E x : S = {x}
  BY FS_Singleton
<1> QED
  BY <1>1, <1>2

(***************************************************************************)
(* diagnose_symptom answers by the appliances that are hit, and else by    *)
(* the other manuals.                                                      *)
(***************************************************************************)
SymptomMine(own, q, analysis) == {a \in Resolved(own, q) : Given(TypeMeant(q, analysis), a.type)}

ManualsOf(mine) == {a.manual : a \in mine} \ {NoManual}

SymptomHits(own, q, analysis) ==
    {a \in SymptomMine(own, q, analysis) :
        a.manual \in Hits(analysis, ManualsOf(SymptomMine(own, q, analysis)), TypeMeant(q, analysis))}

SymptomOthers(q, analysis) == Hits(analysis, AllManuals, TypeMeant(q, analysis))

SymptomScope(own, q, analysis) ==
    IF ManualsOf(SymptomMine(own, q, analysis)) = {} THEN AllManuals
    ELSE ManualsOf(SymptomMine(own, q, analysis))

SymptomMiss(own, q, analysis) ==
    [Answer EXCEPT !.suggests = SymptomMine(own, q, analysis) = {},
                   !.nearest = NearestPhrases(groups, SearchIn(analysis, SymptomScope(own, q, analysis),
                                                               TypeMeant(q, analysis)))]

LEMMA SymptomAnswerIs ==
  ASSUME NEW own, NEW q, NEW analysis
  PROVE  LET hits == SymptomHits(own, q, analysis)
             others == SymptomOthers(q, analysis)
         IN  SymptomAnswer(own, q, analysis) =
               CASE Cardinality(hits) = 1 -> Found(Only(hits), Only(hits).manual)
                 [] Cardinality(hits) > 1 -> Ambiguous({a.id : a \in hits})
                 [] hits = {} /\ Cardinality(others) = 1 -> Documented(Only(others))
                 [] hits = {} /\ Cardinality(others) > 1 -> Ambiguous({})
                 [] OTHER -> SymptomMiss(own, q, analysis)
BY Zenon DEF SymptomAnswer, SymptomHits, SymptomOthers, SymptomMine, ManualsOf, NoManual, Hits, SymptomMiss, SymptomScope

LEMMA ManualsFinite ==
  ASSUME groups \in Seq(Groups)
  PROVE  IsFiniteSet(AllManuals)
<1> DEFINE f == [g \in DOMAIN groups |-> groups[g].manual]
<1>1. DOMAIN groups = 1 .. Len(groups) /\ Len(groups) \in Nat
  OBVIOUS
<1>2. IsFiniteSet(DOMAIN groups)
  BY <1>1, FS_Interval
<1>3. DOMAIN f = DOMAIN groups /\ AllManuals = {f[g] : g \in DOMAIN groups}
  BY DEF AllManuals
<1> HIDE DEF f
<1> QED
  BY <1>2, <1>3, ImageFinite

Several(S) == S # {} /\ ~\E x : S = {x}

LEMMA SymptomCases ==
  ASSUME groups \in Seq(Groups), NEW own, IsFiniteSet(own), NEW q, NEW analysis
  PROVE  LET hits == SymptomHits(own, q, analysis)
             others == SymptomOthers(q, analysis)
             answer == SymptomAnswer(own, q, analysis)
         IN  /\ \A a : hits = {a} => answer = Found(a, a.manual)
             /\ Several(hits) => answer = Ambiguous({a.id : a \in hits})
             /\ \A m : hits = {} /\ others = {m} => answer = Documented(m)
             /\ hits = {} /\ Several(others) => answer = Ambiguous({})
             /\ hits = {} /\ others = {} => answer = SymptomMiss(own, q, analysis)
<1> DEFINE hits == SymptomHits(own, q, analysis)
           others == SymptomOthers(q, analysis)
           answer == SymptomAnswer(own, q, analysis)
           miss == SymptomMiss(own, q, analysis)
<1>1. IsFiniteSet(hits)
  <2>1. hits \in SUBSET own
    BY DEF SymptomHits, SymptomMine, Resolved
  <2> HIDE DEF hits
  <2> QED
    BY <2>1, FS_Subset
<1>2. IsFiniteSet(others)
  <2>1. others \in SUBSET AllManuals
    BY HitsOf DEF SymptomOthers
  <2> HIDE DEF others
  <2> QED
    BY <2>1, ManualsFinite, FS_Subset
<1>3. answer =
        CASE Cardinality(hits) = 1 -> Found(Only(hits), Only(hits).manual)
          [] Cardinality(hits) > 1 -> Ambiguous({a.id : a \in hits})
          [] hits = {} /\ Cardinality(others) = 1 -> Documented(Only(others))
          [] hits = {} /\ Cardinality(others) > 1 -> Ambiguous({})
          [] OTHER -> miss
  BY SymptomAnswerIs, Zenon
<1> HIDE DEF hits, others, answer, miss
<1>4. /\ hits = {} <=> ~(Cardinality(hits) = 1) /\ ~(Cardinality(hits) > 1)
      /\ Cardinality(hits) = 1 <=> \E x : hits = {x}
      /\ Cardinality(hits) = 1 => ~(Cardinality(hits) > 1)
  BY <1>1, HowMany, Zenon
<1>5. /\ others = {} <=> ~(Cardinality(others) = 1) /\ ~(Cardinality(others) > 1)
      /\ Cardinality(others) = 1 <=> \E x : others = {x}
      /\ Cardinality(others) = 1 => ~(Cardinality(others) > 1)
  BY <1>2, HowMany, Zenon
<1>6. ASSUME NEW a, hits = {a}
      PROVE  answer = Found(a, a.manual)
  <2>1. Cardinality(hits) = 1 /\ hits # {} /\ ~(Cardinality(hits) > 1) /\ Only(hits) = a
    BY <1>4, <1>6, OnlyIs
  <2> QED
    BY <1>3, <2>1, Zenon
<1>7. ASSUME Several(hits)
      PROVE  answer = Ambiguous({a.id : a \in hits})
  <2>1. ~(Cardinality(hits) = 1) /\ Cardinality(hits) > 1 /\ hits # {}
    BY <1>4, <1>7 DEF Several
  <2> QED
    BY <1>3, <2>1, Zenon
<1>8. ASSUME NEW m, hits = {}, others = {m}
      PROVE  answer = Documented(m)
  <2>1. /\ ~(Cardinality(hits) = 1) /\ ~(Cardinality(hits) > 1)
        /\ Cardinality(others) = 1 /\ ~(Cardinality(others) > 1) /\ Only(others) = m
    BY <1>4, <1>5, <1>8, OnlyIs
  <2> QED
    BY <1>3, <1>8, <2>1, Zenon
<1>9. ASSUME hits = {}, Several(others)
      PROVE  answer = Ambiguous({})
  <2>1. /\ ~(Cardinality(hits) = 1) /\ ~(Cardinality(hits) > 1)
        /\ ~(Cardinality(others) = 1) /\ Cardinality(others) > 1
    BY <1>4, <1>5, <1>9 DEF Several
  <2> QED
    BY <1>3, <1>9, <2>1, Zenon
<1>10. ASSUME hits = {}, others = {}
       PROVE  answer = miss
  <2>1. /\ ~(Cardinality(hits) = 1) /\ ~(Cardinality(hits) > 1)
        /\ ~(Cardinality(others) = 1) /\ ~(Cardinality(others) > 1)
    BY <1>4, <1>5, <1>10
  <2> QED
    BY <1>3, <2>1, Zenon
<1> QED
  BY <1>6, <1>7, <1>8, <1>9, <1>10, Zenon DEF hits, others, answer, miss

(***************************************************************************)
(* diagnose_error answers by the appliances whose manual has the code, and *)
(* else by the other manuals.                                              *)
(***************************************************************************)
ErrorMine(own, q) == IF q.household THEN Resolved(own, q) ELSE {}

ErrorMatches(own, q) == {a \in ErrorMine(own, q) : ItsManual(a, ByCode(index, q.code))}

ErrorOthers(q) == Unowned(q, ByCode(index, q.code))

ErrorElse(m, q) ==
    IF q.household THEN Documented(m) ELSE [Documented(m) EXCEPT !.registered = None, !.suggests = FALSE]

LEMMA ErrorCases ==
  ASSUME NEW own, IsFiniteSet(own), NEW q, IsFiniteSet(index)
  PROVE  LET matches == ErrorMatches(own, q)
             others == ErrorOthers(q)
             answer == DiagnoseError(own, q)
         IN  /\ \A a : matches = {a} => answer = Found(a, a.manual)
             /\ Several(matches) => answer = Ambiguous({a.id : a \in matches})
             /\ \A m : matches = {} /\ others = {m} => answer = ErrorElse(m, q)
             /\ matches = {} /\ Several(others) => answer = Ambiguous({})
             /\ matches = {} /\ others = {} => answer = CodeNotFound(ErrorMine(own, q), q)
<1> DEFINE matches == ErrorMatches(own, q)
           others == ErrorOthers(q)
           answer == DiagnoseError(own, q)
           miss == CodeNotFound(ErrorMine(own, q), q)
<1>1. IsFiniteSet(matches)
  <2>1. matches \in SUBSET own
    BY DEF ErrorMatches, ErrorMine, Resolved
  <2> HIDE DEF matches
  <2> QED
    BY <2>1, FS_Subset
<1>2. IsFiniteSet(others)
  <2> DEFINE f == [r \in index |-> r.manual]
             M == {f[r] : r \in index}
  <2>1. others \in SUBSET M
    BY DEF ErrorOthers, Unowned, ByCode
  <2>2. DOMAIN f = index
    OBVIOUS
  <2> HIDE DEF others, f
  <2>3. IsFiniteSet(M)
    BY <2>2, ImageFinite
  <2> HIDE DEF M
  <2> QED
    BY <2>1, <2>3, FS_Subset
<1>3. answer =
        CASE Cardinality(matches) = 1 -> Found(Only(matches), Only(matches).manual)
          [] Cardinality(matches) > 1 -> Ambiguous({a.id : a \in matches})
          [] matches = {} /\ Cardinality(others) = 1 -> ErrorElse(Only(others), q)
          [] matches = {} /\ Cardinality(others) > 1 -> Ambiguous({})
          [] OTHER -> miss
  BY Zenon DEF DiagnoseError, ErrorMatches, ErrorMine, ErrorOthers, ErrorElse
<1> HIDE DEF matches, others, answer, miss
<1>4. /\ matches = {} <=> ~(Cardinality(matches) = 1) /\ ~(Cardinality(matches) > 1)
      /\ Cardinality(matches) = 1 <=> \E x : matches = {x}
      /\ Cardinality(matches) = 1 => ~(Cardinality(matches) > 1)
  BY <1>1, HowMany, Zenon
<1>5. /\ others = {} <=> ~(Cardinality(others) = 1) /\ ~(Cardinality(others) > 1)
      /\ Cardinality(others) = 1 <=> \E x : others = {x}
      /\ Cardinality(others) = 1 => ~(Cardinality(others) > 1)
  BY <1>2, HowMany, Zenon
<1>6. ASSUME NEW a, matches = {a}
      PROVE  answer = Found(a, a.manual)
  <2>1. Cardinality(matches) = 1 /\ matches # {} /\ ~(Cardinality(matches) > 1) /\ Only(matches) = a
    BY <1>4, <1>6, OnlyIs
  <2> QED
    BY <1>3, <2>1, Zenon
<1>7. ASSUME Several(matches)
      PROVE  answer = Ambiguous({a.id : a \in matches})
  <2>1. ~(Cardinality(matches) = 1) /\ Cardinality(matches) > 1 /\ matches # {}
    BY <1>4, <1>7 DEF Several
  <2> QED
    BY <1>3, <2>1, Zenon
<1>8. ASSUME NEW m, matches = {}, others = {m}
      PROVE  answer = ErrorElse(m, q)
  <2>1. /\ ~(Cardinality(matches) = 1) /\ ~(Cardinality(matches) > 1)
        /\ Cardinality(others) = 1 /\ ~(Cardinality(others) > 1) /\ Only(others) = m
    BY <1>4, <1>5, <1>8, OnlyIs
  <2> QED
    BY <1>3, <1>8, <2>1, Zenon
<1>9. ASSUME matches = {}, Several(others)
      PROVE  answer = Ambiguous({})
  <2>1. /\ ~(Cardinality(matches) = 1) /\ ~(Cardinality(matches) > 1)
        /\ ~(Cardinality(others) = 1) /\ Cardinality(others) > 1
    BY <1>4, <1>5, <1>9 DEF Several
  <2> QED
    BY <1>3, <1>9, <2>1, Zenon
<1>10. ASSUME matches = {}, others = {}
       PROVE  answer = miss
  <2>1. /\ ~(Cardinality(matches) = 1) /\ ~(Cardinality(matches) > 1)
        /\ ~(Cardinality(others) = 1) /\ ~(Cardinality(others) > 1)
    BY <1>4, <1>5, <1>10
  <2> QED
    BY <1>3, <2>1, Zenon
<1> QED
  BY <1>6, <1>7, <1>8, <1>9, <1>10, Zenon DEF matches, others, answer, miss

(***************************************************************************)
(* A word that no manual has                                               *)
(***************************************************************************)
LEMMA UnknownOnlyDoubts ==
  ASSUME Weighed(groups), NEW a, IsFiniteSet(a.terms), a.terms # {}, NEW u, u \notin TermsOf(groups),
         NEW b, b.terms = a.terms \cup {u}, b.negated = a.negated, NEW M, NEW type
  PROVE  Hits(b, M, type) \subseteq Hits(a, M, type)
<1> DEFINE p == SearchIn(a, M, type)
           q == SearchIn(b, M, type)
<1>0. groups \in Seq(Groups)
  BY DEF Weighed
<1>1. CASE u \in a.terms
  <2>1. q = p
    BY <1>1 DEF SearchIn
  <2>2. b.terms = a.terms
    BY <1>1
  <2> HIDE DEF p, q
  <2>3. HitManuals({q}) = HitManuals({p})
    BY <2>1
  <2> QED
    BY <2>3 DEF Hits, p, q
<1>2. CASE u \notin a.terms
  <2>1. /\ p.terms = a.terms /\ q.terms = p.terms \cup {u} /\ q.negated = p.negated
        /\ q.manuals = p.manuals /\ q.types = p.types
    BY DEF SearchIn
  <2> HIDE DEF p, q
  <2>2. \A g \in DOMAIN groups : /\ q.terms \cap groups[g].terms = p.terms \cap groups[g].terms
                                 /\ q.terms \cap groups[g].causes = p.terms \cap groups[g].causes
    BY <2>1 DEF TermsOf
  <2>3. Matched(groups, q) = Matched(groups, p)
    BY <2>1, <2>2 DEF Matched, Candidates
  <2>4. ASSUME NEW s \in Search(groups, q)
        PROVE  s \in Search(groups, p)
    <3>1. /\ s \in Scored(groups, q) /\ Clears(groups, q, s) /\ ~IsOffTopic(groups, q.terms)
      BY DEF Search, Cleared
    <3>2. PICK g \in Matched(groups, q) : s = ScoreOf(groups, q, g)
      BY <3>1, ScoredIs
    <3>3. g \in DOMAIN groups /\ p.terms \cap groups[g].terms # {}
      BY <2>2 DEF Matched, Candidates
    <3>4. s = ScoreOf(groups, p, g)
      BY <2>2, <3>2, <3>3 DEF ScoreOf
    <3>5. s \in Scored(groups, p)
      BY <2>3, <3>4, ScoredIs
    <3>6. Distinctive(groups, p.terms)
      <4>1. u \in Unknown(groups, q.terms)
        BY <2>1 DEF Unknown
      <4>2. PICK t \in q.terms : SymptomDf(groups, t) \in 1 .. DistinctiveMax
        BY <3>1, <4>1 DEF IsOffTopic, Distinctive
      <4>3. SymptomDf(groups, u) = 0
        <5>1. {k \in DOMAIN groups : u \in groups[k].terms} = {}
          BY DEF TermsOf
        <5> QED
          BY <5>1, FS_EmptySet DEF SymptomDf
      <4>4. t # u
        BY <4>2, <4>3
      <4> QED
        BY <2>1, <4>2, <4>4 DEF Distinctive
    <3>7. TermsOf(groups) # {}
      BY <3>3 DEF TermsOf
    <3>8. Clears(groups, p, s)
      <4> DEFINE A == p.terms \cap groups[g].terms
                 B == p.terms \cap groups[g].causes
      <4>1. IsFiniteSet(A) /\ IsFiniteSet(B) /\ u \notin A /\ u \notin B
        BY <1>2, <2>1, FS_Intersection
      <4>2. s.score = WeightsOf(groups, A) + WeightsOf(groups, B) \div 4 /\ s.matched = Cardinality(A)
        BY <3>4 DEF ScoreOf
      <4> HIDE DEF A, B
      <4>3. s.score \in Nat
        <5>1. WeightsOf(groups, A) \in Nat /\ WeightsOf(groups, B) \in Nat
          BY <3>7, <4>1, WeightsGrow
        <5> QED
          BY <4>2, <5>1
      <4>4. s.matched \in Nat
        BY <4>1, <4>2, FS_CardinalityType
      <4>5. /\ WeightsOf(groups, p.terms) \in Nat /\ WeightsOf(groups, q.terms) \in Nat
            /\ WeightsOf(groups, q.terms) >= WeightsOf(groups, p.terms)
        BY <1>2, <2>1, <3>7, WeightsGrow
      <4>6. 2 * s.score >= WeightsOf(groups, q.terms)
        BY <3>1 DEF Clears
      <4>7. Unknown(groups, q.terms) # {}
        BY <2>1 DEF Unknown
      <4>8. s.matched >= Needed(q.terms)
        BY <3>1, <4>7 DEF Clears
      <4>9. Needed(q.terms) >= Needed(p.terms) /\ Needed(q.terms) \in Nat /\ Needed(p.terms) \in Nat
        <5>1. /\ Cardinality(q.terms) = Cardinality(p.terms) + 1
              /\ Cardinality(p.terms) \in Nat
          BY <1>2, <2>1, FS_AddElement, FS_CardinalityType
        <5>2. MinMatched \in Nat
          BY SearchAssumption
        <5> QED
          BY <5>1, <5>2 DEF Needed
      <4>10. 2 * s.score >= WeightsOf(groups, p.terms)
        BY <4>3, <4>5, <4>6
      <4>11. s.matched >= Needed(p.terms)
        BY <4>4, <4>8, <4>9
      <4> QED
        BY <4>10, <4>11 DEF Clears
    <3>9. s \in Cleared(groups, p)
      BY <3>5, <3>8 DEF Cleared
    <3>10. ~IsCommon(p.terms, Cleared(groups, p))
      <4>1. Cardinality(p.terms) = 1 => s.distinctive
        BY <2>1, <3>5, <3>6, OneTerm
      <4> QED
        BY <3>9, <4>1 DEF IsCommon
    <3>11. ~IsOffTopic(groups, p.terms)
      BY <3>6 DEF IsOffTopic
    <3> QED
      BY <3>9, <3>10, <3>11 DEF Search
  <2>5. b.terms # {}
    OBVIOUS
  <2>6. /\ Hits(b, M, type) = {groups[s.group].manual : s \in Search(groups, q)}
        /\ Hits(a, M, type) = {groups[s.group].manual : s \in Search(groups, p)}
    BY <2>5, HitsAre DEF p, q
  <2> QED
    BY <2>4, <2>6
<1> QED
  BY <1>1, <1>2

LEMMA NothingOffered ==
  ASSUME NEW gs, NEW q, {s \in Scored(gs, q) : OfferedFor(gs, q, s)} = {}
  PROVE  NearestPhrases(gs, q) = <<>>
<1> DEFINE offered == {s \in Scored(gs, q) : OfferedFor(gs, q, s)}
           ranked == SetToSortSeq(offered, LAMBDA a, b : Before(gs, a, b))
           phrases == [i \in 1 .. Cardinality(offered) |-> gs[ranked[i].group].phrase]
           K == {i \in DOMAIN phrases : \A j \in 1 .. i - 1 : phrases[j] # phrases[i]}
           each == Keep(phrases, K)
<1>1. NearestPhrases(gs, q) = SubSeq(each, 1, IF Len(each) < MaxNearest THEN Len(each) ELSE MaxNearest)
  BY Zenon DEF NearestPhrases
<1> HIDE DEF ranked
<1>2. Cardinality(offered) = 0
  BY FS_EmptySet
<1> HIDE DEF offered
<1>3. phrases = <<>>
  BY <1>2
<1> HIDE DEF phrases, K
<1>4. each = <<>>
  BY <1>3, KeepNothing
<1> HIDE DEF each
<1>5. MaxNearest \in Nat
  BY SearchAssumption
<1>6. (IF Len(each) < MaxNearest THEN Len(each) ELSE MaxNearest) = 0
  BY <1>4, <1>5
<1> QED
  BY <1>1, <1>4, <1>6

(* A description that is about something else brings nothing up.           *)
LEMMA OffTopicFindsNothing ==
  ASSUME groups \in Seq(Groups), NEW analysis, NEW a,
         IsOffTopic(groups, analysis.terms), a.terms \in {analysis.terms, {}}, NEW M, NEW type
  PROVE  /\ Hits(a, M, type) = {}
         /\ NearestPhrases(groups, SearchIn(a, M, type)) = <<>>
<1> DEFINE q == SearchIn(a, M, type)
<1>1. q.terms = a.terms
  BY DEF SearchIn
<1>2. Hits(a, M, type) = {}
  BY <1>1, HitsAre DEF Search
<1> HIDE DEF q
<1>3. ASSUME NEW s \in Scored(groups, q), OfferedFor(groups, q, s)
      PROVE  FALSE
  <2>1. PICK g \in Matched(groups, q) : s = ScoreOf(groups, q, g)
    BY <1>3, ScoredIs
  <2>2. a.terms = analysis.terms
    BY <1>1, <2>1 DEF Matched
  <2>3. Distinctive(groups, q.terms \cap groups[g].terms)
    BY <1>1, <1>3, <2>1, <2>2 DEF OfferedFor, IsOffTopic, ScoreOf
  <2>4. Distinctive(groups, analysis.terms)
    BY <1>1, <2>2, <2>3 DEF Distinctive
  <2> QED
    BY <2>4 DEF IsOffTopic
<1>4. NearestPhrases(groups, q) = <<>>
  <2>1. {s \in Scored(groups, q) : OfferedFor(groups, q, s)} = {}
    BY <1>3
  <2> QED
    BY <2>1, NothingOffered
<1> QED
  BY <1>2, <1>4 DEF q
(***************************************************************************)
(* Calls                                                                   *)
(***************************************************************************)
(* What diagnose_symptom hears in a description.                           *)
Heard(q) == Anchored(q, AnalyzeQuery(q.description, TermsOf(groups)))

LEMMA CalledIs ==
  ASSUME NEW own, NEW q
  PROVE  /\ q.tool = "diagnose_error" => Called(own, q) = DiagnoseError(own, q)
         /\ q.tool = "diagnose_symptom" => Called(own, q) = SymptomAnswer(own, q, Heard(q))
         /\ q.tool = "check_warranty" => Called(own, q) = CheckWarranty(own, q)
<1>1. DiagnoseSymptom(own, q) = SymptomAnswer(own, q, Heard(q))
  <2> DEFINE x == AnalyzeQuery(q.description, TermsOf(groups))
  <2>1. DiagnoseSymptom(own, q) = Only({SymptomAnswer(own, q, Anchored(q, analysis)) : analysis \in {x}})
    BY DEF DiagnoseSymptom
  <2>2. Heard(q) = Anchored(q, x)
    BY DEF Heard
  <2> HIDE DEF x
  <2>3. {SymptomAnswer(own, q, Anchored(q, analysis)) : analysis \in {x}} = {SymptomAnswer(own, q, Anchored(q, x))}
    OBVIOUS
  <2> QED
    BY <2>1, <2>2, <2>3, OnlyIs
<1>2. /\ "diagnose_error" # "diagnose_symptom" /\ "diagnose_error" # "check_warranty"
      /\ "diagnose_symptom" # "check_warranty"
  OBVIOUS
<1>3. CASE q.tool = "diagnose_error"
  BY <1>2, <1>3, Zenon DEF Called
<1>4. CASE q.tool = "diagnose_symptom"
  BY <1>1, <1>2, <1>4, Zenon DEF Called
<1>5. CASE q.tool = "check_warranty"
  BY <1>2, <1>5, Zenon DEF Called
<1> QED
  BY <1>2, <1>3, <1>4, <1>5

LEMMA HeardType ==
  ASSUME NEW q, q.description \in Seq(Vocabulary)
  PROVE  LET analysis == AnalyzeQuery(q.description, TermsOf(groups))
         IN  /\ IsFiniteSet(analysis.terms) /\ IsFiniteSet(Heard(q).terms)
             /\ Heard(q).terms \in {analysis.terms, {}}
<1> DEFINE analysis == AnalyzeQuery(q.description, TermsOf(groups))
<1>1. analysis \in Analyses
  BY AnalyzeQueryType
<1>2. Heard(q) = Anchored(q, analysis)
  BY DEF Heard
<1> HIDE DEF analysis
<1>3. analysis \in [terms : SUBSET SaidTerms, negated : BOOLEAN, types : SUBSET SaidTypes] /\ IsFiniteSet(analysis.terms)
  BY <1>1 DEF Analyses
<1>4. Anchored(q, analysis).terms \in {analysis.terms, {}}
  BY <1>3 DEF Anchored
<1>5. IsFiniteSet({})
  BY FS_EmptySet
<1>6. Heard(q).terms \in {analysis.terms, {}} /\ IsFiniteSet(Heard(q).terms)
  BY <1>2, <1>3, <1>4, <1>5
<1> QED
  BY <1>3, <1>6 DEF analysis

(* Only the type and the description are heard.                            *)
LEMMA HeardAlike ==
  ASSUME NEW q, NEW r, r.type = q.type, r.description = q.description, NEW analysis
  PROVE  Heard(r) = Heard(q) /\ TypeMeant(r, analysis) = TypeMeant(q, analysis)
<1>1. TypeMeant(r, analysis) = TypeMeant(q, analysis)
  BY Zenon DEF TypeMeant
<1>2. Heard(r) = Heard(q)
  BY Zenon DEF Heard, Anchored
<1> QED
  BY <1>1, <1>2

LEMMA DatedFields ==
  ASSUME NEW a
  PROVE  /\ Dated(a).id = a.id /\ Dated(a).cites = NoManual /\ Dated(a).registered = None
         /\ Dated(a).choices = {}
         /\ a.end \in Nat /\ today \in Nat => Dated(a).days \in Nat
<1>1. /\ Dated(a).id = a.id /\ Dated(a).cites = NoManual /\ Dated(a).registered = None /\ Dated(a).choices = {}
  BY DEF Dated, Answer, NoManual
<1>2. Dated(a).days = IF a.end = NoEnd THEN 0 ELSE IF a.end >= today THEN a.end - today ELSE today - a.end
  BY DEF Dated, Answer
<1>3. ASSUME a.end \in Nat, today \in Nat
      PROVE  Dated(a).days \in Nat
  BY <1>2, <1>3
<1>4. a.end \in Nat /\ today \in Nat => Dated(a).days \in Nat
  BY <1>3
<1> QED
  BY <1>1, <1>4, Zenon

LEMMA WarrantyCases ==
  ASSUME NEW own, IsFiniteSet(own), NEW q
  PROVE  LET matches == Asked(own, q)
             answer == CheckWarranty(own, q)
         IN  /\ \A a : matches = {a} => answer = Dated(a)
             /\ Several(matches) => answer = Ambiguous({a.id : a \in matches})
             /\ matches = {} => answer = Answer
<1> DEFINE matches == Asked(own, q)
           answer == CheckWarranty(own, q)
<1>1. IsFiniteSet(matches)
  <2>1. matches \subseteq own
    BY DEF Asked
  <2> QED
    BY <2>1, FS_Subset
<1>2. answer =
        CASE Cardinality(matches) = 1 -> Dated(Only(matches))
          [] Cardinality(matches) > 1 -> Ambiguous({a.id : a \in matches})
          [] OTHER -> Answer
  BY Zenon DEF CheckWarranty
<1> HIDE DEF matches, answer
<1>3. /\ matches = {} <=> ~(Cardinality(matches) = 1) /\ ~(Cardinality(matches) > 1)
      /\ Cardinality(matches) = 1 <=> \E x : matches = {x}
      /\ Cardinality(matches) = 1 => ~(Cardinality(matches) > 1)
  BY <1>1, HowMany, Zenon
<1>4. ASSUME NEW a, matches = {a}
      PROVE  answer = Dated(a)
  <2>1. Cardinality(matches) = 1 /\ ~(Cardinality(matches) > 1) /\ Only(matches) = a
    BY <1>3, <1>4, OnlyIs
  <2> QED
    BY <1>2, <2>1, Zenon
<1>5. ASSUME Several(matches)
      PROVE  answer = Ambiguous({a.id : a \in matches})
  <2>1. ~(Cardinality(matches) = 1) /\ Cardinality(matches) > 1
    BY <1>3, <1>5 DEF Several
  <2> QED
    BY <1>2, <2>1, Zenon
<1>6. ASSUME matches = {}
      PROVE  answer = Answer
  <2>1. ~(Cardinality(matches) = 1) /\ ~(Cardinality(matches) > 1)
    BY <1>3, <1>6
  <2> QED
    BY <1>2, <2>1, Zenon
<1> QED
  BY <1>4, <1>5, <1>6, Zenon DEF matches, answer
(***************************************************************************)
(* The catalog                                                             *)
(***************************************************************************)
LEMMA NoManualIsNone ==
  NoManual \notin Manuals
BY CatalogAssumption, Zenon DEF NoManual

LEMMA CatalogType ==
  ASSUME files \in Files
  PROVE  /\ Catalog \in Seq(Entry)
         /\ DOMAIN Catalog = 1 .. Len(Catalog) /\ Len(Catalog) \in Nat
         /\ \A i \in DOMAIN Catalog :
               /\ Catalog[i].manual \in Manuals
               /\ Strip[Catalog[i].brand] = Catalog[i].brand /\ Strip[Catalog[i].model] = Catalog[i].model
         /\ \A i, j \in DOMAIN Catalog : Catalog[i].manual = Catalog[j].manual => i = j
         /\ \A i, j \in DOMAIN Catalog :
               Catalog[i].brand = Catalog[j].brand /\ Catalog[i].model = Catalog[j].model => i = j
<1>1. /\ Catalog \in Seq(Entry)
      /\ \A i, j \in DOMAIN Catalog :
           \/ Catalog[i].manual = Catalog[j].manual
           \/ Catalog[i].brand = Catalog[j].brand /\ Catalog[i].model = Catalog[j].model
           => i = j
      /\ \A e \in ToSet(Catalog) : Strip[e.brand] = e.brand /\ Strip[e.model] = e.model
  BY CatalogAssumption, Zenon DEF Catalog
<1>2. \A e \in Entry : e.manual \in Manuals
  BY DEF Entry
<1>3. DOMAIN Catalog = 1 .. Len(Catalog) /\ Len(Catalog) \in Nat /\ \A i \in DOMAIN Catalog : Catalog[i] \in Entry
  BY <1>1
<1>4. \A i \in DOMAIN Catalog : Catalog[i] \in ToSet(Catalog)
  BY DEF ToSet
<1> QED
  BY <1>1, <1>2, <1>3, <1>4, Zenon

LEMMA ProductIs ==
  ASSUME files \in Files, NEW i \in DOMAIN Catalog
  PROVE  ProductOf(Catalog[i].manual) = Catalog[i]
<1> DEFINE j == CHOOSE j \in DOMAIN Catalog : Catalog[j].manual = Catalog[i].manual
<1>1. j \in DOMAIN Catalog /\ Catalog[j].manual = Catalog[i].manual
  OBVIOUS
<1> HIDE DEF j
<1>2. j = i
  BY <1>1, CatalogType
<1> QED
  BY <1>2 DEF ProductOf, j

InCatalog(m) == \E e \in ToSet(Catalog) : m = e.manual

(* A manual of the catalog is of one product, and of no other.             *)
LEMMA ProductFound ==
  ASSUME files \in Files, NEW m, InCatalog(m)
  PROVE  /\ m \in Manuals
         /\ \E i \in DOMAIN Catalog : Catalog[i].manual = m /\ ProductOf(m) = Catalog[i]
         /\ \A type : TypeOfManual(m, type) => type = ProductOf(m).type
<1>1. \A e \in ToSet(Catalog) : \E i \in DOMAIN Catalog : Catalog[i] = e
  BY DEF ToSet
<1>2. PICK i \in DOMAIN Catalog : Catalog[i].manual = m
  BY <1>1 DEF InCatalog
<1>3. ProductOf(m) = Catalog[i] /\ m \in Manuals
  BY <1>2, ProductIs, CatalogType
<1>4. ASSUME NEW type, TypeOfManual(m, type)
      PROVE  type = ProductOf(m).type
  <2>1. PICK j \in DOMAIN Catalog : Catalog[j].manual = m /\ Catalog[j].type = type
    BY <1>1, <1>4 DEF TypeOfManual
  <2>2. j = i
    BY <1>2, <2>1, CatalogType
  <2> QED
    BY <1>3, <2>1, <2>2
<1> QED
  BY <1>2, <1>3, <1>4

(* The entry for an appliance, in a catalog that may have grown since: the *)
(* appliance has its manual, unless the entry was not there when it was    *)
(* added.                                                                  *)
EntryOf(a, e) == e.brand = Strip[a.brand] /\ e.model = Strip[a.model]

LinkedIn(catalog, a) ==
    /\ a.known \in 0 .. Len(catalog)
    /\ a.manual # NoManual => \E i \in DOMAIN catalog : catalog[i].manual = a.manual /\ EntryOf(a, catalog[i])
    /\ \A i \in 1 .. a.known : EntryOf(a, catalog[i]) => catalog[i].manual = a.manual

LEMMA LinkedAsItGrows ==
  ASSUME NEW s \in Seq(Entry), NEW t \in Seq(Entry), IsPrefix(s, t), NEW a, LinkedIn(s, a)
  PROVE  LinkedIn(t, a)
<1>1. Len(s) \in Nat /\ Len(t) \in Nat /\ DOMAIN s = 1 .. Len(s) /\ DOMAIN t = 1 .. Len(t) /\ Len(s) <= Len(t)
  BY DEF IsPrefix
<1>2. \A i \in 1 .. Len(s) : s[i] = t[i]
  <2>1. SubSeq(s, 1, Len(s)) = SubSeq(t, 1, Len(s))
    BY DEF IsPrefix
  <2>2. ASSUME NEW i \in 1 .. Len(s)
        PROVE  SubSeq(s, 1, Len(s))[i] = s[i] /\ SubSeq(t, 1, Len(s))[i] = t[i]
    BY <1>1, <2>2
  <2> QED
    BY <2>1, <2>2
<1>3. DOMAIN s \subseteq DOMAIN t /\ 0 .. Len(s) \subseteq 0 .. Len(t)
  BY <1>1
<1>4. 1 .. a.known \subseteq 1 .. Len(s)
  BY <1>1 DEF LinkedIn
<1> QED
  BY <1>1, <1>2, <1>3, <1>4 DEF LinkedIn

(* The appliance that a manual is for is linked to it, or was added before.*)
LEMMA LinkedProduct ==
  ASSUME files \in Files, NEW a, LinkedIn(Catalog, a), NEW m, InCatalog(m), IsProduct(a, m)
  PROVE  a.manual = m \/ AddedBefore(a, m)
<1>1. PICK i \in DOMAIN Catalog : Catalog[i].manual = m /\ ProductOf(m) = Catalog[i]
  BY ProductFound
<1>2. EntryOf(a, Catalog[i])
  BY <1>1 DEF EntryOf, IsProduct
<1>3. CASE a.manual # NoManual
  <2>1. PICK j \in DOMAIN Catalog : Catalog[j].manual = a.manual /\ EntryOf(a, Catalog[j])
    BY <1>3 DEF LinkedIn
  <2>2. j = i
    BY <1>2, <2>1, CatalogType DEF EntryOf
  <2> QED
    BY <1>1, <2>1, <2>2
<1>4. CASE a.manual = NoManual
  <2>1. m # NoManual
    BY ProductFound, NoManualIsNone
  <2>2. 1 .. a.known \subseteq DOMAIN Catalog
    BY CatalogType DEF LinkedIn
  <2>3. \A k \in 1 .. a.known : Catalog[k].manual # m
    <3> SUFFICES ASSUME NEW k \in 1 .. a.known, Catalog[k].manual = m
                 PROVE  FALSE
      OBVIOUS
    <3>1. k = i
      BY <1>1, <2>2, CatalogType
    <3> QED
      BY <1>1, <1>2, <1>4, <2>1, <3>1 DEF LinkedIn
  <2> QED
    BY <1>4, <2>3, Zenon DEF AddedBefore, NoManual
<1> QED
  BY <1>3, <1>4

LEMMA ApplianceIs ==
  ASSUME files \in Files, NEW id, NEW p
  PROVE  LET a == Appliance(id, p)
         IN  /\ a.id = id /\ a.brand = p.brand /\ a.model = p.model /\ a.type = Canonical[p.type] /\ a.end = p.end
             /\ LinkedIn(Catalog, a) /\ a.manual \in Manuals \cup {NoManual}
             /\ \A i \in DOMAIN Catalog : EntryOf(p, Catalog[i]) => a.manual = Catalog[i].manual
<1> DEFINE a == Appliance(id, p)
           entries == {i \in DOMAIN Catalog : Catalog[i].brand = Strip[p.brand] /\ Catalog[i].model = Strip[p.model]}
           k == CHOOSE i \in entries : \A j \in entries : i <= j
<1>1. /\ a.id = id /\ a.brand = p.brand /\ a.model = p.model /\ a.type = Canonical[p.type] /\ a.end = p.end
      /\ a.manual = ManualFor(p.brand, p.model) /\ a.known = Len(Catalog)
  BY DEF Appliance
<1>2. ManualFor(p.brand, p.model) = IF entries = {} THEN "" ELSE Catalog[k].manual
  BY Zenon DEF ManualFor
<1>3. ASSUME entries # {}
      PROVE  k \in entries
  <2>1. entries \in SUBSET Nat
    BY CatalogType
  <2> HIDE DEF entries
  <2>2. \E i \in entries : \A j \in entries : i <= j
    BY <1>3, <2>1, LeastExists
  <2> QED
    BY <2>2
<1> HIDE DEF a, k
<1>4. /\ \A i \in DOMAIN Catalog : EntryOf(p, Catalog[i]) <=> i \in entries
      /\ \A i \in DOMAIN Catalog : EntryOf(a, Catalog[i]) <=> i \in entries
  BY <1>1 DEF EntryOf
<1>5. /\ entries # {} => \E i \in entries : a.manual = Catalog[i].manual
      /\ entries = {} => a.manual = NoManual
  BY <1>1, <1>2, <1>3, Zenon DEF NoManual
<1>6. \A i \in entries : a.manual = Catalog[i].manual
  <2>1. \A i, j \in entries : i = j
    BY CatalogType
  <2> QED
    BY <1>5, <2>1
<1>7. a.manual \in Manuals \cup {NoManual}
  BY <1>5, CatalogType
<1>8. LinkedIn(Catalog, a)
  <2>1. a.known \in 0 .. Len(Catalog) /\ 1 .. a.known = DOMAIN Catalog
    BY <1>1, CatalogType
  <2>2. a.manual # NoManual => \E i \in DOMAIN Catalog : Catalog[i].manual = a.manual /\ EntryOf(a, Catalog[i])
    BY <1>4, <1>5
  <2>3. \A i \in 1 .. a.known : EntryOf(a, Catalog[i]) => Catalog[i].manual = a.manual
    BY <1>4, <1>6, <2>1
  <2> QED
    BY <2>1, <2>2, <2>3 DEF LinkedIn
<1> QED
  BY <1>1, <1>4, <1>6, <1>7, <1>8 DEF a

(***************************************************************************)
(* The inductive invariant                                                 *)
(***************************************************************************)
Loaded ==
    /\ files \in Files
    /\ index = LoadIndex(files.codes)
    /\ groups = BuildGroups(files.symptoms)

(* The ids of the household are the seed's and those made so far.          *)
IdsMade == {a.id : a \in Seed} \cup {Ids[i] : i \in 1 .. added}

Stored ==
    /\ IsFiniteSet(owned)
    /\ \A a \in owned : a.id \in IdsMade
    /\ \A a \in owned : a.end \in Nat /\ a.manual \in Manuals \cup {NoManual} /\ LinkedIn(Catalog, a)
    /\ \A a, b \in owned : a.id = b.id => a = b
    /\ added \in 0 .. Len(Ids) /\ today \in 1 .. LastDay

(* An answer is about what is owned and loaded, and of the day.            *)
Answered == said = Silent \/ (said.request \in Requests /\ said.answer = Called(owned, said.request))

ToolsInv == Loaded /\ Stored /\ Answered

LEMMA WhatIsLoaded ==
  ASSUME Loaded
  PROVE  /\ Dedupes(index, ToSet(files.codes)) /\ ToSet(files.codes) \in SUBSET CodeRecords
         /\ index \subseteq CodeRecords /\ IsFiniteSet(index)
         /\ groups \in Seq(Groups) /\ Weighed(groups)
         /\ \A r \in index : InCatalog(r.manual)
<1>1. /\ files.codes \in Seq(CodeRecords)
      /\ files.symptoms \in Seq(SymptomRecords(Manuals))
      /\ \A r \in ToSet(files.codes) : \E e \in ToSet(Catalog) : r.manual = e.manual
      /\ \A r \in ToSet(files.symptoms) : \E e \in ToSet(Catalog) : r.manual = e.manual /\ r.type = e.type
      /\ \A n \in 1 .. Len(files.symptoms) : Idf[n] \in [1 .. n -> Nat]
  BY FilesAssumption, Zenon DEF Loaded, Catalog
<1>2. Dedupes(index, ToSet(files.codes))
  BY <1>1, LoadIndexDedupes DEF Loaded
<1>3. ToSet(files.codes) \in SUBSET CodeRecords /\ IsFiniteSet(ToSet(files.codes))
  <2> DEFINE s == files.codes
  <2>1. DOMAIN s = 1 .. Len(s) /\ Len(s) \in Nat /\ \A i \in 1 .. Len(s) : s[i] \in CodeRecords
    BY <1>1
  <2>2. IsFiniteSet(1 .. Len(s))
    BY <2>1, FS_Interval
  <2>3. ToSet(s) = {s[i] : i \in 1 .. Len(s)}
    BY <2>1 DEF ToSet
  <2> HIDE DEF s
  <2> QED
    BY <2>1, <2>2, <2>3, ImageFinite DEF s
<1>4. index \subseteq CodeRecords /\ IsFiniteSet(index)
  <2>1. index \subseteq ToSet(files.codes)
    BY <1>2 DEF Dedupes
  <2> QED
    BY <1>3, <2>1, FS_Subset
<1>5. files.symptoms \in Seq(Rows)
  <2> DEFINE s == files.symptoms
  <2>1. DOMAIN s = 1 .. Len(s) /\ Len(s) \in Nat /\ \A i \in 1 .. Len(s) : s[i] \in SymptomRecords(Manuals)
    BY <1>1
  <2>2. \A i \in 1 .. Len(s) : s[i] \in ToSet(s)
    BY <2>1 DEF ToSet
  <2>3. \A i \in 1 .. Len(s) : s[i] \in Rows
    BY <1>1, <2>1, <2>2 DEF Rows, TypeOfManual
  <2>4. s \in Seq(SymptomRecords(Manuals))
    BY <1>1
  <2> HIDE DEF s
  <2> QED
    BY <2>3, <2>4 DEF s
<1>6. groups \in Seq(Groups) /\ Len(groups) <= Len(files.symptoms)
  BY <1>5, BuildGroupsType DEF Loaded
<1>7. Weighed(groups)
  <2>1. ASSUME Len(groups) > 0
        PROVE  Idf[Len(groups)] \in [1 .. Len(groups) -> Nat]
    <3>1. Len(groups) \in 1 .. Len(files.symptoms)
      BY <1>1, <1>6, <2>1
    <3> QED
      BY <1>1, <3>1
  <2> QED
    BY <1>6, <2>1 DEF Weighed
<1>8. \A r \in index : InCatalog(r.manual)
  BY <1>1, <1>2 DEF InCatalog, Dedupes
<1> QED
  BY <1>2, <1>3, <1>4, <1>6, <1>7, <1>8

LEMMA IdsAreGiven ==
  ASSUME added \in 0 .. Len(Ids)
  PROVE  /\ IdsMade \subseteq ToSet(Ids) \cup {a.id : a \in Seed}
         /\ None \notin IdsMade /\ "new" \notin IdsMade
<1>1. /\ Ids \in Seq(STRING)
      /\ {"none", "new"} \cap (ToSet(Ids) \cup {a.id : a \in Seed}) = {}
  BY CallsAssumption, Zenon
<1>2. \A i \in 1 .. added : Ids[i] \in ToSet(Ids)
  BY <1>1 DEF ToSet
<1> QED
  BY <1>1, <1>2 DEF IdsMade, None
(***************************************************************************)
(* What is asked                                                           *)
(***************************************************************************)
LEMMA RequestCases ==
  ASSUME NEW q \in Requests
  PROVE  /\ q.tool \in {"diagnose_error", "diagnose_symptom", "check_warranty"}
         /\ q.id \in IdsGiven
         /\ q.tool = "diagnose_error" => q.type = None
         /\ q.tool = "diagnose_symptom" =>
               /\ q.description \in Seq(Vocabulary)
               /\ q.brand = None /\ q.model = None
               /\ q.type # None => q.type \in DOMAIN Canonical
         /\ \A id : LET r == [q EXCEPT !.id = id]
                    IN  /\ r.id = id /\ r.tool = q.tool /\ r.code = q.code
                        /\ r.description = q.description /\ r.household = q.household
                        /\ r.type = q.type /\ r.brand = q.brand /\ r.model = q.model
<1> DEFINE E == [tool : {"diagnose_error"}, code : Codes, description : {<<>>}, household : BOOLEAN,
                 id : IdsGiven, type : {None}, brand : BrandsGiven, model : ModelsGiven]
           S == [tool : {"diagnose_symptom"}, code : {None}, description : Descriptions, household : {TRUE},
                 id : IdsGiven, type : TypesGiven, brand : {None}, model : {None}]
           W == [tool : {"check_warranty"}, code : {None}, description : {<<>>}, household : {TRUE},
                 id : IdsGiven, type : TypesGiven, brand : BrandsGiven, model : ModelsGiven]
<1>1. Descriptions \subseteq Seq(Vocabulary)
  BY CallsAssumption, Zenon
<1>2. \A type \in TypesGiven : type # None => type \in DOMAIN Canonical
  <2>1. Products \subseteq [brand : Names, model : Names, type : DOMAIN Canonical, end : Nat]
    BY HouseholdAssumption, Zenon
  <2>2. \A p \in Products : p.type \in DOMAIN Canonical
    BY <2>1
  <2> QED
    BY <2>2 DEF TypesGiven, Optional
<1>3. q \in E \/ q \in S \/ q \in W
  BY Zenon DEF Requests
<1>4. CASE q \in E
  BY <1>4
<1>5. CASE q \in S
  BY <1>1, <1>2, <1>5
<1>6. CASE q \in W
  BY <1>6
<1> QED
  BY <1>3, <1>4, <1>5, <1>6

(* An appliance that fits what is asked, alone or among others.            *)
LEMMA ResolvedIs ==
  ASSUME NEW own, NEW q, NEW a
  PROVE  a \in Resolved(own, q) <=>
            /\ a \in own
            /\ Given(q.id, a.id) /\ Given(q.brand, a.brand) /\ Given(q.model, a.model)
BY DEF Resolved

LEMMA SymptomMineIs ==
  ASSUME NEW own, NEW q, NEW analysis, NEW a
  PROVE  a \in SymptomMine(own, q, analysis) <=>
            /\ a \in own
            /\ Given(q.id, a.id) /\ Given(q.brand, a.brand) /\ Given(q.model, a.model)
            /\ Given(TypeMeant(q, analysis), a.type)
BY ResolvedIs DEF SymptomMine

LEMMA SymptomHitsAre ==
  ASSUME groups \in Seq(Groups), NEW own, NEW q, NEW analysis, IsFiniteSet(analysis.terms), NEW a
  PROVE  LET mine == SymptomMine(own, q, analysis)
             type == TypeMeant(q, analysis)
         IN  /\ a \in SymptomHits(own, q, analysis) =>
                   /\ a \in mine /\ a.manual \in Manuals
                   /\ a.manual \in Hits(analysis, ManualsOf(mine), type)
             /\ \A M : /\ a \in mine /\ a.manual # NoManual /\ a.manual \in Hits(analysis, M, type)
                       /\ ManualsOf(mine) \cap AllManuals \subseteq M
                       => a \in SymptomHits(own, q, analysis)
<1> DEFINE mine == SymptomMine(own, q, analysis)
           type == TypeMeant(q, analysis)
<1>1. ASSUME a \in SymptomHits(own, q, analysis)
      PROVE  /\ a \in mine /\ a.manual \in Manuals
             /\ a.manual \in Hits(analysis, ManualsOf(mine), type)
  <2>1. a \in mine /\ a.manual \in Hits(analysis, ManualsOf(mine), type)
    BY <1>1 DEF SymptomHits
  <2> HIDE DEF mine, type
  <2>2. a.manual \in Manuals
    BY <2>1, HitsOf
  <2> QED
    BY <2>1, <2>2
<1>2. ASSUME NEW M, a \in mine, a.manual # NoManual, a.manual \in Hits(analysis, M, type),
             ManualsOf(mine) \cap AllManuals \subseteq M
      PROVE  a \in SymptomHits(own, q, analysis)
  <2>1. a.manual \in ManualsOf(mine)
    BY <1>2 DEF ManualsOf
  <2> HIDE DEF mine, type
  <2>2. Hits(analysis, ManualsOf(mine), type) = Hits(analysis, M, type) \cap ManualsOf(mine)
    BY <1>2, HitsNarrow
  <2>3. a.manual \in Hits(analysis, ManualsOf(mine), type)
    BY <1>2, <2>1, <2>2
  <2> QED
    BY <1>2, <2>3 DEF SymptomHits, mine, type
<1> QED
  BY <1>1, <1>2

(* Alone, an appliance is hit as it is among others.                       *)
LEMMA HitAlone ==
  ASSUME groups \in Seq(Groups), NEW own, NEW q, NEW analysis, IsFiniteSet(analysis.terms), NEW a \in own,
         SymptomHits(own, q, analysis) # {}
  PROVE  a \in SymptomHits({a}, q, analysis) <=> a \in SymptomHits(own, q, analysis)
<1> DEFINE mine == SymptomMine(own, q, analysis)
           alone == SymptomMine({a}, q, analysis)
           type == TypeMeant(q, analysis)
<1>1. a \in mine <=> a \in alone
  BY SymptomMineIs
<1>2. alone \subseteq {a} /\ (a \in alone => alone = {a})
  BY SymptomMineIs
<1>3. NoManual \notin Manuals
  BY NoManualIsNone
<1>4. ASSUME a \in SymptomHits(own, q, analysis)
      PROVE  a \in SymptomHits({a}, q, analysis)
  <2>1. a \in mine /\ a.manual \in Manuals /\ a.manual \in Hits(analysis, ManualsOf(mine), type)
    BY <1>4, SymptomHitsAre
  <2>2. ManualsOf(alone) \cap AllManuals \subseteq ManualsOf(mine)
    BY <1>1, <1>2, <2>1 DEF ManualsOf
  <2>3. a \in alone /\ a.manual # NoManual
    BY <1>1, <1>3, <2>1
  <2> QED
    BY <2>1, <2>2, <2>3, SymptomHitsAre, Zenon
<1>5. ASSUME a \in SymptomHits({a}, q, analysis)
      PROVE  a \in SymptomHits(own, q, analysis)
  <2>1. a \in alone /\ a.manual \in Manuals /\ a.manual \in Hits(analysis, ManualsOf(alone), type)
    BY <1>5, SymptomHitsAre
  <2>2. PICK b : b \in SymptomHits(own, q, analysis)
    OBVIOUS
  <2>3. b.manual \in Hits(analysis, ManualsOf(mine), type)
    BY <2>2, SymptomHitsAre
  <2>4. ManualsOf(alone) \cap AllManuals \subseteq ManualsOf(mine)
    BY <1>1, <1>2, <2>1 DEF ManualsOf
  <2> HIDE DEF mine, alone, type
  <2>5. Hits(analysis, ManualsOf(alone), type) = Hits(analysis, ManualsOf(mine), type) \cap ManualsOf(alone)
    BY <2>3, <2>4, HitsNarrow
  <2>6. a \in mine /\ a.manual \in Hits(analysis, ManualsOf(mine), type)
    BY <1>1, <2>1, <2>5
  <2> QED
    BY <2>6 DEF SymptomHits, mine, type
<1> QED
  BY <1>4, <1>5
(***************************************************************************)
(* An appliance is not guessed                                             *)
(***************************************************************************)
LEMMA SymptomAnswered ==
  ASSUME groups \in Seq(Groups), NEW own, IsFiniteSet(own), NEW q, NEW analysis
  PROVE  LET answer == SymptomAnswer(own, q, analysis)
             hits == SymptomHits(own, q, analysis)
         IN  /\ \A a : hits = {a} => answer = Found(a, a.manual)
             /\ ~(\E a : hits = {a}) => answer.id = None /\ answer.registered # "yes"
<1> DEFINE answer == SymptomAnswer(own, q, analysis)
           hits == SymptomHits(own, q, analysis)
           others == SymptomOthers(q, analysis)
<1>1. /\ \A a : hits = {a} => answer = Found(a, a.manual)
      /\ Several(hits) => answer = Ambiguous({a.id : a \in hits})
      /\ \A m : hits = {} /\ others = {m} => answer = Documented(m)
      /\ hits = {} /\ Several(others) => answer = Ambiguous({})
      /\ hits = {} /\ others = {} => answer = SymptomMiss(own, q, analysis)
  BY SymptomCases, Zenon
<1>2. SymptomMiss(own, q, analysis).id = None /\ SymptomMiss(own, q, analysis).registered = None
  BY DEF SymptomMiss, Answer
<1> HIDE DEF answer, hits, others
<1>3. ASSUME ~(\E a : hits = {a})
      PROVE  answer.id = None /\ answer.registered # "yes"
  <2>1. None # "yes" /\ "no" # "yes"
    BY DEF None
  <2>2. CASE Several(hits)
    BY <1>1, <2>1, <2>2, AmbiguousFields
  <2>3. CASE hits = {} /\ Several(others)
    BY <1>1, <2>1, <2>3, AmbiguousFields
  <2>4. CASE hits = {} /\ \E m : others = {m}
    <3>1. PICK m : others = {m}
      BY <2>4
    <3>2. answer = Documented(m)
      BY <1>1, <2>4, <3>1
    <3> QED
      BY <2>1, <3>2, DocumentedFields
  <2>5. CASE hits = {} /\ others = {}
    BY <1>1, <1>2, <2>1, <2>5
  <2> QED
    BY <1>3, <2>2, <2>3, <2>4, <2>5 DEF Several
<1> QED
  BY <1>1, <1>3 DEF answer, hits

LEMMA ErrorAnswered ==
  ASSUME IsFiniteSet(index), NEW own, IsFiniteSet(own), NEW q
  PROVE  LET answer == DiagnoseError(own, q)
             matches == ErrorMatches(own, q)
         IN  /\ \A a : matches = {a} => answer = Found(a, a.manual)
             /\ ~(\E a : matches = {a}) => answer.id = None /\ answer.registered # "yes"
<1> DEFINE answer == DiagnoseError(own, q)
           matches == ErrorMatches(own, q)
           others == ErrorOthers(q)
           miss == CodeNotFound(ErrorMine(own, q), q)
<1>1. /\ \A a : matches = {a} => answer = Found(a, a.manual)
      /\ Several(matches) => answer = Ambiguous({a.id : a \in matches})
      /\ \A m : matches = {} /\ others = {m} => answer = ErrorElse(m, q)
      /\ matches = {} /\ Several(others) => answer = Ambiguous({})
      /\ matches = {} /\ others = {} => answer = miss
  BY ErrorCases, Zenon
<1>2. miss.id = None /\ miss.registered = None
  BY Zenon, AnswerFields DEF CodeNotFound, Answer
<1>3. \A m : ErrorElse(m, q).id = None /\ ErrorElse(m, q).registered \in {None, "no"}
  <2> TAKE m
  <2>1. Documented(m).id = None /\ Documented(m).registered = "no"
    BY DocumentedFields
  <2>2. LET x == [Documented(m) EXCEPT !.registered = None, !.suggests = FALSE]
        IN  x.id = None /\ x.registered = None
    BY DEF Documented, Answer
  <2> QED
    BY <2>1, <2>2 DEF ErrorElse
<1> HIDE DEF answer, matches, others, miss
<1>4. ASSUME ~(\E a : matches = {a})
      PROVE  answer.id = None /\ answer.registered # "yes"
  <2>1. None # "yes" /\ "no" # "yes"
    BY DEF None
  <2>2. CASE Several(matches)
    BY <1>1, <2>1, <2>2, AmbiguousFields
  <2>3. CASE matches = {} /\ Several(others)
    BY <1>1, <2>1, <2>3, AmbiguousFields
  <2>4. CASE matches = {} /\ \E m : others = {m}
    <3>1. PICK m : others = {m}
      BY <2>4
    <3> QED
      BY <1>1, <1>3, <2>1, <2>4, <3>1
  <2>5. CASE matches = {} /\ others = {}
    BY <1>1, <1>2, <2>1, <2>5
  <2> QED
    BY <1>4, <2>2, <2>3, <2>4, <2>5 DEF Several
<1> QED
  BY <1>1, <1>4 DEF answer, matches

LEMMA WarrantyAnswered ==
  ASSUME NEW own, IsFiniteSet(own), NEW q
  PROVE  LET answer == CheckWarranty(own, q)
             matches == Asked(own, q)
         IN  /\ \A a : matches = {a} => answer = Dated(a)
             /\ ~(\E a : matches = {a}) => answer.id = None
             /\ answer.registered = None
<1> DEFINE answer == CheckWarranty(own, q)
           matches == Asked(own, q)
<1>1. /\ \A a : matches = {a} => answer = Dated(a)
      /\ Several(matches) => answer = Ambiguous({a.id : a \in matches})
      /\ matches = {} => answer = Answer
  BY WarrantyCases, Zenon
<1> HIDE DEF answer, matches
<1>2. ASSUME NEW a, matches = {a}
      PROVE  answer.registered = None
  BY <1>1, <1>2, DatedFields
<1>3. ASSUME Several(matches)
      PROVE  answer.id = None /\ answer.registered = None
  BY <1>1, <1>3, AmbiguousFields
<1>4. ASSUME matches = {}
      PROVE  answer.id = None /\ answer.registered = None
  BY <1>1, <1>4, AnswerFields
<1>5. /\ ~(\E a : matches = {a}) => answer.id = None
      /\ answer.registered = None
  BY <1>2, <1>3, <1>4 DEF Several
<1> QED
  BY <1>1, <1>5, Zenon DEF answer, matches
(* The appliances that fit the request, and that the tool would answer for *)
(* if they were the only one.                                              *)
Asking(b, q) ==
    /\ IF q.tool = "check_warranty" /\ q.id # None THEN b.id = q.id ELSE Fits(b, q)
    /\ Documents(b, q)

(* Whom a symptom's answer is given for.                                   *)
LEMMA SymptomAsking ==
  ASSUME Loaded, Stored, NEW q \in Requests, q.tool = "diagnose_symptom", NEW a,
         SymptomHits(owned, q, Heard(q)) = {a}
  PROVE  {b \in owned : Asking(b, q)} = {a}
<1> DEFINE x == Heard(q)
           type == TypeMeant(q, x)
<1>1. groups \in Seq(Groups)
  BY WhatIsLoaded
<1>2. /\ q.description \in Seq(Vocabulary) /\ q.brand = None /\ q.model = None
      /\ q.type # None => q.type \in DOMAIN Canonical
  BY RequestCases
<1>3. IsFiniteSet(x.terms)
  BY <1>2, HeardType
<1>4. q.type # None => type = Canonical[q.type] /\ type # None
  <2>1. \A t \in DOMAIN Canonical : Canonical[t] # None
    BY HouseholdAssumption, Zenon DEF None
  <2> QED
    BY <1>2, <2>1 DEF TypeMeant
<1> HIDE DEF x
<1>5. \A b \in owned : Documents(b, q) <=> b \in SymptomHits({b}, q, x)
  <2> TAKE b \in owned
  <2>1. Called({b}, q) = SymptomAnswer({b}, q, x)
    BY CalledIs DEF x
  <2>2. IsFiniteSet({b})
    BY FS_Singleton
  <2>3. SymptomHits({b}, q, x) \subseteq {b}
    BY SymptomMineIs, SymptomHitsAre, <1>1, <1>3
  <2>4. ASSUME b \in SymptomHits({b}, q, x)
        PROVE  SymptomAnswer({b}, q, x).registered = "yes"
    <3>1. SymptomHits({b}, q, x) = {b}
      BY <2>3, <2>4
    <3>2. \A c : SymptomHits({b}, q, x) = {c} => SymptomAnswer({b}, q, x) = Found(c, c.manual)
      BY <1>1, <2>2, SymptomAnswered
    <3>3. SymptomAnswer({b}, q, x) = Found(b, b.manual)
      BY <3>1, <3>2
    <3> QED
      BY <3>3, FoundFields
  <2>5. ASSUME b \notin SymptomHits({b}, q, x)
        PROVE  SymptomAnswer({b}, q, x).registered # "yes"
    <3>1. ~(\E c : SymptomHits({b}, q, x) = {c})
      BY <2>3, <2>5
    <3> QED
      BY <1>1, <2>2, <3>1, SymptomAnswered, Zenon
  <2>6. "diagnose_symptom" # "check_warranty"
    OBVIOUS
  <2> QED
    BY <2>1, <2>4, <2>5, <2>6 DEF Documents
<1>6. \A b \in owned : b \in SymptomHits({b}, q, x) <=> b \in SymptomHits(owned, q, x)
  <2> TAKE b \in owned
  <2>1. SymptomHits(owned, q, x) # {}
    BY DEF x
  <2> QED
    BY <1>1, <1>3, <2>1, HitAlone
<1>7. a \in owned /\ Fits(a, q)
  <2>1. a \in SymptomMine(owned, q, x)
    BY <1>1, <1>3, SymptomHitsAre DEF x
  <2>2. a \in owned /\ Given(q.id, a.id) /\ Given(q.brand, a.brand) /\ Given(q.model, a.model) /\ Given(type, a.type)
    BY <2>1, SymptomMineIs
  <2>3. GivenType(q.type, a)
    BY <1>4, <2>2 DEF GivenType, Given
  <2> QED
    BY <2>2, <2>3 DEF Fits
<1>8. \A b \in owned : Asking(b, q) <=> b = a
  <2>1. SymptomHits(owned, q, x) = {a}
    BY DEF x
  <2>2. "diagnose_symptom" # "check_warranty"
    OBVIOUS
  <2>3. \A b : Asking(b, q) <=> Fits(b, q) /\ Documents(b, q)
    BY <2>2 DEF Asking
  <2> QED
    BY <1>5, <1>6, <1>7, <2>1, <2>3
<1> QED
  BY <1>7, <1>8

LEMMA ErrorMatchesAre ==
  ASSUME NEW own, NEW q, NEW a
  PROVE  a \in ErrorMatches(own, q) <=>
            /\ a \in own /\ q.household
            /\ Given(q.id, a.id) /\ Given(q.brand, a.brand) /\ Given(q.model, a.model)
            /\ \E r \in index : r.manual = a.manual /\ r.code = q.code /\ IsLookupable(r)
<1>1. ItsManual(a, ByCode(index, q.code)) <=>
        \E r \in index : r.manual = a.manual /\ r.code = q.code /\ IsLookupable(r)
  BY DEF ItsManual, ByCode
<1>2. a \in ErrorMine(own, q) <=> q.household /\ a \in Resolved(own, q)
  BY DEF ErrorMine
<1> QED
  BY <1>1, <1>2, ResolvedIs DEF ErrorMatches

LEMMA ErrorAsking ==
  ASSUME Loaded, Stored, NEW q \in Requests, q.tool = "diagnose_error", NEW a,
         ErrorMatches(owned, q) = {a}
  PROVE  {b \in owned : Asking(b, q)} = {a}
<1>1. IsFiniteSet(index)
  BY WhatIsLoaded
<1>2. q.type = None
  BY RequestCases
<1>3. \A b \in owned : b \in ErrorMatches({b}, q) <=> b \in ErrorMatches(owned, q)
  BY ErrorMatchesAre
<1>4. \A b \in owned : Documents(b, q) <=> b \in ErrorMatches({b}, q)
  <2> TAKE b \in owned
  <2>1. Called({b}, q) = DiagnoseError({b}, q)
    BY CalledIs
  <2>2. IsFiniteSet({b})
    BY FS_Singleton
  <2>3. ErrorMatches({b}, q) \subseteq {b}
    BY ErrorMatchesAre
  <2>4. ASSUME b \in ErrorMatches({b}, q)
        PROVE  DiagnoseError({b}, q).registered = "yes"
    <3>1. ErrorMatches({b}, q) = {b}
      BY <2>3, <2>4
    <3>2. DiagnoseError({b}, q) = Found(b, b.manual)
      BY <1>1, <2>2, <3>1, ErrorAnswered, Zenon
    <3> QED
      BY <3>2, FoundFields
  <2>5. ASSUME b \notin ErrorMatches({b}, q)
        PROVE  DiagnoseError({b}, q).registered # "yes"
    <3>1. ~(\E c : ErrorMatches({b}, q) = {c})
      BY <2>3, <2>5
    <3> QED
      BY <1>1, <2>2, <3>1, ErrorAnswered, Zenon
  <2>6. "diagnose_error" # "check_warranty"
    OBVIOUS
  <2> QED
    BY <2>1, <2>4, <2>5, <2>6 DEF Documents
<1>5. a \in owned /\ Fits(a, q)
  BY <1>2, ErrorMatchesAre DEF Fits, GivenType
<1>6. \A b \in owned : Asking(b, q) <=> b = a
  <2>1. "diagnose_error" # "check_warranty"
    OBVIOUS
  <2>2. \A b : Asking(b, q) <=> Fits(b, q) /\ Documents(b, q)
    BY <2>1 DEF Asking
  <2> QED
    BY <1>3, <1>4, <1>5, <2>2
<1> QED
  BY <1>5, <1>6

LEMMA WarrantyAsking ==
  ASSUME NEW q, q.tool = "check_warranty", NEW own
  PROVE  {b \in own : Asking(b, q)} = Asked(own, q)
<1>1. \A b : Documents(b, q)
  BY DEF Documents
<1>2. CASE q.id # None
  BY <1>1, <1>2 DEF Asking, Asked
<1>3. CASE q.id = None
  BY <1>1, <1>3 DEF Asking, Asked, Fits, Given
<1> QED
  BY <1>2, <1>3

LEMMA AnswersAreNotGuessed ==
  ASSUME ToolsInv
  PROVE  NeverGuessed
<1> DEFINE q == said.request
           answer == said.answer
<1> SUFFICES ASSUME answer.id # None
             PROVE  \E a \in owned :
                        /\ a.id = answer.id
                        /\ {b \in owned : Asking(b, q)} = {a}
                        /\ q.tool # "check_warranty" => answer.cites = a.manual
                        /\ q.tool = "diagnose_error" =>
                              \E r \in ToSet(files.codes) : r.manual = a.manual /\ r.code = q.code
  BY DEF NeverGuessed, Asking
<1>0. Loaded /\ Stored /\ groups \in Seq(Groups) /\ IsFiniteSet(index) /\ IsFiniteSet(owned)
  BY WhatIsLoaded DEF ToolsInv, Stored
<1>1. q \in Requests /\ answer = Called(owned, q)
  <2>1. CASE said = Silent
    BY <2>1, AnswerFields DEF Silent
  <2> QED
    BY <2>1 DEF ToolsInv, Answered
<1> HIDE DEF q, answer
<1>2. CASE q.tool = "diagnose_symptom"
  <2>1. answer = SymptomAnswer(owned, q, Heard(q))
    BY <1>1, <1>2, CalledIs
  <2>2. PICK a : SymptomHits(owned, q, Heard(q)) = {a}
    BY <1>0, <2>1, SymptomAnswered
  <2>3. answer = Found(a, a.manual)
    BY <1>0, <2>1, <2>2, SymptomAnswered
  <2>4. {b \in owned : Asking(b, q)} = {a}
    BY <1>0, <1>1, <1>2, <2>2, SymptomAsking
  <2>5. a \in owned /\ answer.id = a.id /\ answer.cites = a.manual
    BY <2>3, <2>4, FoundFields
  <2>6. "diagnose_symptom" # "diagnose_error"
    OBVIOUS
  <2> QED
    BY <1>2, <2>4, <2>5, <2>6
<1>3. CASE q.tool = "diagnose_error"
  <2>1. answer = DiagnoseError(owned, q)
    BY <1>1, <1>3, CalledIs
  <2>2. PICK a : ErrorMatches(owned, q) = {a}
    BY <1>0, <2>1, ErrorAnswered
  <2>3. answer = Found(a, a.manual)
    BY <1>0, <2>1, <2>2, ErrorAnswered
  <2>4. {b \in owned : Asking(b, q)} = {a}
    BY <1>0, <1>1, <1>3, <2>2, ErrorAsking
  <2>5. a \in owned /\ answer.id = a.id /\ answer.cites = a.manual
    BY <2>3, <2>4, FoundFields
  <2>6. \E r \in ToSet(files.codes) : r.manual = a.manual /\ r.code = q.code
    <3>1. index \subseteq ToSet(files.codes)
      BY <1>0, WhatIsLoaded DEF Dedupes
    <3>2. a \in ErrorMatches(owned, q)
      BY <2>2
    <3>3. \E r \in index : r.manual = a.manual /\ r.code = q.code
      BY <3>2, ErrorMatchesAre
    <3> QED
      BY <3>1, <3>3
  <2> QED
    BY <2>4, <2>5, <2>6
<1>4. CASE q.tool = "check_warranty"
  <2>1. answer = CheckWarranty(owned, q)
    BY <1>1, <1>4, CalledIs
  <2>2. PICK a : Asked(owned, q) = {a}
    BY <1>0, <2>1, WarrantyAnswered
  <2>3. answer = Dated(a)
    BY <1>0, <2>1, <2>2, WarrantyAnswered
  <2>4. {b \in owned : Asking(b, q)} = {a}
    BY <1>4, <2>2, WarrantyAsking
  <2>5. a \in owned /\ answer.id = a.id
    BY <2>3, <2>4, DatedFields
  <2>6. "check_warranty" # "diagnose_error"
    OBVIOUS
  <2> QED
    BY <1>4, <2>4, <2>5, <2>6
<1> QED
  BY <1>1, <1>2, <1>3, <1>4, RequestCases
(***************************************************************************)
(* An appliance that is registered is not said to be another one           *)
(***************************************************************************)
(* When an appliance is said not to be registered, the manual that is      *)
(* cited is the only one that answers.                                     *)
LEMMA SaidUnregistered ==
  ASSUME Loaded, Stored, NEW q \in Requests, Called(owned, q).registered = "no"
  PROVE  LET m == Called(owned, q).cites
         IN  /\ m \in Manuals /\ InCatalog(m)
             /\ \/ /\ q.tool = "diagnose_symptom"
                   /\ SymptomHits(owned, q, Heard(q)) = {} /\ SymptomOthers(q, Heard(q)) = {m}
                \/ /\ q.tool = "diagnose_error" /\ q.household
                   /\ ErrorMatches(owned, q) = {} /\ ErrorOthers(q) = {m}
<1> DEFINE answer == Called(owned, q)
<1>0. groups \in Seq(Groups) /\ IsFiniteSet(index) /\ IsFiniteSet(owned) /\ index \subseteq CodeRecords
  BY WhatIsLoaded DEF Stored
<1>1. None # "no" /\ "yes" # "no"
  BY DEF None
<1>2. CASE q.tool = "diagnose_symptom"
  <2> DEFINE hits == SymptomHits(owned, q, Heard(q))
             others == SymptomOthers(q, Heard(q))
             miss == SymptomMiss(owned, q, Heard(q))
  <2>0. answer = SymptomAnswer(owned, q, Heard(q))
    BY <1>2, CalledIs
  <2>1. /\ \A a : hits = {a} => answer = Found(a, a.manual)
        /\ Several(hits) => answer = Ambiguous({a.id : a \in hits})
        /\ \A m : hits = {} /\ others = {m} => answer = Documented(m)
        /\ hits = {} /\ Several(others) => answer = Ambiguous({})
        /\ hits = {} /\ others = {} => answer = miss
    BY <1>0, <2>0, SymptomCases, Zenon
  <2>2. miss.registered = None
    BY DEF SymptomMiss, Answer
  <2>3. answer.registered = "no"
    OBVIOUS
  <2> HIDE DEF answer, hits, others, miss
  <2>4. hits = {}
    <3>1. \A a : hits # {a}
      BY <1>1, <2>1, <2>3, FoundFields
    <3>2. ~Several(hits)
      BY <1>1, <2>1, <2>3, AmbiguousFields
    <3> QED
      BY <3>1, <3>2 DEF Several
  <2>5. PICK m : others = {m}
    <3>1. others # {}
      BY <1>1, <2>1, <2>2, <2>3, <2>4
    <3>2. ~Several(others)
      BY <1>1, <2>1, <2>3, <2>4, AmbiguousFields
    <3> QED
      BY <3>1, <3>2 DEF Several
  <2>6. answer.cites = m
    BY <2>1, <2>4, <2>5, DocumentedFields
  <2>7. m \in Manuals /\ InCatalog(m)
    BY <1>0, <2>5, HitsOf DEF SymptomOthers, others, InCatalog
  <2> QED
    BY <1>2, <2>4, <2>5, <2>6, <2>7 DEF answer, hits, others
<1>3. CASE q.tool = "diagnose_error"
  <2> DEFINE matches == ErrorMatches(owned, q)
             others == ErrorOthers(q)
             miss == CodeNotFound(ErrorMine(owned, q), q)
  <2>0. answer = DiagnoseError(owned, q)
    BY <1>3, CalledIs
  <2>1. /\ \A a : matches = {a} => answer = Found(a, a.manual)
        /\ Several(matches) => answer = Ambiguous({a.id : a \in matches})
        /\ \A m : matches = {} /\ others = {m} => answer = ErrorElse(m, q)
        /\ matches = {} /\ Several(others) => answer = Ambiguous({})
        /\ matches = {} /\ others = {} => answer = miss
    BY <1>0, <2>0, ErrorCases, Zenon
  <2>2. miss.registered = None
    BY Zenon, AnswerFields DEF CodeNotFound, Answer
  <2>3. answer.registered = "no"
    OBVIOUS
  <2> HIDE DEF answer, matches, others, miss
  <2>4. matches = {}
    <3>1. \A a : matches # {a}
      BY <1>1, <2>1, <2>3, FoundFields
    <3>2. ~Several(matches)
      BY <1>1, <2>1, <2>3, AmbiguousFields
    <3> QED
      BY <3>1, <3>2 DEF Several
  <2>5. PICK m : others = {m}
    <3>1. others # {}
      BY <1>1, <2>1, <2>2, <2>3, <2>4
    <3>2. ~Several(others)
      BY <1>1, <2>1, <2>3, <2>4, AmbiguousFields
    <3> QED
      BY <3>1, <3>2 DEF Several
  <2>6. answer = ErrorElse(m, q)
    BY <2>1, <2>4, <2>5
  <2>7. q.household /\ answer.cites = m
    <3>1. [Documented(m) EXCEPT !.registered = None, !.suggests = FALSE].registered = None
      BY DEF Documented, Answer
    <3>2. q.household
      BY <1>1, <2>3, <2>6, <3>1 DEF ErrorElse
    <3> QED
      BY <2>6, <3>2, DocumentedFields DEF ErrorElse
  <2>8. m \in Manuals /\ InCatalog(m)
    <3>1. PICK r \in index : m = r.manual
      BY <2>5 DEF others, ErrorOthers, Unowned, ByCode
    <3> QED
      BY <1>0, <3>1, WhatIsLoaded DEF CodeRecords
  <2> QED
    BY <1>3, <2>4, <2>5, <2>7, <2>8 DEF answer, matches, others
<1>4. CASE q.tool = "check_warranty"
  <2>1. answer.registered = None
    BY <1>0, <1>4, CalledIs, WarrantyAnswered
  <2> QED
    BY <1>1, <2>1
<1> QED
  BY <1>2, <1>3, <1>4, RequestCases

(* An appliance whose manual is cited for another one fits the request,    *)
(* unless the request's id, or its type or names, are against it.          *)
LEMMA RegisteredFits ==
  ASSUME Loaded, NEW q, NEW a, NEW m, InCatalog(m), a.manual = m, Given(q.id, a.id)
  PROVE  /\ /\ q.brand = None /\ q.model = None /\ m \in SymptomOthers(q, Heard(q))
            /\ a.type = ProductOf(m).type
            => Given(q.id, a.id) /\ Given(q.brand, a.brand) /\ Given(q.model, a.model)
               /\ Given(TypeMeant(q, Heard(q)), a.type)
         /\ /\ m \in ErrorOthers(q)
            /\ Given(q.brand, None) \/ a.brand = ProductOf(m).brand
            /\ Given(q.model, None) \/ a.model = ProductOf(m).model
            => /\ Given(q.id, a.id) /\ Given(q.brand, a.brand) /\ Given(q.model, a.model)
               /\ \E r \in index : r.manual = a.manual /\ r.code = q.code /\ IsLookupable(r)
<1>1. groups \in Seq(Groups) /\ files \in Files
  BY WhatIsLoaded DEF Loaded
<1>2. \A type : TypeOfManual(m, type) => type = ProductOf(m).type
  BY <1>1, ProductFound
<1>3. ASSUME q.brand = None, q.model = None, m \in SymptomOthers(q, Heard(q)), a.type = ProductOf(m).type
      PROVE  Given(q.brand, a.brand) /\ Given(q.model, a.model) /\ Given(TypeMeant(q, Heard(q)), a.type)
  <2>1. TypeMeant(q, Heard(q)) = None \/ TypeOfManual(m, TypeMeant(q, Heard(q)))
    BY <1>1, <1>3, HitsOf DEF SymptomOthers
  <2> QED
    BY <1>2, <1>3, <2>1 DEF Given
<1>4. ASSUME m \in ErrorOthers(q),
             Given(q.brand, None) \/ a.brand = ProductOf(m).brand,
             Given(q.model, None) \/ a.model = ProductOf(m).model
      PROVE  /\ Given(q.brand, a.brand) /\ Given(q.model, a.model)
             /\ \E r \in index : r.manual = a.manual /\ r.code = q.code /\ IsLookupable(r)
  <2>1. /\ Given(q.brand, ProductOf(m).brand) /\ Given(q.model, ProductOf(m).model)
        /\ \E r \in ByCode(index, q.code) : m = r.manual
    BY <1>4 DEF ErrorOthers, Unowned
  <2>2. \E r \in index : r.manual = a.manual /\ r.code = q.code /\ IsLookupable(r)
    BY <2>1 DEF ByCode
  <2> QED
    BY <1>4, <2>1, <2>2 DEF Given
<1> QED
  BY <1>3, <1>4

LEMMA DisownedForCause ==
  ASSUME ToolsInv
  PROVE  DisownedOnlyForCause
<1> DEFINE q == said.request
           answer == said.answer
           m == answer.cites
<1> SUFFICES ASSUME answer.registered = "no",
                    NEW a \in owned, IsProduct(a, m), Given(q.id, a.id), ~AddedBefore(a, m), ~PaddedFor(a, q),
                    q.tool = "diagnose_symptom" => a.type = ProductOf(m).type
             PROVE  FALSE
  BY DEF DisownedOnlyForCause
<1>0. Loaded /\ Stored /\ groups \in Seq(Groups) /\ files \in Files /\ LinkedIn(Catalog, a)
  BY WhatIsLoaded DEF ToolsInv, Stored, Loaded
<1>1. q \in Requests /\ answer = Called(owned, q)
  <2>1. None # "no"
    BY DEF None
  <2>2. CASE said = Silent
    BY <2>1, <2>2, AnswerFields DEF Silent
  <2> QED
    BY <2>2 DEF ToolsInv, Answered
<1> HIDE DEF q, answer
<1>2. /\ m \in Manuals /\ InCatalog(m)
      /\ \/ /\ q.tool = "diagnose_symptom"
            /\ SymptomHits(owned, q, Heard(q)) = {} /\ SymptomOthers(q, Heard(q)) = {m}
         \/ /\ q.tool = "diagnose_error" /\ q.household
            /\ ErrorMatches(owned, q) = {} /\ ErrorOthers(q) = {m}
  BY <1>0, <1>1, SaidUnregistered
<1> HIDE DEF m
<1>3. a.manual = m
  BY <1>0, <1>2, LinkedProduct
<1>4. CASE q.tool = "diagnose_symptom" /\ SymptomHits(owned, q, Heard(q)) = {} /\ SymptomOthers(q, Heard(q)) = {m}
  <2>1. q.brand = None /\ q.model = None /\ IsFiniteSet(Heard(q).terms)
    BY <1>1, <1>4, RequestCases, HeardType
  <2>2. a \in SymptomMine(owned, q, Heard(q))
    BY <1>0, <1>2, <1>3, <1>4, <2>1, RegisteredFits, SymptomMineIs
  <2>3. m \in Hits(Heard(q), AllManuals, TypeMeant(q, Heard(q)))
    BY <1>4 DEF SymptomOthers
  <2>4. m # NoManual
    BY <1>2, NoManualIsNone
  <2>5. a \in SymptomHits(owned, q, Heard(q))
    BY <1>0, <1>3, <2>1, <2>2, <2>3, <2>4, SymptomHitsAre
  <2> QED
    BY <1>4, <2>5
<1>5. CASE q.household /\ ErrorMatches(owned, q) = {} /\ ErrorOthers(q) = {m}
  <2>1. /\ Given(q.brand, None) \/ a.brand = ProductOf(m).brand
        /\ Given(q.model, None) \/ a.model = ProductOf(m).model
    BY DEF PaddedFor, IsProduct, Given
  <2>2. /\ Given(q.id, a.id) /\ Given(q.brand, a.brand) /\ Given(q.model, a.model)
        /\ \E r \in index : r.manual = a.manual /\ r.code = q.code /\ IsLookupable(r)
    BY <1>0, <1>2, <1>3, <1>5, <2>1, RegisteredFits
  <2>3. a \in ErrorMatches(owned, q)
    BY <1>5, <2>2, ErrorMatchesAre
  <2> QED
    BY <1>5, <2>3
<1> QED
  BY <1>2, <1>4, <1>5
(***************************************************************************)
(* What is proposed works                                                  *)
(***************************************************************************)
LEMMA ChoicesAre ==
  ASSUME Loaded, Stored, NEW q \in Requests, NEW id \in Called(owned, q).choices
  PROVE  \E a \in owned :
            /\ a.id = id
            /\ q.tool = "diagnose_symptom" => a \in SymptomHits(owned, q, Heard(q))
            /\ q.tool = "diagnose_error" => a \in ErrorMatches(owned, q)
<1> DEFINE answer == Called(owned, q)
<1>0. groups \in Seq(Groups) /\ IsFiniteSet(index) /\ IsFiniteSet(owned)
  BY WhatIsLoaded DEF Stored
<1>d. /\ "diagnose_error" # "diagnose_symptom" /\ "diagnose_error" # "check_warranty"
      /\ "diagnose_symptom" # "check_warranty"
  OBVIOUS
<1>1. CASE q.tool = "diagnose_symptom"
  <2> DEFINE hits == SymptomHits(owned, q, Heard(q))
             others == SymptomOthers(q, Heard(q))
             miss == SymptomMiss(owned, q, Heard(q))
  <2>0. answer = SymptomAnswer(owned, q, Heard(q))
    BY <1>1, CalledIs
  <2>1. /\ \A a : hits = {a} => answer = Found(a, a.manual)
        /\ Several(hits) => answer = Ambiguous({a.id : a \in hits})
        /\ \A m : hits = {} /\ others = {m} => answer = Documented(m)
        /\ hits = {} /\ Several(others) => answer = Ambiguous({})
        /\ hits = {} /\ others = {} => answer = miss
    BY <1>0, <2>0, SymptomCases, Zenon
  <2>2. miss.choices = {}
    BY DEF SymptomMiss, Answer
  <2>3. id \in answer.choices
    OBVIOUS
  <2>4. \A a \in hits : a \in owned
    BY SymptomMineIs DEF SymptomHits
  <2> HIDE DEF answer, hits, others, miss
  <2>5. \A a : hits # {a}
    BY <2>1, <2>3, FoundFields
  <2>6. hits # {}
    <3> SUFFICES ASSUME hits = {}
                 PROVE  FALSE
      OBVIOUS
    <3>1. \A m : others # {m}
      BY <2>1, <2>3, DocumentedFields
    <3>2. ~Several(others)
      BY <2>1, <2>3, AmbiguousFields
    <3> QED
      BY <2>1, <2>2, <2>3, <3>1, <3>2 DEF Several
  <2>7. answer.choices = {a.id : a \in hits}
    BY <2>1, <2>5, <2>6, AmbiguousFields DEF Several
  <2> QED
    BY <1>1, <1>d, <2>3, <2>4, <2>7 DEF hits
<1>2. CASE q.tool = "diagnose_error"
  <2> DEFINE matches == ErrorMatches(owned, q)
             others == ErrorOthers(q)
             miss == CodeNotFound(ErrorMine(owned, q), q)
  <2>0. answer = DiagnoseError(owned, q)
    BY <1>2, CalledIs
  <2>1. /\ \A a : matches = {a} => answer = Found(a, a.manual)
        /\ Several(matches) => answer = Ambiguous({a.id : a \in matches})
        /\ \A m : matches = {} /\ others = {m} => answer = ErrorElse(m, q)
        /\ matches = {} /\ Several(others) => answer = Ambiguous({})
        /\ matches = {} /\ others = {} => answer = miss
    BY <1>0, <2>0, ErrorCases, Zenon
  <2>2. miss.choices = {}
    BY Zenon, AnswerFields DEF CodeNotFound, Answer
  <2>3. id \in answer.choices
    OBVIOUS
  <2>4. \A a \in matches : a \in owned
    BY ErrorMatchesAre
  <2>5. \A m : ErrorElse(m, q).choices = {}
    <3> TAKE m
    <3>1. [Documented(m) EXCEPT !.registered = None, !.suggests = FALSE].choices = {}
      BY DEF Documented, Answer
    <3> QED
      BY <3>1, DocumentedFields DEF ErrorElse
  <2> HIDE DEF answer, matches, others, miss
  <2>6. \A a : matches # {a}
    BY <2>1, <2>3, FoundFields
  <2>7. matches # {}
    <3> SUFFICES ASSUME matches = {}
                 PROVE  FALSE
      OBVIOUS
    <3>1. \A m : others # {m}
      BY <2>1, <2>3, <2>5
    <3>2. ~Several(others)
      BY <2>1, <2>3, AmbiguousFields
    <3> QED
      BY <2>1, <2>2, <2>3, <3>1, <3>2 DEF Several
  <2>8. answer.choices = {a.id : a \in matches}
    BY <2>1, <2>6, <2>7, AmbiguousFields DEF Several
  <2> QED
    BY <1>2, <1>d, <2>3, <2>4, <2>8 DEF matches
<1>3. CASE q.tool = "check_warranty"
  <2> DEFINE matches == Asked(owned, q)
  <2>0. answer = CheckWarranty(owned, q)
    BY <1>3, CalledIs
  <2>1. /\ \A a : matches = {a} => answer = Dated(a)
        /\ Several(matches) => answer = Ambiguous({a.id : a \in matches})
        /\ matches = {} => answer = Answer
    BY <1>0, <2>0, WarrantyCases, Zenon
  <2>2. id \in answer.choices
    OBVIOUS
  <2>3. \A a \in matches : a \in owned
    BY DEF Asked
  <2> HIDE DEF answer, matches
  <2>4. \A a : matches # {a}
    BY <2>1, <2>2, DatedFields
  <2>5. matches # {}
    BY <2>1, <2>2, AnswerFields
  <2>6. answer.choices = {a.id : a \in matches}
    BY <2>1, <2>4, <2>5, AmbiguousFields DEF Several
  <2> QED
    BY <1>3, <1>d, <2>2, <2>3, <2>6
<1> QED
  BY <1>1, <1>2, <1>3, RequestCases

(* One of them that is still there, named by its id, is answered for,      *)
(* whatever else there is by then.                                         *)
LEMMA ChoicesWork ==
  ASSUME Loaded, Stored, NEW q \in Requests, NEW id \in Called(owned, q).choices,
         NEW own, IsFiniteSet(own), \E b \in own : b.id = id, \A b \in own : b.id = id => b \in owned
  PROVE  Called(own, [q EXCEPT !.id = id]).id = id
<1> DEFINE r == [q EXCEPT !.id = id]
<1>0. groups \in Seq(Groups) /\ IsFiniteSet(index) /\ IsFiniteSet(owned)
  BY WhatIsLoaded DEF Stored
<1>1. PICK a \in owned :
        /\ a.id = id
        /\ q.tool = "diagnose_symptom" => a \in SymptomHits(owned, q, Heard(q))
        /\ q.tool = "diagnose_error" => a \in ErrorMatches(owned, q)
  BY ChoicesAre
<1>2. id # None /\ a \in own /\ \A b \in own : b.id = id => b = a
  <2>1. added \in 0 .. Len(Ids) /\ a.id \in IdsMade /\ \A b \in owned : b.id = a.id => b = a
    BY DEF Stored
  <2> QED
    BY <1>1, <2>1, IdsAreGiven
<1>3. /\ r.id = id /\ r.tool = q.tool /\ r.code = q.code /\ r.description = q.description
      /\ r.household = q.household /\ r.type = q.type /\ r.brand = q.brand /\ r.model = q.model
  BY RequestCases
<1> HIDE DEF r
<1>4. CASE q.tool = "diagnose_symptom"
  <2> DEFINE x == Heard(q)
             type == TypeMeant(q, x)
  <2>1. Heard(r) = x /\ TypeMeant(r, x) = type
    BY <1>3, HeardAlike
  <2>2. IsFiniteSet(x.terms)
    BY <1>4, HeardType, RequestCases
  <2> HIDE DEF x
  <2>3. /\ a \in SymptomMine(owned, q, x) /\ a.manual \in Manuals
        /\ a.manual \in Hits(x, ManualsOf(SymptomMine(owned, q, x)), type)
    BY <1>0, <1>1, <1>4, <2>2, SymptomHitsAre DEF x
  <2>4. a \in SymptomMine(own, r, x) /\ SymptomMine(own, r, x) \subseteq {a}
    <3>1. \A b : b \in SymptomMine(own, r, x) <=>
            /\ b \in own
            /\ Given(id, b.id) /\ Given(q.brand, b.brand) /\ Given(q.model, b.model) /\ Given(type, b.type)
      BY <1>3, <2>1, SymptomMineIs
    <3>2. \A b : b \in SymptomMine(owned, q, x) <=>
            /\ b \in owned
            /\ Given(q.id, b.id) /\ Given(q.brand, b.brand) /\ Given(q.model, b.model) /\ Given(type, b.type)
      BY SymptomMineIs
    <3> HIDE DEF type
    <3> QED
      BY <1>1, <1>2, <2>3, <3>1, <3>2 DEF Given
  <2>5. ManualsOf(SymptomMine(own, r, x)) \cap AllManuals \subseteq ManualsOf(SymptomMine(owned, q, x))
    BY <2>3, <2>4 DEF ManualsOf
  <2>6. a \in SymptomHits(own, r, x)
    <3>1. a.manual # NoManual
      BY <2>3, NoManualIsNone
    <3>2. a.manual \in Hits(x, ManualsOf(SymptomMine(owned, q, x)), TypeMeant(r, x))
      BY <2>1, <2>3
    <3> QED
      BY <1>0, <2>2, <2>4, <2>5, <3>1, <3>2, SymptomHitsAre, Zenon
  <2>7. SymptomHits(own, r, x) = {a}
    BY <1>0, <2>2, <2>4, <2>6, SymptomHitsAre
  <2>8. SymptomAnswer(own, r, x) = Found(a, a.manual)
    BY <1>0, <2>7, SymptomAnswered
  <2>9. Called(own, r) = SymptomAnswer(own, r, x)
    BY <1>3, <1>4, <2>1, CalledIs
  <2> QED
    BY <1>1, <2>8, <2>9, FoundFields DEF r
<1>5. CASE q.tool = "diagnose_error"
  <2>1. ErrorMatches(own, r) = {a}
    <3>1. a \in ErrorMatches(owned, q)
      BY <1>1, <1>5
    <3>2. /\ q.household /\ Given(q.brand, a.brand) /\ Given(q.model, a.model)
          /\ \E k \in index : k.manual = a.manual /\ k.code = q.code /\ IsLookupable(k)
      BY <3>1, ErrorMatchesAre
    <3>3. a \in ErrorMatches(own, r)
      <4>1. /\ a \in own /\ r.household
            /\ Given(r.id, a.id) /\ Given(r.brand, a.brand) /\ Given(r.model, a.model)
            /\ \E k \in index : k.manual = a.manual /\ k.code = r.code /\ IsLookupable(k)
        BY <1>1, <1>2, <1>3, <3>2 DEF Given
      <4> QED
        BY <4>1, ErrorMatchesAre
    <3>4. \A b \in ErrorMatches(own, r) : b \in own /\ Given(id, b.id)
      BY <1>3, ErrorMatchesAre
    <3> QED
      BY <1>2, <3>3, <3>4 DEF Given
  <2>2. DiagnoseError(own, r) = Found(a, a.manual)
    BY <1>0, <2>1, ErrorAnswered
  <2>3. Called(own, r) = DiagnoseError(own, r)
    BY <1>3, <1>5, CalledIs
  <2> QED
    BY <1>1, <2>2, <2>3, FoundFields DEF r
<1>6. CASE q.tool = "check_warranty"
  <2>1. Asked(own, r) = {a}
    BY <1>1, <1>2, <1>3 DEF Asked
  <2>2. CheckWarranty(own, r) = Dated(a)
    BY <1>0, <2>1, WarrantyAnswered
  <2>3. Called(own, r) = CheckWarranty(own, r)
    BY <1>3, <1>6, CalledIs
  <2> QED
    BY <1>1, <2>2, <2>3, DatedFields DEF r
<1> QED
  BY <1>4, <1>5, <1>6, RequestCases

(* The appliance that was said not to be registered is answered for, once  *)
(* it is added.                                                            *)
LEMMA SuggestionsWork ==
  ASSUME Loaded, Stored, NEW q \in Requests, q.id = None, Called(owned, q).registered = "no",
         NEW a, a.manual = Called(owned, q).cites,
         LET product == ProductOf(Called(owned, q).cites)
         IN  a.brand = product.brand /\ a.model = product.model /\ a.type = product.type
  PROVE  Called(owned \cup {a}, q).id = a.id
<1> DEFINE m == Called(owned, q).cites
           own == owned \cup {a}
<1>0. groups \in Seq(Groups) /\ IsFiniteSet(index) /\ IsFiniteSet(owned) /\ IsFiniteSet(own)
  BY WhatIsLoaded, FS_AddElement DEF Stored
<1>1. /\ m \in Manuals /\ InCatalog(m)
      /\ \/ /\ q.tool = "diagnose_symptom"
            /\ SymptomHits(owned, q, Heard(q)) = {} /\ SymptomOthers(q, Heard(q)) = {m}
         \/ /\ q.tool = "diagnose_error" /\ q.household
            /\ ErrorMatches(owned, q) = {} /\ ErrorOthers(q) = {m}
  BY SaidUnregistered
<1>2. /\ a.manual = m /\ Given(q.id, a.id)
      /\ a.brand = ProductOf(m).brand /\ a.model = ProductOf(m).model /\ a.type = ProductOf(m).type
  BY DEF Given
<1> HIDE DEF m, own
<1>3. \A b : b \in own <=> b \in owned \/ b = a
  BY DEF own
<1>4. CASE q.tool = "diagnose_symptom" /\ SymptomHits(owned, q, Heard(q)) = {} /\ SymptomOthers(q, Heard(q)) = {m}
  <2> DEFINE x == Heard(q)
             type == TypeMeant(q, x)
  <2>1. q.brand = None /\ q.model = None /\ IsFiniteSet(x.terms)
    BY <1>4, RequestCases, HeardType
  <2>2. /\ Given(q.id, a.id) /\ Given(q.brand, a.brand) /\ Given(q.model, a.model) /\ Given(type, a.type)
    BY <1>1, <1>2, <1>4, <2>1, RegisteredFits
  <2>3. Hits(x, AllManuals, type) = {m}
    BY <1>4 DEF SymptomOthers
  <2>4. SymptomHits(owned, q, x) = {}
    BY <1>4
  <2> HIDE DEF x, type
  <2>5. type = TypeMeant(q, x)
    BY DEF type
  <2>6. \A b : b \in SymptomMine(own, q, x) <=> b \in SymptomMine(owned, q, x) \/ b = a
    <3>1. \A b : b \in SymptomMine(own, q, x) <=>
            /\ b \in own
            /\ Given(q.id, b.id) /\ Given(q.brand, b.brand) /\ Given(q.model, b.model) /\ Given(type, b.type)
      BY <2>5, SymptomMineIs
    <3>2. \A b : b \in SymptomMine(owned, q, x) <=>
            /\ b \in owned
            /\ Given(q.id, b.id) /\ Given(q.brand, b.brand) /\ Given(q.model, b.model) /\ Given(type, b.type)
      BY <2>5, SymptomMineIs
    <3> QED
      BY <1>3, <2>2, <3>1, <3>2
  <2>7. m # NoManual
    BY <1>1, NoManualIsNone
  <2>8. a \in SymptomHits(own, q, x)
    BY <1>0, <1>2, <2>1, <2>3, <2>5, <2>6, <2>7, SymptomHitsAre
  <2>9. ASSUME NEW b \in SymptomHits(own, q, x), b # a
        PROVE  FALSE
    <3>1. b \in SymptomMine(own, q, x) /\ b.manual \in Hits(x, ManualsOf(SymptomMine(own, q, x)), type)
      BY <1>0, <2>1, <2>5, SymptomHitsAre
    <3>2. Hits(x, ManualsOf(SymptomMine(own, q, x)), type) =
            Hits(x, AllManuals, type) \cap ManualsOf(SymptomMine(own, q, x))
      BY <1>0, <2>1, <2>3, HitsNarrow
    <3>3. b.manual = m /\ b \in SymptomMine(owned, q, x)
      BY <2>3, <2>6, <2>9, <3>1, <3>2
    <3>4. b.manual \in Hits(x, AllManuals, type) /\ b.manual # NoManual
      BY <2>3, <2>7, <3>3
    <3>5. b \in SymptomHits(owned, q, x)
      BY <1>0, <2>1, <2>5, <3>3, <3>4, SymptomHitsAre
    <3> QED
      BY <2>4, <3>5
  <2>10. SymptomHits(own, q, x) = {a}
    BY <2>8, <2>9
  <2>11. SymptomAnswer(own, q, x) = Found(a, a.manual)
    BY <1>0, <2>10, SymptomAnswered
  <2>12. Called(own, q) = SymptomAnswer(own, q, x)
    BY <1>4, CalledIs DEF x
  <2> QED
    BY <2>11, <2>12, FoundFields DEF own
<1>5. CASE q.tool = "diagnose_error" /\ q.household /\ ErrorMatches(owned, q) = {} /\ ErrorOthers(q) = {m}
  <2>1. /\ Given(q.id, a.id) /\ Given(q.brand, a.brand) /\ Given(q.model, a.model)
        /\ \E r \in index : r.manual = a.manual /\ r.code = q.code /\ IsLookupable(r)
    BY <1>1, <1>2, <1>5, RegisteredFits
  <2>2. a \in ErrorMatches(own, q)
    BY <1>3, <1>5, <2>1, ErrorMatchesAre
  <2>3. \A b \in ErrorMatches(own, q) : b = a \/ b \in ErrorMatches(owned, q)
    BY <1>3, ErrorMatchesAre
  <2>4. ErrorMatches(own, q) = {a}
    BY <1>5, <2>2, <2>3
  <2>5. DiagnoseError(own, q) = Found(a, a.manual)
    BY <1>0, <2>4, ErrorAnswered
  <2>6. Called(own, q) = DiagnoseError(own, q)
    BY <1>5, CalledIs
  <2> QED
    BY <2>5, <2>6, FoundFields DEF own
<1> QED
  BY <1>1, <1>4, <1>5
LEMMA WhatIsProposedWorks ==
  ASSUME ToolsInv
  PROVE  ProposalsWork
<1>0. Loaded /\ Stored
  BY DEF ToolsInv
<1>1. CASE said = Silent
  <2>1. said.answer.choices = {} /\ said.answer.registered = None
    BY <1>1, AnswerFields DEF Silent
  <2>2. None # "no"
    BY DEF None
  <2> QED
    BY <2>1, <2>2 DEF ProposalsWork, Repeated
<1>2. CASE said.request \in Requests /\ said.answer = Called(owned, said.request)
  <2> DEFINE q == said.request
             m == said.answer.cites
  <2>1. ASSUME NEW id \in said.answer.choices, NEW household \in Changed,
               \E a \in household : a.id = [q EXCEPT !.id = id].id
        PROVE  Called(household, [q EXCEPT !.id = id]).id = [q EXCEPT !.id = id].id
    <3>1. [q EXCEPT !.id = id].id = id
      BY <1>2, RequestCases
    <3>2. PICK gone \in SUBSET owned, more \in {{}} \cup {{a} : a \in Added(Products)} :
            household = (owned \ gone) \cup more
      BY <2>1 DEF Changed
    <3>3. \A b \in more : b.id = "new"
      BY <1>0, ApplianceIs DEF Added, Loaded
    <3>4. IsFiniteSet(household)
      <4>1. IsFiniteSet(owned \ gone)
        BY <1>0, FS_Difference DEF Stored
      <4>2. IsFiniteSet(more)
        BY FS_EmptySet, FS_Singleton
      <4> QED
        BY <3>2, <4>1, <4>2, FS_Union
    <3>5. id # "new"
      <4>1. PICK a \in owned : a.id = id
        BY <1>0, <1>2, ChoicesAre
      <4>2. added \in 0 .. Len(Ids) /\ a.id \in IdsMade
        BY <1>0 DEF Stored
      <4> QED
        BY <4>1, <4>2, IdsAreGiven
    <3>6. \A b \in household : b.id = id => b \in owned
      BY <3>2, <3>3, <3>5
    <3> QED
      BY <1>0, <1>2, <2>1, <3>1, <3>4, <3>6, ChoicesWork
  <2>2. ASSUME said.answer.registered = "no", q.id = None, NEW a \in Suggested
        PROVE  Called(owned \cup {a}, q).id = "new"
    <3>1. PICK p \in Products :
            /\ a = Appliance("new", p)
            /\ p.brand = ProductOf(m).brand /\ p.model = ProductOf(m).model
            /\ Canonical[p.type] = ProductOf(m).type
      BY DEF Suggested, Added
    <3>2. InCatalog(m) /\ files \in Files
      BY <1>0, <1>2, <2>2, SaidUnregistered DEF Loaded
    <3>3. PICK i \in DOMAIN Catalog : Catalog[i].manual = m /\ ProductOf(m) = Catalog[i]
      BY <3>2, ProductFound
    <3>4. EntryOf(p, Catalog[i])
      BY <3>1, <3>2, <3>3, CatalogType DEF EntryOf
    <3>5. /\ a.id = "new" /\ a.manual = m
          /\ a.brand = ProductOf(m).brand /\ a.model = ProductOf(m).model /\ a.type = ProductOf(m).type
      BY <3>1, <3>2, <3>3, <3>4, ApplianceIs
    <3> HIDE DEF m
    <3>6. Called(owned \cup {a}, q).id = a.id
      BY <1>0, <1>2, <2>2, <3>5, SuggestionsWork DEF m
    <3> QED
      BY <3>5, <3>6
  <2>3. \A r \in Repeated, household \in Changed :
           (\E a \in household : a.id = r.id) => Called(household, r).id = r.id
    BY <2>1 DEF Repeated
  <2>4. said.answer.registered = "no" /\ said.request.id = None =>
          \A household \in {owned \cup {a} : a \in Suggested} : Called(household, said.request).id = "new"
    BY <2>2
  <2> QED
    BY <2>3, <2>4 DEF ProposalsWork
<1> QED
  BY <1>1, <1>2 DEF ToolsInv, Answered

LEMMA TheBestAreServed ==
  ASSUME ToolsInv
  PROVE  BestRecordsServed
<1>1. Dedupes(index, ToSet(files.codes)) /\ ToSet(files.codes) \in SUBSET CodeRecords
  BY WhatIsLoaded DEF ToolsInv
<1> QED
  BY <1>1, BestServed

LEMMA UnknownWordsDoubt ==
  ASSUME ToolsInv
  PROVE  UnknownWordsOnlyDoubt
<1> DEFINE q == said.request
           analysis == AnalyzeQuery(q.description, TermsOf(groups))
<1> SUFFICES ASSUME q.tool = "diagnose_symptom"
             PROVE  /\ \A w \in Vocabulary : {Fold(w)} \cap TermsOf(groups) = {} /\ analysis.terms # {} =>
                          HitsFor([analysis EXCEPT !.terms = @ \cup {Fold(w)}]) \subseteq HitsFor(analysis)
                    /\ IsOffTopic(groups, analysis.terms) =>
                          said.answer.status = "not_found" /\ said.answer.nearest = <<>>
  BY DEF UnknownWordsOnlyDoubt
<1>0. groups \in Seq(Groups) /\ Weighed(groups) /\ IsFiniteSet(owned)
  BY WhatIsLoaded DEF ToolsInv, Stored
<1>1. q \in Requests /\ said.answer = Called(owned, q)
  <2>1. CASE said = Silent
    <3>1. None # "diagnose_symptom"
      BY DEF None
    <3> QED
      BY <2>1, <3>1 DEF Silent, NoRequest
  <2> QED
    BY <2>1 DEF ToolsInv, Answered
<1>2. q.description \in Seq(Vocabulary)
  BY <1>1, RequestCases
<1>3. analysis \in Analyses /\ IsFiniteSet(analysis.terms) /\ Heard(q).terms \in {analysis.terms, {}}
  BY <1>2, AnalyzeQueryType, HeardType
<1>4. said.answer = SymptomAnswer(owned, q, Heard(q))
  BY <1>1, CalledIs
<1> HIDE DEF q, analysis
<1>5. ASSUME NEW w \in Vocabulary, {Fold(w)} \cap TermsOf(groups) = {}, analysis.terms # {}
      PROVE  HitsFor([analysis EXCEPT !.terms = @ \cup {Fold(w)}]) \subseteq HitsFor(analysis)
  <2> DEFINE b == [analysis EXCEPT !.terms = @ \cup {Fold(w)}]
  <2>1. b.terms = analysis.terms \cup {Fold(w)} /\ b.negated = analysis.negated
    BY <1>3 DEF Analyses
  <2> HIDE DEF b
  <2>2. Fold(w) \notin TermsOf(groups)
    BY <1>5
  <2>3. Hits(b, AllManuals, None) \subseteq Hits(analysis, AllManuals, None)
    BY <1>0, <1>3, <1>5, <2>1, <2>2, UnknownOnlyDoubts
  <2> QED
    BY <2>3 DEF HitsFor, Hits, b
<1>6. ASSUME IsOffTopic(groups, analysis.terms)
      PROVE  said.answer.status = "not_found" /\ said.answer.nearest = <<>>
  <2> DEFINE x == Heard(q)
             type == TypeMeant(q, x)
             scope == SymptomScope(owned, q, x)
  <2>1. \A M : Hits(x, M, type) = {} /\ NearestPhrases(groups, SearchIn(x, M, type)) = <<>>
    BY <1>0, <1>3, <1>6, OffTopicFindsNothing
  <2>2. SymptomHits(owned, q, x) = {} /\ SymptomOthers(q, x) = {}
    BY <2>1 DEF SymptomHits, SymptomOthers
  <2>3. SymptomAnswer(owned, q, x) = SymptomMiss(owned, q, x)
    BY <1>0, <2>2, SymptomCases
  <2>4. /\ SymptomMiss(owned, q, x).status = "not_found"
        /\ SymptomMiss(owned, q, x).nearest = NearestPhrases(groups, SearchIn(x, scope, type))
    BY DEF SymptomMiss, Answer
  <2> HIDE DEF scope, type
  <2>5. SymptomMiss(owned, q, x).nearest = <<>>
    BY <2>1, <2>4
  <2> QED
    BY <1>4, <2>3, <2>4, <2>5
<1> QED
  BY <1>5, <1>6

(* What is cited is a manual, and who is answered for is of the household. *)
Fine(answer) ==
    /\ answer.cites \in Manuals \cup {NoManual}
    /\ answer.id \in {None} \cup {a.id : a \in owned}
    /\ answer.days \in Nat

LEMMA CitesAndDays ==
  ASSUME Loaded, Stored, NEW q \in Requests
  PROVE  Fine(Called(owned, q))
<1> DEFINE answer == Called(owned, q)
<1> SUFFICES Fine(answer)
  OBVIOUS
<1>0. groups \in Seq(Groups) /\ IsFiniteSet(index) /\ index \subseteq CodeRecords /\ IsFiniteSet(owned)
  BY WhatIsLoaded DEF Stored
<1>1. /\ \A a \in owned : Fine(Found(a, a.manual))
      /\ \A m \in Manuals : Fine(Documented(m))
      /\ \A ids : Fine(Ambiguous(ids))
      /\ Fine(Answer)
  BY FoundFields, DocumentedFields, AmbiguousFields, AnswerFields DEF Stored, Fine
<1>2. \A a \in owned : Fine(Dated(a))
  <2> TAKE a \in owned
  <2>1. today \in Nat /\ a.end \in Nat
    <3>1. LastDay \in Nat
      BY CallsAssumption
    <3> QED
      BY <3>1 DEF Stored
  <2> QED
    BY <2>1, DatedFields DEF Fine
<1>3. CASE q.tool = "diagnose_symptom"
  <2> DEFINE hits == SymptomHits(owned, q, Heard(q))
             others == SymptomOthers(q, Heard(q))
             miss == SymptomMiss(owned, q, Heard(q))
  <2>0. answer = SymptomAnswer(owned, q, Heard(q))
    BY <1>3, CalledIs
  <2>1. /\ \A a : hits = {a} => answer = Found(a, a.manual)
        /\ Several(hits) => answer = Ambiguous({a.id : a \in hits})
        /\ \A m : hits = {} /\ others = {m} => answer = Documented(m)
        /\ hits = {} /\ Several(others) => answer = Ambiguous({})
        /\ hits = {} /\ others = {} => answer = miss
    BY <1>0, <2>0, SymptomCases, Zenon
  <2>2. miss.cites = NoManual /\ miss.id = None /\ miss.days = 0
    BY DEF SymptomMiss, Answer, NoManual
  <2>3. hits \subseteq owned /\ others \subseteq Manuals
    BY <1>0, SymptomMineIs, HitsOf DEF SymptomHits, SymptomOthers
  <2>4. Fine(miss)
    BY <2>2 DEF Fine
  <2> HIDE DEF answer, hits, others, miss
  <2>5. CASE \E a : hits = {a}
    BY <1>1, <2>1, <2>3, <2>5
  <2>6. CASE Several(hits)
    BY <1>1, <2>1, <2>6
  <2>7. CASE hits = {} /\ \E m : others = {m}
    BY <1>1, <2>1, <2>3, <2>7
  <2>8. CASE hits = {} /\ Several(others)
    BY <1>1, <2>1, <2>8
  <2>9. CASE hits = {} /\ others = {}
    BY <2>1, <2>4, <2>9
  <2> QED
    BY <2>5, <2>6, <2>7, <2>8, <2>9 DEF Several
<1>4. CASE q.tool = "diagnose_error"
  <2> DEFINE matches == ErrorMatches(owned, q)
             mine == ErrorMine(owned, q)
             others == ErrorOthers(q)
             miss == CodeNotFound(mine, q)
  <2>0. answer = DiagnoseError(owned, q)
    BY <1>4, CalledIs
  <2>1. /\ \A a : matches = {a} => answer = Found(a, a.manual)
        /\ Several(matches) => answer = Ambiguous({a.id : a \in matches})
        /\ \A m : matches = {} /\ others = {m} => answer = ErrorElse(m, q)
        /\ matches = {} /\ Several(others) => answer = Ambiguous({})
        /\ matches = {} /\ others = {} => answer = miss
    BY <1>0, <2>0, ErrorCases, Zenon
  <2>2. mine \subseteq owned /\ matches \subseteq owned
    BY DEF ErrorMatches, ErrorMine, Resolved
  <2>3. others \subseteq Manuals
    BY <1>0 DEF ErrorOthers, Unowned, ByCode, CodeRecords
  <2>4. miss.id = None /\ miss.days = 0
    BY Zenon, AnswerFields DEF CodeNotFound, Answer
  <2>5. miss.cites \in Manuals \cup {NoManual}
    <3> DEFINE one == Cardinality(mine) = 1 /\ FamilyOf(index, Only(mine).manual) # {}
    <3>1. miss.cites = IF one THEN Only(mine).manual ELSE NoManual
      BY Zenon DEF CodeNotFound, Answer, NoManual
    <3>2. ASSUME one
          PROVE  Only(mine) \in owned
      <4>1. IsFiniteSet(mine)
        BY <1>0, <2>2, FS_Subset
      <4>2. PICK a : mine = {a}
        BY <3>2, <4>1, HowMany
      <4> QED
        BY <2>2, <4>2, OnlyIs
    <3> HIDE DEF one
    <3> QED
      BY <3>1, <3>2 DEF Stored
  <2>6. Fine(miss)
    BY <2>4, <2>5 DEF Fine
  <2>7. \A m \in Manuals : Fine(ErrorElse(m, q))
    <3> TAKE m \in Manuals
    <3> DEFINE x == [Documented(m) EXCEPT !.registered = None, !.suggests = FALSE]
    <3>1. x.cites = Documented(m).cites /\ x.id = Documented(m).id /\ x.days = Documented(m).days
      BY DEF Documented, Answer
    <3> HIDE DEF x
    <3>2. Fine(x) /\ Fine(Documented(m))
      BY <1>1, <3>1 DEF Fine
    <3> QED
      BY <3>2 DEF ErrorElse, x
  <2> HIDE DEF answer, matches, others, miss
  <2>8. CASE \E a : matches = {a}
    BY <1>1, <2>1, <2>2, <2>8
  <2>9. CASE Several(matches)
    BY <1>1, <2>1, <2>9
  <2>10. CASE matches = {} /\ \E m : others = {m}
    BY <2>1, <2>3, <2>7, <2>10
  <2>11. CASE matches = {} /\ Several(others)
    BY <1>1, <2>1, <2>11
  <2>12. CASE matches = {} /\ others = {}
    BY <2>1, <2>6, <2>12
  <2> QED
    BY <2>8, <2>9, <2>10, <2>11, <2>12 DEF Several
<1>5. CASE q.tool = "check_warranty"
  <2> DEFINE matches == Asked(owned, q)
  <2>0. answer = CheckWarranty(owned, q)
    BY <1>5, CalledIs
  <2>1. /\ \A a : matches = {a} => answer = Dated(a)
        /\ Several(matches) => answer = Ambiguous({a.id : a \in matches})
        /\ matches = {} => answer = Answer
    BY <1>0, <2>0, WarrantyCases, Zenon
  <2>2. matches \subseteq owned
    BY DEF Asked
  <2> HIDE DEF answer, matches
  <2>3. CASE \E a : matches = {a}
    BY <1>2, <2>1, <2>2, <2>3
  <2>4. CASE Several(matches)
    BY <1>1, <2>1, <2>4
  <2>5. CASE matches = {}
    BY <1>1, <2>1, <2>5
  <2> QED
    BY <2>3, <2>4, <2>5 DEF Several
<1> QED
  BY <1>3, <1>4, <1>5, RequestCases

LEMMA ToolsTypes ==
  ASSUME ToolsInv
  PROVE  TypeOK
<1>0. Loaded /\ Stored
  BY DEF ToolsInv
<1>1. files \in Files /\ index \subseteq ToSet(files.codes)
  BY <1>0, WhatIsLoaded DEF Loaded, Dedupes
<1>2. IdsMade \subseteq IdsGiven \ {None} /\ None \in IdsGiven
  <2>1. added \in 0 .. Len(Ids)
    BY <1>0 DEF Stored
  <2> QED
    BY <2>1, IdsAreGiven DEF IdsGiven, Optional
<1>3. \A a \in owned : a.id \in IdsGiven \ {None} /\ a.manual \in Manuals \cup {NoManual}
  BY <1>0, <1>2 DEF Stored
<1>4. /\ said.request \in Requests \cup {NoRequest}
      /\ said.answer.cites \in Manuals \cup {NoManual} /\ said.answer.id \in IdsGiven
      /\ said.answer.days \in Nat
  <2>1. CASE said = Silent
    BY <1>2, <2>1, AnswerFields DEF Silent
  <2>2. CASE said.request \in Requests /\ said.answer = Called(owned, said.request)
    BY <1>0, <1>2, <1>3, <2>2, CitesAndDays DEF Fine
  <2> QED
    BY <2>1, <2>2 DEF ToolsInv, Answered
<1>5. /\ \A a, b \in owned : a.id = b.id => a = b
      /\ added \in 0 .. Len(Ids) /\ today \in 1 .. LastDay
  BY <1>0 DEF Stored
<1> QED
  BY <1>1, <1>3, <1>4, <1>5, Zenon DEF TypeOK, NoManual
(***************************************************************************)
(* The invariant holds                                                     *)
(***************************************************************************)
ManualsFound(gs, query) == {gs[s.group].manual : s \in Search(gs, query)}

FoundBy(gs, queries) == UNION {ManualsFound(gs, query) : query \in {query \in queries : query.terms # {}}}

Weighing(hits, others, miss) ==
    CASE Cardinality(hits) = 1 -> Found(Only(hits), Only(hits).manual)
      [] Cardinality(hits) > 1 -> Ambiguous({a.id : a \in hits})
      [] hits = {} /\ Cardinality(others) = 1 -> Documented(Only(others))
      [] hits = {} /\ Cardinality(others) > 1 -> Ambiguous({})
      [] OTHER -> miss

LEMMA SymptomsUnmoved ==
  ASSUME UNCHANGED groups, NEW own, NEW q, NEW x
  PROVE  SymptomAnswer(own, q, x)' = SymptomAnswer(own, q, x)
<1>1. AllManuals' = AllManuals /\ AllTypes' = AllTypes
  BY Zenon DEF AllManuals, AllTypes
<1>2. ASSUME NEW queries
      PROVE  HitManuals(queries)' = HitManuals(queries)
  <2>1. HitManuals(queries) = FoundBy(groups, queries)
    BY Zenon DEF HitManuals, FoundBy, ManualsFound
  <2>2. HitManuals(queries)' = FoundBy(groups', queries)
    BY Zenon DEF HitManuals, FoundBy, ManualsFound
  <2> QED
    BY <2>1, <2>2
<1>3. ASSUME NEW manuals, NEW type
      PROVE  Hits(x, manuals, type)' = Hits(x, manuals, type)
  <2>1. SearchIn(x, manuals, type)' = SearchIn(x, manuals, type)
    BY <1>1, Zenon DEF SearchIn
  <2> QED
    BY <1>2, <2>1 DEF Hits
<1>4. SymptomHits(own, q, x)' = SymptomHits(own, q, x)
  BY <1>3 DEF SymptomHits
<1>5. SymptomOthers(q, x)' = SymptomOthers(q, x)
  BY <1>1, <1>3 DEF SymptomOthers
<1>6. SymptomMiss(own, q, x)' = SymptomMiss(own, q, x)
  <2>1. SymptomScope(own, q, x)' = SymptomScope(own, q, x)
    BY <1>1, Zenon DEF SymptomScope
  <2>2. ASSUME NEW scope, NEW type
        PROVE  SearchIn(x, scope, type)' = SearchIn(x, scope, type)
    BY <1>1, Zenon DEF SearchIn
  <2> QED
    BY <2>1, <2>2, Zenon DEF SymptomMiss
<1>7. SymptomAnswer(own, q, x) = Weighing(SymptomHits(own, q, x), SymptomOthers(q, x), SymptomMiss(own, q, x))
  BY SymptomAnswerIs, Zenon DEF Weighing
<1>8. SymptomAnswer(own, q, x)' = Weighing(SymptomHits(own, q, x)', SymptomOthers(q, x)', SymptomMiss(own, q, x)')
  BY Zenon DEF SymptomAnswer, SymptomHits, SymptomOthers, SymptomMine, ManualsOf, NoManual, Hits, SymptomMiss,
               SymptomScope, Weighing
<1> QED
  BY <1>4, <1>5, <1>6, <1>7, <1>8

(* What a call answers depends on the files loaded and the day only.       *)
LEMMA CallsUnmoved ==
  ASSUME UNCHANGED <<files, index, groups, today>>, NEW own, NEW q
  PROVE  Called(own, q)' = Called(own, q)
<1>1. DiagnoseSymptom(own, q)' = DiagnoseSymptom(own, q)
  <2> DEFINE x == AnalyzeQuery(q.description, TermsOf(groups))
  <2>1. DiagnoseSymptom(own, q) = Only({SymptomAnswer(own, q, Anchored(q, analysis)) : analysis \in {x}})
    BY DEF DiagnoseSymptom
  <2>2. x' = x
    BY Zenon
  <2>3. DiagnoseSymptom(own, q)' = Only({SymptomAnswer(own, q, Anchored(q, analysis))' : analysis \in {x'}})
    BY Zenon DEF DiagnoseSymptom
  <2> HIDE DEF x
  <2>4. \A analysis : SymptomAnswer(own, q, Anchored(q, analysis))' = SymptomAnswer(own, q, Anchored(q, analysis))
    BY SymptomsUnmoved
  <2>5. {SymptomAnswer(own, q, Anchored(q, analysis))' : analysis \in {x'}} =
        {SymptomAnswer(own, q, Anchored(q, analysis)) : analysis \in {x}}
    BY <2>2, <2>4
  <2> QED
    BY <2>1, <2>3, <2>5, Zenon
<1>2. DiagnoseError(own, q)' = DiagnoseError(own, q)
  BY Zenon DEF DiagnoseError, CodeNotFound, Unowned, ProductOf, Catalog
<1>3. CheckWarranty(own, q)' = CheckWarranty(own, q)
  BY Zenon DEF CheckWarranty, Dated
<1> QED
  BY <1>1, <1>2, <1>3, Zenon DEF Called
LEMMA SeedIs ==
  /\ IsFiniteSet(Seed)
  /\ \A a \in Seed : a.end \in Nat /\ a.manual \in Manuals \cup {NoManual}
  /\ \A a \in Seed, f \in Files : LinkedIn(f.catalog, a)
  /\ \A a, b \in Seed : a.id = b.id => a = b
<1> DEFINE Cited == Manuals \cup {NoManual}
<1>1. Seed \subseteq [id : STRING, brand : Names, model : Names, type : STRING, end : Nat,
                      manual : Cited, known : {0}]
  BY HouseholdAssumption, Zenon DEF NoManual
<1> HIDE DEF Cited
<1>2. \A a \in Seed : a.end \in Nat /\ a.manual \in Cited /\ a.known = 0
  BY <1>1
<1>3. /\ IsFiniteSet(Seed)
      /\ \A a \in Seed, f \in Files :
           a.manual # NoManual => \E e \in ToSet(f.catalog) : e.manual = a.manual /\ EntryOf(a, e)
      /\ \A a, b \in Seed : a.id = b.id => a = b
  BY HouseholdAssumption, Zenon DEF EntryOf, NoManual
<1>4. ASSUME NEW a \in Seed, NEW f \in Files
      PROVE  LinkedIn(f.catalog, a)
  <2>1. f.catalog \in Seq(Entry)
    BY CatalogAssumption, Zenon
  <2>2. Len(f.catalog) \in Nat /\ a.known = 0
    BY <1>2, <2>1
  <2>3. a.known \in 0 .. Len(f.catalog) /\ 1 .. a.known = {}
    BY <2>2
  <2>4. a.manual # NoManual => \E i \in DOMAIN f.catalog : f.catalog[i].manual = a.manual /\ EntryOf(a, f.catalog[i])
    BY <1>3 DEF ToSet
  <2> QED
    BY <2>3, <2>4 DEF LinkedIn
<1> QED
  BY <1>2, <1>3, <1>4, Zenon DEF Cited

LEMMA Starts ==
  Init => ToolsInv
<1> SUFFICES ASSUME Init
             PROVE  ToolsInv
  OBVIOUS
<1> USE DEF Init
<1>1. Loaded
  BY DEF Loaded
<1>2. Ids \in Seq(STRING) /\ LastDay \in Nat \ {0}
  BY CallsAssumption, Zenon
<1>3. \A a \in owned : a.id \in IdsMade
  BY DEF IdsMade
<1>4. added \in 0 .. Len(Ids) /\ today \in 1 .. LastDay
  BY <1>2
<1>5. Stored
  BY <1>3, <1>4, SeedIs DEF Stored, Catalog
<1> QED
  BY <1>1, <1>5 DEF ToolsInv, Answered

LEMMA Continues ==
  ToolsInv /\ [Next]_vars => ToolsInv'
<1> SUFFICES ASSUME ToolsInv, [Next]_vars
             PROVE  ToolsInv'
  OBVIOUS
<1>0. Loaded /\ Stored /\ Answered
  BY DEF ToolsInv
<1>1. Ids \in Seq(STRING) /\ LastDay \in Nat \ {0}
  BY CallsAssumption, Zenon
<1>2. ASSUME UNCHANGED <<files, owned, added, today>>
      PROVE  Stored'
  BY <1>0, <1>2 DEF Stored, IdsMade, Catalog
<1>3. ASSUME UNCHANGED <<files, index, groups>>
      PROVE  Loaded'
  BY <1>0, <1>3 DEF Loaded
<1>4. ASSUME said' = Silent
      PROVE  Answered'
  BY <1>4 DEF Answered, Silent
<1>5. ASSUME NEW q \in Requests, Call(q)
      PROVE  ToolsInv'
  <2>1. /\ UNCHANGED <<files, index, groups, owned, added, today>>
        /\ said' = [request |-> q, answer |-> Called(owned, q)]
    BY <1>5, Zenon DEF Call
  <2>2. Called(owned, q)' = Called(owned, q)
    <3>1. \A own, r : Called(own, r)' = Called(own, r)
      BY <2>1, CallsUnmoved
    <3> QED
      BY <2>1, <3>1
  <2>3. (said.request)' = q /\ (said.answer)' = Called(owned, q)
    BY <2>1
  <2>4. Requests' = Requests
    OBVIOUS
  <2>5. Answered'
    BY <2>2, <2>3, <2>4 DEF Answered
  <2> QED
    BY <1>2, <1>3, <2>1, <2>5 DEF ToolsInv
<1>6. ASSUME NEW p \in Products, AddAppliance(p)
      PROVE  ToolsInv'
  <2> DEFINE a == Appliance(Ids[added + 1], p)
  <2>1. /\ added < Len(Ids) /\ owned' = owned \cup {a} /\ added' = added + 1
        /\ said = Silent /\ said' = said
        /\ UNCHANGED <<files, index, groups, today>>
    BY <1>6, Zenon DEF AddAppliance
  <2>2. /\ a.id = Ids[added + 1] /\ a.end = p.end /\ LinkedIn(Catalog, a) /\ a.manual \in Manuals \cup {NoManual}
    BY <1>0, ApplianceIs DEF Loaded
  <2>3. p.end \in Nat
    <3>1. Products \subseteq [brand : Names, model : Names, type : DOMAIN Canonical, end : Nat]
      BY HouseholdAssumption, Zenon
    <3> QED
      BY <3>1
  <2> HIDE DEF a
  <2>4. added \in 0 .. Len(Ids) /\ added \in Nat /\ Len(Ids) \in Nat
    BY <1>0, <1>1 DEF Stored
  <2>5. /\ IdsMade \subseteq IdsMade' /\ a.id \in IdsMade'
        /\ a.id \notin IdsMade
    <3>1. 1 .. added' = 1 .. added \cup {added + 1} /\ added + 1 \notin 1 .. added
      BY <2>1, <2>4
    <3>2. IdsMade \subseteq IdsMade' /\ a.id \in IdsMade'
      BY <2>2, <3>1 DEF IdsMade
    <3>3. added + 1 \in DOMAIN Ids /\ 1 .. added \subseteq DOMAIN Ids
      BY <1>1, <2>1, <2>4
    <3>4. /\ \A i, j \in DOMAIN Ids : Ids[i] = Ids[j] => i = j
          /\ ToSet(Ids) \cap {s.id : s \in Seed} = {}
      BY CallsAssumption, Zenon
    <3>5. a.id \notin {s.id : s \in Seed}
      BY <2>2, <3>3, <3>4 DEF ToSet
    <3>6. a.id \notin {Ids[i] : i \in 1 .. added}
      BY <2>2, <3>1, <3>3, <3>4
    <3> QED
      BY <3>2, <3>5, <3>6 DEF IdsMade
  <2>6. IsFiniteSet(owned')
    BY <1>0, <2>1, FS_AddElement DEF Stored
  <2>7. \A b \in owned' : b.id \in IdsMade'
    BY <1>0, <2>1, <2>5 DEF Stored
  <2>8. /\ Catalog' = Catalog
        /\ \A b \in owned' : b.end \in Nat /\ b.manual \in Manuals \cup {NoManual} /\ LinkedIn(Catalog, b)
    BY <1>0, <2>1, <2>2, <2>3 DEF Stored, Catalog
  <2>9. \A b, c \in owned' : b.id = c.id => b = c
    BY <1>0, <2>1, <2>5 DEF Stored
  <2>10. added' \in 0 .. Len(Ids) /\ today' \in 1 .. LastDay
    BY <1>0, <2>1, <2>4 DEF Stored
  <2>11. Stored'
    BY <2>6, <2>7, <2>8, <2>9, <2>10 DEF Stored
  <2> QED
    BY <1>3, <1>4, <2>1, <2>11 DEF ToolsInv
<1>7. ASSUME NEW a \in owned, RemoveAppliance(a)
      PROVE  ToolsInv'
  <2>1. owned' = owned \ {a} /\ said = Silent /\ said' = said /\ UNCHANGED <<files, index, groups, added, today>>
    BY <1>7, Zenon DEF RemoveAppliance
  <2>2. IsFiniteSet(owned')
    BY <1>0, <2>1, FS_Difference DEF Stored
  <2>3. owned' \subseteq owned /\ IdsMade' = IdsMade /\ Catalog' = Catalog
    BY <2>1 DEF IdsMade, Catalog
  <2>4. Stored'
    BY <1>0, <2>1, <2>2, <2>3 DEF Stored
  <2> QED
    BY <1>3, <1>4, <2>1, <2>4 DEF ToolsInv
<1>8. ASSUME DayPasses
      PROVE  ToolsInv'
  <2>1. /\ today < LastDay /\ today' = today + 1 /\ said = Silent /\ said' = said
        /\ UNCHANGED <<files, index, groups, owned, added>>
    BY <1>8, Zenon DEF DayPasses
  <2>2. today' \in 1 .. LastDay /\ IdsMade' = IdsMade /\ Catalog' = Catalog
    BY <1>0, <1>1, <2>1 DEF Stored, IdsMade, Catalog
  <2>3. Stored'
    BY <1>0, <2>1, <2>2 DEF Stored
  <2> QED
    BY <1>3, <1>4, <2>1, <2>3 DEF ToolsInv
<1>9. ASSUME Restart
      PROVE  ToolsInv'
  <2>1. /\ files' \in Files /\ IsPrefix(Catalog, files'.catalog)
        /\ index' = LoadIndex(files'.codes) /\ groups' = BuildGroups(files'.symptoms)
        /\ owned' = (IF owned = {} THEN Seed ELSE owned)
        /\ said = Silent /\ said' = said /\ UNCHANGED <<added, today>>
    BY <1>9, Zenon DEF Restart, Loads
  <2>2. Loaded'
    BY <2>1 DEF Loaded
  <2>3. IdsMade' = IdsMade /\ \A a \in Seed : a.id \in IdsMade
    BY <2>1 DEF IdsMade
  <2>4. ASSUME owned = {}
        PROVE  Stored'
    <3>1. owned' = Seed
      BY <2>1, <2>4
    <3>2. \A a \in Seed : LinkedIn(files'.catalog, a)
      BY <2>1, SeedIs
    <3> QED
      BY <1>0, <2>1, <2>3, <3>1, <3>2, SeedIs DEF Stored, Catalog
  <2>5. ASSUME owned # {}
        PROVE  Stored'
    <3>1. Catalog \in Seq(Entry) /\ files'.catalog \in Seq(Entry)
      BY <1>0, <2>1, CatalogAssumption, Zenon DEF Catalog, Loaded
    <3>2. \A a \in owned : LinkedIn(files'.catalog, a)
      BY <1>0, <2>1, <3>1, LinkedAsItGrows DEF Stored
    <3>3. owned' = owned
      BY <2>1, <2>5
    <3> QED
      BY <1>0, <2>1, <2>3, <3>2, <3>3 DEF Stored, Catalog
  <2> QED
    BY <1>4, <2>1, <2>2, <2>4, <2>5 DEF ToolsInv
<1>10. ASSUME Told
       PROVE  ToolsInv'
  <2>1. said' = Silent /\ UNCHANGED <<files, index, groups, owned, added, today>>
    BY <1>10, Zenon DEF Told
  <2> QED
    BY <1>2, <1>3, <1>4, <2>1 DEF ToolsInv
<1>11. CASE UNCHANGED vars
  <2>1. UNCHANGED <<files, index, groups, owned, added, today, said>>
    BY <1>11 DEF vars
  <2>2. \A own, r : Called(own, r)' = Called(own, r)
    BY <2>1, CallsUnmoved
  <2>3. Answered'
    BY <1>0, <2>1, <2>2 DEF Answered, Silent
  <2> QED
    BY <1>2, <1>3, <2>1, <2>3 DEF ToolsInv
<1> QED
  BY <1>5, <1>6, <1>7, <1>8, <1>9, <1>10, <1>11, Zenon DEF Next

LEMMA ToolsInvHolds ==
  Spec => []ToolsInv
BY Starts, Continues, PTL DEF Spec

(* The types: the index is of the file's records, an appliance has an id   *)
(* of its own, and what is cited is a manual of the catalog.               *)
THEOREM ToolsTypeCorrect == Spec => []TypeOK
<1>1. ToolsInv => TypeOK
  BY ToolsTypes
<1> QED
  BY <1>1, ToolsInvHolds, PTL

(* resolve_owned_appliances and the branches of diagnose_error,            *)
(* diagnose_symptom and check_warranty: an answer is given for one of the  *)
(* household's appliances only when no other one fits the request, and it  *)
(* cites that appliance's own manual.                                      *)
THEOREM NeverGuesses == Spec => []NeverGuessed
<1>1. ToolsInv => NeverGuessed
  BY AnswersAreNotGuessed
<1> QED
  BY <1>1, ToolsInvHolds, PTL

(* The branches of diagnose_error and diagnose_symptom for a manual that   *)
(* is nobody's, with manifest.py's find: an appliance that is registered   *)
(* is said not to be only when the caller gives another id, when it was    *)
(* added before its manual was or as another type, or when blanks were     *)
(* typed around the names that the caller gives.                           *)
THEOREM DisownsOnlyForCause == Spec => []DisownedOnlyForCause
<1>1. ToolsInv => DisownedOnlyForCause
  BY DisownedForCause
<1> QED
  BY <1>1, ToolsInvHolds, PTL

(* The appliances that an ambiguous answer offers, and the one that it     *)
(* says is not registered, are answered for once the caller names one or   *)
(* adds it.                                                                *)
THEOREM ProposalsAlwaysWork == Spec => []ProposalsWork
<1>1. ToolsInv => ProposalsWork
  BY WhatIsProposedWorks
<1> QED
  BY <1>1, ToolsInvHolds, PTL

(* load_index: whatever the order of the file, each manual's code is       *)
(* served by its fullest record, and then its most confident one.          *)
THEOREM TheBestRecordIsServed == Spec => []BestRecordsServed
<1>1. ToolsInv => BestRecordsServed
  BY TheBestAreServed
<1> QED
  BY <1>1, ToolsInvHolds, PTL

(* The scores of retrieval/symptoms.py: a word that no manual has only     *)
(* makes a match less likely, and a description that is about something    *)
(* else is answered with nothing.                                          *)
THEOREM UnknownWordsOnlyRaiseDoubt == Spec => []UnknownWordsOnlyDoubt
<1>1. ToolsInv => UnknownWordsOnlyDoubt
  BY UnknownWordsDoubt
<1> QED
  BY <1>1, ToolsInvHolds, PTL

================================================================================
