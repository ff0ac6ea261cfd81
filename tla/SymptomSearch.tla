------------------------------ MODULE SymptomSearch ------------------------------
(***************************************************************************)
(* The symptom index and its matcher (retrieval/symptoms.py).  A word is a *)
(* member of a small vocabulary and its stem a table's entry; the reviewed *)
(* word tables are CONSTANTS.  Terms are sets: the code's lists have no    *)
(* repetitions and their order is never used.                              *)
(***************************************************************************)
EXTENDS Integers, Sequences, FiniteSets, SequencesExt, Keeping

CONSTANTS
    Vocabulary,    \* every word that may be said or printed
    Stem,          \* the stem of each word
    Synonyms,      \* stem -> the manuals' stem
    Determiners, Negations, Stopwords,
    Fillers,       \* fillers and garments
    TypeWords,     \* words that name a type: word -> type
    TypePairs,     \* pairs of words that do: <<word, word>> -> type
    Phrases,       \* reviewed phrases, longest first: [said : stems, means : stems or NEG]
    OneEdit,       \* the words one slip away from each word of five or more letters
    Idf,           \* weight of a term of df among n symptoms, in thousandths
    MinMatched, MaxMatches, MaxNearest, DistinctiveMax

(* The records of data/index/symptoms.json, of the given manuals.  label:  *)
(* the header of the symptoms' column, nothing when it says "Problem".     *)
SymptomRecords(manuals) ==
    [manual : manuals, type : STRING, label : Seq(Vocabulary), symptom : Seq(Vocabulary),
     causes : Seq(Vocabulary), continued : BOOLEAN]

Ignored == Determiners \cup Negations \cup Stopwords \cup Fillers

ASSUME SearchAssumption ==
    /\ OneEdit \in [Vocabulary -> SUBSET Vocabulary]
    /\ Ignored \subseteq Vocabulary
    /\ Phrases \in Seq([said : Seq(STRING), means : SUBSET STRING])
    /\ \A p \in DOMAIN Phrases : Phrases[p].said # <<>> /\ IsFiniteSet(Phrases[p].means)
    /\ {MinMatched, MaxMatches, MaxNearest, DistinctiveMax} \subseteq Nat

NEG == "!neg"

(***************************************************************************)
(* A description becomes terms (Spelling, analyze_query)                   *)
(***************************************************************************)

Fold(w) == IF Stem[w] \in DOMAIN Synonyms THEN Synonyms[Stem[w]] ELSE Stem[w]

NamesType(w) == w \in DOMAIN TypeWords \/ \E pair \in DOMAIN TypePairs : w \in ToSet(pair)

(* What the matcher understands, terms being those of its index; a word of *)
(* a phrase is left alone, but is nothing to mend to.                      *)
Meant(w, terms) == w \notin Ignored /\ (NamesType(w) \/ Stem[w] \in DOMAIN Synonyms \/ Fold(w) \in terms)

InPhrase(w) == \E p \in DOMAIN Phrases : Stem[w] \in ToSet(Phrases[p].said)

(* A slip is mended only when all it may have been mean the same.          *)
Correct(w, terms) ==
    LET targets == {c \in OneEdit[w] : Meant(c, terms) /\ Stem[c] \notin {Stem[i] : i \in Ignored}}
        meanings == {IF NamesType(c) THEN c ELSE Fold(c) : c \in targets}
    IN  IF w \in Ignored \/ Meant(w, terms) \/ InPhrase(w) \/ Cardinality(meanings) # 1
        THEN w ELSE CHOOSE c \in targets : TRUE

(* What has been read of a description: nothing yet.                       *)
Nothing == [terms |-> {}, negated |-> FALSE, types |-> {}]

IsReadAt(phrase, words, i) ==
    /\ i + Len(phrase.said) - 1 <= Len(words)
    /\ \A k \in DOMAIN phrase.said : Stem[words[i + k - 1]] = phrase.said[k]

(* What one word says by itself.                                           *)
Alone(w) ==
    CASE w \in DOMAIN TypeWords -> [Nothing EXCEPT !.types = {TypeWords[w]}]
      [] w \in Negations -> [Nothing EXCEPT !.negated = TRUE]
      [] w \in Stopwords \cup Fillers -> Nothing
      [] OTHER -> [Nothing EXCEPT !.terms = {Fold(w)}]

Joined(a, b) ==
    [terms |-> a.terms \cup b.terms, negated |-> a.negated \/ b.negated, types |-> a.types \cup b.types]

PairAt(words, i) == i < Len(words) /\ <<words[i], words[i + 1]>> \in DOMAIN TypePairs

PhrasesAt(words, i) == {p \in DOMAIN Phrases : IsReadAt(Phrases[p], words, i)}

PhraseSays(phrase) == [Nothing EXCEPT !.terms = phrase.means \ {NEG}, !.negated = NEG \in phrase.means]

(* What is read at the i-th word, and how many words it takes: a pair that *)
(* names a type, else the longest phrase that is read here, else the word. *)
ReadAt(words, i) ==
    IF PairAt(words, i)
    THEN [says |-> [Nothing EXCEPT !.types = {TypePairs[<<words[i], words[i + 1]>>]}], length |-> 2]
    ELSE IF PhrasesAt(words, i) # {}
    THEN LET p == CHOOSE p \in PhrasesAt(words, i) : \A k \in PhrasesAt(words, i) : p <= k
         IN  [says |-> PhraseSays(Phrases[p]), length |-> Len(Phrases[p].said)]
    ELSE [says |-> Alone(words[i]), length |-> 1]

(* All that is read from the i-th word on, and from the first.             *)
AnalyzeWords(words) ==
    LET rest[i \in 1 .. Len(words) + 1] ==
            IF i > Len(words) THEN Nothing
            ELSE Joined(ReadAt(words, i).says, rest[i + ReadAt(words, i).length])
    IN  rest[1]

AnalyzeQuery(description, terms) ==
    LET said == Keep(description, {i \in DOMAIN description : description[i] \notin Determiners})
    IN  AnalyzeWords([i \in DOMAIN said |-> Correct(said[i], terms)])

(***************************************************************************)
(* The index (build_groups, build_index)                                   *)
(***************************************************************************)
Tokens(words) == {Fold(w) : w \in ToSet(words) \ (Stopwords \cup Negations)}

IsNegated(words) == ToSet(words) \cap Negations # {}

NewGroup(r) ==
    LET terms == Tokens(r.symptom) \cup Tokens(r.label)
    IN  [manual |-> r.manual, type |-> r.type, phrase |-> r.symptom, terms |-> terms,
         causes |-> Tokens(r.causes) \ terms, negated |-> IsNegated(r.symptom)]

(* A row that continues a symptom joins the row above, of its own manual.  *)
Placed(groups, r) ==
    IF r.continued /\ groups # <<>> /\ groups[Len(groups)].manual = r.manual
    THEN [groups EXCEPT ![Len(groups)].causes = @ \cup (Tokens(r.causes) \ groups[Len(groups)].terms)]
    ELSE Append(groups, NewGroup(r))

BuildGroups(records) ==
    LET built[i \in 0 .. Len(records)] ==
            IF i = 0 THEN <<>> ELSE Placed(built[i - 1], records[i])
    IN  built[Len(records)]

SymptomDf(groups, t) == Cardinality({g \in DOMAIN groups : t \in groups[g].terms})

Df(groups, t) == Cardinality({g \in DOMAIN groups : t \in groups[g].terms \cup groups[g].causes})

TermsOf(groups) == UNION {groups[g].terms \cup groups[g].causes : g \in DOMAIN groups}

(***************************************************************************)
(* Scores, in twentieths of the index's weights: a word in the symptom's   *)
(* own phrases counts in full, one in its causes for a quarter, and an     *)
(* unknown word weighs six tenths of the heaviest.                         *)
(***************************************************************************)
WeightOfDf(groups, df) == Idf[Len(groups)][df]

Weight(groups, t) ==
    IF t \in TermsOf(groups) THEN 20 * WeightOfDf(groups, Df(groups, t))
    ELSE 12 * Max({WeightOfDf(groups, Df(groups, k)) : k \in TermsOf(groups)})

WeightsOf(groups, terms) == MapThenSumSet(LAMBDA t : Weight(groups, t), terms)

Unknown(groups, terms) == terms \ TermsOf(groups)

(* any(): a word of the description is used by few symptoms.               *)
Distinctive(groups, terms) == \E t \in terms : SymptomDf(groups, t) \in 1 .. DistinctiveMax

(* A query: terms, polarity, and the manuals and types it is narrowed to.  *)
Candidates(groups, q) ==
    {g \in DOMAIN groups : groups[g].manual \in q.manuals /\ groups[g].type \in q.types
                           /\ groups[g].negated = q.negated}

Scored(groups, q) ==
    {[group |-> g,
      score |-> WeightsOf(groups, q.terms \cap groups[g].terms)
                + WeightsOf(groups, q.terms \cap groups[g].causes) \div 4,
      matched |-> Cardinality(q.terms \cap groups[g].terms),
      distinctive |-> Distinctive(groups, q.terms \cap groups[g].terms)] :
        g \in {g \in Candidates(groups, q) : q.terms \cap groups[g].terms # {}}}

(* Ties on score go to the symptom that the query covers most.             *)
Before(groups, a, b) ==
    LET size(s) == Cardinality(groups[s.group].terms)
    IN  \/ a.score > b.score
        \/ a.score = b.score /\ a.matched * size(b) > b.matched * size(a)
        \/ a.score = b.score /\ a.matched * size(b) = b.matched * size(a) /\ a.group < b.group

IsOffTopic(groups, terms) == Unknown(groups, terms) # {} /\ ~Distinctive(groups, terms)

Needed(terms) == IF Cardinality(terms) < MinMatched THEN Cardinality(terms) ELSE MinMatched

Clears(groups, q, s) ==
    /\ 2 * s.score >= WeightsOf(groups, q.terms)
    /\ s.matched >= Needed(q.terms) \/ (s.distinctive /\ Unknown(groups, q.terms) = {})

Cleared(groups, q) == {s \in Scored(groups, q) : Clears(groups, q, s)}

(* "One common word that fits many symptoms identifies none of them."      *)
IsCommon(terms, found) ==
    Cardinality(terms) = 1 /\ Cardinality(found) > MaxMatches /\ \A s \in found : ~s.distinctive

(* What is found, for the manuals it is found in; the order is not used.   *)
Search(groups, q) ==
    IF IsOffTopic(groups, q.terms) \/ IsCommon(q.terms, Cleared(groups, q)) THEN {} ELSE Cleared(groups, q)

(* "Did you mean": the first phrases of the closest symptoms, each once.   *)
OfferedAlways(groups, q, s) == s.matched > 0
OfferedFor(groups, q, s) == Unknown(groups, q.terms) = {} \/ s.distinctive

NearestPhrases(groups, q) ==
    LET offered == {s \in Scored(groups, q) : OfferedFor(groups, q, s)}
        ranked == SetToSortSeq(offered, LAMBDA a, b : Before(groups, a, b))
        phrases == [i \in 1 .. Cardinality(offered) |-> groups[ranked[i].group].phrase]
        each == Keep(phrases, {i \in DOMAIN phrases : \A j \in 1 .. i - 1 : phrases[j] # phrases[i]})
    IN  SubSeq(each, 1, IF Len(each) < MaxNearest THEN Len(each) ELSE MaxNearest)

================================================================================
