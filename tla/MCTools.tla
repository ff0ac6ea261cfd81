--------------------------------- MODULE MCTools ---------------------------------
(***************************************************************************)
(* A small instance of Tools: a dryer with a manual and a washer whose     *)
(* manual is added later; the dryer as it is, added as a washer, and with  *)
(* a blank before its brand; error-code files of up to two records and     *)
(* symptom files of three, over a dozen words.                             *)
(***************************************************************************)
EXTENDS Tools, TLC

MCManuals == {"washer manual", "dryer manual"}
MCEarly == <<[manual |-> "dryer manual", brand |-> "GE", model |-> "D1", type |-> "dryer"]>>
MCCatalog == Append(MCEarly, [manual |-> "washer manual", brand |-> "GE", model |-> "W1", type |-> "washer"])
MCStrip == [n \in {"GE", " GE", "W1", "D1"} |-> IF n = " GE" THEN "GE" ELSE n]
MCProducts ==
    {[brand |-> "GE", model |-> "W1", type |-> "washer", end |-> 1],
     [brand |-> "GE", model |-> "D1", type |-> "dryer", end |-> 0],
     [brand |-> "GE", model |-> "D1", type |-> "washer", end |-> 0],
     [brand |-> " GE", model |-> "D1", type |-> "tumble dryer", end |-> 2]}
MCCanonical == [washer |-> "washer", dryer |-> "dryer"] @@ "tumble dryer" :> "dryer"
MCSeed ==
    {[id |-> "app-1", brand |-> "GE", model |-> "D1", type |-> "dryer", end |-> 2, manual |-> "dryer manual", known |-> 0]}
MCIds == <<"app-2">>

MCAlike == [E1 |-> <<"E2">>, E2 |-> <<"E1">>]

CodeRecord(m, worded, fields, confidence) ==
    [manual |-> m, code |-> "E1", worded |-> worded, fields |-> fields, confidence |-> confidence]
MCCodeRecords ==
    {CodeRecord("washer manual", FALSE, 1, 1), CodeRecord("washer manual", FALSE, 1, 0),
     CodeRecord("washer manual", FALSE, 0, 1), CodeRecord("washer manual", TRUE, 1, 1),
     CodeRecord("dryer manual", FALSE, 1, 1)}

(* Words: the manuals' leak, drain, sound and operate, the customer's      *)
(* noise for a sound, a slip of drain, a word no manual has.               *)
MCStem ==
    [leak |-> "leak", leaks |-> "leak", drain |-> "drain", drian |-> "drian", sound |-> "sound",
     noise |-> "noise", works |-> "work", dead |-> "dead", operate |-> "operate", not |-> "not",
     the |-> "the", really |-> "really", washer |-> "washer", clothes |-> "clothes", dryer |-> "dryer",
     car |-> "car"]
MCVocabulary == DOMAIN MCStem
MCSynonyms == [noise |-> "sound", work |-> "operate"]
MCTypeWords == [washer |-> "washer", dryer |-> "dryer"]
MCTypePairs == <<"clothes", "dryer">> :> "dryer" @@ <<"clothes", "washer">> :> "washer"
MCPhrases == <<[said |-> <<"sound", "leak">>, means |-> {"leak"}], [said |-> <<"dead">>, means |-> {NEG, "operate"}]>>
MCOneEdit == [w \in DOMAIN MCStem |-> IF w = "drian" THEN {"drain"} ELSE {}]

MCDescriptions ==
    {<<a>> : a \in {"leaks", "drian", "noise", "dead", "car"}}
    \cup {<<a, b>> : a \in {"not", "noise", "car"}, b \in {"drain", "works"}}
    \cup {<<"washer", "leaks">>, <<"clothes", "dryer", "leaks">>, <<"drain", "leaks", "car">>, <<"the", "drian", "really">>}

(* ln(1 + n / df), in thousandths.                                         *)
MCIdf == <<<<693>>, <<1099, 693>>, <<1386, 916, 693>>>>

Row(m, type, label, symptom, causes, continued) ==
    [manual |-> m, type |-> type, label |-> label, symptom |-> symptom, causes |-> causes, continued |-> continued]
MCRows ==
    {Row("washer manual", "washer", <<>>, <<"leaks">>, <<"drain">>, FALSE),
     Row("washer manual", "washer", <<>>, <<"not", "drain">>, <<"sound">>, FALSE),
     Row("washer manual", "washer", <<>>, <<"sound", "leak">>, <<>>, TRUE),
     Row("dryer manual", "dryer", <<>>, <<"sound">>, <<"leak">>, FALSE),
     Row("dryer manual", "dryer", <<"sound">>, <<"leak", "drain">>, <<>>, FALSE),
     Row("dryer manual", "dryer", <<>>, <<"not", "operate">>, <<"noise">>, FALSE)}

File(catalog, codes, symptoms) == [catalog |-> catalog, codes |-> codes, symptoms |-> symptoms]

MCFiles ==
    {File(MCEarly, <<>>, <<>>), File(MCEarly, <<CodeRecord("dryer manual", FALSE, 1, 1)>>, <<>>)}
    \cup
    {File(MCCatalog, codes, <<>>) : codes \in SeqOf(MCCodeRecords, 2)}
    \cup
    {File(MCCatalog, <<>>, SetToSeq(rows)) :
        rows \in {S \in SUBSET MCRows : Cardinality(S) = 3 /\ \E r \in S : r.continued}}

================================================================================
