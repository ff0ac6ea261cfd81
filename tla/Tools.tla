---------------------------------- MODULE Tools ----------------------------------
(***************************************************************************)
(* The tools of the MCP server (tools/*.py) on one household's appliances, *)
(* kept by the SQLite repository (repository/sqlite.py): the customer adds *)
(* and removes appliances, days pass, the server restarts, perhaps with    *)
(* more manuals, and in between diagnose_error, diagnose_symptom and       *)
(* check_warranty answer.  A call is one step: the server answers from     *)
(* memory, under the store's lock.  Brands and models that differ in the   *)
(* case of letters only are one name; those that differ in the blanks      *)
(* around them are not.                                                    *)
(***************************************************************************)
EXTENDS ErrorCodes, SymptomSearch

CONSTANTS
    Files,          \* what the server may be started with: [catalog, codes, symptoms]
    Strip,          \* a brand or a model, without the blanks around it
    Canonical,      \* the name of a type, for each way to say it
    Products,       \* what customers own: [brand, model, type said, end]
    Seed,           \* DEFAULT_SEED's appliances of the household
    Descriptions,   \* symptom texts
    GenericTerms,
    Ids,            \* bound: the appliance ids that uuid4 makes, one after the other
    LastDay         \* bound: the days that pass

Names == DOMAIN Strip

Entry == [manual : Manuals, brand : Names, model : Names, type : STRING]

(* What validate_manifest.py demands and add_manual.py keeps: one entry    *)
(* for a manual and one for a product, with no blanks around its names.    *)
ASSUME CatalogAssumption ==
    /\ "" \notin Manuals
    /\ \A f \in Files :
         /\ f.catalog \in Seq(Entry)
         /\ \A i, j \in DOMAIN f.catalog :
              \/ f.catalog[i].manual = f.catalog[j].manual
              \/ f.catalog[i].brand = f.catalog[j].brand /\ f.catalog[i].model = f.catalog[j].model
              => i = j
         /\ \A e \in ToSet(f.catalog) : Strip[e.brand] = e.brand /\ Strip[e.model] = e.model

(* Records are of the catalog's manuals, and a symptom's row has the type  *)
(* of its manual (both scripts take it from the manifest).                 *)
ASSUME FilesAssumption ==
    \A f \in Files :
        /\ f.codes \in Seq(CodeRecords)
        /\ f.symptoms \in Seq(SymptomRecords(Manuals))
        /\ \A r \in ToSet(f.codes) : \E e \in ToSet(f.catalog) : r.manual = e.manual
        /\ \A r \in ToSet(f.symptoms) : \E e \in ToSet(f.catalog) : r.manual = e.manual /\ r.type = e.type
        /\ \A n \in 1 .. Len(f.symptoms) : Idf[n] \in [1 .. n -> Nat]

ASSUME HouseholdAssumption ==
    /\ Products \subseteq [brand : Names, model : Names, type : DOMAIN Canonical, end : Nat]
    /\ Seed \subseteq [id : STRING, brand : Names, model : Names, type : STRING, end : Nat,
                       manual : Manuals \cup {""}, known : {0}]
    /\ IsFiniteSet(Seed)
    /\ \A a \in Seed, f \in Files : a.manual # "" =>
         \E e \in ToSet(f.catalog) : e.manual = a.manual /\ e.brand = Strip[a.brand] /\ e.model = Strip[a.model]
    /\ \A a, b \in Seed : a.id = b.id => a = b
    /\ \A type \in DOMAIN Canonical : Canonical[type] # "none"

ASSUME CallsAssumption ==
    /\ Descriptions \subseteq Seq(Vocabulary)
    /\ Ids \in Seq(STRING)
    /\ \A i, j \in DOMAIN Ids : Ids[i] = Ids[j] => i = j
    /\ ToSet(Ids) \cap {a.id : a \in Seed} = {}
    /\ {"none", "new"} \cap (ToSet(Ids) \cup {a.id : a \in Seed}) = {}
    /\ LastDay \in Nat \ {0}

VARIABLES
    files,   \* the files the server has loaded
    index,   \* ErrorCodeIndex
    groups,  \* SymptomIndex.groups
    owned,   \* the rows of the household
    added,   \* appliances added so far; uuid4 never gives an id again
    today,
    said     \* the last call and its answer, until it is told

vars == <<files, index, groups, owned, added, today, said>>

None == "none"

(* The manual catalog, in the manifest's order.                            *)
Catalog == files.catalog

(* The first entry for the names said, without the blanks around them.     *)
ManualForAsSaid(brand, model) ==
    LET entries == {i \in DOMAIN Catalog : Catalog[i].brand = brand /\ Catalog[i].model = model}
    IN  IF entries = {} THEN "" ELSE Catalog[CHOOSE i \in entries : \A j \in entries : i <= j].manual
ManualFor(brand, model) ==
    LET entries == {i \in DOMAIN Catalog : Catalog[i].brand = Strip[brand] /\ Catalog[i].model = Strip[model]}
    IN  IF entries = {} THEN "" ELSE Catalog[CHOOSE i \in entries : \A j \in entries : i <= j].manual

(* The row keeps the names as they were said, and for ever the manual that *)
(* there was then.  known: history, how many manuals the server knew.      *)
Appliance(id, p) ==
    [id |-> id, brand |-> p.brand, model |-> p.model, type |-> Canonical[p.type], end |-> p.end,
     manual |-> ManualFor(p.brand, p.model), known |-> Len(Catalog)]

(***************************************************************************)
(* What a call asks for, None where a parameter is not given, and what it  *)
(* answers.                                                                *)
(***************************************************************************)
NoRequest ==
    [tool |-> None, code |-> None, description |-> <<>>, household |-> TRUE,
     id |-> None, type |-> None, brand |-> None, model |-> None]

Answer == [status |-> "not_found", registered |-> None, id |-> None, cites |-> "", suggests |-> FALSE,
           choices |-> {}, nearest |-> <<>>, days |-> 0]

Found(a, m) == [Answer EXCEPT !.status = "found", !.registered = "yes", !.id = a.id, !.cites = m]

Documented(m) == [Answer EXCEPT !.status = "found", !.registered = "no", !.cites = m, !.suggests = TRUE]

Ambiguous(ids) == [Answer EXCEPT !.status = "ambiguous_appliance", !.choices = ids]

Given(parameter, value) == parameter \in {None, value}

GivenType(type, a) == type = None \/ Canonical[type] = a.type

Only(S) == CHOOSE x \in S : TRUE

(* resolve_owned_appliances, on what the household owns.                   *)
ResolvedByNameFirst(mine, q) ==
    {a \in mine : IF {q.brand, q.model} = {None} THEN Given(q.id, a.id)
                  ELSE Given(q.brand, a.brand) /\ Given(q.model, a.model)}
Resolved(mine, q) == {a \in mine : Given(q.id, a.id) /\ Given(q.brand, a.brand) /\ Given(q.model, a.model)}

(***************************************************************************)
(* diagnose_error                                                          *)
(***************************************************************************)
ProductOf(m) == Catalog[CHOOSE i \in DOMAIN Catalog : Catalog[i].manual = m]

(* pair_owned_with_records: the index has one record per manual and code.  *)
AnyRecord(a, records) == records # {}
ItsManual(a, records) == \E r \in records : r.manual = a.manual

CodeNotFound(mine, q) ==
    [Answer EXCEPT !.nearest = NearestCodes(index, q.code), !.suggests = q.household /\ mine = {},
                   !.cites = IF Cardinality(mine) = 1 /\ FamilyOf(index, Only(mine).manual) # {}
                             THEN Only(mine).manual ELSE ""]

Unowned(q, records) ==
    {m \in {r.manual : r \in records} : Given(q.brand, ProductOf(m).brand) /\ Given(q.model, ProductOf(m).model)}

DiagnoseError(own, q) ==
    LET records == ByCode(index, q.code)
        mine == IF q.household THEN Resolved(own, q) ELSE {}
        matches == {a \in mine : ItsManual(a, records)}
        others == Unowned(q, records)
    IN  CASE Cardinality(matches) = 1 -> Found(Only(matches), Only(matches).manual)
          [] Cardinality(matches) > 1 -> Ambiguous({a.id : a \in matches})
          [] matches = {} /\ Cardinality(others) = 1 ->
                 IF q.household THEN Documented(Only(others))
                 ELSE [Documented(Only(others)) EXCEPT !.registered = None, !.suggests = FALSE]
          [] matches = {} /\ Cardinality(others) > 1 -> Ambiguous({})
          [] OTHER -> CodeNotFound(mine, q)

(***************************************************************************)
(* diagnose_symptom                                                        *)
(***************************************************************************)
AllManuals == {groups[g].manual : g \in DOMAIN groups}
AllTypes == {groups[g].type : g \in DOMAIN groups}

SearchIn(analysis, manuals, type) ==
    [terms |-> analysis.terms, negated |-> analysis.negated, manuals |-> manuals,
     types |-> IF type = None THEN AllTypes ELSE {type}]

(* The type said by the caller, or the only one in the customer's words.   *)
TypeMeant(q, analysis) ==
    IF q.type # None THEN Canonical[q.type]
    ELSE IF Cardinality(analysis.types) = 1 THEN Only(analysis.types) ELSE None

(* "It doesn't work", of no appliance, is looked up nowhere.               *)
Anchored(q, analysis) ==
    [analysis EXCEPT !.terms = IF @ \subseteq GenericTerms /\ analysis.types = {} /\ q.type = None THEN {} ELSE @]

HitManuals(queries) ==
    UNION {{groups[s.group].manual : s \in Search(groups, query)} :
               query \in {query \in queries : query.terms # {}}}

SymptomAnswer(own, q, analysis) ==
    LET type == TypeMeant(q, analysis)
        mine == {a \in Resolved(own, q) : Given(type, a.type)}
        manuals == {a.manual : a \in mine} \ {""}
        hits == {a \in mine : a.manual \in HitManuals({SearchIn(analysis, manuals, type)})}
        others == HitManuals({SearchIn(analysis, AllManuals, type)})
        scope == IF manuals = {} THEN AllManuals ELSE manuals
    IN  CASE Cardinality(hits) = 1 -> Found(Only(hits), Only(hits).manual)
          [] Cardinality(hits) > 1 -> Ambiguous({a.id : a \in hits})
          [] hits = {} /\ Cardinality(others) = 1 -> Documented(Only(others))
          [] hits = {} /\ Cardinality(others) > 1 -> Ambiguous({})
          [] OTHER -> [Answer EXCEPT !.suggests = mine = {},
                                     !.nearest = NearestPhrases(groups, SearchIn(analysis, scope, type))]

(* The description is read once: a bound value, which TLC keeps.           *)
DiagnoseSymptom(own, q) ==
    Only({SymptomAnswer(own, q, Anchored(q, analysis)) : analysis \in {AnalyzeQuery(q.description, TermsOf(groups))}})

(***************************************************************************)
(* check_warranty: appliance_id wins outright                              *)
(***************************************************************************)
Asked(own, q) ==
    IF q.id # None THEN {a \in own : a.id = q.id}
    ELSE {a \in own : GivenType(q.type, a) /\ Given(q.brand, a.brand) /\ Given(q.model, a.model)}

NoEnd == 0

(* The last day of the warranty is covered.                                *)
DatedSigned(a) ==
    [Answer EXCEPT !.id = a.id, !.status = IF a.end >= today THEN "active" ELSE "expired", !.days = a.end - today]
Dated(a) ==
    [Answer EXCEPT !.id = a.id,
                   !.status = IF a.end = NoEnd THEN "unknown" ELSE IF a.end >= today THEN "active" ELSE "expired",
                   !.days = IF a.end = NoEnd THEN 0 ELSE IF a.end >= today THEN a.end - today ELSE today - a.end]

CheckWarranty(own, q) ==
    LET matches == Asked(own, q)
    IN  CASE Cardinality(matches) = 1 -> Dated(Only(matches))
          [] Cardinality(matches) > 1 -> Ambiguous({a.id : a \in matches})
          [] OTHER -> Answer

Called(own, q) ==
    CASE q.tool = "diagnose_error" -> DiagnoseError(own, q)
      [] q.tool = "diagnose_symptom" -> DiagnoseSymptom(own, q)
      [] q.tool = "check_warranty" -> CheckWarranty(own, q)

(***************************************************************************)
(* The household                                                           *)
(***************************************************************************)
Optional(S) == S \cup {None}
IdsGiven == Optional(ToSet(Ids) \cup {a.id : a \in Seed})
BrandsGiven == Optional({p.brand : p \in Products})
ModelsGiven == Optional({p.model : p \in Products})
TypesGiven == Optional({p.type : p \in Products})

Requests ==
    [tool : {"diagnose_error"}, code : Codes, description : {<<>>}, household : BOOLEAN,
     id : IdsGiven, type : {None}, brand : BrandsGiven, model : ModelsGiven]
    \cup
    [tool : {"diagnose_symptom"}, code : {None}, description : Descriptions, household : {TRUE},
     id : IdsGiven, type : TypesGiven, brand : {None}, model : {None}]
    \cup
    [tool : {"check_warranty"}, code : {None}, description : {<<>>}, household : {TRUE},
     id : IdsGiven, type : TypesGiven, brand : BrandsGiven, model : ModelsGiven]

Silent == [request |-> NoRequest, answer |-> Answer]

Call(q) ==
    /\ said = Silent
    /\ said' = [request |-> q, answer |-> Called(owned, q)]
    /\ UNCHANGED <<files, index, groups, owned, added, today>>

(* A call changes nothing: what comes after its answer could come before.  *)
Told ==
    /\ said # Silent
    /\ said' = Silent
    /\ UNCHANGED <<files, index, groups, owned, added, today>>

AddAppliance(p) ==
    /\ said = Silent
    /\ added < Len(Ids)
    /\ owned' = owned \cup {Appliance(Ids[added + 1], p)}
    /\ added' = added + 1
    /\ UNCHANGED <<files, index, groups, today, said>>

RemoveAppliance(a) ==
    /\ said = Silent
    /\ owned' = owned \ {a}
    /\ UNCHANGED <<files, index, groups, added, today, said>>

DayPasses ==
    /\ said = Silent
    /\ today < LastDay
    /\ today' = today + 1
    /\ UNCHANGED <<files, index, groups, owned, added, said>>

(* The files are loaded once.  By then add_manual.py may have appended to  *)
(* the manifest, and both indexes may have been extracted anew.            *)
Loads ==
    /\ files' \in {f \in Files : IsPrefix(Catalog, f.catalog)}
    /\ index' = LoadIndex(files'.codes)
    /\ groups' = BuildGroups(files'.symptoms)

(* An empty store is seeded, the rows of another are kept as they are.     *)
Restart ==
    /\ said = Silent
    /\ Loads
    /\ owned' = IF owned = {} THEN Seed ELSE owned
    /\ UNCHANGED <<added, today, said>>

Init ==
    /\ files \in Files
    /\ index = LoadIndex(files.codes)
    /\ groups = BuildGroups(files.symptoms)
    /\ owned = Seed
    /\ added = 0
    /\ today = 1
    /\ said = Silent

Next ==
    \/ \E q \in Requests : Call(q)
    \/ \E p \in Products : AddAppliance(p)
    \/ \E a \in owned : RemoveAppliance(a)
    \/ Told \/ DayPasses \/ Restart

Spec == Init /\ [][Next]_vars

TypeOK ==
    /\ files \in Files
    /\ index \subseteq ToSet(files.codes)
    /\ \A a \in owned : a.id \in IdsGiven \ {None} /\ a.manual \in Manuals \cup {""}
    /\ \A a, b \in owned : a.id = b.id => a = b
    /\ added \in 0 .. Len(Ids) /\ today \in 1 .. LastDay
    /\ said.request \in Requests \cup {NoRequest}
    /\ said.answer.cites \in Manuals \cup {""} /\ said.answer.id \in IdsGiven
    /\ said.answer.days \in Nat

(***************************************************************************)
(* Properties                                                              *)
(***************************************************************************)
Fits(a, q) == Given(q.id, a.id) /\ Given(q.brand, a.brand) /\ Given(q.model, a.model) /\ GivenType(q.type, a)

(* Asked about this appliance alone, the tool would cite its manual.       *)
Documents(a, q) == q.tool = "check_warranty" \/ Called({a}, q).registered = "yes"

(* "which appliance rather than guessing": an answer given for one of the  *)
(* household's appliances is given only when no other one fits what was    *)
(* asked, and what it cites is that appliance's own manual, which has the  *)
(* code that was asked about.                                              *)
NeverGuessed ==
    LET q == said.request
        answer == said.answer
    IN  answer.id # None =>
            \E a \in owned :
                /\ a.id = answer.id
                /\ {b \in owned : (IF q.tool = "check_warranty" /\ q.id # None THEN b.id = q.id ELSE Fits(b, q))
                                  /\ Documents(b, q)} = {a}
                /\ q.tool # "check_warranty" => answer.cites = a.manual
                /\ q.tool = "diagnose_error" =>
                      \E r \in ToSet(files.codes) : r.manual = a.manual /\ r.code = q.code

(* What the manual is for, whatever blanks were typed around its names.    *)
IsProduct(a, m) == Strip[a.brand] = ProductOf(m).brand /\ Strip[a.model] = ProductOf(m).model

(* "documented for an appliance the household hasn't registered": asked    *)
(* about one of its appliances, the household is never told of another one *)
(* that it has registered that it has not.                                 *)
NeverDisowned ==
    LET q == said.request
        answer == said.answer
    IN  answer.registered = "no" /\ q.id \in {a.id : a \in owned} /\ {q.brand, q.model} = {None} =>
            \A a \in owned : ~IsProduct(a, answer.cites)

(* What is registered is said not to be for four reasons only: the caller  *)
(* gave another id, which narrows the household and not the other manuals; *)
(* the appliance was added before its manual was, and is never linked to   *)
(* it; it was added as another type than its manual is for; or blanks were *)
(* typed around its brand or model, which the caller names.                *)
AddedBefore(a, m) == a.manual = "" /\ \A i \in 1 .. a.known : Catalog[i].manual # m

PaddedFor(a, q) ==
    \/ q.brand # None /\ Strip[a.brand] # a.brand
    \/ q.model # None /\ Strip[a.model] # a.model

DisownedOnlyForCause ==
    LET q == said.request
        m == said.answer.cites
    IN  said.answer.registered = "no" =>
            \A a \in owned : IsProduct(a, m) =>
                \/ ~Given(q.id, a.id)
                \/ AddedBefore(a, m)
                \/ q.tool = "diagnose_symptom" /\ a.type # ProductOf(m).type
                \/ PaddedFor(a, q)

(* What an answer proposes works: an appliance that it offers, named by    *)
(* its id, is answered for, whatever was added or removed meanwhile; and   *)
(* so is the documented appliance it says is not registered, once that is  *)
(* added as the answer names it.                                           *)
Repeated == {[said.request EXCEPT !.id = id] : id \in said.answer.choices}

Added(products) == {Appliance("new", p) : p \in products}

Changed ==
    {(owned \ gone) \cup more : gone \in SUBSET owned, more \in {{}} \cup {{a} : a \in Added(Products)}}

Suggested ==
    Added({p \in Products : LET product == ProductOf(said.answer.cites)
                            IN  /\ p.brand = product.brand /\ p.model = product.model
                                /\ Canonical[p.type] = product.type})

ProposalsWork ==
    /\ \A q \in Repeated, household \in Changed :
          (\E a \in household : a.id = q.id) => Called(household, q).id = q.id
    /\ said.answer.registered = "no" /\ said.request.id = None =>
          \A household \in {owned \cup {a} : a \in Suggested} : Called(household, said.request).id = "new"

(* Each entry of the file is served by its best record, and a range or a   *)
(* placeholder by none, whatever the order of the records.                 *)
BestRecordsServed ==
    \A c \in Codes, m \in Manuals :
        LET raw == {r \in ToSet(files.codes) : r.code = c /\ r.manual = m}
            best == {r \in raw : \A s \in raw : r.fields > s.fields
                                    \/ (r.fields = s.fields /\ r.confidence >= s.confidence)}
            served == {r \in ByCode(index, c) : r.manual = m}
        IN  /\ Cardinality(served) <= 1
            /\ \A r \in served : r \in best /\ IsLookupable(r)
            /\ (raw # {} /\ \A r \in best : IsLookupable(r)) => served # {}

(* "an unknown word is a reason to doubt a match": saying one more never   *)
(* brings a manual up, and a description that is about something else is   *)
(* answered with nothing, not even a phrase.                               *)
HitsFor(analysis) == HitManuals({SearchIn(analysis, AllManuals, None)})

UnknownWordsOnlyDoubt ==
    said.request.tool = "diagnose_symptom" =>
        \A analysis \in {AnalyzeQuery(said.request.description, TermsOf(groups))} :
            /\ \A w \in Vocabulary : {Fold(w)} \cap TermsOf(groups) = {} /\ analysis.terms # {} =>
                   HitsFor([analysis EXCEPT !.terms = @ \cup {Fold(w)}]) \subseteq HitsFor(analysis)
            /\ IsOffTopic(groups, analysis.terms) =>
                   said.answer.status = "not_found" /\ said.answer.nearest = <<>>

================================================================================
