------------------------------- MODULE ErrorCodes -------------------------------
(***************************************************************************)
(* The error-code index of the running server (retrieval/codes.py), built  *)
(* once from the records of data/index/error_codes.json.                   *)
(***************************************************************************)
EXTENDS Naturals, Sequences, SequencesExt

CONSTANTS
    Manuals,     \* manual ids
    Codes,       \* normalized codes
    LongCodes,   \* those longer than MAX_LOOKUPABLE_NORMALIZED_LEN
    Alike        \* per code, the codes difflib finds close to it, closest first

(* worded: the manufacturer's spelling holds a word such as "and" or       *)
(* "number", as a range or a placeholder does.  fields: how many of the    *)
(* content fields are populated.                                           *)
CodeRecords == [manual : Manuals, code : Codes, worded : BOOLEAN, fields : Nat, confidence : Nat]

IsLookupable(r) == r.code \notin LongCodes /\ ~r.worded

(* Ties keep the record that came first.                                   *)
MoreConfident(a, b) == IF a.confidence >= b.confidence THEN a ELSE b
BetterOf(a, b) ==
    IF a.fields > b.fields \/ (a.fields = b.fields /\ a.confidence >= b.confidence) THEN a ELSE b

SameEntry(a, b) == a.manual = b.manual /\ a.code = b.code

(* The dictionary of the records kept so far, and one record more.         *)
Entered(index, r) ==
    LET same == {k \in index : SameEntry(k, r)}
    IN  (index \ same) \cup (IF same = {} THEN {r} ELSE {BetterOf(k, r) : k \in same})

(* One record per manual and code.  In what order they are listed is never *)
(* used: who asks for several names each one.                              *)
LoadIndex(records) ==
    LET deduped[i \in 0 .. Len(records)] ==
            IF i = 0 THEN {} ELSE Entered(deduped[i - 1], records[i])
    IN  deduped[Len(records)]

ByCode(index, c) == {r \in index : IsLookupable(r) /\ r.code = c}

FamilyOf(index, m) == {r \in index : ~IsLookupable(r) /\ r.manual = m}

NearestCodes(index, c) ==
    LET known == SelectSeq(Alike[c], LAMBDA k : ByCode(index, k) # {})
    IN  SubSeq(known, 1, IF Len(known) < 3 THEN Len(known) ELSE 3)

================================================================================
