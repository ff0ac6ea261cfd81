---------------------------- MODULE CodeExtraction ----------------------------
(***************************************************************************)
(* From a manual's PDF to error-code records in data/index/error_codes.json*)
(* (scripts/parse_manuals.py, extract_codes.py, add_manual.py).  A script  *)
(* asks the extractor about one chunk of text after the other, keeps every *)
(* answer in a cache file named after the text and the extractor, and      *)
(* merges the records into the index at its end.                           *)
(***************************************************************************)
EXTENDS ManualFiles

CONSTANTS
    Chunks,         \* the texts of the chunks worth extracting from
    CandidatesOf,   \* what select_candidates takes from each manual's versions
    Extractors,     \* the extractor tags: "stub" and the Bedrock models'
    FirstIndex      \* the index in the repository

(* A record cites the manual whose chunk was asked about; chunk is the     *)
(* text it was read from and by the extractor that read it.                *)
Record == [manual : Manuals, chunk : Chunks, by : Extractors]
Slots == Chunks \X Extractors

ASSUME CodeAssumption ==
    /\ CandidatesOf \in [Manuals -> [Versions -> Seq(Chunks)]]
    /\ "stub" \in Extractors
    /\ FirstIndex \in Seq(Record)
    /\ \A i \in DOMAIN FirstIndex : \E j \in DOMAIN FirstManifest : FirstIndex[i].manual = FirstManifest[j].id
    /\ \A i, j \in DOMAIN FirstIndex :
         FirstIndex[i].manual = FirstIndex[j].manual => FirstIndex[i].by = FirstIndex[j].by

VARIABLES
    parsed,     \* per manual: the version that parsed/<id>.json was made from
    cache,      \* the answers in .extract_cache
    index,      \* error_codes.json
    tool,       \* the script that runs, see ToolLocals
    paid,       \* history: answers bought of each Bedrock model, without --force
    wasted,     \* history: those lost because the script was killed
    emptied     \* history: a script was killed while it wrote the manifest

codeVars == <<parsed, cache, index, tool, paid, wasted, emptied>>

NoAnswer == [file |-> NoFile, records |-> <<>>]
TornAnswer == [file |-> Torn, records |-> <<>>]
Kept(records) == [file |-> "kept", records |-> records]

(* at: the step to come.  named: the manuals in the order they were named, *)
(* one as often as it was; targets: those whose records the merge replaces;*)
(* todo: those still to be processed; next: the current one's next chunk;  *)
(* answer: the extractor's last; records: all those collected.             *)
NoTool ==
    [name |-> "none", at |-> "off", by |-> "stub", force |-> FALSE, entry |-> FirstManifest[1],
     named |-> <<>>, targets |-> {}, todo |-> <<>>, manual |-> FirstManifest[1].id, next |-> 1,
     answer |-> <<>>, records |-> <<>>]

ToolAt(step) == tool.at = step
GoesTo(step) == tool' = [tool EXCEPT !.at = step]
Stops == tool' = NoTool

Candidates == CandidatesOf[tool.manual][parsed[tool.manual]]
RecordsOf(records, m) == Keep(records, {i \in DOMAIN records : records[i].manual = m})
RecordsIn(records, targets) == Keep(records, {i \in DOMAIN records : records[i].manual \in targets})
RecordsBut(records, targets) == Keep(records, {i \in DOMAIN records : records[i].manual \notin targets})

(***************************************************************************)
(* parse_manuals.py, on one PDF                                            *)
(***************************************************************************)
Parse(m) ==
    /\ ToolAt("off") /\ HasPdf(m)
    /\ Starts
    /\ parsed' = [parsed EXCEPT ![m] = pdfs[m]]
    /\ UNCHANGED <<manifest, pdfs, crashes, cache, index, tool, paid, wasted, emptied>>

ParseKilled(m) ==
    /\ ToolAt("off") /\ HasPdf(m)
    /\ Starts /\ Killed
    /\ parsed' = [parsed EXCEPT ![m] = Torn]
    /\ UNCHANGED <<manifest, pdfs, cache, index, tool, paid, wasted, emptied>>

(***************************************************************************)
(* add_manual.py, up to the extraction.  Nothing is written before the     *)
(* arguments, the download, its content and the downgrade have passed.     *)
(***************************************************************************)
KnownProduct(e) == \E i \in DOMAIN manifest : manifest[i].product = e.product
KnownEntry(e) == \E i \in DOMAIN manifest : manifest[i] = e

NewId(e) == e.id \notin ManifestIds
NewProduct(e) == \A i \in DOMAIN manifest : manifest[i].product # e.product

(* An id must come back with its own fields, a product with its own id.    *)
ValidById(e) == KnownEntry(e) \/ NewId(e)
Valid(e) == KnownEntry(e) \/ (NewId(e) /\ NewProduct(e))

(* The stub fills in no meaning: it may not replace records that have one, *)
(* unless --allow-downgrade is given.  Without it a torn index raises.     *)
HasContent(m) ==
    \/ index.file = Torn
    \/ \E i \in DOMAIN index.records : index.records[i].manual = m /\ index.records[i].by # "stub"

AddManual(e, by) ==
    /\ ToolAt("off") /\ Valid(e)
    /\ \E allowed \in BOOLEAN : by # "stub" \/ allowed \/ ~HasContent(e.id)
    /\ Starts
    /\ tool' = [NoTool EXCEPT !.name = "add_manual", !.by = by, !.entry = e, !.named = <<e.id>>,
                              !.targets = {e.id}, !.manual = e.id,
                              !.at = IF KnownEntry(e) THEN "keep_pdf" ELSE "append"]
    /\ UNCHANGED <<manifest, pdfs, crashes, parsed, cache, index, paid, wasted, emptied>>

AppendEntry ==
    /\ ToolAt("append")
    /\ manifest' = Append(manifest, tool.entry)
    /\ GoesTo("keep_pdf")
    /\ UNCHANGED <<pdfs, runs, crashes, parsed, cache, index, paid, wasted, emptied>>

KeepPdf ==
    /\ ToolAt("keep_pdf")
    /\ Download(tool.manual)
    /\ GoesTo("parse")
    /\ UNCHANGED <<manifest, runs, crashes, parsed, cache, index, paid, wasted, emptied>>

(* A PDF without text parses into no chunks, and is given up.              *)
ParsePdf ==
    /\ ToolAt("parse")
    /\ parsed' = [parsed EXCEPT ![tool.manual] = pdfs[tool.manual]]
    /\ \/ GoesTo("confirm")
       \/ CandidatesOf[tool.manual][pdfs[tool.manual]] = <<>> /\ Stops
    /\ UNCHANGED <<manifest, pdfs, runs, crashes, cache, index, paid, wasted, emptied>>

(* Only chunks to be bought are asked about, and the answer may be "no".   *)
ToSend == {i \in DOMAIN Candidates : cache[<<Candidates[i], tool.by>>].file = NoFile}

Confirm ==
    /\ ToolAt("confirm")
    /\ \/ GoesTo("chunk")
       \/ tool.by # "stub" /\ ToSend # {} /\ Stops
    /\ UNCHANGED <<fileVars, parsed, cache, index, paid, wasted, emptied>>

(***************************************************************************)
(* extract_codes.py, and the extraction both share (process_manual).  A    *)
(* manual that is named twice is processed twice.                          *)
(***************************************************************************)
ExtractCodes(manuals, by, force) ==
    /\ ToolAt("off")
    /\ Starts
    /\ tool' = [NoTool EXCEPT !.name = "extract_codes", !.at = "manual", !.by = by, !.force = force,
                              !.named = manuals, !.targets = ToSet(manuals), !.todo = manuals]
    /\ UNCHANGED <<manifest, pdfs, crashes, parsed, cache, index, paid, wasted, emptied>>

NextManual ==
    /\ ToolAt("manual")
    /\ parsed[Head(tool.todo)] \notin {NoFile, Torn}
    /\ tool' = [tool EXCEPT !.at = "chunk", !.manual = Head(tool.todo), !.todo = Tail(@), !.next = 1]
    /\ UNCHANGED <<fileVars, parsed, cache, index, paid, wasted, emptied>>

Slot == <<Candidates[tool.next], tool.by>>

(* The key of a cache file: a hash of the extractor's tag and of the text. *)
SlotOfAnyExtractor == <<Candidates[tool.next], "stub">>
CacheKey == Slot

CachedIfAnyCode == cache[CacheKey].records # <<>> /\ ~tool.force
Cached == cache[CacheKey].file # NoFile /\ ~tool.force

MoreChunks == ToolAt("chunk") /\ tool.next <= Len(Candidates)

CollectedLast(records) == [tool EXCEPT !.at = "chunk", !.next = @ + 1, !.records = records]
Collected(records) == [tool EXCEPT !.at = "chunk", !.next = @ + 1, !.records = @ \o records]

TakeCached ==
    /\ MoreChunks /\ Cached
    /\ cache[CacheKey].file # Torn
    /\ tool' = Collected(cache[CacheKey].records)
    /\ UNCHANGED <<fileVars, parsed, cache, index, paid, wasted, emptied>>

(* The stub finds the same codes in the same text.  The model's answer may *)
(* hold no code, or none of its attempts parses: both are an empty list.   *)
Answers(m, c, by) ==
    LET found == <<[manual |-> m, chunk |-> c, by |-> by]>>
    IN  IF by = "stub" THEN {found} ELSE {found, <<>>}

Bought == tool.by # "stub" /\ ~tool.force

Ask ==
    /\ MoreChunks /\ ~Cached
    /\ \E answer \in Answers(tool.manual, Candidates[tool.next], tool.by) :
         tool' = [tool EXCEPT !.at = "keep", !.answer = answer]
    /\ paid' = IF Bought THEN [paid EXCEPT ![Slot] = @ + 1] ELSE paid
    /\ UNCHANGED <<fileVars, parsed, cache, index, wasted, emptied>>

KeepAnswer ==
    /\ ToolAt("keep")
    /\ cache' = [cache EXCEPT ![CacheKey] = Kept(tool.answer)]
    /\ tool' = Collected(tool.answer)
    /\ UNCHANGED <<fileVars, parsed, index, paid, wasted, emptied>>

ManualDone ==
    /\ ToolAt("chunk") /\ tool.next > Len(Candidates)
    /\ GoesTo(IF tool.todo = <<>> THEN "merge" ELSE "manual")
    /\ UNCHANGED <<fileVars, parsed, cache, index, paid, wasted, emptied>>

(* A call to Bedrock raises; a file that is missing or torn is not JSON:   *)
(* the script ends, and what it holds in memory is lost.                   *)
ToolFails ==
    /\ \/ ToolAt("manual") /\ parsed[Head(tool.todo)] \in {NoFile, Torn}
       \/ MoreChunks /\ Cached /\ cache[CacheKey].file = Torn
       \/ MoreChunks /\ ~Cached /\ tool.by # "stub"
       \/ ToolAt("merge") /\ index.file = Torn
    /\ Stops
    /\ UNCHANGED <<fileVars, parsed, cache, index, paid, wasted, emptied>>

(***************************************************************************)
(* The merge, and what a killed script leaves                              *)
(***************************************************************************)
MergedOverAll == Kept(tool.records)
Merged == Kept(RecordsBut(index.records, tool.targets) \o tool.records)

Merge ==
    /\ ToolAt("merge") /\ index.file # Torn
    /\ index' = Merged
    /\ Stops
    /\ UNCHANGED <<fileVars, parsed, cache, paid, wasted, emptied>>

(* extract_codes writes the index in place, add_manual replaces it by a    *)
(* file it has finished.  A manifest cut short is an empty one.            *)
IndexLeft ==
    IF tool.name = "extract_codes" THEN CutWrite(index, Merged, TornAnswer) ELSE {index, Merged}

ToolKilled ==
    /\ ~ToolAt("off") /\ Killed
    /\ manifest' \in IF ToolAt("append") THEN CutWrite(manifest, Append(manifest, tool.entry), <<>>)
                     ELSE {manifest}
    /\ emptied' = (emptied \/ (ToolAt("append") /\ manifest' = <<>>))
    /\ pdfs' \in IF ToolAt("keep_pdf") THEN {pdfs, [pdfs EXCEPT ![tool.manual] = Torn]} ELSE {pdfs}
    /\ parsed' \in IF ToolAt("parse") THEN {parsed, [parsed EXCEPT ![tool.manual] = Torn]} ELSE {parsed}
    /\ cache' \in IF ToolAt("keep")
                   THEN {[cache EXCEPT ![CacheKey] = a] :
                            a \in CutWrite(cache[CacheKey], Kept(tool.answer), TornAnswer)}
                   ELSE {cache}
    /\ wasted' = IF ToolAt("keep") /\ Bought /\ cache' = cache
                 THEN [wasted EXCEPT ![Slot] = @ + 1] ELSE wasted
    /\ index' \in IF ToolAt("merge") /\ index.file # Torn THEN IndexLeft ELSE {index}
    /\ Stops
    /\ UNCHANGED <<runs, paid>>

CodeInit ==
    /\ parsed = [m \in Manuals |-> NoFile]
    /\ cache = [s \in Slots |-> NoAnswer]
    /\ index = Kept(FirstIndex)
    /\ tool = NoTool
    /\ paid = [s \in Slots |-> 0]
    /\ wasted = [s \in Slots |-> 0]
    /\ emptied = FALSE

ExtractStep == NextManual \/ TakeCached \/ Ask \/ KeepAnswer \/ ManualDone \/ ToolFails \/ Merge

AddStep == AppendEntry \/ KeepPdf \/ ParsePdf \/ Confirm

CodeStarts ==
    \/ \E m \in Manuals : Parse(m) \/ ParseKilled(m)
    \/ \E e \in Entries, by \in Extractors : AddManual(e, by)
    \/ \E manuals \in Listings, by \in Extractors, force \in BOOLEAN : ExtractCodes(manuals, by, force)

CodeNext == CodeStarts \/ AddStep \/ ExtractStep \/ ToolKilled

CodeTypeOK ==
    /\ parsed \in [Manuals -> Versions \cup {NoFile, Torn}]
    /\ \A s \in Slots : cache[s].file \in {NoFile, Torn, "kept"} /\ cache[s].records \in Seq(Record)
    /\ index.file \in {Torn, "kept"} /\ index.records \in Seq(Record)
    /\ tool.name \in {"none", "add_manual", "extract_codes"}
    /\ tool.at \in {"off", "append", "keep_pdf", "parse", "confirm", "manual", "chunk", "keep", "merge"}
    /\ tool.by \in Extractors /\ tool.targets = ToSet(tool.named) /\ ToSet(tool.todo) \subseteq tool.targets
    /\ tool.records \in Seq(Record) /\ tool.next \in Nat
    /\ paid \in [Slots -> Nat] /\ wasted \in [Slots -> Nat]

(***************************************************************************)
(* Properties                                                              *)
(***************************************************************************)
(* add_manual is idempotent: however often it is run, killed and run again *)
(* with any arguments, no id and no product has two entries.               *)
OneEntryPerManual ==
    \A i, j \in DOMAIN manifest :
        i # j => manifest[i].id # manifest[j].id /\ manifest[i].product # manifest[j].product

(* What the index cites can be found: a manual is in the manifest before   *)
(* its records are in the index, in any order of scripts and wherever they *)
(* are killed, but in the append itself.                                   *)
IndexedIsInManifest ==
    emptied \/ \A i \in DOMAIN index.records : index.records[i].manual \in ManifestIds

(* "a re-run with the same extractor costs nothing": whatever failed in    *)
(* between, an extractor's answer about a chunk is bought once, and once   *)
(* more for an answer that was lost in a kill.                             *)
BoughtOnce == \A s \in Slots : paid[s] <= 1 + wasted[s]

(* Changing the extractor never serves the other one's answers: neither in *)
(* the cache nor in the index do a manual's records mix.                   *)
ExtractorsNeverMix ==
    /\ \A s \in Slots, r \in Record : s[2] # r.by => ~Contains(cache[s].records, r)
    /\ \A i, j \in DOMAIN index.records :
         index.records[i].manual = index.records[j].manual => index.records[i].by = index.records[j].by

(* A merge touches the records of the manuals it was asked for, no other.  *)
OthersUntouched ==
    [][index' # index /\ index'.file # Torn =>
         \A m \in Manuals \ tool.targets :
             RecordsOf(index'.records, m) = RecordsOf(index.records, m)]_index

(* The answers in the cache to a manual's chunks, one after the other.     *)
CachedRecords(m, by) ==
    FlattenSeq([i \in DOMAIN CandidatesOf[m][parsed[m]] |-> cache[<<CandidatesOf[m][parsed[m]][i], by>>].records])

NamedOnce == \A i, j \in DOMAIN tool.named : i # j => tool.named[i] # tool.named[j]

(* After a merge the index holds, of the manuals it was asked for, what    *)
(* the extractor said about the text they have now, each chunk in its      *)
(* order, as often as its manual was named; and nothing of an older        *)
(* version or of a run that failed.  With --force a manual named twice is  *)
(* asked about twice, and the index holds both answers, the cache one.     *)
IndexIsWhatWasRead ==
    [][index' # index /\ index'.file # Torn /\ (tool.force => NamedOnce) =>
         RecordsIn(index'.records, tool.targets) =
             FlattenSeq([i \in DOMAIN tool.named |-> CachedRecords(tool.named[i], tool.by)])]_index

================================================================================
