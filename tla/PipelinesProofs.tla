--------------------------- MODULE PipelinesProofs ---------------------------
(***************************************************************************)
(* Safety of the scripts that build the index, for any manuals, texts,     *)
(* extractors and tables, and any number of runs and kills.                *)
(***************************************************************************)
EXTENDS Pipelines, Induction

(***************************************************************************)
(* The types, and where the script's position makes what it reads exist    *)
(***************************************************************************)
Positions == {"off", "append", "keep_pdf", "parse", "confirm", "manual", "chunk", "keep", "merge"}

Files(content) == [file : {NoFile, Torn, "kept"}, records : content]

Tool ==
    [name : {"none", "add_manual", "extract_codes"}, at : Positions, by : Extractors, force : BOOLEAN,
     entry : Entries, named : Seq(Manuals), targets : SUBSET Manuals, todo : Seq(Manuals), manual : Manuals,
     next : Nat \ {0}, answer : Seq(Record), records : Seq(Record)]

ToolHas ==
    /\ tool.targets = ToSet(tool.named) /\ ToSet(tool.todo) \subseteq tool.targets
    /\ ToolAt("manual") => tool.todo # <<>>
    /\ ToolAt("append") => tool.manual = tool.entry.id
    /\ ToolAt("parse") => pdfs[tool.manual] \in Versions
    /\ tool.at \in {"confirm", "chunk", "keep"} => parsed[tool.manual] \in Versions
    /\ tool.at \in {"append", "keep_pdf", "parse", "confirm", "chunk", "keep"} =>
         tool.manual \in tool.targets
    /\ ToolAt("keep") => tool.next \in 1 .. Len(Candidates)

CodeInv ==
    /\ parsed \in [Manuals -> Versions \cup {NoFile, Torn}]
    /\ cache \in [Slots -> Files(Seq(Record))]
    /\ index \in Files(Seq(Record)) /\ index.file # NoFile
    /\ tool \in Tool /\ ToolHas
    /\ paid \in [Slots -> Nat] /\ wasted \in [Slots -> Nat] /\ emptied \in BOOLEAN

Batch ==
    [at : {"off", "manual", "read", "table", "keep", "merge"}, force : BOOLEAN,
     todo : Seq(Manuals), manual : Manuals, next : Nat \ {0}, attempt : 1 .. MaxAttempts,
     copies : Seq(Copy), spent : Nat]

BatchHas ==
    /\ batch.at \in {"table", "keep", "merge"} => pdfs[batch.manual] \in Versions
    /\ BatchAt("keep") => batch.next \in 1 .. Len(TablesHere)

SymptomInv ==
    /\ answers \in [Tables -> {NoFile, Torn} \cup Verdicts]
    /\ symptoms \in [file : {Torn, "kept"}, of : [Manuals -> Seq(Copy)]]
    /\ batch \in Batch /\ BatchHas

PipelinesInv == FilesTypeOK /\ CodeInv /\ SymptomInv

(***************************************************************************)
(* The types are kept                                                      *)
(***************************************************************************)
LEMMA FirstTypes ==
  /\ FirstManifest \in Seq(Entries) /\ FirstManifest[1] \in Entries
  /\ FirstManifest[1].id \in Manuals
  /\ NoTool \in Tool /\ NoTool.at = "off" /\ NoTool.todo = <<>> /\ NoTool.named = <<>>
  /\ NoTool.targets = {}
  /\ NoBatch \in Batch /\ NoBatch.at = "off"
<1>1. FirstManifest \in Seq(Entries) /\ FirstManifest[1] \in Entries
  BY FilesAssumption
<1>2. FirstManifest[1].id \in Manuals
  BY <1>1 DEF Entries
<1>3. <<>> \in Seq(Record) /\ <<>> \in Seq(Manuals) /\ <<>> \in Seq(Copy)
  OBVIOUS
<1>4. "stub" \in Extractors
  BY CodeAssumption
<1>5. 1 \in 1 .. MaxAttempts
  BY SymptomAssumption
<1> QED
  BY <1>1, <1>2, <1>3, <1>4, <1>5 DEF NoTool, NoBatch, Tool, Batch, Positions

LEMMA CandidateTypes ==
  ASSUME NEW m \in Manuals, NEW v \in Versions
  PROVE  /\ CandidatesOf[m][v] \in Seq(Chunks)
         /\ TablesOf[m][v] \in Seq(Tables)
  BY CodeAssumption, SymptomAssumption

LEMMA SlotTypes ==
  ASSUME CodeInv, tool.manual \in Manuals, parsed[tool.manual] \in Versions,
         tool.next \in 1 .. Len(Candidates)
  PROVE  Slot \in Slots /\ Slot[2] = tool.by /\ Slot[1] = Candidates[tool.next]
<1>1. Candidates \in Seq(Chunks)
  BY CandidateTypes DEF Candidates
<1>2. Candidates[tool.next] \in Chunks
  BY <1>1
<1> QED
  BY <1>2 DEF Slot, Slots, CodeInv, Tool

LEMMA Counted ==
  ASSUME FilesTypeOK
  PROVE  /\ Starts => runs' \in 0 .. MaxRuns
         /\ Killed => crashes' \in 0 .. MaxCrashes
         /\ 0 \in 0 .. MaxRuns /\ 0 \in 0 .. MaxCrashes
  BY FilesAssumption DEF FilesTypeOK, Starts, Killed

LEMMA MergedTypes ==
  ASSUME CodeInv
  PROVE  Merged \in Files(Seq(Record)) /\ Merged.file = "kept"
<1>1. index.records \in Seq(Record) /\ tool.records \in Seq(Record)
  BY DEF CodeInv, Files, Tool
<1>2. RecordsBut(index.records, tool.targets) \in Seq(Record)
  BY <1>1, KeepReads DEF RecordsBut
<1>3. RecordsBut(index.records, tool.targets) \o tool.records \in Seq(Record)
  BY <1>1, <1>2
<1> QED
  BY <1>3 DEF Merged, Kept, Files

LEMMA FilesOnly ==
  ASSUME PipelinesInv, ToolAt("off"), BatchAt("off"), NEW m \in Manuals,
         Fetch(m) \/ FetchKilled(m), UNCHANGED <<codeVars, symptomVars>>
  PROVE  PipelinesInv'
<1>1. FilesTypeOK'
  <2>1. CASE Fetch(m)
    BY <2>1, Counted DEF PipelinesInv, FilesTypeOK, Fetch, Download, DownloadFails
  <2>2. CASE FetchKilled(m)
    BY <2>2, Counted DEF PipelinesInv, FilesTypeOK, FetchKilled
  <2> QED
    BY <2>1, <2>2
<1>2. CodeInv'
  BY DEF PipelinesInv, CodeInv, ToolHas, ToolAt, codeVars, Candidates
<1>3. SymptomInv'
  BY DEF PipelinesInv, SymptomInv, BatchHas, BatchAt, symptomVars, TablesHere
<1> QED
  BY <1>1, <1>2, <1>3 DEF PipelinesInv

(* A script that starts, or that stops, is at a position where nothing is  *)
(* asked of the files.                                                     *)
LEMMA ToolStops ==
  ASSUME tool' = NoTool
  PROVE  (tool \in Tool /\ ToolHas)'
  BY FirstTypes DEF ToolHas, ToolAt, ToSet

(* The manuals named on a command line.                                    *)
LEMMA ListingTypes ==
  ASSUME NEW manuals \in Listings
  PROVE  manuals \in Seq(Manuals) /\ manuals # <<>> /\ ToSet(manuals) \in SUBSET Manuals
<1>1. manuals \in Seq(Manuals) /\ manuals # <<>>
  <2>1. PICK n \in 0 .. MaxListed : manuals \in [1 .. n -> Manuals]
    BY DEF Listings, SeqOf
  <2>2. n \in Nat
    BY <2>1, FilesAssumption
  <2>3. manuals \in Seq(Manuals)
    BY <2>1, <2>2, SeqDef
  <2> QED
    BY <2>3 DEF Listings
<1> QED
  BY <1>1 DEF ToSet

(* The manual that is taken from the list, and what is left of the list.   *)
LEMMA TakenNext ==
  ASSUME CodeInv, NextManual
  PROVE  /\ tool.at = "manual" /\ tool.todo # <<>>
         /\ Head(tool.todo) \in Manuals /\ Head(tool.todo) \in tool.targets
         /\ parsed[Head(tool.todo)] \in Versions /\ parsed[Head(tool.todo)] # NoFile
         /\ Tail(tool.todo) \in Seq(Manuals) /\ ToSet(Tail(tool.todo)) \subseteq ToSet(tool.todo)
         /\ tool' = [tool EXCEPT !.at = "chunk", !.manual = Head(tool.todo), !.todo = Tail(tool.todo), !.next = 1]
         /\ UNCHANGED <<parsed, cache, index>>
<1>1. /\ tool.at = "manual" /\ parsed[Head(tool.todo)] \notin {NoFile, Torn}
      /\ tool' = [tool EXCEPT !.at = "chunk", !.manual = Head(tool.todo), !.todo = Tail(tool.todo), !.next = 1]
      /\ UNCHANGED <<parsed, cache, index>>
  BY Zenon DEF NextManual, ToolAt
<1>2. tool.todo \in Seq(Manuals) /\ tool.todo # <<>> /\ ToSet(tool.todo) \subseteq tool.targets
  BY <1>1 DEF CodeInv, Tool, ToolHas, ToolAt
<1>3. Head(tool.todo) \in Manuals /\ Tail(tool.todo) \in Seq(Manuals)
      /\ Head(tool.todo) = tool.todo[1] /\ 1 \in DOMAIN tool.todo
  BY <1>2
<1>4. \A i \in DOMAIN Tail(tool.todo) : i + 1 \in DOMAIN tool.todo /\ Tail(tool.todo)[i] = tool.todo[i + 1]
  BY <1>2
<1> QED
  BY <1>1, <1>2, <1>3, <1>4 DEF ToSet, CodeInv

LEMMA CodeStartsTypes ==
  ASSUME PipelinesInv, CodeStarts
  PROVE  FilesTypeOK' /\ CodeInv'
<1> USE DEF PipelinesInv, FilesTypeOK, CodeInv
<1>1. CASE \E m \in Manuals : Parse(m) \/ ParseKilled(m)
  <2>1. PICK m \in Manuals : Parse(m) \/ ParseKilled(m)
    BY <1>1
  <2>2. ToolHas'
    BY <2>1 DEF Parse, ParseKilled, ToolHas, ToolAt
  <2> QED
    BY <2>1, <2>2, Counted DEF Parse, ParseKilled
<1>2. CASE \E e \in Entries, by \in Extractors : AddManual(e, by)
  <2>1. PICK e \in Entries, by \in Extractors : AddManual(e, by)
    BY <1>2
  <2>2. e.id \in Manuals
    BY DEF Entries
  <2>3. tool' = [NoTool EXCEPT !.name = "add_manual", !.by = by, !.entry = e, !.named = <<e.id>>,
                               !.targets = {e.id}, !.manual = e.id, !.at = IF KnownEntry(e) THEN "keep_pdf" ELSE "append"]
    BY <2>1 DEF AddManual
  <2>4. <<e.id>> \in Seq(Manuals) /\ ToSet(<<e.id>>) = {e.id} /\ ToSet(<<>>) = {}
    BY <2>2 DEF ToSet
  <2>5. (tool \in Tool /\ ToolHas)'
    BY <2>2, <2>3, <2>4, FirstTypes DEF Tool, Positions, ToolHas, ToolAt
  <2> QED
    BY <2>1, <2>5, Counted DEF AddManual
<1>3. CASE \E manuals \in Listings, by \in Extractors, force \in BOOLEAN : ExtractCodes(manuals, by, force)
  <2>1. PICK manuals \in Listings, by \in Extractors, force \in BOOLEAN : ExtractCodes(manuals, by, force)
    BY <1>3
  <2>2. tool' = [NoTool EXCEPT !.name = "extract_codes", !.at = "manual", !.by = by, !.force = force,
                               !.named = manuals, !.targets = ToSet(manuals), !.todo = manuals]
    BY <2>1 DEF ExtractCodes
  <2>3. (tool \in Tool /\ ToolHas)'
    BY <2>2, ListingTypes, FirstTypes DEF Tool, Positions, ToolHas, ToolAt
  <2> QED
    BY <2>1, <2>3, Counted DEF ExtractCodes
<1> QED
  BY <1>1, <1>2, <1>3 DEF CodeStarts

LEMMA AddTypes ==
  ASSUME PipelinesInv, AddStep
  PROVE  FilesTypeOK' /\ CodeInv'
<1> USE DEF PipelinesInv, FilesTypeOK, CodeInv
<1>0. tool.manual \in Manuals /\ tool.entry \in Entries
  BY DEF Tool
<1>1. CASE AppendEntry
  <2>1. (tool \in Tool /\ ToolHas)'
    BY <1>1 DEF AppendEntry, GoesTo, ToolHas, ToolAt, Tool, Positions
  <2>2. Append(manifest, tool.entry) \in Seq(Entries)
    BY <1>0
  <2> QED
    BY <1>1, <2>1, <2>2 DEF AppendEntry
<1>2. CASE KeepPdf
  <2>1. PICK v \in Versions : pdfs' = [pdfs EXCEPT ![tool.manual] = v]
    BY <1>2 DEF KeepPdf, Download
  <2>2. (tool \in Tool /\ ToolHas)'
    BY <1>0, <1>2, <2>1 DEF KeepPdf, GoesTo, ToolHas, ToolAt, Tool, Positions
  <2> QED
    BY <1>2, <2>1, <2>2 DEF KeepPdf
<1>3. CASE ParsePdf
  <2>1. (tool \in Tool /\ ToolHas)'
    <3>1. CASE GoesTo("confirm")
      BY <1>0, <1>3, <3>1 DEF ParsePdf, GoesTo, ToolHas, ToolAt, Tool, Positions
    <3>2. CASE Stops
      BY <3>2, ToolStops DEF Stops
    <3> QED
      BY <1>3, <3>1, <3>2 DEF ParsePdf
  <2> QED
    BY <1>3, <2>1 DEF ParsePdf
<1>4. CASE Confirm
  <2>1. (tool \in Tool /\ ToolHas)'
    <3>1. CASE GoesTo("chunk")
      BY <1>0, <1>4, <3>1 DEF Confirm, GoesTo, ToolHas, ToolAt, Tool, Positions
    <3>2. CASE Stops
      BY <3>2, ToolStops DEF Stops
    <3> QED
      BY <1>4, <3>1, <3>2 DEF Confirm
  <2> QED
    BY <1>4, <2>1 DEF Confirm, fileVars
<1> QED
  BY <1>1, <1>2, <1>3, <1>4 DEF AddStep

LEMMA AtChunk ==
  ASSUME CodeInv, MoreChunks
  PROVE  /\ tool.manual \in Manuals /\ parsed[tool.manual] \in Versions
         /\ tool.manual \in tool.targets
         /\ Candidates \in Seq(Chunks) /\ tool.next \in 1 .. Len(Candidates)
         /\ Candidates[tool.next] \in Chunks
         /\ Slot \in Slots /\ Slot[2] = tool.by /\ Slot[1] = Candidates[tool.next]
<1>1. tool.manual \in Manuals /\ parsed[tool.manual] \in Versions /\ tool.manual \in tool.targets
  BY DEF MoreChunks, ToolAt, CodeInv, ToolHas, Tool
<1>2. Candidates \in Seq(Chunks)
  BY <1>1, CandidateTypes DEF Candidates
<1>3. tool.next \in 1 .. Len(Candidates)
  BY <1>2 DEF MoreChunks, CodeInv, Tool
<1>4. Candidates[tool.next] \in Chunks
  BY <1>2, <1>3
<1> QED
  BY <1>1, <1>2, <1>3, <1>4, SlotTypes

LEMMA AtKeep ==
  ASSUME CodeInv, ToolAt("keep")
  PROVE  /\ tool.manual \in Manuals /\ parsed[tool.manual] \in Versions
         /\ tool.manual \in tool.targets
         /\ Candidates \in Seq(Chunks) /\ tool.next \in 1 .. Len(Candidates)
         /\ Candidates[tool.next] \in Chunks
         /\ Slot \in Slots /\ Slot[2] = tool.by /\ Slot[1] = Candidates[tool.next]
<1>1. /\ tool.manual \in Manuals /\ parsed[tool.manual] \in Versions
      /\ tool.manual \in tool.targets /\ tool.next \in 1 .. Len(Candidates)
  BY DEF ToolAt, CodeInv, ToolHas, Tool
<1>2. Candidates \in Seq(Chunks)
  BY <1>1, CandidateTypes DEF Candidates
<1>3. Candidates[tool.next] \in Chunks
  BY <1>1, <1>2
<1> QED
  BY <1>1, <1>2, <1>3, SlotTypes

LEMMA CollectedTypes ==
  ASSUME CodeInv, ToolAt("chunk") \/ ToolAt("keep"), NEW records \in Seq(Record),
         tool' = Collected(records), UNCHANGED <<pdfs, parsed>>
  PROVE  (tool \in Tool /\ ToolHas)'
<1>1. tool.records \o records \in Seq(Record)
  BY DEF CodeInv, Tool
<1>2. tool' = [tool EXCEPT !.at = "chunk", !.next = tool.next + 1, !.records = tool.records \o records]
  BY DEF Collected, CodeInv, Tool
<1>3. tool.next + 1 \in Nat \ {0}
  BY DEF CodeInv, Tool
<1> QED
  BY <1>1, <1>2, <1>3 DEF CodeInv, Tool, Positions, ToolHas, ToolAt

LEMMA ExtractTypes ==
  ASSUME PipelinesInv, ExtractStep
  PROVE  FilesTypeOK' /\ CodeInv'
<1> USE DEF PipelinesInv, FilesTypeOK, CodeInv
<1>1. CASE NextManual
  <2> DEFINE m == Head(tool.todo)
             rest == Tail(tool.todo)
  <2>1. /\ m \in Manuals /\ m \in tool.targets /\ parsed[m] \in Versions
        /\ rest \in Seq(Manuals) /\ ToSet(rest) \subseteq ToSet(tool.todo)
        /\ tool' = [tool EXCEPT !.at = "chunk", !.manual = m, !.todo = rest, !.next = 1]
        /\ parsed' = parsed /\ 1 \in Nat \ {0}
    BY <1>1, TakenNext
  <2> HIDE DEF m, rest
  <2>2. tool' \in Tool
    BY <2>1 DEF Tool, Positions
  <2>3. ToolHas'
    BY <2>1 DEF ToolHas, ToolAt, Tool
  <2> QED
    BY <1>1, <2>2, <2>3 DEF NextManual, fileVars
<1>2. CASE TakeCached
  <2>1. cache[CacheKey].records \in Seq(Record)
    BY <1>2, AtChunk DEF TakeCached, CacheKey, Files
  <2>2. (tool \in Tool /\ ToolHas)'
    BY <1>2, <2>1, CollectedTypes DEF TakeCached, MoreChunks, fileVars
  <2> QED
    BY <1>2, <2>2 DEF TakeCached, fileVars
<1>3. CASE Ask
  <2>1. PICK answer \in Answers(tool.manual, Candidates[tool.next], tool.by) :
               tool' = [tool EXCEPT !.at = "keep", !.answer = answer]
    BY <1>3, Zenon DEF Ask
  <2>2. answer \in Seq(Record)
    <3>1. [manual |-> tool.manual, chunk |-> Candidates[tool.next], by |-> tool.by] \in Record
      BY <1>3, AtChunk DEF Ask, Record, Tool
    <3>2. <<>> \in Seq(Record)
          /\ <<[manual |-> tool.manual, chunk |-> Candidates[tool.next], by |-> tool.by]>> \in Seq(Record)
      BY <3>1
    <3> QED
      BY <2>1, <3>2 DEF Answers
  <2>3. (tool \in Tool /\ ToolHas)'
    BY <1>3, <2>1, <2>2, AtChunk DEF Ask, fileVars, ToolHas, ToolAt, Tool, Positions, Candidates
  <2>4. (paid \in [Slots -> Nat])'
    BY <1>3, AtChunk DEF Ask
  <2> QED
    BY <1>3, <2>3, <2>4 DEF Ask, fileVars
<1>4. CASE KeepAnswer
  <2>1. tool.answer \in Seq(Record)
    BY DEF Tool
  <2>2. (tool \in Tool /\ ToolHas)'
    BY <1>4, <2>1, CollectedTypes DEF KeepAnswer, fileVars
  <2>3. (cache \in [Slots -> Files(Seq(Record))])'
    BY <1>4, <2>1, AtKeep DEF KeepAnswer, Files, Kept
  <2> QED
    BY <1>4, <2>2, <2>3 DEF KeepAnswer, fileVars
<1>5. CASE ManualDone
  <2>1. (tool \in Tool /\ ToolHas)'
    BY <1>5 DEF ManualDone, GoesTo, fileVars, ToolHas, ToolAt, Tool, Positions
  <2> QED
    BY <1>5, <2>1 DEF ManualDone, fileVars
<1>6. CASE ToolFails
  <2>1. (tool \in Tool /\ ToolHas)'
    BY <1>6, ToolStops DEF ToolFails, Stops
  <2> QED
    BY <1>6, <2>1 DEF ToolFails, fileVars
<1>7. CASE Merge
  <2>1. (tool \in Tool /\ ToolHas)'
    BY <1>7, ToolStops DEF Merge, Stops
  <2>2. Merged \in Files(Seq(Record)) /\ Merged.file = "kept"
    BY MergedTypes
  <2>3. index' = Merged /\ "kept" # NoFile
    BY <1>7 DEF Merge, NoFile
  <2> QED
    BY <1>7, <2>1, <2>2, <2>3 DEF Merge, fileVars
<1> QED
  BY <1>1, <1>2, <1>3, <1>4, <1>5, <1>6, <1>7 DEF ExtractStep

LEMMA KilledTypes ==
  ASSUME PipelinesInv, ToolKilled
  PROVE  FilesTypeOK' /\ CodeInv'
<1> USE DEF PipelinesInv, FilesTypeOK, CodeInv
<1>0. tool.manual \in Manuals /\ tool.entry \in Entries
  BY DEF Tool
<1>1. (tool \in Tool /\ ToolHas)'
  BY ToolStops DEF ToolKilled, Stops
<1>2. (manifest \in Seq(Entries))'
  <2>1. Append(manifest, tool.entry) \in Seq(Entries) /\ <<>> \in Seq(Entries)
    BY <1>0
  <2> QED
    BY <2>1 DEF ToolKilled, CutWrite
<1>3. (pdfs \in [Manuals -> Versions \cup {NoFile, Torn}])'
  BY <1>0 DEF ToolKilled
<1>4. (parsed \in [Manuals -> Versions \cup {NoFile, Torn}])'
  BY <1>0 DEF ToolKilled
<1>5. (cache \in [Slots -> Files(Seq(Record))])'
  <2>1. CASE ToolAt("keep")
    <3>1. PICK a \in CutWrite(cache[CacheKey], Kept(tool.answer), TornAnswer) :
                 cache' = [cache EXCEPT ![CacheKey] = a]
      BY <2>1 DEF ToolKilled
    <3>2. a \in Files(Seq(Record))
      <4>1. Slot \in Slots
        BY <2>1, AtKeep
      <4>2. tool.answer \in Seq(Record) /\ <<>> \in Seq(Record)
        BY DEF Tool
      <4>3. cache[Slot] \in Files(Seq(Record))
        BY <4>1
      <4>4. Kept(tool.answer) \in Files(Seq(Record)) /\ TornAnswer \in Files(Seq(Record))
        BY <4>2 DEF Files, Kept, TornAnswer
      <4> QED
        BY <3>1, <4>3, <4>4 DEF CutWrite, CacheKey
    <3> QED
      BY <3>1, <3>2
  <2> QED
    BY <2>1 DEF ToolKilled
<1>6. (index \in Files(Seq(Record)) /\ index.file # NoFile)'
  <2>1. Merged \in Files(Seq(Record)) /\ Merged.file = "kept"
    BY MergedTypes
  <2>2. TornAnswer \in Files(Seq(Record)) /\ TornAnswer.file # NoFile /\ "kept" # NoFile
    BY DEF TornAnswer, Files, NoFile, Torn
  <2>3. index' \in {index, Merged, TornAnswer}
    BY DEF ToolKilled, IndexLeft, CutWrite
  <2> QED
    BY <2>1, <2>2, <2>3
<1>7. (wasted \in [Slots -> Nat])'
  BY AtKeep DEF ToolKilled
<1>8. (emptied \in BOOLEAN)'
  BY DEF ToolKilled
<1> QED
  BY <1>1, <1>2, <1>3, <1>4, <1>5, <1>6, <1>7, <1>8, Counted DEF ToolKilled

LEMMA CodeTypes ==
  ASSUME PipelinesInv, BatchAt("off"), CodeNext, UNCHANGED symptomVars
  PROVE  PipelinesInv'
<1>1. FilesTypeOK' /\ CodeInv'
  BY CodeStartsTypes, AddTypes, ExtractTypes, KilledTypes DEF CodeNext
<1>2. SymptomInv'
  BY DEF PipelinesInv, SymptomInv, BatchHas, BatchAt, symptomVars, TablesHere
<1> QED
  BY <1>1, <1>2 DEF PipelinesInv

(***************************************************************************)
(* ... and by extract_symptoms.py                                          *)
(***************************************************************************)
LEMMA BatchStopsTypes ==
  ASSUME batch' = NoBatch
  PROVE  (batch \in Batch /\ BatchHas)'
  BY FirstTypes DEF BatchHas, BatchAt

LEMMA BatchMoves ==
  ASSUME SymptomInv, UNCHANGED pdfs,
         NEW step \in {"manual", "read", "table", "merge"}, Moves(step),
         step \in {"table", "merge"} => pdfs[batch.manual] \in Versions
  PROVE  (batch \in Batch /\ BatchHas)'
  BY DEF SymptomInv, Moves, Batch, BatchHas, BatchAt

LEMMA AtTable ==
  ASSUME SymptomInv, MoreTables \/ BatchAt("keep")
  PROVE  /\ batch.manual \in Manuals /\ pdfs[batch.manual] \in Versions
         /\ TablesHere \in Seq(Tables) /\ batch.next \in 1 .. Len(TablesHere)
         /\ Table \in Tables
<1>1. batch.manual \in Manuals /\ pdfs[batch.manual] \in Versions
  BY DEF MoreTables, BatchAt, SymptomInv, BatchHas, Batch
<1>2. TablesHere \in Seq(Tables)
  BY <1>1, CandidateTypes DEF TablesHere
<1>3. batch.next \in 1 .. Len(TablesHere)
  BY <1>2 DEF MoreTables, BatchAt, SymptomInv, BatchHas, Batch
<1> QED
  BY <1>1, <1>2, <1>3 DEF Table

LEMMA CopiedTypes ==
  ASSUME SymptomInv, MoreTables \/ BatchAt("keep"), UNCHANGED pdfs,
         NEW verdict \in Verdicts, NEW spent \in Nat,
         batch' = [Copied(verdict) EXCEPT !.spent = spent]
  PROVE  (batch \in Batch /\ BatchHas)'
<1>1. batch \in Batch /\ batch.next + 1 \in Nat \ {0} /\ 1 \in 1 .. MaxAttempts
  BY SymptomAssumption DEF SymptomInv, Batch
<1>2. Append(batch.copies, [table |-> Table, verdict |-> verdict]) \in Seq(Copy)
  BY <1>1, AtTable DEF Batch, Copy
<1>3. batch' = [batch EXCEPT !.at = "table", !.next = batch.next + 1, !.attempt = 1,
                             !.copies = Append(batch.copies, [table |-> Table, verdict |-> verdict]),
                             !.spent = spent]
  BY <1>1 DEF Copied, Batch
<1> QED
  BY <1>1, <1>2, <1>3, AtTable DEF Batch, BatchHas, BatchAt

LEMMA CopiedSame ==
  ASSUME SymptomInv, NEW verdict
  PROVE  Copied(verdict) = [Copied(verdict) EXCEPT !.spent = batch.spent]
  BY DEF SymptomInv, Batch, Copied

(* A call for a table, and what it did cost.                               *)
Answered(cost, verdict) ==
    \/ verdict = "audited" /\ batch' = [batch EXCEPT !.at = "keep", !.spent = batch.spent + cost]
    \/ /\ verdict = "rejected" /\ AttemptsLeft
       /\ batch' = [batch EXCEPT !.attempt = batch.attempt + 1, !.spent = batch.spent + cost]
    \/ verdict = "rejected" /\ batch' = [Copied(verdict) EXCEPT !.spent = batch.spent + cost]

LEMMA AskAnswered ==
  ASSUME SymptomInv, AskNova
  PROVE  /\ MoreTables /\ WithinCap /\ UNCHANGED <<fileVars, answers, symptoms>>
         /\ \E cost \in Costs, verdict \in Verdicts : Answered(cost, verdict)
<1>1. PICK cost \in Costs, verdict \in Verdicts :
        batch' = CASE verdict = "audited" -> [batch EXCEPT !.at = "keep", !.spent = batch.spent + cost]
                   [] verdict # "audited" /\ AttemptsLeft ->
                          [batch EXCEPT !.attempt = batch.attempt + 1, !.spent = batch.spent + cost]
                   [] OTHER -> [Copied(verdict) EXCEPT !.spent = batch.spent + cost]
  BY Zenon DEF AskNova
<1>2. Answered(cost, verdict)
  BY <1>1 DEF Answered, Verdicts
<1> QED
  BY <1>2 DEF AskNova

LEMMA WithCopiesTypes ==
  ASSUME SymptomInv
  PROVE  /\ WithCopies \in [file : {Torn, "kept"}, of : [Manuals -> Seq(Copy)]]
         /\ WithCopies.file = symptoms.file
         /\ WithCopies.of = [symptoms.of EXCEPT ![batch.manual] = batch.copies]
<1>1. batch.manual \in Manuals /\ batch.copies \in Seq(Copy)
  BY DEF SymptomInv, Batch
<1>2. /\ WithCopies = [file |-> symptoms.file, of |-> [symptoms.of EXCEPT ![batch.manual] = batch.copies]]
  <2>1. symptoms = [file |-> symptoms.file, of |-> symptoms.of]
    BY DEF SymptomInv
  <2>2. WithCopies = [symptoms EXCEPT !.of = [symptoms.of EXCEPT ![batch.manual] = batch.copies]]
    BY Zenon DEF WithCopies
  <2> DEFINE new == [symptoms.of EXCEPT ![batch.manual] = batch.copies]
  <2> HIDE DEF new
  <2>3. [symptoms EXCEPT !.of = new] = [file |-> symptoms.file, of |-> new]
    BY <2>1
  <2> QED
    BY <2>2, <2>3 DEF new
<1>3. symptoms.file \in {Torn, "kept"} /\ symptoms.of \in [Manuals -> Seq(Copy)]
  BY DEF SymptomInv
<1> QED
  BY <1>1, <1>2, <1>3

LEMMA SymptomTypes ==
  ASSUME PipelinesInv, SymptomNext
  PROVE  FilesTypeOK' /\ SymptomInv'
<1> USE DEF PipelinesInv, FilesTypeOK, SymptomInv
<1>1. CASE \E manuals \in Listings, force \in BOOLEAN : StartBatch(manuals, force)
  <2>1. PICK manuals \in Listings, force \in BOOLEAN : StartBatch(manuals, force)
    BY <1>1
  <2>2. manuals \in Seq(Manuals)
    BY ListingTypes
  <2>3. batch' = [NoBatch EXCEPT !.at = "manual", !.todo = manuals, !.force = force]
    BY <2>1 DEF StartBatch
  <2>4. (batch \in Batch /\ BatchHas)'
    BY <2>2, <2>3, FirstTypes DEF Batch, BatchHas, BatchAt
  <2> QED
    BY <2>1, <2>4, Counted DEF StartBatch
<1>2. CASE TakeManual
  <2>1. Head(batch.todo) \in Manuals /\ Tail(batch.todo) \in Seq(Manuals)
    BY <1>2, HeadTailProperties DEF TakeManual, Batch
  <2>2. batch' = [batch EXCEPT !.at = "read", !.manual = Head(batch.todo), !.todo = Tail(batch.todo),
                               !.next = 1, !.attempt = 1, !.copies = <<>>]
    BY <1>2 DEF TakeManual
  <2>3. <<>> \in Seq(Copy) /\ 1 \in 1 .. MaxAttempts
    BY SymptomAssumption
  <2>4. batch' \in Batch
    <3>1. batch' = [at |-> "read", force |-> batch.force, todo |-> Tail(batch.todo),
                    manual |-> Head(batch.todo), next |-> 1, attempt |-> 1, copies |-> <<>>,
                    spent |-> batch.spent]
      BY <2>2 DEF Batch
    <3>2. batch.force \in BOOLEAN /\ batch.spent \in Nat /\ 1 \in Nat \ {0}
      BY DEF Batch
    <3> HIDE DEF PipelinesInv, FilesTypeOK, SymptomInv
    <3> QED
      BY <2>1, <2>3, <3>1, <3>2 DEF Batch
  <2>5. BatchHas'
    BY <2>2 DEF BatchHas, BatchAt, Batch
  <2> QED
    BY <1>2, <2>4, <2>5 DEF TakeManual, fileVars
<1>3. CASE SkipManual
  <2>1. (batch \in Batch /\ BatchHas)'
    BY <1>3, BatchMoves DEF SkipManual, fileVars
  <2> QED
    BY <1>3, <2>1 DEF SkipManual, fileVars
<1>4. CASE BeginManual
  <2>1. pdfs[batch.manual] \in Versions
    BY <1>4 DEF BeginManual, Readable, HasPdf, Batch
  <2>2. (batch \in Batch /\ BatchHas)'
    BY <1>4, <2>1, BatchMoves DEF BeginManual, fileVars
  <2> QED
    BY <1>4, <2>2 DEF BeginManual, fileVars
<1>5. CASE BatchDone
  <2>1. (batch \in Batch /\ BatchHas)'
    BY <1>5, BatchStopsTypes DEF BatchDone, BatchEnds
  <2> QED
    BY <1>5, <2>1 DEF BatchDone, fileVars
<1>6. CASE TakeAnswer
  <2>1. answers[Table] \in Verdicts
    BY <1>6 DEF TakeAnswer, Usable, Verdicts
  <2>2. batch' = [Copied(answers[Table]) EXCEPT !.spent = batch.spent] /\ batch.spent \in Nat
    BY <1>6, CopiedSame DEF TakeAnswer, Batch
  <2>3. (batch \in Batch /\ BatchHas)'
    BY <1>6, <2>1, <2>2, CopiedTypes DEF TakeAnswer, fileVars
  <2> QED
    BY <1>6, <2>3 DEF TakeAnswer, fileVars
<1>7. CASE AskNova
  <2>1. /\ MoreTables /\ UNCHANGED <<fileVars, answers, symptoms>>
        /\ \E cost \in Costs, verdict \in Verdicts : Answered(cost, verdict)
    BY <1>7, AskAnswered
  <2>2. PICK cost \in Costs, verdict \in Verdicts : Answered(cost, verdict)
    BY <2>1
  <2>3. batch.spent + cost \in Nat
    BY SymptomAssumption DEF Batch
  <2>4. (batch \in Batch /\ BatchHas)'
    <3>1. CASE verdict = "audited" /\ batch' = [batch EXCEPT !.at = "keep", !.spent = batch.spent + cost]
      BY <2>1, <2>3, <3>1, AtTable DEF Batch, BatchHas, BatchAt, TablesHere, fileVars
    <3>2. CASE AttemptsLeft /\ batch' = [batch EXCEPT !.attempt = batch.attempt + 1, !.spent = batch.spent + cost]
      <4>1. batch.attempt + 1 \in 1 .. MaxAttempts
        BY <3>2, SymptomAssumption DEF AttemptsLeft, Batch
      <4> QED
        BY <2>1, <2>3, <3>2, <4>1, AtTable DEF Batch, BatchHas, BatchAt, TablesHere, fileVars, MoreTables
    <3>3. CASE batch' = [Copied(verdict) EXCEPT !.spent = batch.spent + cost]
      BY <2>1, <2>3, <3>3, CopiedTypes DEF fileVars
    <3> QED
      BY <2>2, <3>1, <3>2, <3>3 DEF Answered
  <2> QED
    BY <2>1, <2>4 DEF fileVars
<1>8. CASE KeepCopy
  <2>1. batch' = [Copied("audited") EXCEPT !.spent = batch.spent] /\ batch.spent \in Nat
        /\ "audited" \in Verdicts
    BY <1>8, CopiedSame DEF KeepCopy, Batch, Verdicts
  <2>2. (batch \in Batch /\ BatchHas)'
    BY <1>8, <2>1, CopiedTypes DEF KeepCopy, fileVars
  <2>3. Table \in Tables
    BY <1>8, AtTable DEF KeepCopy
  <2> QED
    BY <1>8, <2>1, <2>2, <2>3 DEF KeepCopy, fileVars
<1>9. CASE NothingWritten \/ BuildRecords
  <2>1. pdfs[batch.manual] \in Versions
    BY <1>9 DEF NothingWritten, BuildRecords, TablesDone, BatchHas, BatchAt
  <2>2. (batch \in Batch /\ BatchHas)'
    BY <1>9, <2>1, BatchMoves DEF NothingWritten, BuildRecords, fileVars
  <2> QED
    BY <1>9, <2>2 DEF NothingWritten, BuildRecords, fileVars
<1>10. CASE MergeSymptoms
  <2>1. (batch \in Batch /\ BatchHas)'
    BY <1>10, BatchMoves DEF MergeSymptoms, fileVars
  <2>2. WithCopies \in [file : {Torn, "kept"}, of : [Manuals -> Seq(Copy)]]
    BY WithCopiesTypes
  <2> QED
    BY <1>10, <2>1, <2>2 DEF MergeSymptoms, fileVars
<1>11. CASE BatchStops
  <2>1. (batch \in Batch /\ BatchHas)'
    BY <1>11, BatchStopsTypes DEF BatchStops, BatchEnds
  <2> QED
    BY <1>11, <2>1 DEF BatchStops, fileVars
<1>12. CASE BatchKilled
  <2>1. (batch \in Batch /\ BatchHas)'
    BY <1>12, BatchStopsTypes DEF BatchKilled, BatchEnds
  <2>2. answers' \in [Tables -> {NoFile, Torn} \cup Verdicts]
    <3>1. CASE BatchAt("keep")
      <4>1. Table \in Tables
        BY <3>1, AtTable
      <4>2. PICK a \in CutWrite(answers[Table], "audited", Torn) : answers' = [answers EXCEPT ![Table] = a]
        BY <1>12, <3>1 DEF BatchKilled
      <4>3. a \in {NoFile, Torn} \cup Verdicts
        BY <4>1, <4>2 DEF CutWrite, Verdicts
      <4> QED
        BY <4>2, <4>3
    <3> QED
      BY <1>12, <3>1 DEF BatchKilled
  <2>3. symptoms' \in [file : {Torn, "kept"}, of : [Manuals -> Seq(Copy)]]
    <3>1. WithCopies \in [file : {Torn, "kept"}, of : [Manuals -> Seq(Copy)]]
      BY WithCopiesTypes
    <3>2. symptoms' \in {symptoms, WithCopies, [symptoms EXCEPT !.file = Torn]}
      BY <1>12 DEF BatchKilled, CutWrite
    <3>3. [symptoms EXCEPT !.file = Torn] \in [file : {Torn, "kept"}, of : [Manuals -> Seq(Copy)]]
      OBVIOUS
    <3> QED
      BY <3>1, <3>2, <3>3
  <2> QED
    BY <1>12, <2>1, <2>2, <2>3, Counted DEF BatchKilled
<1> QED
  BY <1>1, <1>2, <1>3, <1>4, <1>5, <1>6, <1>7, <1>8, <1>9, <1>10, <1>11, <1>12 DEF SymptomNext

LEMMA InitTypes == Init => PipelinesInv
<1> SUFFICES ASSUME Init PROVE PipelinesInv
  OBVIOUS
<1> USE DEF Init
<1>1. FilesTypeOK
  BY FirstTypes, FilesAssumption DEF FilesInit, FilesTypeOK
<1>2. CodeInv
  <2>1. FirstIndex \in Seq(Record) /\ <<>> \in Seq(Record)
    BY CodeAssumption
  <2>2. Kept(FirstIndex) \in Files(Seq(Record)) /\ NoAnswer \in Files(Seq(Record))
    BY <2>1 DEF Kept, NoAnswer, Files
  <2>3. "kept" # NoFile /\ Kept(FirstIndex).file = "kept"
    BY DEF NoFile, Kept
  <2>4. ToolHas
    BY FirstTypes DEF CodeInit, ToolHas, ToolAt, ToSet
  <2> QED
    BY <2>2, <2>3, <2>4, FirstTypes DEF CodeInit, CodeInv
<1>3. SymptomInv
  <2>1. <<>> \in Seq(Copy)
    OBVIOUS
  <2>2. (batch \in Batch /\ BatchHas)
    BY FirstTypes DEF SymptomInit, BatchHas, BatchAt
  <2> QED
    BY <2>1, <2>2 DEF SymptomInit, SymptomInv, Verdicts
<1> QED
  BY <1>1, <1>2, <1>3 DEF PipelinesInv

LEMMA PipelinesStep == PipelinesInv /\ [Next]_vars => PipelinesInv'
<1> SUFFICES ASSUME PipelinesInv, [Next]_vars PROVE PipelinesInv'
  OBVIOUS
<1>1. CASE UNCHANGED vars
  BY <1>1 DEF vars, fileVars, codeVars, symptomVars, PipelinesInv, FilesTypeOK, CodeInv, ToolHas,
              ToolAt, Candidates, SymptomInv, BatchHas, BatchAt, TablesHere
<1>2. CASE ToolAt("off") /\ SymptomNext /\ UNCHANGED codeVars
  <2>1. FilesTypeOK' /\ SymptomInv'
    BY <1>2, SymptomTypes
  <2>2. CodeInv'
    BY <1>2 DEF PipelinesInv, CodeInv, ToolHas, ToolAt, codeVars, Candidates
  <2> QED
    BY <2>1, <2>2 DEF PipelinesInv
<1> QED
  BY <1>1, <1>2, FilesOnly, CodeTypes DEF Next

LEMMA PipelinesCorrect == Spec => []PipelinesInv
  BY InitTypes, PipelinesStep, PTL DEF Spec

(* The scripts keep the types of their files and of their own state: a     *)
(* chunk, a table or a text is only looked up in a version that was read.  *)
THEOREM PipelinesTypeCorrect == Spec => []TypeOK
<1>1. PipelinesInv => TypeOK
  <2> SUFFICES ASSUME PipelinesInv PROVE TypeOK
    OBVIOUS
  <2>1. CodeTypeOK
    BY DEF PipelinesInv, CodeInv, CodeTypeOK, Files, Tool, ToolHas, Positions
  <2>2. SymptomTypeOK
    BY DEF PipelinesInv, SymptomInv, SymptomTypeOK, Batch
  <2> QED
    BY <2>1, <2>2 DEF PipelinesInv, TypeOK
<1> QED
  BY <1>1, PipelinesCorrect, PTL

(***************************************************************************)
(* The manifest                                                            *)
(***************************************************************************)
LEMMA ExtractFiles ==
  ASSUME ExtractStep
  PROVE  UNCHANGED <<manifest, pdfs, parsed, emptied>>
<1>1. CASE NextManual
  BY <1>1, Zenon DEF NextManual, fileVars
<1>2. CASE TakeCached
  BY <1>2, Zenon DEF TakeCached, fileVars
<1>3. CASE Ask
  BY <1>3, Zenon DEF Ask, fileVars
<1>4. CASE KeepAnswer
  BY <1>4, Zenon DEF KeepAnswer, fileVars
<1>5. CASE ManualDone
  BY <1>5, Zenon DEF ManualDone, fileVars
<1>6. CASE ToolFails
  BY <1>6, Zenon DEF ToolFails, fileVars
<1>7. CASE Merge
  BY <1>7, Zenon DEF Merge, fileVars
<1> QED
  BY <1>1, <1>2, <1>3, <1>4, <1>5, <1>6, <1>7 DEF ExtractStep

LEMMA StartsFiles ==
  ASSUME CodeStarts
  PROVE  UNCHANGED <<manifest, pdfs, cache, index, paid, wasted, emptied>>
<1>1. CASE \E m \in Manuals : Parse(m) \/ ParseKilled(m)
  BY <1>1, Zenon DEF Parse, ParseKilled
<1>2. CASE \E e \in Entries, by \in Extractors : AddManual(e, by)
  BY <1>2, Zenon DEF AddManual
<1>3. CASE \E manuals \in Listings, by \in Extractors, force \in BOOLEAN : ExtractCodes(manuals, by, force)
  BY <1>3, Zenon DEF ExtractCodes
<1> QED
  BY <1>1, <1>2, <1>3 DEF CodeStarts

LEMMA AddFiles ==
  ASSUME AddStep
  PROVE  UNCHANGED <<cache, index, paid, wasted, emptied>>
<1>1. CASE AppendEntry \/ KeepPdf
  BY <1>1, Zenon DEF AppendEntry, KeepPdf
<1>2. CASE ParsePdf \/ Confirm
  BY <1>2, Zenon DEF ParsePdf, Confirm
<1> QED
  BY <1>1, <1>2 DEF AddStep

LEMMA SymptomFiles ==
  ASSUME SymptomNext
  PROVE  UNCHANGED <<manifest, pdfs>>
<1>1. CASE \E manuals \in Listings, force \in BOOLEAN : StartBatch(manuals, force)
  BY <1>1, Zenon DEF StartBatch
<1>2. CASE TakeManual \/ SkipManual \/ BeginManual \/ BatchDone
  BY <1>2, Zenon DEF TakeManual, SkipManual, BeginManual, BatchDone, fileVars
<1>3. CASE TakeAnswer \/ AskNova \/ KeepCopy
  BY <1>3, Zenon DEF TakeAnswer, AskNova, KeepCopy, fileVars
<1>4. CASE NothingWritten \/ BuildRecords \/ MergeSymptoms
  BY <1>4, Zenon DEF NothingWritten, BuildRecords, MergeSymptoms, fileVars
<1>5. CASE BatchStops \/ BatchKilled
  BY <1>5, Zenon DEF BatchStops, BatchKilled, fileVars
<1> QED
  BY <1>1, <1>2, <1>3, <1>4, <1>5 DEF SymptomNext

LEMMA ManifestOfCode ==
  ASSUME PipelinesInv, CodeNext
  PROVE  \/ UNCHANGED <<manifest, tool>>
         \/ manifest' = manifest /\ tool' \in Tool /\ tool'.at # "append"
         \/ \E e \in Entries, by \in Extractors : AddManual(e, by)
         \/ AppendEntry
         \/ ToolKilled
<1>0. tool \in Tool /\ tool' \in Tool
  BY CodeStartsTypes, AddTypes, ExtractTypes, KilledTypes DEF CodeNext, PipelinesInv, CodeInv
<1>1. CASE \E m \in Manuals : Parse(m) \/ ParseKilled(m)
  BY <1>1 DEF Parse, ParseKilled
<1>2. CASE \E manuals \in Listings, by \in Extractors, force \in BOOLEAN : ExtractCodes(manuals, by, force)
  BY <1>0, <1>2, FirstTypes DEF ExtractCodes, Tool
<1>3. CASE KeepPdf \/ ParsePdf \/ Confirm
  BY <1>0, <1>3, FirstTypes DEF KeepPdf, ParsePdf, Confirm, GoesTo, Stops, Tool, fileVars
<1>4. CASE ExtractStep
  <2>1. manifest' = manifest
    BY <1>4, ExtractFiles
  <2>2. CASE NextManual \/ Ask
    <3>1. tool'.at \in {"chunk", "keep"}
      <4>1. CASE NextManual
        BY <1>0, <4>1 DEF NextManual, Tool
      <4>2. CASE Ask
        <5>1. PICK answer : tool' = [tool EXCEPT !.at = "keep", !.answer = answer]
          BY <4>2, Zenon DEF Ask
        <5> QED
          BY <1>0, <5>1 DEF Tool
      <4> QED
        BY <2>2, <4>1, <4>2
    <3> QED
      BY <1>0, <2>1, <3>1
  <2>3. CASE TakeCached \/ KeepAnswer
    BY <1>0, <2>1, <2>3 DEF TakeCached, KeepAnswer, Collected, Tool
  <2>4. CASE ManualDone \/ ToolFails \/ Merge
    BY <1>0, <2>1, <2>4, FirstTypes DEF ManualDone, ToolFails, Merge, GoesTo, Stops, Tool
  <2> QED
    BY <1>4, <2>2, <2>3, <2>4 DEF ExtractStep
<1> QED
  BY <1>1, <1>2, <1>3, <1>4 DEF CodeNext, CodeStarts, AddStep

(* What a step may do to the manifest, and to the script that is about to  *)
(* append to it.                                                           *)
LEMMA ManifestSteps ==
  ASSUME PipelinesInv, [Next]_vars
  PROVE  \/ UNCHANGED <<manifest, tool>>
         \/ manifest' = manifest /\ tool' \in Tool /\ tool'.at # "append"
         \/ \E e \in Entries, by \in Extractors : AddManual(e, by)
         \/ AppendEntry
         \/ ToolKilled
<1>1. CASE UNCHANGED vars
  BY <1>1 DEF vars, fileVars, codeVars
<1>2. CASE UNCHANGED codeVars /\ ((\E m \in Manuals : Fetch(m) \/ FetchKilled(m)) \/ SymptomNext)
  <2>1. manifest' = manifest
    BY <1>2, SymptomFiles DEF Fetch, FetchKilled
  <2> QED
    BY <1>2, <2>1 DEF codeVars
<1>3. CASE CodeNext
  BY <1>3, ManifestOfCode
<1> QED
  BY <1>1, <1>2, <1>3 DEF Next

OneEntryInv ==
    /\ OneEntryPerManual
    /\ ToolAt("append") => NewId(tool.entry) /\ NewProduct(tool.entry)

LEMMA AppendedOnce ==
  ASSUME OneEntryPerManual, manifest \in Seq(Entries), NEW e \in Entries, NewId(e), NewProduct(e),
         manifest' = Append(manifest, e)
  PROVE  OneEntryPerManual'
<1> DEFINE n == Len(manifest)
<1>1. /\ n \in Nat /\ DOMAIN manifest = 1 .. n /\ DOMAIN manifest' = 1 .. n + 1
      /\ manifest'[n + 1] = e /\ \A i \in 1 .. n : manifest'[i] = manifest[i]
  BY AppendProperties
<1>2. \A i \in 1 .. n : manifest[i].id # e.id /\ manifest[i].product # e.product
  BY <1>1 DEF NewId, NewProduct, ManifestIds
<1>3. \A i \in 1 .. n + 1 : i = n + 1 \/ i \in 1 .. n
  BY <1>1
<1> HIDE DEF n
<1> QED
  BY <1>1, <1>2, <1>3 DEF OneEntryPerManual

(* Running add_manual again, killed or not, gives no manual and no product *)
(* a second entry.                                                         *)
THEOREM OneEntry == Spec => []OneEntryPerManual
<1>1. Init => OneEntryInv
  BY FirstTypes, FilesAssumption DEF Init, FilesInit, CodeInit, OneEntryInv, OneEntryPerManual, ToolAt
<1>2. PipelinesInv /\ OneEntryInv /\ [Next]_vars => OneEntryInv'
  <2> SUFFICES ASSUME PipelinesInv, OneEntryInv, [Next]_vars PROVE OneEntryInv'
    OBVIOUS
  <2>0. manifest \in Seq(Entries) /\ tool \in Tool /\ tool.entry \in Entries
    BY DEF PipelinesInv, FilesTypeOK, CodeInv, Tool
  <2>1. CASE UNCHANGED <<manifest, tool>>
    BY <2>1 DEF OneEntryInv, OneEntryPerManual, ToolAt, NewId, NewProduct, ManifestIds
  <2>2. CASE manifest' = manifest /\ tool' \in Tool /\ tool'.at # "append"
    BY <2>2 DEF OneEntryInv, OneEntryPerManual, ToolAt
  <2>3. CASE \E e \in Entries, by \in Extractors : AddManual(e, by)
    <3>1. PICK e \in Entries, by \in Extractors : AddManual(e, by)
      BY <2>3
    <3>2. tool'.entry = e /\ manifest' = manifest /\ (tool'.at = "append" => NewId(e) /\ NewProduct(e))
      BY <3>1, FirstTypes DEF AddManual, Valid, Tool
    <3> QED
      BY <3>2 DEF OneEntryInv, OneEntryPerManual, ToolAt, NewId, NewProduct, ManifestIds
  <2>4. CASE AppendEntry
    <3>1. tool'.at # "append"
      BY <2>0, <2>4 DEF AppendEntry, GoesTo, Tool
    <3>2. OneEntryPerManual'
      BY <2>0, <2>4, AppendedOnce DEF AppendEntry, OneEntryInv
    <3> QED
      BY <3>1, <3>2 DEF OneEntryInv, ToolAt
  <2>5. CASE ToolKilled
    <3>1. tool'.at # "append"
      BY <2>5, FirstTypes DEF ToolKilled, Stops
    <3>2. \/ manifest' \in {manifest, <<>>}
          \/ ToolAt("append") /\ manifest' = Append(manifest, tool.entry)
      BY <2>5 DEF ToolKilled, CutWrite
    <3>3. OneEntryPerManual'
      <4>1. CASE manifest' \in {manifest, <<>>}
        BY <4>1 DEF OneEntryInv, OneEntryPerManual
      <4>2. CASE ToolAt("append") /\ manifest' = Append(manifest, tool.entry)
        BY <2>0, <4>2, AppendedOnce DEF OneEntryInv
      <4> QED
        BY <3>2, <4>1, <4>2
    <3> QED
      BY <3>1, <3>3 DEF OneEntryInv, ToolAt
  <2> QED
    BY <2>1, <2>2, <2>3, <2>4, <2>5, ManifestSteps
<1>3. OneEntryInv => OneEntryPerManual
  BY DEF OneEntryInv
<1> QED
  BY <1>1, <1>2, <1>3, PipelinesCorrect, PTL DEF Spec

(***************************************************************************)
(* What the index cites                                                    *)
(***************************************************************************)
From(records, manuals) == \A i \in DOMAIN records : records[i].manual \in manuals

(* What a script knows of a manual, it knows from the manifest.            *)
Processing == tool.at \in {"append", "keep_pdf", "parse", "confirm", "chunk", "keep"}

FilesCited ==
    /\ \A m \in Manuals : pdfs[m] # NoFile \/ parsed[m] # NoFile => m \in ManifestIds
    /\ \A s \in Slots : From(cache[s].records, ManifestIds)
    /\ From(index.records, ManifestIds)

ToolCited ==
    /\ Processing /\ ~ToolAt("append") => tool.manual \in ManifestIds
    /\ From(tool.records, ManifestIds) /\ From(tool.answer, ManifestIds)

CitedInv == emptied \/ (FilesCited /\ ToolCited)

LEMMA FromNone == \A manuals : From(<<>>, manuals)
  BY DEF From

LEMMA FromMore ==
  ASSUME NEW A, NEW B, A \subseteq B, NEW records, From(records, A)
  PROVE  From(records, B)
  BY DEF From

LEMMA FromBoth ==
  ASSUME NEW s \in Seq(Record), NEW t \in Seq(Record), NEW manuals, From(s, manuals), From(t, manuals)
  PROVE  From(s \o t, manuals)
<1>1. /\ Len(s) \in Nat /\ Len(t) \in Nat /\ DOMAIN s = 1 .. Len(s) /\ DOMAIN t = 1 .. Len(t)
      /\ DOMAIN (s \o t) = 1 .. Len(s) + Len(t)
      /\ \A i \in 1 .. Len(s) + Len(t) : (s \o t)[i] = IF i <= Len(s) THEN s[i] ELSE t[i - Len(s)]
  BY ConcatProperties
<1> DEFINE n == Len(s)
           k == Len(t)
<1> HIDE DEF n, k
<1>2. \A i \in 1 .. n + k : IF i <= n THEN i \in 1 .. n ELSE i - n \in 1 .. k
  BY <1>1 DEF n, k
<1> QED
  BY <1>1, <1>2 DEF From, n, k

LEMMA FromKept ==
  ASSUME NEW s \in Seq(Record), NEW K, NEW manuals, From(s, manuals)
  PROVE  From(Keep(s, K), manuals)
<1>1. PICK p : Reads(p, Keep(s, K), s, Len(s), K)
  BY KeepReads
<1>2. Keep(s, K) \in Seq(Record)
  BY KeepReads
<1>3. \A j \in DOMAIN Keep(s, K) : p[j] \in DOMAIN s /\ Keep(s, K)[j] = s[p[j]]
  BY <1>1, <1>2 DEF Reads
<1> QED
  BY <1>3 DEF From

LEMMA FromMerged ==
  ASSUME CodeInv, NEW manuals, From(index.records, manuals), From(tool.records, manuals)
  PROVE  From(Merged.records, manuals)
<1>1. index.records \in Seq(Record) /\ tool.records \in Seq(Record)
  BY DEF CodeInv, Files, Tool
<1>2. RecordsBut(index.records, tool.targets) \in Seq(Record)
  BY <1>1, KeepReads DEF RecordsBut
<1>3. From(RecordsBut(index.records, tool.targets), manuals)
  BY <1>1, FromKept DEF RecordsBut
<1>4. Merged.records = RecordsBut(index.records, tool.targets) \o tool.records
  BY DEF Merged, Kept
<1> HIDE DEF RecordsBut
<1> QED
  BY <1>1, <1>2, <1>3, <1>4, FromBoth

LEMMA FromCollected ==
  ASSUME CodeInv, NEW records \in Seq(Record), NEW manuals, From(records, manuals),
         From(tool.records, manuals), tool' = Collected(records)
  PROVE  From(tool'.records, manuals)
<1>1. tool.records \in Seq(Record) /\ tool'.records = tool.records \o records
  BY DEF CodeInv, Tool, Collected
<1> QED
  BY <1>1, FromBoth

(* The step keeps the manifest, and what it holds now is still cited.      *)
LEMMA ManifestGrows ==
  ASSUME PipelinesInv, [Next]_vars, ~emptied'
  PROVE  ~emptied /\ ManifestIds \subseteq ManifestIds'
<1>0. manifest \in Seq(Entries) /\ tool.entry \in Entries
  BY DEF PipelinesInv, FilesTypeOK, CodeInv, Tool
<1>1. \A e \in Entries : manifest' = Append(manifest, e) => ManifestIds \subseteq ManifestIds'
  <2> SUFFICES ASSUME NEW e \in Entries, manifest' = Append(manifest, e)
               PROVE  ManifestIds \subseteq ManifestIds'
    OBVIOUS
  <2>1. /\ DOMAIN manifest \subseteq DOMAIN manifest'
        /\ \A i \in DOMAIN manifest : manifest'[i] = manifest[i]
    BY <1>0, AppendProperties
  <2> QED
    BY <2>1 DEF ManifestIds
<1>2. CASE ToolKilled
  <2>1. ~emptied /\ (ToolAt("append") => manifest' # <<>>)
    BY <1>2 DEF ToolKilled
  <2>2. manifest' = manifest \/ manifest' = Append(manifest, tool.entry)
    BY <1>2, <2>1 DEF ToolKilled, CutWrite
  <2> QED
    BY <1>0, <1>1, <2>1, <2>2 DEF ManifestIds
<1>3. CASE ~ToolKilled
  <2>1. manifest' = manifest \/ manifest' = Append(manifest, tool.entry)
    <3>1. \A e, by : AddManual(e, by) => manifest' = manifest
      BY Zenon DEF AddManual
    <3>2. AppendEntry => manifest' = Append(manifest, tool.entry)
      BY Zenon DEF AppendEntry
    <3> QED
      BY <1>3, <3>1, <3>2, ManifestSteps
  <2>2. emptied' = emptied
    <3>1. CASE CodeStarts \/ AddStep
      BY <3>1, StartsFiles, AddFiles
    <3>2. CASE ExtractStep
      BY <3>2, ExtractFiles
    <3>3. CASE UNCHANGED codeVars \/ UNCHANGED vars
      BY <3>3 DEF codeVars, vars
    <3> QED
      BY <1>3, <3>1, <3>2, <3>3 DEF Next, CodeNext
  <2> QED
    BY <1>0, <1>1, <2>1, <2>2 DEF ManifestIds
<1> QED
  BY <1>2, <1>3

LEMMA CitedCode ==
  ASSUME PipelinesInv, FilesCited, ToolCited, CodeNext, ~emptied',
         ManifestIds \subseteq ManifestIds'
  PROVE  (FilesCited /\ ToolCited)'
<1> DEFINE now == ManifestIds
           next == ManifestIds'
<1> HIDE DEF now, next
<1>0. /\ tool \in Tool /\ now \subseteq next /\ CodeInv
      /\ pdfs \in [Manuals -> Versions \cup {NoFile, Torn}]
      /\ parsed \in [Manuals -> Versions \cup {NoFile, Torn}]
      /\ cache \in [Slots -> Files(Seq(Record))]
  BY DEF PipelinesInv, FilesTypeOK, CodeInv, now, next
<1>1. /\ \A m \in Manuals : pdfs[m] # NoFile \/ parsed[m] # NoFile => m \in next
      /\ \A s \in Slots : From(cache[s].records, next)
      /\ From(index.records, next) /\ From(tool.records, next) /\ From(tool.answer, next)
      /\ Processing /\ ~ToolAt("append") => tool.manual \in next
  BY <1>0, FromMore DEF FilesCited, ToolCited, now
<1>2. \A s : tool' = s =>
         ((s.at \in {"append", "manual", "merge", "off"} \/ s.manual \in next)
            /\ From(s.records, next) /\ From(s.answer, next)
          => ToolCited')
  BY DEF ToolCited, Processing, ToolAt, next
<1>3. /\ \A m \in Manuals : pdfs'[m] # NoFile \/ parsed'[m] # NoFile => m \in next
      /\ \A s \in Slots : From(cache'[s].records, next)
      /\ From(index'.records, next)
      => FilesCited'
  BY DEF FilesCited, next
<1>4. NoTool.at = "off" /\ From(NoTool.records, next) /\ From(NoTool.answer, next)
  BY FromNone DEF NoTool
<1>5. CASE CodeStarts
  <2>1. UNCHANGED <<pdfs, cache, index>>
    BY <1>5, StartsFiles
  <2>2. CASE \E m \in Manuals : Parse(m) \/ ParseKilled(m)
    <3>1. PICK m \in Manuals : Parse(m) \/ ParseKilled(m)
      BY <2>2
    <3>2. pdfs[m] # NoFile /\ (\A n \in Manuals : n # m => parsed'[n] = parsed[n]) /\ tool' = tool
      BY <1>0, <3>1 DEF Parse, ParseKilled, HasPdf
    <3>3. FilesCited'
      BY <1>1, <1>3, <2>1, <3>2
    <3>4. ToolAt("off")
      BY <3>1 DEF Parse, ParseKilled
    <3> QED
      BY <1>1, <1>2, <3>2, <3>3, <3>4 DEF ToolAt
  <2>3. CASE \E e \in Entries, by \in Extractors : AddManual(e, by)
    <3>1. PICK e \in Entries, by \in Extractors : AddManual(e, by)
      BY <2>3
    <3>2. parsed' = parsed
      BY <3>1, Zenon DEF AddManual
    <3>3. tool' = [NoTool EXCEPT !.name = "add_manual", !.by = by, !.entry = e, !.named = <<e.id>>,
                                 !.targets = {e.id}, !.manual = e.id, !.at = IF KnownEntry(e) THEN "keep_pdf" ELSE "append"]
      BY <3>1, Zenon DEF AddManual
    <3>4. /\ tool'.manual = e.id /\ tool'.at = IF KnownEntry(e) THEN "keep_pdf" ELSE "append"
          /\ tool'.records = NoTool.records /\ tool'.answer = NoTool.answer
      BY <3>3 DEF NoTool
    <3>5. KnownEntry(e) => e.id \in next
      BY <1>0 DEF KnownEntry, ManifestIds, now
    <3>6. FilesCited'
      BY <1>1, <1>3, <2>1, <3>2
    <3> QED
      BY <1>2, <1>4, <3>4, <3>5, <3>6
  <2>4. CASE \E manuals \in Listings, by \in Extractors, force \in BOOLEAN : ExtractCodes(manuals, by, force)
    <3>1. PICK manuals, by, force : ExtractCodes(manuals, by, force)
      BY <2>4
    <3>2. parsed' = parsed
      BY <3>1, Zenon DEF ExtractCodes
    <3>3. tool' = [NoTool EXCEPT !.name = "extract_codes", !.at = "manual", !.by = by, !.force = force,
                                 !.named = manuals, !.targets = ToSet(manuals), !.todo = manuals]
      BY <3>1, Zenon DEF ExtractCodes
    <3>4. tool'.at = "manual" /\ tool'.records = NoTool.records /\ tool'.answer = NoTool.answer
      BY <3>3 DEF NoTool
    <3>5. FilesCited'
      BY <1>1, <1>3, <2>1, <3>2
    <3> QED
      BY <1>2, <1>4, <3>4, <3>5
  <2> QED
    BY <1>5, <2>2, <2>3, <2>4 DEF CodeStarts
<1>6. CASE AddStep
  <2>1. UNCHANGED <<cache, index>>
    BY <1>6, AddFiles
  <2>2. CASE AppendEntry
    <3>1. UNCHANGED <<pdfs, parsed>> /\ tool' = [tool EXCEPT !.at = "keep_pdf"]
      BY <2>2, Zenon DEF AppendEntry, GoesTo
    <3>2. tool.manual \in next
      <4>1. /\ manifest' = Append(manifest, tool.entry) /\ manifest \in Seq(Entries)
            /\ tool.entry \in Entries /\ tool.manual = tool.entry.id
        BY <1>0, <2>2 DEF AppendEntry, PipelinesInv, FilesTypeOK, Tool, CodeInv, ToolHas
      <4>2. Len(manifest) + 1 \in DOMAIN manifest' /\ manifest'[Len(manifest) + 1] = tool.entry
        BY <4>1, AppendProperties
      <4> QED
        BY <4>1, <4>2 DEF next, ManifestIds
    <3>3. tool'.manual = tool.manual /\ tool'.records = tool.records /\ tool'.answer = tool.answer
      BY <1>0, <3>1 DEF Tool
    <3>4. FilesCited'
      BY <1>1, <1>3, <2>1, <3>1
    <3> QED
      BY <1>1, <1>2, <3>2, <3>3, <3>4
  <2>3. CASE KeepPdf \/ ParsePdf \/ Confirm
    <3>1. tool.manual \in next
      BY <1>1, <2>3 DEF KeepPdf, ParsePdf, Confirm, Processing, ToolAt
    <3>2. \E step : tool' = [tool EXCEPT !.at = step] \/ tool' = NoTool
      BY <2>3, Zenon DEF KeepPdf, ParsePdf, Confirm, GoesTo, Stops
    <3>3. ToolCited'
      BY <1>0, <1>1, <1>2, <1>4, <3>1, <3>2 DEF Tool
    <3>4. \A n \in Manuals : n # tool.manual => pdfs'[n] = pdfs[n] /\ parsed'[n] = parsed[n]
      BY <1>0, <2>3 DEF KeepPdf, ParsePdf, Confirm, Download, fileVars
    <3>5. FilesCited'
      BY <1>1, <1>3, <2>1, <3>1, <3>4
    <3> QED
      BY <3>3, <3>5
  <2> QED
    BY <1>6, <2>2, <2>3 DEF AddStep
<1>7. CASE ExtractStep
  <2>1. UNCHANGED <<pdfs, parsed>>
    BY <1>7, ExtractFiles
  <2>2. CASE NextManual
    <3> DEFINE m == Head(tool.todo)
    <3>1. m \in Manuals /\ parsed[m] # NoFile
          /\ tool' = [tool EXCEPT !.at = "chunk", !.manual = m, !.todo = Tail(tool.todo), !.next = 1]
      BY <1>0, <2>2, TakenNext DEF PipelinesInv
    <3> HIDE DEF m
    <3>2. tool'.manual = m /\ tool'.records = tool.records /\ tool'.answer = tool.answer /\ m \in Manuals
      BY <1>0, <3>1 DEF Tool
    <3>3. UNCHANGED <<cache, index>>
      BY <2>2, Zenon DEF NextManual
    <3>4. FilesCited'
      BY <1>1, <1>3, <2>1, <3>3
    <3>5. m \in next
      BY <1>1, <3>1, <3>2
    <3> QED
      BY <1>1, <1>2, <3>2, <3>4, <3>5
  <2>3. CASE TakeCached
    <3>1. MoreChunks /\ tool' = Collected(cache[Slot].records) /\ UNCHANGED <<cache, index>>
      BY <2>3, Zenon DEF TakeCached, CacheKey
    <3>2. Slot \in Slots /\ tool.manual \in next
      BY <1>0, <1>1, <3>1, AtChunk DEF MoreChunks, Processing, ToolAt
    <3>3. cache[Slot].records \in Seq(Record)
      BY <1>0, <3>2 DEF Files
    <3>4. From(tool'.records, next)
      BY <1>0, <1>1, <3>1, <3>2, <3>3, FromCollected
    <3>5. tool'.manual = tool.manual /\ tool'.answer = tool.answer
      BY <1>0, <3>1 DEF Tool, Collected
    <3>6. FilesCited'
      BY <1>1, <1>3, <2>1, <3>1
    <3> QED
      BY <1>1, <1>2, <3>2, <3>4, <3>5, <3>6
  <2>4. CASE Ask
    <3>1. PICK answer \in Answers(tool.manual, Candidates[tool.next], tool.by) :
            tool' = [tool EXCEPT !.at = "keep", !.answer = answer]
      BY <2>4, Zenon DEF Ask
    <3>2. MoreChunks /\ UNCHANGED <<cache, index>>
      BY <2>4, Zenon DEF Ask
    <3>3. tool.manual \in next
      BY <1>1, <3>2 DEF MoreChunks, Processing, ToolAt
    <3>4. From(answer, next)
      BY <3>1, <3>3 DEF Answers, From
    <3>5. tool'.manual = tool.manual /\ tool'.records = tool.records /\ tool'.answer = answer
      BY <1>0, <3>1 DEF Tool
    <3>6. FilesCited'
      BY <1>1, <1>3, <2>1, <3>2
    <3> QED
      BY <1>1, <1>2, <3>3, <3>4, <3>5, <3>6
  <2>5. CASE KeepAnswer
    <3>1. /\ ToolAt("keep") /\ tool' = Collected(tool.answer) /\ index' = index
          /\ cache' = [cache EXCEPT ![Slot] = Kept(tool.answer)]
      BY <2>5, Zenon DEF KeepAnswer, CacheKey
    <3>2. tool.manual \in next /\ tool.answer \in Seq(Record)
      BY <1>0, <1>1, <3>1 DEF Processing, ToolAt, Tool
    <3>3. From(tool'.records, next)
      BY <1>0, <1>1, <3>1, <3>2, FromCollected
    <3>4. tool'.manual = tool.manual /\ tool'.answer = tool.answer
      BY <1>0, <3>1 DEF Tool, Collected
    <3>5. \A s \in Slots : cache'[s].records \in {cache[s].records, tool.answer}
      BY <1>0, <3>1 DEF Kept
    <3>6. FilesCited'
      BY <1>1, <1>3, <2>1, <3>1, <3>5
    <3> QED
      BY <1>1, <1>2, <3>2, <3>3, <3>4, <3>6
  <2>6. CASE ManualDone \/ ToolFails \/ Merge
    <3>1. /\ tool' = NoTool \/ \E step \in {"merge", "manual"} : tool' = [tool EXCEPT !.at = step]
          /\ cache' = cache
      BY <2>6 DEF ManualDone, ToolFails, Merge, GoesTo, Stops
    <3>2. index' = index \/ index' = Merged
      BY <2>6, Zenon DEF ManualDone, ToolFails, Merge
    <3>3. From(index'.records, next)
      BY <1>0, <1>1, <3>2, FromMerged
    <3>4. FilesCited'
      BY <1>1, <1>3, <2>1, <3>1, <3>3
    <3>5. ToolCited'
      BY <1>0, <1>1, <1>2, <1>4, <3>1 DEF Tool
    <3> QED
      BY <3>4, <3>5
  <2> QED
    BY <1>7, <2>2, <2>3, <2>4, <2>5, <2>6 DEF ExtractStep
<1>8. CASE ToolKilled
  <2>1. tool' = NoTool
    BY <1>8, Zenon DEF ToolKilled, Stops
  <2>2. ToolCited'
    BY <1>2, <1>4, <2>1
  <2>3. \A n \in Manuals : pdfs'[n] # pdfs[n] \/ parsed'[n] # parsed[n] => n \in next
    <3>1. ToolAt("keep_pdf") \/ ToolAt("parse") => tool.manual \in next
      BY <1>1 DEF Processing, ToolAt
    <3>2. ~ToolAt("keep_pdf") /\ ~ToolAt("parse") => UNCHANGED <<pdfs, parsed>>
      BY <1>8 DEF ToolKilled
    <3>3. \A n \in Manuals : n # tool.manual => pdfs'[n] = pdfs[n] /\ parsed'[n] = parsed[n]
      BY <1>0, <1>8 DEF ToolKilled
    <3> QED
      BY <3>1, <3>2, <3>3
  <2>4. \A s \in Slots : From(cache'[s].records, next)
    <3>1. \/ cache' = cache
          \/ \E a \in CutWrite(cache[CacheKey], Kept(tool.answer), TornAnswer) :
               cache' = [cache EXCEPT ![CacheKey] = a]
      BY <1>8 DEF ToolKilled
    <3>2. \A s \in Slots : cache'[s].records \in {cache[s].records, tool.answer, <<>>}
      BY <1>0, <3>1 DEF Kept, TornAnswer, CutWrite
    <3> QED
      BY <1>1, <3>2, FromNone
  <2>5. From(index'.records, next)
    <3>1. index' = index \/ index' = Merged \/ index' = TornAnswer
      BY <1>8 DEF ToolKilled, IndexLeft, CutWrite
    <3>2. From(TornAnswer.records, next)
      BY FromNone DEF TornAnswer
    <3> QED
      BY <1>0, <1>1, <3>1, <3>2, FromMerged
  <2>6. FilesCited'
    BY <1>1, <1>3, <2>3, <2>4, <2>5
  <2> QED
    BY <2>2, <2>6
<1> QED
  BY <1>5, <1>6, <1>7, <1>8 DEF CodeNext

(* A manual is in the manifest before anything of it is in the index,      *)
(* whatever was killed, but a script that was writing the manifest itself. *)
THEOREM Cited == Spec => []IndexedIsInManifest
<1>1. Init => CitedInv
  <2> SUFFICES ASSUME Init PROVE CitedInv
    OBVIOUS
  <2>1. \A i \in DOMAIN FirstIndex : FirstIndex[i].manual \in ManifestIds
    BY CodeAssumption DEF Init, FilesInit, ManifestIds
  <2>2. FilesCited
    BY <2>1, FromNone DEF Init, FilesInit, CodeInit, FilesCited, NoAnswer, Kept, From
  <2>3. ToolCited
    BY FromNone DEF Init, CodeInit, ToolCited, NoTool, Processing, ToolAt
  <2> QED
    BY <2>2, <2>3 DEF CitedInv
<1>2. PipelinesInv /\ CitedInv /\ [Next]_vars => CitedInv'
  <2> SUFFICES ASSUME PipelinesInv, CitedInv, [Next]_vars, ~emptied'
               PROVE  (FilesCited /\ ToolCited)'
    BY DEF CitedInv
  <2>1. ~emptied /\ ManifestIds \subseteq ManifestIds'
    BY ManifestGrows
  <2>2. FilesCited /\ ToolCited
    BY <2>1 DEF CitedInv
  <2>3. CASE CodeNext
    BY <2>1, <2>2, <2>3, CitedCode
  <2>4. CASE UNCHANGED <<manifest, pdfs>> /\ UNCHANGED codeVars
    BY <2>2, <2>4 DEF codeVars, FilesCited, ToolCited, ManifestIds, Processing, ToolAt
  <2>5. CASE (\E m \in Manuals : Fetch(m) \/ FetchKilled(m)) /\ UNCHANGED codeVars
    <3>1. PICK m \in Manuals : Fetch(m) \/ FetchKilled(m)
      BY <2>5
    <3>2. m \in ManifestIds /\ manifest' = manifest
      BY <3>1 DEF Fetch, FetchKilled
    <3>3. \A n \in Manuals : n # m => pdfs'[n] = pdfs[n]
      BY <3>1 DEF Fetch, FetchKilled, Download, DownloadFails, PipelinesInv, FilesTypeOK
    <3> QED
      BY <2>2, <2>5, <3>2, <3>3 DEF codeVars, FilesCited, ToolCited, ManifestIds, Processing, ToolAt
  <2>6. UNCHANGED vars => UNCHANGED <<manifest, pdfs>> /\ UNCHANGED codeVars
    BY DEF vars, fileVars
  <2> QED
    BY <2>3, <2>4, <2>5, <2>6, SymptomFiles DEF Next
<1>3. CitedInv => IndexedIsInManifest
  BY DEF CitedInv, FilesCited, From, IndexedIsInManifest
<1> QED
  BY <1>1, <1>2, <1>3, PipelinesCorrect, PTL DEF Spec

(***************************************************************************)
(* What is bought                                                          *)
(***************************************************************************)
(* An answer that was bought and is not in the cache yet.                  *)
AtHand(s) == ToolAt("keep") /\ Bought /\ s = Slot

BoughtAt(s) ==
    /\ AtHand(s) => cache[s].file = NoFile
    /\ paid[s] <= wasted[s] + (IF cache[s].file # NoFile \/ AtHand(s) THEN 1 ELSE 0)

BoughtInv == \A s \in Slots : BoughtAt(s)

(* A step that buys nothing, loses nothing and takes nothing from the      *)
(* cache: what was paid for an answer is still accounted for.              *)
LEMMA NothingBought ==
  ASSUME CodeInv, BoughtInv, NEW s \in Slots, ~AtHand(s), paid'[s] = paid[s], wasted'[s] = wasted[s],
         cache[s].file # NoFile => cache'[s].file # NoFile, ~AtHand(s)'
  PROVE  BoughtAt(s)'
<1>1. paid[s] \in Nat /\ wasted[s] \in Nat
  BY DEF CodeInv
<1>2. paid[s] <= wasted[s] + (IF cache[s].file # NoFile THEN 1 ELSE 0)
  BY DEF BoughtInv, BoughtAt
<1> QED
  BY <1>1, <1>2 DEF BoughtAt

LEMMA StepsFromKeep ==
  ASSUME tool \in Tool,
         CodeStarts \/ AddStep \/ NextManual \/ TakeCached \/ ManualDone \/ ToolFails \/ Merge
  PROVE  ~ToolAt("keep") /\ ~ToolAt("keep")'
<1> USE FirstTypes DEF ToolAt
<1>1. CASE \E m \in Manuals : Parse(m) \/ ParseKilled(m)
  BY <1>1 DEF Parse, ParseKilled
<1>2. CASE \E e \in Entries, by \in Extractors : AddManual(e, by)
  BY <1>2 DEF AddManual, Tool
<1>3. CASE \E manuals \in Listings, by \in Extractors, force \in BOOLEAN : ExtractCodes(manuals, by, force)
  BY <1>3 DEF ExtractCodes, Tool
<1>4. CASE AddStep
  BY <1>4 DEF AddStep, AppendEntry, KeepPdf, ParsePdf, Confirm, GoesTo, Stops, Tool
<1>5. CASE NextManual
  <2>1. PICK m, todo : tool' = [tool EXCEPT !.at = "chunk", !.manual = m, !.todo = todo, !.next = 1]
    BY <1>5, Zenon DEF NextManual
  <2>2. tool.at = "manual"
    BY <1>5, Zenon DEF NextManual
  <2> QED
    BY <2>1, <2>2 DEF Tool
<1>6. CASE TakeCached
  BY <1>6 DEF TakeCached, MoreChunks, Collected, Tool
<1>7. CASE ManualDone
  BY <1>7 DEF ManualDone, GoesTo, Tool
<1>8. CASE ToolFails \/ Merge
  BY <1>8 DEF ToolFails, Merge, Stops, MoreChunks
<1> QED
  BY <1>1, <1>2, <1>3, <1>4, <1>5, <1>6, <1>7, <1>8 DEF CodeStarts

LEMMA BoughtCode ==
  ASSUME PipelinesInv, BoughtInv, CodeNext
  PROVE  BoughtInv'
<1> SUFFICES ASSUME NEW s \in Slots PROVE BoughtAt(s)'
  BY DEF BoughtInv
<1>0. CodeInv /\ cache \in [Slots -> Files(Seq(Record))] /\ tool \in Tool
      /\ paid \in [Slots -> Nat] /\ wasted \in [Slots -> Nat]
  BY DEF PipelinesInv, CodeInv
<1>1. CASE Ask
  <2>1. PICK answer : tool' = [tool EXCEPT !.at = "keep", !.answer = answer]
    BY <1>1, Zenon DEF Ask
  <2>2. MoreChunks /\ ~Cached /\ UNCHANGED <<parsed, cache, wasted>>
        /\ paid' = IF Bought THEN [paid EXCEPT ![Slot] = paid[Slot] + 1] ELSE paid
    BY <1>1, Zenon DEF Ask, fileVars
  <2>3. Slot \in Slots /\ ~ToolAt("keep")
    BY <1>0, <2>2, AtChunk DEF MoreChunks, ToolAt
  <2>4. Slot' = Slot /\ Bought' = Bought /\ ToolAt("keep")'
    BY <1>0, <2>1, <2>2 DEF Slot, Candidates, Bought, ToolAt, Tool
  <2>5. Bought => cache[Slot].file = NoFile
    BY <2>2 DEF Cached, CacheKey, Bought
  <2>6. CASE Bought /\ s = Slot
    <3>1. paid'[s] = paid[s] + 1 /\ paid[s] <= wasted[s] + 0
      BY <1>0, <2>2, <2>3, <2>5, <2>6 DEF BoughtInv, BoughtAt, AtHand
    <3>2. paid[s] \in Nat /\ wasted[s] \in Nat
      BY <1>0
    <3>3. AtHand(s)'
      BY <2>4, <2>6 DEF AtHand
    <3> QED
      BY <2>2, <2>5, <2>6, <3>1, <3>2, <3>3 DEF BoughtAt
  <2>7. CASE ~(Bought /\ s = Slot)
    <3>1. ~AtHand(s) /\ ~AtHand(s)' /\ paid'[s] = paid[s]
      BY <1>0, <2>2, <2>3, <2>4, <2>7 DEF AtHand
    <3> QED
      BY <1>0, <2>2, <3>1, NothingBought
  <2> QED
    BY <2>6, <2>7
<1>2. CASE KeepAnswer
  <2>1. /\ ToolAt("keep") /\ tool' = Collected(tool.answer) /\ UNCHANGED <<paid, wasted>>
        /\ cache' = [cache EXCEPT ![Slot] = Kept(tool.answer)]
    BY <1>2, Zenon DEF KeepAnswer, CacheKey
  <2>2. Slot \in Slots /\ ~ToolAt("keep")'
    BY <1>0, <2>1, AtKeep DEF ToolAt, Collected, Tool
  <2>3. cache'[s].file = IF s = Slot THEN "kept" ELSE cache[s].file
    BY <1>0, <2>1, <2>2 DEF Kept
  <2>4. "kept" # NoFile /\ ~AtHand(s)' /\ paid[s] \in Nat /\ wasted[s] \in Nat
    BY <1>0, <2>2 DEF NoFile, AtHand
  <2>5. paid[s] <= wasted[s] + (IF cache[s].file # NoFile \/ AtHand(s) THEN 1 ELSE 0)
    BY DEF BoughtInv, BoughtAt
  <2>6. AtHand(s) => s = Slot
    BY DEF AtHand
  <2> QED
    BY <2>1, <2>3, <2>4, <2>5, <2>6 DEF BoughtAt
<1>3. CASE ToolKilled
  <2>1. tool' = NoTool /\ paid' = paid
    BY <1>3, Zenon DEF ToolKilled, Stops
  <2>2. ~AtHand(s)' /\ paid[s] \in Nat /\ wasted[s] \in Nat
    BY <1>0, <2>1, FirstTypes DEF AtHand, ToolAt
  <2>3. CASE ~ToolAt("keep")
    <3>1. UNCHANGED <<cache, wasted>>
      BY <1>3, <2>3 DEF ToolKilled
    <3> QED
      BY <1>0, <2>1, <2>2, <2>3, <3>1, NothingBought DEF AtHand
  <2>4. CASE ToolAt("keep")
    <3>1. PICK a \in CutWrite(cache[Slot], Kept(tool.answer), TornAnswer) :
            cache' = [cache EXCEPT ![Slot] = a]
      BY <1>3, <2>4 DEF ToolKilled, CacheKey
    <3>2. Slot \in Slots
      BY <1>0, <2>4, AtKeep
    <3>3. a = cache[Slot] \/ a.file # NoFile
      BY <3>1 DEF CutWrite, Kept, TornAnswer, NoFile, Torn
    <3>4. wasted' = IF Bought /\ cache' = cache THEN [wasted EXCEPT ![Slot] = wasted[Slot] + 1] ELSE wasted
      BY <1>3, <2>4, Zenon DEF ToolKilled
    <3>5. cache'[s] = IF s = Slot THEN a ELSE cache[s]
      BY <1>0, <3>1, <3>2
    <3>6. CASE ~AtHand(s)
      <4>1. wasted'[s] = wasted[s]
        BY <1>0, <2>4, <3>2, <3>4, <3>6 DEF AtHand
      <4> QED
        BY <1>0, <2>1, <2>2, <3>3, <3>5, <3>6, <4>1, NothingBought
    <3>7. CASE AtHand(s)
      <4>1. s = Slot /\ Bought /\ paid[s] <= wasted[s] + 1
        BY <3>7 DEF AtHand, BoughtInv, BoughtAt
      <4>2. CASE a = cache[Slot]
        <5>1. cache' = cache
          BY <1>0, <3>1, <3>2, <4>2
        <5>2. wasted'[s] = wasted[s] + 1
          BY <1>0, <3>2, <3>4, <4>1, <5>1
        <5>3. paid'[s] <= wasted'[s]
          BY <2>1, <4>1, <5>2
        <5>4. wasted'[s] \in Nat
          BY <2>2, <5>2
        <5> QED
          BY <2>1, <2>2, <5>3, <5>4 DEF BoughtAt
      <4>3. CASE a.file # NoFile
        <5>1. cache'[s].file # NoFile /\ cache[s].file = NoFile
          BY <3>5, <3>7, <4>1, <4>3 DEF BoughtInv, BoughtAt
        <5>2. cache' # cache
          BY <5>1
        <5>3. wasted' = wasted
          BY <3>4, <5>2
        <5> QED
          BY <2>1, <2>2, <4>1, <5>1, <5>3 DEF BoughtAt
      <4> QED
        BY <3>3, <4>2, <4>3
    <3> QED
      BY <3>6, <3>7
  <2> QED
    BY <2>3, <2>4
<1>4. CASE CodeStarts \/ AddStep \/ NextManual \/ TakeCached \/ ManualDone \/ ToolFails \/ Merge
  <2>1. UNCHANGED <<cache, paid, wasted>>
    <3>1. CASE CodeStarts \/ AddStep
      BY <3>1, StartsFiles, AddFiles
    <3>2. CASE NextManual \/ TakeCached \/ ManualDone
      BY <3>2, Zenon DEF NextManual, TakeCached, ManualDone
    <3>3. CASE ToolFails \/ Merge
      BY <3>3, Zenon DEF ToolFails, Merge
    <3> QED
      BY <1>4, <3>1, <3>2, <3>3
  <2>2. ~ToolAt("keep") /\ ~ToolAt("keep")'
    BY <1>0, <1>4, StepsFromKeep
  <2> QED
    BY <1>0, <2>1, <2>2, NothingBought DEF AtHand
<1> QED
  BY <1>1, <1>2, <1>3, <1>4 DEF CodeNext, ExtractStep

(* However scripts fail, are killed and are started again, no answer is    *)
(* bought twice, but one that was lost in a kill.                          *)
THEOREM PaidOnce == Spec => []BoughtOnce
<1>1. Init => BoughtInv
  <2> SUFFICES ASSUME Init, NEW s \in Slots PROVE BoughtAt(s)
    BY DEF BoughtInv
  <2>1. /\ paid = [t \in Slots |-> 0] /\ wasted = [t \in Slots |-> 0]
        /\ cache = [t \in Slots |-> NoAnswer] /\ tool = NoTool
    BY DEF Init, CodeInit
  <2>2. paid[s] = 0 /\ wasted[s] = 0 /\ cache[s].file = NoFile /\ tool.at = "off"
    BY <2>1, FirstTypes DEF NoAnswer
  <2> QED
    BY <2>2 DEF BoughtAt, AtHand, ToolAt
<1>2. PipelinesInv /\ BoughtInv /\ [Next]_vars => BoughtInv'
  <2> SUFFICES ASSUME PipelinesInv, BoughtInv, [Next]_vars PROVE BoughtInv'
    OBVIOUS
  <2>1. CASE CodeNext
    BY <2>1, BoughtCode
  <2>2. CASE UNCHANGED codeVars
    BY <2>2 DEF codeVars, BoughtInv, BoughtAt, AtHand, ToolAt, Bought, Slot, Candidates
  <2> QED
    BY <2>1, <2>2 DEF Next, vars
<1>3. PipelinesInv /\ BoughtInv => BoughtOnce
  <2> SUFFICES ASSUME PipelinesInv, BoughtInv, NEW s \in Slots PROVE paid[s] <= 1 + wasted[s]
    BY DEF BoughtOnce
  <2>1. paid[s] \in Nat /\ wasted[s] \in Nat
    BY DEF PipelinesInv, CodeInv
  <2>2. paid[s] <= wasted[s] + (IF cache[s].file # NoFile \/ AtHand(s) THEN 1 ELSE 0)
    BY DEF BoughtInv, BoughtAt
  <2> QED
    BY <2>1, <2>2
<1> QED
  BY <1>1, <1>2, <1>3, PipelinesCorrect, PTL DEF Spec

(***************************************************************************)
(* The troubleshooting tables                                              *)
(***************************************************************************)
(* What extract_symptoms.py holds of a manual are its first tables.        *)
CopiesOf(copies, tables) ==
    /\ Len(copies) <= Len(tables)
    /\ \A i \in 1 .. Len(copies) : copies[i].table = tables[i]

BatchCopies ==
    /\ batch.at \in {"table", "keep"} =>
         CopiesOf(batch.copies, TablesHere) /\ batch.next = Len(batch.copies) + 1
    /\ BatchAt("merge") =>
         /\ CopiesOf(batch.copies, TablesHere) /\ Len(batch.copies) = Len(TablesHere)
         /\ AllAccepted(batch.copies)
    /\ BatchAt("read") => batch.copies = <<>> /\ batch.next = 1

AuditInv == BatchCopies /\ OnlyAuditedSymptoms

LEMMA CopiesAll ==
  ASSUME NEW m \in Manuals, NEW v \in Versions, NEW copies \in Seq(Copy),
         CopiesOf(copies, TablesOf[m][v]), Len(copies) = Len(TablesOf[m][v]), AllAccepted(copies)
  PROVE  copies = [i \in DOMAIN TablesOf[m][v] |-> [table |-> TablesOf[m][v][i], verdict |-> "audited"]]
<1> DEFINE tables == TablesOf[m][v]
<1>1. tables \in Seq(Tables)
  BY CandidateTypes
<1>2. /\ DOMAIN tables = 1 .. Len(tables) /\ DOMAIN copies = 1 .. Len(copies)
      /\ copies = [i \in DOMAIN copies |-> copies[i]]
  BY <1>1
<1>3. \A i \in DOMAIN copies : copies[i] = [table |-> tables[i], verdict |-> "audited"]
  <2> SUFFICES ASSUME NEW i \in DOMAIN copies
               PROVE  copies[i] = [table |-> tables[i], verdict |-> "audited"]
    OBVIOUS
  <2>1. copies[i] \in Copy
    BY <1>2
  <2>2. copies[i].table = tables[i] /\ copies[i].verdict = "audited"
    BY <1>2 DEF CopiesOf, AllAccepted
  <2> QED
    BY <2>1, <2>2 DEF Copy
<1> HIDE DEF tables
<1>4. copies = [i \in DOMAIN tables |-> [table |-> tables[i], verdict |-> "audited"]]
  BY <1>2, <1>3 DEF tables
<1> QED
  BY <1>4 DEF tables

LEMMA AuditedCopies ==
  ASSUME SymptomInv, AuditInv, BatchAt("merge"), symptoms' = WithCopies
  PROVE  OnlyAuditedSymptoms'
<1>1. /\ batch.manual \in Manuals /\ pdfs[batch.manual] \in Versions /\ batch.copies \in Seq(Copy)
  BY DEF SymptomInv, Batch, BatchHas, BatchAt
<1>2. batch.copies = [i \in DOMAIN TablesHere |-> [table |-> TablesHere[i], verdict |-> "audited"]]
  BY <1>1, CopiesAll DEF AuditInv, BatchCopies, TablesHere
<1>3. symptoms'.of = [symptoms.of EXCEPT ![batch.manual] = batch.copies]
      /\ symptoms.of \in [Manuals -> Seq(Copy)]
  BY WithCopiesTypes DEF SymptomInv
<1> SUFFICES ASSUME NEW m \in Manuals, symptoms'.of[m] # <<>>
             PROVE  \E v \in Versions :
                      symptoms'.of[m] = [i \in DOMAIN TablesOf[m][v] |->
                                           [table |-> TablesOf[m][v][i], verdict |-> "audited"]]
  BY DEF OnlyAuditedSymptoms
<1>4. CASE m = batch.manual
  BY <1>1, <1>2, <1>3, <1>4 DEF TablesHere
<1>5. CASE m # batch.manual
  BY <1>3, <1>5 DEF AuditInv, OnlyAuditedSymptoms
<1> QED
  BY <1>4, <1>5

LEMMA OneMoreCopy ==
  ASSUME SymptomInv, AuditInv, MoreTables \/ BatchAt("keep"), UNCHANGED pdfs,
         NEW verdict \in Verdicts, NEW spent, batch' = [Copied(verdict) EXCEPT !.spent = spent]
  PROVE  BatchCopies'
<1> DEFINE copy == [table |-> Table, verdict |-> verdict]
           copies == Append(batch.copies, copy)
           n == Len(batch.copies)
<1>1. batch \in Batch /\ batch.copies \in Seq(Copy) /\ TablesHere \in Seq(Tables) /\ copy \in Copy
      /\ batch.next \in 1 .. Len(TablesHere)
  BY AtTable DEF SymptomInv, Batch, Copy
<1>2. /\ n \in Nat /\ Len(copies) = n + 1 /\ copies[n + 1] = copy
      /\ \A i \in 1 .. n : copies[i] = batch.copies[i]
  BY <1>1, AppendProperties
<1>3. batch.next = n + 1 /\ \A i \in 1 .. n : batch.copies[i].table = TablesHere[i]
  BY DEF AuditInv, BatchCopies, CopiesOf, MoreTables, BatchAt
<1>4. /\ batch'.at = "table" /\ batch'.manual = batch.manual /\ batch'.copies = copies
      /\ batch'.next = n + 2
  BY <1>1, <1>2, <1>3 DEF Copied, Batch
<1>5. copy.table = TablesHere[n + 1] /\ n + 1 <= Len(TablesHere)
  BY <1>1, <1>3 DEF Table
<1> HIDE DEF copies, copy, n
<1>6. \A i \in 1 .. n + 1 : i = n + 1 \/ i \in 1 .. n
  BY <1>2
<1>7. CopiesOf(copies, TablesHere)
  BY <1>2, <1>3, <1>5, <1>6 DEF CopiesOf
<1>8. TablesHere' = TablesHere
  BY <1>4 DEF TablesHere
<1>9. batch'.next = Len(copies) + 1
  BY <1>2, <1>4
<1> QED
  BY <1>4, <1>7, <1>8, <1>9 DEF BatchCopies, BatchAt

LEMMA AuditStep ==
  ASSUME PipelinesInv, AuditInv, SymptomNext
  PROVE  AuditInv'
<1>0. /\ SymptomInv /\ batch \in Batch /\ UNCHANGED pdfs
      /\ symptoms \in [file : {Torn, "kept"}, of : [Manuals -> Seq(Copy)]]
  BY SymptomFiles DEF PipelinesInv, SymptomInv
<1>1. NoBatch.at = "off"
  BY FirstTypes
<1>2. symptoms'.of = symptoms.of => OnlyAuditedSymptoms'
  BY DEF AuditInv, OnlyAuditedSymptoms
<1>3. batch'.at \in {"off", "manual"} => BatchCopies'
  BY DEF BatchCopies, BatchAt
<1>4. CASE \E manuals \in Listings, force \in BOOLEAN : StartBatch(manuals, force)
  <2>1. symptoms' = symptoms /\ batch'.at = "manual"
    BY <1>4, FirstTypes DEF StartBatch, Batch
  <2> QED
    BY <1>2, <1>3, <2>1 DEF AuditInv
<1>5. CASE TakeManual
  <2>1. /\ symptoms' = symptoms
        /\ batch' = [batch EXCEPT !.at = "read", !.manual = Head(batch.todo), !.todo = Tail(batch.todo),
                                  !.next = 1, !.attempt = 1, !.copies = <<>>]
    BY <1>5, Zenon DEF TakeManual
  <2>2. batch'.at = "read" /\ batch'.copies = <<>> /\ batch'.next = 1
    BY <1>0, <2>1 DEF Batch
  <2> QED
    BY <1>2, <2>1, <2>2 DEF AuditInv, BatchCopies, BatchAt
<1>6. CASE SkipManual \/ NothingWritten \/ BatchDone \/ BatchStops
  <2>1. symptoms' = symptoms /\ (batch' = NoBatch \/ Moves("manual"))
    BY <1>6 DEF SkipManual, NothingWritten, BatchDone, BatchStops, BatchEnds
  <2>2. batch'.at \in {"off", "manual"}
    BY <1>0, <1>1, <2>1 DEF Moves, Batch
  <2> QED
    BY <1>2, <1>3, <2>1, <2>2 DEF AuditInv
<1>7. CASE BeginManual
  <2>1. symptoms' = symptoms /\ BatchAt("read") /\ Moves("table") /\ Readable
    BY <1>7 DEF BeginManual
  <2>2. batch'.at = "table" /\ batch'.manual = batch.manual /\ batch'.copies = <<>> /\ batch'.next = 1
    BY <1>0, <2>1 DEF Moves, Batch, AuditInv, BatchCopies
  <2>3. batch.manual \in Manuals /\ pdfs[batch.manual] \in Versions
    BY <1>0, <2>1 DEF Readable, HasPdf, PipelinesInv, FilesTypeOK, Batch
  <2>4. Len(TablesHere) \in Nat /\ TablesHere' = TablesHere
    BY <1>0, <2>2, <2>3, CandidateTypes DEF TablesHere
  <2> QED
    BY <1>2, <2>1, <2>2, <2>4 DEF AuditInv, BatchCopies, BatchAt, CopiesOf
<1>8. CASE TakeAnswer
  <2>1. answers[Table] \in Verdicts
    BY <1>8 DEF TakeAnswer, Usable, Verdicts
  <2>2. batch' = [Copied(answers[Table]) EXCEPT !.spent = batch.spent] /\ symptoms' = symptoms
        /\ MoreTables
    BY <1>0, <1>8, CopiedSame DEF TakeAnswer
  <2> QED
    BY <1>0, <1>2, <2>1, <2>2, OneMoreCopy DEF AuditInv
<1>9. CASE AskNova
  <2>1. /\ MoreTables /\ symptoms' = symptoms
        /\ \E cost \in Costs, verdict \in Verdicts : Answered(cost, verdict)
    BY <1>0, <1>9, AskAnswered
  <2>2. PICK cost \in Costs, verdict \in Verdicts : Answered(cost, verdict)
    BY <2>1
  <2>3. CASE batch' = [batch EXCEPT !.at = "keep", !.spent = batch.spent + cost]
    BY <1>0, <1>2, <2>1, <2>3 DEF MoreTables, Batch, AuditInv, BatchCopies, BatchAt, TablesHere
  <2>4. CASE batch' = [batch EXCEPT !.attempt = batch.attempt + 1, !.spent = batch.spent + cost]
    BY <1>0, <1>2, <2>1, <2>4 DEF MoreTables, Batch, AuditInv, BatchCopies, BatchAt, TablesHere
  <2>5. CASE batch' = [Copied(verdict) EXCEPT !.spent = batch.spent + cost]
    BY <1>0, <1>2, <2>1, <2>5, OneMoreCopy DEF AuditInv
  <2> QED
    BY <2>2, <2>3, <2>4, <2>5 DEF Answered
<1>10. CASE KeepCopy
  <2>1. /\ batch' = [Copied("audited") EXCEPT !.spent = batch.spent] /\ symptoms' = symptoms
        /\ BatchAt("keep") /\ "audited" \in Verdicts
    BY <1>0, <1>10, CopiedSame DEF KeepCopy, Verdicts
  <2> QED
    BY <1>0, <1>2, <2>1, OneMoreCopy DEF AuditInv
<1>11. CASE BuildRecords
  <2>1. symptoms' = symptoms /\ TablesDone /\ AllAccepted(batch.copies) /\ Moves("merge")
    BY <1>11 DEF BuildRecords
  <2>2. batch'.at = "merge" /\ batch'.manual = batch.manual /\ batch'.copies = batch.copies
    BY <1>0, <2>1 DEF Moves, Batch
  <2>3. CopiesOf(batch.copies, TablesHere) /\ batch.next = Len(batch.copies) + 1
    BY <2>1 DEF TablesDone, AuditInv, BatchCopies, BatchAt
  <2>4. batch.manual \in Manuals /\ pdfs[batch.manual] \in Versions
    BY <1>0, <2>1 DEF TablesDone, SymptomInv, BatchHas, BatchAt, Batch
  <2>5. Len(TablesHere) \in Nat /\ TablesHere' = TablesHere /\ Len(batch.copies) \in Nat
    BY <1>0, <2>2, <2>4, CandidateTypes DEF TablesHere, Batch
  <2>6. Len(batch.copies) = Len(TablesHere)
    BY <2>1, <2>3, <2>5 DEF TablesDone, CopiesOf
  <2>7. AllAccepted(batch'.copies)
    BY <2>1, <2>2
  <2> QED
    BY <1>2, <2>1, <2>2, <2>3, <2>5, <2>6, <2>7 DEF AuditInv, BatchCopies, BatchAt
<1>12. CASE MergeSymptoms
  <2>1. BatchAt("merge") /\ symptoms' = WithCopies /\ Moves("manual")
    BY <1>12 DEF MergeSymptoms
  <2>2. batch'.at = "manual"
    BY <1>0, <2>1 DEF Moves, Batch
  <2> QED
    BY <1>0, <1>3, <2>1, <2>2, AuditedCopies DEF AuditInv
<1>13. CASE BatchKilled
  <2>1. batch' = NoBatch
    BY <1>13 DEF BatchKilled, BatchEnds
  <2>2. \/ symptoms' = symptoms
        \/ BatchAt("merge") /\ symptoms' = WithCopies
        \/ symptoms' = [symptoms EXCEPT !.file = Torn]
    BY <1>13 DEF BatchKilled, CutWrite
  <2>3. OnlyAuditedSymptoms'
    <3>1. CASE BatchAt("merge") /\ symptoms' = WithCopies
      BY <1>0, <3>1, AuditedCopies
    <3>2. CASE symptoms' = symptoms \/ symptoms' = [symptoms EXCEPT !.file = Torn]
      BY <1>0, <1>2, <3>2
    <3> QED
      BY <2>2, <3>1, <3>2
  <2> QED
    BY <1>1, <1>3, <2>1, <2>3 DEF AuditInv
<1> QED
  BY <1>4, <1>5, <1>6, <1>7, <1>8, <1>9, <1>10, <1>11, <1>12, <1>13 DEF SymptomNext

(* What symptoms.json holds of a manual are all the tables of one version  *)
(* of it, each audited, whatever the model answered and what was killed.   *)
THEOREM OnlyAudited == Spec => []OnlyAuditedSymptoms
<1>1. Init => AuditInv
  BY FirstTypes DEF Init, SymptomInit, AuditInv, BatchCopies, BatchAt, OnlyAuditedSymptoms
<1>2. PipelinesInv /\ AuditInv /\ [Next]_vars => AuditInv'
  <2> SUFFICES ASSUME PipelinesInv, AuditInv, [Next]_vars PROVE AuditInv'
    OBVIOUS
  <2>1. CASE SymptomNext
    BY <2>1, AuditStep
  <2>2. CASE BatchAt("off") /\ UNCHANGED symptomVars
    BY <2>2 DEF symptomVars, AuditInv, BatchCopies, BatchAt, OnlyAuditedSymptoms
  <2>3. CASE UNCHANGED vars
    BY <2>3 DEF vars, fileVars, symptomVars, AuditInv, BatchCopies, BatchAt, OnlyAuditedSymptoms,
                TablesHere
  <2> QED
    BY <2>1, <2>2, <2>3 DEF Next
<1>3. AuditInv => OnlyAuditedSymptoms
  BY DEF AuditInv
<1> QED
  BY <1>1, <1>2, <1>3, PipelinesCorrect, PTL DEF Spec

(* Retries included, a run spends at most what one call costs more than    *)
(* was estimated: the cap is checked again before each of them.            *)
THEOREM CapKept == Spec => []PassesCapByOneCall
<1>1. Init => PassesCapByOneCall
  BY DEF Init, SymptomInit, NoBatch, PassesCapByOneCall
<1>2. PipelinesInv /\ PassesCapByOneCall /\ [Next]_vars => PassesCapByOneCall'
  <2> SUFFICES ASSUME PipelinesInv, PassesCapByOneCall, [Next]_vars PROVE PassesCapByOneCall'
    OBVIOUS
  <2>0. SymptomInv /\ batch \in Batch
    BY DEF PipelinesInv, SymptomInv
  <2>1. batch'.spent = batch.spent \/ batch'.spent = 0 => PassesCapByOneCall'
    BY DEF PassesCapByOneCall
  <2>2. NoBatch.spent = 0 /\ NoBatch \in Batch
    BY FirstTypes DEF NoBatch
  <2>3. CASE AskNova
    <3>1. /\ MoreTables /\ WithinCap
          /\ \E cost \in Costs, verdict \in Verdicts : Answered(cost, verdict)
      BY <2>0, <2>3, AskAnswered
    <3>2. PICK cost \in Costs, verdict \in Verdicts : Answered(cost, verdict)
      BY <3>1
    <3>3. batch'.spent = batch.spent + cost
      BY <2>0, <3>2 DEF Answered, Copied, Batch
    <3>4. Table \in Tables /\ batch.spent + Estimate[Table] <= Cap
      BY <2>0, <3>1, AtTable DEF WithinCap
    <3>5. batch.spent \in Nat /\ cost \in Nat /\ Estimate[Table] \in Nat /\ Cap \in Nat
      BY <2>0, <3>4, SymptomAssumption DEF Batch
    <3>6. batch'.spent <= Cap - Estimate[Table] + cost
      BY <3>3, <3>4, <3>5
    <3> QED
      BY <3>4, <3>6 DEF PassesCapByOneCall
  <2>4. CASE TakeAnswer \/ KeepCopy
    BY <2>0, <2>1, <2>4 DEF TakeAnswer, KeepCopy, Copied, Batch
  <2>5. CASE \E manuals \in Listings, force \in BOOLEAN : StartBatch(manuals, force)
    BY <2>1, <2>2, <2>5 DEF StartBatch, Batch
  <2>6. CASE TakeManual
    <3>1. batch' = [batch EXCEPT !.at = "read", !.manual = Head(batch.todo), !.todo = Tail(batch.todo),
                                 !.next = 1, !.attempt = 1, !.copies = <<>>]
      BY <2>6, Zenon DEF TakeManual
    <3> QED
      BY <2>0, <2>1, <3>1 DEF Batch
  <2>7. CASE SkipManual \/ BeginManual \/ NothingWritten \/ BuildRecords \/ MergeSymptoms
    BY <2>0, <2>1, <2>7 DEF SkipManual, BeginManual, NothingWritten, BuildRecords, MergeSymptoms,
                            Moves, Batch
  <2>8. CASE BatchDone \/ BatchStops \/ BatchKilled
    BY <2>1, <2>2, <2>8 DEF BatchDone, BatchStops, BatchKilled, BatchEnds
  <2>9. CASE UNCHANGED symptomVars \/ UNCHANGED vars
    BY <2>1, <2>9 DEF symptomVars, vars
  <2> QED
    BY <2>3, <2>4, <2>5, <2>6, <2>7, <2>8, <2>9 DEF Next, SymptomNext
<1> QED
  BY <1>1, <1>2, PipelinesCorrect, PTL DEF Spec

(***************************************************************************)
(* The records of some manuals among all                                   *)
(***************************************************************************)
Of(records, manuals) == Keep(records, {i \in DOMAIN records : records[i].manual \in manuals})

LEMMA OfTypes ==
  ASSUME NEW s \in Seq(Record), NEW M
  PROVE  Of(s, M) \in Seq(Record)
  BY KeepReads DEF Of

LEMMA OfNothing ==
  ASSUME NEW M
  PROVE  Of(<<>>, M) = <<>>
  BY KeepNothing DEF Of

LEMMA OfAppend ==
  ASSUME NEW s \in Seq(Record), NEW e \in Record, NEW M
  PROVE  Of(Append(s, e), M) = IF e.manual \in M THEN Append(Of(s, M), e) ELSE Of(s, M)
<1> DEFINE t == Append(s, e)
           K == {i \in DOMAIN s : s[i].manual \in M}
           L == {i \in DOMAIN t : t[i].manual \in M}
<1>1. /\ Len(s) \in Nat /\ DOMAIN s = 1 .. Len(s) /\ DOMAIN t = 1 .. Len(s) + 1
      /\ t[Len(s) + 1] = e /\ \A i \in 1 .. Len(s) : t[i] = s[i]
  BY AppendProperties
<1>2. \A i \in 1 .. Len(s) : i \in K <=> i \in L
  BY <1>1
<1>3. Len(s) + 1 \in L <=> e.manual \in M
  BY <1>1
<1> HIDE DEF K, L
<1>4. Keep(Append(s, e), L) = IF Len(s) + 1 \in L THEN Append(Keep(s, K), e) ELSE Keep(s, K)
  BY <1>2, KeepAppend
<1> QED
  BY <1>3, <1>4 DEF Of, K, L

LEMMA OfConcat ==
  ASSUME NEW s \in Seq(Record), NEW M
  PROVE  \A t \in Seq(Record) : Of(s \o t, M) = Of(s, M) \o Of(t, M)
<1> DEFINE X == {t \in Seq(Record) : Of(s \o t, M) = Of(s, M) \o Of(t, M)}
<1>0. Of(s, M) \in Seq(Record)
  BY OfTypes
<1>1. <<>> \in X
  BY <1>0, OfNothing, ConcatEmptySeq, EmptySeq
<1>2. ASSUME NEW t \in Seq(Record), NEW e \in Record, t \in X
      PROVE  Append(t, e) \in X
  <2> DEFINE a == Of(s, M)
             b == Of(t, M)
  <2>1. s \o t \in Seq(Record) /\ Append(t, e) \in Seq(Record) /\ b \in Seq(Record)
    BY OfTypes, AppendProperties
  <2>2. \A x, y \in Seq(Record) : x \o Append(y, e) = Append(x \o y, e)
    <3> SUFFICES ASSUME NEW x \in Seq(Record), NEW y \in Seq(Record)
                 PROVE  x \o Append(y, e) = Append(x \o y, e)
      OBVIOUS
    <3>1. <<e>> \in Seq(Record) /\ x \o y \in Seq(Record)
      OBVIOUS
    <3>2. Append(y, e) = y \o <<e>> /\ Append(x \o y, e) = (x \o y) \o <<e>>
      BY <3>1, AppendIsConcat
    <3> QED
      BY <3>1, <3>2, ConcatAssociative
  <2>3. Of(Append(t, e), M) = IF e.manual \in M THEN Append(b, e) ELSE b
    BY OfAppend
  <2>4. Of(Append(s \o t, e), M) = IF e.manual \in M THEN Append(a \o b, e) ELSE a \o b
    <3>1. Of(Append(s \o t, e), M) = IF e.manual \in M THEN Append(Of(s \o t, M), e) ELSE Of(s \o t, M)
      BY <2>1, OfAppend
    <3>2. Of(s \o t, M) = a \o b
      BY <1>2
    <3> QED
      BY <3>1, <3>2
  <2>5. s \o Append(t, e) = Append(s \o t, e)
    BY <2>2
  <2>6. a \o Append(b, e) = Append(a \o b, e)
    BY <1>0, <2>1, <2>2
  <2>7. Of(s \o Append(t, e), M) = a \o Of(Append(t, e), M)
    BY <2>3, <2>4, <2>5, <2>6
  <2> QED
    BY <2>1, <2>7
<1> HIDE DEF X
<1>3. Seq(Record) \subseteq X
  BY <1>1, <1>2, SeqInduct
<1> QED
  BY <1>3 DEF X

LEMMA OfOf ==
  ASSUME NEW A, NEW B
  PROVE  \A s \in Seq(Record) : Of(Of(s, A), B) = Of(s, A \cap B)
<1> DEFINE X == {s \in Seq(Record) : Of(Of(s, A), B) = Of(s, A \cap B)}
<1>1. <<>> \in X
  BY OfNothing, EmptySeq
<1>2. ASSUME NEW s \in Seq(Record), NEW e \in Record, s \in X
      PROVE  Append(s, e) \in X
  <2>1. Append(s, e) \in Seq(Record) /\ Of(s, A) \in Seq(Record)
    BY OfTypes, AppendProperties
  <2>2. Of(Append(s, e), A) = IF e.manual \in A THEN Append(Of(s, A), e) ELSE Of(s, A)
    BY OfAppend
  <2>3. Of(Append(s, e), A \cap B) =
          IF e.manual \in A \cap B THEN Append(Of(s, A \cap B), e) ELSE Of(s, A \cap B)
    BY OfAppend
  <2>4. Of(Append(Of(s, A), e), B) =
          IF e.manual \in B THEN Append(Of(Of(s, A), B), e) ELSE Of(Of(s, A), B)
    BY <2>1, OfAppend
  <2>5. Of(Of(s, A), B) = Of(s, A \cap B)
    BY <1>2
  <2>6. Of(Of(Append(s, e), A), B) = Of(Append(s, e), A \cap B)
    <3>1. CASE e.manual \in A
      <4>1. e.manual \in B <=> e.manual \in A \cap B
        BY <3>1
      <4> QED
        BY <2>2, <2>3, <2>4, <2>5, <3>1, <4>1
    <3>2. CASE e.manual \notin A
      <4>1. e.manual \notin A \cap B
        BY <3>2
      <4> QED
        BY <2>2, <2>3, <2>5, <3>2, <4>1
    <3> QED
      BY <3>1, <3>2
  <2> QED
    BY <2>1, <2>6
<1> HIDE DEF X
<1>3. Seq(Record) \subseteq X
  BY <1>1, <1>2, SeqInduct
<1> QED
  BY <1>3 DEF X

LEMMA FromManuals ==
  ASSUME NEW s \in Seq(Record)
  PROVE  From(s, Manuals)
<1>1. \A i \in DOMAIN s : s[i] \in Record
  OBVIOUS
<1>2. \A r \in Record : r.manual \in Manuals
  BY DEF Record
<1> QED
  BY <1>1, <1>2 DEF From

LEMMA OfAll ==
  ASSUME NEW s \in Seq(Record), NEW M, From(s, M)
  PROVE  Of(s, M) = s
  BY KeepAll DEF Of, From

LEMMA OfNone ==
  ASSUME NEW s \in Seq(Record), NEW M, NEW N, From(s, N), M \cap N = {}
  PROVE  Of(s, M) = <<>>
<1>1. Of(Of(s, N), M) = Of(s, N \cap M) /\ Of(s, N) = s
  BY OfAll, OfOf
<1>2. N \cap M = {}
  OBVIOUS
<1>3. Of(s, {}) = <<>>
  <2>1. PICK p : Reads(p, Of(s, {}), s, Len(s), {})
    <3>1. {i \in DOMAIN s : s[i].manual \in {}} = {}
      OBVIOUS
    <3> QED
      BY <3>1, KeepReads DEF Of
  <2>2. Of(s, {}) \in Seq(Record)
    BY OfTypes
  <2>3. \A j \in 1 .. Len(Of(s, {})) : FALSE
    BY <2>1 DEF Reads
  <2>4. Len(Of(s, {})) \in Nat /\ ~(1 \in 1 .. Len(Of(s, {})))
    BY <2>2, <2>3
  <2>5. Len(Of(s, {})) = 0
    BY <2>4
  <2> QED
    BY <2>2, <2>5, EmptySeq
<1> QED
  BY <1>1, <1>2, <1>3

LEMMA RecordsAreOf ==
  ASSUME NEW s \in Seq(Record)
  PROVE  /\ \A m \in Manuals : RecordsOf(s, m) = Of(s, {m})
         /\ \A T \in SUBSET Manuals : RecordsBut(s, T) = Of(s, Manuals \ T)
<1>1. \A i \in DOMAIN s : s[i].manual \in Manuals
  BY FromManuals DEF From
<1>2. ASSUME NEW m \in Manuals
      PROVE  RecordsOf(s, m) = Of(s, {m})
  <2>1. {i \in DOMAIN s : s[i].manual = m} = {i \in DOMAIN s : s[i].manual \in {m}}
    OBVIOUS
  <2> QED
    BY <2>1 DEF RecordsOf, Of
<1>3. ASSUME NEW T \in SUBSET Manuals
      PROVE  RecordsBut(s, T) = Of(s, Manuals \ T)
  <2>1. {i \in DOMAIN s : s[i].manual \notin T} = {i \in DOMAIN s : s[i].manual \in Manuals \ T}
    BY <1>1
  <2> QED
    BY <2>1 DEF RecordsBut, Of
<1> QED
  BY <1>2, <1>3

(* The merge, of the manuals it was asked for and of the others.           *)
LEMMA MergedOf ==
  ASSUME CodeInv, From(tool.records, tool.targets), NEW m \in Manuals
  PROVE  RecordsOf(Merged.records, m) =
           IF m \in tool.targets THEN RecordsOf(tool.records, m) ELSE RecordsOf(index.records, m)
<1> DEFINE a == index.records
           b == tool.records
           T == tool.targets
           but == RecordsBut(a, T)
<1>1. a \in Seq(Record) /\ b \in Seq(Record) /\ T \in SUBSET Manuals
  BY DEF CodeInv, Files, Tool
<1>2. but = Of(a, Manuals \ T) /\ but \in Seq(Record)
  BY <1>1, RecordsAreOf, OfTypes
<1>3. Merged.records = but \o b /\ but \o b \in Seq(Record)
  <2>1. but \o b \in Seq(Record)
    BY <1>1, <1>2
  <2> HIDE DEF but, b
  <2>2. Kept(but \o b).records = but \o b
    BY DEF Kept
  <2> QED
    BY <2>1, <2>2 DEF Merged, but, b
<1>4. /\ RecordsOf(Merged.records, m) = Of(but \o b, {m})
      /\ RecordsOf(b, m) = Of(b, {m}) /\ RecordsOf(a, m) = Of(a, {m})
  BY <1>1, <1>3, RecordsAreOf
<1>5. Of(but \o b, {m}) = Of(but, {m}) \o Of(b, {m})
  BY <1>1, <1>2, OfConcat
<1>6. Of(but, {m}) = Of(a, (Manuals \ T) \cap {m})
  BY <1>1, <1>2, OfOf
<1>7. Of(a, {m}) \in Seq(Record) /\ Of(b, {m}) \in Seq(Record)
  BY <1>1, OfTypes
<1>8. From(a, Manuals) /\ From(b, T)
  BY <1>1, FromManuals
<1> HIDE DEF a, b, T, but
<1>9. CASE m \in T
  <2>1. (Manuals \ T) \cap {m} = {} /\ {} \cap Manuals = {}
    BY <1>9
  <2>2. Of(a, {}) = <<>>
    BY <1>1, <1>8, <2>1, OfNone
  <2> QED
    BY <1>4, <1>5, <1>6, <1>7, <1>9, <2>1, <2>2, ConcatEmptySeq DEF b, T
<1>10. CASE m \notin T
  <2>1. (Manuals \ T) \cap {m} = {m} /\ {m} \cap T = {}
    BY <1>10
  <2>2. Of(b, {m}) = <<>>
    BY <1>1, <1>8, <2>1, OfNone
  <2> QED
    BY <1>4, <1>5, <1>6, <1>7, <1>10, <2>1, <2>2, ConcatEmptySeq DEF a, T
<1> QED
  BY <1>9, <1>10

LEMMA MergedIn ==
  ASSUME CodeInv, From(tool.records, tool.targets)
  PROVE  RecordsIn(Merged.records, tool.targets) = tool.records
<1> DEFINE a == index.records
           b == tool.records
           T == tool.targets
           but == RecordsBut(a, T)
<1>1. a \in Seq(Record) /\ b \in Seq(Record) /\ T \in SUBSET Manuals
  BY DEF CodeInv, Files, Tool
<1>2. but = Of(a, Manuals \ T) /\ but \in Seq(Record)
  BY <1>1, RecordsAreOf, OfTypes
<1>3. Merged.records = but \o b
  <2> HIDE DEF but, b
  <2>1. Kept(but \o b).records = but \o b
    BY DEF Kept
  <2> QED
    BY <2>1 DEF Merged, but, b
<1>4. From(a, Manuals) /\ From(b, T)
  BY <1>1, FromManuals
<1> HIDE DEF a, b, T, but
<1>5. Of(but, T) = <<>>
  <2>1. (Manuals \ T) \cap T = {} /\ {} \cap Manuals = {}
    OBVIOUS
  <2>2. Of(but, T) = Of(a, (Manuals \ T) \cap T)
    BY <1>1, <1>2, OfOf
  <2>3. Of(a, {}) = <<>>
    BY <1>1, <1>4, <2>1, OfNone
  <2> QED
    BY <2>1, <2>2, <2>3
<1>6. Of(but \o b, T) = b
  <2>1. Of(but \o b, T) = Of(but, T) \o Of(b, T)
    BY <1>1, <1>2, OfConcat
  <2>2. Of(b, T) = b
    BY <1>1, <1>4, OfAll
  <2>3. <<>> \o b = b
    BY <1>1, ConcatEmptySeq
  <2> QED
    BY <1>5, <2>1, <2>2, <2>3
<1> QED
  BY <1>3, <1>6 DEF RecordsIn, Of, b, T

(***************************************************************************)
(* Lists put one after the other                                           *)
(***************************************************************************)
FlattenStep(f, seqs, i) == IF i = 1 THEN seqs[i] ELSE f[i - 1] \o seqs[i]

Flattens(f, seqs) == f = [i \in 1 .. Len(seqs) |-> FlattenStep(f, seqs, i)]

LEMMA FlattenUnfolds ==
  ASSUME NEW S, NEW seqs \in Seq(Seq(S)), seqs # <<>>
  PROVE  \E f \in [1 .. Len(seqs) -> Seq(S)] : Flattens(f, seqs) /\ FlattenSeq(seqs) = f[Len(seqs)]
<1> DEFINE n == Len(seqs)
           V == Seq(S)
           G == [i \in 1 .. n |-> [v \in V |-> v \o seqs[i]]]
<1>0. n \in Nat /\ n # 0 /\ (\A i \in 1 .. n : seqs[i] \in V) /\ <<>> \in V
  BY EmptySeq
<1>1. G \in [1 .. n -> [V -> V]]
  BY <1>0
<1>2. PICK g \in [0 .. n -> V] : g[0] = <<>> /\ \A i \in 1 .. n : g[i] = G[i][g[i - 1]]
  <2>1. Steps(G, n, V)
    BY <1>0, <1>1 DEF Steps
  <2> HIDE DEF G, n, V
  <2>2. \E f \in [0 .. n -> V] : Follows(f, <<>>, G, n)
    BY <1>0, <2>1, RecursionExists
  <2> QED
    BY <2>2 DEF Follows
<1> DEFINE h == [i \in 1 .. n |-> g[i]]
<1>3. h \in [1 .. n -> V]
  BY <1>0
<1>4. \A i \in 1 .. n : h[i] = FlattenStep(h, seqs, i)
  <2> SUFFICES ASSUME NEW i \in 1 .. n
               PROVE  h[i] = FlattenStep(h, seqs, i)
    OBVIOUS
  <2>1. i - 1 \in 0 .. n /\ g[i - 1] \in V /\ g[i] = g[i - 1] \o seqs[i]
    <3>1. i - 1 \in 0 .. n
      BY <1>0
    <3>2. g[i - 1] \in V
      BY <3>1
    <3>3. g[i] = G[i][g[i - 1]]
      BY <1>2
    <3> QED
      BY <3>1, <3>2, <3>3
  <2>2. CASE i = 1
    <3>1. g[i] = <<>> \o seqs[i]
      BY <1>2, <2>1, <2>2
    <3> QED
      BY <1>0, <2>2, <3>1, ConcatEmptySeq DEF FlattenStep
  <2>3. CASE i # 1
    <3>1. i - 1 \in 1 .. n
      BY <1>0, <2>3
    <3> QED
      BY <2>1, <2>3, <3>1 DEF FlattenStep
  <2> QED
    BY <2>2, <2>3
<1>5. Flattens(h, seqs)
  <2>1. h = [i \in 1 .. n |-> h[i]]
    OBVIOUS
  <2> HIDE DEF h
  <2> QED
    BY <1>4, <2>1 DEF Flattens
<1> HIDE DEF h
<1> DEFINE k == CHOOSE f : Flattens(f, seqs)
<1>6. Flattens(k, seqs) /\ FlattenSeq(seqs) = k[n]
  <2>1. FlattenSeq(seqs) = k[n]
    BY <1>0 DEF FlattenSeq, Flattens, FlattenStep
  <2> QED
    BY <1>5, <2>1
<1> HIDE DEF k
<1>7. \A i \in 1 .. n : k[i] = FlattenStep(k, seqs, i)
  BY <1>6 DEF Flattens
<1>8. \A i \in 1 .. n : k[i] \in V
  <2> DEFINE X == {i \in Nat : i + 1 <= n => k[i + 1] \in V}
  <2>1. 0 \in X
    BY <1>0, <1>7 DEF FlattenStep
  <2>2. ASSUME NEW i \in Nat, i \in X
        PROVE  i + 1 \in X
    <3> SUFFICES ASSUME (i + 1) + 1 <= n
                 PROVE  k[(i + 1) + 1] \in V
      OBVIOUS
    <3>1. k[i + 1] \in V /\ (i + 1) + 1 \in 1 .. n /\ (i + 1) + 1 # 1 /\ ((i + 1) + 1) - 1 = i + 1
      BY <1>0, <2>2
    <3>2. k[(i + 1) + 1] = k[i + 1] \o seqs[(i + 1) + 1]
      BY <1>7, <3>1 DEF FlattenStep
    <3> QED
      BY <1>0, <3>1, <3>2
  <2> HIDE DEF X
  <2>3. Nat \subseteq X
    BY <2>1, <2>2, NatInduct
  <2>4. \A i \in 1 .. n : i - 1 \in X /\ (i - 1) + 1 = i /\ i <= n
    BY <1>0, <2>3
  <2> QED
    BY <2>4 DEF X
<1>9. k \in [1 .. n -> V]
  BY <1>6, <1>8 DEF Flattens
<1> QED
  BY <1>6, <1>9

LEMMA FlattenNothing == FlattenSeq(<<>>) = <<>>
  BY EmptySeq DEF FlattenSeq

LEMMA FlattenAppend ==
  ASSUME NEW S, NEW seqs \in Seq(Seq(S)), NEW t \in Seq(S)
  PROVE  /\ FlattenSeq(seqs) \in Seq(S)
         /\ FlattenSeq(Append(seqs, t)) = FlattenSeq(seqs) \o t
<1> DEFINE n == Len(seqs)
           u == Append(seqs, t)
<1>0. /\ n \in Nat /\ u \in Seq(Seq(S)) /\ u # <<>> /\ Len(u) = n + 1 /\ u[n + 1] = t
      /\ \A i \in 1 .. n : u[i] = seqs[i]
  BY AppendProperties
<1>1. PICK g \in [1 .. Len(u) -> Seq(S)] : Flattens(g, u) /\ FlattenSeq(u) = g[Len(u)]
  BY <1>0, FlattenUnfolds
<1> HIDE DEF u, n
<1>2. \A i \in 1 .. n + 1 : g[i] = IF i = 1 THEN u[i] ELSE g[i - 1] \o u[i]
  BY <1>0, <1>1 DEF Flattens, FlattenStep
<1>3. FlattenSeq(u) = g[n + 1] /\ n + 1 \in 1 .. n + 1
  BY <1>0, <1>1
<1>4. CASE seqs = <<>>
  <2>1. n = 0 /\ FlattenSeq(seqs) = <<>>
    BY <1>4, FlattenNothing, EmptySeq DEF n
  <2>2. FlattenSeq(u) = t
    BY <1>0, <1>2, <1>3, <2>1
  <2> QED
    BY <2>1, <2>2, ConcatEmptySeq, EmptySeq DEF u
<1>5. CASE seqs # <<>>
  <2>1. PICK f \in [1 .. n -> Seq(S)] : Flattens(f, seqs) /\ FlattenSeq(seqs) = f[n]
    BY <1>5, FlattenUnfolds DEF n
  <2>2. \A i \in 1 .. n : f[i] = IF i = 1 THEN seqs[i] ELSE f[i - 1] \o seqs[i]
    BY <2>1 DEF Flattens, FlattenStep, n
  <2>3. n # 0
    BY <1>5, EmptySeq DEF n
  <2> DEFINE X == {i \in Nat : i + 1 <= n => g[i + 1] = f[i + 1]}
  <2>4. 0 \in X
    <3> SUFFICES ASSUME 0 + 1 <= n
                 PROVE  g[0 + 1] = f[0 + 1]
      OBVIOUS
    <3>1. 0 + 1 = 1 /\ 1 \in 1 .. n /\ 1 \in 1 .. n + 1
      BY <1>0
    <3> QED
      BY <1>0, <1>2, <2>2, <3>1
  <2>5. ASSUME NEW i \in Nat, i \in X
        PROVE  i + 1 \in X
    <3> SUFFICES ASSUME (i + 1) + 1 <= n
                 PROVE  g[(i + 1) + 1] = f[(i + 1) + 1]
      OBVIOUS
    <3> DEFINE j == (i + 1) + 1
    <3>1. /\ g[i + 1] = f[i + 1] /\ j \in 1 .. n /\ j \in 1 .. n + 1
          /\ j # 1 /\ j - 1 = i + 1
      BY <1>0, <2>5
    <3>2. u[j] = seqs[j]
      BY <1>0, <3>1
    <3> HIDE DEF j
    <3>3. g[j] = g[j - 1] \o u[j] /\ f[j] = f[j - 1] \o seqs[j]
      BY <1>2, <2>2, <3>1
    <3>4. g[j] = f[j]
      BY <3>1, <3>2, <3>3
    <3> QED
      BY <3>4 DEF j
  <2> HIDE DEF X
  <2>6. Nat \subseteq X
    BY <2>4, <2>5, NatInduct
  <2>7. n - 1 \in X /\ (n - 1) + 1 = n
    BY <1>0, <2>3, <2>6
  <2>8. g[n] = f[n]
    BY <1>0, <2>7 DEF X
  <2>9. FlattenSeq(u) = g[n] \o t
    <3>1. n + 1 # 1 /\ (n + 1) - 1 = n
      BY <1>0, <2>3
    <3> QED
      BY <1>0, <1>2, <1>3, <3>1
  <2>10. f[n] \in Seq(S)
    BY <1>0, <2>1, <2>3
  <2> QED
    BY <2>1, <2>8, <2>9, <2>10 DEF u
<1> QED
  BY <1>4, <1>5

(* One list more, for lists given one by one.                              *)
LEMMA FlattenMore ==
  ASSUME NEW S, NEW f, NEW n \in Nat, \A i \in 1 .. n + 1 : f[i] \in Seq(S)
  PROVE  /\ FlattenSeq([i \in 1 .. n |-> f[i]]) \in Seq(S)
         /\ FlattenSeq([i \in 1 .. n + 1 |-> f[i]]) \in Seq(S)
         /\ FlattenSeq([i \in 1 .. n + 1 |-> f[i]]) = FlattenSeq([i \in 1 .. n |-> f[i]]) \o f[n + 1]
<1> DEFINE g == [i \in 1 .. n + 1 |-> f[i]]
           h == [i \in 1 .. n |-> f[i]]
<1>1. g \in Seq(Seq(S)) /\ h \in Seq(Seq(S)) /\ Len(g) = n + 1 /\ Len(h) = n
  OBVIOUS
<1>2. f[n + 1] \in Seq(S) /\ g[n + 1] = f[n + 1] /\ \A i \in 1 .. n : g[i] = h[i]
  OBVIOUS
<1> HIDE DEF g, h
<1>3. /\ Append(h, f[n + 1]) \in Seq(Seq(S)) /\ Len(Append(h, f[n + 1])) = n + 1
      /\ Append(h, f[n + 1])[n + 1] = f[n + 1]
      /\ \A i \in 1 .. n : Append(h, f[n + 1])[i] = h[i]
  BY <1>1, <1>2, AppendProperties
<1>4. \A i \in 1 .. Len(g) : g[i] = Append(h, f[n + 1])[i]
  <2>1. \A i \in 1 .. n + 1 : i = n + 1 \/ i \in 1 .. n
    OBVIOUS
  <2> QED
    BY <1>1, <1>2, <1>3, <2>1
<1>5. g = Append(h, f[n + 1])
  BY <1>1, <1>3, <1>4, SeqEqual
<1>6. FlattenSeq(h) \in Seq(S) /\ FlattenSeq(g) = FlattenSeq(h) \o f[n + 1] /\ FlattenSeq(g) \in Seq(S)
  BY <1>1, <1>2, <1>5, FlattenAppend
<1> QED
  BY <1>6 DEF g, h

(* What the first n of the chunks c were answered.                         *)
SoFar(c, answered, by, n) == FlattenSeq([i \in 1 .. n |-> answered[<<c[i], by>>].records])

LEMMA SoFarNone ==
  ASSUME NEW c, NEW answered, NEW by
  PROVE  SoFar(c, answered, by, 0) = <<>>
<1>1. [i \in 1 .. 0 |-> answered[<<c[i], by>>].records] = <<>>
  OBVIOUS
<1> QED
  BY <1>1, FlattenNothing DEF SoFar

LEMMA SoFarMore ==
  ASSUME NEW c \in Seq(Chunks), NEW answered \in [Slots -> Files(Seq(Record))], NEW by \in Extractors,
         NEW n \in Nat, n + 1 <= Len(c)
  PROVE  /\ SoFar(c, answered, by, n) \in Seq(Record)
         /\ SoFar(c, answered, by, n + 1) \in Seq(Record)
         /\ SoFar(c, answered, by, n + 1) = SoFar(c, answered, by, n) \o answered[<<c[n + 1], by>>].records
<1> DEFINE f == [i \in 1 .. n + 1 |-> answered[<<c[i], by>>].records]
<1>1. \A i \in 1 .. n + 1 : answered[<<c[i], by>>].records \in Seq(Record)
  <2> SUFFICES ASSUME NEW i \in 1 .. n + 1
               PROVE  answered[<<c[i], by>>].records \in Seq(Record)
    OBVIOUS
  <2>1. i \in 1 .. Len(c)
    OBVIOUS
  <2>2. <<c[i], by>> \in Slots
    BY <2>1 DEF Slots
  <2>3. answered[<<c[i], by>>] \in Files(Seq(Record))
    BY <2>2
  <2> QED
    BY <2>3 DEF Files
<1>2. \A i \in 1 .. n + 1 : f[i] = answered[<<c[i], by>>].records /\ f[i] \in Seq(Record)
  BY <1>1
<1>3. [i \in 1 .. n |-> f[i]] = [i \in 1 .. n |-> answered[<<c[i], by>>].records]
      /\ [i \in 1 .. n + 1 |-> f[i]] = [i \in 1 .. n + 1 |-> answered[<<c[i], by>>].records]
  OBVIOUS
<1>4. n + 1 \in 1 .. n + 1
  OBVIOUS
<1> HIDE DEF f
<1>5. /\ FlattenSeq([i \in 1 .. n |-> f[i]]) \in Seq(Record)
      /\ FlattenSeq([i \in 1 .. n + 1 |-> f[i]]) \in Seq(Record)
      /\ FlattenSeq([i \in 1 .. n + 1 |-> f[i]]) = FlattenSeq([i \in 1 .. n |-> f[i]]) \o f[n + 1]
  BY <1>2, FlattenMore
<1> QED
  BY <1>2, <1>3, <1>4, <1>5 DEF SoFar

LEMMA SoFarTypes ==
  ASSUME NEW c \in Seq(Chunks), NEW answered \in [Slots -> Files(Seq(Record))], NEW by \in Extractors,
         NEW n \in Nat, n <= Len(c)
  PROVE  SoFar(c, answered, by, n) \in Seq(Record)
<1>1. CASE n = 0
  <2>1. SoFar(c, answered, by, 0) = <<>> /\ <<>> \in Seq(Record)
    BY SoFarNone
  <2> QED
    BY <1>1, <2>1
<1>2. CASE n # 0
  <2>1. n - 1 \in Nat /\ (n - 1) + 1 <= Len(c) /\ (n - 1) + 1 = n
    BY <1>2
  <2>2. SoFar(c, answered, by, (n - 1) + 1) \in Seq(Record)
    BY <2>1, SoFarMore
  <2> QED
    BY <2>1, <2>2
<1> QED
  BY <1>1, <1>2

LEMMA SoFarSame ==
  ASSUME NEW c, NEW d, NEW answered, NEW others, NEW by, NEW n \in Nat,
         \A i \in 1 .. n : d[i] = c[i] /\ others[<<c[i], by>>].records = answered[<<c[i], by>>].records
  PROVE  SoFar(d, others, by, n) = SoFar(c, answered, by, n)
<1>1. [i \in 1 .. n |-> others[<<d[i], by>>].records] = [i \in 1 .. n |-> answered[<<c[i], by>>].records]
  OBVIOUS
<1> QED
  BY <1>1 DEF SoFar

LEMMA SoFarAll ==
  ASSUME CodeInv, NEW m \in Manuals, parsed[m] \in Versions, NEW by
  PROVE  CachedRecords(m, by) =
           SoFar(CandidatesOf[m][parsed[m]], cache, by, Len(CandidatesOf[m][parsed[m]]))
<1>1. CandidatesOf[m][parsed[m]] \in Seq(Chunks)
  BY CandidateTypes
<1>2. DOMAIN CandidatesOf[m][parsed[m]] = 1 .. Len(CandidatesOf[m][parsed[m]])
  BY <1>1
<1> QED
  BY <1>2 DEF CachedRecords, SoFar

(***************************************************************************)
(* Whose records a merge takes                                             *)
(***************************************************************************)
TextsOf(m) == {c \in Chunks : \E v \in Versions : \E i \in DOMAIN CandidatesOf[m][v] : CandidatesOf[m][v][i] = c}

(* No text is in two manuals: the cache knows texts, and not whose.        *)
OwnTexts == \A m, n \in Manuals : m # n => TextsOf(m) \cap TextsOf(n) = {}

(* No text is twice in a version: with --force it would be asked about     *)
(* twice, and the cache keep the second answer alone.                      *)
OnceEach ==
    \A m \in Manuals, v \in Versions : \A i, j \in DOMAIN CandidatesOf[m][v] :
        CandidatesOf[m][v][i] = CandidatesOf[m][v][j] => i = j

ReadBy(records, by) == \A i \in DOMAIN records : records[i].by = by

(* An answer that may be in the cache under slot s.                        *)
AnswerAt(s, records) ==
    \A i \in DOMAIN records : records[i].by = s[2] /\ s[1] \in TextsOf(records[i].manual)

Unmixed(records) ==
    \A i, j \in DOMAIN records : records[i].manual = records[j].manual => records[i].by = records[j].by

OwnInv ==
    /\ \A s \in Slots : AnswerAt(s, cache[s].records)
    /\ ToolAt("keep") => AnswerAt(Slot, tool.answer) /\ From(tool.answer, {tool.manual})
    /\ From(tool.records, tool.targets) /\ ReadBy(tool.records, tool.by)
    /\ Unmixed(index.records)

LEMMA ReadByBoth ==
  ASSUME NEW s \in Seq(Record), NEW t \in Seq(Record), NEW by, ReadBy(s, by), ReadBy(t, by)
  PROVE  ReadBy(s \o t, by)
<1>1. /\ Len(s) \in Nat /\ Len(t) \in Nat /\ DOMAIN s = 1 .. Len(s) /\ DOMAIN t = 1 .. Len(t)
      /\ DOMAIN (s \o t) = 1 .. Len(s) + Len(t)
      /\ \A i \in 1 .. Len(s) + Len(t) : (s \o t)[i] = IF i <= Len(s) THEN s[i] ELSE t[i - Len(s)]
  BY ConcatProperties
<1> DEFINE n == Len(s)
           k == Len(t)
<1> HIDE DEF n, k
<1>2. \A i \in 1 .. n + k : IF i <= n THEN i \in 1 .. n ELSE i - n \in 1 .. k
  BY <1>1 DEF n, k
<1> QED
  BY <1>1, <1>2 DEF ReadBy, n, k

LEMMA UnmixedBoth ==
  ASSUME NEW s \in Seq(Record), NEW t \in Seq(Record), NEW by, NEW M, NEW N, M \cap N = {},
         From(s, M), Unmixed(s), From(t, N), ReadBy(t, by)
  PROVE  Unmixed(s \o t)
<1>1. /\ Len(s) \in Nat /\ Len(t) \in Nat /\ DOMAIN s = 1 .. Len(s) /\ DOMAIN t = 1 .. Len(t)
      /\ DOMAIN (s \o t) = 1 .. Len(s) + Len(t)
      /\ \A i \in 1 .. Len(s) + Len(t) : (s \o t)[i] = IF i <= Len(s) THEN s[i] ELSE t[i - Len(s)]
  BY ConcatProperties
<1> DEFINE n == Len(s)
           k == Len(t)
<1> HIDE DEF n, k
<1>2. \A i \in 1 .. n + k : IF i <= n THEN i \in 1 .. n ELSE i - n \in 1 .. k
  BY <1>1 DEF n, k
<1>3. \A i \in DOMAIN (s \o t) :
        \/ \E x \in DOMAIN s : (s \o t)[i] = s[x]
        \/ \E y \in DOMAIN t : (s \o t)[i] = t[y]
  BY <1>1, <1>2 DEF n, k
<1> QED
  BY <1>3 DEF From, Unmixed, ReadBy

LEMMA UnmixedKept ==
  ASSUME NEW s \in Seq(Record), NEW K, Unmixed(s)
  PROVE  Unmixed(Keep(s, K))
<1>1. PICK p : Reads(p, Keep(s, K), s, Len(s), K)
  BY KeepReads
<1>2. Keep(s, K) \in Seq(Record)
  BY KeepReads
<1>3. \A j \in DOMAIN Keep(s, K) : p[j] \in DOMAIN s /\ Keep(s, K)[j] = s[p[j]]
  BY <1>1, <1>2 DEF Reads
<1> QED
  BY <1>3 DEF Unmixed

LEMMA UnmixedMerged ==
  ASSUME CodeInv, OwnInv
  PROVE  Unmixed(Merged.records)
<1> DEFINE a == index.records
           b == tool.records
           but == RecordsBut(a, tool.targets)
<1>1. a \in Seq(Record) /\ b \in Seq(Record) /\ tool.targets \in SUBSET Manuals
  BY DEF CodeInv, Files, Tool
<1>2. but = Of(a, Manuals \ tool.targets) /\ but \in Seq(Record)
  BY <1>1, RecordsAreOf, OfTypes
<1>3. From(but, Manuals \ tool.targets)
  <2>1. PICK p : Reads(p, but, a, Len(a), {i \in DOMAIN a : a[i].manual \notin tool.targets})
    BY <1>1, KeepReads DEF RecordsBut
  <2> HIDE DEF but, a
  <2>2. \A j \in 1 .. Len(but) : but[j].manual \notin tool.targets
    BY <2>1 DEF Reads
  <2>3. DOMAIN but = 1 .. Len(but) /\ From(but, Manuals)
    BY <1>2, FromManuals
  <2> QED
    BY <2>2, <2>3 DEF From
<1>4. Unmixed(but)
  BY <1>1, UnmixedKept DEF OwnInv, RecordsBut
<1>5. Merged.records = but \o b
  <2> HIDE DEF but, b
  <2>1. Kept(but \o b).records = but \o b
    BY DEF Kept
  <2> QED
    BY <2>1 DEF Merged, but, b
<1>6. (Manuals \ tool.targets) \cap tool.targets = {}
  OBVIOUS
<1> HIDE DEF but
<1> QED
  BY <1>1, <1>2, <1>3, <1>4, <1>5, <1>6, UnmixedBoth DEF OwnInv

LEMMA CandidateOf ==
  ASSUME NEW m \in Manuals, NEW v \in Versions, NEW i \in 1 .. Len(CandidatesOf[m][v])
  PROVE  CandidatesOf[m][v][i] \in TextsOf(m)
<1>1. CandidatesOf[m][v] \in Seq(Chunks)
  BY CandidateTypes
<1>2. i \in DOMAIN CandidatesOf[m][v] /\ CandidatesOf[m][v][i] \in Chunks
  BY <1>1
<1> QED
  BY <1>2 DEF TextsOf

(* An answer from the cache cites the manual whose text it is about.       *)
LEMMA CachedIsOwn ==
  ASSUME OwnTexts, CodeInv, OwnInv, MoreChunks
  PROVE  From(cache[Slot].records, {tool.manual})
<1>1. /\ tool.manual \in Manuals /\ Slot \in Slots /\ Slot[1] \in TextsOf(tool.manual)
      /\ cache[Slot].records \in Seq(Record)
  <2>1. cache[Slot] \in Files(Seq(Record))
    BY AtChunk DEF CodeInv
  <2>2. Slot[1] \in TextsOf(tool.manual)
    BY AtChunk, CandidateOf DEF Candidates
  <2> QED
    BY <2>1, <2>2, AtChunk DEF Files
<1>2. \A i \in DOMAIN cache[Slot].records :
         cache[Slot].records[i].manual \in Manuals /\ Slot[1] \in TextsOf(cache[Slot].records[i].manual)
  BY <1>1, FromManuals DEF OwnInv, AnswerAt, From
<1> QED
  BY <1>1, <1>2 DEF OwnTexts, From

LEMMA OwnIndex ==
  ASSUME CodeInv, OwnInv, index' \in {index, Merged, TornAnswer}
  PROVE  Unmixed(index'.records)
<1>1. Unmixed(TornAnswer.records)
  BY DEF TornAnswer, Unmixed
<1> QED
  BY <1>1, UnmixedMerged DEF OwnInv

LEMMA OwnNoTool ==
  ASSUME CodeInv, OwnInv, tool' = NoTool, \A s \in Slots : AnswerAt(s, cache'[s].records),
         index' \in {index, Merged, TornAnswer}
  PROVE  OwnInv'
<1>1. NoTool.records = <<>> /\ NoTool.at = "off"
  BY DEF NoTool
<1>2. Unmixed(index'.records)
  BY OwnIndex
<1> QED
  BY <1>1, <1>2 DEF OwnInv, ToolAt, From, ReadBy, Unmixed

LEMMA OwnCollected ==
  ASSUME CodeInv, OwnInv, tool.manual \in tool.targets, NEW records \in Seq(Record),
         From(records, {tool.manual}), ReadBy(records, tool.by), tool' = Collected(records)
  PROVE  /\ From(tool'.records, tool'.targets) /\ ReadBy(tool'.records, tool'.by)
         /\ ~ToolAt("keep")'
<1>1. /\ tool.records \in Seq(Record) /\ tool'.records = tool.records \o records
      /\ tool'.by = tool.by /\ tool'.targets = tool.targets /\ tool'.at = "chunk"
  BY DEF CodeInv, Tool, Collected
<1>2. From(records, tool.targets)
  BY DEF From
<1>3. From(tool.records \o records, tool.targets)
  BY <1>1, <1>2, FromBoth DEF OwnInv
<1>4. ReadBy(tool.records \o records, tool.by)
  BY <1>1, ReadByBoth DEF OwnInv
<1> QED
  BY <1>1, <1>3, <1>4 DEF ToolAt

LEMMA OwnStep ==
  ASSUME OwnTexts, PipelinesInv, OwnInv, CodeNext
  PROVE  OwnInv'
<1>0. /\ CodeInv /\ tool \in Tool /\ cache \in [Slots -> Files(Seq(Record))]
  BY DEF PipelinesInv, CodeInv
<1>1. CASE CodeStarts
  <2>1. UNCHANGED <<cache, index>>
    BY <1>1, StartsFiles
  <2>2. ~ToolAt("keep") /\ ~ToolAt("keep")'
    BY <1>0, <1>1, StepsFromKeep
  <2>3. tool'.records = <<>> \/ tool' = tool
    <3>1. CASE \E m \in Manuals : Parse(m) \/ ParseKilled(m)
      BY <3>1, Zenon DEF Parse, ParseKilled
    <3>2. CASE \E e \in Entries, by \in Extractors : AddManual(e, by)
      BY <3>2 DEF AddManual, NoTool
    <3>3. CASE \E manuals \in Listings, by \in Extractors, force \in BOOLEAN : ExtractCodes(manuals, by, force)
      BY <3>3 DEF ExtractCodes, NoTool
    <3> QED
      BY <1>1, <3>1, <3>2, <3>3 DEF CodeStarts
  <2>4. (From(tool.records, tool.targets) /\ ReadBy(tool.records, tool.by))'
    BY <2>3 DEF OwnInv, From, ReadBy
  <2> QED
    BY <2>1, <2>2, <2>4 DEF OwnInv
<1>2. CASE AddStep \/ ManualDone
  <2>1. UNCHANGED <<cache, index>>
    BY <1>2, AddFiles DEF ManualDone
  <2>2. ~ToolAt("keep") /\ ~ToolAt("keep")'
    BY <1>0, <1>2, StepsFromKeep
  <2>3. tool' = NoTool \/ \E step : tool' = [tool EXCEPT !.at = step]
    BY <1>2, Zenon DEF AddStep, ManualDone, AppendEntry, KeepPdf, ParsePdf, Confirm, GoesTo, Stops
  <2>4. CASE tool' = NoTool
    BY <1>0, <2>1, <2>4, OwnNoTool DEF OwnInv
  <2>5. CASE \E step : tool' = [tool EXCEPT !.at = step]
    <3>1. tool'.records = tool.records /\ tool'.targets = tool.targets /\ tool'.by = tool.by
      BY <1>0, <2>5 DEF Tool
    <3> QED
      BY <2>1, <2>2, <3>1 DEF OwnInv
  <2> QED
    BY <2>3, <2>4, <2>5
<1>3. CASE NextManual
  <2>1. tool' = [tool EXCEPT !.at = "chunk", !.manual = Head(tool.todo), !.todo = Tail(tool.todo), !.next = 1]
    BY <1>3, Zenon DEF NextManual
  <2>2. UNCHANGED <<cache, index>>
    BY <1>3, Zenon DEF NextManual
  <2>3. /\ tool'.records = tool.records /\ tool'.targets = tool.targets /\ tool'.by = tool.by
        /\ tool'.at = "chunk"
    BY <1>0, <2>1 DEF Tool
  <2> QED
    BY <2>2, <2>3 DEF OwnInv, ToolAt
<1>4. CASE TakeCached
  <2>1. MoreChunks /\ tool' = Collected(cache[Slot].records) /\ UNCHANGED <<cache, index>>
    BY <1>4, Zenon DEF TakeCached, CacheKey
  <2>2. /\ Slot \in Slots /\ Slot[2] = tool.by /\ tool.manual \in tool.targets
    BY <1>0, <2>1, AtChunk
  <2>3. cache[Slot].records \in Seq(Record)
    BY <1>0, <2>2 DEF Files
  <2>4. From(cache[Slot].records, {tool.manual})
    BY <1>0, <2>1, CachedIsOwn
  <2>5. ReadBy(cache[Slot].records, tool.by)
    BY <2>2 DEF OwnInv, AnswerAt, ReadBy
  <2>6. (From(tool.records, tool.targets) /\ ReadBy(tool.records, tool.by))' /\ ~ToolAt("keep")'
    BY <1>0, <2>1, <2>2, <2>3, <2>4, <2>5, OwnCollected
  <2> QED
    BY <2>1, <2>6 DEF OwnInv
<1>5. CASE Ask
  <2>1. PICK answer \in Answers(tool.manual, Candidates[tool.next], tool.by) :
          tool' = [tool EXCEPT !.at = "keep", !.answer = answer]
    BY <1>5, Zenon DEF Ask
  <2>2. MoreChunks /\ UNCHANGED <<parsed, cache, index>>
    BY <1>5, Zenon DEF Ask, fileVars
  <2>3. /\ tool'.records = tool.records /\ tool'.targets = tool.targets /\ tool'.by = tool.by
        /\ tool'.manual = tool.manual /\ tool'.next = tool.next /\ tool'.answer = answer
    BY <1>0, <2>1 DEF Tool
  <2>4. Slot' = Slot
    BY <2>2, <2>3 DEF Slot, Candidates
  <2>5. Slot[2] = tool.by /\ Slot[1] \in TextsOf(tool.manual)
    BY <1>0, <2>2, AtChunk, CandidateOf DEF Candidates
  <2>6. \A i \in DOMAIN answer : answer[i].manual = tool.manual /\ answer[i].by = tool.by
    BY <2>1 DEF Answers
  <2>7. AnswerAt(Slot, answer) /\ From(answer, {tool.manual})
    BY <2>5, <2>6 DEF AnswerAt, From
  <2> QED
    BY <2>2, <2>3, <2>4, <2>7 DEF OwnInv
<1>6. CASE KeepAnswer
  <2>1. /\ ToolAt("keep") /\ tool' = Collected(tool.answer) /\ index' = index
        /\ cache' = [cache EXCEPT ![Slot] = Kept(tool.answer)]
    BY <1>6, Zenon DEF KeepAnswer, CacheKey
  <2>2. /\ Slot \in Slots /\ Slot[2] = tool.by /\ tool.manual \in tool.targets
        /\ tool.answer \in Seq(Record)
    BY <1>0, <2>1, AtKeep DEF Tool
  <2>3. ReadBy(tool.answer, tool.by) /\ From(tool.answer, {tool.manual})
    BY <2>1, <2>2 DEF OwnInv, AnswerAt, ReadBy
  <2>4. (From(tool.records, tool.targets) /\ ReadBy(tool.records, tool.by))' /\ ~ToolAt("keep")'
    BY <1>0, <2>1, <2>2, <2>3, OwnCollected
  <2>5. \A s \in Slots : AnswerAt(s, cache'[s].records)
    <3>1. \A s \in Slots : cache'[s].records = IF s = Slot THEN tool.answer ELSE cache[s].records
      BY <1>0, <2>1 DEF Kept
    <3> QED
      BY <2>1, <3>1 DEF OwnInv
  <2> QED
    BY <2>1, <2>4, <2>5 DEF OwnInv
<1>7. CASE ToolFails \/ Merge
  <2>1. tool' = NoTool /\ cache' = cache /\ index' \in {index, Merged, TornAnswer}
    BY <1>7 DEF ToolFails, Merge, Stops
  <2> QED
    BY <1>0, <2>1, OwnNoTool DEF OwnInv
<1>8. CASE ToolKilled
  <2>1. tool' = NoTool /\ index' \in {index, Merged, TornAnswer}
    BY <1>8 DEF ToolKilled, Stops, IndexLeft, CutWrite
  <2>2. \A s \in Slots : AnswerAt(s, cache'[s].records)
    <3>1. CASE ToolAt("keep")
      <4>1. PICK a \in CutWrite(cache[Slot], Kept(tool.answer), TornAnswer) :
              cache' = [cache EXCEPT ![Slot] = a]
        BY <1>8, <3>1 DEF ToolKilled, CacheKey
      <4>2. AnswerAt(Slot, tool.answer) /\ AnswerAt(Slot, <<>>) /\ Slot \in Slots
        BY <1>0, <3>1, AtKeep DEF OwnInv, AnswerAt
      <4>3. AnswerAt(Slot, a.records)
        BY <4>1, <4>2 DEF CutWrite, Kept, TornAnswer, OwnInv
      <4>4. \A s \in Slots : cache'[s] = IF s = Slot THEN a ELSE cache[s]
        BY <1>0, <4>1
      <4> QED
        BY <4>3, <4>4 DEF OwnInv
    <3>2. CASE ~ToolAt("keep")
      BY <1>8, <3>2 DEF ToolKilled, OwnInv
    <3> QED
      BY <3>1, <3>2
  <2> QED
    BY <1>0, <2>1, <2>2, OwnNoTool
<1> QED
  BY <1>1, <1>2, <1>3, <1>4, <1>5, <1>6, <1>7, <1>8 DEF CodeNext, ExtractStep

LEMMA OwnCorrect == OwnTexts => (Spec => []OwnInv)
<1> SUFFICES ASSUME OwnTexts PROVE Spec => []OwnInv
  OBVIOUS
<1>1. Init => OwnInv
  <2> SUFFICES ASSUME Init PROVE OwnInv
    OBVIOUS
  <2>1. index = Kept(FirstIndex) /\ tool = NoTool /\ cache = [s \in Slots |-> NoAnswer]
    BY DEF Init, CodeInit
  <2>2. \A s \in Slots : cache[s].records = <<>>
    BY <2>1 DEF NoAnswer
  <2>3. tool.records = <<>> /\ tool.at = "off" /\ index.records = FirstIndex
    BY <2>1 DEF NoTool, Kept
  <2> QED
    BY <2>2, <2>3, CodeAssumption DEF OwnInv, AnswerAt, ToolAt, From, ReadBy, Unmixed
<1>2. PipelinesInv /\ OwnInv /\ [Next]_vars => OwnInv'
  <2> SUFFICES ASSUME PipelinesInv, OwnInv, [Next]_vars PROVE OwnInv'
    OBVIOUS
  <2>1. CASE CodeNext
    BY <2>1, OwnStep
  <2>2. CASE UNCHANGED codeVars
    BY <2>2 DEF codeVars, OwnInv, ToolAt, Slot, Candidates
  <2> QED
    BY <2>1, <2>2 DEF Next, vars
<1> QED
  BY <1>1, <1>2, PipelinesCorrect, PTL DEF Spec

(* Where no two manuals share a text, no extractor's records are served    *)
(* for another's, in the cache or beside them in the index.                *)
THEOREM NeverMix == OwnTexts => (Spec => []ExtractorsNeverMix)
<1> SUFFICES ASSUME OwnTexts PROVE Spec => []ExtractorsNeverMix
  OBVIOUS
<1>1. PipelinesInv /\ OwnInv => ExtractorsNeverMix
  <2> SUFFICES ASSUME PipelinesInv, OwnInv PROVE ExtractorsNeverMix
    OBVIOUS
  <2>1. ASSUME NEW s \in Slots, NEW r \in Record, s[2] # r.by
        PROVE  ~Contains(cache[s].records, r)
    <3>1. cache[s] \in Files(Seq(Record))
      BY DEF PipelinesInv, CodeInv
    <3>2. cache[s].records \in Seq(Record)
      BY <3>1 DEF Files
    <3>3. \A i \in 1 .. Len(cache[s].records) : cache[s].records[i].by = s[2]
      BY <3>2 DEF OwnInv, AnswerAt
    <3> QED
      BY <2>1, <3>3 DEF Contains
  <2> QED
    BY <2>1 DEF ExtractorsNeverMix, OwnInv, Unmixed
<1> QED
  BY <1>1, OwnCorrect, PipelinesCorrect, PTL

(* What writes the index is a merge, whole or cut.                         *)
LEMMA IndexSteps ==
  ASSUME [Next]_vars, index' # index
  PROVE  ToolAt("merge") /\ (index' = Merged \/ index'.file = Torn)
<1>1. CodeNext
  BY DEF Next, vars, codeVars
<1>2. CASE CodeStarts \/ AddStep
  BY <1>2, StartsFiles, AddFiles
<1>3. CASE ExtractStep
  <2>1. CASE NextManual \/ TakeCached \/ Ask \/ KeepAnswer
    BY <2>1, Zenon DEF NextManual, TakeCached, Ask, KeepAnswer
  <2>2. CASE ManualDone \/ ToolFails
    BY <2>2, Zenon DEF ManualDone, ToolFails
  <2>3. CASE Merge
    BY <2>3 DEF Merge
  <2> QED
    BY <1>3, <2>1, <2>2, <2>3 DEF ExtractStep
<1>4. CASE ToolKilled
  BY <1>4 DEF ToolKilled, IndexLeft, CutWrite, TornAnswer
<1> QED
  BY <1>1, <1>2, <1>3, <1>4 DEF CodeNext

(* Where no two manuals share a text, a merge leaves the records of all    *)
(* manuals it was not asked for as they were.                              *)
THEOREM OthersKept == OwnTexts => (Spec => OthersUntouched)
<1> SUFFICES ASSUME OwnTexts PROVE Spec => OthersUntouched
  OBVIOUS
<1>1. PipelinesInv /\ OwnInv /\ [Next]_vars =>
        [index' # index /\ index'.file # Torn =>
           \A m \in Manuals \ tool.targets :
               RecordsOf(index'.records, m) = RecordsOf(index.records, m)]_index
  <2> SUFFICES ASSUME PipelinesInv, OwnInv, [Next]_vars, index' # index, index'.file # Torn,
                      NEW m \in Manuals \ tool.targets
               PROVE  RecordsOf(index'.records, m) = RecordsOf(index.records, m)
    OBVIOUS
  <2>1. index' = Merged
    BY IndexSteps
  <2> QED
    BY <2>1, MergedOf DEF PipelinesInv, OwnInv
<1> QED
  BY <1>1, OwnCorrect, PipelinesCorrect, PTL DEF Spec, OthersUntouched

(***************************************************************************)
(* What a script has collected is what the cache holds of the manuals it   *)
(* has been through                                                        *)
(***************************************************************************)
TextOf(m) == CandidatesOf[m][parsed[m]]

(* The answers kept to a manual's text, and to those of the first n        *)
(* manuals that script t was given.                                        *)
Whole(m, answered, by) == SoFar(TextOf(m), answered, by, Len(TextOf(m)))

Through(t, answered, n) == FlattenSeq([p \in 1 .. n |-> Whole(t.named[p], answered, t.by)])

InManual == tool.at \in {"chunk", "keep"}

InLoop == tool.at \in {"manual", "chunk", "keep", "merge"}

(* The manuals taken from the list, and those of them that are finished.   *)
Taken == Len(tool.named) - Len(tool.todo)
Over == IF InManual THEN Taken - 1 ELSE Taken

Served(m, n) == \A i \in 1 .. n : cache[<<TextOf(m)[i], tool.by>>].file # NoFile

(* With --force, only a list without repetitions is spoken of.             *)
Claimed == tool.force => NamedOnce

Beginning ==
    tool.at \in {"append", "keep_pdf", "parse", "confirm"} =>
        /\ tool.records = <<>> /\ tool.next = 1
        /\ tool.todo = <<>> /\ tool.named = <<tool.manual>>

ListAt ==
    InLoop =>
        /\ Len(tool.todo) <= Len(tool.named)
        /\ \A i \in 1 .. Len(tool.todo) : tool.todo[i] = tool.named[Taken + i]

OverAt ==
    InLoop =>
        \A p \in 1 .. Over :
            /\ parsed[tool.named[p]] \in Versions
            /\ ~tool.force => Served(tool.named[p], Len(TextOf(tool.named[p])))

InManualAt ==
    InManual =>
        /\ Taken >= 1 /\ tool.manual = tool.named[Taken]
        /\ tool.next - 1 <= Len(TextOf(tool.manual))
        /\ ~tool.force => Served(tool.manual, tool.next - 1)
        /\ tool.at = "keep" /\ ~tool.force => cache[Slot].file = NoFile
        /\ Claimed =>
             tool.records = Through(tool, cache, Taken - 1)
                            \o SoFar(TextOf(tool.manual), cache, tool.by, tool.next - 1)

BetweenAt ==
    tool.at \in {"manual", "merge"} /\ Claimed => tool.records = Through(tool, cache, Taken)

ReadInv ==
    /\ Beginning /\ ListAt /\ OverAt /\ InManualAt /\ BetweenAt
    /\ ToolAt("merge") => tool.todo = <<>>

LEMMA ThroughNone == \A t, answered : Through(t, answered, 0) = <<>>
<1> SUFFICES ASSUME NEW t, NEW answered PROVE Through(t, answered, 0) = <<>>
  OBVIOUS
<1>1. [p \in 1 .. 0 |-> Whole(t.named[p], answered, t.by)] = <<>>
  OBVIOUS
<1> QED
  BY <1>1, FlattenNothing DEF Through

LEMMA WholeTypes ==
  ASSUME NEW m \in Manuals, parsed[m] \in Versions, NEW by \in Extractors,
         NEW answered \in [Slots -> Files(Seq(Record))]
  PROVE  /\ TextOf(m) \in Seq(Chunks) /\ Len(TextOf(m)) \in Nat
         /\ Whole(m, answered, by) \in Seq(Record)
<1>1. TextOf(m) \in Seq(Chunks) /\ Len(TextOf(m)) \in Nat /\ Len(TextOf(m)) <= Len(TextOf(m))
  BY CandidateTypes DEF TextOf
<1> QED
  BY <1>1, SoFarTypes DEF Whole

LEMMA ThroughMore ==
  ASSUME NEW t \in Tool, NEW answered \in [Slots -> Files(Seq(Record))], NEW n \in Nat, n + 1 <= Len(t.named),
         \A p \in 1 .. n + 1 : parsed[t.named[p]] \in Versions
  PROVE  Through(t, answered, n + 1) = Through(t, answered, n) \o Whole(t.named[n + 1], answered, t.by)
<1> DEFINE f == [p \in 1 .. n + 1 |-> Whole(t.named[p], answered, t.by)]
<1>1. \A p \in 1 .. n + 1 : f[p] = Whole(t.named[p], answered, t.by) /\ f[p] \in Seq(Record)
  <2> SUFFICES ASSUME NEW p \in 1 .. n + 1
               PROVE  Whole(t.named[p], answered, t.by) \in Seq(Record)
    OBVIOUS
  <2>1. t.named[p] \in Manuals /\ t.by \in Extractors
    BY DEF Tool
  <2> QED
    BY <2>1, WholeTypes
<1>2. [p \in 1 .. n |-> f[p]] = [p \in 1 .. n |-> Whole(t.named[p], answered, t.by)]
      /\ [p \in 1 .. n + 1 |-> f[p]] = [p \in 1 .. n + 1 |-> Whole(t.named[p], answered, t.by)]
  OBVIOUS
<1>3. n + 1 \in 1 .. n + 1
  OBVIOUS
<1> HIDE DEF f
<1>4. FlattenSeq([p \in 1 .. n + 1 |-> f[p]]) = FlattenSeq([p \in 1 .. n |-> f[p]]) \o f[n + 1]
  BY <1>1, FlattenMore
<1> QED
  BY <1>1, <1>2, <1>3, <1>4 DEF Through

LEMMA ThroughTypes ==
  ASSUME NEW t \in Tool, NEW answered \in [Slots -> Files(Seq(Record))], NEW n \in Nat, n <= Len(t.named),
         \A p \in 1 .. n : parsed[t.named[p]] \in Versions
  PROVE  Through(t, answered, n) \in Seq(Record)
<1>1. CASE n = 0
  <2>1. Through(t, answered, 0) = <<>> /\ <<>> \in Seq(Record)
    BY ThroughNone
  <2> QED
    BY <1>1, <2>1
<1>2. CASE n # 0
  <2> DEFINE f == [p \in 1 .. n |-> Whole(t.named[p], answered, t.by)]
             k == n - 1
  <2>1. \A p \in 1 .. n : f[p] \in Seq(Record)
    <3> SUFFICES ASSUME NEW p \in 1 .. n
                 PROVE  Whole(t.named[p], answered, t.by) \in Seq(Record)
      OBVIOUS
    <3>1. t.named[p] \in Manuals /\ t.by \in Extractors
      BY DEF Tool
    <3> QED
      BY <3>1, WholeTypes
  <2>2. k \in Nat /\ k + 1 = n /\ [p \in 1 .. n |-> f[p]] = f
    BY <1>2
  <2>3. f = [p \in 1 .. n |-> Whole(t.named[p], answered, t.by)]
    OBVIOUS
  <2> HIDE DEF f, k
  <2>4. FlattenSeq([p \in 1 .. k + 1 |-> f[p]]) \in Seq(Record)
    BY <2>1, <2>2, FlattenMore
  <2> QED
    BY <2>2, <2>3, <2>4 DEF Through
<1> QED
  BY <1>1, <1>2

LEMMA ThroughSame ==
  ASSUME NEW t, NEW u, NEW answered, NEW others, NEW n \in Nat, u.named = t.named, u.by = t.by,
         \A p \in 1 .. n : Whole(t.named[p], others, t.by) = Whole(t.named[p], answered, t.by)
  PROVE  Through(u, others, n) = Through(t, answered, n)
<1>1. [p \in 1 .. n |-> Whole(u.named[p], others, u.by)] = [p \in 1 .. n |-> Whole(t.named[p], answered, t.by)]
  OBVIOUS
<1> QED
  BY <1>1 DEF Through

(* What ReadInv says of the script's place in its list.                    *)
LEMMA PlaceTypes ==
  ASSUME CodeInv, ReadInv, InLoop
  PROVE  /\ tool.named \in Seq(Manuals) /\ tool.todo \in Seq(Manuals)
         /\ Taken \in Nat /\ Taken <= Len(tool.named)
         /\ \A p \in 1 .. Taken : tool.named[p] \in Manuals
         /\ tool.todo = <<>> <=> Taken = Len(tool.named)
         /\ tool.by \in Extractors /\ cache \in [Slots -> Files(Seq(Record))]
<1>1. tool.named \in Seq(Manuals) /\ tool.todo \in Seq(Manuals) /\ Len(tool.todo) <= Len(tool.named)
  BY DEF CodeInv, Tool, ReadInv, ListAt
<1>a. /\ Len(tool.named) \in Nat /\ Len(tool.todo) \in Nat
      /\ Len(tool.todo) = 0 <=> tool.todo = <<>>
  BY <1>1
<1> DEFINE a == Len(tool.named)
           b == Len(tool.todo)
<1>b. Taken = a - b /\ a \in Nat /\ b \in Nat /\ b <= a
  BY <1>1, <1>a DEF Taken
<1>2. Taken \in Nat /\ Taken <= Len(tool.named)
  <2> HIDE DEF a, b
  <2>1. a - b \in Nat /\ a - b <= a
    BY <1>b
  <2> QED
    BY <1>b, <2>1 DEF a
<1>3. \A p \in 1 .. Taken : tool.named[p] \in Manuals
  BY <1>1, <1>2, <1>a
<1>4. tool.todo = <<>> <=> Taken = Len(tool.named)
  <2> HIDE DEF a, b
  <2>1. b = 0 <=> a - b = a
    BY <1>b
  <2> QED
    BY <1>a, <1>b, <2>1 DEF a, b
<1> QED
  BY <1>1, <1>2, <1>3, <1>4 DEF CodeInv, Tool

(* A step keeps the answers to the texts that are over: without --force it *)
(* only answers what was not answered, with --force it answers another     *)
(* text, as long as no manual and no chunk comes twice.                    *)
LEMMA CollectedReads ==
  ASSUME OnceEach, OwnTexts, CodeInv, CodeInv', ReadInv, ToolAt("chunk") \/ ToolAt("keep"),
         tool.manual \in Manuals, parsed[tool.manual] \in Versions,
         Candidates \in Seq(Chunks), tool.next \in 1 .. Len(Candidates), Slot \in Slots,
         NEW records \in Seq(Record), tool' = Collected(records), parsed' = parsed,
         cache'[Slot].records = records, ~tool.force => cache'[Slot].file # NoFile,
         \A s \in Slots : s # Slot => cache'[s] = cache[s],
         cache' = cache \/ (~tool.force => cache[Slot].file = NoFile)
  PROVE  ReadInv'
<1> DEFINE mine == tool.manual
           c == Candidates
           n == tool.next - 1
           by == tool.by
           done == Taken - 1
<1>1. /\ tool'.records = tool.records \o records /\ tool'.manual = mine /\ tool'.by = by
      /\ tool'.todo = tool.todo /\ tool'.named = tool.named /\ tool'.at = "chunk"
      /\ tool'.next = tool.next + 1 /\ tool'.force = tool.force
  BY DEF CodeInv, Tool, Collected
<1>2. /\ tool \in Tool /\ tool' \in Tool /\ tool.records \in Seq(Record) /\ by \in Extractors
      /\ cache \in [Slots -> Files(Seq(Record))] /\ cache' \in [Slots -> Files(Seq(Record))]
  BY DEF CodeInv, Tool
<1>3. n \in Nat /\ n + 1 = tool.next /\ n + 1 <= Len(c) /\ n <= Len(c) /\ tool'.next - 1 = n + 1
      /\ n + 1 \in 1 .. Len(c)
  <2>1. Len(c) \in Nat /\ tool.next \in 1 .. Len(c) /\ tool'.next = tool.next + 1
    BY <1>1
  <2> HIDE DEF c
  <2> QED
    BY <2>1
<1>4. c = TextOf(mine) /\ c = CandidatesOf[mine][parsed[mine]] /\ Slot = <<c[n + 1], by>>
  BY <1>3 DEF Candidates, TextOf, Slot
<1>5. /\ InManual /\ InLoop /\ Over = done /\ Taken \in Nat /\ Taken >= 1 /\ mine = tool.named[Taken]
      /\ done \in Nat /\ done + 1 = Taken /\ Taken <= Len(tool.named) /\ done <= Len(tool.named)
      /\ Taken \in 1 .. Len(tool.named)
  <2>1. InManual /\ InLoop
    BY DEF InManual, InLoop, ToolAt
  <2>2. Taken \in Nat /\ Taken <= Len(tool.named)
    BY <2>1, PlaceTypes
  <2>3. Taken >= 1 /\ mine = tool.named[Taken]
    BY <2>1 DEF ReadInv, InManualAt
  <2> QED
    BY <2>1, <2>2, <2>3 DEF Over
<1>6. \A m : TextOf(m)' = TextOf(m)
  BY DEF TextOf
<1>7. Taken' = Taken /\ InManual' /\ InLoop' /\ Over' = done /\ Claimed' = Claimed
  BY <1>1 DEF Taken, InManual, InLoop, Over, Claimed, NamedOnce
<1>8. \A p \in 1 .. done : /\ p \in DOMAIN tool.named /\ p # Taken
                           /\ tool.named[p] \in Manuals /\ parsed[tool.named[p]] \in Versions
                           /\ ~tool.force => Served(tool.named[p], Len(TextOf(tool.named[p])))
  <2> SUFFICES ASSUME NEW p \in 1 .. done
               PROVE  /\ p \in DOMAIN tool.named /\ p # Taken
                      /\ tool.named[p] \in Manuals /\ parsed[tool.named[p]] \in Versions
                      /\ ~tool.force => Served(tool.named[p], Len(TextOf(tool.named[p])))
    OBVIOUS
  <2>1. parsed[tool.named[p]] \in Versions /\ (~tool.force => Served(tool.named[p], Len(TextOf(tool.named[p]))))
    BY <1>5 DEF ReadInv, OverAt
  <2>2. p \in 1 .. Len(tool.named) /\ p # Taken /\ p \in 1 .. Taken
    BY <1>5
  <2> QED
    BY <1>5, <2>1, <2>2, PlaceTypes
<1>9. /\ ~tool.force => Served(mine, n)
      /\ Claimed => tool.records = Through(tool, cache, done) \o SoFar(c, cache, by, n)
  <2>1. /\ ~tool.force => Served(mine, n)
        /\ Claimed => tool.records = Through(tool, cache, done) \o SoFar(TextOf(mine), cache, by, n)
    BY <1>5 DEF ReadInv, InManualAt
  <2> QED
    BY <1>4, <2>1, Zenon
<1> HIDE DEF mine, c, n, by, done
<1>10. \A s \in Slots : cache[s].file # NoFile /\ ~tool.force => cache'[s].file # NoFile
  OBVIOUS
<1>11. ASSUME NEW m \in Manuals, parsed[m] \in Versions, NEW k \in 1 .. Len(TextOf(m))
       PROVE  TextOf(m)[k] \in Chunks /\ <<TextOf(m)[k], by>> \in Slots /\ TextOf(m)[k] \in TextsOf(m)
  <2>1. TextOf(m) \in Seq(Chunks)
    BY <1>11, CandidateTypes DEF TextOf
  <2>2. TextOf(m)[k] \in Chunks /\ TextOf(m)[k] \in TextsOf(m)
    BY <1>11, <2>1, CandidateOf DEF TextOf
  <2> QED
    BY <1>2, <2>2 DEF Slots
<1>12. mine \in Manuals /\ parsed[mine] \in Versions
       /\ (\A i \in 1 .. n : i \in 1 .. Len(c) /\ i # n + 1 /\ <<c[i], by>> \in Slots)
  <2>1. mine \in Manuals /\ parsed[mine] \in Versions
    BY DEF mine
  <2>2. Len(c) \in Nat
    BY DEF c
  <2>3. \A i \in 1 .. n : i \in 1 .. Len(c) /\ i # n + 1
    BY <1>3, <2>2
  <2>4. \A i \in 1 .. Len(c) : <<c[i], by>> \in Slots
    BY <1>4, <1>11, <2>1
  <2> QED
    BY <2>1, <2>3, <2>4
<1>13. Claimed => SoFar(c, cache', by, n) = SoFar(c, cache, by, n)
  <2> SUFFICES ASSUME Claimed, cache' # cache
               PROVE  SoFar(c, cache', by, n) = SoFar(c, cache, by, n)
    OBVIOUS
  <2>1. ASSUME NEW i \in 1 .. n
        PROVE  cache'[<<c[i], by>>].records = cache[<<c[i], by>>].records
    <3>1. i \in 1 .. Len(c) /\ i # n + 1 /\ <<c[i], by>> \in Slots
      BY <1>12
    <3>2. CASE tool.force
      <4>1. i \in DOMAIN c /\ n + 1 \in DOMAIN c
        BY <1>3, <3>1 DEF c
      <4>2. c[i] # c[n + 1]
        BY <1>4, <1>12, <3>1, <4>1 DEF OnceEach
      <4> QED
        BY <1>4, <3>1, <4>2
    <3>3. CASE ~tool.force
      BY <1>4, <1>9, <3>1, <3>3 DEF Served, by
    <3> QED
      BY <3>2, <3>3
  <2> QED
    BY <1>3, <2>1, SoFarSame
<1>14. Claimed => Through(tool', cache', done) = Through(tool, cache, done)
  <2> SUFFICES ASSUME Claimed PROVE Through(tool', cache', done) = Through(tool, cache, done)
    OBVIOUS
  <2>1. ASSUME NEW p \in 1 .. done
        PROVE  Whole(tool.named[p], cache', by) = Whole(tool.named[p], cache, by)
    <3> DEFINE m == tool.named[p]
    <3>1. /\ m \in Manuals /\ parsed[m] \in Versions /\ p \in DOMAIN tool.named /\ p # Taken
          /\ ~tool.force => Served(m, Len(TextOf(m)))
      BY <1>8
    <3>2. Taken \in DOMAIN tool.named /\ mine = tool.named[Taken]
      BY <1>5, <1>2 DEF mine
    <3> HIDE DEF m
    <3>3. Len(TextOf(m)) \in Nat
      BY <3>1, <1>2, WholeTypes
    <3>4. ASSUME NEW i \in 1 .. Len(TextOf(m))
          PROVE  cache'[<<TextOf(m)[i], by>>].records = cache[<<TextOf(m)[i], by>>].records
      <4>1. <<TextOf(m)[i], by>> \in Slots /\ TextOf(m)[i] \in TextsOf(m)
        BY <1>11, <3>1
      <4>2. CASE tool.force
        <5>1. m # mine
          BY <3>1, <3>2, <4>2 DEF Claimed, NamedOnce, m
        <5>2. c[n + 1] \in TextsOf(mine)
          BY <1>3, <1>4, <1>11, <1>12
        <5>3. TextOf(m)[i] # c[n + 1]
          BY <1>12, <3>1, <4>1, <5>1, <5>2 DEF OwnTexts
        <5> QED
          BY <1>4, <4>1, <5>3
      <4>3. CASE ~tool.force
        BY <3>1, <4>1, <4>3 DEF Served, by
      <4> QED
        BY <4>2, <4>3
    <3> QED
      BY <3>3, <3>4, SoFarSame DEF Whole, m
  <2> QED
    BY <1>1, <1>5, <2>1, ThroughSame DEF by
<1>15. Claimed => tool'.records = Through(tool', cache', done) \o SoFar(c, cache', by, n + 1)
  <2> SUFFICES ASSUME Claimed
               PROVE  tool'.records = Through(tool', cache', done) \o SoFar(c, cache', by, n + 1)
    OBVIOUS
  <2>1. c \in Seq(Chunks)
    BY DEF c
  <2>2. SoFar(c, cache, by, n) \in Seq(Record) /\ SoFar(c, cache', by, n + 1) = SoFar(c, cache', by, n) \o records
    BY <1>2, <1>3, <1>4, <2>1, SoFarMore
  <2>3. Through(tool, cache, done) \in Seq(Record)
    BY <1>2, <1>5, <1>8, ThroughTypes
  <2>4. (Through(tool, cache, done) \o SoFar(c, cache, by, n)) \o records
          = Through(tool, cache, done) \o (SoFar(c, cache, by, n) \o records)
    BY <2>2, <2>3, ConcatAssociative
  <2> QED
    BY <1>1, <1>9, <1>13, <1>14, <2>2, <2>4
<1>16. InManualAt'
  <2>1. \A i \in 1 .. n + 1 : ~tool.force => cache'[<<c[i], by>>].file # NoFile
    <3> SUFFICES ASSUME NEW i \in 1 .. n + 1, ~tool.force PROVE cache'[<<c[i], by>>].file # NoFile
      OBVIOUS
    <3>1. CASE i = n + 1
      BY <1>4, <3>1
    <3>2. CASE i \in 1 .. n
      <4>1. <<c[i], by>> \in Slots /\ cache[<<c[i], by>>].file # NoFile
        BY <1>4, <1>9, <1>12, <3>2 DEF Served, by
      <4> QED
        BY <1>10, <4>1
    <3> QED
      BY <1>3, <3>1, <3>2
  <2>2. TextOf(tool.manual)' = c
    BY <1>1, <1>4, <1>6 DEF mine
  <2>3. (~tool.force => Served(tool.manual, tool.next - 1))'
    BY <1>1, <1>3, <1>4, <1>6, <2>1, <2>2 DEF Served
  <2>4. (tool.next - 1 <= Len(TextOf(tool.manual)))'
    BY <1>3, <2>2
  <2>5. (Claimed =>
           tool.records = Through(tool, cache, Taken - 1)
                          \o SoFar(TextOf(tool.manual), cache, tool.by, tool.next - 1))'
    <3>1. Through(tool, cache, Taken - 1)' = Through(tool', cache', done)
      BY <1>6, <1>7 DEF Through, Whole, done
    <3> QED
      BY <1>1, <1>3, <1>7, <1>15, <2>2, <3>1
  <2> QED
    BY <1>1, <1>5, <1>7, <2>3, <2>4, <2>5 DEF InManualAt
<1>17. OverAt'
  <2> SUFFICES ASSUME NEW p \in 1 .. done
               PROVE  (/\ parsed[tool.named[p]] \in Versions
                       /\ ~tool.force => Served(tool.named[p], Len(TextOf(tool.named[p]))))'
    BY <1>7 DEF OverAt
  <2> DEFINE m == tool.named[p]
  <2>1. m \in Manuals /\ parsed[m] \in Versions /\ (~tool.force => Served(m, Len(TextOf(m))))
    BY <1>8
  <2>2. tool'.named[p] = m
    BY <1>1
  <2> HIDE DEF m
  <2>3. ~tool.force => \A i \in 1 .. Len(TextOf(m)) : cache'[<<TextOf(m)[i], by>>].file # NoFile
    BY <1>10, <1>11, <2>1 DEF Served, by
  <2> QED
    BY <1>1, <1>6, <2>1, <2>2, <2>3 DEF Served
<1>18. ListAt'
  BY <1>1, <1>5, <1>7 DEF ReadInv, ListAt
<1> QED
  BY <1>1, <1>16, <1>17, <1>18 DEF ReadInv, Beginning, BetweenAt, ToolAt

(* A script that has collected nothing yet, or that has stopped.           *)
LEMMA NoneRead ==
  ASSUME tool'.records = <<>>, tool'.at \notin {"chunk", "keep", "merge"},
         tool'.named \in Seq(Manuals),
         tool'.at = "manual" => tool'.todo = tool'.named,
         tool'.at \in {"append", "keep_pdf", "parse", "confirm"} =>
           tool'.next = 1 /\ tool'.todo = <<>> /\ tool'.named = <<tool'.manual>>
  PROVE  ReadInv'
<1>1. CASE tool'.at = "manual"
  <2>1. tool'.todo = tool'.named /\ Len(tool'.named) \in Nat
    BY <1>1
  <2>2. Taken' = 0 /\ Over' = 0 /\ ~InManual'
    <3> DEFINE k == Len(tool'.named)
    <3>1. k - k = 0
      BY <2>1
    <3>2. Taken' = k - k
      BY <2>1 DEF Taken
    <3> QED
      BY <1>1, <3>1, <3>2 DEF Over, InManual
  <2>3. ListAt'
    <3> SUFFICES ASSUME NEW i \in 1 .. Len(tool'.todo)
                 PROVE  tool'.todo[i] = tool'.named[0 + i]
      BY <2>1, <2>2 DEF ListAt
    <3> QED
      BY <2>1
  <2>4. OverAt' /\ InManualAt'
    BY <2>2 DEF OverAt, InManualAt
  <2>5. BetweenAt'
    BY <2>2, ThroughNone DEF BetweenAt, Through
  <2> QED
    BY <1>1, <2>3, <2>4, <2>5 DEF ReadInv, Beginning, ToolAt
<1>2. CASE tool'.at # "manual"
  BY <1>2 DEF ReadInv, Beginning, ListAt, OverAt, InManualAt, BetweenAt, InLoop, InManual, ToolAt
<1> QED
  BY <1>1, <1>2

LEMMA StoppedReads ==
  ASSUME tool' = NoTool
  PROVE  ReadInv'
<1>1. tool'.records = <<>> /\ tool'.at = "off" /\ tool'.named = <<>> /\ <<>> \in Seq(Manuals)
  BY DEF NoTool
<1> QED
  BY <1>1, NoneRead

LEMMA StartReads ==
  ASSUME ReadInv, CodeStarts
  PROVE  ReadInv'
<1>1. CASE \E m \in Manuals : Parse(m) \/ ParseKilled(m)
  <2>1. tool' = tool /\ tool.at = "off"
    BY <1>1, Zenon DEF Parse, ParseKilled, ToolAt
  <2> QED
    BY <2>1 DEF ReadInv, Beginning, ListAt, OverAt, InManualAt, BetweenAt, InLoop, InManual, ToolAt
<1>2. CASE \E e \in Entries, by \in Extractors : AddManual(e, by)
  <2>1. PICK e \in Entries, by \in Extractors :
          tool' = [NoTool EXCEPT !.name = "add_manual", !.by = by, !.entry = e, !.named = <<e.id>>,
                                 !.targets = {e.id}, !.manual = e.id,
                                 !.at = IF KnownEntry(e) THEN "keep_pdf" ELSE "append"]
    BY <1>2, Zenon DEF AddManual
  <2>2. e.id \in Manuals
    BY DEF Entries
  <2>3. /\ tool'.records = <<>> /\ tool'.at \in {"keep_pdf", "append"} /\ tool'.next = 1
        /\ tool'.todo = <<>> /\ tool'.named = <<e.id>> /\ tool'.manual = e.id
    BY <2>1 DEF NoTool
  <2>4. tool'.named \in Seq(Manuals)
    BY <2>2, <2>3
  <2> QED
    BY <2>3, <2>4, NoneRead
<1>3. CASE \E manuals \in Listings, by \in Extractors, force \in BOOLEAN : ExtractCodes(manuals, by, force)
  <2>1. PICK manuals \in Listings, by \in Extractors, force \in BOOLEAN :
          tool' = [NoTool EXCEPT !.name = "extract_codes", !.at = "manual", !.by = by, !.force = force,
                                 !.named = manuals, !.targets = ToSet(manuals), !.todo = manuals]
    BY <1>3, Zenon DEF ExtractCodes
  <2>2. /\ tool'.records = <<>> /\ tool'.at = "manual" /\ tool'.todo = tool'.named
        /\ tool'.named = manuals
    BY <2>1 DEF NoTool
  <2>3. tool'.named \in Seq(Manuals)
    BY <2>2, ListingTypes
  <2> QED
    BY <2>2, <2>3, NoneRead
<1> QED
  BY <1>1, <1>2, <1>3 DEF CodeStarts

LEMMA AddReads ==
  ASSUME CodeInv, ReadInv, AddStep
  PROVE  ReadInv'
<1>0. tool \in Tool /\ tool.named \in Seq(Manuals)
  BY DEF CodeInv, Tool
<1>1. CASE AppendEntry \/ KeepPdf
  <2>1. tool.at \in {"append", "keep_pdf"} /\ tool' \in {[tool EXCEPT !.at = a] : a \in {"keep_pdf", "parse"}}
    BY <1>1, Zenon DEF AppendEntry, KeepPdf, ToolAt, GoesTo
  <2>2. /\ tool'.records = tool.records /\ tool'.next = tool.next /\ tool'.todo = tool.todo
        /\ tool'.named = tool.named /\ tool'.manual = tool.manual /\ tool'.at \in {"keep_pdf", "parse"}
    BY <1>0, <2>1 DEF Tool
  <2> QED
    BY <1>0, <2>1, <2>2, NoneRead DEF ReadInv, Beginning
<1>2. CASE ParsePdf
  <2>1. tool.at = "parse" /\ (tool' = [tool EXCEPT !.at = "confirm"] \/ tool' = NoTool)
    BY <1>2, Zenon DEF ParsePdf, ToolAt, GoesTo, Stops
  <2>2. CASE tool' = [tool EXCEPT !.at = "confirm"]
    <3>1. /\ tool'.records = tool.records /\ tool'.next = tool.next /\ tool'.todo = tool.todo
          /\ tool'.named = tool.named /\ tool'.manual = tool.manual /\ tool'.at = "confirm"
      BY <1>0, <2>2 DEF Tool
    <3> QED
      BY <1>0, <2>1, <3>1, NoneRead DEF ReadInv, Beginning
  <2> QED
    BY <2>1, <2>2, StoppedReads
<1>3. CASE Confirm
  <2>1. tool.at = "confirm" /\ (tool' = [tool EXCEPT !.at = "chunk"] \/ tool' = NoTool)
        /\ UNCHANGED <<parsed, cache>>
    BY <1>3, Zenon DEF Confirm, ToolAt, GoesTo, Stops
  <2>2. CASE tool' = [tool EXCEPT !.at = "chunk"]
    <3> DEFINE m == tool.manual
    <3>1. /\ tool'.records = <<>> /\ tool'.next = 1 /\ tool'.todo = <<>> /\ tool'.named = <<m>>
          /\ tool'.manual = m /\ tool'.at = "chunk"
      BY <1>0, <2>1, <2>2 DEF Tool, ReadInv, Beginning
    <3>2. m \in Manuals /\ parsed[m] \in Versions
      BY <1>0, <2>1 DEF CodeInv, ToolHas, Tool
    <3> HIDE DEF m
    <3>3. Len(TextOf(m)) \in Nat
      BY <3>2, CandidateTypes DEF TextOf
    <3>4. 1 - 1 = 0 /\ Len(<<m>>) = 1 /\ <<m>>[1] = m
      OBVIOUS
    <3>5. Taken' = 1 /\ InManual' /\ Over' = 0
      <4>1. Taken' = Len(<<m>>) - Len(<<>>)
        BY <3>1 DEF Taken
      <4> QED
        BY <3>1, <3>4, <4>1 DEF InManual, Over
    <3>6. ListAt' /\ OverAt'
      BY <3>1, <3>5 DEF ListAt, OverAt
    <3>7. TextOf(tool.manual)' = TextOf(m)
      BY <2>1, <3>1 DEF TextOf
    <3>8. (Through(tool, cache, Taken - 1) \o SoFar(TextOf(tool.manual), cache, tool.by, tool.next - 1))' = <<>>
      <4>1. Through(tool, cache, Taken - 1)' = Through(tool', cache', 0)
        BY <2>1, <3>4, <3>5 DEF Through, Whole, TextOf
      <4>2. SoFar(TextOf(tool.manual), cache, tool.by, tool.next - 1)' = SoFar(TextOf(m), cache', tool'.by, 0)
        BY <3>1, <3>4, <3>7
      <4>3. <<>> \o <<>> = <<>>
        OBVIOUS
      <4> QED
        BY <4>1, <4>2, <4>3, ThroughNone, SoFarNone
    <3>9. InManualAt'
      BY <3>1, <3>3, <3>4, <3>5, <3>7, <3>8 DEF InManualAt, Served
    <3> QED
      BY <3>1, <3>6, <3>9 DEF ReadInv, Beginning, BetweenAt, ToolAt
  <2> QED
    BY <2>1, <2>2, StoppedReads
<1> QED
  BY <1>1, <1>2, <1>3 DEF AddStep

LEMMA NextReads ==
  ASSUME CodeInv, ReadInv, NextManual
  PROVE  ReadInv'
<1> DEFINE m == Head(tool.todo)
           rest == Tail(tool.todo)
           k == Taken
<1>1. /\ tool.at = "manual" /\ tool.todo # <<>> /\ m \in Manuals /\ parsed[m] \in Versions
      /\ tool' = [tool EXCEPT !.at = "chunk", !.manual = m, !.todo = rest, !.next = 1]
      /\ parsed' = parsed /\ cache' = cache
  BY TakenNext
<1>2. tool \in Tool /\ tool.named \in Seq(Manuals) /\ tool.todo \in Seq(Manuals) /\ tool.records \in Seq(Record)
  BY DEF CodeInv, Tool
<1>3. /\ m = tool.todo[1] /\ Len(tool.todo) \in Nat /\ Len(tool.todo) >= 1 /\ Len(rest) = Len(tool.todo) - 1
      /\ \A i \in 1 .. Len(rest) : rest[i] = tool.todo[i + 1]
  BY <1>1, <1>2
<1>4. InLoop /\ ~InManual
  BY <1>1 DEF InLoop, InManual
<1>5. k \in Nat /\ k <= Len(tool.named) /\ k # Len(tool.named) /\ Len(tool.named) \in Nat
  BY <1>1, <1>2, <1>4, PlaceTypes
<1> HIDE DEF m, rest
<1>6. /\ tool'.records = tool.records /\ tool'.named = tool.named /\ tool'.by = tool.by
      /\ tool'.at = "chunk" /\ tool'.manual = m /\ tool'.todo = rest /\ tool'.next = 1
      /\ tool'.force = tool.force
  BY <1>1, <1>2 DEF Tool
<1>7. Taken' = k + 1 /\ InManual' /\ Over' = k /\ Over = k /\ Claimed' = Claimed
  <2> DEFINE a == Len(tool.named)
             b == Len(tool.todo)
  <2>1. k = a - b /\ Taken' = a - (b - 1) /\ a \in Nat /\ b \in Nat
    BY <1>3, <1>5, <1>6 DEF Taken
  <2>2. InManual' /\ Claimed' = Claimed
    BY <1>6 DEF InManual, Claimed, NamedOnce
  <2> HIDE DEF a, b, k
  <2>3. a - (b - 1) = (a - b) + 1 /\ (k + 1) - 1 = k
    BY <1>5, <2>1
  <2> QED
    BY <1>4, <2>1, <2>2, <2>3 DEF Over, k
<1> HIDE DEF k
<1>8. \A n : TextOf(n)' = TextOf(n)
  BY <1>1 DEF TextOf
<1>9. /\ Len(tool.todo) <= Len(tool.named)
      /\ \A i \in 1 .. Len(tool.todo) : tool.todo[i] = tool.named[k + i]
  BY <1>4 DEF ReadInv, ListAt, k
<1>10. ListAt'
  <2>1. ASSUME NEW i \in 1 .. Len(rest)
        PROVE  rest[i] = tool.named[(k + 1) + i]
    <3>1. i + 1 \in 1 .. Len(tool.todo) /\ k + (i + 1) = (k + 1) + i
      BY <1>3, <1>5
    <3> QED
      BY <1>3, <1>9, <3>1
  <2>2. Len(rest) <= Len(tool.named)
    BY <1>3, <1>5, <1>9
  <2> QED
    BY <1>6, <1>7, <2>1, <2>2 DEF ListAt
<1>11. OverAt'
  BY <1>1, <1>4, <1>6, <1>7, <1>8 DEF ReadInv, OverAt, Served
<1>12. m = tool.named[k + 1]
  <2>1. 1 \in 1 .. Len(tool.todo)
    BY <1>3
  <2> QED
    BY <1>3, <1>9, <2>1
<1>13. InManualAt'
  <2>1. TextOf(tool.manual)' = TextOf(m) /\ Len(TextOf(m)) \in Nat
    <3>1. Len(TextOf(m)) \in Nat
      BY <1>1, CandidateTypes DEF TextOf
    <3> QED
      BY <1>1, <1>6, <3>1 DEF TextOf
  <2>2. 1 - 1 = 0 /\ (k + 1) - 1 = k /\ k + 1 >= 1
    BY <1>5
  <2>3. Claimed => tool.records = Through(tool, cache, k)
    BY <1>1 DEF ReadInv, BetweenAt, k
  <2>4. Through(tool, cache, Taken - 1)' = Through(tool, cache, k)
    <3>1. Taken' - 1 = k
      BY <1>7, <2>2
    <3>2. Through(tool, cache, Taken - 1)' = Through(tool', cache', k)
      BY <1>8, <3>1 DEF Through, Whole
    <3>3. Through(tool', cache, k) = Through(tool, cache, k)
      BY <1>5, <1>6, ThroughSame
    <3> QED
      BY <1>1, <3>2, <3>3
  <2>5. SoFar(TextOf(tool.manual), cache, tool.by, tool.next - 1)' = <<>>
    BY <1>6, <2>1, <2>2, SoFarNone
  <2>6. tool.records \o <<>> = tool.records
    BY <1>2, ConcatEmptySeq
  <2>7. (Claimed =>
           tool.records = Through(tool, cache, Taken - 1)
                          \o SoFar(TextOf(tool.manual), cache, tool.by, tool.next - 1))'
    BY <1>6, <1>7, <2>3, <2>4, <2>5, <2>6
  <2> QED
    BY <1>6, <1>7, <1>12, <2>1, <2>2, <2>7 DEF InManualAt, Served
<1> QED
  BY <1>6, <1>10, <1>11, <1>13 DEF ReadInv, Beginning, BetweenAt, ToolAt

LEMMA DoneReads ==
  ASSUME CodeInv, ReadInv, ManualDone
  PROVE  ReadInv'
<1> DEFINE k == Taken
           mine == tool.manual
<1>0. /\ tool \in Tool /\ tool.next \in Nat /\ mine \in Manuals /\ parsed' = parsed /\ cache' = cache
      /\ cache \in [Slots -> Files(Seq(Record))]
      /\ tool.at = "chunk" /\ tool.next > Len(Candidates)
      /\ tool' = [tool EXCEPT !.at = IF tool.todo = <<>> THEN "merge" ELSE "manual"]
  <2>1. /\ tool.at = "chunk" /\ tool.next > Len(Candidates) /\ parsed' = parsed /\ cache' = cache
        /\ tool' = [tool EXCEPT !.at = IF tool.todo = <<>> THEN "merge" ELSE "manual"]
    BY Zenon DEF ManualDone, ToolAt, GoesTo
  <2> QED
    BY <2>1 DEF CodeInv, Tool
<1>1. /\ tool'.records = tool.records /\ tool'.named = tool.named /\ tool'.by = tool.by
      /\ tool'.todo = tool.todo /\ tool'.at = (IF tool.todo = <<>> THEN "merge" ELSE "manual")
      /\ tool'.force = tool.force
  BY <1>0 DEF Tool
<1>2. InLoop /\ InManual
  BY <1>0 DEF InLoop, InManual
<1>3. /\ k \in Nat /\ k <= Len(tool.named) /\ k >= 1 /\ mine = tool.named[k]
      /\ parsed[mine] \in Versions
  <2>1. parsed[mine] \in Versions
    BY <1>0 DEF CodeInv, ToolHas
  <2> QED
    BY <1>2, <2>1, PlaceTypes DEF ReadInv, InManualAt
<1>4. Candidates = TextOf(mine) /\ Len(TextOf(mine)) \in Nat
  BY <1>0, <1>3, WholeTypes DEF Candidates, TextOf, CodeInv, Tool
<1>5. tool.next - 1 = Len(TextOf(mine))
  BY <1>0, <1>2, <1>4 DEF ReadInv, InManualAt
<1>6. /\ ~tool.force => Served(mine, Len(TextOf(mine)))
      /\ Claimed => tool.records = Through(tool, cache, k - 1) \o Whole(mine, cache, tool.by)
  BY <1>2, <1>5 DEF ReadInv, InManualAt, Whole
<1> HIDE DEF k, mine
<1>7. Taken' = k /\ ~InManual' /\ InLoop' /\ Over' = k /\ Over = k - 1 /\ Claimed' = Claimed
  BY <1>1, <1>2 DEF Taken, InManual, InLoop, Over, Claimed, NamedOnce, k
<1>8. \A m : TextOf(m)' = TextOf(m)
  BY <1>0 DEF TextOf
<1>9. \A p \in 1 .. k : /\ parsed[tool.named[p]] \in Versions
                        /\ ~tool.force => Served(tool.named[p], Len(TextOf(tool.named[p])))
  <2> SUFFICES ASSUME NEW p \in 1 .. k
               PROVE  /\ parsed[tool.named[p]] \in Versions
                      /\ ~tool.force => Served(tool.named[p], Len(TextOf(tool.named[p])))
    OBVIOUS
  <2>1. CASE p = k
    BY <1>3, <1>6, <2>1
  <2>2. CASE p # k
    <3>1. p \in 1 .. Over
      BY <1>3, <1>7, <2>2
    <3> QED
      BY <1>2, <3>1 DEF ReadInv, OverAt
  <2> QED
    BY <2>1, <2>2
<1>10. OverAt'
  BY <1>0, <1>1, <1>7, <1>8, <1>9 DEF OverAt, Served
<1>11. ListAt'
  BY <1>1, <1>2, <1>7 DEF ReadInv, ListAt, k
<1>12. BetweenAt'
  <2>1. k - 1 \in Nat /\ (k - 1) + 1 = k
    BY <1>3
  <2>2. Through(tool, cache, (k - 1) + 1)
          = Through(tool, cache, k - 1) \o Whole(tool.named[(k - 1) + 1], cache, tool.by)
    <3> DEFINE j == k - 1
    <3>1. j \in Nat /\ j + 1 <= Len(tool.named) /\ \A p \in 1 .. j + 1 : parsed[tool.named[p]] \in Versions
      BY <1>3, <1>9, <2>1
    <3> HIDE DEF j
    <3>2. Through(tool, cache, j + 1) = Through(tool, cache, j) \o Whole(tool.named[j + 1], cache, tool.by)
      BY <1>0, <3>1, ThroughMore
    <3> QED
      BY <3>2 DEF j
  <2>3. Claimed => tool.records = Through(tool, cache, k)
    BY <1>3, <1>6, <2>1, <2>2
  <2>4. Through(tool, cache, Taken)' = Through(tool, cache, k)
    <3>1. Through(tool, cache, Taken)' = Through(tool', cache', k)
      BY <1>7, <1>8 DEF Through, Whole
    <3>2. Through(tool', cache, k) = Through(tool, cache, k)
      BY <1>1, <1>3, ThroughSame
    <3> QED
      BY <1>0, <3>1, <3>2
  <2> QED
    BY <1>1, <1>7, <2>3, <2>4 DEF BetweenAt
<1> QED
  BY <1>1, <1>7, <1>10, <1>11, <1>12 DEF ReadInv, Beginning, InManualAt, ToolAt

LEMMA ExtractReads ==
  ASSUME OwnTexts, OnceEach, CodeInv, CodeInv', ReadInv, ExtractStep
  PROVE  ReadInv'
<1>0. tool \in Tool /\ cache \in [Slots -> Files(Seq(Record))] /\ parsed' = parsed
  BY ExtractFiles DEF CodeInv
<1>1. \A m : TextOf(m)' = TextOf(m)
  BY <1>0 DEF TextOf
<1>2. CASE NextManual
  BY <1>2, NextReads
<1>3. CASE TakeCached
  <2>1. MoreChunks /\ tool' = Collected(cache[Slot].records) /\ cache' = cache /\ cache[Slot].file # NoFile
    BY <1>3, Zenon DEF TakeCached, Cached, CacheKey
  <2>2. cache[Slot].records \in Seq(Record)
    BY <1>0, <2>1, AtChunk DEF Files
  <2> QED
    BY <1>0, <2>1, <2>2, AtChunk, CollectedReads DEF MoreChunks
<1>4. CASE Ask
  <2>1. PICK answer : tool' = [tool EXCEPT !.at = "keep", !.answer = answer]
    BY <1>4, Zenon DEF Ask
  <2>2. tool.at = "chunk" /\ cache' = cache /\ (~tool.force => cache[Slot].file = NoFile)
    BY <1>4, Zenon DEF Ask, MoreChunks, ToolAt, Cached, CacheKey
  <2>3. /\ tool'.records = tool.records /\ tool'.named = tool.named /\ tool'.by = tool.by
        /\ tool'.manual = tool.manual /\ tool'.next = tool.next /\ tool'.todo = tool.todo
        /\ tool'.at = "keep" /\ tool'.force = tool.force
    BY <1>0, <2>1 DEF Tool
  <2>4. /\ Taken' = Taken /\ InManual /\ InManual' /\ InLoop /\ InLoop' /\ Over' = Over
        /\ Claimed' = Claimed /\ Slot' = Slot
    BY <1>0, <2>2, <2>3 DEF Taken, InManual, InLoop, Over, Claimed, NamedOnce, Slot, Candidates
  <2>5. InManualAt'
    <3>1. Through(tool, cache, Taken - 1)' = Through(tool, cache, Taken - 1)
      BY <1>1, <2>2, <2>3, <2>4 DEF Through, Whole
    <3>2. TextOf(tool.manual)' = TextOf(tool.manual)
      BY <1>0, <2>3 DEF TextOf
    <3>3. Served(tool.manual, tool.next - 1)' = Served(tool.manual, tool.next - 1)
      BY <1>0, <2>2, <2>3, <3>2 DEF Served
    <3> QED
      BY <2>2, <2>3, <2>4, <3>1, <3>2, <3>3 DEF ReadInv, InManualAt
  <2>6. OverAt' /\ ListAt'
    BY <1>0, <1>1, <2>2, <2>3, <2>4 DEF ReadInv, OverAt, ListAt, Served
  <2> QED
    BY <2>3, <2>5, <2>6 DEF ReadInv, Beginning, BetweenAt, ToolAt
<1>5. CASE KeepAnswer
  <2>1. /\ ToolAt("keep") /\ tool' = Collected(tool.answer)
        /\ cache' = [cache EXCEPT ![Slot] = Kept(tool.answer)]
    BY <1>5, Zenon DEF KeepAnswer, CacheKey
  <2>2. Slot \in Slots /\ tool.answer \in Seq(Record)
    BY <1>0, <2>1, AtKeep DEF Tool
  <2>3. /\ cache'[Slot].records = tool.answer /\ cache'[Slot].file # NoFile
        /\ \A s \in Slots : s # Slot => cache'[s] = cache[s]
    BY <1>0, <2>1, <2>2 DEF Kept, NoFile
  <2>4. ~tool.force => cache[Slot].file = NoFile
    BY <2>1 DEF ReadInv, InManualAt, InManual, ToolAt
  <2> QED
    BY <1>0, <2>1, <2>2, <2>3, <2>4, AtKeep, CollectedReads
<1>6. CASE ManualDone
  BY <1>6, DoneReads
<1>7. CASE ToolFails \/ Merge
  BY <1>7, StoppedReads DEF ToolFails, Merge, Stops
<1> QED
  BY <1>2, <1>3, <1>4, <1>5, <1>6, <1>7 DEF ExtractStep

LEMMA ReadCorrect == OwnTexts /\ OnceEach => (Spec => []ReadInv)
<1> SUFFICES ASSUME OwnTexts, OnceEach PROVE Spec => []ReadInv
  OBVIOUS
<1>1. Init => ReadInv
  <2> SUFFICES ASSUME Init PROVE ReadInv
    OBVIOUS
  <2>1. tool.at = "off"
    BY DEF Init, CodeInit, NoTool
  <2> QED
    BY <2>1 DEF ReadInv, Beginning, ListAt, OverAt, InManualAt, BetweenAt, InLoop, InManual, ToolAt
<1>2. PipelinesInv /\ PipelinesInv' /\ ReadInv /\ [Next]_vars => ReadInv'
  <2> SUFFICES ASSUME PipelinesInv, PipelinesInv', ReadInv, [Next]_vars PROVE ReadInv'
    OBVIOUS
  <2>0. CodeInv /\ CodeInv'
    BY DEF PipelinesInv
  <2>1. CASE CodeNext
    <3>1. CASE ToolKilled
      BY <3>1, StoppedReads DEF ToolKilled, Stops
    <3> QED
      BY <2>0, <2>1, <3>1, StartReads, AddReads, ExtractReads DEF CodeNext
  <2>2. CASE UNCHANGED codeVars
    <3>1. tool' = tool /\ parsed' = parsed /\ cache' = cache
      BY <2>2 DEF codeVars
    <3>2. \A m : TextOf(m)' = TextOf(m)
      BY <3>1 DEF TextOf
    <3>3. /\ Taken' = Taken /\ InManual' = InManual /\ InLoop' = InLoop /\ Over' = Over
          /\ Claimed' = Claimed /\ Slot' = Slot
      BY <3>1 DEF Taken, InManual, InLoop, Over, Claimed, NamedOnce, Slot, Candidates
    <3>4. \A n : Through(tool, cache, n)' = Through(tool, cache, n)
      BY <3>1, <3>2 DEF Through, Whole
    <3>5. Beginning' /\ ListAt' /\ OverAt'
      BY <3>1, <3>2, <3>3 DEF ReadInv, Beginning, ListAt, OverAt, Served
    <3>6. InManualAt' /\ BetweenAt'
      <4>1. Through(tool, cache, Taken - 1)' = Through(tool, cache, Taken - 1)
            /\ Through(tool, cache, Taken)' = Through(tool, cache, Taken)
        BY <3>1, <3>2, <3>3 DEF Through, Whole
      <4>2. TextOf(tool.manual)' = TextOf(tool.manual)
        BY <3>1 DEF TextOf
      <4> QED
        BY <3>1, <3>2, <3>3, <4>1, <4>2 DEF ReadInv, InManualAt, BetweenAt, Served
    <3> QED
      BY <3>1, <3>5, <3>6 DEF ReadInv, ToolAt
  <2> QED
    BY <2>1, <2>2 DEF Next, vars
<1> QED
  BY <1>1, <1>2, PipelinesCorrect, PTL DEF Spec

(* Where every text is in one manual and once in each of its versions, a   *)
(* merge leaves in the index, of the manuals it was asked for, the answers *)
(* that the cache holds to the text they have, in the order in which the   *)
(* manuals were named; one that was named twice has its records in twice.  *)
THEOREM IndexRead == OwnTexts /\ OnceEach => (Spec => IndexIsWhatWasRead)
<1> SUFFICES ASSUME OwnTexts, OnceEach PROVE Spec => IndexIsWhatWasRead
  OBVIOUS
<1>1. PipelinesInv /\ OwnInv /\ ReadInv /\ [Next]_vars =>
        [index' # index /\ index'.file # Torn /\ (tool.force => NamedOnce) =>
           RecordsIn(index'.records, tool.targets) =
               FlattenSeq([i \in DOMAIN tool.named |-> CachedRecords(tool.named[i], tool.by)])]_index
  <2> SUFFICES ASSUME PipelinesInv, OwnInv, ReadInv, [Next]_vars, index' # index, index'.file # Torn,
                      tool.force => NamedOnce
               PROVE  RecordsIn(index'.records, tool.targets) =
                        FlattenSeq([i \in DOMAIN tool.named |-> CachedRecords(tool.named[i], tool.by)])
    OBVIOUS
  <2>1. index' = Merged /\ tool.at = "merge" /\ Claimed
    BY IndexSteps DEF ToolAt, Claimed
  <2>2. CodeInv /\ InLoop /\ ~InManual
    BY <2>1 DEF PipelinesInv, InLoop, InManual
  <2>3. RecordsIn(index'.records, tool.targets) = tool.records
    BY <2>1, <2>2, MergedIn DEF OwnInv
  <2>4. Taken = Len(tool.named) /\ tool.named \in Seq(Manuals) /\ Over = Taken
    BY <2>1, <2>2, PlaceTypes DEF ReadInv, ToolAt, Over
  <2>5. tool.records = Through(tool, cache, Len(tool.named))
    BY <2>1, <2>4 DEF ReadInv, BetweenAt
  <2>6. ASSUME NEW p \in 1 .. Len(tool.named)
        PROVE  Whole(tool.named[p], cache, tool.by) = CachedRecords(tool.named[p], tool.by)
    <3>1. tool.named[p] \in Manuals /\ parsed[tool.named[p]] \in Versions
      BY <2>2, <2>4 DEF ReadInv, OverAt
    <3> QED
      BY <2>2, <3>1, SoFarAll DEF Whole, TextOf
  <2>7. [p \in 1 .. Len(tool.named) |-> Whole(tool.named[p], cache, tool.by)] =
          [p \in DOMAIN tool.named |-> CachedRecords(tool.named[p], tool.by)]
    BY <2>4, <2>6
  <2> QED
    BY <2>3, <2>5, <2>7 DEF Through
<1> QED
  BY <1>1, OwnCorrect, ReadCorrect, PipelinesCorrect, PTL DEF Spec, IndexIsWhatWasRead

===============================================================================
