--------------------------- MODULE SymptomExtraction ---------------------------
(***************************************************************************)
(* From a manual's troubleshooting tables to data/index/symptoms.json      *)
(* (scripts/extract_symptoms.py, ingestion/symptom_extraction.py).  Every  *)
(* answer of the model is audited against the table it was asked to copy;  *)
(* rejected ones are asked again, under a spending cap, and a manual is    *)
(* written only when all of its tables passed.                             *)
(***************************************************************************)
EXTENDS ManualFiles

CONSTANTS
    Tables,       \* troubleshooting tables: page, cells and prompt
    TablesOf,     \* what read_symptom_tables finds in each manual's versions
    OldAnswers,   \* tables whose cached answer may be from an earlier audit
    Estimate,     \* estimate_call_cost of a table
    Costs,        \* bound: what one call may really cost
    Cap,          \* --max-cost
    MaxAttempts   \* max_attempts

ASSUME SymptomAssumption ==
    /\ TablesOf \in [Manuals -> [Versions -> Seq(Tables)]]
    /\ Estimate \in [Tables -> Nat \ {0}]
    /\ Costs \subseteq Nat /\ Cap \in Nat /\ MaxAttempts \in Nat \ {0}

VARIABLES
    answers,   \* the cache file of each table's prompt
    symptoms,  \* symptoms.json: per manual the tables its records copy
    batch      \* the run of extract_symptoms.py, see NoBatch

symptomVars == <<answers, symptoms, batch>>

(* An answer copies its table exactly (audited), departs from it           *)
(* (rejected), or is in the cache from before the audit asked for more     *)
(* (also rejected).                                                        *)
Verdicts == {"audited", "rejected"}
Copy == [table : Tables, verdict : Verdicts]

(* at: the step to come.  todo: the manuals after this one; next: its next *)
(* table; attempt: the number of the next call for it; copies: its tables  *)
(* so far; spent: budget.spent_usd.                                        *)
NoBatch ==
    [at |-> "off", force |-> FALSE, todo |-> <<>>, manual |-> FirstManifest[1].id, next |-> 1,
     attempt |-> 1, copies |-> <<>>, spent |-> 0]

BatchAt(step) == batch.at = step
Moves(step) == batch' = [batch EXCEPT !.at = step]
BatchEnds == batch' = NoBatch

TablesHere == TablesOf[batch.manual][pdfs[batch.manual]]
Table == TablesHere[batch.next]
EstimateOfAll == FoldLeft(LAMBDA sum, t : sum + Estimate[t], 0, TablesHere)

(***************************************************************************)
(* One manual after the other                                              *)
(***************************************************************************)
StartBatch(manuals, force) ==
    /\ BatchAt("off")
    /\ \A i \in DOMAIN manuals : manuals[i] \in ManifestIds
    /\ Starts
    /\ batch' = [NoBatch EXCEPT !.at = "manual", !.todo = manuals, !.force = force]
    /\ UNCHANGED <<manifest, pdfs, crashes, answers, symptoms>>

TakeManual ==
    /\ BatchAt("manual") /\ batch.todo # <<>>
    /\ batch' = [batch EXCEPT !.at = "read", !.manual = Head(batch.todo), !.todo = Tail(batch.todo),
                              !.next = 1, !.attempt = 1, !.copies = <<>>]
    /\ UNCHANGED <<fileVars, answers, symptoms>>

Readable == HasPdf(batch.manual) /\ TablesHere # <<>>
Affordable == batch.spent + EstimateOfAll <= Cap

(* No PDF, no tables, or the operator does not confirm: the next manual.   *)
SkipManual ==
    /\ BatchAt("read") /\ pdfs[batch.manual] # Torn
    /\ Readable => Affordable
    /\ Moves("manual")
    /\ UNCHANGED <<fileVars, answers, symptoms>>

BeginManual ==
    /\ BatchAt("read") /\ Readable /\ Affordable
    /\ Moves("table")
    /\ UNCHANGED <<fileVars, answers, symptoms>>

BatchDone ==
    /\ BatchAt("manual") /\ batch.todo = <<>>
    /\ BatchEnds
    /\ UNCHANGED <<fileVars, answers, symptoms>>

(***************************************************************************)
(* extract_table                                                           *)
(***************************************************************************)
MoreTables == BatchAt("table") /\ batch.next <= Len(TablesHere)

(* A cached answer is used only when it parses and passes the audit again. *)
Usable == ~batch.force /\ answers[Table] = "audited"

Copied(verdict) ==
    [batch EXCEPT !.at = "table", !.next = @ + 1, !.attempt = 1,
                  !.copies = Append(@, [table |-> Table, verdict |-> verdict])]

TakeAnswer ==
    /\ MoreTables /\ Usable
    /\ batch' = Copied(answers[Table])
    /\ UNCHANGED <<fileVars, answers, symptoms>>

(* Budget.check: before every call, what it is estimated to cost.          *)
WithinCapAtFirst == batch.attempt > 1 \/ batch.spent + Estimate[Table] <= Cap
WithinCap == batch.spent + Estimate[Table] <= Cap

OneAttemptMore == batch.attempt <= MaxAttempts
AttemptsLeft == batch.attempt < MaxAttempts

(* Budget.record: after the call, what it did cost.  An answer that does   *)
(* not parse, or that the audit rejects, is asked for again; the last one  *)
(* is returned as it is.                                                   *)
AskNova ==
    /\ MoreTables /\ ~Usable /\ WithinCap
    /\ \E cost \in Costs, verdict \in Verdicts :
         LET spent == batch.spent + cost
         IN  batch' = CASE verdict = "audited" -> [batch EXCEPT !.at = "keep", !.spent = spent]
                        [] verdict # "audited" /\ AttemptsLeft ->
                               [batch EXCEPT !.attempt = @ + 1, !.spent = spent]
                        [] OTHER -> [Copied(verdict) EXCEPT !.spent = spent]
    /\ UNCHANGED <<fileVars, answers, symptoms>>

KeepCopy ==
    /\ BatchAt("keep")
    /\ answers' = [answers EXCEPT ![Table] = "audited"]
    /\ batch' = Copied("audited")
    /\ UNCHANGED <<fileVars, symptoms>>

(***************************************************************************)
(* The records of a manual                                                 *)
(***************************************************************************)
SomeAccepted(copies) == \E i \in DOMAIN copies : copies[i].verdict = "audited"
AllAccepted(copies) == \A i \in DOMAIN copies : copies[i].verdict = "audited"

TablesDone == BatchAt("table") /\ batch.next > Len(TablesHere)

NothingWritten ==
    /\ TablesDone /\ ~AllAccepted(batch.copies)
    /\ Moves("manual")
    /\ UNCHANGED <<fileVars, answers, symptoms>>

BuildRecords ==
    /\ TablesDone /\ AllAccepted(batch.copies)
    /\ Moves("merge")
    /\ UNCHANGED <<fileVars, answers, symptoms>>

WithCopies == [symptoms EXCEPT !.of[batch.manual] = batch.copies]

MergeSymptoms ==
    /\ BatchAt("merge") /\ symptoms.file # Torn
    /\ symptoms' = WithCopies
    /\ Moves("manual")
    /\ UNCHANGED <<fileVars, answers>>

(* The run ends: the cap would be passed (BudgetExceeded, or the estimate  *)
(* of a whole manual), Bedrock raises, a first Problem cell is blank, the  *)
(* PDF or the index cannot be read.  Manuals already merged stay.          *)
BatchStops ==
    /\ \/ BatchAt("read") /\ (pdfs[batch.manual] = Torn \/ (Readable /\ ~Affordable))
       \/ MoreTables /\ ~Usable
       \/ TablesDone /\ AllAccepted(batch.copies)
       \/ BatchAt("merge") /\ symptoms.file = Torn
    /\ BatchEnds
    /\ UNCHANGED <<fileVars, answers, symptoms>>

BatchKilled ==
    /\ ~BatchAt("off") /\ Killed
    /\ answers' \in IF BatchAt("keep") THEN {[answers EXCEPT ![Table] = a] : a \in CutWrite(answers[Table], "audited", Torn)}
                    ELSE {answers}
    /\ symptoms' \in IF BatchAt("merge") /\ symptoms.file # Torn
                     THEN CutWrite(symptoms, WithCopies, [symptoms EXCEPT !.file = Torn]) ELSE {symptoms}
    /\ BatchEnds
    /\ UNCHANGED <<manifest, pdfs, runs>>

SymptomInit ==
    /\ \E old \in SUBSET OldAnswers : answers = [t \in Tables |-> IF t \in old THEN "rejected" ELSE NoFile]
    /\ symptoms = [file |-> "kept", of |-> [m \in Manuals |-> <<>>]]
    /\ batch = NoBatch

SymptomNext ==
    \/ \E manuals \in Listings, force \in BOOLEAN : StartBatch(manuals, force)
    \/ TakeManual \/ SkipManual \/ BeginManual \/ BatchDone
    \/ TakeAnswer \/ AskNova \/ KeepCopy
    \/ NothingWritten \/ BuildRecords \/ MergeSymptoms
    \/ BatchStops \/ BatchKilled

SymptomTypeOK ==
    /\ answers \in [Tables -> {NoFile, Torn} \cup Verdicts]
    /\ symptoms.file \in {Torn, "kept"} /\ symptoms.of \in [Manuals -> Seq(Copy)]
    /\ batch.at \in {"off", "manual", "read", "table", "keep", "merge"}
    /\ batch.todo \in Seq(Manuals) /\ batch.manual \in Manuals /\ batch.copies \in Seq(Copy)
    /\ batch.attempt \in 1 .. MaxAttempts /\ batch.next \in Nat /\ batch.spent \in Nat

(***************************************************************************)
(* Properties                                                              *)
(***************************************************************************)
(* "A manual's records are written only if every one of its tables passed":*)
(* what symptoms.json holds of a manual are all the tables of one version  *)
(* of it, in page order, each of them audited; whatever the model answers, *)
(* whatever the cache held, and wherever a run was stopped.                *)
OnlyAuditedSymptoms ==
    \A m \in Manuals :
        symptoms.of[m] # <<>> =>
            \E v \in Versions :
                symptoms.of[m] = [i \in DOMAIN TablesOf[m][v] |-> [table |-> TablesOf[m][v][i], verdict |-> "audited"]]

(* The cap is checked against an estimate before each call and the cost is *)
(* known after it: retries included, a run passes its cap by at most what  *)
(* one call costs more than the least that a call was estimated to cost.   *)
PassesCapByOneCall ==
    batch.spent > 0 => \E t \in Tables, cost \in Costs : batch.spent <= Cap - Estimate[t] + cost

================================================================================
