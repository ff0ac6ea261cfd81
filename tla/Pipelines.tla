------------------------------- MODULE Pipelines -------------------------------
(***************************************************************************)
(* The scripts that build the index, run by one operator, one at a time,   *)
(* over the manifest and the PDFs they share.                              *)
(***************************************************************************)
EXTENDS CodeExtraction, SymptomExtraction

vars == <<fileVars, codeVars, symptomVars>>

Init == FilesInit /\ CodeInit /\ SymptomInit

Next ==
    \/ /\ ToolAt("off") /\ BatchAt("off")
       /\ \E m \in Manuals : Fetch(m) \/ FetchKilled(m)
       /\ UNCHANGED <<codeVars, symptomVars>>
    \/ BatchAt("off") /\ CodeNext /\ UNCHANGED symptomVars
    \/ ToolAt("off") /\ SymptomNext /\ UNCHANGED codeVars

Spec == Init /\ [][Next]_vars

TypeOK == FilesTypeOK /\ CodeTypeOK /\ SymptomTypeOK

================================================================================
