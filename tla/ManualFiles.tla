------------------------------ MODULE ManualFiles ------------------------------
(***************************************************************************)
(* The files the operator's scripts share: the manifest of manuals         *)
(* (data/manuals/manifest.yaml, committed) and the PDFs (data/manuals/pdf, *)
(* not committed).  A script may be killed at any step; what it has        *)
(* written stays, and a file it was writing may be left cut short.         *)
(***************************************************************************)
EXTENDS Keeping, SequencesExt

CONSTANTS
    Manuals,        \* manual ids
    Products,       \* brand and model of an appliance
    Versions,       \* the PDFs that a manual's URL may serve, one after the other
    FirstManifest,  \* the manifest in the repository
    MaxListed,      \* bound: manuals named on a script's command line
    MaxRuns,        \* bound: scripts started
    MaxCrashes      \* bound: scripts killed

VARIABLES
    manifest,    \* the entries of manifest.yaml, in order
    pdfs,        \* per manual: the version kept, or NoFile, or Torn
    runs,        \* scripts started
    crashes      \* scripts killed

fileVars == <<manifest, pdfs, runs, crashes>>

NoFile == "none"
Torn == "torn"

Entries == [id : Manuals, product : Products]

ASSUME FilesAssumption ==
    /\ IsFiniteSet(Manuals)
    /\ FirstManifest \in Seq(Entries) /\ FirstManifest # <<>>
    /\ \A i, j \in DOMAIN FirstManifest :
         i # j => /\ FirstManifest[i].id # FirstManifest[j].id
                  /\ FirstManifest[i].product # FirstManifest[j].product
    /\ MaxListed \in Nat /\ MaxRuns \in Nat /\ MaxCrashes \in Nat

(* --manual, which may be given several times, one manual also twice.      *)
Listings == SeqOf(Manuals, MaxListed) \ {<<>>}

ManifestIds == {manifest[i].id : i \in DOMAIN manifest}
HasPdf(m) == pdfs[m] \notin {NoFile, Torn}

(* Everything a write may leave behind when it is cut: the file as it was, *)
(* the whole new content, or what an interrupted write_text leaves.        *)
CutWrite(before, after, cut) == {before, after, cut}

Starts == runs < MaxRuns /\ runs' = runs + 1
Killed == crashes < MaxCrashes /\ crashes' = crashes + 1

(* fetch_manuals.py on one entry: a PDF that is there and readable is      *)
(* skipped unless --force is given, a torn one is downloaded again.  A     *)
(* download that fails leaves the file alone, or none when what came is    *)
(* no PDF after all.                                                       *)
Download(m) == \E v \in Versions : pdfs' = [pdfs EXCEPT ![m] = v]

DownloadFails(m) == pdfs' \in {pdfs, [pdfs EXCEPT ![m] = NoFile]}

Fetch(m) ==
    /\ m \in ManifestIds
    /\ Starts
    /\ \E force \in BOOLEAN :
         IF HasPdf(m) /\ ~force THEN UNCHANGED pdfs
         ELSE Download(m) \/ DownloadFails(m)
    /\ UNCHANGED <<manifest, crashes>>

FetchKilled(m) ==
    /\ m \in ManifestIds
    /\ Starts /\ Killed
    /\ pdfs' = [pdfs EXCEPT ![m] = Torn]
    /\ UNCHANGED manifest

FilesInit ==
    /\ manifest = FirstManifest
    /\ pdfs = [m \in Manuals |-> NoFile]
    /\ runs = 0
    /\ crashes = 0

FilesTypeOK ==
    /\ manifest \in Seq(Entries)
    /\ pdfs \in [Manuals -> Versions \cup {NoFile, Torn}]
    /\ runs \in 0 .. MaxRuns
    /\ crashes \in 0 .. MaxCrashes

================================================================================
