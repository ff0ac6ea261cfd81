\* The scripts in any order, three started and one of them killed.
SPECIFICATION Spec
CONSTANTS
    Manuals <- MCManuals
    Products <- MCProducts
    Versions <- MCVersions
    FirstManifest <- MCFirstManifest
    Chunks <- MCChunks
    CandidatesOf <- MCCandidatesOf
    Extractors <- MCExtractors
    FirstIndex <- MCFirstIndex
    Tables <- MCTables
    TablesOf <- MCTablesOf
    Estimate <- MCEstimate
    Costs = {1, 3}
    OldAnswers = {"t1"}
    Cap = 5
    MaxAttempts = 3
    MaxListed = 2
    MaxRuns = 3
    MaxCrashes = 1
CHECK_DEADLOCK FALSE
INVARIANTS
    TypeOK
    OneEntryPerManual
    IndexedIsInManifest
    BoughtOnce
    ExtractorsNeverMix
    OnlyAuditedSymptoms
    PassesCapByOneCall
PROPERTIES
    OthersUntouched
    IndexIsWhatWasRead
