\* Two manuals of one series, with the same code table.
SPECIFICATION Spec
CONSTANTS
    Manuals <- MCManuals
    Products <- MCProducts
    Versions <- MCVersions
    FirstManifest <- MCFirstManifest
    Chunks <- MCChunks
    CandidatesOf <- FamilyCandidatesOf
    Extractors <- MCExtractors
    FirstIndex <- MCFirstIndex
    Tables <- MCTables
    TablesOf <- MCTablesOf
    Estimate <- MCEstimate
    Costs = {1, 3}
    OldAnswers = {"t1"}
    Cap = 5
    MaxAttempts = 3
    MaxListed = 2
    MaxRuns = 3
    MaxCrashes = 0
CHECK_DEADLOCK FALSE
PROPERTIES
    OthersUntouched
