\* An appliance that is registered is said not to be.
SPECIFICATION Spec
CONSTANTS
    Manuals <- MCManuals
    Codes = {"E1", "E2"}
    LongCodes = {}
    Alike <- MCAlike
    Vocabulary <- MCVocabulary
    Stem <- MCStem
    Synonyms <- MCSynonyms
    Determiners = {"the"}
    Negations = {"not"}
    Stopwords = {}
    Fillers = {"really"}
    TypeWords <- MCTypeWords
    TypePairs <- MCTypePairs
    Phrases <- MCPhrases
    OneEdit <- MCOneEdit
    Idf <- MCIdf
    MinMatched = 2
    MaxMatches = 1
    MaxNearest = 2
    DistinctiveMax = 1
    Files <- MCFiles
    Canonical <- MCCanonical
    Strip <- MCStrip
    Products <- MCProducts
    Seed <- MCSeed
    Descriptions <- MCDescriptions
    GenericTerms = {"operate"}
    Ids <- MCIds
    LastDay = 2
INVARIANT NeverDisowned
