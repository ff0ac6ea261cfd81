\* Crashes and failed calls only: two conversations, restarts, two cleanups.
SPECIFICATION Spec
CONSTANTS
    Sessions = {s1, s2}
    HouseholdIds = {h1, h2, h3}
    Foreign = house
    Seeds <- MCSeeds
    Hazards = {}
    MaxCopies = 2
SYMMETRY HouseholdSymmetry
INVARIANTS
    TypeOK
    EveryHouseholdCleanable
    NoDuplicateSeeds
    SeededMeansComplete
    ForeignUntouched
