\* A listing that answers isError.
SPECIFICATION Spec
CONSTANTS
    Sessions = {s1}
    HouseholdIds = {h1}
    Foreign = house
    Seeds <- MCSeeds
    Hazards = {"list_error"}
    MaxCopies = 2
SYMMETRY HouseholdSymmetry
INVARIANTS
    NoDuplicateSeeds
