\* Without the assumption that sessions open, a turn can wait for ever.
SPECIFICATION FairSpec
CONSTANTS
    Requests = {r1}
    Tools <- MCTools
    IdempotentTools <- MCIdempotentTools
    CardTools <- MCCardTools
    MaxRounds = 1
    MaxUses = 1
    MaxFaults = 0
PROPERTIES
    TurnNeverHangs
