\* Every accepted turn is answered, provided that sessions open.  One request:
\* the turn lock lets no other request of the session run beside it.
SPECIFICATION OpeningFairSpec
CONSTANTS
    Requests = {r1}
    Tools <- MCTools
    IdempotentTools <- MCIdempotentTools
    CardTools <- MCCardTools
    MaxRounds = 2
    MaxUses = 2
    MaxFaults = 2
PROPERTIES
    TurnEnds
