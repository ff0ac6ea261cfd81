\* Safety of the turn: three requests, so that a turn can follow a failed one
\* and a cut-off one, one tool per round in two rounds.
SPECIFICATION Spec
CONSTANTS
    Requests = {r1, r2, r3}
    Tools <- MCTools
    IdempotentTools <- MCIdempotentTools
    CardTools <- MCCardTools
    MaxRounds = 2
    MaxUses = 1
    MaxFaults = 1
SYMMETRY RequestSymmetry
VIEW RelevantState
INVARIANTS
    TypeOK
    AddedAtMostOnce
    AnsweredMeansSettled
    EveryRequestAccepted
    OnlyRepliedTurnsRemembered
    RefusedSessionNotReused
    TimedOutSessionNotReused
    NoSessionLeaked
