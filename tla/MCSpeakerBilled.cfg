\* Polly may bill a reply after its guard has expired.
SPECIFICATION Spec
CONSTANTS
    Requests = {r1, r2, r3}
    Texts <- MCTexts
    Length <- MCLength
    RequestMax = 8
    Budget = 4
INVARIANTS
    BilledWithinBudget
