\* Two messages and two conversations; no other page asks for speech.
SPECIFICATION PageFairSpec
CONSTANTS
    Requests = {1, 2}
    Messages = {1, 2}
    MaxConversations = 2
    Texts <- MCTexts
    Length <- MCLength
    RequestMax = 8
    Budget = 3
INVARIANTS
    PageTypeOK
    ChargedWithinBudget
    VoiceIsTheLastReply
    RefusedOnlyAfterGivingUp
PROPERTIES
    SpeakEnds
    PageNeverStuck
    EveryReplyVoiced
