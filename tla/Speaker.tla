-------------------------------- MODULE Speaker --------------------------------
(***************************************************************************)
(* POST /speak (demo/speech.py): concurrent requests share one character   *)
(* budget of the process and one cache of synthesized replies.  Polly runs *)
(* in a thread that nothing can stop: when the guard's time is over, or    *)
(* the request is cancelled, the thread goes on.                           *)
(***************************************************************************)
EXTENDS Integers, FiniteSets, FiniteSetsExt

CONSTANTS
    Requests,    \* the POST /speak requests
    Texts,       \* the replies the page may ask for
    Length,      \* the length of each text, after strip()
    RequestMax,  \* polly_request_max_chars
    Budget       \* polly_max_chars

ASSUME SpeakerAssumption ==
    /\ IsFiniteSet(Requests)
    /\ Length \in [Texts -> Nat \ {0}]
    /\ RequestMax \in Nat
    /\ Budget \in Nat

VARIABLES
    pc,      \* where each request is suspended
    reply,   \* what it answered
    text,    \* the text it asks for
    thread,  \* the thread that runs _synthesize for it
    chars,   \* chars_synthesized
    cache    \* the texts with an audio file in the cache directory

vars == <<pc, reply, text, thread, chars, cache>>

Replies == {"none", "hit", "miss", "text_too_long", "speech_budget_exhausted",
            "speech_failed", "cancelled"}

Answer(r, a) ==
    /\ pc' = [pc EXCEPT ![r] = "done"]
    /\ reply' = [reply EXCEPT ![r] = a]

FitsAlone(r) == Length[text[r]] <= Budget
Fits(r) == chars + Length[text[r]] <= Budget

(* speak() up to its await is one step of the event loop.                  *)
QuickAnswer(r) ==
    IF Length[text[r]] > RequestMax THEN "text_too_long"
    ELSE IF text[r] \in cache THEN "hit"
    ELSE IF ~Fits(r) THEN "speech_budget_exhausted"
    ELSE "none"

AnswerAtOnce(r) ==
    /\ pc[r] = "new" /\ QuickAnswer(r) # "none"
    /\ Answer(r, QuickAnswer(r))
    /\ UNCHANGED <<text, thread, chars, cache>>

(* "Reserve before the call so concurrent requests cannot overshoot".      *)
StartSynthesis(r) ==
    /\ pc[r] = "new" /\ QuickAnswer(r) = "none"
    /\ chars' = chars + Length[text[r]]
    /\ thread' = [thread EXCEPT ![r] = "running"]
    /\ pc' = [pc EXCEPT ![r] = "polly"]
    /\ UNCHANGED <<reply, text, cache>>

(* Polly synthesizes, and bills, the text, or fails.                       *)
PollyAnswers(r) ==
    /\ thread[r] = "running"
    /\ \E end \in {"billed", "failed"} : thread' = [thread EXCEPT ![r] = end]
    /\ UNCHANGED <<pc, reply, text, chars, cache>>

(* The audio is written to the cache, if the disk takes it.                *)
Spoken(r) ==
    /\ pc[r] = "polly" /\ thread[r] = "billed"
    /\ cache' \in {cache, cache \cup {text[r]}}
    /\ Answer(r, "miss")
    /\ UNCHANGED <<text, thread, chars>>

(* The except clause gives the characters back ...                         *)
RefundTwice(r) == chars' = chars - 2 * Length[text[r]]
Refund(r) == chars' = chars - Length[text[r]]

SpeechFails(r) ==
    /\ Answer(r, "speech_failed")
    /\ Refund(r)
    /\ UNCHANGED <<text, thread, cache>>

SynthesisFails(r) ==
    /\ pc[r] = "polly" /\ thread[r] = "failed"
    /\ SpeechFails(r)

(* ... also when the guard expires, whatever the thread does: botocore's   *)
(* own timeouts, of the connection and of each read, may add up to more.   *)
GuardOnlyStalls(r) == pc[r] = "polly" /\ thread[r] = "billed"
GuardDue(r) == pc[r] = "polly"

GuardExpires(r) ==
    /\ GuardDue(r)
    /\ SpeechFails(r)

(* CancelledError is no Exception: nothing is given back.                  *)
Cancel(r) ==
    /\ pc[r] = "polly"
    /\ Answer(r, "cancelled")
    /\ UNCHANGED <<text, thread, chars, cache>>

AllAnswered == (\A r \in Requests : pc[r] = "done") /\ UNCHANGED vars

Init ==
    /\ pc = [r \in Requests |-> "new"]
    /\ reply = [r \in Requests |-> "none"]
    /\ text \in [Requests -> Texts]
    /\ thread = [r \in Requests |-> "none"]
    /\ chars = 0
    /\ cache \in SUBSET Texts

RequestStep(r) ==
    \/ AnswerAtOnce(r) \/ StartSynthesis(r)
    \/ Spoken(r) \/ SynthesisFails(r) \/ GuardExpires(r) \/ Cancel(r)

Next ==
    \/ \E r \in Requests : RequestStep(r) \/ PollyAnswers(r)
    \/ AllAnswered

Spec == Init /\ [][Next]_vars

TypeOK ==
    /\ pc \in [Requests -> {"new", "polly", "done"}]
    /\ reply \in [Requests -> Replies]
    /\ text \in [Requests -> Texts]
    /\ thread \in [Requests -> {"none", "running", "billed", "failed"}]
    /\ chars \in Nat
    /\ cache \subseteq Texts

(***************************************************************************)
(* Properties                                                              *)
(***************************************************************************)
Chars(requests) == MapThenSumSet(LAMBDA r : Length[text[r]], requests)

(* Concurrent requests never overshoot the budget together, and refunds    *)
(* never make room that was not there: the characters charged are those    *)
(* of the calls in flight, of the replies spoken and of the cancelled.     *)
ChargedWithinBudget ==
    /\ chars = Chars({r \in Requests : pc[r] = "polly" \/ reply[r] \in {"miss", "cancelled"}})
    /\ chars <= Budget

(* A request ends although Polly may never answer it.                      *)
SpeakEnds == \A r \in Requests : pc[r] = "polly" ~> pc[r] = "done"

(* demo/speech.py: "a per-process character budget with a hard stop",      *)
(* because "every synthesized character is billed".                        *)
BilledWithinBudget == Chars({r \in Requests : thread[r] = "billed"}) <= Budget

================================================================================
