---------------------------------- MODULE Page ----------------------------------
(***************************************************************************)
(* The demo page (demo/static/index.html) against POST /chat and the       *)
(* POST /speak of module Speaker: one message in flight, conversations     *)
(* that the customer may leave, replies spoken by Polly or by the          *)
(* browser.  The backend is what the page sees of it: a turn goes on when  *)
(* the page has given up on it, and a second turn of its conversation is   *)
(* refused meanwhile.                                                      *)
(*                                                                         *)
(* createSpeaker compares tokens only for equality, and a message is       *)
(* spoken once: `live` names the message that holds the current token.     *)
(* The requests that are no message of this page are other pages'.         *)
(***************************************************************************)
EXTENDS Speaker

CONSTANTS
    Messages,          \* the messages of this page, numbered as they are sent
    MaxConversations   \* bound: the conversations the customer begins

ASSUME PageAssumption ==
    /\ Messages \subseteq Requests \cap (Nat \ {0})
    /\ MaxConversations \in Nat

VARIABLES
    sessionId,    \* the conversation on the screen
    pending,      \* the message in flight, 0 when there is none
    recognizing,  \* the microphone
    session,      \* the session_id each message was sent with, 0: not sent
    bubble,       \* what the page shows as the answer to each message
    shown,        \* the messages on the screen
    chat,         \* what the backend made of each POST /chat
    polly,        \* whether the backend has Polly switched on
    muted, disabled, live,
    current,      \* the message whose audio is state.current, 0: none
    voice,        \* how far speak() is with each reply
    sounding      \* what the customer hears: <<"audio" | "browser", message>>

screen == <<sessionId, pending, recognizing, session, bubble, shown>>
speaker == <<muted, disabled, live, current, voice, sounding>>
pageVars == <<vars, screen, chat, polly, speaker>>

Heard(kind, m) == <<kind, m>>
Audible == {"audio", "browser"} \X Messages

(***************************************************************************)
(* createSpeaker                                                           *)
(***************************************************************************)

(* release(): pausing an audio silences it; if it has not begun to play,   *)
(* its play() will reject.                                                 *)
Released(heard) == heard \ {Heard("audio", current)}

(* stop(): the token moves on, and both voices fall silent.                *)
StopKeepsToken ==
    /\ UNCHANGED live
    /\ current' = 0
    /\ sounding' = {}
Stop ==
    /\ live' = 0
    /\ current' = 0
    /\ sounding' = {}

BrowserSpeaks(m) == sounding' = {v \in Released(sounding) : v[1] = "audio"} \cup {Heard("browser", m)}

(* fallback(), once per reply and only for the current token.              *)
Fallback(m) ==
    /\ voice' = [voice EXCEPT ![m] = "fallen"]
    /\ IF voice[m] = "fallen" \/ live # m \/ muted
       THEN UNCHANGED <<current, sounding>>
       ELSE current' = 0 /\ BrowserSpeaks(m)
    /\ UNCHANGED <<muted, live>>

(* speak() of a reply, up to its fetch.                                    *)
Speak(m) ==
    IF muted THEN UNCHANGED speaker
    ELSE /\ live' = m
         /\ current' = 0
         /\ sounding' = IF disabled THEN {Heard("browser", m)} ELSE {}
         /\ voice' = [voice EXCEPT ![m] = IF disabled THEN "fallen" ELSE "fetching"]
         /\ UNCHANGED <<muted, disabled>>

(* The fetch ends in an audio file ...                                     *)
Obsolete(m) == live # m \/ muted

AudioArrives(m) ==
    /\ voice[m] = "fetching" /\ reply[m] \in {"hit", "miss"}
    /\ IF Obsolete(m)
       THEN voice' = [voice EXCEPT ![m] = "over"] /\ UNCHANGED current
       ELSE voice' = [voice EXCEPT ![m] = "loaded"] /\ current' = m
    /\ UNCHANGED <<muted, disabled, live, sounding>>

(* ... in a status that has none, after which a page without Polly asks no *)
(* more, or in no answer at all ...                                        *)
SilentFailure(m) == voice[m] = "fetching" /\ UNCHANGED speaker
NoAudio(m) ==
    /\ voice[m] = "fetching"
    /\ polly => pc[m] = "done" /\ reply[m] \notin {"hit", "miss"}
    /\ disabled' = (disabled \/ ~polly)
    /\ Fallback(m)

ConnectionFails(m) ==
    /\ voice[m] = "fetching"
    /\ UNCHANGED disabled
    /\ Fallback(m)

(* ... and the audio plays, fails at once or later, or ends.               *)
AudioStarts(m) ==
    /\ voice[m] = "loaded" /\ current = m
    /\ voice' = [voice EXCEPT ![m] = "playing"]
    /\ sounding' = sounding \cup {Heard("audio", m)}
    /\ UNCHANGED <<muted, disabled, live, current>>

AudioFails(m) ==
    /\ voice[m] \in {"loaded", "playing"}
    /\ UNCHANGED disabled
    /\ Fallback(m)

AudioEnds(m) ==
    /\ Heard("audio", m) \in sounding
    /\ voice' = [voice EXCEPT ![m] = "over"]
    /\ current' = IF current = m THEN 0 ELSE current
    /\ sounding' = sounding \ {Heard("audio", m)}
    /\ UNCHANGED <<muted, disabled, live>>

BrowserEnds(m) ==
    /\ Heard("browser", m) \in sounding
    /\ sounding' = sounding \ {Heard("browser", m)}
    /\ UNCHANGED <<muted, disabled, live, current, voice>>

SpeakerStep(m) ==
    /\ \/ AudioArrives(m) \/ NoAudio(m) \/ ConnectionFails(m)
       \/ AudioStarts(m) \/ AudioFails(m) \/ AudioEnds(m) \/ BrowserEnds(m)
    /\ UNCHANGED <<vars, screen, chat, polly>>

(***************************************************************************)
(* POST /chat                                                              *)
(***************************************************************************)
NeverBusy == FALSE
Busy == pending # 0

(* sendMessage(): the next message goes out, with the page's session_id.   *)
IsNext(m) == session[m] = 0 /\ \A n \in Messages : session[n] = 0 => m <= n

Send(m) ==
    /\ pending' = m
    /\ session' = [session EXCEPT ![m] = sessionId]
    /\ bubble' = [bubble EXCEPT ![m] = "thinking"]
    /\ shown' = shown \cup {m}
    /\ chat' = [chat EXCEPT ![m] = "sent"]
    /\ UNCHANGED sessionId

Type(m) ==
    /\ pending = 0 /\ IsNext(m)
    /\ Send(m)
    /\ UNCHANGED recognizing

(* The microphone's button is disabled while a message is in flight, but   *)
(* what it began to hear before may end later, and is dropped.             *)
Listen ==
    /\ ~recognizing /\ pending = 0
    /\ recognizing' = TRUE
    /\ UNCHANGED <<sessionId, pending, session, bubble, shown, chat>>

Hear(m) ==
    /\ recognizing /\ IsNext(m)
    /\ recognizing' = FALSE
    /\ IF Busy THEN UNCHANGED <<sessionId, pending, session, bubble, shown, chat>> ELSE Send(m)

StopListening ==
    /\ recognizing
    /\ recognizing' = FALSE
    /\ UNCHANGED <<sessionId, pending, session, bubble, shown, chat>>

(* The backend: one turn of a conversation at a time.                      *)
TurnBegins(m) ==
    /\ chat[m] = "sent"
    /\ LET locked == \E n \in Messages : chat[n] = "running" /\ session[n] = session[m]
       IN  chat' = [chat EXCEPT ![m] = IF locked THEN "in_progress" ELSE "running"]
    /\ UNCHANGED screen

TurnEnds(m) ==
    /\ chat[m] = "running"
    /\ \E end \in {"reply", "empty", "failed"} : chat' = [chat EXCEPT ![m] = end]
    /\ UNCHANGED screen

(* The last then(): the page is ready for another message.                 *)
SettleReplies(m, outcome) ==
    /\ bubble' = [bubble EXCEPT ![m] = outcome]
    /\ pending' = IF outcome \in {"reply", "empty"} THEN 0 ELSE pending
    /\ UNCHANGED <<sessionId, recognizing, session, shown>>
Settle(m, outcome) ==
    /\ bubble' = [bubble EXCEPT ![m] = outcome]
    /\ pending' = 0
    /\ UNCHANGED <<sessionId, recognizing, session, shown>>

ReplyArrives(m) ==
    /\ pending = m /\ chat[m] \in {"reply", "empty"}
    /\ Settle(m, chat[m])
    /\ IF chat[m] = "empty" THEN UNCHANGED speaker ELSE Speak(m)

ErrorArrives(m) ==
    /\ pending = m /\ chat[m] \in {"failed", "in_progress"}
    /\ Settle(m, "error")

(* The fetch rejects: aborted after REQUEST_TIMEOUT_MS, or disconnected.   *)
GiveUp(m) ==
    /\ pending = m
    /\ Settle(m, "given_up")

(***************************************************************************)
(* The buttons                                                             *)
(***************************************************************************)
NewConversation ==
    /\ pending = 0 /\ sessionId < MaxConversations
    /\ Stop
    /\ sessionId' = sessionId + 1
    /\ shown' = {}
    /\ UNCHANGED <<pending, recognizing, session, bubble, muted, disabled, voice>>

Mute ==
    /\ muted' = ~muted
    /\ IF muted THEN UNCHANGED <<live, current, sounding>> ELSE Stop
    /\ UNCHANGED <<disabled, voice, screen>>

(***************************************************************************)
(* The page and the backend                                                *)
(***************************************************************************)
Posted(r) == r \in Messages => voice[r] # "none"

ServerStep(r) ==
    /\ polly /\ Posted(r)
    /\ RequestStep(r) \/ PollyAnswers(r)
    /\ UNCHANGED <<screen, chat, polly, speaker>>

ChatStep(m) ==
    /\ \/ Type(m) \/ Hear(m) \/ TurnBegins(m) \/ TurnEnds(m)
    /\ UNCHANGED <<vars, polly, speaker>>

AnswerStep(m) ==
    /\ \/ ReplyArrives(m)
       \/ (ErrorArrives(m) \/ GiveUp(m)) /\ UNCHANGED speaker
    /\ UNCHANGED <<vars, chat, polly>>

ButtonStep ==
    /\ \/ (Listen \/ StopListening) /\ UNCHANGED speaker
       \/ (NewConversation \/ Mute) /\ UNCHANGED chat
    /\ UNCHANGED <<vars, polly>>

PageInit ==
    /\ Init
    /\ sessionId = 1 /\ pending = 0 /\ recognizing = FALSE
    /\ session = [m \in Messages |-> 0]
    /\ bubble = [m \in Messages |-> "none"]
    /\ shown = {}
    /\ chat = [m \in Messages |-> "none"]
    /\ polly \in BOOLEAN
    /\ muted = FALSE /\ disabled = FALSE /\ live = 0 /\ current = 0
    /\ voice = [m \in Messages |-> "none"]
    /\ sounding = {}

PageNext ==
    \/ \E r \in Requests : ServerStep(r)
    \/ \E m \in Messages : ChatStep(m) \/ AnswerStep(m) \/ SpeakerStep(m)
    \/ ButtonStep

PageSpec == PageInit /\ [][PageNext]_pageVars

(* The abort timer fires; what is posted to /speak is taken up and, once   *)
(* its thread or its guard lets it, answered; its answer is read and what  *)
(* play() promised is settled.  Nothing is assumed of the backend's turns, *)
(* of Polly or of the customer.                                            *)
PageFairSpec ==
    /\ PageSpec
    /\ \A r \in Requests :
        /\ WF_pageVars(ServerStep(r) /\ (AnswerAtOnce(r) \/ StartSynthesis(r)))
        /\ WF_pageVars(ServerStep(r) /\ (Spoken(r) \/ SynthesisFails(r) \/ GuardExpires(r)))
    /\ \A m \in Messages :
        /\ WF_pageVars(AnswerStep(m) /\ GiveUp(m))
        /\ WF_pageVars(SpeakerStep(m) /\ (AudioArrives(m) \/ NoAudio(m)))
        /\ WF_pageVars(SpeakerStep(m) /\ (AudioStarts(m) \/ AudioFails(m)))

PageTypeOK ==
    /\ TypeOK
    /\ sessionId \in Nat \ {0}
    /\ pending \in Messages \cup {0}
    /\ session \in [Messages -> Nat]
    /\ bubble \in [Messages -> {"none", "thinking", "reply", "empty", "error", "given_up"}]
    /\ shown \subseteq Messages
    /\ chat \in [Messages -> {"none", "sent", "running", "in_progress", "reply", "empty", "failed"}]
    /\ {recognizing, polly, muted, disabled} \subseteq BOOLEAN
    /\ {live, current} \subseteq Messages \cup {0}
    /\ voice \in [Messages -> {"none", "fetching", "loaded", "playing", "fallen", "over"}]
    /\ sounding \subseteq Audible

(***************************************************************************)
(* Properties                                                              *)
(***************************************************************************)

(* The customer hears one voice at most, never on a muted page, never of a *)
(* conversation that was left, and never of a reply that a later one has   *)
(* replaced, in whatever order the answers of /speak and the failures of   *)
(* the players arrive.                                                     *)
VoiceIsTheLastReply ==
    /\ Cardinality(sounding) <= 1
    /\ \A v \in sounding :
        /\ ~muted
        /\ v[2] \in shown
        /\ \A m \in Messages : bubble[m] = "reply" => m <= v[2]

(* "a second message can never be sent into the same session": a turn is   *)
(* refused as one too many only in a conversation in which the page has    *)
(* given up on a message and the backend has not.                          *)
RefusedOnlyAfterGivingUp ==
    \A m \in Messages : chat[m] = "in_progress" =>
        \E n \in Messages : session[n] = session[m] /\ bubble[n] = "given_up"

(* "Never spin forever", although the backend may never answer.            *)
PageNeverStuck == pending # 0 ~> pending = 0

(* A reply that Polly cannot speak is spoken by the browser: one that is   *)
(* asked for is heard, unless something newer or the customer stops it.    *)
EveryReplyVoiced ==
    \A m \in Messages :
        voice[m] = "fetching" ~> (live # m \/ \E v \in sounding : v[2] = m)

================================================================================
