------------------------------- MODULE PageProofs -------------------------------
(***************************************************************************)
(* Safety of Speaker and of Page, for any number of requests, messages and *)
(* conversations and any texts: the character budget, the one voice the    *)
(* customer hears, and the turn that is refused as one too many.           *)
(***************************************************************************)
EXTENDS Page, Induction

(***************************************************************************)
(* The characters charged: Chars is a sum, whatever the order it takes     *)
(***************************************************************************)
Weights(t) == [r \in Requests |-> Length[t[r]]]

(* Chars, of the texts t.                                                  *)
CharsOf(t, S) == (CHOOSE g : Sums(g, Weights(t), S))[S]

LEMMA WeightsType ==
  ASSUME NEW t \in [Requests -> Texts]
  PROVE  Weights(t) \in [Requests -> Nat]
BY SpeakerAssumption DEF Weights

LEMMA CharsIsASum ==
  ASSUME NEW S \in SUBSET Requests
  PROVE  Chars(S) = CharsOf(text, S)
<1> DEFINE w == Weights(text)
           Iter(g) == g = [s \in SUBSET S |->
                              IF s = {} THEN 0
                              ELSE Length[text[CHOOSE x \in s : TRUE]] + g[s \ {CHOOSE x \in s : TRUE}]]
<1>1. Chars(S) = (CHOOSE g : Iter(g))[S]
  BY DEF Chars, MapThenSumSet, MapThenFoldSet
<1>2. ASSUME NEW s \in SUBSET S, s # {}
      PROVE  w[CHOOSE x \in s : TRUE] = Length[text[CHOOSE x \in s : TRUE]]
  <2>1. (CHOOSE x \in s : TRUE) \in Requests
    BY <1>2
  <2> QED
    BY <2>1 DEF Weights
<1>3. ASSUME NEW g
      PROVE  Iter(g) <=> Sums(g, w, S)
  <2> HIDE DEF w
  <2> QED
    BY <1>2 DEF Sums, SumStep
<1>4. (CHOOSE g : Iter(g)) = (CHOOSE g : Sums(g, w, S))
  <2> HIDE DEF w, Iter
  <2> QED
    BY <1>3
<1> QED
  BY <1>1, <1>4 DEF CharsOf

LEMMA CharsAdd ==
  ASSUME NEW t \in [Requests -> Texts]
  PROVE  /\ \A S \in SUBSET Requests : CharsOf(t, S) \in Nat
         /\ CharsOf(t, {}) = 0
         /\ \A S \in SUBSET Requests : \A r \in Requests \ S :
               CharsOf(t, S \cup {r}) = CharsOf(t, S) + Length[t[r]]
<1> DEFINE w == Weights(t)
<1>0. w \in [Requests -> Nat] /\ IsFiniteSet(Requests)
  BY WeightsType, SpeakerAssumption
<1>r. \A r \in Requests : w[r] = Length[t[r]]
  BY DEF Weights
<1> HIDE DEF w
<1>1. PICK g \in [SUBSET Requests -> Nat] : Sums(g, w, Requests)
  BY <1>0, SumExists
<1>2. ASSUME NEW S \in SUBSET Requests
      PROVE  CharsOf(t, S) = g[S]
  <2>1. IsFiniteSet(S)
    BY <1>0, FS_Subset
  <2> DEFINE v == [r \in S |-> w[r]]
             f == CHOOSE h : Sums(h, w, S)
  <2>2. v \in [S -> Nat]
    BY <1>0
  <2>3. \E h : Sums(h, w, S)
    <3>1. PICK h \in [SUBSET S -> Nat] : Sums(h, v, S)
      <4> HIDE DEF v
      <4> QED
        BY <2>1, <2>2, SumExists
    <3>2. \A s \in SUBSET S : SumStep(h, v, s) = SumStep(h, w, s)
      BY DEF SumStep
    <3>3. Sums(h, w, S)
      BY <3>1, <3>2 DEF Sums
    <3> QED
      BY <3>3
  <2>4. Sums(f, w, S)
    BY <2>3
  <2>5. CharsOf(t, S) = f[S]
    BY DEF CharsOf, w
  <2> HIDE DEF f
  <2>6. f[S] = g[S]
    BY <1>0, <1>1, <2>4, SumUnique
  <2> QED
    BY <2>5, <2>6
<1>3. /\ g[{}] = 0
      /\ \A T \in SUBSET Requests : \A x \in Requests \ T : g[T \cup {x}] = g[T] + w[x]
  BY <1>0, <1>1, SumAdds
<1>4. {} \in SUBSET Requests /\ \A S \in SUBSET Requests : \A r \in Requests : S \cup {r} \in SUBSET Requests
  OBVIOUS
<1> QED
  BY <1>r, <1>1, <1>2, <1>3, <1>4

(***************************************************************************)
(* The budget                                                              *)
(***************************************************************************)
Charged == {r \in Requests : pc[r] = "polly" \/ reply[r] \in {"miss", "cancelled"}}

SpeakerInv ==
    /\ TypeOK
    /\ chars = CharsOf(text, Charged)
    /\ chars <= Budget
    /\ \A r \in Requests : pc[r] # "done" => reply[r] = "none"

LEMMA SpeakerInit == Init => SpeakerInv
<1> SUFFICES ASSUME Init PROVE SpeakerInv
  OBVIOUS
<1>1. TypeOK
  BY DEF Init, TypeOK, Replies
<1>2. Charged = {}
  BY DEF Init, Charged
<1>3. CharsOf(text, {}) = 0
  BY <1>1, CharsAdd DEF TypeOK
<1> QED
  BY <1>1, <1>2, <1>3, SpeakerAssumption DEF Init, SpeakerInv

(* What a request is charged it keeps, or gives back.                      *)
LEMMA BudgetStep ==
  ASSUME SpeakerInv, NEW r \in Requests, RequestStep(r) \/ PollyAnswers(r)
  PROVE  SpeakerInv'
<1>1. /\ pc = [q \in Requests |-> pc[q]] /\ reply = [q \in Requests |-> reply[q]]
      /\ text \in [Requests -> Texts] /\ chars \in Nat /\ Length[text[r]] \in Nat
      /\ Budget \in Nat
  BY SpeakerAssumption DEF SpeakerInv, TypeOK
<1> DEFINE n == Length[text[r]]
<1>2. Charged \in SUBSET Requests /\ Charged \ {r} \in SUBSET Requests
  BY DEF Charged
<1>3. CASE AnswerAtOnce(r)
  <2>1. QuickAnswer(r) \in {"text_too_long", "hit", "speech_budget_exhausted"}
    BY <1>3 DEF AnswerAtOnce, QuickAnswer
  <2>2. TypeOK'
    BY <1>3, <2>1 DEF AnswerAtOnce, Answer, SpeakerInv, TypeOK, Replies
  <2>3. Charged' = Charged
    BY <1>1, <1>3, <2>1 DEF AnswerAtOnce, Answer, Charged, SpeakerInv
  <2> QED
    BY <1>1, <1>3, <2>2, <2>3 DEF AnswerAtOnce, Answer, SpeakerInv
<1>4. CASE StartSynthesis(r)
  <2>1. chars' = chars + n /\ chars + n <= Budget /\ text' = text
    BY <1>4 DEF StartSynthesis, QuickAnswer, Fits
  <2>2. TypeOK'
    BY <1>1, <1>4 DEF StartSynthesis, SpeakerInv, TypeOK
  <2>3. r \notin Charged /\ Charged' = Charged \cup {r}
    BY <1>1, <1>4 DEF StartSynthesis, Charged, SpeakerInv
  <2>4. CharsOf(text, Charged \cup {r}) = CharsOf(text, Charged) + n
    BY <1>1, <1>2, <2>3, CharsAdd
  <2> QED
    BY <1>1, <1>4, <2>1, <2>2, <2>3, <2>4 DEF StartSynthesis, SpeakerInv
<1>5. CASE PollyAnswers(r)
  <2>1. UNCHANGED <<pc, reply, text, chars, cache>>
    BY <1>5 DEF PollyAnswers
  <2>2. TypeOK'
    BY <1>5 DEF PollyAnswers, SpeakerInv, TypeOK
  <2> QED
    BY <2>1, <2>2 DEF SpeakerInv, Charged
<1>6. CASE Spoken(r) \/ Cancel(r)
  <2>1. /\ pc[r] = "polly" /\ UNCHANGED <<text, chars>>
        /\ \E a \in {"miss", "cancelled"} : Answer(r, a)
    BY <1>6 DEF Spoken, Cancel
  <2>2. TypeOK'
    BY <1>6 DEF Spoken, Cancel, Answer, SpeakerInv, TypeOK, Replies
  <2>3. Charged' = Charged
    BY <1>1, <2>1 DEF Answer, Charged
  <2> QED
    BY <1>1, <2>1, <2>2, <2>3 DEF Answer, SpeakerInv
<1>7. CASE SynthesisFails(r) \/ GuardExpires(r)
  <2>1. /\ pc[r] = "polly" /\ UNCHANGED <<text, thread, cache>> /\ chars' = chars - n
        /\ Answer(r, "speech_failed")
    BY <1>7 DEF SynthesisFails, GuardExpires, GuardDue, SpeechFails, Refund
  <2>2. r \in Charged /\ Charged' = Charged \ {r}
    BY <1>1, <2>1 DEF Answer, Charged
  <2>3. CharsOf(text, Charged) = CharsOf(text, Charged \ {r}) + n
    <3>1. (Charged \ {r}) \cup {r} = Charged /\ r \in Requests \ (Charged \ {r})
      BY <2>2
    <3>2. CharsOf(text, (Charged \ {r}) \cup {r}) = CharsOf(text, Charged \ {r}) + n
      BY <1>1, <1>2, <3>1, CharsAdd
    <3> QED
      BY <3>1, <3>2
  <2>4. CharsOf(text, Charged \ {r}) \in Nat
    BY <1>1, <1>2, CharsAdd
  <2>5. chars' = CharsOf(text, Charged \ {r}) /\ chars' \in Nat /\ chars' <= Budget
    BY <1>1, <2>1, <2>3, <2>4 DEF SpeakerInv
  <2>6. TypeOK'
    BY <2>1, <2>5 DEF Answer, SpeakerInv, TypeOK, Replies
  <2> QED
    BY <1>1, <2>1, <2>2, <2>5, <2>6 DEF Answer, SpeakerInv
<1> QED
  BY <1>3, <1>4, <1>5, <1>6, <1>7 DEF RequestStep

LEMMA SpeakerNext == SpeakerInv /\ [Next]_vars => SpeakerInv'
<1> SUFFICES ASSUME SpeakerInv, [Next]_vars PROVE SpeakerInv'
  OBVIOUS
<1>1. CASE UNCHANGED vars
  BY <1>1 DEF vars, SpeakerInv, TypeOK, Charged
<1> QED
  BY <1>1, BudgetStep DEF Next, AllAnswered

LEMMA WithinBudget == SpeakerInv => ChargedWithinBudget
<1> SUFFICES ASSUME SpeakerInv PROVE ChargedWithinBudget
  OBVIOUS
<1>1. PICK S : S = {r \in Requests : pc[r] = "polly" \/ reply[r] \in {"miss", "cancelled"}}
  OBVIOUS
<1>2. S \in SUBSET Requests /\ S = Charged
  BY <1>1 DEF Charged
<1>3. chars = Chars(S)
  BY <1>2, CharsIsASum DEF SpeakerInv
<1> QED
  BY <1>1, <1>3 DEF SpeakerInv, ChargedWithinBudget

(* Concurrent requests never overshoot the budget together, and refunds    *)
(* never make room that was not there.                                     *)
THEOREM BudgetKept == Spec => []ChargedWithinBudget
<1> QED
  BY SpeakerInit, SpeakerNext, WithinBudget, PTL DEF Spec

(***************************************************************************)
(* The page's inductive invariant                                          *)
(***************************************************************************)

(* Messages are sent in the order of their numbers, and only the pending   *)
(* one is waited for: an older turn that still runs was given up on.       *)
MessageAt(m) ==
    /\ session[m] = 0 <=> bubble[m] = "none"
    /\ chat[m] # "none" => session[m] # 0
    /\ chat[m] \in {"sent", "running"} => bubble[m] \in {"thinking", "given_up"}
    /\ bubble[m] = "thinking" <=> pending = m
    /\ pending = m => m \in shown
    /\ \A n \in Messages : session[n] # 0 /\ session[m] = 0 => n < m
    /\ \A n \in Messages : session[n] # 0 /\ pending = m => n <= m

(* The token is that of the last reply, or of none.                        *)
Token ==
    /\ muted => live = 0
    /\ live # 0 => live \in shown /\ \A m \in Messages : bubble[m] = "reply" => m <= live
    /\ current # 0 => current = live

(* What is heard is the reply that holds the token, in the voice it is at. *)
Heeded ==
    \A v \in sounding :
        /\ v[2] = live
        /\ v[1] = "audio" => voice[live] = "playing" /\ current = live
        /\ v[1] = "browser" => voice[live] = "fallen"

PageInv ==
    /\ SpeakerInv
    /\ PageTypeOK
    /\ \A m \in Messages : MessageAt(m)
    /\ Token
    /\ Heeded
    /\ RefusedOnlyAfterGivingUp

LEMMA PageInvInit == PageInit => PageInv
<1> SUFFICES ASSUME PageInit PROVE PageInv
  OBVIOUS
<1>1. SpeakerInv /\ TypeOK
  BY SpeakerInit DEF PageInit, SpeakerInv
<1>2. PageTypeOK
  <2>1. /\ {recognizing, polly, muted, disabled} \subseteq BOOLEAN
        /\ {live, current} \subseteq Messages \cup {0}
    BY DEF PageInit
  <2>2. /\ session \in [Messages -> Nat] /\ sessionId \in Nat \ {0}
        /\ pending \in Messages \cup {0} /\ shown \subseteq Messages
        /\ sounding \subseteq Audible
    BY DEF PageInit
  <2>3. /\ bubble \in [Messages -> {"none", "thinking", "reply", "empty", "error", "given_up"}]
        /\ chat \in [Messages -> {"none", "sent", "running", "in_progress", "reply", "empty", "failed"}]
        /\ voice \in [Messages -> {"none", "fetching", "loaded", "playing", "fallen", "over"}]
    BY DEF PageInit
  <2> QED
    BY <1>1, <2>1, <2>2, <2>3 DEF PageTypeOK
<1> QED
  BY <1>1, <1>2, PageAssumption
  DEF PageInit, PageInv, MessageAt, Token, Heeded, RefusedOnlyAfterGivingUp

(* The types of what the page's steps change.                              *)
LEMMA PageFacts ==
  ASSUME PageInv
  PROVE  /\ session = [m \in Messages |-> session[m]] /\ bubble = [m \in Messages |-> bubble[m]]
         /\ chat = [m \in Messages |-> chat[m]] /\ voice = [m \in Messages |-> voice[m]]
         /\ \A m \in Messages : m \in Nat /\ m # 0
BY PageAssumption DEF PageInv, PageTypeOK

(* Steps that change nothing but the microphone.                           *)
LEMMA PageQuiet ==
  ASSUME PageInv, UNCHANGED <<vars, polly, speaker>>, recognizing' \in BOOLEAN,
         UNCHANGED <<sessionId, pending, session, bubble, shown, chat>>
  PROVE  PageInv'
<1>1. SpeakerInv' /\ TypeOK'
  BY SpeakerNext DEF PageInv, SpeakerInv
<1>2. PageTypeOK'
  BY <1>1 DEF PageInv, PageTypeOK, speaker
<1> QED
  BY <1>1, <1>2
  DEF PageInv, MessageAt, Token, Heeded, RefusedOnlyAfterGivingUp, speaker

(***************************************************************************)
(* The backend's steps                                                     *)
(***************************************************************************)
LEMMA PageServer ==
  ASSUME PageInv, NEW r \in Requests, ServerStep(r)
  PROVE  PageInv'
<1>1. SpeakerInv'
  BY BudgetStep DEF PageInv, ServerStep
<1>2. UNCHANGED <<screen, chat, polly, speaker>>
  BY DEF ServerStep
<1> QED
  BY <1>1, <1>2
  DEF PageInv, SpeakerInv, PageTypeOK, MessageAt, Token, Heeded, RefusedOnlyAfterGivingUp,
      screen, speaker

LEMMA PageTurn ==
  ASSUME PageInv, NEW m \in Messages, TurnBegins(m) \/ TurnEnds(m),
         UNCHANGED <<vars, polly, speaker>>
  PROVE  PageInv'
<1>0. chat = [n \in Messages |-> chat[n]] /\ UNCHANGED <<vars, screen, polly, speaker>>
  BY PageFacts DEF TurnBegins, TurnEnds
<1> USE DEF screen, speaker
<1>1. SpeakerInv' /\ TypeOK'
  BY <1>0, SpeakerNext DEF PageInv, SpeakerInv
<1>2. PICK end \in {"in_progress", "running", "reply", "empty", "failed"} :
        /\ chat' = [chat EXCEPT ![m] = end]
        /\ end = "in_progress" => chat[m] = "sent"
                /\ \E n \in Messages : chat[n] = "running" /\ session[n] = session[m]
        /\ chat[m] \in {"sent", "running"}
  BY DEF TurnBegins, TurnEnds
<1>3. PageTypeOK'
  BY <1>0, <1>1, <1>2 DEF PageInv, PageTypeOK
<1>4. \A n \in Messages : MessageAt(n)'
  BY <1>0, <1>2 DEF PageInv, MessageAt
<1>5. Token' /\ Heeded'
  BY <1>0 DEF PageInv, Token, Heeded
<1>6. RefusedOnlyAfterGivingUp'
  <2> SUFFICES ASSUME NEW k \in Messages, chat'[k] = "in_progress"
               PROVE  \E n \in Messages : session[n] = session[k] /\ bubble[n] = "given_up"
    BY <1>0 DEF RefusedOnlyAfterGivingUp
  <2>1. CASE k # m \/ end # "in_progress"
    BY <1>0, <1>2, <2>1 DEF PageInv, RefusedOnlyAfterGivingUp
  <2>2. CASE k = m /\ end = "in_progress"
    <3>1. PICK n \in Messages : chat[n] = "running" /\ session[n] = session[m] /\ n # m
      BY <1>2, <2>2
    <3>2. bubble[n] \in {"thinking", "given_up"} /\ bubble[m] \in {"thinking", "given_up"}
      BY <1>2, <3>1 DEF PageInv, MessageAt
    <3>3. bubble[n] = "given_up" \/ bubble[m] = "given_up"
      BY <3>1, <3>2 DEF PageInv, MessageAt
    <3> QED
      BY <2>2, <3>1, <3>3
  <2> QED
    BY <2>1, <2>2
<1> QED
  BY <1>1, <1>3, <1>4, <1>5, <1>6 DEF PageInv

(***************************************************************************)
(* The page's messages                                                     *)
(***************************************************************************)
LEMMA PageSend ==
  ASSUME PageInv, NEW m \in Messages, pending = 0, IsNext(m), Send(m),
         recognizing' \in BOOLEAN, UNCHANGED <<vars, polly, speaker>>
  PROVE  PageInv'
<1> USE DEF speaker
<1>0. /\ session = [n \in Messages |-> session[n]] /\ bubble = [n \in Messages |-> bubble[n]]
      /\ chat = [n \in Messages |-> chat[n]] /\ \A n \in Messages : n \in Nat /\ n # 0
      /\ sessionId \in Nat \ {0}
  BY PageFacts DEF PageInv, PageTypeOK
<1>1. SpeakerInv' /\ TypeOK'
  BY SpeakerNext DEF PageInv, SpeakerInv
<1>2. PageTypeOK'
  BY <1>0, <1>1 DEF PageInv, PageTypeOK, Send
<1>3. /\ session[m] = 0 /\ bubble[m] = "none"
      /\ \A n \in Messages : session[n] = 0 => m <= n
      /\ \A n \in Messages : session[n] # 0 => n < m
  BY DEF IsNext, PageInv, MessageAt
<1>4. /\ session'[m] = sessionId /\ bubble'[m] = "thinking" /\ chat'[m] = "sent"
      /\ pending' = m /\ shown' = shown \cup {m}
      /\ \A n \in Messages \ {m} : session'[n] = session[n] /\ bubble'[n] = bubble[n]
              /\ chat'[n] = chat[n]
  BY <1>0 DEF Send
<1>5. ASSUME NEW n \in Messages
      PROVE  MessageAt(n)'
  <2>1. MessageAt(n)
    BY DEF PageInv
  <2>2. ASSUME NEW k \in Messages, session'[k] # 0, session'[n] = 0
        PROVE  k < n
    <3>1. n # m /\ session[n] = 0 /\ m <= n
      BY <1>0, <1>3, <1>4, <2>2
    <3>2. k = m \/ k < m
      BY <1>3, <1>4, <2>2
    <3> QED
      BY <1>0, <3>1, <3>2
  <2>3. ASSUME NEW k \in Messages, session'[k] # 0, pending' = n
        PROVE  k <= n
    BY <1>0, <1>3, <1>4, <2>3
  <2>4. bubble[n] # "thinking"
    BY <1>0, <2>1 DEF MessageAt
  <2>5. CASE n = m
    BY <1>0, <1>4, <2>2, <2>3, <2>5 DEF MessageAt
  <2>6. CASE n # m
    BY <1>0, <1>4, <2>1, <2>2, <2>3, <2>4, <2>6 DEF MessageAt
  <2> QED
    BY <2>5, <2>6
<1>6. Token' /\ Heeded'
  <2>1. \A n \in Messages : bubble'[n] = "reply" => bubble[n] = "reply"
    BY <1>4
  <2> QED
    BY <1>4, <2>1 DEF PageInv, Token, Heeded
<1>7. RefusedOnlyAfterGivingUp'
  <2> SUFFICES ASSUME NEW k \in Messages, chat'[k] = "in_progress"
               PROVE  \E n \in Messages : session'[n] = session'[k] /\ bubble'[n] = "given_up"
    BY DEF RefusedOnlyAfterGivingUp
  <2>1. k # m /\ chat[k] = "in_progress"
    BY <1>4
  <2>2. PICK n \in Messages : session[n] = session[k] /\ bubble[n] = "given_up"
    BY <2>1 DEF PageInv, RefusedOnlyAfterGivingUp
  <2>3. n # m
    BY <1>3, <2>2
  <2> QED
    BY <1>4, <2>1, <2>2, <2>3
<1> QED
  BY <1>1, <1>2, <1>5, <1>6, <1>7 DEF PageInv

(* The answer to the pending message is shown.                             *)
LEMMA PageSettles ==
  ASSUME PageInv, NEW m \in Messages, NEW end \in {"reply", "empty", "error", "given_up"},
         pending = m, Settle(m, end), chat[m] \in {"sent", "running"} => end = "given_up",
         UNCHANGED <<vars, chat, polly>>
  PROVE  /\ SpeakerInv' /\ \A n \in Messages : MessageAt(n)'
         /\ RefusedOnlyAfterGivingUp'
         /\ sessionId' \in Nat \ {0} /\ pending' \in Messages \cup {0}
         /\ session' \in [Messages -> Nat]
         /\ bubble' \in [Messages -> {"none", "thinking", "reply", "empty", "error", "given_up"}]
         /\ shown' \subseteq Messages /\ m \in shown' /\ recognizing' \in BOOLEAN
         /\ \A n \in Messages : bubble'[n] = "reply" => n <= m
         /\ \A n \in Messages : bubble'[n] = "reply" => bubble[n] = "reply" \/ end = "reply"
<1>0. /\ bubble = [n \in Messages |-> bubble[n]] /\ \A n \in Messages : n \in Nat /\ n # 0
  BY PageFacts
<1>1. SpeakerInv'
  BY SpeakerNext DEF PageInv
<1>2. /\ bubble'[m] = end /\ pending' = 0
      /\ \A n \in Messages \ {m} : bubble'[n] = bubble[n]
      /\ UNCHANGED <<sessionId, recognizing, session, shown, chat>>
  BY <1>0 DEF Settle
<1>3. MessageAt(m) /\ bubble[m] = "thinking" /\ session[m] # 0 /\ m \in shown
  BY DEF PageInv, MessageAt
<1>4. ASSUME NEW n \in Messages
      PROVE  MessageAt(n)'
  <2>1. MessageAt(n)
    BY DEF PageInv
  <2> QED
    BY <1>0, <1>2, <1>3, <2>1 DEF MessageAt
<1>5. RefusedOnlyAfterGivingUp'
  <2> SUFFICES ASSUME NEW k \in Messages, chat[k] = "in_progress"
               PROVE  \E n \in Messages : session[n] = session[k] /\ bubble'[n] = "given_up"
    BY <1>2 DEF RefusedOnlyAfterGivingUp
  <2>1. PICK n \in Messages : session[n] = session[k] /\ bubble[n] = "given_up"
    BY DEF PageInv, RefusedOnlyAfterGivingUp
  <2> QED
    BY <1>2, <1>3, <2>1
<1>6. /\ sessionId' \in Nat \ {0} /\ pending' \in Messages \cup {0}
      /\ session' \in [Messages -> Nat] /\ shown' \subseteq Messages
      /\ m \in shown' /\ recognizing' \in BOOLEAN
      /\ bubble' \in [Messages -> {"none", "thinking", "reply", "empty", "error", "given_up"}]
  BY <1>2, <1>3 DEF PageInv, PageTypeOK, Settle
<1>7. \A n \in Messages : bubble'[n] = "reply" => n <= m
  <2>1. \A n \in Messages : session[n] # 0 => n <= m
    BY <1>3 DEF MessageAt
  <2>2. \A n \in Messages : bubble'[n] = "reply" => n = m \/ session[n] # 0
    BY <1>2 DEF PageInv, MessageAt
  <2> QED
    BY <1>0, <2>1, <2>2
<1> QED
  BY <1>1, <1>2, <1>4, <1>5, <1>6, <1>7

LEMMA PageAnswer ==
  ASSUME PageInv, NEW m \in Messages, AnswerStep(m)
  PROVE  PageInv'
<1>0. UNCHANGED <<vars, chat, polly>> /\ pending = m /\ m # 0
  BY PageFacts DEF AnswerStep, ReplyArrives, ErrorArrives, GiveUp
<1>1. TypeOK'
  BY <1>0, SpeakerNext DEF PageInv, SpeakerInv
<1>v. voice = [n \in Messages |-> voice[n]]
  BY PageFacts
<1>2. CASE ReplyArrives(m)
  <2>1. PICK end \in {"reply", "empty"} : end = chat[m] /\ Settle(m, end)
    BY <1>2 DEF ReplyArrives
  <2>2. /\ SpeakerInv' /\ \A n \in Messages : MessageAt(n)'
        /\ RefusedOnlyAfterGivingUp'
        /\ sessionId' \in Nat \ {0} /\ pending' \in Messages \cup {0}
        /\ session' \in [Messages -> Nat]
        /\ bubble' \in [Messages -> {"none", "thinking", "reply", "empty", "error", "given_up"}]
        /\ shown' \subseteq Messages /\ m \in shown' /\ recognizing' \in BOOLEAN
        /\ \A n \in Messages : bubble'[n] = "reply" => n <= m
        /\ \A n \in Messages : bubble'[n] = "reply" => bubble[n] = "reply" \/ end = "reply"
    BY <1>0, <2>1, PageSettles
  <2>3. shown' = shown
    BY <2>1 DEF Settle
  <2>4. CASE UNCHANGED speaker /\ (end = "empty" \/ muted)
    BY <1>0, <1>1, <2>2, <2>3, <2>4 DEF PageInv, PageTypeOK, Token, Heeded, speaker
  <2>5. CASE Speak(m) /\ ~muted
    <3>1. /\ live' = m /\ current' = 0 /\ UNCHANGED <<muted, disabled>>
          /\ sounding' = IF disabled THEN {Heard("browser", m)} ELSE {}
          /\ voice' = [voice EXCEPT ![m] = IF disabled THEN "fallen" ELSE "fetching"]
      BY <2>5 DEF Speak
    <3>2. PageTypeOK'
      BY <1>0, <1>1, <2>2, <3>1 DEF PageInv, PageTypeOK, Audible, Heard
    <3>3. Token'
      BY <2>2, <2>5, <3>1 DEF Token
    <3>4. Heeded'
      BY <1>v, <3>1 DEF Heeded, Heard
    <3> QED
      BY <2>2, <3>2, <3>3, <3>4 DEF PageInv
  <2> QED
    BY <1>2, <2>1, <2>4, <2>5 DEF ReplyArrives, Speak
<1>3. CASE (ErrorArrives(m) \/ GiveUp(m)) /\ UNCHANGED speaker
  <2>1. PICK end \in {"error", "given_up"} :
          Settle(m, end) /\ (chat[m] \in {"sent", "running"} => end = "given_up")
    BY <1>3 DEF ErrorArrives, GiveUp
  <2>2. /\ SpeakerInv' /\ \A n \in Messages : MessageAt(n)'
        /\ RefusedOnlyAfterGivingUp'
        /\ sessionId' \in Nat \ {0} /\ pending' \in Messages \cup {0}
        /\ session' \in [Messages -> Nat]
        /\ bubble' \in [Messages -> {"none", "thinking", "reply", "empty", "error", "given_up"}]
        /\ shown' \subseteq Messages /\ recognizing' \in BOOLEAN
        /\ \A n \in Messages : bubble'[n] = "reply" => bubble[n] = "reply" \/ end = "reply"
    BY <1>0, <2>1, PageSettles
  <2>3. shown' = shown
    BY <2>1 DEF Settle
  <2> QED
    BY <1>0, <1>1, <1>3, <2>2, <2>3 DEF PageInv, PageTypeOK, Token, Heeded, speaker
<1> QED
  BY <1>2, <1>3 DEF AnswerStep

LEMMA PageChat ==
  ASSUME PageInv, NEW m \in Messages, ChatStep(m)
  PROVE  PageInv'
<1>0. UNCHANGED <<vars, polly, speaker>> /\ recognizing \in BOOLEAN
  BY DEF ChatStep, PageInv, PageTypeOK
<1>1. CASE Type(m)
  BY <1>0, <1>1, PageSend DEF Type
<1>2. CASE Hear(m) /\ ~Busy
  <2>1. pending = 0 /\ IsNext(m) /\ Send(m) /\ recognizing' \in BOOLEAN
    BY <1>2 DEF Hear, Busy
  <2> QED
    BY <1>0, <2>1, PageSend
<1>3. CASE Hear(m) /\ Busy
  <2>1. /\ recognizing' \in BOOLEAN
        /\ UNCHANGED <<sessionId, pending, session, bubble, shown, chat>>
    BY <1>3 DEF Hear
  <2> QED
    BY <1>0, <2>1, PageQuiet
<1>4. CASE TurnBegins(m) \/ TurnEnds(m)
  BY <1>0, <1>4, PageTurn
<1> QED
  BY <1>1, <1>2, <1>3, <1>4 DEF ChatStep

(***************************************************************************)
(* The speaker                                                             *)
(***************************************************************************)

(* Steps of the speaker alone disturb the last parts of PageInv only.      *)
LEMMA PageSpeaks ==
  ASSUME PageInv, UNCHANGED <<vars, screen, chat, polly>>,
         {muted', disabled'} \subseteq BOOLEAN, {live', current'} \subseteq Messages \cup {0},
         voice' \in [Messages -> {"none", "fetching", "loaded", "playing", "fallen", "over"}],
         sounding' \subseteq Audible, Token', Heeded'
  PROVE  PageInv'
<1>1. SpeakerInv' /\ TypeOK'
  BY SpeakerNext DEF PageInv, SpeakerInv
<1>2. PageTypeOK'
  BY <1>1 DEF PageInv, PageTypeOK, screen
<1>3. (\A m \in Messages : MessageAt(m)') /\ RefusedOnlyAfterGivingUp'
  BY DEF PageInv, MessageAt, RefusedOnlyAfterGivingUp, screen
<1> QED
  BY <1>1, <1>2, <1>3 DEF PageInv

(* A reply that is not yet, or no more, spoken is not heard.               *)
LEMMA Unheard ==
  ASSUME PageInv, NEW m \in Messages, live = m, voice[m] \notin {"playing", "fallen"}
  PROVE  sounding = {}
<1> SUFFICES ASSUME NEW v \in sounding PROVE FALSE
  OBVIOUS
<1>1. v[1] \in {"audio", "browser"}
  BY DEF PageInv, PageTypeOK, Audible
<1> QED
  BY <1>1 DEF PageInv, Heeded

(* The browser takes over from the audio, which falls silent.              *)
LEMMA FallsBack ==
  ASSUME PageInv, NEW m \in Messages, voice[m] \in {"fetching", "loaded", "playing"},
         Fallback(m), disabled' \in BOOLEAN, UNCHANGED <<vars, screen, chat, polly>>
  PROVE  PageInv'
<1>0. /\ voice = [n \in Messages |-> voice[n]] /\ m \in Nat /\ m # 0
      /\ muted \in BOOLEAN /\ muted' = muted /\ live' = live
      /\ {live, current} \subseteq Messages \cup {0} /\ sounding \subseteq Audible
      /\ Token /\ Heeded /\ UNCHANGED <<shown, bubble>>
      /\ voice' = [voice EXCEPT ![m] = "fallen"]
  BY PageFacts DEF PageInv, PageTypeOK, Fallback, screen
<1>1. voice' \in [Messages -> {"none", "fetching", "loaded", "playing", "fallen", "over"}]
  BY <1>0 DEF PageInv, PageTypeOK
<1>2. CASE live # m \/ muted
  <2>1. live # m /\ UNCHANGED <<current, sounding>>
    BY <1>0, <1>2 DEF Token, Fallback
  <2>2. \A v \in sounding : v[2] = live /\ v[2] \in Messages
    BY <1>0 DEF Heeded, Audible
  <2>3. sounding # {} => voice'[live] = voice[live]
    BY <1>0, <2>1, <2>2
  <2>4. Heeded' /\ Token'
    BY <1>0, <2>1, <2>3 DEF Heeded, Token
  <2> QED
    BY <1>0, <1>1, <2>1, <2>4, PageSpeaks
<1>3. CASE live = m /\ ~muted
  <2>1. current' = 0 /\ BrowserSpeaks(m)
    BY <1>3 DEF Fallback
  <2>2. {v \in Released(sounding) : v[1] = "audio"} = {}
    <3> SUFFICES ASSUME NEW v \in Released(sounding), v[1] = "audio" PROVE FALSE
      OBVIOUS
    <3>1. v \in sounding /\ v # Heard("audio", current)
      BY DEF Released
    <3>2. v[2] = live /\ current = live
      BY <1>0, <3>1 DEF Heeded
    <3>3. v = <<v[1], v[2]>>
      BY <1>0, <3>1 DEF Audible
    <3> QED
      BY <3>1, <3>2, <3>3 DEF Heard
  <2>3. sounding' = {Heard("browser", m)}
    BY <2>1, <2>2 DEF BrowserSpeaks
  <2>4. Heeded' /\ Token' /\ sounding' \subseteq Audible
    BY <1>0, <1>3, <2>1, <2>3 DEF Heeded, Token, Heard, Audible
  <2> QED
    BY <1>0, <1>1, <2>1, <2>4, PageSpeaks
<1> QED
  BY <1>0, <1>2, <1>3

LEMMA PageSpeaker ==
  ASSUME PageInv, NEW m \in Messages, SpeakerStep(m)
  PROVE  PageInv'
<1>0. /\ voice = [n \in Messages |-> voice[n]] /\ m \in Nat /\ m # 0
      /\ {muted, disabled, polly} \subseteq BOOLEAN
      /\ {live, current} \subseteq Messages \cup {0} /\ sounding \subseteq Audible
      /\ Token /\ Heeded /\ UNCHANGED <<shown, bubble>> /\ UNCHANGED <<vars, screen, chat, polly>>
  BY PageFacts DEF PageInv, PageTypeOK, SpeakerStep, screen
<1>1. ASSUME NEW at \in {"loaded", "playing", "over"}, voice' = [voice EXCEPT ![m] = at]
      PROVE  voice' \in [Messages -> {"none", "fetching", "loaded", "playing", "fallen", "over"}]
  BY <1>1 DEF PageInv, PageTypeOK
<1>2. CASE AudioArrives(m) /\ Obsolete(m)
  <2>1. /\ voice' = [voice EXCEPT ![m] = "over"] /\ live # m
        /\ UNCHANGED <<muted, disabled, live, current, sounding>>
    BY <1>0, <1>2 DEF AudioArrives, Obsolete, Token
  <2>2. \A v \in sounding : v[2] = live /\ v[2] \in Messages
    BY <1>0 DEF Heeded, Audible
  <2>3. sounding # {} => voice'[live] = voice[live]
    BY <1>0, <2>1, <2>2
  <2>4. Heeded' /\ Token'
    BY <1>0, <2>1, <2>3 DEF Heeded, Token
  <2> QED
    BY <1>0, <1>1, <2>1, <2>4, PageSpeaks
<1>3. CASE AudioArrives(m) /\ ~Obsolete(m)
  <2>1. /\ voice' = [voice EXCEPT ![m] = "loaded"] /\ live = m /\ current' = m
        /\ voice[m] = "fetching" /\ UNCHANGED <<muted, disabled, live, sounding>>
    BY <1>3 DEF AudioArrives, Obsolete
  <2>2. sounding = {}
    BY <2>1, Unheard
  <2>3. Heeded' /\ Token'
    BY <1>0, <2>1, <2>2 DEF Heeded, Token
  <2> QED
    BY <1>0, <1>1, <2>1, <2>3, PageSpeaks
<1>4. CASE NoAudio(m) \/ ConnectionFails(m) \/ AudioFails(m)
  <2>1. /\ voice[m] \in {"fetching", "loaded", "playing"}
        /\ Fallback(m) /\ disabled' \in BOOLEAN
    BY <1>0, <1>4 DEF NoAudio, ConnectionFails, AudioFails
  <2> QED
    BY <1>0, <2>1, FallsBack
<1>5. CASE AudioStarts(m)
  <2>1. /\ voice[m] = "loaded" /\ current = m /\ voice' = [voice EXCEPT ![m] = "playing"]
        /\ sounding' = sounding \cup {Heard("audio", m)}
        /\ UNCHANGED <<muted, disabled, live, current>>
    BY <1>5 DEF AudioStarts
  <2>2. live = m
    BY <1>0, <2>1 DEF Token
  <2>3. sounding = {}
    BY <2>1, <2>2, Unheard
  <2>4. Heeded' /\ Token' /\ sounding' \subseteq Audible
    BY <1>0, <2>1, <2>2, <2>3 DEF Heeded, Token, Heard, Audible
  <2> QED
    BY <1>0, <1>1, <2>1, <2>4, PageSpeaks
<1>6. CASE AudioEnds(m)
  <2>1. /\ Heard("audio", m) \in sounding /\ voice' = [voice EXCEPT ![m] = "over"]
        /\ current' = IF current = m THEN 0 ELSE current
        /\ sounding' = sounding \ {Heard("audio", m)}
        /\ UNCHANGED <<muted, disabled, live>>
    BY <1>6 DEF AudioEnds
  <2>2. live = m /\ voice[m] = "playing" /\ current = m
    BY <1>0, <2>1 DEF Heeded, Heard
  <2>3. sounding' = {}
    <3> SUFFICES ASSUME NEW v \in sounding, v # Heard("audio", m) PROVE FALSE
      BY <2>1
    <3>1. v = <<v[1], v[2]>> /\ v[1] \in {"audio", "browser"}
      BY <1>0 DEF Audible
    <3>2. v[2] = m /\ v[1] # "browser"
      BY <1>0, <2>2 DEF Heeded
    <3> QED
      BY <3>1, <3>2 DEF Heard
  <2>4. Heeded' /\ Token'
    BY <1>0, <2>1, <2>2, <2>3 DEF Heeded, Token
  <2> QED
    BY <1>0, <1>1, <2>1, <2>2, <2>3, <2>4, PageSpeaks
<1>7. CASE BrowserEnds(m)
  <2>1. /\ sounding' \subseteq sounding
        /\ UNCHANGED <<muted, disabled, live, current, voice>>
    BY <1>7 DEF BrowserEnds
  <2>2. Heeded' /\ Token'
    BY <1>0, <2>1 DEF Heeded, Token
  <2>3. voice' \in [Messages -> {"none", "fetching", "loaded", "playing", "fallen", "over"}]
    BY <2>1 DEF PageInv, PageTypeOK
  <2> QED
    BY <1>0, <2>1, <2>2, <2>3, PageSpeaks
<1> QED
  BY <1>2, <1>3, <1>4, <1>5, <1>6, <1>7 DEF SpeakerStep

(***************************************************************************)
(* The buttons                                                             *)
(***************************************************************************)
LEMMA PageButton ==
  ASSUME PageInv, ButtonStep
  PROVE  PageInv'
<1>0. UNCHANGED <<vars, polly>> /\ recognizing \in BOOLEAN
  BY DEF ButtonStep, PageInv, PageTypeOK
<1>1. CASE (Listen \/ StopListening) /\ UNCHANGED speaker
  <2>1. /\ recognizing' \in BOOLEAN
        /\ UNCHANGED <<sessionId, pending, session, bubble, shown, chat>>
    BY <1>1 DEF Listen, StopListening
  <2> QED
    BY <1>0, <1>1, <2>1, PageQuiet
<1>2. CASE Mute /\ UNCHANGED chat
  <2>1. /\ muted' = ~muted /\ UNCHANGED <<disabled, voice, screen>>
        /\ muted => UNCHANGED <<live, current, sounding>>
        /\ ~muted => Stop
    BY <1>2 DEF Mute
  <2>2. /\ {muted', disabled'} \subseteq BOOLEAN /\ {live', current'} \subseteq Messages \cup {0}
        /\ voice' \in [Messages -> {"none", "fetching", "loaded", "playing", "fallen", "over"}]
        /\ sounding' \subseteq Audible
    BY <2>1 DEF PageInv, PageTypeOK, Stop
  <2>3. Token' /\ Heeded'
    BY <2>1 DEF PageInv, PageTypeOK, Token, Heeded, Stop, screen
  <2> QED
    BY <1>0, <1>2, <2>1, <2>2, <2>3, PageSpeaks
<1>3. CASE NewConversation /\ UNCHANGED chat
  <2>1. /\ pending = 0 /\ sessionId' = sessionId + 1 /\ shown' = {}
        /\ live' = 0 /\ current' = 0 /\ sounding' = {}
        /\ UNCHANGED <<pending, recognizing, session, bubble, muted, disabled, voice, chat>>
    BY <1>3 DEF NewConversation, Stop
  <2>2. SpeakerInv' /\ TypeOK'
    BY <1>0, SpeakerNext DEF PageInv, SpeakerInv
  <2>3. PageTypeOK'
    BY <1>0, <2>1, <2>2 DEF PageInv, PageTypeOK
  <2>4. \A m \in Messages : MessageAt(m)'
    BY <2>1, PageFacts DEF PageInv, MessageAt
  <2>5. Token' /\ Heeded' /\ RefusedOnlyAfterGivingUp'
    BY <2>1 DEF PageInv, Token, Heeded, RefusedOnlyAfterGivingUp
  <2> QED
    BY <2>2, <2>3, <2>4, <2>5 DEF PageInv
<1> QED
  BY <1>1, <1>2, <1>3 DEF ButtonStep

LEMMA PageCorrect == PageSpec => []PageInv
<1>1. PageInv /\ [PageNext]_pageVars => PageInv'
  <2> SUFFICES ASSUME PageInv, [PageNext]_pageVars PROVE PageInv'
    OBVIOUS
  <2>1. CASE UNCHANGED pageVars
    <3>1. /\ UNCHANGED <<vars, polly, speaker>> /\ recognizing' \in BOOLEAN
          /\ UNCHANGED <<sessionId, pending, session, bubble, shown, chat>>
      BY <2>1 DEF pageVars, screen, PageInv, PageTypeOK
    <3> QED
      BY <3>1, PageQuiet
  <2> QED
    BY <2>1, PageServer, PageChat, PageAnswer, PageSpeaker, PageButton DEF PageNext
<1> QED
  BY <1>1, PageInvInit, PTL DEF PageSpec

(***************************************************************************)
(* The theorems                                                            *)
(***************************************************************************)

(* The page's state, and the budget's below it, keep their types.          *)
THEOREM PageTypeCorrect == PageSpec => []PageTypeOK
<1>1. PageInv => PageTypeOK
  BY DEF PageInv
<1> QED
  BY <1>1, PageCorrect, PTL

(* The page's requests share the budget with all others, and it is kept.   *)
THEOREM BudgetKeptByPage == PageSpec => []ChargedWithinBudget
<1>1. PageInv => ChargedWithinBudget
  BY WithinBudget DEF PageInv
<1> QED
  BY <1>1, PageCorrect, PTL

(* One voice at most is heard, that of the last reply on the screen.       *)
THEOREM OneVoice == PageSpec => []VoiceIsTheLastReply
<1>1. PageInv => VoiceIsTheLastReply
  <2> SUFFICES ASSUME PageInv PROVE VoiceIsTheLastReply
    OBVIOUS
  <2>1. ASSUME NEW v \in sounding
        PROVE  v = IF voice[live] = "playing" THEN <<"audio", live>> ELSE <<"browser", live>>
    <3>1. v = <<v[1], v[2]>> /\ v[1] \in {"audio", "browser"}
      BY DEF PageInv, PageTypeOK, Audible
    <3> QED
      BY <3>1 DEF PageInv, Heeded
  <2>2. Cardinality(sounding) <= 1
    <3>1. CASE sounding = {}
      BY <3>1, FS_EmptySet
    <3>2. CASE sounding # {}
      <4>1. PICK v : sounding = {v}
        BY <2>1, <3>2
      <4> QED
        BY <4>1, FS_Singleton
    <3> QED
      BY <3>1, <3>2
  <2>3. ASSUME NEW v \in sounding
        PROVE  v[2] = live /\ live # 0
    <3>1. v[2] \in Messages
      BY DEF PageInv, PageTypeOK, Audible
    <3> QED
      BY <3>1, PageFacts DEF PageInv, Heeded
  <2>4. \A v \in sounding : ~muted /\ v[2] \in shown
            /\ \A m \in Messages : bubble[m] = "reply" => m <= v[2]
    BY <2>3 DEF PageInv, Token
  <2> QED
    BY <2>2, <2>4 DEF VoiceIsTheLastReply
<1> QED
  BY <1>1, PageCorrect, PTL

(* A turn is refused as one too many only where the page has given up.     *)
THEOREM RefusalExplained == PageSpec => []RefusedOnlyAfterGivingUp
<1>1. PageInv => RefusedOnlyAfterGivingUp
  BY DEF PageInv
<1> QED
  BY <1>1, PageCorrect, PTL

================================================================================
