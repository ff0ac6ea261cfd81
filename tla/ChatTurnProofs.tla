---------------------------- MODULE ChatTurnProofs ----------------------------
(***************************************************************************)
(* Safety of ChatTurn for any number of requests, tools, rounds, toolUses  *)
(* and faults.  The proof is layered: CoreInv (types and the turn lock)    *)
(* first, then WireInv (the attempts on the wire) and SessionInv (the      *)
(* session owners), each inductive relative to CoreInv.                    *)
(***************************************************************************)
EXTENDS ChatTurn, SequenceTheorems, TLAPS

(***************************************************************************)
(* The inductive invariants                                                *)
(***************************************************************************)

(* run_turn's body is running; it is dispatching a toolUse.                *)
Dispatching(r) == pc[r] \in {"call", "refresh", "reopen", "card"}

Working(r) == pc[r] = "converse" \/ Dispatching(r)

(* The turn lock: all the rest of the argument stands on it, because the   *)
(* session, the history and the owners are shared by the requests.         *)
OneTurn == \A r, q \in Requests : InTurn(r) /\ InTurn(q) => r = q

ControlAt(r) ==
    /\ ~Working(r) => turn[r] = NoTurn
    /\ pc[r] \in {"get", "reopen"} => current # NoOwner
    /\ Working(r) => turn[r].round # 0 /\ session[r] # NoOwner
    /\ Dispatching(r) => turn[r].pos \in 1 .. Len(turn[r].uses)

Control == \A r \in Requests : ControlAt(r)

CoreInv == TypeOK /\ OneTurn /\ Control

Attempts == sent \cup executed

(* a is an attempt of the toolUse that r is dispatching.                   *)
OfCurrentUse(a, r) ==
    a.turn = r /\ a.round = turn[r].round /\ a.pos = turn[r].pos

(* Nothing was sent for the toolUses that are still to come; and while a   *)
(* call that got a 404 waits for its new session, no attempt of it is left *)
(* (said of the tools for which it matters).                               *)
FreshAt(r) ==
    /\ pc[r] \in {"new", "get"} => \A a \in Attempts : a.turn # r
    /\ Working(r) => \A a \in Attempts : a.turn = r =>
          \/ a.round < turn[r].round
          \/ /\ Dispatching(r)
             /\ a.round = turn[r].round
             /\ a.pos < turn[r].pos \/ (a.pos = turn[r].pos /\ a.tool = CurrentTool(r))
    /\ pc[r] \in {"refresh", "reopen"} /\ CurrentTool(r) \notin IdempotentTools =>
          \A a \in Attempts : ~OfCurrentUse(a, r)

(* AddedAtMostOnce, of the attempts that may still run as well.            *)
UniqueUse ==
    \A a, b \in Attempts : a.tool \notin IdempotentTools /\ SameUse(a, b) => a = b

SentIsNotExecuted == \A a \in sent \cap executed : a.tool \in IdempotentTools

Fresh == \A r \in Requests : FreshAt(r)

WireInv == Fresh /\ UniqueUse /\ SentIsNotExecuted

(* Whose session r calls, what it closes, and what it may not meet again:  *)
(* owners are numbered as they are started, so a fresh one is none of      *)
(* those that refused a call of r or that an earlier turn gave up on.      *)
SessionAt(r) ==
    /\ closing[r] # NoOwner <=> pc[r] \in {"refresh", "evict"}
    /\ pc[r] \in {"refresh", "evict"} => current = NoOwner
    /\ pc[r] \in {"converse", "call", "card"} => session[r] = current
    /\ pc[r] \in {"converse", "call", "card", "reopen"} => current \notin turn[r].refused
    /\ turn[r].refused \subseteq 1 .. Len(owners)
    /\ outcome[r] = "timeout_mcp" =>
          pc[r] \in {"evict", "done"} /\ session[r] \notin {NoOwner, current}

SessionInv == NoSessionLeaked /\ \A r \in Requests : SessionAt(r)

(***************************************************************************)
(* The locals of run_turn                                                  *)
(***************************************************************************)
LEMMA NoTurnType ==
  /\ NoTurn \in TurnLocals
  /\ NoTurn.refused = {}
BY BoundsAssumption DEF NoTurn, TurnLocals, Cards

LEMMA CardValues == "none" \in Cards /\ "read" \in Cards
BY DEF Cards

LEMMA BeginRoundType ==
  ASSUME NEW l \in TurnLocals, NEW card \in Cards, l.round < MaxRounds
  PROVE  /\ BeginRound(l, card) \in TurnLocals
         /\ BeginRound(l, card).round = l.round + 1
         /\ BeginRound(l, card).refused = l.refused
<1> DEFINE k == [l EXCEPT !.round = @ + 1]
<1>1. k \in TurnLocals /\ k.round = l.round + 1 /\ k.refused = l.refused
  BY BoundsAssumption DEF TurnLocals
<1>2. BeginRound(l, card) = [k EXCEPT !.card = card]
  BY DEF BeginRound
<1> HIDE DEF k
<1> QED
  BY <1>1, <1>2 DEF TurnLocals

LEMMA BeginUseType ==
  ASSUME NEW l \in TurnLocals, NEW plan \in Seq(Tools), NEW i \in Nat, NEW card \in Cards
  PROVE  /\ BeginUse(l, plan, i, card) \in TurnLocals
         /\ BeginUse(l, plan, i, card).round = l.round
         /\ BeginUse(l, plan, i, card).uses = plan
         /\ BeginUse(l, plan, i, card).pos = i
         /\ BeginUse(l, plan, i, card).refused = l.refused
<1> DEFINE k1 == [l EXCEPT !.uses = plan]
           k2 == [k1 EXCEPT !.pos = i]
           k3 == [k2 EXCEPT !.attempt = 1]
           k4 == [k3 EXCEPT !.card = card]
           k5 == [k4 EXCEPT !.spent = @ \ {"tool"}]
           Same(k, m) == k.round = m.round /\ k.refused = m.refused
<1>0. BeginUse(l, plan, i, card) = k5
  BY DEF BeginUse
<1>1. k1 \in TurnLocals /\ Same(k1, l) /\ k1.uses = plan
  BY DEF TurnLocals
<1> HIDE DEF k1
<1>2. k2 \in TurnLocals /\ Same(k2, k1) /\ k2.uses = k1.uses /\ k2.pos = i
  BY <1>1 DEF TurnLocals
<1> HIDE DEF k2
<1>3. k3 \in TurnLocals /\ Same(k3, k2) /\ k3.uses = k2.uses /\ k3.pos = k2.pos
  BY <1>2, SMTT(30) DEF TurnLocals
<1> HIDE DEF k3
<1>4. k4 \in TurnLocals /\ Same(k4, k3) /\ k4.uses = k3.uses /\ k4.pos = k3.pos
  BY <1>3 DEF TurnLocals
<1> HIDE DEF k4
<1>5. k5 \in TurnLocals /\ Same(k5, k4) /\ k5.uses = k4.uses /\ k5.pos = k4.pos
  BY <1>4 DEF TurnLocals
<1> QED
  BY <1>0, <1>1, <1>2, <1>3, <1>4, <1>5

(* The other updates keep the toolUse that is being dispatched.            *)
SameUseLocals(m, l) == m.round = l.round /\ m.uses = l.uses /\ m.pos = l.pos

LEMMA UpdateType ==
  ASSUME NEW l \in TurnLocals
  PROVE  /\ BeginRetry(l) \in TurnLocals
         /\ SameUseLocals(BeginRetry(l), l)
         /\ BeginRetry(l).refused = l.refused
         /\ \A budget \in Budgets :
               /\ Spend(l, budget) \in TurnLocals
               /\ SameUseLocals(Spend(l, budget), l)
               /\ Spend(l, budget).refused = l.refused
         /\ \A o \in Nat :
               /\ Refused(l, o) \in TurnLocals
               /\ SameUseLocals(Refused(l, o), l)
               /\ Refused(l, o).refused = l.refused \cup {o}
<1>1. /\ BeginRetry(l) \in TurnLocals
      /\ SameUseLocals(BeginRetry(l), l)
      /\ BeginRetry(l).refused = l.refused
  BY DEF BeginRetry, TurnLocals, SameUseLocals
<1>2. ASSUME NEW budget \in Budgets
      PROVE  /\ Spend(l, budget) \in TurnLocals
             /\ SameUseLocals(Spend(l, budget), l)
             /\ Spend(l, budget).refused = l.refused
  BY <1>2 DEF Spend, TurnLocals, SameUseLocals
<1>3. ASSUME NEW o \in Nat
      PROVE  /\ Refused(l, o) \in TurnLocals
             /\ SameUseLocals(Refused(l, o), l)
             /\ Refused(l, o).refused = l.refused \cup {o}
  BY <1>3 DEF Refused, TurnLocals, SameUseLocals
<1> QED
  BY <1>1, <1>2, <1>3

(***************************************************************************)
(* The owners                                                              *)
(***************************************************************************)
LEMMA OwnersAfterAppend ==
  ASSUME NEW os \in Seq(OwnerStates)
  PROVE  /\ Append(os, "opening") \in Seq(OwnerStates)
         /\ Len(Append(os, "opening")) = Len(os) + 1
         /\ Append(os, "opening")[Len(os) + 1] = "opening"
         /\ \A o \in 1 .. Len(os) : Append(os, "opening")[o] = os[o]
BY AppendProperties DEF OwnerStates

LEMMA OwnersAfterExcept ==
  ASSUME NEW os \in Seq(OwnerStates), NEW c, NEW state \in OwnerStates
  PROVE  /\ [os EXCEPT ![c] = state] \in Seq(OwnerStates)
         /\ Len([os EXCEPT ![c] = state]) = Len(os)
         /\ \A o \in 1 .. Len(os) :
               [os EXCEPT ![c] = state][o] = IF o = c THEN state ELSE os[o]
<1> DEFINE rs == [os EXCEPT ![c] = state]
<1>1. os \in [1 .. Len(os) -> OwnerStates] /\ Len(os) \in Nat
  OBVIOUS
<1>2. rs \in [1 .. Len(os) -> OwnerStates]
  BY <1>1
<1>3. \A o \in 1 .. Len(os) : rs[o] = IF o = c THEN state ELSE os[o]
  BY <1>1
<1>4. rs \in Seq(OwnerStates) /\ Len(rs) = Len(os)
  BY <1>1, <1>2
<1> QED
  BY <1>3, <1>4

LEMMA OwnersObtained ==
  ASSUME TypeOK, Obtain
  PROVE  /\ owners' \in Seq(OwnerStates)
         /\ current' \in 1 .. Len(owners')
         /\ Len(owners) <= Len(owners')
<1>1. CASE current = NoOwner \/ owners[current] = "dead"
  <2>1. owners' = Append(owners, "opening") /\ current' = Len(owners) + 1
    BY <1>1 DEF Obtain
  <2> QED
    BY <2>1, OwnersAfterAppend DEF TypeOK
<1>2. CASE ~(current = NoOwner \/ owners[current] = "dead")
  BY <1>2 DEF Obtain, TypeOK, NoOwner
<1> QED
  BY <1>1, <1>2

LEMMA OwnersReplaced ==
  ASSUME TypeOK, NEW r \in Requests, ReplaceOwner(r)
  PROVE  /\ owners' \in Seq(OwnerStates)
         /\ Len(owners') = Len(owners) + 1
         /\ current' = Len(owners')
         /\ closing' \in [Requests -> 0 .. Len(owners')]
         /\ pc' \in [Requests -> PCs]
<1> DEFINE os == [owners EXCEPT ![closing[r]] = "closed"]
<1>1. os \in Seq(OwnerStates) /\ Len(os) = Len(owners)
  BY OwnersAfterExcept DEF TypeOK, OwnerStates
<1> HIDE DEF os
<1>2. owners' = Append(os, "opening") /\ current' = Len(owners) + 1
  BY DEF ReplaceOwner, os
<1>3. owners' \in Seq(OwnerStates) /\ Len(owners') = Len(owners) + 1
  BY <1>1, <1>2, OwnersAfterAppend
<1>4. closing' = [closing EXCEPT ![r] = NoOwner] /\ pc' = [pc EXCEPT ![r] = "reopen"]
  BY DEF ReplaceOwner, Transition
<1> QED
  BY <1>2, <1>3, <1>4 DEF TypeOK, NoOwner, PCs

(***************************************************************************)
(* A step of one request touches no other request                          *)
(***************************************************************************)
Frame(r) ==
    \A q \in Requests \ {r} :
        /\ pc'[q] = pc[q]
        /\ outcome'[q] = outcome[q]
        /\ turn'[q] = turn[q]
        /\ session'[q] = session[q]
        /\ closing'[q] = closing[q]

LEMMA FrameStep ==
  ASSUME TypeOK, NEW r \in Requests, TurnStep(r)
  PROVE  Frame(r)
<1> USE DEF Frame, TypeOK
<1>1. CASE BeginTurn(r)
  BY <1>1 DEF BeginTurn, Transition
<1>2. CASE RejectTurn(r)
  BY <1>2 DEF RejectTurn, Transition
<1>3. CASE SessionReady(r)
  BY <1>3 DEF SessionReady, Transition
<1>4. CASE SessionFailed(r)
  BY <1>4 DEF SessionFailed, Finish, Transition
<1>5. CASE ModelReplies(r)
  BY <1>5 DEF ModelReplies, Finish, Transition
<1>6. CASE ModelCallsTools(r)
  BY <1>6 DEF ModelCallsTools, Transition
<1>7. CASE ModelFails(r)
  BY <1>7 DEF ModelFails, Fail, Finish, Transition
<1>8. CASE CallNeedsCard(r)
  BY <1>8 DEF CallNeedsCard, Transition
<1>9. CASE CallAnswered(r)
  BY <1>9 DEF CallAnswered, AnswerUse, NextUse, NextRound, ExhaustRounds, Fail, Finish,
      Transition
<1>10. CASE CardRead(r)
  BY <1>10 DEF CardRead, AnswerUse, NextUse, NextRound, ExhaustRounds, Fail, Finish,
      Transition
<1>11. CASE CallRetried(r)
  BY <1>11 DEF CallRetried
<1>12. CASE CallLost(r)
  BY <1>12 DEF CallLost, Fail, Finish, Transition
<1>13. CASE CallBroken(r)
  BY <1>13 DEF CallBroken, Fail, Finish, Transition
<1>14. CASE CallTerminated(r)
  BY <1>14 DEF CallTerminated, CallRefused, Transition
<1>15. CASE RetryTerminated(r)
  BY <1>15 DEF RetryTerminated, CallRefused, Fail, Finish, Transition
<1>16. CASE RefreshClosed(r)
  BY <1>16 DEF RefreshClosed, ReplaceOwner, Transition
<1>17. CASE \E budget \in Budgets : RefreshSwallows(r, budget)
  BY <1>17 DEF RefreshSwallows, ReplaceOwner, Transition
<1>18. CASE Reopened(r)
  BY <1>18 DEF Reopened, Transition
<1>19. CASE ReopenFailed(r)
  BY <1>19 DEF ReopenFailed, Fail, Finish, Transition
<1>20. CASE CardFails(r)
  BY <1>20 DEF CardFails, Fail, Finish, Transition
<1>21. CASE BudgetExpires(r)
  BY <1>21 DEF BudgetExpires, FailAndEvict, Transition
<1>22. CASE EvictClosed(r)
  BY <1>22 DEF EvictClosed, Transition
<1>23. CASE Cancel(r)
  BY <1>23 DEF Cancel, Finish, Transition
<1>24. CASE EvictCancelled(r)
  BY <1>24 DEF EvictCancelled, Transition
<1> QED
  BY <1>1, <1>2, <1>3, <1>4, <1>5, <1>6, <1>7, <1>8, <1>9, <1>10, <1>11, <1>12, <1>13,
      <1>14, <1>15, <1>16, <1>17, <1>18, <1>19, <1>20, <1>21, <1>22, <1>23, <1>24 DEF
      TurnStep

(* The turn lock is held: only rejections can happen elsewhere.            *)
LEMMA LockHeld ==
  ASSUME CoreInv, NEW r \in Requests, TurnStep(r),
         NEW q \in Requests, q # r, InTurn(q)
  PROVE  RejectTurn(r)
<1>1. ~InTurn(r) /\ ~BeginTurn(r)
  BY DEF CoreInv, OneTurn, BeginTurn
<1>2. pc[r] \in {"new", "done"}
  BY <1>1 DEF InTurn
<1> QED
  BY <1>1, <1>2 DEF TurnStep, CallRefused, SessionReady, SessionFailed, ModelReplies,
      ModelCallsTools, ModelFails, CallNeedsCard, CallAnswered, CardRead, CallRetried,
      CallLost, CallBroken, CallTerminated, RetryTerminated, RefreshClosed,
      RefreshSwallows, Reopened, ReopenFailed, CardFails, BudgetExpires, EvictClosed,
      Cancel, EvictCancelled

(***************************************************************************)
(* Types and the turn lock                                                 *)
(***************************************************************************)
LEMMA CoreInit == Init => CoreInv
<1> SUFFICES ASSUME Init PROVE CoreInv
  OBVIOUS
<1>1. TypeOK
  BY NoTurnType, BoundsAssumption DEF Init, TypeOK, PCs, Outcomes, NoOwner
<1>2. OneTurn /\ Control
  BY DEF Init, OneTurn, Control, ControlAt, InTurn, Working, Dispatching
<1> QED
  BY <1>1, <1>2 DEF CoreInv

(* A tool is called only with a well-typed attempt.                        *)
LEMMA AttemptType ==
  ASSUME CoreInv, NEW r \in Requests, Working(r),
         NEW i \in Nat \ {0}, NEW tool \in Tools, NEW n \in {1, 2},
         NEW o \in Nat \ {0}
  PROVE  AttemptOf(r, i, tool, n, o) \in Attempt
<1>1. turn[r].round \in 1 .. MaxRounds
  BY BoundsAssumption DEF CoreInv, Control, ControlAt, TypeOK, TurnLocals
<1> QED
  BY <1>1 DEF AttemptOf, Attempt

(* The next toolUse, the next round or the end of the turn.                *)
LEMMA AnswerUseType ==
  ASSUME CoreInv, NEW r \in Requests, Dispatching(r),
         NEW card \in Cards, AnswerUse(r, card)
  PROVE  /\ pc' \in [Requests -> PCs]
         /\ outcome' \in [Requests -> Outcomes]
         /\ turn' \in [Requests -> TurnLocals]
         /\ sent' \subseteq Attempt
<1>1. turn[r] \in TurnLocals /\ turn[r].uses \in Seq(Tools) /\ turn[r].pos \in Nat
  BY DEF CoreInv, TypeOK, TurnLocals
<1>2. session[r] \in Nat \ {0}
  BY DEF CoreInv, TypeOK, Control, ControlAt, Working, NoOwner
<1>3. CASE NextUse(r, card)
  <2> DEFINE next == turn[r].pos + 1
  <2>1. next \in Nat \ {0} /\ turn[r].uses[next] \in Tools
    BY <1>1, <1>3, ElementOfSeq DEF NextUse
  <2>2. AttemptOf(r, next, turn[r].uses[next], 1, session[r]) \in Attempt
    BY <1>2, <2>1, AttemptType DEF Working
  <2>3. BeginUse(turn[r], turn[r].uses, next, card) \in TurnLocals
    BY <1>1, <2>1, BeginUseType
  <2> QED
    BY <1>3, <2>2, <2>3 DEF NextUse, Transition, CoreInv, TypeOK, PCs
<1>4. CASE NextRound(r, card)
  <2>1. BeginRound(turn[r], card) \in TurnLocals
    BY <1>1, <1>4, BeginRoundType DEF NextRound
  <2> QED
    BY <1>4, <2>1 DEF NextRound, Transition, CoreInv, TypeOK, PCs
<1>5. CASE ExhaustRounds(r)
  BY <1>5, NoTurnType
  DEF ExhaustRounds, Fail, Finish, Transition, CoreInv, TypeOK, PCs, Outcomes
<1> QED
  BY <1>3, <1>4, <1>5 DEF AnswerUse

LEMMA ToolPlanType ==
  ASSUME NEW plan \in ToolPlans
  PROVE  plan \in Seq(Tools) /\ plan[1] \in Tools /\ 1 \in 1 .. Len(plan)
BY BoundsAssumption DEF ToolPlans

LEMMA TypeStep ==
  ASSUME CoreInv, NEW r \in Requests, TurnStep(r)
  PROVE  TypeOK'
<1> USE DEF CoreInv, TypeOK, PCs, ownerVars, wireVars, historyVars
<1>0. turn[r] \in TurnLocals /\ turn[r].card \in Cards
  BY DEF TurnLocals
<1>1. CASE BeginTurn(r)
  BY <1>1, OwnersObtained DEF BeginTurn, Transition
<1>2. CASE RejectTurn(r)
  BY <1>2 DEF RejectTurn, Transition, Outcomes
<1>3. CASE SessionReady(r)
  <2>1. turn[r] = NoTurn
    BY <1>3 DEF SessionReady, Control, ControlAt, Working, Dispatching
  <2>2. BeginRound(turn[r], "none") \in TurnLocals
    <3>1. turn[r].round < MaxRounds
      BY <2>1, BoundsAssumption DEF NoTurn
    <3> QED
      BY <1>0, <3>1, BeginRoundType, CardValues
  <2> QED
    BY <1>3, <2>2 DEF SessionReady, Transition
<1>4. CASE SessionFailed(r)
  BY <1>4, NoTurnType DEF SessionFailed, Finish, Transition, Outcomes
<1>5. CASE ModelReplies(r)
  BY <1>5, NoTurnType DEF ModelReplies, Finish, Transition, Outcomes
<1>6. CASE ModelCallsTools(r)
  <2>1. PICK plan \in ToolPlans :
          /\ turn' = [turn EXCEPT ![r] = BeginUse(@, plan, 1, @.card)]
          /\ sent' = sent \cup {AttemptOf(r, 1, plan[1], 1, session[r])}
    BY <1>6 DEF ModelCallsTools
  <2>2. plan \in Seq(Tools) /\ plan[1] \in Tools
    BY ToolPlanType
  <2>3. session[r] \in Nat \ {0} /\ Working(r)
    BY <1>6 DEF ModelCallsTools, Control, ControlAt, Working, NoOwner
  <2>4. AttemptOf(r, 1, plan[1], 1, session[r]) \in Attempt
    BY <2>2, <2>3, AttemptType
  <2>5. BeginUse(turn[r], plan, 1, turn[r].card) \in TurnLocals
    BY <1>0, <2>2, BeginUseType
  <2> QED
    BY <1>6, <2>1, <2>4, <2>5 DEF ModelCallsTools, Transition
<1>7. CASE ModelFails(r)
  BY <1>7, NoTurnType DEF ModelFails, Fail, Finish, Transition, Outcomes
<1>8. CASE CallNeedsCard(r)
  BY <1>8 DEF CallNeedsCard, Transition
<1>9. CASE CallAnswered(r)
  BY <1>0, <1>9, AnswerUseType DEF CallAnswered, Dispatching
<1>10. CASE CardRead(r)
  BY <1>0, <1>10, AnswerUseType, CardValues DEF CardRead, Dispatching
<1>11. CASE CallRetried(r)
  <2>1. Dispatching(r) /\ turn[r].pos \in Nat \ {0} /\ CurrentTool(r) \in Tools
    BY <1>0, <1>11, ElementOfSeq
    DEF CallRetried, Control, ControlAt, Dispatching, CurrentTool, TurnLocals
  <2>2. Working(r) /\ session[r] \in Nat \ {0}
    BY <2>1 DEF Control, ControlAt, Working, NoOwner
  <2>3. AttemptOf(r, turn[r].pos, CurrentTool(r), 2, session[r]) \in Attempt
    BY <2>1, <2>2, AttemptType
  <2> QED
    BY <1>0, <1>11, <2>3, UpdateType DEF CallRetried
<1>12. CASE CallLost(r)
  BY <1>12, NoTurnType DEF CallLost, Fail, Finish, Transition, Outcomes
<1>13. CASE CallBroken(r)
  BY <1>13, NoTurnType DEF CallBroken, Fail, Finish, Transition, Outcomes
<1>14. CASE CallTerminated(r)
  <2>0. session[r] \in Nat
    OBVIOUS
  <2>1. Refused(turn[r], session[r]) \in TurnLocals
    BY <1>0, <2>0, UpdateType
  <2>2. turn' \in [Requests -> TurnLocals]
    BY <1>14, <2>1 DEF CallTerminated
  <2>3. sent' \subseteq Attempt
    BY <1>14 DEF CallTerminated, CallRefused
  <2>4. pc' \in [Requests -> PCs] 
    BY <1>14 DEF CallTerminated, Transition
  <2>5. closing' \in [Requests -> 0 .. Len(owners)]
    BY <1>14 DEF CallTerminated
  <2>6. current' \in 0 .. Len(owners)
    BY <1>14 DEF CallTerminated, NoOwner
  <2> QED
    BY <1>14, <2>2, <2>3, <2>4, <2>5, <2>6 DEF CallTerminated, CallRefused
<1>15. CASE RetryTerminated(r)
  BY <1>15, NoTurnType
  DEF RetryTerminated, CallRefused, Fail, Finish, Transition, Outcomes
<1>16. CASE RefreshClosed(r)
  BY <1>16, OwnersReplaced DEF RefreshClosed
<1>17. CASE \E budget \in Budgets : RefreshSwallows(r, budget)
  <2>1. PICK budget \in Budgets : RefreshSwallows(r, budget)
    BY <1>17
  <2>2. Spend(turn[r], budget) \in TurnLocals
    BY <1>0, UpdateType
  <2> QED
    BY <2>1, <2>2, OwnersReplaced DEF RefreshSwallows
<1>18. CASE Reopened(r)
  <2>1. Dispatching(r) /\ turn[r].pos \in Nat \ {0} /\ CurrentTool(r) \in Tools
    BY <1>0, <1>18, ElementOfSeq
    DEF Reopened, Control, ControlAt, Dispatching, CurrentTool, TurnLocals
  <2>2. current \in Nat \ {0}
    BY <1>18 DEF Reopened, Control, ControlAt, NoOwner
  <2>3. AttemptOf(r, turn[r].pos, CurrentTool(r), 2, current) \in Attempt
    BY <2>1, <2>2, AttemptType DEF Working
  <2> QED
    BY <1>0, <1>18, <2>3, UpdateType DEF Reopened, Transition
<1>19. CASE ReopenFailed(r)
  BY <1>19, NoTurnType DEF ReopenFailed, Fail, Finish, Transition, Outcomes
<1>20. CASE CardFails(r)
  BY <1>20, NoTurnType DEF CardFails, Fail, Finish, Transition, Outcomes
<1>21. CASE BudgetExpires(r)
  BY <1>21, NoTurnType DEF BudgetExpires, FailAndEvict, Transition, Outcomes, NoOwner
<1>22. CASE EvictClosed(r)
  BY <1>22, OwnersAfterExcept DEF EvictClosed, Transition, OwnerStates, NoOwner
<1>23. CASE Cancel(r)
  BY <1>23, NoTurnType DEF Cancel, Finish, Transition, Outcomes
<1>24. CASE EvictCancelled(r)
  BY <1>24, OwnersAfterExcept DEF EvictCancelled, Transition, OwnerStates, NoOwner
<1> QED
  BY <1>1, <1>2, <1>3, <1>4, <1>5, <1>6, <1>7, <1>8, <1>9, <1>10, <1>11, <1>12, <1>13,
     <1>14, <1>15, <1>16, <1>17, <1>18, <1>19, <1>20, <1>21, <1>22, <1>23, <1>24
  DEF TurnStep

(* A request leaves the idle states only when no other request is in its   *)
(* turn.                                                                   *)
LEMMA OneTurnStep ==
  ASSUME CoreInv, NEW r \in Requests, TurnStep(r)
  PROVE  OneTurn'
<1>1. \A q \in Requests \ {r} : InTurn(q)' <=> InTurn(q)
  BY FrameStep DEF Frame, InTurn, CoreInv
<1>2. ASSUME NEW q \in Requests, q # r, InTurn(q)
      PROVE  ~InTurn(r)'
  <2>1. RejectTurn(r)
    BY <1>2, LockHeld
  <2> QED
    BY <2>1 DEF RejectTurn, Transition, InTurn, CoreInv, TypeOK
<1> QED
  BY <1>1, <1>2 DEF OneTurn, CoreInv

LEMMA ControlStep ==
  ASSUME CoreInv, NEW r \in Requests, TurnStep(r)
  PROVE  Control'
<1>0. turn[r] \in TurnLocals /\ turn[r].card \in Cards /\ turn[r].uses \in Seq(Tools)
      /\ turn[r].round \in Nat /\ turn[r].pos \in Nat /\ session[r] \in Nat
  BY DEF CoreInv, TypeOK, TurnLocals
<1>t. turn[r] \in TurnLocals
  BY DEF CoreInv, TypeOK
<1>c. turn[r].card \in Cards
  BY <1>t DEF TurnLocals
<1>u. \A plan \in Seq(Tools), i \in Nat, c \in Cards :
        /\ BeginUse(turn[r], plan, i, c).round = turn[r].round
        /\ BeginUse(turn[r], plan, i, c).uses = plan
        /\ BeginUse(turn[r], plan, i, c).pos = i
  BY <1>t, BeginUseType
<1>v. ASSUME turn[r].round < MaxRounds
      PROVE  \A c \in Cards : BeginRound(turn[r], c).round = turn[r].round + 1
  BY <1>t, <1>v, BeginRoundType
<1>f. /\ pc = [q \in Requests |-> pc[q]]
      /\ turn = [q \in Requests |-> turn[q]]
      /\ session = [q \in Requests |-> session[q]]
  BY DEF CoreInv, TypeOK
<1>a. ControlAt(r)
  BY DEF CoreInv, Control
<1> USE <1>f DEF ControlAt, Working, Dispatching
<1>d. ASSUME NEW q \in Requests, q # r
      PROVE  ControlAt(q)'
  <2>1. pc'[q] = pc[q] /\ turn'[q] = turn[q] /\ session'[q] = session[q]
    BY <1>d, FrameStep DEF Frame, CoreInv
  <2>2. CASE InTurn(q)
    <3>1. RejectTurn(r)
      BY <1>d, <2>2, LockHeld
    <3> QED
      BY <2>1, <3>1 DEF RejectTurn, ownerVars, CoreInv, Control
  <2>3. CASE ~InTurn(q)
    BY <2>1, <2>3 DEF InTurn, CoreInv, Control
  <2> QED
    BY <2>2, <2>3
<1> SUFFICES ControlAt(r)'
  BY <1>d DEF Control
<1>b. ASSUME NEW card \in Cards, Dispatching(r), AnswerUse(r, card),
             UNCHANGED session
      PROVE  ControlAt(r)'
  <2>1. CASE NextUse(r, card)
    <3> DEFINE next == turn[r].pos + 1
               l == BeginUse(turn[r], turn[r].uses, next, card)
    <3>0. next \in Nat
      BY <1>0
    <3>1. l.round = turn[r].round /\ l.uses = turn[r].uses /\ l.pos = next
      BY <1>0, <1>b, <1>u, <3>0
    <3>2. next \in 1 .. Len(turn[r].uses)
      BY <1>0, <2>1 DEF NextUse
    <3>3. turn'[r] = l /\ pc'[r] = "call"
      BY <2>1 DEF NextUse, Transition
    <3> HIDE DEF l
    <3> QED
      BY <1>a, <1>b, <3>1, <3>2, <3>3
  <2>2. CASE NextRound(r, card)
    <3>1. BeginRound(turn[r], card).round # 0
      BY <1>0, <1>b, <1>v, <2>2 DEF NextRound
    <3>2. turn'[r] = BeginRound(turn[r], card) /\ pc'[r] = "converse"
      BY <2>2 DEF NextRound, Transition
    <3> QED
      BY <1>a, <1>b, <3>1, <3>2
  <2>3. CASE ExhaustRounds(r)
    BY <2>3 DEF ExhaustRounds, Fail, Finish, Transition
  <2> QED
    BY <1>b, <2>1, <2>2, <2>3 DEF AnswerUse
<1>1. CASE BeginTurn(r)
  BY <1>1, <1>a, OwnersObtained DEF CoreInv, BeginTurn, Transition, NoOwner
<1>2. CASE RejectTurn(r)
  BY <1>2, <1>a DEF RejectTurn, Transition
<1>3. CASE SessionReady(r)
  <2>1. turn[r] = NoTurn /\ current # NoOwner
    BY <1>3, <1>a DEF SessionReady
  <2>2. BeginRound(turn[r], "none").round # 0
    <3>1. turn[r].round < MaxRounds
      BY <2>1, BoundsAssumption DEF NoTurn
    <3>2. BeginRound(turn[r], "none").round = turn[r].round + 1
      BY <1>v, <3>1, CardValues
    <3> QED
      BY <1>0, <3>2
  <2> QED
    BY <1>3, <2>1, <2>2 DEF SessionReady, Transition
<1>4. CASE SessionFailed(r)
  BY <1>4 DEF SessionFailed, Finish, Transition
<1>5. CASE ModelReplies(r)
  BY <1>5 DEF ModelReplies, Finish, Transition
<1>6. CASE ModelCallsTools(r)
  <2>1. PICK plan \in ToolPlans : turn' = [turn EXCEPT ![r] = BeginUse(@, plan, 1, @.card)]
    BY <1>6 DEF ModelCallsTools
  <2> DEFINE l == BeginUse(turn[r], plan, 1, turn[r].card)
  <2>2. l.round = turn[r].round /\ l.pos \in 1 .. Len(l.uses)
    <3>1. plan \in Seq(Tools) /\ 1 \in 1 .. Len(plan)
      BY ToolPlanType
    <3>2. l.round = turn[r].round /\ l.pos = 1 /\ l.uses = plan
      <4>1. 1 \in Nat
        OBVIOUS
      <4> QED
        BY <1>c, <1>u, <3>1, <4>1, Zenon
    <3> QED
      BY <3>1, <3>2
  <2>3. turn'[r] = l /\ pc'[r] = "call" /\ session'[r] = session[r]
    BY <1>6, <2>1 DEF ModelCallsTools, Transition
  <2> HIDE DEF l
  <2> QED
    BY <1>6, <1>a, <2>2, <2>3 DEF ModelCallsTools
<1>7. CASE ModelFails(r)
  BY <1>7 DEF ModelFails, Fail, Finish, Transition
<1>8. CASE CallNeedsCard(r)
  BY <1>8, <1>a DEF CallNeedsCard, Transition
<1>9. CASE CallAnswered(r)
  BY <1>0, <1>b, <1>9 DEF CallAnswered
<1>10. CASE CardRead(r)
  BY <1>0, <1>b, <1>10, CardValues DEF CardRead
<1>11. CASE CallRetried(r)
  BY <1>0, <1>a, <1>11, UpdateType DEF CallRetried, SameUseLocals
<1>12. CASE CallLost(r)
  BY <1>12 DEF CallLost, Fail, Finish, Transition
<1>13. CASE CallBroken(r)
  BY <1>13 DEF CallBroken, Fail, Finish, Transition
<1>14. CASE CallTerminated(r)
  <2>1. SameUseLocals(Refused(turn[r], session[r]), turn[r]) 
    BY <1>0, UpdateType
  <2> QED
    BY <1>a, <1>14, <2>1 DEF CallTerminated, CallRefused, Transition, SameUseLocals
<1>15. CASE RetryTerminated(r)
  BY <1>15 DEF RetryTerminated, CallRefused, Fail, Finish, Transition
<1>16. CASE RefreshClosed(r)
  BY <1>a, <1>16, OwnersReplaced DEF CoreInv, RefreshClosed, ReplaceOwner, Transition, NoOwner
<1>17. CASE \E budget \in Budgets : RefreshSwallows(r, budget)
  <2>1. PICK budget \in Budgets : RefreshSwallows(r, budget)
    BY <1>17
  <2>2. SameUseLocals(Spend(turn[r], budget), turn[r])
    BY <1>0, UpdateType
  <2>3. current' # NoOwner
    BY <2>1, OwnersReplaced DEF CoreInv, RefreshSwallows, NoOwner
  <2> QED
    BY <1>a, <2>1, <2>2, <2>3
    DEF RefreshSwallows, ReplaceOwner, Transition, SameUseLocals
<1>18. CASE Reopened(r)
  BY <1>0, <1>a, <1>18, UpdateType DEF Reopened, Transition, SameUseLocals
<1>19. CASE ReopenFailed(r)
  BY <1>19 DEF ReopenFailed, Fail, Finish, Transition
<1>20. CASE CardFails(r)
  BY <1>20 DEF CardFails, Fail, Finish, Transition
<1>21. CASE BudgetExpires(r)
  BY <1>21 DEF BudgetExpires, FailAndEvict, Transition
<1>22. CASE EvictClosed(r)
  BY <1>a, <1>22 DEF EvictClosed, Transition
<1>23. CASE Cancel(r)
  BY <1>23 DEF Cancel, Finish, Transition
<1>24. CASE EvictCancelled(r)
  BY <1>a, <1>24 DEF EvictCancelled, Transition
<1> QED
  BY <1>1, <1>2, <1>3, <1>4, <1>5, <1>6, <1>7, <1>8, <1>9, <1>10, <1>11, <1>12, <1>13,
     <1>14, <1>15, <1>16, <1>17, <1>18, <1>19, <1>20, <1>21, <1>22, <1>23, <1>24
  DEF TurnStep

(* Owners and the server never touch the requests.                         *)
LEMMA CoreEnvironment ==
  ASSUME CoreInv,
         \/ \E o \in DOMAIN owners : OwnerStep(o)
         \/ \E a \in sent : ServerExecutes(a)
         \/ UNCHANGED vars
  PROVE  CoreInv'
<1> USE DEF CoreInv, TypeOK
<1>1. ASSUME NEW o \in DOMAIN owners, OwnerStep(o)
      PROVE  TypeOK'
  <2>0. o \in 1 .. Len(owners)
    BY <1>1
  <2>1. CASE OpenSucceeds(o)
    BY <2>1, OwnersAfterExcept
    DEF OpenSucceeds, OwnerStates, historyVars, wireVars
  <2>2. CASE OwnerDies(o)
    <3>1. faults' \in 0 .. MaxFaults
      BY <2>2, BoundsAssumption DEF OwnerDies, Fault
    <3>2. owners' \in Seq(OwnerStates) /\ Len(owners') = Len(owners)
      BY <2>2, OwnersAfterExcept DEF OwnerDies, OwnerStates
    <3> QED
      BY <2>2, <3>1, <3>2 DEF OwnerDies, historyVars, wireVars
  <2>3. CASE RuntimeForgets(o)
    <3>1. faults' \in 0 .. MaxFaults
      BY <2>3, BoundsAssumption DEF RuntimeForgets, Fault
    <3>2. forgotten' \subseteq 1 .. Len(owners)
      BY <2>0, <2>3 DEF RuntimeForgets
    <3> QED
      BY <2>3, <3>1, <3>2 DEF RuntimeForgets, historyVars, wireVars
  <2> QED
    BY <1>1, <2>1, <2>2, <2>3 DEF OwnerStep
<1>2. ASSUME NEW a \in sent, ServerExecutes(a)
      PROVE  TypeOK'
  BY <1>2 DEF ServerExecutes, historyVars, ownerVars
<1>3. CASE UNCHANGED vars
  BY <1>3
  DEF vars, historyVars, ownerVars, wireVars, OneTurn, InTurn, Control, ControlAt,
      Working, Dispatching
<1>4. ASSUME \/ \E o \in DOMAIN owners : OwnerStep(o)
             \/ \E a \in sent : ServerExecutes(a)
      PROVE  UNCHANGED <<pc, turn, session, current>>
  BY <1>4
  DEF OwnerStep, OpenSucceeds, OwnerDies, RuntimeForgets, ServerExecutes, ownerVars
<1>5. ASSUME UNCHANGED <<pc, turn, session, current>>
      PROVE  OneTurn' /\ Control'
  BY <1>5 DEF OneTurn, InTurn, Control, ControlAt, Working, Dispatching
<1> QED
  BY <1>1, <1>2, <1>3, <1>4, <1>5

LEMMA CoreStep == CoreInv /\ [Next]_vars => CoreInv'
<1> SUFFICES ASSUME CoreInv, [Next]_vars PROVE CoreInv'
  OBVIOUS
<1>1. ASSUME NEW r \in Requests, TurnStep(r) PROVE CoreInv'
  BY <1>1, TypeStep, OneTurnStep, ControlStep DEF CoreInv
<1>2. CASE AllAnswered
  BY <1>2, CoreEnvironment DEF AllAnswered
<1> QED
  BY <1>1, <1>2, CoreEnvironment DEF Next

THEOREM CoreCorrect == Spec => []CoreInv
<1>1. CoreInv /\ [Next]_vars => CoreInv'
  BY CoreStep
<1> QED
  BY <1>1, CoreInit, PTL DEF Spec

(* Every variable keeps its type, for any number of requests.              *)
THEOREM TypeCorrect == Spec => []TypeOK
<1>1. CoreInv => TypeOK
  BY DEF CoreInv
<1> QED
  BY <1>1, CoreCorrect, PTL

(***************************************************************************)
(* AddedAtMostOnce                                                         *)
(***************************************************************************)

(* A step that sends nothing keeps the uniqueness of attempts.             *)
LEMMA WireQuiet ==
  ASSUME UniqueUse, SentIsNotExecuted, sent' \subseteq sent, executed' = executed
  PROVE  UniqueUse' /\ SentIsNotExecuted' /\ Attempts' \subseteq Attempts
BY DEF UniqueUse, SentIsNotExecuted, Attempts

(* So does a step that sends an attempt of a new toolUse, or a retry of an *)
(* idempotent tool.                                                        *)
LEMMA WireSends ==
  ASSUME UniqueUse, SentIsNotExecuted, NEW a, sent' = sent \cup {a}, executed' = executed,
         \A b \in Attempts : SameUse(a, b) => a.tool \in IdempotentTools /\ b.tool = a.tool
  PROVE  UniqueUse' /\ SentIsNotExecuted' /\ Attempts' = Attempts \cup {a}
<1>1. Attempts' = Attempts \cup {a}
  BY DEF Attempts
<1>2. UniqueUse'
  BY <1>1 DEF UniqueUse, SameUse
<1>3. SentIsNotExecuted'
  BY DEF SentIsNotExecuted, Attempts, SameUse
<1> QED
  BY <1>1, <1>2, <1>3

LEMMA FreshOfOthers ==
  ASSUME CoreInv, Fresh, NEW r \in Requests, TurnStep(r), NEW q \in Requests, q # r,
         \A a \in Attempts' \ Attempts : a.turn = r
  PROVE  FreshAt(q)'
<1>1. pc'[q] = pc[q] /\ turn'[q] = turn[q]
  BY FrameStep DEF Frame, CoreInv
<1>2. FreshAt(q)
  BY DEF Fresh
<1> QED
  BY <1>1, <1>2 DEF FreshAt, Working, Dispatching, CurrentTool, OfCurrentUse

(* What r sends for its next toolUse, and what becomes of its attempts     *)
(* when that toolUse or the whole round is answered.                       *)
LEMMA WireAnswer ==
  ASSUME CoreInv, WireInv, NEW r \in Requests, Dispatching(r), NEW card \in Cards,
         AnswerUse(r, card), UNCHANGED session, executed' = executed
  PROVE  /\ FreshAt(r)'
         /\ UniqueUse' /\ SentIsNotExecuted'
         /\ \A a \in Attempts' \ Attempts : a.turn = r
<1>0. /\ turn[r] \in TurnLocals
      /\ turn[r].uses \in Seq(Tools)
      /\ turn[r].round \in Nat
      /\ turn[r].pos \in Nat
  BY DEF CoreInv, TypeOK, TurnLocals
<1>t. turn[r] \in TurnLocals
  BY DEF CoreInv, TypeOK
<1>1. \A a \in Attempts : a.round \in Nat /\ a.pos \in Nat
  BY DEF Attempts, CoreInv, TypeOK, Attempt
<1>2. \A a \in Attempts : a.turn = r =>
        a.round < turn[r].round \/ (a.round = turn[r].round /\ a.pos <= turn[r].pos)
  BY <1>0, <1>1 DEF WireInv, Fresh, FreshAt, Working
<1>3. pc = [q \in Requests |-> pc[q]] /\ turn = [q \in Requests |-> turn[q]]
  BY DEF CoreInv, TypeOK
<1>4. CASE NextUse(r, card)
  <2> DEFINE next == turn[r].pos + 1
             l == BeginUse(turn[r], turn[r].uses, next, card)
             new == AttemptOf(r, next, turn[r].uses[next], 1, session[r])
  <2>1. next \in Nat /\ turn[r].uses \in Seq(Tools)
    BY <1>0
  <2>2. l.round = turn[r].round /\ l.uses = turn[r].uses /\ l.pos = next
    BY <1>t, <2>1, BeginUseType
  <2>3. turn'[r] = l /\ pc'[r] = "call" /\ sent' = sent \cup {new}
    BY <1>3, <1>4 DEF NextUse, Transition
  <2>4. /\ new.turn = r
        /\ new.round = turn[r].round
        /\ new.pos = next
        /\ new.tool = turn[r].uses[next]
    BY DEF AttemptOf
  <2> HIDE DEF l, new
  <2>5. \A b \in Attempts : ~SameUse(new, b)
    BY <1>0, <1>1, <1>2, <2>4 DEF SameUse
  <2>6. UniqueUse' /\ SentIsNotExecuted' /\ Attempts' = Attempts \cup {new}
    BY <2>3, <2>5, WireSends DEF WireInv
  <2>7. FreshAt(r)'
    <3>1. \A a \in Attempts : a.turn = r =>
            a.round < l.round \/ (a.round = l.round /\ a.pos < l.pos)
      BY <1>0, <1>1, <1>2, <2>2
    <3>2. new.round = l.round /\ new.pos = l.pos /\ new.tool = l.uses[l.pos]
      BY <2>2, <2>4
    <3> QED
      BY <2>3, <2>6, <3>1, <3>2 DEF FreshAt, Working, Dispatching, CurrentTool
  <2> QED
    BY <2>4, <2>6, <2>7
<1>5. CASE NextRound(r, card)
  <2>1. BeginRound(turn[r], card).round = turn[r].round + 1
    BY <1>t, <1>5, BeginRoundType DEF NextRound
  <2>2. turn'[r] = BeginRound(turn[r], card) /\ pc'[r] = "converse" /\ sent' = sent
    BY <1>3, <1>5 DEF NextRound, Transition
  <2>3. UniqueUse' /\ SentIsNotExecuted' /\ Attempts' = Attempts
    BY <2>2, WireQuiet DEF WireInv, Attempts
  <2>4. \A a \in Attempts : a.turn = r => a.round < turn[r].round + 1
    BY <1>0, <1>1, <1>2
  <2> QED
    BY <2>1, <2>2, <2>3, <2>4 DEF FreshAt, Working, Dispatching
<1>6. CASE ExhaustRounds(r)
  <2>1. pc'[r] = "done" /\ sent' = sent
    BY <1>3, <1>6 DEF ExhaustRounds, Fail, Finish, Transition
  <2> QED
    BY <2>1, WireQuiet DEF WireInv, Attempts, FreshAt, Working, Dispatching
<1> QED
  BY <1>4, <1>5, <1>6 DEF AnswerUse

LEMMA WireStep ==
  ASSUME CoreInv, WireInv, NEW r \in Requests, TurnStep(r)
  PROVE  WireInv'
<1>a. FreshAt(r) /\ UniqueUse /\ SentIsNotExecuted
  BY DEF WireInv, Fresh
<1>b. pc = [q \in Requests |-> pc[q]] /\ turn = [q \in Requests |-> turn[q]]
  BY DEF CoreInv, TypeOK
<1>t. turn[r] \in TurnLocals
  BY DEF CoreInv, TypeOK
<1>n. /\ turn[r].round \in Nat /\ turn[r].pos \in Nat
      /\ \A a \in Attempts : a.round \in Nat /\ a.pos \in Nat
  BY <1>t DEF CoreInv, TypeOK, TurnLocals, Attempts, Attempt
<1>o. ASSUME FreshAt(r)', UniqueUse', SentIsNotExecuted',
             \A a \in Attempts' \ Attempts : a.turn = r
      PROVE  WireInv'
  BY <1>o, FreshOfOthers DEF WireInv, Fresh
<1>q. ASSUME sent' \subseteq sent, executed' = executed,
             Attempts' \subseteq Attempts => FreshAt(r)'
      PROVE  WireInv'
  BY <1>a, <1>o, <1>q, WireQuiet
<1>1. CASE BeginTurn(r)
  <2>1. pc[r] = "new" /\ pc'[r] = "get" /\ sent' = sent /\ executed' = executed
    BY <1>b, <1>1 DEF BeginTurn, Transition, wireVars
  <2> QED
    BY <1>a, <1>q, <2>1 DEF FreshAt, Working, Dispatching
<1>2. CASE RejectTurn(r)
  <2>1. pc'[r] = "done" /\ sent' = sent /\ executed' = executed
    BY <1>b, <1>2 DEF RejectTurn, Transition, wireVars
  <2> QED
    BY <1>q, <2>1 DEF FreshAt, Working, Dispatching
<1>3. CASE SessionReady(r)
  <2>1. pc[r] = "get" /\ pc'[r] = "converse" /\ sent' = sent /\ executed' = executed
    BY <1>b, <1>3 DEF SessionReady, Transition, wireVars
  <2> QED
    BY <1>a, <1>q, <2>1 DEF FreshAt, Working, Dispatching
<1>4. CASE SessionFailed(r)
  <2>1. pc'[r] \in {"done", "evict"} /\ sent' \subseteq sent /\ executed' = executed
    BY <1>b, <1>4 DEF SessionFailed, Finish, Transition, wireVars
  <2> QED
    BY <1>q, <2>1 DEF FreshAt, Working, Dispatching
<1>5. CASE ModelReplies(r)
  <2>1. pc'[r] \in {"done", "evict"} /\ sent' \subseteq sent /\ executed' = executed
    BY <1>b, <1>5 DEF ModelReplies, Finish, Transition, wireVars
  <2> QED
    BY <1>q, <2>1 DEF FreshAt, Working, Dispatching
<1>6. CASE ModelCallsTools(r)
  <2>1. PICK plan \in ToolPlans :
          /\ turn' = [turn EXCEPT ![r] = BeginUse(@, plan, 1, @.card)]
          /\ sent' = sent \cup {AttemptOf(r, 1, plan[1], 1, session[r])}
    BY <1>6 DEF ModelCallsTools
  <2> DEFINE l == BeginUse(turn[r], plan, 1, turn[r].card)
             new == AttemptOf(r, 1, plan[1], 1, session[r])
  <2>2. plan \in Seq(Tools) /\ turn[r].card \in Cards /\ 1 \in Nat
    BY <1>t, ToolPlanType DEF TurnLocals
  <2>3. l.round = turn[r].round /\ l.uses = plan /\ l.pos = 1
    BY <1>t, <2>2, BeginUseType
  <2>4. /\ pc[r] = "converse" /\ pc'[r] = "call" /\ turn'[r] = l
        /\ sent' = sent \cup {new} /\ executed' = executed
    BY <1>b, <1>6, <2>1 DEF ModelCallsTools, Transition
  <2>5. new.turn = r /\ new.round = turn[r].round /\ new.pos = 1 /\ new.tool = plan[1]
    BY DEF AttemptOf
  <2> HIDE DEF l, new
  <2>6. \A a \in Attempts : a.turn = r => a.round < turn[r].round
    BY <1>a, <2>4 DEF FreshAt, Working, Dispatching
  <2>7. \A b \in Attempts : ~SameUse(new, b)
    BY <1>n, <2>5, <2>6 DEF SameUse
  <2>8. UniqueUse' /\ SentIsNotExecuted' /\ Attempts' = Attempts \cup {new}
    BY <1>a, <2>4, <2>7, WireSends
  <2>9. FreshAt(r)'
    BY <2>3, <2>4, <2>5, <2>6, <2>8 DEF FreshAt, Working, Dispatching, CurrentTool
  <2> QED
    BY <1>o, <2>5, <2>8, <2>9
<1>7. CASE ModelFails(r)
  <2>1. pc'[r] \in {"done", "evict"} /\ sent' \subseteq sent /\ executed' = executed
    BY <1>b, <1>7 DEF ModelFails, Fail, Finish, Transition, wireVars
  <2> QED
    BY <1>q, <2>1 DEF FreshAt, Working, Dispatching
<1>8. CASE CallNeedsCard(r)
  <2>1. /\ pc[r] = "call" /\ pc'[r] = "card" /\ turn' = turn
        /\ sent' = sent /\ executed' = executed
    BY <1>b, <1>8 DEF CallNeedsCard, Transition, wireVars
  <2> QED
    BY <1>a, <1>q, <2>1 DEF FreshAt, Working, Dispatching, CurrentTool
<1>9. CASE CallAnswered(r)
  <2>1. Dispatching(r) /\ turn[r].card \in Cards
    BY <1>t, <1>9 DEF CallAnswered, Dispatching, TurnLocals
  <2>2. AnswerUse(r, turn[r].card) /\ UNCHANGED session /\ executed' = executed
    BY <1>9 DEF CallAnswered
  <2> QED
    BY <1>o, <2>1, <2>2, WireAnswer
<1>10. CASE CardRead(r)
  <2>1. Dispatching(r)
    BY <1>10 DEF CardRead, Dispatching
  <2>2. AnswerUse(r, "read") /\ UNCHANGED session /\ executed' = executed
    BY <1>10 DEF CardRead
  <2> QED
    BY <1>o, <2>1, <2>2, CardValues, WireAnswer
<1>11. CASE CallRetried(r)
  <2> DEFINE l == BeginRetry(turn[r])
             new == AttemptOf(r, turn[r].pos, CurrentTool(r), 2, session[r])
  <2>1. /\ pc[r] = "call" /\ pc' = pc /\ turn'[r] = l
        /\ CurrentTool(r) \in IdempotentTools
        /\ sent' = sent \cup {new} /\ executed' = executed
    BY <1>b, <1>11 DEF CallRetried, RetryAfterTransportError
  <2>2. SameUseLocals(l, turn[r])
    BY <1>t, UpdateType
  <2>3. OfCurrentUse(new, r) /\ new.tool = CurrentTool(r)
    BY DEF AttemptOf, OfCurrentUse
  <2> HIDE DEF l, new
  <2>4. \A b \in Attempts : SameUse(new, b) => b.tool = CurrentTool(r)
    BY <1>a, <1>n, <2>1, <2>3 DEF FreshAt, Working, Dispatching, SameUse, OfCurrentUse
  <2>5. UniqueUse' /\ SentIsNotExecuted' /\ Attempts' = Attempts \cup {new}
    BY <1>a, <2>1, <2>3, <2>4, WireSends
  <2>6. FreshAt(r)'
    BY <1>a, <2>1, <2>2, <2>3, <2>5
    DEF FreshAt, Working, Dispatching, CurrentTool, SameUseLocals, OfCurrentUse
  <2> QED
    BY <1>o, <2>3, <2>5, <2>6 DEF OfCurrentUse
<1>12. CASE CallLost(r)
  <2>1. pc'[r] \in {"done", "evict"} /\ sent' \subseteq sent /\ executed' = executed
    BY <1>b, <1>12 DEF CallLost, Fail, Finish, Transition, wireVars
  <2> QED
    BY <1>q, <2>1 DEF FreshAt, Working, Dispatching
<1>13. CASE CallBroken(r)
  <2>1. pc'[r] \in {"done", "evict"} /\ sent' \subseteq sent /\ executed' = executed
    BY <1>b, <1>13 DEF CallBroken, Fail, Finish, Transition, wireVars
  <2> QED
    BY <1>q, <2>1 DEF FreshAt, Working, Dispatching
<1>14. CASE CallTerminated(r)
  <2>1. /\ pc[r] = "call" /\ pc'[r] = "refresh"
        /\ turn'[r] = Refused(turn[r], session[r])
        /\ CurrentAttempt(r) \in sent
        /\ sent' = sent \ {CurrentAttempt(r)} /\ executed' = executed
    BY <1>b, <1>14 DEF CallTerminated, CallRefused, Transition
  <2>2. session[r] \in Nat
    BY DEF CoreInv, TypeOK
  <2>3. SameUseLocals(Refused(turn[r], session[r]), turn[r])
    BY <1>t, <2>2, UpdateType
  <2>4. OfCurrentUse(CurrentAttempt(r), r) /\ CurrentAttempt(r).tool = CurrentTool(r)
    BY DEF CurrentAttempt, AttemptOf, OfCurrentUse
  <2>5. ASSUME CurrentTool(r) \notin IdempotentTools,
               NEW a \in Attempts', OfCurrentUse(a, r)
        PROVE  FALSE
    <3>1. a \in Attempts /\ SameUse(CurrentAttempt(r), a) /\ CurrentAttempt(r) \in Attempts
      BY <2>1, <2>4, <2>5 DEF Attempts, SameUse, OfCurrentUse
    <3>2. a = CurrentAttempt(r)
      BY <1>a, <2>4, <2>5, <3>1 DEF UniqueUse
    <3>3. CurrentAttempt(r) \in sent \cap executed
      BY <2>1, <2>5, <3>2 DEF Attempts
    <3> QED
      BY <1>a, <2>4, <2>5, <3>3 DEF SentIsNotExecuted
  <2>6. Attempts' \subseteq Attempts => FreshAt(r)'
    BY <1>a, <2>1, <2>3, <2>5
    DEF FreshAt, Working, Dispatching, CurrentTool, SameUseLocals, OfCurrentUse
  <2> QED
    BY <1>q, <2>1, <2>6
<1>15. CASE RetryTerminated(r)
  <2>1. pc'[r] \in {"done", "evict"} /\ sent' \subseteq sent /\ executed' = executed
    BY <1>b, <1>15 DEF RetryTerminated, CallRefused, Fail, Finish, Transition
  <2> QED
    BY <1>q, <2>1 DEF FreshAt, Working, Dispatching
<1>16. CASE RefreshClosed(r)
  <2>1. /\ pc[r] = "refresh" /\ pc'[r] = "reopen" /\ turn' = turn
        /\ sent' = sent /\ executed' = executed
    BY <1>b, <1>16 DEF RefreshClosed, ReplaceOwner, Transition, wireVars
  <2> QED
    BY <1>a, <1>q, <2>1 DEF FreshAt, Working, Dispatching, CurrentTool, OfCurrentUse
<1>17. CASE \E budget \in Budgets : RefreshSwallows(r, budget)
  <2>1. PICK budget \in Budgets : RefreshSwallows(r, budget)
    BY <1>17
  <2>2. /\ pc[r] = "refresh" /\ pc'[r] = "reopen" /\ turn'[r] = Spend(turn[r], budget)
        /\ sent' = sent /\ executed' = executed
    BY <1>b, <2>1 DEF RefreshSwallows, ReplaceOwner, Transition, wireVars
  <2>3. SameUseLocals(Spend(turn[r], budget), turn[r])
    BY <1>t, UpdateType
  <2> QED
    BY <1>a, <1>q, <2>2, <2>3
    DEF FreshAt, Working, Dispatching, CurrentTool, OfCurrentUse, SameUseLocals
<1>18. CASE Reopened(r)
  <2> DEFINE new == AttemptOf(r, turn[r].pos, CurrentTool(r), 2, current)
  <2>1. /\ pc[r] = "reopen" /\ pc'[r] = "call" /\ turn'[r] = BeginRetry(turn[r])
        /\ sent' = sent \cup {new} /\ executed' = executed
    BY <1>b, <1>18 DEF Reopened, Transition
  <2>2. SameUseLocals(BeginRetry(turn[r]), turn[r])
    BY <1>t, UpdateType
  <2>3. OfCurrentUse(new, r) /\ new.tool = CurrentTool(r)
    BY DEF AttemptOf, OfCurrentUse
  <2> HIDE DEF new
  <2>4. \A b \in Attempts : SameUse(new, b) =>
          CurrentTool(r) \in IdempotentTools /\ b.tool = CurrentTool(r)
    BY <1>a, <1>n, <2>1, <2>3 DEF FreshAt, Working, Dispatching, SameUse, OfCurrentUse
  <2>5. UniqueUse' /\ SentIsNotExecuted' /\ Attempts' = Attempts \cup {new}
    BY <1>a, <2>1, <2>3, <2>4, WireSends
  <2>6. FreshAt(r)'
    BY <1>a, <2>1, <2>2, <2>3, <2>5
    DEF FreshAt, Working, Dispatching, CurrentTool, SameUseLocals, OfCurrentUse
  <2> QED
    BY <1>o, <2>3, <2>5, <2>6 DEF OfCurrentUse
<1>19. CASE ReopenFailed(r)
  <2>1. pc'[r] \in {"done", "evict"} /\ sent' \subseteq sent /\ executed' = executed
    BY <1>b, <1>19 DEF ReopenFailed, Fail, Finish, Transition, wireVars
  <2> QED
    BY <1>q, <2>1 DEF FreshAt, Working, Dispatching
<1>20. CASE CardFails(r)
  <2>1. pc'[r] \in {"done", "evict"} /\ sent' \subseteq sent /\ executed' = executed
    BY <1>b, <1>20 DEF CardFails, Fail, Finish, Transition, wireVars
  <2> QED
    BY <1>q, <2>1 DEF FreshAt, Working, Dispatching
<1>21. CASE BudgetExpires(r)
  <2>1. pc'[r] \in {"done", "evict"} /\ sent' \subseteq sent /\ executed' = executed
    BY <1>b, <1>21 DEF BudgetExpires, FailAndEvict, Transition, wireVars
  <2> QED
    BY <1>q, <2>1 DEF FreshAt, Working, Dispatching
<1>22. CASE EvictClosed(r)
  <2>1. pc'[r] \in {"done", "evict"} /\ sent' \subseteq sent /\ executed' = executed
    BY <1>b, <1>22 DEF EvictClosed, Transition, wireVars
  <2> QED
    BY <1>q, <2>1 DEF FreshAt, Working, Dispatching
<1>23. CASE Cancel(r)
  <2>1. pc'[r] \in {"done", "evict"} /\ sent' \subseteq sent /\ executed' = executed
    BY <1>b, <1>23 DEF Cancel, Finish, Transition, wireVars
  <2> QED
    BY <1>q, <2>1 DEF FreshAt, Working, Dispatching
<1>24. CASE EvictCancelled(r)
  <2>1. pc'[r] \in {"done", "evict"} /\ sent' \subseteq sent /\ executed' = executed
    BY <1>b, <1>24 DEF EvictCancelled, Transition, wireVars
  <2> QED
    BY <1>q, <2>1 DEF FreshAt, Working, Dispatching
<1> QED
  BY <1>1, <1>2, <1>3, <1>4, <1>5, <1>6, <1>7, <1>8, <1>9, <1>10, <1>11, <1>12, <1>13,
     <1>14, <1>15, <1>16, <1>17, <1>18, <1>19, <1>20, <1>21, <1>22, <1>23, <1>24
  DEF TurnStep

(* The server handles an attempt: it moves from sent to executed.          *)
LEMMA WireEnvironment ==
  ASSUME CoreInv, WireInv,
         \/ \E o \in DOMAIN owners : OwnerStep(o)
         \/ \E a \in sent : ServerExecutes(a)
         \/ UNCHANGED vars
  PROVE  WireInv'
<1>1. UNCHANGED <<pc, turn>>
  BY DEF OwnerStep, OpenSucceeds, OwnerDies, RuntimeForgets, ServerExecutes, vars
<1>2. CASE \E a \in sent : ServerExecutes(a)
  <2>1. PICK a \in sent : sent' = sent \ {a} /\ executed' = executed \cup {a}
    BY <1>2 DEF ServerExecutes
  <2>2. Attempts' = Attempts /\ sent' \cap executed' \subseteq sent \cap executed
    BY <2>1 DEF Attempts
  <2> QED
    BY <1>1, <2>2
    DEF WireInv, Fresh, FreshAt, UniqueUse, SentIsNotExecuted, Working, Dispatching,
        CurrentTool, OfCurrentUse
<1>3. CASE ~\E a \in sent : ServerExecutes(a)
  <2>1. sent' = sent /\ executed' = executed
    BY <1>3 DEF OwnerStep, OpenSucceeds, OwnerDies, RuntimeForgets, vars, wireVars
  <2> QED
    BY <1>1, <2>1
    DEF WireInv, Fresh, FreshAt, UniqueUse, SentIsNotExecuted, Working, Dispatching,
        CurrentTool, OfCurrentUse, Attempts
<1> QED
  BY <1>2, <1>3

LEMMA WireCorrect == Spec => []WireInv
<1>1. Init => WireInv
  BY DEF Init, WireInv, Fresh, FreshAt, UniqueUse, SentIsNotExecuted, Attempts, Working,
         Dispatching
<1>2. CoreInv /\ WireInv /\ [Next]_vars => WireInv'
  <2> SUFFICES ASSUME CoreInv, WireInv, [Next]_vars PROVE WireInv'
    OBVIOUS
  <2>1. CASE AllAnswered
    BY <2>1, WireEnvironment DEF AllAnswered
  <2> QED
    BY <2>1, WireStep, WireEnvironment DEF Next
<1> QED
  BY <1>1, <1>2, CoreCorrect, PTL DEF Spec

(* However calls are lost, delayed, refused or retried, the server runs a  *)
(* tool that is not idempotent at most once for each toolUse block.        *)
THEOREM AtMostOnce == Spec => []AddedAtMostOnce
<1>1. WireInv => AddedAtMostOnce
  BY DEF WireInv, UniqueUse, AddedAtMostOnce, Attempts
<1> QED
  BY <1>1, WireCorrect, PTL

(***************************************************************************)
(* The sessions                                                            *)
(***************************************************************************)

(* The owner that get() hands out, or starts.                              *)
LEMMA OwnersGrow ==
  ASSUME CoreInv, NEW r \in Requests, TurnStep(r)
  PROVE  /\ Len(owners) <= Len(owners')
         /\ current' \in {NoOwner, current} \/ current' > Len(owners)
<1> USE DEF CoreInv, TypeOK, ownerVars
<1>1. CASE BeginTurn(r)
  BY <1>1, OwnersObtained DEF BeginTurn, Obtain
<1>2. CASE RefreshClosed(r) \/ \E budget \in Budgets : RefreshSwallows(r, budget)
  BY <1>2, OwnersReplaced DEF RefreshClosed, RefreshSwallows
<1>3. CASE EvictClosed(r) \/ EvictCancelled(r)
  BY <1>3, OwnersAfterExcept DEF EvictClosed, EvictCancelled, OwnerStates
<1>4. ASSUME ~BeginTurn(r), ~RefreshClosed(r), ~EvictClosed(r), ~EvictCancelled(r),
             ~\E budget \in Budgets : RefreshSwallows(r, budget)
      PROVE  owners' = owners /\ current' \in {NoOwner, current}
  BY <1>4
  DEF TurnStep, RejectTurn, SessionReady, SessionFailed, ModelReplies, ModelCallsTools,
      ModelFails, CallNeedsCard, CallAnswered, CardRead, CallRetried, CallLost, CallBroken,
      CallTerminated, CallRefused, RetryTerminated, Reopened, ReopenFailed, CardFails,
      BudgetExpires, FailAndEvict, Cancel
<1> QED
  BY <1>1, <1>2, <1>3, <1>4

LEMMA SessionOfOthers ==
  ASSUME CoreInv, SessionInv, NEW r \in Requests, TurnStep(r), NEW q \in Requests, q # r
  PROVE  SessionAt(q)'
<1>1. /\ pc'[q] = pc[q] /\ outcome'[q] = outcome[q] /\ turn'[q] = turn[q]
      /\ session'[q] = session[q] /\ closing'[q] = closing[q]
  BY FrameStep DEF Frame, CoreInv
<1>2. SessionAt(q)
  BY DEF SessionInv
<1>3. CASE InTurn(q)
  BY <1>1, <1>2, <1>3, LockHeld DEF RejectTurn, ownerVars, SessionAt
<1>4. CASE ~InTurn(q)
  <2>1. pc[q] \in {"new", "done"}
    BY <1>4 DEF InTurn
  <2>2. Len(owners) \in Nat /\ Len(owners') \in Nat /\ session[q] \in 0 .. Len(owners)
    BY CoreStep DEF CoreInv, TypeOK, Next
  <2>3. turn'[q].refused \subseteq 1 .. Len(owners')
    BY <1>1, <1>2, <2>2, OwnersGrow DEF SessionAt
  <2>4. outcome'[q] = "timeout_mcp" => session'[q] \notin {NoOwner, current'}
    BY <1>1, <1>2, <2>2, OwnersGrow DEF SessionAt, NoOwner
  <2> QED
    BY <1>1, <1>2, <2>1, <2>3, <2>4 DEF SessionAt
<1> QED
  BY <1>3, <1>4

(* The refused sessions stay as they are when the turn goes on.            *)
LEMMA RefusedKept ==
  ASSUME CoreInv, NEW r \in Requests
  PROVE  /\ \A card \in Cards, plan \in Seq(Tools), i \in Nat :
               BeginUse(turn[r], plan, i, card).refused = turn[r].refused
         /\ \A card \in Cards :
               turn[r].round < MaxRounds =>
                   BeginRound(turn[r], card).refused = turn[r].refused
         /\ BeginRetry(turn[r]).refused = turn[r].refused
         /\ \A budget \in Budgets : Spend(turn[r], budget).refused = turn[r].refused
         /\ Refused(turn[r], session[r]).refused = turn[r].refused \cup {session[r]}
<1>1. turn[r] \in TurnLocals /\ session[r] \in Nat
  BY DEF CoreInv, TypeOK
<1> QED
  BY <1>1, BeginUseType, BeginRoundType, UpdateType

LEMMA SessionAnswer ==
  ASSUME CoreInv, SessionInv, NEW r \in Requests, pc[r] \in {"call", "card"},
         NEW card \in Cards, AnswerUse(r, card), UNCHANGED <<session, closing, ownerVars>>
  PROVE  SessionAt(r)'
<1>1. SessionAt(r) /\ turn[r].uses \in Seq(Tools) /\ turn[r].pos \in Nat
  BY DEF SessionInv, CoreInv, TypeOK, TurnLocals
<1>2. /\ pc = [q \in Requests |-> pc[q]] /\ turn = [q \in Requests |-> turn[q]]
      /\ outcome = [q \in Requests |-> outcome[q]]
  BY DEF CoreInv, TypeOK
<1>3. CASE NextUse(r, card)
  <2>0. turn[r].pos + 1 \in Nat
    BY <1>1
  <2>1. turn'[r].refused = turn[r].refused
    <3>1. BeginUse(turn[r], turn[r].uses, turn[r].pos + 1, card).refused = turn[r].refused
      BY <1>1, <2>0, RefusedKept
    <3> QED
      BY <1>2, <1>3, <3>1 DEF NextUse
  <2>2. pc'[r] = "call" /\ outcome' = outcome
    BY <1>2, <1>3 DEF NextUse, Transition
  <2> QED
    BY <1>1, <2>1, <2>2 DEF SessionAt, ownerVars
<1>4. CASE NextRound(r, card)
  <2>1. turn'[r].refused = turn[r].refused
    BY <1>2, <1>4, RefusedKept DEF NextRound
  <2>2. pc'[r] = "converse" /\ outcome' = outcome
    BY <1>2, <1>4 DEF NextRound, Transition
  <2> QED
    BY <1>1, <2>1, <2>2 DEF SessionAt, ownerVars
<1>5. CASE ExhaustRounds(r)
  BY <1>1, <1>2, <1>5, NoTurnType
  DEF ExhaustRounds, Fail, Finish, Transition, SessionAt, ownerVars
<1> QED
  BY <1>3, <1>4, <1>5 DEF AnswerUse

(* refresh_session: the refused owner is closed and a new one is started.  *)
LEMMA SessionReplaced ==
  ASSUME CoreInv, SessionInv, NEW r \in Requests, pc[r] = "refresh", ReplaceOwner(r),
         turn'[r].refused = turn[r].refused, UNCHANGED <<outcome, session>>
  PROVE  SessionAt(r)' /\ NoSessionLeaked'
<1> DEFINE os == [owners EXCEPT ![closing[r]] = "closed"]
<1>1. owners \in Seq(OwnerStates) /\ Len(owners) \in Nat
  BY DEF CoreInv, TypeOK
<1>2. /\ os \in Seq(OwnerStates) /\ Len(os) = Len(owners)
      /\ \A o \in 1 .. Len(owners) : os[o] = IF o = closing[r] THEN "closed" ELSE owners[o]
  BY <1>1, OwnersAfterExcept DEF OwnerStates
<1>3. owners' = Append(os, "opening") /\ current' = Len(owners) + 1
  BY DEF ReplaceOwner
<1>4. closing'[r] = NoOwner /\ pc'[r] = "reopen"
  BY DEF ReplaceOwner, Transition, CoreInv, TypeOK
<1>5. \A q \in Requests \ {r} : closing'[q] = closing[q]
  BY DEF ReplaceOwner, CoreInv, TypeOK
<1> HIDE DEF os
<1>6. /\ Len(owners') = Len(owners) + 1
      /\ \A o \in 1 .. Len(owners) : owners'[o] = os[o]
  BY <1>2, <1>3, OwnersAfterAppend
<1>7. SessionAt(r)'
  BY <1>1, <1>3, <1>4, <1>6 DEF SessionInv, SessionAt
<1>8. NoSessionLeaked'
  <2> SUFFICES ASSUME NEW o \in DOMAIN owners', owners'[o] \in {"opening", "ready"},
                      o # current'
               PROVE  \E q \in Requests : closing'[q] = o
    BY DEF NoSessionLeaked
  <2>1. o \in 1 .. Len(owners)
    <3>1. DOMAIN owners' = 1 .. Len(owners')
      BY OwnersReplaced DEF CoreInv
    <3> QED
      BY <1>1, <1>3, <1>6, <3>1
  <2>2. o # closing[r] /\ owners[o] \in {"opening", "ready"}
    BY <1>2, <1>6, <2>1
  <2>3. o # current
    BY <2>1 DEF SessionInv, SessionAt, NoOwner
  <2>4. PICK q \in Requests : closing[q] = o
    BY <1>1, <2>1, <2>2, <2>3 DEF SessionInv, NoSessionLeaked
  <2> QED
    BY <1>5, <2>2, <2>4
<1> QED
  BY <1>7, <1>8

LEMMA SessionStep ==
  ASSUME CoreInv, SessionInv, NEW r \in Requests, TurnStep(r)
  PROVE  SessionInv'
<1>a. SessionAt(r) /\ NoSessionLeaked
  BY DEF SessionInv
<1>b. /\ pc = [q \in Requests |-> pc[q]] /\ turn = [q \in Requests |-> turn[q]]
      /\ outcome = [q \in Requests |-> outcome[q]]
      /\ session = [q \in Requests |-> session[q]]
      /\ closing = [q \in Requests |-> closing[q]]
  BY DEF CoreInv, TypeOK
<1>c. owners \in Seq(OwnerStates) /\ Len(owners) \in Nat /\ current \in 0 .. Len(owners)
  BY DEF CoreInv, TypeOK
<1>r. turn[r] \in TurnLocals /\ turn[r].card \in Cards /\ session[r] \in 0 .. Len(owners)
  BY DEF CoreInv, TypeOK, TurnLocals
<1>o. ASSUME SessionAt(r)', NoSessionLeaked'
      PROVE  SessionInv'
  BY <1>o, SessionOfOthers DEF SessionInv
<1>q. ASSUME SessionAt(r)', UNCHANGED <<closing, ownerVars>>
      PROVE  SessionInv'
  BY <1>a, <1>o, <1>q DEF NoSessionLeaked, ownerVars
(* The turn ends and leaves the sessions alone.                            *)
<1>e. ASSUME pc[r] \notin {"refresh", "evict"}, pc'[r] = "done", turn'[r] = NoTurn,
             outcome'[r] # "timeout_mcp", UNCHANGED <<closing, owners, current>>
      PROVE  SessionInv'
  BY <1>a, <1>e, <1>o, NoTurnType DEF SessionAt, NoSessionLeaked
<1> USE DEF ownerVars
<1>1. CASE BeginTurn(r)
  <2>1. pc[r] = "new" /\ pc'[r] = "get" /\ Obtain
        /\ UNCHANGED <<outcome, turn, session, closing>>
    BY <1>b, <1>1 DEF BeginTurn, Transition
  <2>2. SessionAt(r)'
    BY <1>a, <1>c, <2>1, OwnersGrow DEF SessionAt
  <2>3. CASE current = NoOwner \/ owners[current] = "dead"
    <3>1. owners' = Append(owners, "opening") /\ current' = Len(owners) + 1
      BY <2>1, <2>3 DEF Obtain
    <3>2. /\ DOMAIN owners' = 1 .. Len(owners) + 1
          /\ \A o \in 1 .. Len(owners) : owners'[o] = owners[o]
      BY <1>c, <3>1, OwnersAfterAppend
    <3>3. NoSessionLeaked'
      BY <1>a, <1>c, <2>1, <2>3, <3>1, <3>2 DEF NoSessionLeaked, NoOwner
    <3> QED
      BY <1>o, <2>2, <3>3
  <2>4. CASE ~(current = NoOwner \/ owners[current] = "dead")
    BY <1>a, <1>o, <2>1, <2>2, <2>4 DEF Obtain, NoSessionLeaked
  <2> QED
    BY <2>3, <2>4
<1>2. CASE RejectTurn(r)
  BY <1>a, <1>b, <1>2, <1>q DEF RejectTurn, Transition, SessionAt
<1>3. CASE SessionReady(r)
  <2>1. turn[r] = NoTurn
    BY <1>3 DEF SessionReady, CoreInv, Control, ControlAt, Working, Dispatching
  <2>2. turn'[r].refused = {}
    <3>1. turn[r].round < MaxRounds
      BY <2>1, BoundsAssumption DEF NoTurn
    <3>2. BeginRound(turn[r], "none").refused = turn[r].refused
      BY <3>1, CardValues, RefusedKept
    <3> QED
      BY <1>b, <1>3, <2>1, <3>2, NoTurnType DEF SessionReady
  <2> QED
    BY <1>a, <1>b, <1>3, <1>q, <2>2 DEF SessionReady, Transition, SessionAt
<1>4. CASE SessionFailed(r)
  BY <1>b, <1>4, <1>e DEF SessionFailed, Finish, Transition
<1>5. CASE ModelReplies(r)
  BY <1>b, <1>5, <1>e DEF ModelReplies, Finish, Transition
<1>6. CASE ModelCallsTools(r)
  <2>1. PICK plan \in ToolPlans : turn' = [turn EXCEPT ![r] = BeginUse(@, plan, 1, @.card)]
    BY <1>6 DEF ModelCallsTools
  <2>2. plan \in Seq(Tools) /\ 1 \in Nat
    BY ToolPlanType
  <2>3. BeginUse(turn[r], plan, 1, turn[r].card).refused = turn[r].refused
    BY <1>r, <2>2, RefusedKept
  <2>4. turn'[r].refused = turn[r].refused
    BY <1>b, <2>1, <2>3
  <2> QED
    BY <1>a, <1>b, <1>6, <1>q, <2>4 DEF ModelCallsTools, Transition, SessionAt
<1>7. CASE ModelFails(r)
  BY <1>b, <1>7, <1>e DEF ModelFails, Fail, Finish, Transition
<1>8. CASE CallNeedsCard(r)
  BY <1>a, <1>b, <1>8, <1>q DEF CallNeedsCard, Transition, SessionAt
<1>9. CASE CallAnswered(r)
  BY <1>r, <1>9, <1>q, SessionAnswer DEF CallAnswered
<1>10. CASE CardRead(r)
  BY <1>10, <1>q, CardValues, SessionAnswer DEF CardRead
<1>11. CASE CallRetried(r)
  <2>1. turn'[r].refused = turn[r].refused
    BY <1>b, <1>11, RefusedKept DEF CallRetried
  <2> QED
    BY <1>a, <1>11, <1>q, <2>1 DEF CallRetried, SessionAt
<1>12. CASE CallLost(r)
  BY <1>b, <1>12, <1>e DEF CallLost, Fail, Finish, Transition
<1>13. CASE CallBroken(r)
  BY <1>b, <1>13, <1>e DEF CallBroken, Fail, Finish, Transition
<1>14. CASE CallTerminated(r)
  <2>1. /\ pc[r] = "call" /\ pc'[r] = "refresh"
        /\ closing'[r] = current /\ current' = NoOwner
        /\ \A q \in Requests \ {r} : closing'[q] = closing[q]
        /\ UNCHANGED <<outcome, session, owners>>
    BY <1>b, <1>14 DEF CallTerminated, CallRefused, Transition
  <2>2. turn'[r].refused = turn[r].refused \cup {session[r]}
    BY <1>b, <1>14, RefusedKept DEF CallTerminated
  <2>3. session[r] = current /\ session[r] # NoOwner
    BY <1>a, <2>1 DEF SessionAt, CoreInv, Control, ControlAt, Working, Dispatching
  <2>4. SessionAt(r)'
    BY <1>a, <1>r, <2>1, <2>2, <2>3 DEF SessionAt, NoOwner
  <2>5. closing[r] = NoOwner
    BY <1>a, <2>1 DEF SessionAt
  <2>6. NoSessionLeaked'
    BY <1>a, <1>c, <2>1, <2>5 DEF NoSessionLeaked, NoOwner
  <2> QED
    BY <1>o, <2>4, <2>6
<1>15. CASE RetryTerminated(r)
  BY <1>b, <1>15, <1>e DEF RetryTerminated, CallRefused, Fail, Finish, Transition
<1>16. CASE RefreshClosed(r)
  <2>1. SessionAt(r)' /\ NoSessionLeaked'
    BY <1>16, SessionReplaced DEF RefreshClosed
  <2> QED
    BY <1>o, <2>1
<1>17. CASE \E budget \in Budgets : RefreshSwallows(r, budget)
  <2>1. PICK budget \in Budgets : RefreshSwallows(r, budget)
    BY <1>17
  <2>2. turn'[r].refused = turn[r].refused
    BY <1>b, <2>1, RefusedKept DEF RefreshSwallows
  <2>3. SessionAt(r)' /\ NoSessionLeaked'
    BY <2>1, <2>2, SessionReplaced DEF RefreshSwallows
  <2> QED
    BY <1>o, <2>3
<1>18. CASE Reopened(r)
  <2>1. turn'[r].refused = turn[r].refused
    BY <1>b, <1>18, RefusedKept DEF Reopened
  <2> QED
    BY <1>a, <1>b, <1>18, <1>q, <2>1 DEF Reopened, Transition, SessionAt
<1>19. CASE ReopenFailed(r)
  BY <1>b, <1>19, <1>e DEF ReopenFailed, Fail, Finish, Transition
<1>20. CASE CardFails(r)
  BY <1>b, <1>20, <1>e DEF CardFails, Fail, Finish, Transition
<1>21. CASE BudgetExpires(r)
  <2>1. /\ pc[r] \in {"converse", "call", "reopen", "card"} /\ pc'[r] = "evict"
        /\ turn'[r] = NoTurn /\ outcome'[r] = "timeout_mcp"
        /\ closing'[r] = current /\ current' = NoOwner
        /\ \A q \in Requests \ {r} : closing'[q] = closing[q]
        /\ UNCHANGED <<session, owners>>
    BY <1>b, <1>21 DEF BudgetExpires, FailAndEvict, Transition
  <2>2. session[r] # NoOwner
    BY <2>1 DEF CoreInv, Control, ControlAt, Working, Dispatching
  <2>3. current # NoOwner
    BY <1>a, <2>1, <2>2 DEF SessionAt, CoreInv, Control, ControlAt
  <2>4. SessionAt(r)'
    BY <2>1, <2>2, <2>3, NoTurnType DEF SessionAt
  <2>5. closing[r] = NoOwner
    BY <1>a, <2>1 DEF SessionAt
  <2>6. NoSessionLeaked'
    BY <1>a, <1>c, <2>1, <2>5 DEF NoSessionLeaked, NoOwner
  <2> QED
    BY <1>o, <2>4, <2>6
<1>22. CASE EvictClosed(r) \/ EvictCancelled(r)
  <2>1. /\ pc[r] = "evict" /\ pc'[r] = "done"
        /\ owners' = [owners EXCEPT ![closing[r]] = "closed"]
        /\ closing'[r] = NoOwner
        /\ \A q \in Requests \ {r} : closing'[q] = closing[q]
        /\ UNCHANGED <<outcome, turn, session, current>>
    BY <1>b, <1>22 DEF EvictClosed, EvictCancelled, Transition
  <2>2. /\ owners' \in Seq(OwnerStates) /\ Len(owners') = Len(owners)
        /\ \A o \in 1 .. Len(owners) :
              owners'[o] = IF o = closing[r] THEN "closed" ELSE owners[o]
    BY <1>c, <2>1, OwnersAfterExcept DEF OwnerStates
  <2>3. SessionAt(r)'
    BY <1>a, <2>1, <2>2 DEF SessionAt
  <2>4. NoSessionLeaked'
    BY <1>a, <1>c, <2>1, <2>2 DEF NoSessionLeaked
  <2> QED
    BY <1>o, <2>3, <2>4
<1>23. CASE Cancel(r)
  BY <1>b, <1>23, <1>e DEF Cancel, Finish, Transition
<1> QED
  BY <1>1, <1>2, <1>3, <1>4, <1>5, <1>6, <1>7, <1>8, <1>9, <1>10, <1>11, <1>12, <1>13,
     <1>14, <1>15, <1>16, <1>17, <1>18, <1>19, <1>20, <1>21, <1>22, <1>23
  DEF TurnStep

(* Owners open, die and are forgotten, and no session is lost thereby.     *)
LEMMA SessionEnvironment ==
  ASSUME CoreInv, SessionInv,
         \/ \E o \in DOMAIN owners : OwnerStep(o)
         \/ \E a \in sent : ServerExecutes(a)
         \/ UNCHANGED vars
  PROVE  SessionInv'
<1>1. UNCHANGED <<pc, outcome, turn, session, closing, current>>
  BY DEF OwnerStep, OpenSucceeds, OwnerDies, RuntimeForgets, ServerExecutes, ownerVars, vars
<1>2. owners \in Seq(OwnerStates) /\ DOMAIN owners = 1 .. Len(owners)
  BY DEF CoreInv, TypeOK
<1>3. /\ Len(owners') = Len(owners) /\ DOMAIN owners' = DOMAIN owners
      /\ \A o \in DOMAIN owners : owners'[o] \in {"opening", "ready"} =>
            owners[o] \in {"opening", "ready"}
  <2>1. CASE \E o \in DOMAIN owners : OpenSucceeds(o) \/ OwnerDies(o)
    <3>1. PICK o \in DOMAIN owners, state \in {"ready", "dead"} :
            /\ owners[o] \in {"opening", "ready"}
            /\ owners' = [owners EXCEPT ![o] = state]
      BY <2>1 DEF OpenSucceeds, OwnerDies
    <3>2. state \in OwnerStates
      BY DEF OwnerStates
    <3>3. owners' \in Seq(OwnerStates)
      BY <1>2, <3>1, <3>2, OwnersAfterExcept
    <3> QED
      BY <1>2, <3>1, <3>2, <3>3, OwnersAfterExcept
  <2>2. CASE owners' = owners
    BY <2>2
  <2> QED
    BY <2>1, <2>2 DEF OwnerStep, RuntimeForgets, ServerExecutes, ownerVars, vars
<1> QED
  BY <1>1, <1>2, <1>3 DEF SessionInv, SessionAt, NoSessionLeaked

LEMMA SessionsCorrect == Spec => []SessionInv
<1>1. Init => SessionInv
  BY NoTurnType DEF Init, SessionInv, SessionAt, NoSessionLeaked, NoOwner
<1>2. CoreInv /\ SessionInv /\ [Next]_vars => SessionInv'
  <2> SUFFICES ASSUME CoreInv, SessionInv, [Next]_vars PROVE SessionInv'
    OBVIOUS
  <2>1. CASE AllAnswered
    BY <2>1, SessionEnvironment DEF AllAnswered
  <2> QED
    BY <2>1, SessionStep, SessionEnvironment DEF Next
<1> QED
  BY <1>1, <1>2, CoreCorrect, PTL DEF Spec

(* Every open or opening session is the one the next get() hands out, or   *)
(* is being closed by some request: no connection is left to nobody.       *)
THEOREM NoLeak == Spec => []NoSessionLeaked
<1>1. SessionInv => NoSessionLeaked
  BY DEF SessionInv
<1> QED
  BY <1>1, SessionsCorrect, PTL

(* After a session 404 no later call of the turn, and no card read, goes   *)
(* to the session that refused it.                                         *)
THEOREM RefusedNotReused == Spec => []RefusedSessionNotReused
<1>1. SessionInv => RefusedSessionNotReused
  BY DEF SessionInv, SessionAt, RefusedSessionNotReused
<1> QED
  BY <1>1, SessionsCorrect, PTL

(* A later turn never runs on a session on which a tool call or a card     *)
(* read timed out.                                                         *)
THEOREM TimedOutNotReused == Spec => []TimedOutSessionNotReused
<1>1. SessionInv => TimedOutSessionNotReused
  BY DEF SessionInv, SessionAt, TimedOutSessionNotReused
<1> QED
  BY <1>1, SessionsCorrect, PTL

===============================================================================
