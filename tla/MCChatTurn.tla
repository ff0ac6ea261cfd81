------------------------------ MODULE MCChatTurn ------------------------------
(***************************************************************************)
(* A small instance of ChatTurn for TLC: one tool that is not idempotent,  *)
(* add_appliance, and diagnose_error, which is, and which has a card.      *)
(***************************************************************************)
EXTENDS ChatTurn, TLC

MCTools == {"add_appliance", "diagnose_error"}

MCIdempotentTools == {"diagnose_error"}

MCCardTools == {"diagnose_error"}

(* A view that forgets the attempts whose execution can change nothing any *)
(* more: those of idempotent tools that no request is waiting for.         *)
Relevant(attempts) ==
    {a \in attempts : \/ a.tool \notin IdempotentTools
                      \/ pc[a.turn] = "call" /\ a = CurrentAttempt(a.turn)}

RelevantState == <<pc, outcome, turn, session, closing, historyVars, ownerVars,
                   Relevant(sent), Relevant(executed), faults>>

RequestSymmetry == Permutations(Requests)

==============================================================================
