--------------------------- MODULE ConverseHistory ---------------------------
(***************************************************************************)
(* The Bedrock Converse message history of one demo conversation, and the  *)
(* operations demo/orchestrator.py applies to it.                          *)
(*                                                                         *)
(* A message is abstracted to what the code and the Converse API tell      *)
(* apart: its role, whose words it holds (the turns whose text blocks are  *)
(* in it), the toolUse blocks it carries and the toolUse ids its           *)
(* toolResult blocks answer. The order of the blocks inside one message    *)
(* is left out: neither the code nor the API contract depends on it.       *)
(***************************************************************************)
EXTENDS Naturals, Sequences, SequencesExt, Keeping

(* A message as the code builds it: a user turn's text, an assistant       *)
(* message, and the user message that answers an assistant's toolUses.     *)
UserText(turn) ==
    [role |-> "user", texts |-> {turn}, uses |-> {}, results |-> {}]

AssistantMessage(texts, uses) ==
    [role |-> "assistant", texts |-> texts, uses |-> uses, results |-> {}]

ToolResults(uses) ==
    [role |-> "user", texts |-> {}, uses |-> {}, results |-> uses]

IsEmptyMessage(m) == m.texts = {} /\ m.uses = {} /\ m.results = {}

(***************************************************************************)
(* repair_history                                                          *)
(***************************************************************************)

(* Message i is an assistant message with a toolUse that the very next     *)
(* message, which must be a user message, does not answer.                 *)
Dangling(h, i) ==
    /\ h[i].role = "assistant"
    /\ h[i].uses # {}
    /\ ~ /\ i < Len(h)
         /\ h[i + 1].role = "user"
         /\ h[i].uses \subseteq h[i + 1].results

WithoutDangling(h) == Keep(h, {i \in DOMAIN h : ~Dangling(h, i)})

LiveUses(h) == UNION {m.uses : m \in {x \in ToSet(h) : x.role = "assistant"}}

(* Drop from user messages the toolResult blocks whose toolUse is gone.    *)
WithoutOrphanResults(h) ==
    [i \in DOMAIN h |-> IF h[i].role = "user"
                        THEN [h[i] EXCEPT !.results = @ \cap LiveUses(h)]
                        ELSE h[i]]

JoinMessages(m, n) ==
    [m EXCEPT !.texts = @ \cup n.texts, !.uses = @ \cup n.uses,
              !.results = @ \cup n.results]

WithoutEmpty(h) == Keep(h, {i \in DOMAIN h : ~IsEmptyMessage(h[i])})

(* merged[i]: what the first i messages become.                            *)
MergeAdjacent(h) ==
    LET merged[i \in 0 .. Len(h)] ==
            IF i = 0 THEN <<>>
            ELSE LET before == merged[i - 1] IN
                 IF before # <<>> /\ Last(before).role = h[i].role
                 THEN Append(Front(before), JoinMessages(Last(before), h[i]))
                 ELSE Append(before, h[i])
    IN  merged[Len(h)]

Repair(h) ==
    IF \A i \in DOMAIN h : ~Dangling(h, i)
    THEN h
    ELSE MergeAdjacent(WithoutEmpty(WithoutOrphanResults(WithoutDangling(h))))

(***************************************************************************)
(* The start of _run_turn_body: the customer's message joins a last user   *)
(* message, which only a repair can have left, or is appended.             *)
(***************************************************************************)
AlwaysAppendUserText(h, turn) == Append(h, UserText(turn))

AddUserText(h, turn) ==
    IF h # <<>> /\ Last(h).role = "user"
    THEN Append(Front(h), JoinMessages(Last(h), UserText(turn)))
    ELSE Append(h, UserText(turn))

(***************************************************************************)
(* What Bedrock Converse demands of the messages of a request (external:   *)
(* the ValidationException repair_history's docstring quotes).             *)
(***************************************************************************)
Alternates(h) == \A i \in 1 .. Len(h) - 1 : h[i].role # h[i + 1].role

EveryUseAnswered(h) == \A i \in DOMAIN h : ~Dangling(h, i)

EveryResultAsked(h) ==
    \A i \in DOMAIN h : h[i].results # {} =>
        /\ i > 1
        /\ h[i].results \subseteq h[i - 1].uses

ConverseAccepts(h) ==
    /\ h # <<>>
    /\ h[1].role = "user"
    /\ Last(h).role = "user"
    /\ \A m \in ToSet(h) : ~IsEmptyMessage(m)
    /\ Alternates(h)
    /\ EveryUseAnswered(h)
    /\ EveryResultAsked(h)

(* The turns whose words the customer's side of a history still holds.     *)
TurnsRemembered(h) ==
    UNION {m.texts : m \in {x \in ToSet(h) : x.role = "user"}}

==============================================================================
