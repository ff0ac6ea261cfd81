------------------------------- MODULE MCSpeaker -------------------------------
(***************************************************************************)
(* A small instance of Speaker: a short reply, a longer one and one that   *)
(* is too long, with room in the budget for two of the short ones.         *)
(***************************************************************************)
EXTENDS Speaker

MCLength == [short |-> 2, long |-> 3, huge |-> 9]

MCTexts == DOMAIN MCLength

================================================================================
