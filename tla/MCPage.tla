--------------------------------- MODULE MCPage ---------------------------------
(***************************************************************************)
(* A small instance of Page: two messages, a short reply and one that is   *)
(* too long for Polly, with room in the budget for one short reply at a    *)
(* time.                                                                   *)
(***************************************************************************)
EXTENDS Page

MCLength == [short |-> 2, huge |-> 9]

MCTexts == DOMAIN MCLength

================================================================================
