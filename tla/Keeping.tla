-------------------------------- MODULE Keeping --------------------------------
(***************************************************************************)
(* What the code does with a list in many places: keep some of its         *)
(* elements, in their order.  It is written as a recursive function, about *)
(* which theorems can be proved (module Induction).                        *)
(***************************************************************************)
EXTENDS Naturals, Sequences

(* The elements of s at the given positions.                               *)
Keep(s, positions) ==
    LET kept[i \in 0 .. Len(s)] ==
            IF i = 0 THEN <<>>
            ELSE IF i \in positions THEN Append(kept[i - 1], s[i])
            ELSE kept[i - 1]
    IN  kept[Len(s)]

================================================================================
