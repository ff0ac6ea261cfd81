----------------------------- MODULE MCHouseholds -----------------------------
(***************************************************************************)
(* A small instance of Households: the two seeds of HOUSE_002_LIKE_SEED.   *)
(***************************************************************************)
EXTENDS Households, TLC

MCSeeds == <<"dryer", "washer">>

HouseholdSymmetry == Permutations(Sessions) \cup Permutations(HouseholdIds)

===============================================================================
