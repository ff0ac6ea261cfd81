-------------------------- MODULE MCMemoryRegistry --------------------------
(* Instances of MemoryRegistry for TLC: one server, two runs of the script *)
(* that may overlap, and pages of a single event.                          *)
EXTENDS MemoryRegistry, TLC

Symmetry == Permutations(Seeders)
=============================================================================
