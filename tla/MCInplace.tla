------------------------------ MODULE MCInplace -----------------------------
(***************************************************************************)
(* Two aliases and two schemas; their names are interchangeable.           *)
(***************************************************************************)
EXTENDS Inplace

MCSymmetry == Permutations(Types) \cup Permutations(Schemas) \cup Permutations(Values)
=============================================================================
