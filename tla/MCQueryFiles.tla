----------------------------- MODULE MCQueryFiles -----------------------------
(* QueryFiles for TLC: two interchangeable sources.                        *)
EXTENDS QueryFiles, TLC

CONSTANTS a, b

MCSources == {a, b}
Symmetry == Permutations(MCSources)
=============================================================================
