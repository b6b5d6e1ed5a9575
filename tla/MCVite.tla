-------------------------------- MODULE MCVite --------------------------------
(* Vite for TLC: the client and ssr environments are interchangeable.      *)
EXTENDS Vite, TLC

CONSTANTS client, ssr

MCEnvironments == {client, ssr}
Symmetry == Permutations(MCEnvironments)
=============================================================================
