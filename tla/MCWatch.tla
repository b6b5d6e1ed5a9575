------------------------------- MODULE MCWatch -------------------------------
(***************************************************************************)
(* Instances of Watch for TLC: two sources, one helper module imported by  *)
(* the first source, the tsconfig.                                         *)
(***************************************************************************)
EXTENDS Watch, TLC

CONSTANTS a, b, h, tsconfig

MCSources == {a, b}
MCHelpers == {h}

(* Their paths sort as a, b. *)
MCOrder == (a :> 1) @@ (b :> 2)

(* a imports the helper, b imports nothing *)
ImportsHelper == (a :> {h}) @@ (b :> {})
=============================================================================
