---------------------------- MODULE MCPlayground ----------------------------
(***************************************************************************)
(* Two texts in each editor, with and without the endpoint.                *)
(***************************************************************************)
EXTENDS Playground

MCExample == [schema |-> "s", input |-> "i"]
=============================================================================
