----------------------------- MODULE MCResolution -----------------------------
(***************************************************************************)
(* Instances of Resolution for TLC: files of up to three targets.          *)
(***************************************************************************)
EXTENDS Resolution

CONSTANTS x, y, z, A, B, C

MCExports == {x, y, z}
MCAliases == {A, B, C}

T(e, a, k) == [export |-> e, alias |-> a, kind |-> k]

(* Three exports of mixed kinds, an export with two aliases, two exports   *)
(* with one alias, and no target.                                          *)
MCFiles == {
  <<>>,
  <<T(x, A, "recursive"), T(y, B, "recursive"), T(z, C, "recursive")>>,
  <<T(x, A, "plain"), T(y, B, "recursive"), T(z, C, "plain")>>,
  <<T(x, A, "recursive"), T(x, B, "recursive"), T(y, C, "plain")>>,
  <<T(x, A, "plain"), T(y, A, "recursive"), T(x, B, "plain")>>,
  <<T(x, A, "external"), T(y, B, "recursive"), T(z, C, "external")>>}

(* One file of a recursive and a plain schema.                             *)
MCPair == {<<T(x, A, "recursive"), T(y, B, "plain")>>}
=============================================================================
