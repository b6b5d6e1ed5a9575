------------------------------ MODULE MCWalker ------------------------------
(***************************************************************************)
(* All graphs of three schemas with at most two parts each, reached from   *)
(* the first; with optionalKeys, or with getters that build nothing, the   *)
(* last or the last two.                                                   *)
(***************************************************************************)
EXTENDS Walker

S == 1 .. 3

Shapes ==
  {[kind |-> "object", parts |-> c] : c \in {<<>>, <<2, NoObject>>} \cup (S \X S)}
  \cup {[kind |-> k, parts |-> <<s>>] :
          k \in {"lazy", "recursive", "optional", "template", "transform"}, s \in S}
  \cup {[kind |-> "foreign", parts |-> <<>>]}

Connected(g) ==
  LET edge(p) == {g[p].parts[i] : i \in DOMAIN g[p].parts} \ {NoObject}
  IN edge(1) \cup UNION {edge(p) : p \in edge(1)} \cup {1} = S

MCGraphs ==
  {[kind |-> [s \in S |-> g[s].kind], parts |-> [s \in S |-> g[s].parts],
    fresh |-> v[1], optionalKeys |-> v[2]] :
     <<g, v>> \in {h \in [S -> Shapes] : Connected(h)}
                \X {<<{}, TRUE>>, <<{}, FALSE>>, <<{3}, FALSE>>, <<{2, 3}, FALSE>>}}

MCExports ==
  {1 :> "A", (1 :> "A") @@ (2 :> "object"), (1 :> "A") @@ (3 :> "B"), (2 :> "A") @@ (3 :> "A")}
=============================================================================
