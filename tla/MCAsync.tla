------------------------------- MODULE MCAsync -------------------------------
(***************************************************************************)
(* Schemas of Async for TLC: the inputs and leaves of MCCompiled, each     *)
(* async container over some of them, and two levels of nesting.           *)
(***************************************************************************)
EXTENDS MCCompiled, Async

Shapes == {String, Warned, Pipe(String, <<CheckNotY>>), Pipe(String, <<Op(<<"error">>)>>),
           Preprocess(Op(<<"warning">>), String), Preprocess(To(Text("y")), String),
           Wrap("optional", String, NoDefault)}
KeyNotC == Pipe(String, <<[kind |-> "check", rejects |-> {Text("c")}]>>)

MCAsyncSchemas ==
  Leaves
    \cup ByReference
    \cup {Object(s, Warned, rest, TRUE) : s \in Shapes \cap Core, rest \in {"passthrough", "exact"}}
    \cup {Array(s) : s \in Shapes \cap Leaves}
    \cup {Record(KeyNotC, s) : s \in Shapes \cap Leaves}
    \cup {Union(<<s, t>>) : s, t \in Shapes \cap Core}
    \cup {Discriminated(<<Object(Literal(Text("x")), s, "exact", FALSE),
                          Object(Literal(Text("y")), String, "strip", FALSE)>>) : s \in Core}
    \cup {Union(<<Array(s), Preprocess(Op(<<"warning">>), Object(s, s, "exact", TRUE))>>) : s \in Core}
    \cup {Pipe(Object(s, Warned, "strip", TRUE), <<Op(<<"error">>), Op(<<"warning">>)>>) : s \in Core}

MCChanges ==
  {Obj(<<<<"a", Text("y")>>, <<"b", Number1>>>>), Obj(<<<<"b", Text("x")>>, <<"c", Number1>>>>),
   Obj(<<>>), Arr(<<>>), Arr(<<Text("y"), Text("x")>>)}
=============================================================================
