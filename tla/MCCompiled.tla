------------------------------ MODULE MCCompiled ------------------------------
(***************************************************************************)
(* Schemas, inputs and configurations of Compiled for TLC: every container *)
(* and wrapper over a set of leaves, some nesting of them, a recursive     *)
(* schema, and inputs that match, mismatch and half match them.            *)
(***************************************************************************)
EXTENDS Compiled, FiniteSetsExt

(* Values *)
Text(t) == [type |-> "string", token |-> t]
Number1 == [type |-> "number", token |-> "1"]
Obj(own) == [type |-> "object", own |-> own]
Arr(items) == [type |-> "array", items |-> items]

Scalars == {Text("x"), Text("y"), Number1, NaN, Null, Undefined, Date("1"), Date("invalid"),
            [type |-> "bigint", token |-> "1"]}
Few == {Text("x"), Text("y"), Number1}

MCInputs ==
  Scalars
    \cup {Obj(<<<<"a", v>>, <<"b", w>>>>) : v, w \in Few}
    \cup {Obj(<<<<"b", Text("x")>>, <<"c", v>>>>) : v \in Few}
    \cup {Obj(<<<<"a", Text("x")>>, <<"b", Date("1")>>>>)}
    \cup {Obj(<<<<"a", Text("x")>>, <<"c", Null>>, <<"d", Null>>>>), Obj(<<>>)}
    \cup {Obj(<<<<"a", v>>, <<"b", Obj(<<<<"a", w>>, <<"c", Null>>>>)>>>>) : v, w \in Few}
    \cup {Arr(<<v, w>>) : v, w \in Few}
    \cup {Arr(<<>>), Arr(<<Obj(<<<<"a", Text("y")>>>>), Obj(<<<<"b", Number1>>>>)>>)}

(* Schemas *)
Primitive(type, message) == [type |-> type, message |-> message]
String == Primitive("string", "none")
Literal(v) == [type |-> "literal", literal |-> v, message |-> "none"]
Foreign(claims, vs) ==
  [type |-> "foreign", claims |-> claims, accepts |-> vs, message |-> "none"]
Object(a, b, rest, omit) ==
  [type |-> "object", keys |-> <<"a", "b">>, kids |-> <<a, b>>, rest |-> rest,
   optionalKeys |-> omit, message |-> "object"]
Picklist(options) == [type |-> "picklist", options |-> options, message |-> "none"]
Array(item) == [type |-> "array", item |-> item, message |-> "none"]
Tuple(kids) == [type |-> "tuple", kids |-> kids, message |-> "none"]
Record(key, item) == [type |-> "record", key |-> key, item |-> item, message |-> "none"]
Union(kids) == [type |-> "union", kids |-> kids, message |-> "none"]
Discriminated(kids) ==
  [type |-> "discriminated_union", tag |-> "a", kids |-> kids, message |-> "none"]
NoDefault == [given |-> FALSE, value |-> Undefined]
Default(v) == [given |-> TRUE, value |-> v]
Wrap(type, wrapped, default) == [type |-> type, wrapped |-> wrapped, default |-> default]
Pipe(wrapped, ops) ==
  [type |-> "pipe", wrapped |-> wrapped, ops |-> ops, claims |-> TypeOf(wrapped)]
Preprocess(op, wrapped) == [type |-> "preprocess", op |-> op, wrapped |-> wrapped]
Fallback(wrapped, v) == [type |-> "fallback", wrapped |-> wrapped, fallback |-> v]

(* Actions *)
CheckNotY == [kind |-> "check", rejects |-> {Text("y")}]
Op(issues) == [kind |-> "transform", keeps |-> TRUE, to |-> Undefined, issues |-> issues]
Branded == [kind |-> "brand"]
To(v) == [kind |-> "transform", keeps |-> FALSE, to |-> v, issues |-> <<>>]

Warned == Pipe(String, <<Op(<<"warning">>)>>)
Core == {String, Primitive("number", "custom"), Warned, Pipe(String, <<CheckNotY>>),
         Foreign("string", {Text("x")}), Wrap("optional", String, NoDefault)}
Leaves ==
  Core \cup
  {Literal(Text("x")),
   Pipe(String, <<CheckNotY, Op(<<"error", "error">>), CheckNotY>>),
   Pipe(Pipe(String, <<CheckNotY>>), <<CheckNotY, Op(<<"warning">>)>>),
   Pipe(String, <<To(Undefined)>>),
   Pipe(Wrap("optional", String, NoDefault), <<CheckNotY>>),
   Wrap("optional", String, Default(Text("y"))),
   Wrap("nullish", String, NoDefault),
   Wrap("nullish", Warned, Default(Undefined)),
   Wrap("nullable", String, Default(Text("x"))),
   Preprocess(Op(<<"warning">>), String),
   Preprocess(Op(<<"warning", "error", "warning">>), String),
   Preprocess(To(Text("y")), Pipe(String, <<CheckNotY>>)),
   Fallback(Pipe(String, <<CheckNotY>>), Text("x")),
   Foreign("optional", {Undefined, Number1}),
   Pipe(Picklist({Text("y"), Number1}), <<Branded, CheckNotY>>),
   Wrap("nullish", Primitive("date", "none"), NoDefault)}
    \cup {Primitive(type, "none") : type \in {"bigint", "null", "undefined", "never", "any"}}

(* The output is the input itself, and some inputs are refused. *)
Refused == Pipe(Primitive("any", "none"),
                <<[kind |-> "check",
                   rejects |-> {Obj(<<<<"a", Text("y")>>, <<"b", Number1>>>>), Arr(<<Text("y"), Text("x")>>)}]>>)
ByReference == {Refused, Union(<<String, Refused>>), Preprocess(Op(<<"warning">>), Refused)}

Objects == {Object(a, b, rest, omit) :
              a, b \in Core, rest \in {"strip", "passthrough", "exact"}, omit \in BOOLEAN}
Flat ==
  {Array(s) : s \in Leaves}
    \cup {Object(s, String, "exact", TRUE) : s \in Leaves}
    \cup {Tuple(<<s, Warned>>) : s \in Leaves}
    \cup {Record(Pipe(String, <<[kind |-> "check", rejects |-> {Text("c")}]>>), s) : s \in Leaves}
    \cup {Union(<<s, t>>) : s, t \in Core}
    \cup {Discriminated(<<Object(Literal(Text("x")), s, "exact", FALSE),
                          Object(Literal(Text("y")), String, "strip", FALSE)>>) : s \in Core}
    \cup {Discriminated(<<Object(Picklist({Text("x"), Number1}), String, "exact", FALSE),
                          Object(Literal(Text("y")), Warned, "strip", FALSE)>>)}
    \cup {Wrap(type, Object(String, s, "exact", TRUE), NoDefault) :
            type \in {"optional", "nullish", "nullable"}, s \in Core}
Nested ==
  {Object(String, s, "exact", FALSE) : s \in Flat}
    \cup {Array(Object(s, Warned, "passthrough", TRUE)) : s \in Core}
    \cup {Union(<<Array(s), Preprocess(Op(<<"warning">>), Object(s, s, "exact", TRUE))>>) : s \in Core}
    \cup {Pipe(Object(s, Warned, "strip", TRUE), <<Op(<<"error">>), Op(<<"warning">>)>>) : s \in Core}
    \cup {Fallback(Array(s), Arr(<<>>)) : s \in Core}
    \cup {Preprocess(Op(<<"warning">>), Object(s, Warned, "exact", TRUE)) : s \in Core}

(* type List = { a: string; b?: List }                                     *)
List == [type |-> "recursive", name |-> "List"]
MCDefinitions ==
  [List |-> Object(Warned, Wrap("optional", List, NoDefault), "exact", TRUE)]

MCSchemas == Leaves \cup ByReference \cup Objects \cup Flat \cup Nested \cup {List}

MCConfigs ==
  {[reject |-> FALSE, abortPipeEarly |-> FALSE],
   [reject |-> FALSE, abortPipeEarly |-> TRUE],
   [reject |-> TRUE, abortPipeEarly |-> FALSE]}

(* The methods: what the factories and compile() build, whatever the call. *)
(* The LETs keep TLC's coverage report from unfolding the recursion.       *)
MCRun(s, d, cfg) == LET r == RunBody(s, d, cfg) IN r
MCStep(s, c, cfg) == LET r == StepBody(s, c, cfg) IN r

(* The calls of the callers, and those that they make in turn, level by    *)
(* level: no run makes more than Width calls, none is deeper than the last *)
(* level.                                                                  *)
Width == 4
Some(calls, i) == IF i \in DOMAIN calls THEN calls[i] ELSE <<>>
Below(calls) ==
  {Some(Inner(x[1], x[2]), i) : x \in calls, i \in 1 .. Width} \ {<<>>}
Calls0 == MCSchemas \X {Fresh(v) : v \in MCInputs}
Calls1 == Below(Calls0)
Calls2 == Below(Calls1)
Calls3 == Below(Calls2)
Calls4 == Below(Calls3)
Calls5 == Below(Calls4)
MCCalls == Calls0 \cup Calls1 \cup Calls2 \cup Calls3 \cup Calls4 \cup Calls5

RECURSIVE MCRank(_)
MCRank(x) == 1 + Max({0} \cup {MCRank(y) : y \in Range(Inner(x[1], x[2]))})

BelowSteps(cursors) ==
  {Some(InnerSteps(x[1], x[2], x[3]), i) : x \in cursors, i \in 1 .. Width} \ {<<>>}
MCCursors ==
  LET cursors0 == MCSchemas \X {StartCursor(v) : v \in MCInputs} \X MCConfigs
      cursors1 == BelowSteps(cursors0)
      cursors2 == BelowSteps(cursors1)
      cursors3 == BelowSteps(cursors2)
  IN  cursors0 \cup cursors1 \cup cursors2 \cup cursors3
=============================================================================
