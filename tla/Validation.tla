------------------------------ MODULE Validation ------------------------------
(***************************************************************************)
(* The validation runtime of tskm: `~run` of the schemas, methods and      *)
(* actions of packages/tskm/src, over schemas and datasets.                *)
(*                                                                         *)
(* A schema runs its children by calling the method they carry.  Run is    *)
(* that method, a parameter: RunBody says what it does in terms of itself, *)
(* and RunAssumption that it does so on every call of Calls, a set that    *)
(* holds the calls its members make and on which the recursion ends.       *)
(*                                                                         *)
(* A schema is a record whose `type` is the factory that built it; a       *)
(* dataset is [value, typed, issues], where an undefined `typed` is FALSE  *)
(* and undefined `issues` are <<>>.  Contents of strings and numbers are   *)
(* abstracted to tokens, `expected` and `received` of an issue to its type *)
(* and input, user functions to tables.  An operation of the user reports   *)
(* any list of issues per call; a throw in a preprocess is a last error.    *)
(***************************************************************************)
EXTENDS Integers, Sequences, Functions

CONSTANTS
  Definitions,    \* Definitions[name]: the schema the getter of a lazy or recursive schema returns
  Configs,        \* run configurations of the callers
  Run(_, _, _),   \* Run(s, d, cfg): the `~run` of schema s on dataset d
  Calls,          \* calls <<s, d>> of `~run`, with every call they make in turn
  Rank(_)         \* a bound on the depth of a call

(* Values                                                                  *)
Undefined == [type |-> "undefined"]
Null == [type |-> "null"]
NaN == [type |-> "number", token |-> "NaN"]
Date(token) == [type |-> "date", token |-> token, own |-> <<>>]
IsObject(v) == v.type \in {"object", "date"}
IsArray(v) == v.type = "array"

HasOwn(own, key) == \E i \in DOMAIN own : own[i][1] = key
Get(own, key) ==
  IF HasOwn(own, key) THEN own[CHOOSE i \in DOMAIN own : own[i][1] = key][2] ELSE Undefined

(* _safeAssign: an own property, whatever the key is.                      *)
Assign(own, key, v) ==
  IF HasOwn(own, key)
  THEN [i \in DOMAIN own |-> IF own[i][1] = key THEN <<key, v>> ELSE own[i]]
  ELSE Append(own, <<key, v>>)

(* Path segment of an array index                                          *)
Index(i) == <<"#0", "#1", "#2", "#3">>[i]

-----------------------------------------------------------------------------
(* Issues and datasets                                                     *)
Fresh(v) == [value |-> v, typed |-> FALSE, issues |-> <<>>]
IsWarning(issue) == issue.severity = "warning"
HasError(issues) == \E i \in DOMAIN issues : ~ IsWarning(issues[i])

Issue(kind, type, v, severity, message, path) ==
  [kind |-> kind, type |-> type, input |-> v, severity |-> severity,
   message |-> message, path |-> path]

(* A schema issue is about the shape of the value: the dataset is untyped. *)
AddIssue(d, kind, type, message, path) ==
  [d EXCEPT !.issues = Append(@, Issue(kind, type, d.value, "error", message, path)),
            !.typed = @ /\ kind # "schema"]
Mismatch(d, s) == AddIssue([d EXCEPT !.typed = FALSE], "schema", s.type, s.message, <<>>)

Under(key, issues) == [i \in DOMAIN issues |-> [issues[i] EXCEPT !.path = <<key>> \o @]]

(* The public `type` of a schema: `claims` where it is not the factory.    *)
(* pipe() spreads its schema, so that it claims the type of that schema,   *)
(* and a foreign schema may claim any type.                                *)
TypeOf(s) == IF s.type \in {"pipe", "foreign"} THEN s.claims ELSE s.type
Omittable(s) == TypeOf(s) \in {"optional", "nullish"}

-----------------------------------------------------------------------------
(* Containers: a loop over the children builds a fresh output; `data` is   *)
(* the dataset of the container, whose value is still the input.           *)
Enter(d) == [data |-> [d EXCEPT !.typed = TRUE], out |-> <<>>, aborted |-> FALSE]
Leave(loop, output) ==
  IF loop.aborted THEN loop.data ELSE [loop.data EXCEPT !.value = output]

(* Mutant: a warning of a child aborts the container, too.                 *)
AbortsOnAny(issues, cfg) == cfg.reject /\ issues # <<>>

Aborts(issues, cfg) == cfg.reject /\ HasError(issues)

Collect(d, key, r, stop) ==
  [d EXCEPT !.issues = @ \o Under(key, r.issues), !.typed = @ /\ r.typed /\ ~ stop]

(* A place of a container: a path segment, the schema of the child there,  *)
(* its input, and whether an undefined output is left out.                 *)
Place(key, child, v, omit) == [key |-> key, child |-> child, v |-> v, omit |-> omit]
KeyPlaces(s, own) ==
  [i \in DOMAIN s.keys |-> Place(s.keys[i], s.kids[i], Get(own, s.keys[i]),
                                 s.optionalKeys /\ Omittable(s.kids[i]))]
ItemPlaces(kids, items) == [i \in DOMAIN items |-> Place(Index(i), kids[i], items[i], FALSE)]

Visit(loop, place, cfg) ==
  LET r == Run(place.child, Fresh(place.v), cfg)
      stop == Aborts(r.issues, cfg)
  IN  IF loop.aborted THEN loop
      ELSE [data |-> Collect(loop.data, place.key, r, stop),
            aborted |-> stop,
            out |-> IF stop \/ (place.omit /\ r.value = Undefined)
                    THEN loop.out
                    ELSE Assign(loop.out, place.key, r.value)]

(* The loop after each number of places                                    *)
Visits(start, places, cfg) ==
  LET after[n \in 0 .. Len(places)] ==
        IF n = 0 THEN start ELSE Visit(after[n - 1], places[n], cfg)
  IN  after

(* _applyRest: keys of the input that the schema does not declare.         *)
ApplyRestKey(loop, s, property, cfg) ==
  LET key == property[1]
  IN  IF loop.aborted \/ \E i \in DOMAIN s.keys : s.keys[i] = key THEN loop
      ELSE IF s.rest = "passthrough"
      THEN [loop EXCEPT !.out = Assign(@, key, property[2])]
      ELSE [loop EXCEPT !.data = AddIssue(@, "schema", "object", s.message, <<key>>),
                        !.aborted = cfg.reject]
RestVisits(start, s, own, cfg) ==
  LET after[n \in 0 .. Len(own)] ==
        IF n = 0 THEN start ELSE ApplyRestKey(after[n - 1], s, own[n], cfg)
  IN  after
ApplyRest(loop, s, own, cfg) ==
  IF loop.aborted \/ s.rest = "strip" THEN loop ELSE RestVisits(loop, s, own, cfg)[Len(own)]

RunObject(s, d, cfg) ==
  LET places == KeyPlaces(s, d.value.own)
      loop == Visits(Enter(d), places, cfg)[Len(places)]
      done == ApplyRest(loop, s, d.value.own, cfg)
  IN  IF ~ IsObject(d.value) THEN Mismatch(d, s)
      ELSE Leave(done, [type |-> "object", own |-> done.out])

Items(out) == [type |-> "array", items |-> [i \in DOMAIN out |-> out[i][2]]]
RunItems(kids, d, cfg) ==
  LET places == ItemPlaces(kids, d.value.items)
      loop == Visits(Enter(d), places, cfg)[Len(places)]
  IN  Leave(loop, Items(loop.out))

SameItem(s, items) == [i \in DOMAIN items |-> s.item]
ArrayPlaces(s, items) == ItemPlaces(SameItem(s, items), items)
RunArray(s, d, cfg) ==
  IF IsArray(d.value) THEN RunItems(SameItem(s, d.value.items), d, cfg) ELSE Mismatch(d, s)

IsTupleOf(s, v) == IsArray(v) /\ Len(v.items) = Len(s.kids)
RunTuple(s, d, cfg) ==
  IF IsTupleOf(s, d.value) THEN RunItems(s.kids, d, cfg) ELSE Mismatch(d, s)

(* The validated key names the output property; an invalid key untypes the *)
(* record, and its value is validated all the same unless the run aborts.  *)
Name(property) == [type |-> "string", token |-> property[1]]
VisitRecord(loop, s, property, cfg) ==
  LET k == Run(s.key, Fresh(Name(property)), cfg)
      stop == Aborts(k.issues, cfg)
      keyed == [loop EXCEPT
                  !.data.issues = @ \o Under(property[1], k.issues),
                  !.data.typed = @ /\ ~ HasError(k.issues),
                  !.aborted = stop]
      r == Run(s.item, Fresh(property[2]), cfg)
      stopped == Aborts(r.issues, cfg)
  IN  IF loop.aborted THEN loop
      ELSE IF stop THEN keyed
      ELSE [data |-> Collect(keyed.data, property[1], r, stopped),
            aborted |-> stopped,
            out |-> IF stopped THEN loop.out ELSE Assign(loop.out, k.value.token, r.value)]
RecordVisits(start, s, own, cfg) ==
  LET after[n \in 0 .. Len(own)] ==
        IF n = 0 THEN start ELSE VisitRecord(after[n - 1], s, own[n], cfg)
  IN  after
RunRecord(s, d, cfg) ==
  LET loop == RecordVisits(Enter(d), s, d.value.own, cfg)[Len(d.value.own)]
  IN  IF ~ IsObject(d.value) THEN Mismatch(d, s)
      ELSE Leave(loop, [type |-> "object", own |-> loop.out])

-----------------------------------------------------------------------------
(* Alternatives                                                            *)

Matches(r) == r.typed /\ ~ HasError(r.issues)
Matching(r) == {i \in DOMAIN r : Matches(r[i])}
FirstMatch(r) == r[CHOOSE i \in Matching(r) : \A j \in Matching(r) : i <= j]

(* Every member gets a dataset of its own; the issues of the first match   *)
(* become those of the union.                                              *)
RunUnion(s, d, cfg) ==
  LET r == [i \in DOMAIN s.kids |-> Run(s.kids[i], Fresh(d.value), cfg)]
  IN  IF Matching(r) = {} THEN Mismatch(d, s)
      ELSE [FirstMatch(r) EXCEPT !.issues = IF @ = <<>> THEN d.issues ELSE @]

(* discriminantTags: a literal, or the options of a picklist.              *)
Tags(entry) == IF entry.type = "literal" THEN {entry.literal} ELSE entry.options
Declares(member, tag, v) ==
  \E i \in DOMAIN member.keys : member.keys[i] = tag /\ v \in Tags(member.kids[i])

(* Only the member that declares the tag of the input is run.              *)
Tagged(s, own) == {i \in DOMAIN s.kids : Declares(s.kids[i], s.tag, Get(own, s.tag))}
Member(s, own) == s.kids[CHOOSE i \in Tagged(s, own) : TRUE]
RunDiscriminated(s, d, cfg) ==
  LET r == Run(Member(s, d.value.own), Fresh(d.value), cfg)
  IN  IF ~ IsObject(d.value) \/ Tagged(s, d.value.own) = {} THEN Mismatch(d, s)
      ELSE [r EXCEPT !.issues = d.issues \o @]

-----------------------------------------------------------------------------
(* Leaves and wrappers                                                     *)

Accept(s, d, valid) == IF valid THEN [d EXCEPT !.typed = TRUE] ELSE Mismatch(d, s)

IsPrimitive(type, v) == v.type = type /\ v # NaN
RunPrimitive(s, d) == Accept(s, d, IsPrimitive(s.type, d.value))
RunNull(s, d) == Accept(s, d, d.value = Null)
RunUndefined(s, d) == Accept(s, d, d.value = Undefined)
RunDate(s, d) == Accept(s, d, d.value.type = "date" /\ d.value # Date("invalid"))
RunLiteral(s, d) == Accept(s, d, d.value = s.literal /\ d.value # NaN)
RunPicklist(s, d) == Accept(s, d, d.value \in s.options)
RunNever(s, d) == Mismatch(d, s)
RunAny(d) == [d EXCEPT !.typed = TRUE]

(* A schema of another library: its own `~run` decides.                    *)
RunForeign(s, d) == Accept(s, d, d.value \in s.accepts)

(* A default may be a getter, whose result may be undefined: for nullish   *)
(* and nullable that is not the same as no default at all.                 *)
Absent(s) ==
  CASE s.type = "optional" -> {Undefined}
    [] s.type = "nullable" -> {Null}
    [] s.type = "nullish" -> {Undefined, Null}
RunOptional(s, d, cfg) ==
  IF d.value \notin Absent(s) THEN Run(s.wrapped, d, cfg)
  ELSE [d EXCEPT !.typed = TRUE, !.value = IF s.default.given THEN s.default.value ELSE @]

(* An action of a pipe on a dataset.                                       *)
Check(op, d) ==
  IF d.typed /\ d.value \in op.rejects
  THEN AddIssue(d, "validation", "check", "none", <<>>)
  ELSE d

(* What an operation reports through ctx.issue, in order, whatever the     *)
(* configuration, and whether that makes it fail.                          *)
Reported(op, d, type) ==
  [i \in DOMAIN op.issues |-> Issue("transformation", type, d.value, op.issues[i], "none", <<>>)]
Fails(op) == "error" \in Range(op.issues)
Mapped(op, v) == IF op.keeps THEN v ELSE op.to

(* Mutant: a warning untypes the dataset, too.                             *)
TransformUntypes(op, d) ==
  IF ~ d.typed THEN d
  ELSE [value |-> Mapped(op, d.value),
        typed |-> op.issues = <<>>,
        issues |-> d.issues \o Reported(op, d, "transform")]

Transform(op, d) ==
  IF ~ d.typed THEN d
  ELSE [value |-> Mapped(op, d.value),
        typed |-> ~ Fails(op),
        issues |-> d.issues \o Reported(op, d, "transform")]

(* A brand is for the compiler only: the dataset goes through.             *)
Brand(d) == d

Acts(op, d) ==
  CASE op.kind = "check" -> Check(op, d)
    [] op.kind = "transform" -> Transform(op, d)
    [] op.kind = "brand" -> Brand(d)

(* Mutant: a pipe goes on after an error in reject mode.                   *)
PipeStopsExplicit(d, cfg) == cfg.abortPipeEarly /\ HasError(d.issues)

PipeStops(d, cfg) == (cfg.reject \/ cfg.abortPipeEarly) /\ HasError(d.issues)

ActNext(d, op, cfg) == IF PipeStops(d, cfg) THEN d ELSE Acts(op, d)
ActsInTurn(start, ops, cfg) ==
  LET after[n \in 0 .. Len(ops)] == IF n = 0 THEN start ELSE ActNext(after[n - 1], ops[n], cfg)
  IN  after
RunPipe(s, d, cfg) == ActsInTurn(Run(s.wrapped, d, cfg), s.ops, cfg)[Len(s.ops)]

(* An error, or a throw, of the operation leaves the original value.       *)
Preprocessed(s, d) ==
  [d EXCEPT !.value = Mapped(s.op, @), !.issues = @ \o Reported(s.op, d, "preprocess")]
RunPreprocess(s, d, cfg) ==
  IF Fails(s.op)
  THEN [d EXCEPT !.typed = FALSE, !.issues = @ \o Reported(s.op, d, "preprocess")]
  ELSE Run(s.wrapped, Preprocessed(s, d), cfg)

RunFallback(s, d, cfg) ==
  LET r == Run(s.wrapped, d, cfg)
  IN  IF HasError(r.issues)
      THEN [value |-> s.fallback, typed |-> TRUE, issues |-> <<>>]
      ELSE r

(* The getter is called once; what it returns is a constant.               *)
RunLazy(s, d, cfg) == Run(Definitions[s.name], d, cfg)

(* What `~run` of the schema that each factory builds does.                *)
RunBody(s, d, cfg) ==
  CASE s.type \in {"string", "number", "boolean", "bigint"} -> RunPrimitive(s, d)
    [] s.type = "null" -> RunNull(s, d)
    [] s.type = "undefined" -> RunUndefined(s, d)
    [] s.type = "date" -> RunDate(s, d)
    [] s.type = "literal" -> RunLiteral(s, d)
    [] s.type = "picklist" -> RunPicklist(s, d)
    [] s.type = "never" -> RunNever(s, d)
    [] s.type \in {"any", "unknown"} -> RunAny(d)
    [] s.type = "foreign" -> RunForeign(s, d)
    [] s.type = "object" -> RunObject(s, d, cfg)
    [] s.type = "array" -> RunArray(s, d, cfg)
    [] s.type = "tuple" -> RunTuple(s, d, cfg)
    [] s.type = "record" -> RunRecord(s, d, cfg)
    [] s.type = "union" -> RunUnion(s, d, cfg)
    [] s.type = "discriminated_union" -> RunDiscriminated(s, d, cfg)
    [] s.type \in {"optional", "nullable", "nullish"} -> RunOptional(s, d, cfg)
    [] s.type = "pipe" -> RunPipe(s, d, cfg)
    [] s.type = "preprocess" -> RunPreprocess(s, d, cfg)
    [] s.type = "fallback" -> RunFallback(s, d, cfg)
    [] s.type \in {"lazy", "recursive"} -> RunLazy(s, d, cfg)

(* safeParse: success is the absence of an error.                          *)
Result(d) ==
  LET ok == ~ HasError(d.issues)
  IN  [success |-> ok, output |-> d.value,
       issues |-> IF ok THEN <<>> ELSE d.issues,
       warnings |-> SelectSeq(d.issues, IsWarning)]

-----------------------------------------------------------------------------
(* The calls: what the program hands to `~run`, and what `~run` hands on.  *)

SchemaTypes ==
  {"string", "number", "boolean", "bigint", "null", "undefined", "date", "literal",
   "picklist", "never", "any", "unknown", "foreign", "object", "array", "tuple", "record",
   "union", "discriminated_union", "optional", "nullable", "nullish", "pipe", "preprocess",
   "fallback", "lazy", "recursive"}
Severities == {"warning", "error"}
IsList(q) == q \in Seq(Range(q))
IsReporter(op) == op.issues \in Seq(Severities)
IsOperation(op) ==
  /\ op.kind \in {"check", "transform", "brand"}
  /\ op.kind = "transform" => IsReporter(op)
IsSchema(s) ==
  /\ s.type \in SchemaTypes
  /\ s.type = "object" => IsList(s.keys) /\ IsList(s.kids) /\ Len(s.keys) = Len(s.kids)
  /\ s.type \in {"tuple", "union", "discriminated_union"} => IsList(s.kids)
  /\ s.type = "pipe" => /\ s.claims = TypeOf(s.wrapped)
                        /\ IsList(s.ops)
                        /\ \A i \in DOMAIN s.ops : IsOperation(s.ops[i])
  /\ s.type = "preprocess" => IsReporter(s.op)
IsValue(v) ==
  /\ IsObject(v) => /\ IsList(v.own)
                    /\ \A i, j \in DOMAIN v.own : v.own[i][1] = v.own[j][1] => i = j
  /\ IsArray(v) => IsList(v.items)
IsIssue(issue) ==
  issue = Issue(issue.kind, issue.type, issue.input, issue.severity, issue.message, issue.path)
IsDataset(d) ==
  /\ d = [value |-> d.value, typed |-> d.typed, issues |-> d.issues]
  /\ d.typed \in BOOLEAN
  /\ IsList(d.issues)
  /\ \A i \in DOMAIN d.issues : IsIssue(d.issues[i])

(* The calls that the run of s on d may make; they depend on no result.    *)
Children(places) == [i \in DOMAIN places |-> <<places[i].child, Fresh(places[i].v)>>]
Inner(s, d) ==
  CASE s.type = "object" /\ IsObject(d.value) -> Children(KeyPlaces(s, d.value.own))
    [] s.type = "array" /\ IsArray(d.value) -> Children(ArrayPlaces(s, d.value.items))
    [] s.type = "tuple" /\ IsTupleOf(s, d.value) -> Children(ItemPlaces(s.kids, d.value.items))
    [] s.type = "record" /\ IsObject(d.value) ->
         LET own == d.value.own
         IN  [i \in DOMAIN own |-> <<s.key, Fresh(Name(own[i]))>>]
               \o [i \in DOMAIN own |-> <<s.item, Fresh(own[i][2])>>]
    [] s.type = "union" -> [i \in DOMAIN s.kids |-> <<s.kids[i], Fresh(d.value)>>]
    [] s.type = "discriminated_union" /\ IsObject(d.value) /\ Tagged(s, d.value.own) # {} ->
         <<<<Member(s, d.value.own), Fresh(d.value)>>>>
    [] s.type \in {"optional", "nullable", "nullish"} /\ d.value \notin Absent(s) ->
         <<<<s.wrapped, d>>>>
    [] s.type \in {"pipe", "fallback"} -> <<<<s.wrapped, d>>>>
    [] s.type = "preprocess" /\ ~ Fails(s.op) -> <<<<s.wrapped, Preprocessed(s, d)>>>>
    [] s.type \in {"lazy", "recursive"} -> <<<<Definitions[s.name], d>>>>
    [] OTHER -> <<>>

ReportMode == [reject |-> FALSE, abortPipeEarly |-> FALSE]
Modes == Configs \cup {ReportMode}

ASSUME ConfigsAssumption ==
  \A cfg \in Configs : cfg.reject \in BOOLEAN /\ cfg.abortPipeEarly \in BOOLEAN

ASSUME CallsAssumption ==
  \A call \in Calls :
    /\ IsSchema(call[1])
    /\ IsDataset(call[2]) /\ IsValue(call[2].value) /\ ~ HasError(call[2].issues)
    /\ Rank(call) \in Nat
    /\ \A inner \in Range(Inner(call[1], call[2])) : inner \in Calls /\ Rank(inner) < Rank(call)

ASSUME RunAssumption ==
  \A call \in Calls, cfg \in Modes : Run(call[1], call[2], cfg) = RunBody(call[1], call[2], cfg)
=============================================================================
