------------------------------- MODULE Compiled -------------------------------
(***************************************************************************)
(* Compiled validators: packages/tskm/src/compile.ts.  A schema is turned  *)
(* into a tree of steps that share one mutable cursor: a step reads        *)
(* cursor.value and leaves value, typed and the issues of the whole run in *)
(* it, where `~run` gets and returns a dataset per value.  Schemas that    *)
(* are not specialised run their own `~run`.  Step is the closure that     *)
(* compile() returns, a parameter like Run: StepBody and StepAssumption    *)
(* say what it does.                                                       *)
(*                                                                         *)
(* The machine is a caller that validates one input with safeParse and     *)
(* with safeParseCompiled, in any order.                                   *)
(***************************************************************************)
EXTENDS Validation

CONSTANTS
  Schemas,        \* schemas of the callers
  Inputs,         \* values they validate
  Step(_, _, _),  \* Step(s, c, cfg): the step compiled from schema s, on cursor c
  Cursors         \* <<s, c, cfg>>: the steps taken for the callers, with all those they call

VARIABLES
  schema, input, config,
  interpreted,  \* dataset of safeParse, once it has returned, as a set
  compiled      \* cursor of safeParseCompiled, likewise

call == <<schema, input, config>>
vars == <<call, interpreted, compiled>>

(* prefixIssuePaths and hasErrorIssueFrom: the issues from a mark on       *)
Before(c, mark) == SubSeq(c.issues, 1, mark)
From(c, mark) == SubSeq(c.issues, mark + 1, Len(c.issues))

(* compileFallback *)
StepFallback(s, c, cfg) ==
  LET d == Run(s, Fresh(c.value), cfg)
  IN  [d EXCEPT !.issues = c.issues \o @]

(* compileString, compileNumber, compileBoolean, and their inlined copies  *)
StepPrimitive(s, c) ==
  IF IsPrimitive(s.type, c.value) THEN [c EXCEPT !.typed = TRUE] ELSE Mismatch(c, s)

(* compileOptional, compileNullish *)
StepOptional(s, c, cfg) ==
  IF c.value \notin Absent(s) THEN Step(s.wrapped, c, cfg)
  ELSE [c EXCEPT !.typed = TRUE, !.value = IF s.default.given THEN s.default.value ELSE @]

(* One child of a container.  The cursor of the loop keeps the value of    *)
(* the input between the children.                                         *)

Seat(c, v) == [c EXCEPT !.value = v, !.typed = TRUE]

StepChild(loop, place, cfg) ==
  LET mark == Len(loop.data.issues)
      c == Step(place.child, Seat(loop.data, place.v), cfg)
      stop == Aborts(From(c, mark), cfg)
  IN  IF loop.aborted THEN loop
      ELSE [data |-> [loop.data EXCEPT
                        !.issues = Before(c, mark) \o Under(place.key, From(c, mark)),
                        !.typed = @ /\ c.typed /\ ~ stop],
            aborted |-> stop,
            out |-> IF stop \/ (place.omit /\ c.value = Undefined)
                    THEN loop.out
                    ELSE Assign(loop.out, place.key, c.value)]

StepVisits(start, places, cfg) ==
  LET after[n \in 0 .. Len(places)] ==
        IF n = 0 THEN start ELSE StepChild(after[n - 1], places[n], cfg)
  IN  after

(* compileObject *)
StepObject(s, c, cfg) ==
  LET places == KeyPlaces(s, c.value.own)
      loop == StepVisits(Enter(c), places, cfg)[Len(places)]
      done == ApplyRest(loop, s, c.value.own, cfg)
  IN  IF ~ IsObject(c.value) THEN Mismatch(c, s)
      ELSE Leave(done, [type |-> "object", own |-> done.out])

(* compilePrimitiveObject and its unrollings for three and five keys: no   *)
(* step is called, and an issue is recorded for an invalid value only.     *)
StepPrimitiveChild(loop, place, cfg) ==
  LET c == Mismatch([loop.data EXCEPT !.value = place.v], place.child)
      mark == Len(loop.data.issues)
  IN  IF loop.aborted THEN loop
      ELSE IF IsPrimitive(place.child.type, place.v)
      THEN [loop EXCEPT !.out = Assign(@, place.key, place.v)]
      ELSE [data |-> [loop.data EXCEPT
                        !.issues = @ \o Under(place.key, From(c, mark)),
                        !.typed = FALSE],
            aborted |-> cfg.reject,
            out |-> IF cfg.reject THEN loop.out ELSE Assign(loop.out, place.key, place.v)]

PrimitiveVisits(start, places, cfg) ==
  LET after[n \in 0 .. Len(places)] ==
        IF n = 0 THEN start ELSE StepPrimitiveChild(after[n - 1], places[n], cfg)
  IN  after
StepPrimitiveObject(s, c, cfg) ==
  LET places == KeyPlaces(s, c.value.own)
      loop == PrimitiveVisits(Enter(c), places, cfg)[Len(places)]
      done == ApplyRest(loop, s, c.value.own, cfg)
  IN  IF ~ IsObject(c.value) THEN Mismatch(c, s)
      ELSE Leave(done, [type |-> "object", own |-> done.out])

(* compileArray *)
StepArray(s, c, cfg) ==
  LET places == ArrayPlaces(s, c.value.items)
      loop == StepVisits(Enter(c), places, cfg)[Len(places)]
  IN  IF ~ IsArray(c.value) THEN Mismatch(c, s) ELSE Leave(loop, Items(loop.out))

(* primitiveCode, allPrimitiveCodes *)
Native == {"string", "number", "boolean"}

(* Mutant: specialised by the public type.                                 *)
CodeByType(s) == s.type # "pipe" /\ TypeOf(s) \in Native

Code(s) == s.type \in Native
AllCodes(s) == \A i \in DOMAIN s.kids : Code(s.kids[i])

(* compile: by the factory, never by the public type.                      *)
StepBody(s, c, cfg) ==
  CASE Code(s) -> StepPrimitive(s, c)
    [] s.type = "object" /\ AllCodes(s) -> StepPrimitiveObject(s, c, cfg)
    [] s.type = "object" /\ ~ AllCodes(s) -> StepObject(s, c, cfg)
    [] s.type = "array" -> StepArray(s, c, cfg)
    [] s.type \in {"optional", "nullish"} -> StepOptional(s, c, cfg)
    [] OTHER -> StepFallback(s, c, cfg)

(* The steps that the step of s on c may take                              *)
Seated(c, places, cfg) ==
  LET after == StepVisits(Enter(c), places, cfg)
  IN  [i \in {j \in DOMAIN places : ~ after[j - 1].aborted} |->
         <<places[i].child, Seat(after[i - 1].data, places[i].v), cfg>>]
InnerSteps(s, c, cfg) ==
  CASE s.type = "object" /\ ~ AllCodes(s) /\ IsObject(c.value) ->
         Seated(c, KeyPlaces(s, c.value.own), cfg)
    [] s.type = "array" /\ IsArray(c.value) -> Seated(c, ArrayPlaces(s, c.value.items), cfg)
    [] s.type \in {"optional", "nullish"} /\ c.value \notin Absent(s) -> <<<<s.wrapped, c, cfg>>>>
    [] OTHER -> <<>>

StartCursor(v) == [Fresh(v) EXCEPT !.typed = TRUE]

ASSUME CallersAssumption ==
  /\ {<<s, Fresh(v)>> : s \in Schemas, v \in Inputs} \subseteq Calls
  /\ {<<s, StartCursor(v), cfg>> : s \in Schemas, v \in Inputs, cfg \in Configs} \subseteq Cursors

AreSteps(cursors) ==
  \A x \in cursors :
    /\ <<x[1], Fresh(x[2].value)>> \in Calls
    /\ IsDataset(x[2]) /\ x[2].typed
    /\ x[3] \in Configs
    /\ Range(InnerSteps(x[1], x[2], x[3])) \subseteq cursors
ASSUME CursorsAssumption == AreSteps(Cursors)

ASSUME StepAssumption ==
  \A x \in Cursors : Step(x[1], x[2], x[3]) = StepBody(x[1], x[2], x[3])

-----------------------------------------------------------------------------
Init ==
  /\ schema \in Schemas
  /\ input \in Inputs
  /\ config \in Configs
  /\ interpreted = {}
  /\ compiled = {}

SafeParse ==
  /\ interpreted = {}
  /\ interpreted' = {Run(schema, Fresh(input), config)}
  /\ UNCHANGED <<call, compiled>>

SafeParseCompiled ==
  /\ compiled = {}
  /\ compiled' = {Step(schema, StartCursor(input), config)}
  /\ UNCHANGED <<call, interpreted>>

Next == SafeParse \/ SafeParseCompiled

Spec == Init /\ [][Next]_vars

-----------------------------------------------------------------------------
(* "byte-identical value and issues": safeParseCompiled returns what       *)
(* safeParse returns, for every schema, input and configuration.           *)
ByteIdentical == \A d \in interpreted, c \in compiled : Result(c) = Result(d)

(* A value of the wrong shape never passes: an untyped dataset has an      *)
(* error, whatever swallowed, recovered or mapped it on the way.           *)
UntypedFails == \A d \in interpreted \cup compiled : d.typed \/ HasError(d.issues)

(* "reject bails at the first error-severity issue": once an error has     *)
(* been recorded nothing else runs, so that an error is followed only by   *)
(* what the very same operation of the user has reported with it.          *)
SameReport(a, b) == a.kind = "transformation" /\ b = [a EXCEPT !.severity = b.severity]
StopsAtFirst(issues) ==
  \A i, j \in DOMAIN issues :
    i < j /\ ~ IsWarning(issues[i]) => SameReport(issues[i], issues[j])
RejectStopsAtFirst ==
  config.reject => \A d \in interpreted \cup compiled : StopsAtFirst(d.issues)

(* The modes only differ in what they report: a run accepts an input if    *)
(* and only if the report mode does, with the same output and warnings.    *)
GateAgrees ==
  LET report == Result(Run(schema, Fresh(input), ReportMode))
  IN  \A d \in interpreted :
        /\ Result(d).success = report.success
        /\ report.success => Result(d) = report
=============================================================================
