-------------------------------- MODULE Async --------------------------------
(***************************************************************************)
(* safeParseAsync beside the synchronous calls of Compiled.                *)
(*                                                                         *)
(* The async schemas of packages/tskm/src await one child at a time.  A    *)
(* frame is a `~run` that waits for a child; a step is what runs between   *)
(* two awaits, and between two steps the caller may change the object or   *)
(* the array he is validating.  object, array, record, union, discriminated *)
(* union, pipe and preprocess are their async form; any other schema is    *)
(* synchronous and runs in one step.  The caller's value is known by       *)
(* reference: Root stands for it, and the other values are never changed.  *)
(***************************************************************************)
EXTENDS Compiled, SequencesExt

CONSTANTS
  AsyncSchemas,  \* schemas that are also run asynchronously
  Changes,       \* what the caller may change his value into
  MaxChanges     \* bound: changes during one call

ASSUME AsyncAssumption ==
  AsyncSchemas \subseteq Schemas /\ Changes \subseteq Inputs /\ MaxChanges \in Nat

VARIABLES
  live,     \* the caller's value
  changes,  \* how often he has changed it
  stack,    \* frames of the pending `~run`s, the outermost first
  now       \* what the next step does: call, run, act, return or, in the end, rest

async == <<live, changes, stack, now>>
asyncVars == <<vars, async>>

AsyncTypes == {"object", "array", "record", "union", "discriminated_union", "pipe", "preprocess"}

(* References                                                              *)
Root == [type |-> "root"]
Deref(v) == IF v = Root THEN live ELSE v
Reference(v) == IF IsObject(v) \/ IsArray(v) THEN Root ELSE v
Seen(issues) == [i \in DOMAIN issues |-> [issues[i] EXCEPT !.input = Deref(@)]]
Resolved(d) == [d EXCEPT !.value = Deref(@), !.issues = Seen(@)]

IsPlain(d) == d.value # Root /\ \A i \in DOMAIN d.issues : d.issues[i].input # Root

(* Root is none of the program's values.                                   *)
ASSUME RootAssumption ==
  \A x \in Calls :
    /\ IsPlain(x[2])
    /\ \A cfg \in Configs : IsPlain(Run(x[1], x[2], cfg))
    /\ x[1].type = "pipe" => \A i \in DOMAIN x[1].ops :
          x[1].ops[i].kind = "transform" => x[1].ops[i].to # Root

(* A frame: its schema, the dataset it was given, the loop over its        *)
(* children so far, how many it has awaited, and what it has kept.         *)
Frame(s, d) ==
  [s |-> s, d |-> d, loop |-> Enter(d), awaited |-> 0, outKey |-> "",
   keys |-> IF s.type = "record" /\ IsObject(Deref(d.value))
            THEN [i \in DOMAIN Deref(d.value).own |-> Deref(d.value).own[i][1]]
            ELSE <<>>]
Own(f) == Deref(f.d.value).own
Elements(f) == Deref(f.d.value).items

Await(s, d) == [step |-> "run", s |-> s, d |-> d]
AwaitUser(op, d) == [step |-> "act", s |-> op, d |-> d]
Return(d) == [step |-> "return", d |-> d]

(* The issues of an awaited child, under its key                           *)
Taken(f, key, r, omit, outKey) ==
  LET stop == Aborts(r.issues, config)
  IN  [f EXCEPT
         !.awaited = @ + 1,
         !.loop = [data |-> Collect(@.data, key, r, stop),
                   aborted |-> stop,
                   out |-> IF stop \/ (omit /\ r.value = Undefined) THEN @.out
                           ELSE Assign(@.out, outKey, r.value)]]

(* A dataset that becomes that of the schema itself                        *)
TakenWhole(f, d) == [f EXCEPT !.awaited = @ + 1, !.loop.data = d]

-----------------------------------------------------------------------------
(* Each schema: the child it takes over when an await returns, and what it *)
(* goes on with, until the next await.                                     *)

(* Mutant: the output takes the value of the input, read a second time.    *)
ObjectTakesInput(f, r) ==
  LET i == f.awaited + 1
  IN  Taken(f, f.s.keys[i], [r EXCEPT !.value = Get(Own(f), f.s.keys[i])],
            f.s.optionalKeys /\ Omittable(f.s.kids[i]), f.s.keys[i])

ObjectTakes(f, r) ==
  LET i == f.awaited + 1
  IN  Taken(f, f.s.keys[i], r, f.s.optionalKeys /\ Omittable(f.s.kids[i]), f.s.keys[i])

(* Undeclared keys are those of the input at the end of the loop.          *)
ObjectGoesOn(f) ==
  LET i == f.awaited + 1
      done == ApplyRest(f.loop, f.s, Own(f), config)
  IN  IF ~ IsObject(Deref(f.d.value)) THEN Return(Mismatch(f.d, f.s))
      ELSE IF ~ f.loop.aborted /\ i \in DOMAIN f.s.keys
      THEN Await(f.s.kids[i], Fresh(Get(Own(f), f.s.keys[i])))
      ELSE Return(Leave(done, [type |-> "object", own |-> done.out]))

ArrayTakes(f, r) ==
  Taken(f, Index(f.awaited + 1), r, FALSE, Index(f.awaited + 1))

(* The length is read before every element.                                *)
ArrayGoesOn(f) ==
  LET i == f.awaited + 1
  IN  IF ~ IsArray(Deref(f.d.value)) THEN Return(Mismatch(f.d, f.s))
      ELSE IF ~ f.loop.aborted /\ i \in DOMAIN Elements(f)
      THEN Await(f.s.item, Fresh(Elements(f)[i]))
      ELSE Return(Leave(f.loop, Items(f.loop.out)))

(* A key and then its value, for the keys of the input at the beginning.   *)
Key(f) == f.keys[(f.awaited \div 2) + 1]
IsKeyTurn(f) == f.awaited % 2 = 0

(* Mutant: an invalid key leaves the record typed and is not reported.     *)
RecordTakesAnyKey(f, r) ==
  IF IsKeyTurn(f)
  THEN [f EXCEPT !.awaited = @ + 1, !.outKey = r.value.token]
  ELSE Taken(f, Key(f), r, FALSE, f.outKey)

TakenKey(loop, key, r) ==
  [loop EXCEPT !.data.issues = @ \o Under(key, r.issues),
               !.data.typed = @ /\ ~ HasError(r.issues),
               !.aborted = Aborts(r.issues, config)]
RecordTakes(f, r) ==
  IF IsKeyTurn(f)
  THEN [f EXCEPT
          !.awaited = @ + 1,
          !.outKey = r.value.token,
          !.loop = TakenKey(@, Key(f), r)]
  ELSE Taken(f, Key(f), r, FALSE, f.outKey)

RecordGoesOn(f) ==
  IF ~ IsObject(Deref(f.d.value)) THEN Return(Mismatch(f.d, f.s))
  ELSE IF f.loop.aborted \/ f.awaited = 2 * Len(f.keys)
  THEN Return(Leave(f.loop, [type |-> "object", own |-> f.loop.out]))
  ELSE IF IsKeyTurn(f)
  THEN Await(f.s.key, Fresh([type |-> "string", token |-> Key(f)]))
  ELSE Await(f.s.item, Fresh(Get(Own(f), Key(f))))

(* The members of a union in turn, until one matches.                      *)
UnionTakes(f, r) ==
  LET chosen == [r EXCEPT !.issues = IF @ = <<>> THEN f.d.issues ELSE @]
  IN  [f EXCEPT
         !.awaited = @ + 1,
         !.loop = [data |-> IF Matches(r) THEN chosen ELSE @.data,
                   aborted |-> Matches(r), out |-> @.out]]
UnionGoesOn(f) ==
  IF f.loop.aborted THEN Return(f.loop.data)
  ELSE IF f.awaited = Len(f.s.kids) THEN Return(Mismatch(f.d, f.s))
  ELSE Await(f.s.kids[f.awaited + 1], Fresh(f.d.value))

(* The tag is read once; the member that declares it reads it again.       *)
DiscriminatedTakes(f, r) == TakenWhole(f, [r EXCEPT !.issues = f.d.issues \o @])
DiscriminatedGoesOn(f) ==
  IF f.awaited = 1 THEN Return(f.loop.data)
  ELSE IF ~ IsObject(Deref(f.d.value)) \/ Tagged(f.s, Own(f)) = {} THEN Return(Mismatch(f.d, f.s))
  ELSE Await(Member(f.s, Own(f)), Fresh(f.d.value))

(* The schema of a pipe, then its actions; each goes on from the dataset   *)
(* the last one has returned.                                              *)
PipeTakes(f, r) == TakenWhole(f, r)
PipeGoesOn(f) ==
  IF f.awaited = 0 THEN Await(f.s.wrapped, f.d)
  ELSE IF f.awaited > Len(f.s.ops) \/ PipeStops(f.loop.data, config) THEN Return(f.loop.data)
  ELSE AwaitUser(f.s.ops[f.awaited], f.loop.data)

(* The user's operation, and the schema unless it has failed or rejected.  *)
PreprocessTakes(f, r) == TakenWhole(f, r)
PreprocessGoesOn(f) ==
  IF f.awaited = 0 THEN AwaitUser([kind |-> "preprocess", op |-> f.s.op], f.d)
  ELSE IF f.awaited = 1 /\ ~ Fails(f.s.op) THEN Await(f.s.wrapped, f.loop.data)
  ELSE Return(f.loop.data)

-----------------------------------------------------------------------------
(* An action of the user on a dataset, awaited                             *)

CheckAsync(op, d) ==
  IF d.typed /\ Deref(d.value) \in op.rejects
  THEN AddIssue(d, "validation", "check", "none", <<>>)
  ELSE d
TransformAsync(op, d) == Transform(op, d)
PreprocessAsync(op, d) ==
  LET failed == Fails(op)
  IN  [d EXCEPT !.typed = @ /\ ~ failed,
                !.issues = @ \o Reported(op, d, "preprocess"),
                !.value = IF failed THEN @ ELSE Mapped(op, @)]
Acted(op, d) ==
  CASE op.kind = "check" -> CheckAsync(op, d)
    [] op.kind = "transform" -> TransformAsync(op, d)
    [] op.kind = "preprocess" -> PreprocessAsync(op.op, d)
    [] op.kind = "brand" -> Brand(d)

(* A synchronous schema returns at once; it leaves a reference in place.   *)
Referring(issues) ==
  [i \in DOMAIN issues |->
     [issues[i] EXCEPT !.input = IF @ = live THEN Root ELSE @]]
RanSync(s, d) ==
  LET r == Run(s, Resolved(d), config)
  IN  [r EXCEPT !.value = IF @ = Deref(d.value) THEN d.value ELSE @,
                !.issues = IF IsPlain(d) THEN @ ELSE Referring(@)]

Takes(f, r) ==
  CASE f.s.type = "object" -> ObjectTakes(f, r)
    [] f.s.type = "array" -> ArrayTakes(f, r)
    [] f.s.type = "record" -> RecordTakes(f, r)
    [] f.s.type = "union" -> UnionTakes(f, r)
    [] f.s.type = "discriminated_union" -> DiscriminatedTakes(f, r)
    [] f.s.type = "pipe" -> PipeTakes(f, r)
    [] f.s.type = "preprocess" -> PreprocessTakes(f, r)
GoesOn(f) ==
  CASE f.s.type = "object" -> ObjectGoesOn(f)
    [] f.s.type = "array" -> ArrayGoesOn(f)
    [] f.s.type = "record" -> RecordGoesOn(f)
    [] f.s.type = "union" -> UnionGoesOn(f)
    [] f.s.type = "discriminated_union" -> DiscriminatedGoesOn(f)
    [] f.s.type = "pipe" -> PipeGoesOn(f)
    [] f.s.type = "preprocess" -> PreprocessGoesOn(f)

(* A frame goes on until it awaits, or returns and is gone.                *)
Continue(below, f) ==
  /\ now' = GoesOn(f)
  /\ stack' = IF GoesOn(f).step = "return" THEN below ELSE Append(below, f)

-----------------------------------------------------------------------------
AsyncInit ==
  /\ Init
  /\ live = input
  /\ changes = 0
  /\ stack = <<>>
  /\ now = [step |-> "call"]

SafeParseAsync ==
  /\ now.step = "call"
  /\ schema \in AsyncSchemas
  /\ now' = Await(schema, Fresh(Reference(input)))
  /\ UNCHANGED <<vars, live, changes, stack>>

RunSync ==
  /\ now.step = "run"
  /\ now.s.type \notin AsyncTypes
  /\ now' = Return(RanSync(now.s, now.d))
  /\ UNCHANGED <<vars, live, changes, stack>>

RunAsync ==
  /\ now.step = "run"
  /\ now.s.type \in AsyncTypes
  /\ Continue(stack, Frame(now.s, now.d))
  /\ UNCHANGED <<vars, live, changes>>

Act ==
  /\ now.step = "act"
  /\ now' = Return(Acted(now.s, now.d))
  /\ UNCHANGED <<vars, live, changes, stack>>

Resume ==
  /\ now.step = "return"
  /\ stack # <<>>
  /\ Continue(Front(stack), Takes(Last(stack), now.d))
  /\ UNCHANGED <<vars, live, changes>>

Settle ==
  /\ now.step = "return"
  /\ stack = <<>>
  /\ now' = [step |-> "rest", d |-> Resolved(now.d)]
  /\ UNCHANGED <<vars, live, changes, stack>>

(* The caller assigns properties of the object, or elements of the array.  *)
Change ==
  /\ now.step \in {"run", "act", "return"}
  /\ changes < MaxChanges
  /\ changes' = changes + 1
  /\ live' \in {v \in Changes : v.type = live.type /\ Reference(v) = Root} \ {live}
  /\ UNCHANGED <<vars, stack, now>>

AsyncNext ==
  \/ Next /\ UNCHANGED async
  \/ SafeParseAsync \/ RunSync \/ RunAsync \/ Act \/ Resume \/ Settle
  \/ Change

AsyncSpec == AsyncInit /\ [][AsyncNext]_asyncVars

-----------------------------------------------------------------------------
(* "Async counterpart": over a value nobody changes, safeParseAsync of the *)
(* async schemas returns what safeParse of the synchronous ones returns.   *)
AsyncAgrees ==
  now.step = "rest" /\ changes = 0 => \A d \in interpreted : Result(now.d) = Result(d)

(* A value that changes while it is being validated never gives a success  *)
(* that mixes unchecked parts: if every output of the schema passes the    *)
(* schema again, so does the output of the async call.  That is said of    *)
(* outputs the call has built itself; one that is still the caller's own   *)
(* object (a check over any()) changes with it, whatever has been checked. *)
Steady(s) ==
  \A v \in Inputs :
    LET r == Result(Run(s, Fresh(v), config))
    IN  r.success => Result(Run(s, Fresh(r.output), config)).success
SuccessIsWhole ==
  /\ now.step = "return" /\ stack = <<>> /\ now.d.value # Root
  /\ changes > 0 /\ Result(now.d).success /\ Steady(schema)
  => Result(Run(schema, Fresh(now.d.value), config)).success
=============================================================================
