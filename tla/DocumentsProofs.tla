--------------------------- MODULE DocumentsProofs ---------------------------
(***************************************************************************)
(* The schema worker and the command that calls it, for any sources, any   *)
(* exports and any configuration.                                          *)
(***************************************************************************)
EXTENDS Documents, WellFoundedInduction, TLAPS

-----------------------------------------------------------------------------
(* What a recursive function over a prefix of the naturals computes.  The  *)
(* induction is a smallest counterexample.                                 *)

LEMMA LeastNatural ==
  ASSUME NEW T \in SUBSET Nat, T # {}
  PROVE  \E x \in T : \A y \in T : x <= y
<1>1. PICK R : R = OpToRel(<, Nat)
  OBVIOUS
<1>2. IsWellFoundedOn(R, Nat)
  BY <1>1, NatLessThanWellFounded
<1>3. PICK x \in T : \A y \in T : ~ (<<y, x>> \in R)
  BY <1>2, WFMin
<1>4. \A m, n \in Nat : m < n => <<m, n>> \in R
  BY <1>1 DEF OpToRel
<1>5. \A m, n \in Nat : m < n \/ n <= m
  OBVIOUS
<1>6. QED  BY <1>3, <1>4, <1>5

Step(exports, n, before) ==
  IF Call!Answered(exports[n]) THEN Append(before, exports[n].entry) ELSE before

IsFirst(f, exports, n) ==
  f = [i \in 0 .. n |-> IF i = 0 THEN <<>> ELSE Step(exports, i, f[i - 1])]

LEMMA EntriesDefined ==
  ASSUME NEW exports, Len(exports) \in Nat
  PROVE  IsFirst(Call!EntriesOf(exports), exports, Len(exports))
<1> DEFINE T == {n \in Nat : ~ \E f : IsFirst(f, exports, n)}
<1>1. T = {}
  <2>1. SUFFICES ASSUME T # {} PROVE FALSE
    OBVIOUS
  <2>2. PICK n \in T : \A m \in T : n <= m
    BY <2>1, LeastNatural
  <2>3. CASE n = 0
    <3>1. IsFirst([i \in 0 .. 0 |-> <<>>], exports, 0)
      BY DEF IsFirst
    <3>2. QED  BY <2>2, <2>3, <3>1
  <2>4. CASE n # 0
    <3>1. n - 1 \in Nat /\ n - 1 \notin T
      BY <2>2, <2>4
    <3>2. PICK f : IsFirst(f, exports, n - 1)
      BY <3>1
    <3> DEFINE g == [i \in 0 .. n |-> IF i = n THEN Step(exports, n, f[n - 1]) ELSE f[i]]
    <3>3. IsFirst(g, exports, n)
      <4>1. \A i \in 0 .. n : i # n => i \in 0 .. n - 1
        BY <2>2
      <4>2. \A i \in 0 .. n - 1 : f[i] = IF i = 0 THEN <<>> ELSE Step(exports, i, f[i - 1])
        BY <3>2 DEF IsFirst
      <4>3. \A i \in 0 .. n : i # 0 => i - 1 \in 0 .. n /\ i - 1 # n
        BY <2>2
      <4>4. \A i \in 0 .. n : g[i] = IF i = 0 THEN <<>> ELSE Step(exports, i, g[i - 1])
        BY <2>4, <4>1, <4>2, <4>3
      <4>5. QED  BY <4>4 DEF IsFirst
    <3>4. QED  BY <2>2, <3>3
  <2>5. QED  BY <2>3, <2>4
<1>2. \E f : IsFirst(f, exports, Len(exports))
  BY <1>1
<1>3. Call!EntriesOf(exports) = CHOOSE f : IsFirst(f, exports, Len(exports))
  BY DEF Call!EntriesOf, IsFirst, Step
<1>4. QED  BY <1>2, <1>3

LEMMA EntriesStep ==
  ASSUME NEW exports, Len(exports) \in Nat
  PROVE  /\ Call!EntriesOf(exports)[0] = <<>>
         /\ \A n \in 1 .. Len(exports) :
              Call!EntriesOf(exports)[n] = Step(exports, n, Call!EntriesOf(exports)[n - 1])
<1>1. PICK f : f = Call!EntriesOf(exports)
  OBVIOUS
<1>2. \A n \in 0 .. Len(exports) :
        f[n] = IF n = 0 THEN <<>> ELSE Step(exports, n, f[n - 1])
  BY <1>1, EntriesDefined DEF IsFirst
<1>3. QED  BY <1>1, <1>2

(* The entries of a exports are those of the exports that answered.         *)
EntriesAmong(exports, n) ==
  {exports[i].entry : i \in {j \in 1 .. n : Call!Answered(exports[j])}}

LEMMA EntriesRange ==
  ASSUME NEW exports, Len(exports) \in Nat
  PROVE  \A n \in 0 .. Len(exports) :
           /\ Call!EntriesOf(exports)[n] \in Seq(EntriesAmong(exports, n))
           /\ Range(Call!EntriesOf(exports)[n]) = EntriesAmong(exports, n)
<1> DEFINE f == Call!EntriesOf(exports)
           P(n) == f[n] \in Seq(EntriesAmong(exports, n)) /\ Range(f[n]) = EntriesAmong(exports, n)
           T == {n \in 0 .. Len(exports) : ~ P(n)}
<1>1. f[0] = <<>> /\ \A n \in 1 .. Len(exports) : f[n] = Step(exports, n, f[n - 1])
  BY EntriesStep
<1> HIDE DEF f
<1>2. SUFFICES ASSUME T # {} PROVE FALSE
  BY DEF f
<1>3. PICK n \in T : \A m \in T : n <= m
  <2>1. T \in SUBSET Nat
    OBVIOUS
  <2> HIDE DEF T
  <2>2. QED  BY <1>2, <2>1, LeastNatural
<1>4. CASE n = 0
  <2>1. EntriesAmong(exports, 0) = {}
    BY DEF EntriesAmong
  <2>2. f[0] \in Seq({}) /\ Range(f[0]) = {}
    BY <1>1 DEF Range
  <2>3. QED  BY <1>3, <1>4, <2>1, <2>2
<1>5. CASE n # 0
  <2>1. n \in 1 .. Len(exports) /\ n - 1 \in 0 .. Len(exports) /\ n - 1 \notin T
    BY <1>3, <1>5
  <2>2. P(n - 1) /\ f[n] = Step(exports, n, f[n - 1])
    BY <1>1, <2>1
  <2>3. \A i : i \in 1 .. n <=> i \in 1 .. n - 1 \/ i = n
    BY <2>1
  <2>4. CASE Call!Answered(exports[n])
    <3> DEFINE A == EntriesAmong(exports, n - 1)
               e == exports[n].entry
    <3>1. EntriesAmong(exports, n) = A \cup {e}
      BY <2>3, <2>4 DEF EntriesAmong
    <3>2. f[n] = Append(f[n - 1], e)
      BY <2>2, <2>4 DEF Step
    <3>3. f[n - 1] \in Seq(A) /\ Range(f[n - 1]) = A
      BY <2>2
    <3> HIDE DEF A, e
    <3>4. PICK q : q = f[n - 1]
      OBVIOUS
    <3>5. q \in Seq(A \cup {e}) /\ Range(q) = A
      BY <3>3, <3>4
    <3>6. /\ Append(q, e) \in Seq(A \cup {e})
          /\ DOMAIN Append(q, e) = DOMAIN q \cup {Len(q) + 1}
          /\ Append(q, e)[Len(q) + 1] = e
          /\ \A k \in DOMAIN q : Append(q, e)[k] = q[k]
      BY <3>5
    <3>7. Range(Append(q, e)) = A \cup {e}
      BY <3>5, <3>6 DEF Range
    <3>8. P(n)
      BY <3>1, <3>2, <3>4, <3>6, <3>7
    <3>9. QED  BY <1>3, <3>8
  <2>5. CASE ~ Call!Answered(exports[n])
    <3>1. EntriesAmong(exports, n) = EntriesAmong(exports, n - 1)
      BY <2>3, <2>5 DEF EntriesAmong
    <3>2. f[n] = f[n - 1]
      BY <2>2, <2>5 DEF Step
    <3>3. QED  BY <1>3, <2>2, <3>1, <3>2
  <2>6. QED  BY <2>4, <2>5
<1>6. QED  BY <1>4, <1>5

-----------------------------------------------------------------------------
(* The worker                                                              *)

IsAnswer == envelope.state = "written" /\ ~ envelope.error

(* What the child has of the entries it collects, and when it may write    *)
(* them: an answer is whole.                                               *)
WorkerInv ==
  /\ module \in Seq(Range(module))
  /\ at \in 1 .. Len(module) + 1
  /\ NoEnvelopeLeft
  /\ child = "importing" => at = 1 /\ schemas = <<>>
  /\ child = "extracting" =>
       /\ \A i \in 1 .. at - 1 : ~ (module[i].extractable /\ module[i].yields = "throws")
       /\ ~ Unwritable => schemas = Call!EntriesOf(module)[at - 1]
  /\ child = "emitting" => ~ Call!Throws(module) /\ schemas = Call!Entries(module)
  /\ IsAnswer => ~ Call!Throws(module) /\ envelope.schemas = Call!Entries(module)

LEMMA Written_is ==
  /\ ~ (Missing.state = "written") /\ ~ (Partial.state = "written")
  /\ \A error, entries :
       /\ Written(error, entries).error = error
       /\ Written(error, entries).schemas = entries
BY DEF Missing, Partial, Written

LEMMA WorkerInitInv == WorkerInit => WorkerInv
BY Written_is DEF WorkerInit, WorkerInv, NoEnvelopeLeft, IsAnswer, Range

LEMMA SpawnInv ==
  ASSUME WorkerInv, NEW m, m \in Seq(Range(m)), Spawn(m)
  PROVE  WorkerInv'
<1>1. /\ envelope' = Missing /\ module' = m /\ at' = 1 /\ schemas' = <<>>
      /\ child' \in {"importing", "ended"} /\ parent' = "waiting"
  BY DEF Spawn, WorkerInv, NoEnvelopeLeft
<1>2. 1 \in 1 .. Len(m) + 1
  OBVIOUS
<1>3. QED  BY <1>1, <1>2, Written_is DEF WorkerInv, NoEnvelopeLeft, IsAnswer

LEMMA ExtractInv ==
  ASSUME WorkerInv, Extract
  PROVE  WorkerInv'
<1>1. /\ UNCHANGED <<parent, module, envelope>> /\ child = "extracting"
      /\ at \in 1 .. Len(module) /\ Len(module) \in Nat
  BY DEF Extract, WorkerInv
<1>2. /\ Unwritable' = Unwritable /\ IsAnswer' = IsAnswer
  BY <1>1 DEF Unwritable, IsAnswer
<1>3. CASE child' = "reporting" /\ UNCHANGED <<at, schemas>>
  BY <1>1, <1>2, <1>3 DEF WorkerInv, NoEnvelopeLeft
<1>4. CASE /\ ~ (module[at].extractable /\ module[at].yields = "throws")
           /\ at' = at + 1 /\ child' = child
           /\ schemas' = IF module[at].extractable /\ module[at].yields \in {"entry", "unwritable"}
                         THEN Append(schemas, module[at].entry) ELSE schemas
  <2>1. \A i \in 1 .. at' - 1 : ~ (module[i].extractable /\ module[i].yields = "throws")
    <3>1. \A i \in 1 .. at' - 1 : i \in 1 .. at - 1 \/ i = at
      BY <1>1, <1>4
    <3>2. QED  BY <1>1, <1>4, <3>1 DEF WorkerInv
  <2>2. ASSUME ~ Unwritable
        PROVE  schemas' = Call!EntriesOf(module)[at' - 1]
    <3>1. at \in DOMAIN module
      BY <1>1 DEF WorkerInv
    <3>2. ~ (module[at].extractable /\ module[at].yields = "unwritable")
      BY <2>2, <3>1 DEF Unwritable
    <3>3. schemas = Call!EntriesOf(module)[at - 1]
      BY <1>1, <2>2 DEF WorkerInv
    <3>4. Call!EntriesOf(module)[at] = Step(module, at, Call!EntriesOf(module)[at - 1])
      BY <1>1, EntriesStep
    <3>5. schemas' = Step(module, at, schemas)
      BY <1>4, <3>2 DEF Step, Call!Answered
    <3>6. at' - 1 = at
      BY <1>1, <1>4
    <3>7. QED  BY <3>3, <3>4, <3>5, <3>6
  <2>3. at' \in 1 .. Len(module) + 1
    BY <1>1, <1>4
  <2>4. QED  BY <1>1, <1>2, <1>4, <2>1, <2>2, <2>3 DEF WorkerInv, NoEnvelopeLeft
<1>5. QED  BY <1>3, <1>4 DEF Extract

LEMMA EmitInv ==
  ASSUME WorkerInv, Emit
  PROVE  WorkerInv'
<1>1. /\ UNCHANGED <<parent, module, at, schemas>> /\ child = "extracting"
      /\ at = Len(module) + 1 /\ Len(module) \in Nat
      /\ DOMAIN module = 1 .. Len(module)
      /\ parent # "idle"
  BY DEF Emit, WorkerInv, Running
<1>2. CASE Unwritable
  BY <1>1, <1>2 DEF Emit, WorkerInv, NoEnvelopeLeft, IsAnswer
<1>3. CASE ~ Unwritable
  <2>1. child' = "emitting" /\ envelope' = Partial
    BY <1>3 DEF Emit
  <2>2. ~ Call!Throws(module)
    <3>1. \A i \in DOMAIN module : ~ (module[i].extractable /\ module[i].yields = "throws")
      BY <1>1 DEF WorkerInv
    <3>2. QED  BY <1>3, <3>1 DEF Call!Throws, Unwritable
  <2>3. schemas = Call!Entries(module)
    BY <1>1, <1>3 DEF WorkerInv, Call!Entries
  <2>4. QED  BY <1>1, <2>1, <2>2, <2>3, Written_is DEF WorkerInv, NoEnvelopeLeft, IsAnswer
<1>4. QED  BY <1>2, <1>3

LEMMA EndWriteInv ==
  ASSUME WorkerInv, EndWrite
  PROVE  WorkerInv'
<1>1. /\ UNCHANGED <<parent, module, at, schemas>> /\ child' = "written" /\ parent # "idle"
  BY DEF EndWrite, Running
<1>2. CASE child = "emitting"
  <2>1. envelope' = Written(FALSE, schemas)
    BY <1>2 DEF EndWrite
  <2>2. QED  BY <1>1, <1>2, <2>1, Written_is DEF WorkerInv, NoEnvelopeLeft, IsAnswer
<1>3. CASE child # "emitting"
  <2>1. envelope' = Written(TRUE, <<>>)
    BY <1>3 DEF EndWrite
  <2>2. QED  BY <1>1, <2>1, Written_is DEF WorkerInv, NoEnvelopeLeft, IsAnswer
<1>4. QED  BY <1>2, <1>3

LEMMA WorkerStepInv ==
  ASSUME WorkerInv, WorkerStep
  PROVE  WorkerInv'
<1>1. CASE Timeout \/ Interrupt \/ Exit \/ Dies
  <2>1. /\ UNCHANGED <<module, at, schemas, envelope>> /\ child' = "ended"
        /\ parent' # "idle"
    BY <1>1 DEF Timeout, Interrupt, Exit, Dies, Running
  <2>2. QED  BY <2>1 DEF WorkerInv, NoEnvelopeLeft, IsAnswer
<1>2. CASE Collect
  <2>1. UNCHANGED <<module, child, at, schemas>> /\ envelope' = Missing
    BY <1>2 DEF Collect
  <2>2. Unwritable' = Unwritable
    BY <2>1 DEF Unwritable
  <2>3. QED  BY <2>1, <2>2, Written_is DEF WorkerInv, NoEnvelopeLeft, IsAnswer
<1>3. CASE Import
  <2>1. /\ UNCHANGED <<parent, module, at, schemas, envelope>>
        /\ child = "importing" /\ child' \in {"extracting", "reporting"}
    BY <1>3 DEF Import
  <2>2. at = 1 /\ schemas = <<>> /\ Len(module) \in Nat
    BY <2>1 DEF WorkerInv
  <2>3. Call!EntriesOf(module)[0] = <<>>
    BY <2>2, EntriesStep
  <2>4. QED  BY <2>1, <2>2, <2>3 DEF WorkerInv, NoEnvelopeLeft, IsAnswer
<1>4. CASE Report
  <2>1. /\ UNCHANGED <<parent, module, at, schemas>> /\ parent # "idle"
        /\ child' = "complaining" /\ envelope' = Partial
    BY <1>4 DEF Report, Running
  <2>2. QED  BY <2>1, Written_is DEF WorkerInv, NoEnvelopeLeft, IsAnswer
<1>5. QED
  BY <1>1, <1>2, <1>3, <1>4, ExtractInv, EmitInv, EndWriteInv DEF WorkerStep

-----------------------------------------------------------------------------
(* A step of the worker is a step of the abstract call.                    *)

Calling == IF parent = "idle" THEN [called |-> FALSE, module |-> <<>>]
           ELSE [called |-> TRUE, module |-> module]

LEMMA CallingIs ==
  /\ Calling.called = (parent # "idle")
  /\ parent # "idle" => Calling.module = module
  /\ Calling = Call!NoCall <=> parent = "idle"
BY DEF Calling, Call!NoCall

LEMMA SpawnCalls ==
  ASSUME WorkerInv, NEW m \in Modules, Spawn(m)
  PROVE  Call!CallBegin
<1>1. parent = "idle" /\ parent' = "waiting" /\ module' = m /\ outcome' = outcome
  BY DEF Spawn
<1>2. Calling = Call!NoCall /\ Calling' = [called |-> TRUE, module |-> m]
  BY <1>1 DEF Calling, Call!NoCall
<1>3. QED  BY <1>1, <1>2 DEF Call!CallBegin, Calling

LEMMA CollectCalls ==
  ASSUME WorkerInv, Collect
  PROVE  Call!CallFails \/ Call!CallAnswers
<1>1. parent # "idle" /\ parent' = "idle" /\ outcome' = Result
  BY DEF Collect
<1>2. Calling # Call!NoCall /\ Calling' = Call!NoCall /\ Calling.module = module
  BY <1>1 DEF Calling, Call!NoCall
<1>3. CASE status = "zero" /\ IsAnswer
  <2>1. outcome' = Envelope(Call!Entries(module)) /\ ~ Call!Throws(module)
    BY <1>1, <1>3 DEF Result, IsAnswer, WorkerInv
  <2>2. outcome' = Call!Envelope(Call!Entries(Calling.module)) /\ ~ Call!Throws(Calling.module)
    BY <1>2, <2>1 DEF Envelope, Call!Envelope
  <2>3. QED  BY <1>2, <2>2 DEF Call!CallAnswers, Calling
<1>4. CASE ~ (status = "zero" /\ IsAnswer)
  <2>1. outcome' = Call!Diagnostic
    BY <1>1, <1>4 DEF Result, IsAnswer, Diagnostic, Call!Diagnostic
  <2>2. QED  BY <1>2, <2>1 DEF Call!CallFails, Calling
<1>5. QED  BY <1>3, <1>4

LEMMA StepCalls ==
  ASSUME WorkerInv, WorkerStep
  PROVE  Call!CallFails \/ Call!CallAnswers \/ UNCHANGED Call!callVars
<1>1. CASE Collect
  BY <1>1, CollectCalls
<1>2. CASE Timeout \/ Interrupt \/ Import \/ Extract \/ Emit \/ Report \/ EndWrite \/ Exit \/ Dies
  <2>1. /\ parent # "idle" /\ parent' # "idle" /\ UNCHANGED <<module, outcome>>
    BY <1>2 DEF Timeout, Interrupt, Import, Extract, Emit, Report, EndWrite, Exit, Dies, Running
  <2>2. QED  BY <2>1 DEF Call!callVars
<1>3. QED  BY <1>1, <1>2 DEF WorkerStep

LEMMA WorkerNextInv == WorkerInv /\ [WorkerNext]_workerVars => WorkerInv'
<1>1. SUFFICES ASSUME WorkerInv, [WorkerNext]_workerVars PROVE WorkerInv'
  OBVIOUS
<1>2. CASE UNCHANGED workerVars
  BY <1>1, <1>2 DEF workerVars, WorkerInv, NoEnvelopeLeft, Unwritable, IsAnswer
<1>3. CASE WorkerNext
  <2>1. ASSUME NEW m \in Modules, Spawn(m)
        PROVE  WorkerInv'
    BY <1>1, <2>1, SpawnInv, ModulesAssumption
  <2>2. QED  BY <1>1, <1>3, <2>1, WorkerStepInv DEF WorkerNext
<1>4. QED  BY <1>1, <1>2, <1>3

(* Every call of runWorker, however its child ends, implements the         *)
(* abstract call: a diagnostic, or the entries of all exports, in order,   *)
(* and no entry when one of them threw (worker-harness.ts:34-98, 233-278). *)
THEOREM WorkerImplementsCall == WorkerSpec => CallSpec
<1>1. WorkerInit => Call!CallInit
  BY DEF WorkerInit, Call!CallInit, Call!NoCall, Diagnostic, Call!Diagnostic
<1>2. ASSUME WorkerInv, [WorkerNext]_workerVars
      PROVE  [Call!CallBegin \/ Call!CallFails \/ Call!CallAnswers]_Call!callVars
  <2>1. CASE UNCHANGED workerVars
    BY <2>1 DEF workerVars, Call!callVars
  <2>2. CASE WorkerNext
    BY <1>2, <2>2, SpawnCalls, StepCalls DEF WorkerNext
  <2>3. QED  BY <1>2, <2>1, <2>2
<1>3. QED
  BY <1>1, <1>2, WorkerInitInv, WorkerNextInv, PTL DEF WorkerSpec, CallSpec, Call!CallSpec

-----------------------------------------------------------------------------
(* What the adapter makes of an export                                     *)

LEMMA ModuleIs ==
  ASSUME NEW values \in Contents, NEW allowed
  PROVE  /\ ModuleOf(values, allowed) \in Seq(Range(ModuleOf(values, allowed)))
         /\ Len(ModuleOf(values, allowed)) = Len(values)
         /\ Len(values) \in Nat /\ DOMAIN values = 1 .. Len(values)
         /\ \A i \in DOMAIN values : IsValue(values[i])
<1>1. values \in Seq(Range(values)) /\ \A v \in Range(values) : IsValue(v)
  BY ContentsAssumption
<1>2. /\ Len(values) \in Nat /\ DOMAIN values = 1 .. Len(values)
      /\ \A i \in DOMAIN values : IsValue(values[i])
  BY <1>1 DEF Range
<1>3. PICK m : m = ModuleOf(values, allowed)
  OBVIOUS
<1>4. DOMAIN m = 1 .. Len(values) /\ m = [i \in 1 .. Len(values) |-> m[i]]
  BY <1>2, <1>3 DEF ModuleOf
<1>5. m \in Seq(Range(m)) /\ Len(m) = Len(values)
  BY <1>2, <1>4 DEF Range
<1>6. QED  BY <1>2, <1>3, <1>5

(* The kinds of an entry.  A skipped one is warned about.                  *)
LEMMA AdapterIs ==
  ASSUME NEW v, NEW allowed, NEW i, IsValue(v)
  PROVE  /\ Entry(i, v, allowed).name = i
         /\ Entry(i, v, allowed).kind = ViaAdapter(v, allowed)
         /\ \/ Entry(i, v, allowed).kind = "converted"
            \/ Entry(i, v, allowed).kind = "excluded"
            \/ Entry(i, v, allowed).warned
<1>1. \/ ViaAdapter(v, allowed) = "converted"
      \/ ViaAdapter(v, allowed) = "excluded"
      \/ ~ Walkable(v) /\ ViaAdapter(v, allowed) = "skipped"
  BY DEF ViaAdapter, IsValue
<1>2. QED  BY <1>1 DEF Entry

LEMMA ConvertedIsWanted ==
  ASSUME NEW v, IsValue(v), NoVendor \notin vendors,
         IsExtractableSchema(v) /\ Walkable(v) => v.convert = "ok"
  PROVE  IsExtractableSchema(v) /\ ViaAdapter(v, vendors) = "converted" <=> Wanted(v)
<1>1. CASE Walkable(v)
  <2>1. ViaAdapter(v, vendors) = "converted"
    BY <1>1 DEF ViaAdapter
  <2>2. QED  BY <1>1, <2>1 DEF Walkable, IsExtractableSchema, Wanted, NoVendor
<1>2. CASE ~ Walkable(v) /\ v.vendor \notin vendors
  <2>1. ViaAdapter(v, vendors) = "excluded"
    BY <1>2 DEF ViaAdapter
  <2>2. QED  BY <1>2, <2>1 DEF Walkable, IsValue, Wanted
<1>3. CASE ~ Walkable(v) /\ v.vendor \in vendors
  <2>1. IsExtractableSchema(v) /\ v.vendor # "tskm" /\ v.vendor # NoVendor
    BY <1>3 DEF Walkable, IsExtractableSchema, IsValue
  <2>2. ViaAdapter(v, vendors) = "converted" <=>
          v.native = "ok" \/ (v.native = "none" /\ v.vendor \in {"zod", "valibot"} /\ v.convert = "ok")
    BY <1>3 DEF ViaAdapter, IsValue
  <2>3. QED  BY <1>3, <2>1, <2>2 DEF Wanted, IsValue
<1>4. QED  BY <1>1, <1>2, <1>3

(* The entries of a whole answer: one for every schema the source exports. *)
LEMMA AnswerIs ==
  ASSUME NEW values \in Contents, NEW entries, NoVendor \notin vendors,
         ~ Call!Throws(ModuleOf(values, vendors)),
         entries = Call!Entries(ModuleOf(values, vendors))
  PROVE  /\ Range(entries) = {Entry(i, values[i], vendors) :
                                i \in {j \in DOMAIN values : IsExtractableSchema(values[j])}}
         /\ Emittable(entries) = {n \in DOMAIN values : Wanted(values[n])}
<1> DEFINE m == ModuleOf(values, vendors)
           X == {j \in DOMAIN values : IsExtractableSchema(values[j])}
<1>1. /\ Len(m) = Len(values) /\ Len(values) \in Nat /\ DOMAIN values = 1 .. Len(values)
      /\ \A i \in DOMAIN values : IsValue(values[i])
  BY ModuleIs
<1>2. /\ DOMAIN m = DOMAIN values
      /\ \A i \in DOMAIN values :
           /\ m[i].extractable = IsExtractableSchema(values[i])
           /\ m[i].yields = IF Walkable(values[i]) /\ values[i].convert # "ok"
                            THEN values[i].convert ELSE "entry"
           /\ m[i].entry = Entry(i, values[i], vendors)
  BY DEF ModuleOf
<1> HIDE DEF m
<1>3. \A i \in X : Walkable(values[i]) => values[i].convert = "ok"
  <2>1. \A i \in X : ~ (m[i].yields \in {"throws", "unwritable"})
    BY <1>2 DEF m, Call!Throws
  <2>2. \A v : Walkable(v) => v.vendor \in {"tskm", NoVendor} /\ v.kind
    BY DEF Walkable
  <2>3. QED  BY <1>1, <1>2, <2>1, <2>2 DEF IsValue
<1>4. \A i \in DOMAIN values : Call!Answered(m[i]) <=> i \in X
  BY <1>2, <1>3 DEF Call!Answered
<1>5. Range(entries) = EntriesAmong(m, Len(m))
  <2>1. Len(m) \in Nat /\ Len(m) \in 0 .. Len(m)
    BY <1>1
  <2>2. QED  BY <2>1, EntriesRange DEF m, Call!Entries
<1>6. EntriesAmong(m, Len(m)) = {Entry(i, values[i], vendors) : i \in X}
  <2>1. {j \in 1 .. Len(m) : Call!Answered(m[j])} = X
    BY <1>1, <1>4
  <2>2. EntriesAmong(m, Len(m)) = {m[i].entry : i \in X}
    BY <2>1 DEF EntriesAmong
  <2>3. \A i \in X : m[i].entry = Entry(i, values[i], vendors)
    BY <1>2
  <2>4. QED  BY <2>2, <2>3
<1>7. \A i \in X : /\ Entry(i, values[i], vendors).name = i
                   /\ Entry(i, values[i], vendors).kind = "converted" <=> Wanted(values[i])
  BY <1>1, <1>3, AdapterIs, ConvertedIsWanted
<1>8. \A i \in DOMAIN values : Wanted(values[i]) => i \in X
  BY <1>1 DEF Wanted, IsExtractableSchema, NoVendor
<1>9. Emittable(entries) = {i \in X : Wanted(values[i])}
  BY <1>5, <1>6, <1>7 DEF Emittable
<1>10. QED  BY <1>5, <1>6, <1>8, <1>9

-----------------------------------------------------------------------------
(* The command                                                             *)

(* Export n of source i is not passed over in silence.                     *)
Noted(i, n) ==
  {Line(i, "entry", n, NoVendor), Line(i, "vendor", 0, exported[i][n].vendor), WorkerLine(i)}
    \cap diagnostics # {}

Told(i) ==
  \A n \in DOMAIN exported[i] :
    \/ ~ IsExtractableSchema(exported[i][n])
    \/ \E f \in Range(files) : f.source = i /\ n \in f.names
    \/ Noted(i, n)

(* The worker answers for the source being processed, every source before  *)
(* it has been told of, and no diagnostic is about a later one.            *)
CommandInv ==
  /\ WorkerInv
  /\ exported \in [DOMAIN Sources -> Contents]
  /\ NoVendor \notin vendors
  /\ outDir \in OutArguments \cup {file.outDir : file \in ConfigFiles}
  /\ DOMAIN disk = Paths
  /\ current \in 1 .. Len(Sources) + 1
  /\ files \in Seq(Range(files))
  /\ rejected => ~ called
  /\ ~ called => parent = "idle"
  /\ called => current <= Len(Sources) /\ module = ModuleOf(exported[current], vendors)
  /\ called /\ parent = "idle" /\ outcome.ok =>
       ~ Call!Throws(module) /\ outcome.schemas = Call!Entries(module)
  /\ \A i \in 1 .. current - 1 : Told(i)
  /\ ~ rejected => \A d \in diagnostics : d.source \in 1 .. current - 1

LEMMA AppendRange ==
  ASSUME NEW q, q \in Seq(Range(q)), NEW e
  PROVE  /\ Append(q, e) \in Seq(Range(Append(q, e)))
         /\ Range(Append(q, e)) = Range(q) \cup {e}
<1>1. PICK A : A = Range(q) \cup {e}
  OBVIOUS
<1>2. q \in Seq(A)
  BY <1>1
<1>3. /\ Append(q, e) \in Seq(A)
      /\ DOMAIN Append(q, e) = DOMAIN q \cup {Len(q) + 1}
      /\ Append(q, e)[Len(q) + 1] = e
      /\ \A k \in DOMAIN q : Append(q, e)[k] = q[k]
  BY <1>1, <1>2
<1>4. Range(Append(q, e)) = A
  BY <1>1, <1>3 DEF Range
<1>5. QED  BY <1>1, <1>3, <1>4

LEMMA LineIs ==
  ASSUME NEW i, NEW about, NEW export, NEW vendor
  PROVE  Line(i, about, export, vendor).source = i /\ Line(i, about, export, vendor).about = about
BY DEF Line

LEMMA SourcesAre == Len(Sources) \in Nat /\ DOMAIN Sources = 1 .. Len(Sources)
BY SourcesAssumption

LEMMA CommandInit == DocumentsInit => CommandInv
<1>1. SUFFICES ASSUME DocumentsInit PROVE CommandInv
  OBVIOUS
<1>2. PICK file \in ConfigFiles, out \in OutArguments :
        /\ vendors = VendorAllowList(CommandConfig(file, out).schemaSources)
        /\ outDir = CommandConfig(file, out).outDir
  BY <1>1 DEF DocumentsInit
<1>3. PICK raw : /\ raw = IF out = NoDir THEN file ELSE [NoConfig EXCEPT !.outDir = out]
                 /\ CommandConfig(file, out) = ResolveConfig(raw)
  BY DEF CommandConfig
<1>4. /\ raw.outDir \in {file.outDir, out}
      /\ raw.schemaSources = file.schemaSources \/ raw.schemaSources = {}
  BY <1>3 DEF NoConfig
<1>5. outDir = raw.outDir
  BY <1>2, <1>3 DEF ResolveConfig
<1>6. NoVendor \notin vendors
  <2>1. \A s \in raw.schemaSources : VendorName(s) # NoVendor
    BY <1>4, ConfigAssumption
  <2>2. \A s \in DefaultSchemaSources : VendorName(s) # NoVendor
    <3>1. /\ VendorName(<<"zod", "">>) = "zod" /\ VendorName(<<"valibot", "">>) = "valibot"
          /\ VendorName(<<"arktype", "">>) = "arktype"
      BY DEF VendorName
    <3>2. QED  BY <3>1 DEF DefaultSchemaSources, NoVendor
  <2>3. \A s \in CommandConfig(file, out).schemaSources \ {RuntimeSchemaSource} :
          VendorName(s) # NoVendor
    BY <1>3, <2>1, <2>2 DEF ResolveConfig
  <2>4. QED  BY <1>2, <2>3 DEF VendorAllowList, NoVendor
<1>7. 1 \in 1 .. Len(Sources) + 1 /\ files \in Seq(Range(files))
  BY <1>1, SourcesAre DEF DocumentsInit, Range
<1>8. WorkerInv /\ parent = "idle"
  BY <1>1, WorkerInitInv DEF DocumentsInit, WorkerInit
<1>9. QED
  BY <1>1, <1>4, <1>5, <1>6, <1>7, <1>8 DEF DocumentsInit, CommandInv

LEMMA CallWorkerInv ==
  ASSUME CommandInv, CallWorker
  PROVE  CommandInv'
<1> DEFINE m == ModuleOf(exported[current], vendors)
<1>1. /\ current \in DOMAIN Sources /\ exported[current] \in Contents
      /\ Spawn(m) /\ called' /\ WorkerInv
      /\ UNCHANGED <<exported, vendors, outDir, current, disk, files, diagnostics, rejected>>
  BY SourcesAre DEF CommandInv, CallWorker
<1>2. m \in Seq(Range(m))
  BY <1>1, ModuleIs
<1>3. module' = m /\ parent' = "waiting"
  BY <1>1 DEF Spawn
<1> HIDE DEF m
<1>4. WorkerInv'
  BY <1>1, <1>2, SpawnInv
<1>5. \A i : Told(i)' = Told(i)
  BY <1>1 DEF Told, Noted
<1>6. current <= Len(Sources) /\ ~ rejected
  BY DEF CallWorker
<1>7. QED  BY <1>1, <1>3, <1>4, <1>5, <1>6 DEF CommandInv, m

LEMMA WorkerMovesInv ==
  ASSUME CommandInv, WorkerStep, UNCHANGED docVars
  PROVE  CommandInv'
<1>1. /\ UNCHANGED <<exported, vendors, outDir, current, called, disk, files, diagnostics, rejected>>
      /\ WorkerInv
  BY DEF CommandInv, docVars
<1>2. WorkerInv'
  BY <1>1, WorkerStepInv
<1>3. \A i : Told(i)' = Told(i)
  BY <1>1 DEF Told, Noted
<1>4. module' = module /\ parent # "idle"
  BY DEF WorkerStep, Timeout, Collect, Interrupt, Import, Extract, Emit, Report, EndWrite, Exit,
         Dies, Running
<1>5. called
  BY <1>4 DEF CommandInv
<1>6. ASSUME parent' = "idle", outcome'.ok
      PROVE  ~ Call!Throws(module) /\ outcome'.schemas = Call!Entries(module)
  <2>1. Collect
    BY <1>4, <1>6 DEF WorkerStep, Timeout, Interrupt, Import, Extract, Emit, Report, EndWrite,
                      Exit, Dies, Running
  <2>2. outcome' = Result
    BY <2>1 DEF Collect
  <2>3. IsAnswer /\ outcome' = Envelope(envelope.schemas)
    BY <1>6, <2>2 DEF Result, IsAnswer, Diagnostic
  <2>4. QED  BY <1>1, <2>3 DEF WorkerInv, Envelope
<1>7. QED  BY <1>1, <1>2, <1>3, <1>4, <1>5, <1>6 DEF CommandInv

(* What an answer adds to the diagnostics: lines of its own source, and    *)
(* one for every schema it does not convert.                               *)
LEMMA AnswerTells ==
  ASSUME CommandInv, Answer, NEW i, i = current
  PROVE  /\ i \in DOMAIN Sources /\ exported[i] \in Contents
         /\ diagnostics \subseteq diagnostics'
         /\ \A d \in diagnostics' : d \in diagnostics \/ d.source = i
         /\ WorkerLine(i) \in diagnostics' <=> ~ outcome.ok
         /\ outcome.ok => Emittable(outcome.schemas) = WantedOf(i)
         /\ \A n \in DOMAIN exported[i] :
              IsExtractableSchema(exported[i][n]) /\ ~ (outcome.ok /\ n \in WantedOf(i)) =>
                Noted(i, n)'
<1> DEFINE values == exported[i]
           entries == outcome.schemas
<1>1. /\ i \in DOMAIN Sources /\ values \in Contents /\ called /\ parent = "idle"
      /\ NoVendor \notin vendors /\ module = ModuleOf(values, vendors) /\ exported' = exported
      /\ ~ rejected /\ i \in Nat
  BY SourcesAre DEF CommandInv, Answer
<1>2. \A d \in diagnostics : d.source # i
  BY <1>1 DEF CommandInv
<1>3. CASE ~ outcome.ok
  <2>1. diagnostics' = diagnostics \cup {WorkerLine(i)}
    BY <1>3 DEF Answer, Conclude
  <2>2. WorkerLine(i).source = i
    BY LineIs DEF WorkerLine
  <2>3. QED  BY <1>1, <1>3, <2>1, <2>2 DEF Noted
<1>4. CASE outcome.ok
  <2>1. diagnostics' = diagnostics \cup EntryLines(i, entries) \cup VendorLines(i, entries)
    BY <1>4 DEF Answer, Conclude
  <2>2. ~ Call!Throws(ModuleOf(values, vendors)) /\ entries = Call!Entries(ModuleOf(values, vendors))
    BY <1>1, <1>4 DEF CommandInv
  <2>3. /\ Range(entries) = {Entry(k, values[k], vendors) :
                               k \in {j \in DOMAIN values : IsExtractableSchema(values[j])}}
        /\ Emittable(entries) = {n \in DOMAIN values : Wanted(values[n])}
    <3> HIDE DEF values, entries
    <3>1. QED  BY <1>1, <2>2, AnswerIs
  <2>4. Emittable(entries) = WantedOf(i)
    BY <2>3 DEF WantedOf
  <2>5. \A d \in EntryLines(i, entries) \cup VendorLines(i, entries) :
          d.source = i /\ d.about # "worker"
    BY LineIs DEF EntryLines, VendorLines
  <2>6. WorkerLine(i).source = i /\ WorkerLine(i).about = "worker"
    BY LineIs DEF WorkerLine
  <2>7. WorkerLine(i) \notin diagnostics'
    BY <1>2, <2>1, <2>5, <2>6
  <2>8. ASSUME NEW n \in DOMAIN values, IsExtractableSchema(values[n]), n \notin WantedOf(i)
        PROVE  Noted(i, n)'
    <3>1. PICK e \in Range(entries) : e = Entry(n, values[n], vendors)
      BY <2>3, <2>8
    <3>2. IsValue(values[n])
      BY <1>1, <2>8, ModuleIs
    <3>3. e.name = n /\ e.vendor = values[n].vendor
      BY <3>1, <3>2, AdapterIs DEF Entry
    <3>4. e.kind # "converted"
      BY <2>4, <2>8, <3>1, <3>3 DEF Emittable
    <3>5. CASE e.warned
      <4>1. Line(i, "entry", n, NoVendor) \in diagnostics'
        BY <2>1, <3>3, <3>5 DEF EntryLines
      <4>2. QED  BY <4>1 DEF Noted
    <3>6. CASE e.kind = "excluded"
      <4>1. Line(i, "vendor", 0, values[n].vendor) \in diagnostics'
        BY <2>1, <3>3, <3>6 DEF VendorLines
      <4>2. QED  BY <1>1, <4>1 DEF Noted
    <3>7. QED  BY <3>1, <3>2, <3>4, <3>5, <3>6, AdapterIs
  <2>9. QED  BY <1>1, <1>4, <2>1, <2>4, <2>5, <2>7, <2>8
<1>5. QED  BY <1>3, <1>4

(* What an answer writes: nothing, its document, or a part of it.          *)
LEMMA AnswerWrites ==
  ASSUME CommandInv, Answer, NEW i, i = current
  PROVE  \/ /\ UNCHANGED <<disk, files>> /\ ~ rejected'
            /\ outcome.ok => WantedOf(i) = {}
         \/ /\ disk' = [disk EXCEPT ![JsonSchemaOutputPath(i)] = Document(i, WantedOf(i))]
            /\ files' = Append(files, Document(i, WantedOf(i)))
            /\ ~ rejected' /\ outcome.ok /\ WantedOf(i) # {}
         \/ /\ rejected' = TRUE /\ UNCHANGED files
            /\ disk' \in {disk, [disk EXCEPT ![JsonSchemaOutputPath(i)] = Document(i, {})]}
<1>1. ~ rejected
  BY DEF CommandInv, Answer
<1>2. CASE ~ outcome.ok
  BY <1>1, <1>2 DEF Answer, Conclude
<1>3. CASE outcome.ok
  <2>1. Write(i, Emittable(outcome.schemas)) /\ Emittable(outcome.schemas) = WantedOf(i)
    BY <1>3, AnswerTells DEF Answer, Conclude
  <2>2. QED  BY <1>1, <1>3, <2>1 DEF Write
<1>4. QED  BY <1>2, <1>3

LEMMA AnswerInv ==
  ASSUME CommandInv, Answer
  PROVE  CommandInv'
<1>1. /\ current \in 1 .. Len(Sources) /\ ~ called' /\ ~ rejected
      /\ current' = IF rejected' THEN current ELSE current + 1
      /\ UNCHANGED <<parent, module, child, at, schemas, envelope, status, outcome>>
      /\ UNCHANGED <<exported, vendors, outDir>> /\ parent = "idle"
      /\ Len(Sources) \in Nat /\ WorkerInv
  BY SourcesAre DEF CommandInv, Answer, workerVars
<1>2. WorkerInv'
  BY <1>1 DEF WorkerInv, NoEnvelopeLeft, Unwritable, IsAnswer
<1>3. PICK i : i = current
  OBVIOUS
<1>4. /\ diagnostics \subseteq diagnostics'
      /\ \A d \in diagnostics' : d \in diagnostics \/ d.source = i
      /\ \A n \in DOMAIN exported[i] :
           IsExtractableSchema(exported[i][n]) /\ ~ (outcome.ok /\ n \in WantedOf(i)) =>
             Noted(i, n)'
  BY <1>3, AnswerTells
<1>5. /\ DOMAIN disk' = Paths
      /\ files' \in Seq(Range(files')) /\ Range(files) \subseteq Range(files')
      /\ ~ rejected' => Told(i)'
  <2>1. files \in Seq(Range(files)) /\ DOMAIN disk = Paths
    BY DEF CommandInv
  <2>2. CASE /\ UNCHANGED <<disk, files>> /\ ~ rejected'
             /\ outcome.ok => WantedOf(i) = {}
    BY <1>1, <1>4, <2>1, <2>2 DEF Told
  <2>3. CASE /\ DOMAIN disk' = DOMAIN disk
             /\ files' = Append(files, Document(i, WantedOf(i)))
             /\ outcome.ok
    <3>1. files' \in Seq(Range(files')) /\ Range(files') = Range(files) \cup {Document(i, WantedOf(i))}
      BY <2>1, <2>3, AppendRange
    <3>2. Document(i, WantedOf(i)).source = i /\ Document(i, WantedOf(i)).names = WantedOf(i)
      BY DEF Document
    <3>3. QED  BY <1>1, <1>4, <2>1, <2>3, <3>1, <3>2 DEF Told
  <2>4. CASE rejected' /\ UNCHANGED files /\ DOMAIN disk' = DOMAIN disk
    BY <2>1, <2>4
  <2>5. QED  BY <1>3, <2>2, <2>3, <2>4, AnswerWrites
<1>6. ASSUME NEW k \in 1 .. current' - 1
      PROVE  Told(k)'
  <2>1. k \in 1 .. current - 1 \/ (k = i /\ ~ rejected')
    BY <1>1, <1>3
  <2>2. CASE k = i /\ ~ rejected'
    BY <1>5, <2>2
  <2>3. CASE k \in 1 .. current - 1
    <3>1. Told(k)
      BY <2>3 DEF CommandInv
    <3>2. QED  BY <1>1, <1>4, <1>5, <3>1 DEF Told, Noted
  <2>4. QED  BY <2>1, <2>2, <2>3
<1>7. ASSUME ~ rejected', NEW d \in diagnostics'
      PROVE  d.source \in 1 .. current' - 1
  <2>1. d.source \in 1 .. current - 1 \/ d.source = current
    BY <1>1, <1>3, <1>4 DEF CommandInv
  <2>2. QED  BY <1>1, <1>7, <2>1
<1>8. current' \in 1 .. Len(Sources) + 1
  BY <1>1
<1>9. QED  BY <1>1, <1>2, <1>5, <1>6, <1>7, <1>8 DEF CommandInv

LEMMA CommandNext == CommandInv /\ [DocumentsNext]_documentsVars => CommandInv'
<1>1. SUFFICES ASSUME CommandInv, [DocumentsNext]_documentsVars PROVE CommandInv'
  OBVIOUS
<1>2. CASE UNCHANGED documentsVars
  BY <1>1, <1>2 DEF documentsVars, workerVars, docVars, CommandInv, Told, Noted, WorkerInv,
                    NoEnvelopeLeft, Unwritable, IsAnswer
<1>3. CASE DocumentsNext
  BY <1>1, <1>3, CallWorkerInv, WorkerMovesInv, AnswerInv DEF DocumentsNext
<1>4. QED  BY <1>1, <1>2, <1>3

LEMMA CommandCorrect == DocumentsSpec => []CommandInv
BY CommandInit, CommandNext, PTL DEF DocumentsSpec

(* Between two calls no envelope file is left, however the children of the *)
(* earlier calls ended (worker-harness.ts:95-98).                          *)
THEOREM EnvelopeRemoved == DocumentsSpec => []NoEnvelopeLeft
BY CommandCorrect, PTL DEF CommandInv, WorkerInv

(* No schema is passed over in silence: when the command returns, each     *)
(* schema a source exports is named among the documents written, or told   *)
(* of in a diagnostic (jsonschema.ts:422-474).                             *)
THEOREM NoSourceSilent == DocumentsSpec => []EverySourceAnswered
<1>1. ASSUME CommandInv, Done
      PROVE  EverySourceAnswered
  <2>1. current \in 1 .. Len(Sources) + 1 /\ current > Len(Sources)
    BY <1>1 DEF CommandInv, Done
  <2>2. current - 1 = Len(Sources)
    BY <2>1, SourcesAre
  <2>3. \A k \in DOMAIN Sources : Told(k)
    BY <1>1, <2>2, SourcesAre DEF CommandInv
  <2>4. QED  BY <2>3 DEF EverySourceAnswered, Told, Noted
<1>2. CommandInv => EverySourceAnswered
  BY <1>1 DEF EverySourceAnswered
<1>3. QED  BY <1>2, CommandCorrect, PTL

(* An answer makes its source a writer of its path when it is written.     *)
LEMMA WritersStep ==
  ASSUME CommandInv, Answer, NEW p, NEW i, i = current
  PROVE  \A k : k \in Writers(p)' <=>
           \/ k \in Writers(p)
           \/ /\ k = i /\ p = JsonSchemaOutputPath(i)
              /\ ~ rejected' /\ outcome.ok /\ WantedOf(i) # {}
<1>1. /\ current \in 1 .. Len(Sources) /\ Len(Sources) \in Nat /\ DOMAIN Sources = 1 .. Len(Sources)
      /\ current' = IF rejected' THEN current ELSE current + 1
      /\ UNCHANGED <<exported, vendors, outDir>>
  BY SourcesAre DEF CommandInv, Answer
<1>2. /\ \A k : WantedOf(k)' = WantedOf(k)
      /\ \A k : JsonSchemaOutputPath(k)' = JsonSchemaOutputPath(k)
  BY <1>1 DEF WantedOf, Wanted, JsonSchemaOutputPath
<1>3. /\ diagnostics \subseteq diagnostics'
      /\ \A d \in diagnostics' : d \in diagnostics \/ d.source = i
      /\ WorkerLine(i) \in diagnostics' <=> ~ outcome.ok
  BY AnswerTells
<1>4. \A k : k # i => (WorkerLine(k) \in diagnostics' <=> WorkerLine(k) \in diagnostics)
  <2>1. \A k : WorkerLine(k).source = k
    BY LineIs DEF WorkerLine
  <2>2. QED  BY <1>3, <2>1
<1>5. \A k : WorkerLine(k)' = WorkerLine(k)
  BY DEF WorkerLine, Line
<1>6. \A k \in DOMAIN Sources : k < current' <=> k < current \/ (k = i /\ ~ rejected')
  BY <1>1
<1>7. TAKE k
<1>8. CASE k = i
  BY <1>1, <1>2, <1>3, <1>5, <1>6, <1>8 DEF Writers
<1>9. CASE k # i
  BY <1>1, <1>2, <1>4, <1>5, <1>6, <1>9 DEF Writers
<1>10. QED  BY <1>8, <1>9

(* The document on disk is the one of the last source that should have     *)
(* written its path: all the schemas wanted of it, none of a vendor        *)
(* outside schemaSources, none of another source (jsonschema.ts:439-472,   *)
(* jsonschema-adapter.ts:63-146).  Base names may be shared and workers    *)
(* may fail; only the path of a write that threw is in doubt.              *)
THEOREM DocumentsOwnSchemas == DocumentsSpec => []DocumentOfEachSource
<1>1. DocumentsInit => DocumentOfEachSource
  <2>1. DocumentsInit => \A p : Writers(p) = {}
    BY SourcesAre DEF DocumentsInit, Writers
  <2>2. QED  BY <2>1 DEF DocumentsInit, DocumentOfEachSource
<1>2. ASSUME CommandInv, DocumentOfEachSource, [DocumentsNext]_documentsVars
      PROVE  DocumentOfEachSource'
  <2>1. CASE CallWorker \/ UNCHANGED docVars
    <3>1. UNCHANGED <<exported, vendors, outDir, current, disk, diagnostics, rejected>>
      BY <2>1 DEF CallWorker, docVars
    <3>2. /\ \A k : WantedOf(k)' = WantedOf(k)
          /\ \A k : JsonSchemaOutputPath(k)' = JsonSchemaOutputPath(k)
      BY <3>1 DEF WantedOf, Wanted, JsonSchemaOutputPath
    <3>3. \A p : Writers(p)' = Writers(p)
      BY <3>1, <3>2 DEF Writers, WorkerLine, Line
    <3>4. QED  BY <1>2, <3>1, <3>2, <3>3 DEF DocumentOfEachSource, JsonSchemaOutputPath
  <2>2. CASE Answer
    <3>1. PICK i : i = current
      OBVIOUS
    <3>2. /\ current \in 1 .. Len(Sources) /\ Len(Sources) \in Nat /\ DOMAIN Sources = 1 .. Len(Sources)
          /\ DOMAIN disk = Paths /\ ~ rejected
          /\ rejected' => current' = current
          /\ UNCHANGED <<exported, vendors, outDir>>
      BY <1>2, <2>2, SourcesAre DEF CommandInv, Answer
    <3>3. /\ \A k : WantedOf(k)' = WantedOf(k)
          /\ \A k : JsonSchemaOutputPath(k)' = JsonSchemaOutputPath(k)
          /\ rejected' => JsonSchemaOutputPath(current)' = JsonSchemaOutputPath(i)
      BY <3>1, <3>2 DEF WantedOf, Wanted, JsonSchemaOutputPath
    <3>4. SUFFICES ASSUME NEW p \in Paths, ~ (rejected' /\ p = JsonSchemaOutputPath(i))
                   PROVE  /\ Writers(p)' = {} => disk'[p] = NoDocument
                          /\ \A k \in Writers(p)' :
                               (\A j \in Writers(p)' : j <= k) => disk'[p] = Document(k, WantedOf(k))
      BY <3>3 DEF DocumentOfEachSource, NoDocument, Document
    <3>5. \A k : k \in Writers(p)' <=>
            \/ k \in Writers(p)
            \/ /\ k = i /\ p = JsonSchemaOutputPath(i)
               /\ ~ rejected' /\ outcome.ok /\ WantedOf(i) # {}
      BY <1>2, <2>2, <3>1, WritersStep
    <3>6. /\ Writers(p) = {} => disk[p] = NoDocument
          /\ \A k \in Writers(p) :
               (\A j \in Writers(p) : j <= k) => disk[p] = Document(k, WantedOf(k))
      BY <1>2, <3>2 DEF DocumentOfEachSource
    <3>7. CASE p = JsonSchemaOutputPath(i) /\ ~ rejected' /\ outcome.ok /\ WantedOf(i) # {}
      <4>1. disk' = [disk EXCEPT ![p] = Document(i, WantedOf(i))]
        BY <1>2, <2>2, <3>1, <3>7, AnswerWrites
      <4>2. disk'[p] = Document(i, WantedOf(i))
        BY <3>2, <4>1
      <4>3. \A k \in Writers(p) : k \in Nat /\ k < i
        BY <3>1, <3>2 DEF Writers
      <4>4. ASSUME NEW k \in Writers(p)', \A j \in Writers(p)' : j <= k
            PROVE  k = i
        <5>1. i \in Writers(p)' /\ (k \in Writers(p) \/ k = i)
          BY <3>5, <3>7
        <5>2. i <= k
          BY <4>4, <5>1
        <5>3. QED  BY <3>1, <3>2, <4>3, <5>1, <5>2
      <4>5. i \in Writers(p)'
        BY <3>5, <3>7
      <4>6. QED  BY <4>2, <4>4, <4>5
    <3>8. CASE ~ (p = JsonSchemaOutputPath(i) /\ ~ rejected' /\ outcome.ok /\ WantedOf(i) # {})
      <4>1. Writers(p)' = Writers(p)
        BY <3>5, <3>8
      <4>2. disk'[p] = disk[p]
        BY <1>2, <2>2, <3>1, <3>2, <3>4, <3>8, AnswerWrites
      <4>3. QED  BY <3>6, <4>1, <4>2
    <3>9. QED  BY <3>7, <3>8
  <2>3. QED  BY <1>2, <2>1, <2>2 DEF DocumentsNext, documentsVars
<1>3. QED  BY <1>1, <1>2, CommandCorrect, PTL DEF DocumentsSpec

AllowLists ==
  {VendorAllowList(CommandConfig(file, out).schemaSources) :
     file \in ConfigFiles, out \in OutArguments}

(* So does every call the command makes, for every source and whatever     *)
(* vendors its configuration allows (jsonschema.ts:422-431).               *)
THEOREM CommandImplementsCall ==
  ASSUME \A values \in Contents, allowed \in AllowLists : ModuleOf(values, allowed) \in Modules
  PROVE  DocumentsSpec => CallSpec
<1>1. DocumentsInit => vendors \in AllowLists
  BY DEF DocumentsInit, AllowLists
<1>2. vendors \in AllowLists /\ [DocumentsNext]_documentsVars => (vendors \in AllowLists)'
  BY DEF DocumentsNext, CallWorker, Answer, documentsVars, docVars
<1>3. DocumentsInit => Call!CallInit
  BY DEF DocumentsInit, WorkerInit, Call!CallInit, Call!NoCall, Diagnostic, Call!Diagnostic
<1>4. ASSUME CommandInv, vendors \in AllowLists, [DocumentsNext]_documentsVars
      PROVE  [Call!CallBegin \/ Call!CallFails \/ Call!CallAnswers]_Call!callVars
  <2>1. WorkerInv
    BY <1>4 DEF CommandInv
  <2>2. CASE CallWorker
    <3>1. exported[current] \in Contents
      BY <1>4, <2>2, SourcesAre DEF CallWorker, CommandInv
    <3>2. PICK m \in Modules : Spawn(m)
      BY <1>4, <2>2, <3>1 DEF CallWorker
    <3>3. QED  BY <2>1, <3>2, SpawnCalls
  <2>3. CASE WorkerStep
    BY <2>1, <2>3, StepCalls
  <2>4. CASE Answer \/ UNCHANGED documentsVars
    BY <2>4 DEF Answer, documentsVars, workerVars, Call!callVars
  <2>5. QED  BY <1>4, <2>2, <2>3, <2>4 DEF DocumentsNext
<1>5. QED
  BY <1>1, <1>2, <1>3, <1>4, CommandCorrect, PTL DEF DocumentsSpec, CallSpec, Call!CallSpec
=============================================================================
