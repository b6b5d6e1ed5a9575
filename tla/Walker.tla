------------------------------- MODULE Walker -------------------------------
(***************************************************************************)
(* The walk over a schema's objects that both emitters share:              *)
(* packages/compiler/src/cycle-guard.ts under jsonschema.ts ("json") and   *)
(* structural-ts.ts ("structural").  The recursion is a stack of frames.   *)
(* Of a rendered body the model keeps the names it refers to.              *)
(*                                                                         *)
(* A schema has a kind, the schemas it is made of in the order they are    *)
(* walked, and possibly an exported name.  A schema in fresh is built anew *)
(* by each call of the getter it is reached through: copy 0 is the value   *)
(* the module holds, the n-th object built is copy n.                      *)
(***************************************************************************)
EXTENDS Sequences, FiniteSets, Naturals, TLC

CONSTANTS
  Graphs,     \* schema graphs: [kind, parts, fresh, optionalKeys]
  Exports,    \* maps from schemas to exported names: [schema -> name]
  Root,       \* the schema the walk starts from
  MaxDepth    \* structural: maxDepth (64); json: where the stack overflows

NoObject == 0

Schemas(g) == DOMAIN g.kind

ASSUME MaxDepthAssumption == MaxDepth \in Nat \ {0}

(* Parts are schemas or no objects; an optional wraps exactly one.         *)
ASSUME GraphsAssumption ==
  \A g \in Graphs :
    /\ Root \in Schemas(g) /\ NoObject \notin Schemas(g)
    /\ \A s \in Schemas(g) :
         /\ g.parts[s] \in Seq(Schemas(g) \cup {NoObject})
         /\ g.kind[s] = "optional" => Len(g.parts[s]) = 1

VARIABLES
  mode,              \* "json" or "structural"
  graph,             \* the graph walked
  exported,          \* exportNames, typeNames
  stack,             \* the walks in progress, outermost first
  visiting,          \* guard.visiting
  names,             \* guard.names
  defs,              \* defs, a definition as the names it refers to
  built,             \* objects built by getters so far
  unsupported,       \* unsupported
  bearsUnsupported,  \* bearsUnsupported
  result,            \* names the root's own body refers to
  status             \* "walking", "done", "threw"

input == <<mode, graph, exported>>
guard == <<visiting, names, defs>>
flags == <<unsupported, bearsUnsupported>>
walkerVars == <<input, guard, flags, stack, built, result, status>>

Init ==
  /\ mode \in {"json", "structural"}
  /\ graph \in Graphs
  /\ exported \in Exports
  /\ mode = "structural" => Root \in DOMAIN exported
  /\ stack = <<>>
  /\ visiting = {} /\ names = <<>> /\ defs = <<>>
  /\ built = 0
  /\ unsupported = FALSE /\ bearsUnsupported = FALSE
  /\ result = {}
  /\ status = "walking"

-----------------------------------------------------------------------------
(* Where the walk is                                                       *)

Top == stack[Len(stack)]

(* jsonschema.ts: a template literal is a pattern, its parts are not walked. *)
JsonParts(s) == IF graph.kind[s] = "template" THEN <<>> ELSE graph.parts[s]

(* structural-ts.ts: an optional entry of an object with optionalKeys is    *)
(* walked through to what it wraps.                                        *)
StructuralParts(s) ==
  IF graph.kind[s] = "object" /\ graph.optionalKeys
  THEN [i \in DOMAIN graph.parts[s] |->
         LET p == graph.parts[s][i]
         IN IF p # NoObject /\ graph.kind[p] = "optional" THEN graph.parts[p][1] ELSE p]
  ELSE graph.parts[s]

Parts(o) == IF mode = "json" THEN JsonParts(o.schema) ELSE StructuralParts(o.schema)

(* The names a finished body refers to: in a structural type a transform   *)
(* is unknown, in a JSON Schema it leaves the schema of its base.          *)
IsOpaque(o) == mode = "structural" /\ graph.kind[o.schema] = "transform"

Rendered == IF IsOpaque(Top.object) THEN {} ELSE Top.refers

(* The next object to walk: the root, or what the innermost body reaches   *)
(* next, through a getter that may build it.                               *)
Waiting == IF stack = <<>> THEN TRUE ELSE Top.next <= Len(Parts(Top.object))

Reached ==
  LET s == Parts(Top.object)[Top.next]
  IN IF stack = <<>> THEN [schema |-> Root, copy |-> 0]
     ELSE IF s = NoObject THEN [schema |-> NoObject, copy |-> 0]
     ELSE IF s \in graph.fresh
             /\ (graph.kind[Top.object.schema] = "lazy" \/ Top.object.copy > 0)
     THEN [schema |-> s, copy |-> built + 1]
     ELSE [schema |-> s, copy |-> 0]

Named(o) == o.copy = 0 /\ o.schema \in DOMAIN exported

IsRoot(o) == o = [schema |-> Root, copy |-> 0]

Counted == built' = IF Reached.copy > 0 THEN Reached.copy ELSE built

(* What was rendered joins the body around it, or is the result.           *)
Return(frames, refers) ==
  IF frames = <<>>
  THEN /\ stack' = <<>> /\ result' = refers /\ status' = "done"
  ELSE /\ stack' = [frames EXCEPT ![Len(frames)].refers = @ \cup refers,
                                  ![Len(frames)].next = @ + 1]
       /\ UNCHANGED <<result, status>>

-----------------------------------------------------------------------------
(* walkNode, walk: what precedes the guard                                 *)

WalkNonObject ==
  /\ status = "walking" /\ Waiting /\ Reached.schema = NoObject
  /\ bearsUnsupported' = TRUE
  /\ Return(stack, {})
  /\ UNCHANGED <<input, guard, unsupported, built>>

(* Another declared target is its alias.                                   *)
IsAlias(o) == mode = "structural" /\ ~ IsRoot(o) /\ Named(o)

(* A recursive() schema that is no declared target is refused.             *)
IsForeign(o) ==
  mode = "structural" /\ ~ IsRoot(o) /\ ~ Named(o) /\ graph.kind[o.schema] = "recursive"

ReferToAlias ==
  /\ status = "walking" /\ Waiting /\ Reached.schema # NoObject
  /\ IsAlias(Reached)
  /\ Return(stack, {exported[Reached.schema]})
  /\ UNCHANGED <<input, guard, flags, built>>

RefuseForeign ==
  /\ status = "walking" /\ Waiting /\ Reached.schema # NoObject
  /\ IsForeign(Reached)
  /\ unsupported' = TRUE
  /\ Counted
  /\ Return(stack, {})
  /\ UNCHANGED <<input, guard, bearsUnsupported>>

TooDeep == Len(stack) >= MaxDepth

(* structural-ts stops; jsonschema overflows the stack and throws.         *)
Stop ==
  /\ status = "walking" /\ Waiting /\ Reached.schema # NoObject
  /\ ~ IsAlias(Reached) /\ ~ IsForeign(Reached)
  /\ TooDeep
  /\ Counted
  /\ IF mode = "structural"
     THEN unsupported' = TRUE /\ Return(stack, {})
     ELSE status' = "threw" /\ UNCHANGED <<unsupported, stack, result>>
  /\ UNCHANGED <<input, guard, bearsUnsupported>>

-----------------------------------------------------------------------------
(* walkWithCycleGuard                                                      *)

Guarded ==
  /\ status = "walking" /\ Waiting /\ Reached.schema # NoObject
  /\ ~ IsAlias(Reached) /\ ~ IsForeign(Reached) /\ ~ TooDeep

ReferToHoisted ==
  /\ Guarded
  /\ Reached \in DOMAIN names
  /\ Return(stack, {names[Reached]})
  /\ UNCHANGED <<input, guard, flags, built>>

BaseName(o) ==
  IF Named(o) THEN exported[o.schema]
  ELSE IF mode = "json" THEN graph.kind[o.schema] ELSE "__TskmAnon"

Candidate(base, n) == IF n = 1 THEN base ELSE base \o "_" \o ToString(n)

(* Mutant: only finished definitions count as taken.                       *)
TakenWhenDefined(name) == name \in DOMAIN defs

(* hasDef and hasName                                                      *)
Taken(name) == name \in DOMAIN defs \/ \E o \in DOMAIN names : names[o] = name

(* assignDefName's loop leaves off at its first candidate that is free;    *)
(* the names taken bound how far it goes.                                  *)
IsFirstFree(base, n) ==
  /\ ~ Taken(Candidate(base, n))
  /\ \A k \in 1 .. n - 1 : Taken(Candidate(base, k))

AssignDefName(o) ==
  {Candidate(BaseName(o), n) : n \in
     {m \in 1 .. Cardinality(DOMAIN names) + Cardinality(DOMAIN defs) + 1 :
        IsFirstFree(BaseName(o), m)}}

(* Map.set, and a definition stored in the document's record               *)
Put(map, key, value) ==
  [k \in DOMAIN map \cup {key} |-> IF k = key THEN value ELSE map[k]]

(* A back-edge to a body in progress: the name is reserved, the body       *)
(* follows when its walk ends.                                             *)
Hoist ==
  /\ Guarded
  /\ Reached \notin DOMAIN names
  /\ Reached \in visiting
  /\ \E name \in AssignDefName(Reached) :
       /\ names' = Put(names, Reached, name)
       /\ Return(stack, {name})
  /\ unsupported' = (unsupported \/ (mode = "structural" /\ ~ Named(Reached)))
  /\ UNCHANGED <<input, visiting, defs, bearsUnsupported, built>>

(* Mutant: the object is not marked while its body is walked.              *)
EnterUnmarked ==
  /\ Guarded
  /\ Reached \notin DOMAIN names
  /\ Reached \notin visiting
  /\ stack' = Append(stack, [object |-> Reached, next |-> 1, refers |-> {}])
  /\ bearsUnsupported' = (bearsUnsupported \/ graph.kind[Reached.schema] = "foreign")
  /\ Counted
  /\ UNCHANGED <<input, guard, unsupported, result, status>>

(* The body of a kind the walker does not know is empty.                   *)
Enter ==
  /\ Guarded
  /\ Reached \notin DOMAIN names
  /\ Reached \notin visiting
  /\ visiting' = visiting \cup {Reached}
  /\ stack' = Append(stack, [object |-> Reached, next |-> 1, refers |-> {}])
  /\ bearsUnsupported' = (bearsUnsupported \/ graph.kind[Reached.schema] = "foreign")
  /\ Counted
  /\ UNCHANGED <<input, names, defs, unsupported, result, status>>

Outer == SubSeq(stack, 1, Len(stack) - 1)

(* Mutant: the body of a hoisted object is inlined, not stored.            *)
LeaveInlining ==
  /\ status = "walking" /\ stack # <<>> /\ ~ Waiting
  /\ visiting' = visiting \ {Top.object}
  /\ Return(Outer, Rendered)
  /\ UNCHANGED <<input, names, defs, flags, built>>

(* Mutant: the object stays marked after its walk.                         *)
LeaveMarked ==
  /\ status = "walking" /\ stack # <<>> /\ ~ Waiting
  /\ IF Top.object \in DOMAIN names
     THEN /\ defs' = Put(defs, names[Top.object], Rendered)
          /\ Return(Outer, {names[Top.object]})
     ELSE Return(Outer, Rendered) /\ UNCHANGED defs
  /\ UNCHANGED <<input, visiting, names, flags, built>>

(* The body is complete: stored under its name when one was reserved.      *)
Leave ==
  /\ status = "walking" /\ stack # <<>> /\ ~ Waiting
  /\ visiting' = visiting \ {Top.object}
  /\ IF Top.object \in DOMAIN names
     THEN /\ defs' = Put(defs, names[Top.object], Rendered)
          /\ Return(Outer, {names[Top.object]})
     ELSE Return(Outer, Rendered) /\ UNCHANGED defs
  /\ UNCHANGED <<input, names, flags, built>>

Halted == status # "walking" /\ UNCHANGED walkerVars

Next ==
  \/ WalkNonObject \/ ReferToAlias \/ RefuseForeign \/ Stop
  \/ ReferToHoisted \/ Hoist \/ Enter \/ Leave
  \/ Halted

Spec == Init /\ [][Next]_walkerVars

-----------------------------------------------------------------------------
(* Properties                                                              *)

Referred == result \cup UNION {defs[name] : name \in DOMAIN defs}

(* When the walk ends no reference dangles: in a JSON Schema document each *)
(* has its definition, a structural body that is not refused refers only   *)
(* to declared aliases and leaves no definition but its own                *)
(* (cycle-guard.ts:47-72, structural-ts.ts:117-119).                       *)
ReferencesResolve ==
  status = "done" =>
    IF mode = "json" THEN Referred \subseteq DOMAIN defs
    ELSE unsupported \/
         /\ Referred \subseteq {exported[s] : s \in DOMAIN exported}
         /\ DOMAIN defs \subseteq {exported[Root]}

(* Two objects never share a definition: a name reserved while its body is *)
(* still walked is taken, and a finished definition is never replaced by   *)
(* another object's (cycle-guard.ts:83-96).                                *)
NamesDistinct ==
  /\ \A o, p \in DOMAIN names : names[o] = names[p] => o = p
  /\ DOMAIN defs \subseteq {names[o] : o \in DOMAIN names}

(* What is reached from s is in every set that holds the parts of s and    *)
(* the parts of its members.                                               *)
PartsOf(s) == {graph.parts[s][i] : i \in DOMAIN graph.parts[s]} \ {NoObject}
Closed(C) == \A s \in C : PartsOf(s) \subseteq C
Reaches(s) ==
  {t \in Schemas(graph) :
     \A C \in SUBSET Schemas(graph) : Closed(C) /\ PartsOf(s) \subseteq C => t \in C}

(* An acyclic schema stays inlined: what was hoisted can be reached from   *)
(* itself (cycle-guard.ts:12-13).                                          *)
HoistedOnCycle == \A o \in DOMAIN names : o.schema \in Reaches(o.schema)

(* The identity guard alone ends the walk of every graph whose getters     *)
(* return the same object each time: no object is entered twice on one     *)
(* stack, so that only objects built by getters can reach the depth limit  *)
(* (structural-ts.ts:171-181).                                             *)
GuardEndsWalk ==
  /\ \A i, j \in DOMAIN stack : stack[i].object = stack[j].object => i = j
  /\ status = "threw" => built > 0
=============================================================================
