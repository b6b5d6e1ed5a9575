----------------------------- MODULE WalkerProofs -----------------------------
(***************************************************************************)
(* The walk and its cycle guard for any schema graph, any exported names   *)
(* and any depth limit.                                                    *)
(***************************************************************************)
EXTENDS Walker, FiniteSetTheorems, TLAPS

USE MaxDepthAssumption

(* An object of the walk: a schema of the graph, and which copy of it      *)
Object == [schema : Schemas(graph), copy : Nat]
OnStack == {stack[i].object : i \in DOMAIN stack}

AliasNames == {exported[s] : s \in DOMAIN exported}
HoistedNames == {names[o] : o \in DOMAIN names}

FrameOf(R) == [object : Object, next : Nat \ {0}, refers : SUBSET R]
Frame == FrameOf(AliasNames \cup HoistedNames)

WalkTypeOK ==
  /\ mode \in {"json", "structural"}
  /\ graph \in Graphs
  /\ mode = "structural" => Root \in DOMAIN exported
  /\ stack \in Seq(Frame)
  /\ DOMAIN names \subseteq Object
  /\ built \in Nat
  /\ unsupported \in BOOLEAN
  /\ status \in {"walking", "done", "threw"}

(* The marked objects are those whose body is being walked, each once; an  *)
(* object that a getter built counts as built.                             *)
GuardInv ==
  /\ visiting = OnStack
  /\ \A i, j \in DOMAIN stack : stack[i].object = stack[j].object => i = j
  /\ built = 0 => \A o \in OnStack : o.copy = 0
  /\ status = "done" => stack = <<>>

(* A reserved name has its definition, or its body is being walked.        *)
NamesInv ==
  /\ NamesDistinct
  /\ \A o \in DOMAIN names : names[o] \in DOMAIN defs \/ o \in OnStack

(* Names that a walked or finished body refers to                          *)
InProgress == UNION {stack[i].refers : i \in DOMAIN stack}

(* In a JSON Schema every reference is to a hoisted object.  In a type, as *)
(* long as it is not refused, every reference is to a declared alias, only *)
(* the root can be hoisted, and it keeps its own name: other declared      *)
(* targets are referred to, never entered.                                 *)
RefersInv ==
  /\ mode = "json" => Referred \cup InProgress \subseteq HoistedNames
  /\ mode = "structural" => \A o \in OnStack : IsRoot(o) \/ ~ Named(o)
  /\ mode = "structural" /\ ~ unsupported =>
       /\ Referred \cup InProgress \subseteq AliasNames
       /\ \A o \in DOMAIN names : IsRoot(o) /\ names[o] = exported[Root]

(* Each object on the stack was reached from those below it.               *)
PathInv ==
  /\ \A i, j \in DOMAIN stack :
       i < j => stack[j].object.schema \in Reaches(stack[i].object.schema)
  /\ HoistedOnCycle

WalkInv == WalkTypeOK /\ GuardInv /\ NamesInv /\ RefersInv /\ PathInv

-----------------------------------------------------------------------------
(* What is reached                                                         *)

LEMMA PartsTyped ==
  ASSUME NEW g \in Graphs, NEW s \in Schemas(g), NEW i \in DOMAIN g.parts[s],
         g.parts[s][i] # NoObject
  PROVE  g.parts[s][i] \in Schemas(g)
<1>1. g.parts[s] \in Seq(Schemas(g) \cup {NoObject})
  BY GraphsAssumption
<1>2. g.parts[s][i] \in Schemas(g) \cup {NoObject}
  BY <1>1
<1>3. QED  BY <1>2

LEMMA ReachesPart ==
  ASSUME NEW s, NEW t \in PartsOf(s), t \in Schemas(graph)
  PROVE  t \in Reaches(s)
BY DEF Reaches

LEMMA ReachesOn ==
  ASSUME NEW s \in Schemas(graph), NEW t \in Reaches(s), NEW u \in Reaches(t)
  PROVE  u \in Reaches(s)
<1>1. SUFFICES ASSUME NEW C \in SUBSET Schemas(graph), Closed(C), PartsOf(s) \subseteq C
               PROVE  u \in C
  BY DEF Reaches
<1>2. t \in C
  BY <1>1 DEF Reaches
<1>3. PartsOf(t) \subseteq C
  BY <1>1, <1>2 DEF Closed
<1>4. QED  BY <1>1, <1>3 DEF Reaches

(* What the walk of an object reaches next is reached from its schema, the *)
(* key of an object with optionalKeys through the optional around it.      *)
LEMMA PartsReach ==
  ASSUME graph \in Graphs, mode \in {"json", "structural"},
         NEW s \in Schemas(graph), NEW o, o.schema = s,
         NEW k \in Nat \ {0}, k <= Len(Parts(o)), Parts(o)[k] # NoObject
  PROVE  Parts(o)[k] \in Schemas(graph) /\ Parts(o)[k] \in Reaches(s)
<1>1. /\ graph.parts[s] \in Seq(Schemas(graph) \cup {NoObject})
      /\ DOMAIN graph.parts[s] = 1..Len(graph.parts[s]) /\ Len(graph.parts[s]) \in Nat
  BY GraphsAssumption
<1>2. ASSUME NEW i \in DOMAIN graph.parts[s], graph.parts[s][i] # NoObject
      PROVE  /\ graph.parts[s][i] \in Schemas(graph)
             /\ graph.parts[s][i] \in Reaches(s)
  <2>1. graph.parts[s][i] \in Schemas(graph)
    BY <1>2, PartsTyped
  <2>2. graph.parts[s][i] \in PartsOf(s)
    BY <1>2 DEF PartsOf
  <2>3. QED  BY <2>1, <2>2, ReachesPart
<1>3. CASE Parts(o) = graph.parts[s]
  <2>1. k \in DOMAIN graph.parts[s]
    BY <1>1, <1>3
  <2>2. QED  BY <1>2, <1>3, <2>1
<1>4. CASE Parts(o) = <<>>
  BY <1>4
<1>5. CASE mode = "structural" /\ graph.kind[s] = "object" /\ graph.optionalKeys
  <2>1. Parts(o) = [i \in 1..Len(graph.parts[s]) |->
           LET p == graph.parts[s][i]
           IN IF p # NoObject /\ graph.kind[p] = "optional" THEN graph.parts[p][1] ELSE p]
    BY <1>1, <1>5 DEF Parts, StructuralParts
  <2>2. Len(Parts(o)) = Len(graph.parts[s])
    BY <1>1, <2>1
  <2>3. k \in 1..Len(graph.parts[s]) /\ k \in DOMAIN graph.parts[s]
    BY <1>1, <2>2
  <2> DEFINE p == graph.parts[s][k]
  <2>4. CASE p # NoObject /\ graph.kind[p] = "optional"
    <3>1. Parts(o)[k] = graph.parts[p][1]
      BY <2>1, <2>3, <2>4
    <3>2. p \in Schemas(graph) /\ p \in Reaches(s)
      BY <1>2, <2>3, <2>4
    <3>3. 1 \in DOMAIN graph.parts[p]
      <4>1. /\ graph.parts[p] \in Seq(Schemas(graph) \cup {NoObject})
            /\ Len(graph.parts[p]) = 1
        BY <2>4, <3>2, GraphsAssumption
      <4>2. QED  BY <4>1
    <3>4. graph.parts[p][1] \in Schemas(graph) /\ graph.parts[p][1] \in PartsOf(p)
      BY <3>1, <3>2, <3>3, PartsTyped DEF PartsOf
    <3>5. QED  BY <3>1, <3>2, <3>4, ReachesPart, ReachesOn
  <2>5. CASE ~ (p # NoObject /\ graph.kind[p] = "optional")
    BY <1>2, <2>1, <2>3, <2>5
  <2>6. QED  BY <2>4, <2>5
<1>6. QED  BY <1>3, <1>4, <1>5 DEF Parts, JsonParts, StructuralParts

LEMMA TopFrame ==
  ASSUME WalkTypeOK, stack # <<>>
  PROVE  /\ Len(stack) \in DOMAIN stack /\ DOMAIN stack = 1..Len(stack)
         /\ Len(stack) \in Nat \ {0}
         /\ Top \in Frame /\ Top.object \in Object /\ Top.object \in OnStack
<1>1. Len(stack) \in Nat \ {0} /\ DOMAIN stack = 1..Len(stack) /\ Top \in Frame
  BY DEF WalkTypeOK, Top
<1>2. QED  BY <1>1 DEF Frame, FrameOf, OnStack, Top

LEMMA ReachedTyped ==
  ASSUME WalkTypeOK, Waiting, Reached.schema # NoObject
  PROVE  /\ Reached \in Object
         /\ stack # <<>> => Reached.schema \in Reaches(Top.object.schema)
         /\ stack = <<>> => IsRoot(Reached)
<1>1. CASE stack = <<>>
  BY <1>1, GraphsAssumption DEF Reached, WalkTypeOK, Object, IsRoot
<1>2. CASE stack # <<>>
  <2> DEFINE s == Parts(Top.object)[Top.next]
  <2>1. Top.object.schema \in Schemas(graph) /\ Top.next \in Nat \ {0}
    BY <1>2, TopFrame DEF Object, Frame, FrameOf
  <2>2. Top.next <= Len(Parts(Top.object))
    BY <1>2 DEF Waiting
  <2>3. Reached.schema = s /\ Reached \in [schema : {s}, copy : Nat]
    BY <1>2 DEF Reached, WalkTypeOK
  <2>4. s \in Schemas(graph) /\ s \in Reaches(Top.object.schema)
    BY <2>1, <2>2, <2>3, PartsReach DEF WalkTypeOK
  <2>5. QED  BY <1>2, <2>3, <2>4 DEF Object
<1>3. QED  BY <1>1, <1>2

-----------------------------------------------------------------------------
(* Returning to the body around                                            *)

Advanced(f, refers) == [f EXCEPT !.refers = @ \cup refers, !.next = @ + 1]

LEMMA FrameStep ==
  ASSUME NEW R, NEW f \in FrameOf(R), NEW refers \in SUBSET R
  PROVE  /\ Advanced(f, refers) \in FrameOf(R)
         /\ Advanced(f, refers).object = f.object
         /\ Advanced(f, refers).refers = f.refers \cup refers
<1>1. /\ f.next + 1 \in Nat \ {0} /\ f.refers \cup refers \in SUBSET R
      /\ f.object \in Object
  BY DEF FrameOf
<1>2. PICK g : g = [f EXCEPT !.refers = f.refers \cup refers]
  OBVIOUS
<1>3. /\ g \in FrameOf(R) /\ g.object = f.object /\ g.next = f.next
      /\ g.refers = f.refers \cup refers
  BY <1>1, <1>2 DEF FrameOf
<1>4. Advanced(f, refers) = [g EXCEPT !.next = f.next + 1]
  BY <1>2, <1>3 DEF Advanced
<1>5. QED  BY <1>1, <1>3, <1>4 DEF FrameOf

(* Return changes what the innermost of the frames refers to, and no       *)
(* object.                                                                 *)
LEMMA ReturnStep ==
  ASSUME NEW R, NEW frames \in Seq(FrameOf(R)), NEW refers \in SUBSET R,
         Return(frames, refers)
  PROVE  /\ stack' \in Seq(FrameOf(R))
         /\ DOMAIN stack' = DOMAIN frames
         /\ \A i \in DOMAIN frames :
              /\ stack'[i].object = frames[i].object
              /\ stack'[i].refers \subseteq frames[i].refers \cup refers
         /\ result' \subseteq result \cup refers
         /\ \/ status' = status
            \/ status' = "done" /\ stack' = <<>>
<1>1. CASE frames = <<>>
  BY <1>1 DEF Return
<1>2. CASE frames # <<>>
  <2> DEFINE n == Len(frames)
  <2>0. n \in DOMAIN frames /\ frames[n] \in FrameOf(R)
    BY <1>2
  <2>1. /\ stack' = [frames EXCEPT ![n].refers = @ \cup refers, ![n].next = @ + 1]
        /\ result' = result /\ status' = status
    BY <1>2 DEF Return
  <2> HIDE DEF n
  <2>2. PICK t : t = Advanced(frames[n], refers)
    OBVIOUS
  <2>3. t \in FrameOf(R) /\ t.object = frames[n].object /\ t.refers = frames[n].refers \cup refers
    BY <2>0, <2>2, FrameStep
  <2>4. stack' = [frames EXCEPT ![n] = t]
    <3>1. [frames EXCEPT ![n].refers = @ \cup refers][n] = [frames[n] EXCEPT !.refers = @ \cup refers]
      BY <2>0
    <3>2. QED  BY <2>0, <2>1, <2>2, <3>1 DEF Advanced
  <2>5. /\ stack' \in Seq(FrameOf(R)) /\ DOMAIN stack' = DOMAIN frames
        /\ stack'[n] = t /\ \A i \in DOMAIN frames : i # n => stack'[i] = frames[i]
    BY <2>0, <2>3, <2>4
  <2>6. QED  BY <2>1, <2>3, <2>5
<1>3. QED  BY <1>1, <1>2

LEMMA Widen ==
  ASSUME NEW A, NEW B, A \subseteq B, NEW q \in Seq(A)
  PROVE  q \in Seq(B)
OBVIOUS

(* A reference is returned and nothing is entered, left or named.          *)
LEMMA ReferStep ==
  ASSUME WalkInv, status = "walking",
         NEW refers \in SUBSET (AliasNames \cup HoistedNames),
         Return(stack, refers), UNCHANGED <<input, guard>>,
         built' \in Nat, built' = 0 => built = 0,
         unsupported' \in BOOLEAN, unsupported => unsupported',
         mode = "json" => refers \subseteq HoistedNames,
         mode = "structural" /\ ~ unsupported' => refers \subseteq AliasNames
  PROVE  WalkInv'
<1>1. /\ UNCHANGED <<mode, graph, exported, visiting, names, defs>>
      /\ WalkTypeOK /\ GuardInv /\ NamesInv /\ RefersInv /\ PathInv
  BY DEF WalkInv, input, guard
<1>2. /\ Object' = Object /\ AliasNames' = AliasNames /\ HoistedNames' = HoistedNames
      /\ Frame' = Frame
  BY <1>1 DEF Object, AliasNames, HoistedNames, Frame, FrameOf
<1>3. /\ stack' \in Seq(Frame) /\ DOMAIN stack' = DOMAIN stack
      /\ \A i \in DOMAIN stack :
           /\ stack'[i].object = stack[i].object
           /\ stack'[i].refers \subseteq stack[i].refers \cup refers
      /\ result' \subseteq result \cup refers
      /\ \/ status' = status
         \/ status' = "done" /\ stack' = <<>>
  BY <1>1, ReturnStep DEF WalkTypeOK, Frame
<1>4. OnStack' = OnStack /\ InProgress' \subseteq InProgress \cup refers
  BY <1>3 DEF OnStack, InProgress
<1>5. WalkTypeOK'
  BY <1>1, <1>2, <1>3 DEF WalkTypeOK
<1>6. GuardInv'
  BY <1>1, <1>3, <1>4 DEF GuardInv
<1>7. NamesInv'
  BY <1>1, <1>4 DEF NamesInv, NamesDistinct
<1>8. RefersInv'
  <2>1. (Referred \cup InProgress)' \subseteq (Referred \cup InProgress) \cup refers
    BY <1>1, <1>3, <1>4 DEF Referred
  <2>2. QED  BY <1>1, <1>2, <1>4, <2>1 DEF RefersInv, IsRoot, Named
<1>9. PathInv'
  <2>1. \A t : Reaches(t)' = Reaches(t)
    BY <1>1 DEF Reaches, Closed, PartsOf, Schemas
  <2>2. HoistedOnCycle'
    BY <1>1, <2>1 DEF PathInv, HoistedOnCycle
  <2>3. QED  BY <1>1, <1>3, <2>1, <2>2 DEF PathInv
<1>10. QED  BY <1>5, <1>6, <1>7, <1>8, <1>9 DEF WalkInv

LEMMA CountedTyped ==
  ASSUME WalkTypeOK, Counted
  PROVE  built' \in Nat /\ (built' = 0 => built = 0)
<1>1. Reached.copy \in {0, built + 1}
  BY DEF Reached
<1>2. QED  BY <1>1 DEF Counted, WalkTypeOK

(* The five ways an object is passed over, or refused.                     *)
LEMMA PassedStep ==
  ASSUME WalkInv,
         \/ WalkNonObject \/ ReferToAlias \/ RefuseForeign \/ ReferToHoisted
         \/ Stop /\ mode = "structural"
  PROVE  WalkInv'
<1>1. WalkTypeOK /\ RefersInv /\ status = "walking" /\ built \in Nat
  BY DEF WalkInv, WalkNonObject, ReferToAlias, RefuseForeign, Stop, ReferToHoisted, Guarded,
         WalkTypeOK
<1>2. CASE WalkNonObject
  BY <1>1, <1>2, ReferStep DEF WalkNonObject, WalkTypeOK
<1>3. CASE ReferToAlias
  <2>1. /\ exported[Reached.schema] \in AliasNames /\ mode = "structural"
        /\ Return(stack, {exported[Reached.schema]})
        /\ UNCHANGED <<input, guard>> /\ built' = built /\ unsupported' = unsupported
    BY <1>3 DEF ReferToAlias, IsAlias, Named, AliasNames, flags
  <2>2. QED  BY <1>1, <2>1, ReferStep DEF WalkTypeOK
<1>4. CASE RefuseForeign
  <2>1. built' \in Nat /\ (built' = 0 => built = 0)
    BY <1>1, <1>4, CountedTyped DEF RefuseForeign
  <2>2. /\ Return(stack, {}) /\ UNCHANGED <<input, guard>> /\ unsupported' = TRUE
    BY <1>4 DEF RefuseForeign
  <2>3. QED  BY <1>1, <2>1, <2>2, ReferStep DEF WalkTypeOK
<1>5. CASE ReferToHoisted
  <2>1. /\ Reached \in DOMAIN names /\ names[Reached] \in HoistedNames
        /\ Return(stack, {names[Reached]})
        /\ UNCHANGED <<input, guard>> /\ built' = built /\ unsupported' = unsupported
    BY <1>5 DEF ReferToHoisted, HoistedNames, flags
  <2>2. mode = "structural" /\ ~ unsupported => names[Reached] \in AliasNames
    BY <1>1, <2>1 DEF RefersInv, WalkTypeOK, AliasNames
  <2>3. QED  BY <1>1, <2>1, <2>2, ReferStep DEF WalkTypeOK
<1>6. CASE Stop /\ mode = "structural"
  <2>1. built' \in Nat /\ (built' = 0 => built = 0)
    BY <1>1, <1>6, CountedTyped DEF Stop
  <2>2. /\ Return(stack, {}) /\ UNCHANGED <<input, guard>> /\ unsupported' = TRUE
    BY <1>6 DEF Stop
  <2>3. QED  BY <1>1, <2>1, <2>2, ReferStep DEF WalkTypeOK
<1>7. QED  BY <1>2, <1>3, <1>4, <1>5, <1>6

-----------------------------------------------------------------------------
(* Hoisting, entering and leaving                                          *)

(* assignDefName gives a name nobody has.                                  *)
LEMMA AssignedFree ==
  ASSUME NEW o, NEW name \in AssignDefName(o)
  PROVE  ~ Taken(name)
BY DEF AssignDefName, IsFirstFree

(* While nothing is taken it gives the base name.                          *)
LEMMA AssignedBase ==
  ASSUME NEW o, NEW name \in AssignDefName(o), \A other : ~ Taken(other)
  PROVE  name = BaseName(o)
<1>1. PICK n \in Nat \ {0} : IsFirstFree(BaseName(o), n) /\ name = Candidate(BaseName(o), n)
  <2>1. \A m \in Int : \A n \in 1..m : n \in Nat \ {0}
    OBVIOUS
  <2>2. PICK m : \E n \in 1..m : IsFirstFree(BaseName(o), n) /\ name = Candidate(BaseName(o), n)
    BY DEF AssignDefName
  <2>3. QED  BY <2>2
<1>2. n = 1
  <2>1. SUFFICES ASSUME n # 1 PROVE FALSE
    OBVIOUS
  <2>2. 1 \in 1 .. n - 1
    BY <2>1
  <2>3. QED  BY <1>1, <2>2 DEF IsFirstFree
<1>3. QED  BY <1>1, <1>2 DEF Candidate

LEMMA PutStep ==
  ASSUME NEW f, NEW x, NEW y
  PROVE  /\ DOMAIN Put(f, x, y) = DOMAIN f \cup {x}
         /\ Put(f, x, y)[x] = y
         /\ \A z \in DOMAIN f : z # x => Put(f, x, y)[z] = f[z]
BY DEF Put

LEMMA HoistStep ==
  ASSUME WalkInv, Hoist
  PROVE  WalkInv'
<1>1. /\ WalkTypeOK /\ GuardInv /\ NamesInv /\ RefersInv /\ PathInv
      /\ status = "walking" /\ Waiting /\ Reached.schema # NoObject
      /\ Reached \notin DOMAIN names /\ Reached \in visiting
      /\ UNCHANGED <<mode, graph, exported, visiting, defs, bearsUnsupported, built>>
      /\ unsupported' = (unsupported \/ (mode = "structural" /\ ~ Named(Reached)))
  BY DEF WalkInv, Hoist, Guarded, input
<1>2. PICK name \in AssignDefName(Reached) :
        names' = Put(names, Reached, name) /\ Return(stack, {name})
  BY DEF Hoist
<1>3. /\ DOMAIN names' = DOMAIN names \cup {Reached} /\ names'[Reached] = name
      /\ \A o \in DOMAIN names : names'[o] = names[o]
  <2>1. \A o \in DOMAIN names : o # Reached
    BY <1>1
  <2>2. names' = Put(names, Reached, name)
    BY <1>2
  <2>3. QED  BY <2>1, <2>2 DEF Put
<1>4. /\ Object' = Object /\ AliasNames' = AliasNames
      /\ HoistedNames' = HoistedNames \cup {name}
  BY <1>1, <1>3 DEF Object, AliasNames, HoistedNames
<1>5. PICK R : R = AliasNames \cup HoistedNames \cup {name}
  OBVIOUS
<1>6. FrameOf(R)' = FrameOf(R) /\ Frame' = FrameOf(R) /\ Frame \subseteq FrameOf(R)
  BY <1>4, <1>5 DEF Frame, FrameOf
<1>7. stack \in Seq(FrameOf(R))
  BY <1>1, <1>6, Widen DEF WalkTypeOK
<1>8. /\ stack' \in Seq(FrameOf(R)) /\ DOMAIN stack' = DOMAIN stack
      /\ \A i \in DOMAIN stack :
           /\ stack'[i].object = stack[i].object
           /\ stack'[i].refers \subseteq stack[i].refers \cup {name}
      /\ result' \subseteq result \cup {name}
      /\ \/ status' = status
         \/ status' = "done" /\ stack' = <<>>
  BY <1>2, <1>5, <1>7, ReturnStep
<1>9. OnStack' = OnStack /\ InProgress' \subseteq InProgress \cup {name}
  BY <1>8 DEF OnStack, InProgress
<1>10. /\ Reached \in Object
       /\ stack # <<>> => Reached.schema \in Reaches(Top.object.schema)
  BY <1>1, ReachedTyped
<1>11. WalkTypeOK'
  BY <1>1, <1>3, <1>4, <1>6, <1>8, <1>10 DEF WalkTypeOK
<1>12. GuardInv'
  BY <1>1, <1>8, <1>9 DEF GuardInv
<1>13. NamesInv'
  <2>1. \A o \in DOMAIN names : names[o] # name
    BY AssignedFree DEF Taken
  <2>2. NamesDistinct'
    BY <1>1, <1>3, <2>1 DEF NamesInv, NamesDistinct
  <2>3. Reached \in OnStack
    BY <1>1 DEF GuardInv
  <2>4. QED  BY <1>1, <1>3, <1>9, <2>2, <2>3 DEF NamesInv
<1>14. RefersInv'
  <2>1. (Referred \cup InProgress)' \subseteq (Referred \cup InProgress) \cup {name}
    BY <1>1, <1>8, <1>9 DEF Referred
  <2>2. ASSUME mode = "structural", ~ unsupported'
        PROVE  IsRoot(Reached) /\ DOMAIN names = {} /\ name = exported[Root]
    <3>1. Named(Reached) /\ ~ unsupported
      BY <1>1, <2>2 DEF WalkTypeOK
    <3>2. IsRoot(Reached)
      BY <1>1, <2>2, <3>1 DEF RefersInv, GuardInv
    <3>3. \A o \in DOMAIN names : o = Reached
      BY <1>1, <2>2, <3>1, <3>2 DEF RefersInv, IsRoot
    <3>4. DOMAIN names = {}
      BY <1>1, <3>3
    <3>5. DOMAIN defs = {}
      BY <1>1, <3>4 DEF NamesInv, NamesDistinct
    <3>6. name = BaseName(Reached)
      BY <3>4, <3>5, AssignedBase DEF Taken
    <3>7. QED  BY <3>1, <3>2, <3>4, <3>6 DEF BaseName, IsRoot
  <2>3. mode = "structural" /\ ~ unsupported' => ~ unsupported /\ name \in AliasNames
    BY <1>1, <2>2 DEF WalkTypeOK, AliasNames
  <2>4. QED
    BY <1>1, <1>3, <1>4, <1>9, <2>1, <2>2, <2>3 DEF RefersInv, IsRoot, Named
<1>15. PathInv'
  <2>1. \A t : Reaches(t)' = Reaches(t)
    BY <1>1 DEF Reaches, Closed, PartsOf, Schemas
  <2>2. Reached.schema \in Reaches(Reached.schema)
    <3>1. PICK i \in DOMAIN stack : stack[i].object = Reached
      BY <1>1 DEF GuardInv, OnStack
    <3>2. stack # <<>>
      BY <3>1
    <3>3. /\ Len(stack) \in DOMAIN stack /\ DOMAIN stack = 1..Len(stack)
          /\ Top.object = stack[Len(stack)].object
          /\ Reached.schema \in Reaches(Top.object.schema)
      BY <1>1, <1>10, <3>2, TopFrame DEF Top
    <3>4. CASE i = Len(stack)
      BY <3>1, <3>3, <3>4
    <3>5. CASE i < Len(stack)
      <4>1. Top.object.schema \in Reaches(Reached.schema)
        BY <1>1, <3>1, <3>3, <3>5 DEF PathInv
      <4>2. Reached.schema \in Schemas(graph)
        BY <1>10 DEF Object
      <4>3. QED  BY <3>3, <4>1, <4>2, ReachesOn
    <3>6. QED  BY <3>1, <3>3, <3>4, <3>5
  <2>3. HoistedOnCycle'
    BY <1>1, <1>3, <2>1, <2>2 DEF PathInv, HoistedOnCycle
  <2>4. QED  BY <1>1, <1>8, <2>1, <2>3 DEF PathInv
<1>16. QED  BY <1>11, <1>12, <1>13, <1>14, <1>15 DEF WalkInv

LEMMA EnterStep ==
  ASSUME WalkInv, Enter
  PROVE  WalkInv'
<1> DEFINE n == Len(stack)
           frame == [object |-> Reached, next |-> 1, refers |-> {}]
<1>1. /\ WalkTypeOK /\ GuardInv /\ NamesInv /\ RefersInv /\ PathInv
      /\ status = "walking" /\ Waiting /\ Reached.schema # NoObject
      /\ Reached \notin visiting /\ ~ IsAlias(Reached)
      /\ visiting' = visiting \cup {Reached} /\ stack' = Append(stack, frame) /\ Counted
      /\ UNCHANGED <<mode, graph, exported, names, defs, unsupported, result, status>>
  BY DEF WalkInv, Enter, Guarded, input
<1>2. /\ Reached \in Object
      /\ stack # <<>> => Reached.schema \in Reaches(Top.object.schema)
  BY <1>1, ReachedTyped
<1>3. /\ Object' = Object /\ AliasNames' = AliasNames /\ HoistedNames' = HoistedNames
      /\ Frame' = Frame
  BY <1>1 DEF Object, AliasNames, HoistedNames, Frame, FrameOf
<1>4. frame \in Frame /\ frame.object = Reached /\ frame.refers = {}
  BY <1>2 DEF Frame, FrameOf
<1>5. /\ n \in Nat /\ DOMAIN stack = 1..n
      /\ stack' \in Seq(Frame) /\ DOMAIN stack' = 1..(n + 1)
      /\ stack'[n + 1] = frame
      /\ \A i \in 1..n : stack'[i] = stack[i]
  <2> HIDE DEF frame
  <2>1. QED  BY <1>1, <1>4 DEF WalkTypeOK
<1> HIDE DEF frame, n
<1>6. OnStack' = OnStack \cup {Reached} /\ InProgress' \subseteq InProgress
  <2>1. \A i \in 1..(n + 1) : i \in 1..n \/ i = n + 1
    BY <1>5
  <2>2. OnStack' = {stack'[i].object : i \in 1..(n + 1)}
    BY <1>5 DEF OnStack
  <2>3. InProgress' = UNION {stack'[i].refers : i \in 1..(n + 1)}
    BY <1>5 DEF InProgress
  <2>4. OnStack = {stack[i].object : i \in 1..n}
    BY <1>5 DEF OnStack
  <2>5. InProgress = UNION {stack[i].refers : i \in 1..n}
    BY <1>5 DEF InProgress
  <2>6. \A i \in 1..n : i \in 1..(n + 1)
    BY <1>5
  <2>7. n + 1 \in 1..(n + 1)
    BY <1>5
  <2>8. OnStack' = OnStack \cup {Reached}
    BY <1>4, <1>5, <2>1, <2>2, <2>4, <2>6, <2>7
  <2>9. InProgress' \subseteq InProgress
    BY <1>4, <1>5, <2>1, <2>3, <2>5
  <2>10. QED  BY <2>8, <2>9
<1>7. built' \in Nat /\ (built' = 0 => built = 0 /\ Reached.copy = 0)
  BY <1>1, <1>2, CountedTyped DEF Counted, Object
<1>8. WalkTypeOK'
  BY <1>1, <1>3, <1>5, <1>7 DEF WalkTypeOK
<1>9. GuardInv'
  <2>1. \A i \in 1..n : stack[i].object # Reached
    BY <1>1, <1>5 DEF GuardInv, OnStack
  <2>2. ASSUME NEW i \in 1..(n + 1), NEW j \in 1..(n + 1), stack'[i].object = stack'[j].object
        PROVE  i = j
    <3>1. CASE i \in 1..n /\ j \in 1..n
      BY <1>1, <1>5, <2>2, <3>1 DEF GuardInv
    <3>2. CASE i = n + 1 \/ j = n + 1
      BY <1>4, <1>5, <2>1, <2>2, <3>2
    <3>3. QED  BY <1>5, <3>1, <3>2
  <2>3. QED  BY <1>1, <1>5, <1>6, <1>7, <2>2 DEF GuardInv
<1>10. NamesInv'
  BY <1>1, <1>6 DEF NamesInv, NamesDistinct
<1>11. RefersInv'
  <2>1. (Referred \cup InProgress)' \subseteq Referred \cup InProgress
    BY <1>1, <1>6 DEF Referred
  <2>2. mode = "structural" => IsRoot(Reached) \/ ~ Named(Reached)
    BY <1>1 DEF IsAlias
  <2>3. QED  BY <1>1, <1>3, <1>6, <2>1, <2>2 DEF RefersInv, IsRoot, Named
<1>12. PathInv'
  <2>1. \A t : Reaches(t)' = Reaches(t)
    BY <1>1 DEF Reaches, Closed, PartsOf, Schemas
  <2>2. ASSUME NEW i \in 1..n
        PROVE  Reached.schema \in Reaches(stack[i].object.schema)
    <3>1. stack # <<>>
      BY <1>5, <2>2
    <3>2. /\ n \in 1..n /\ Top.object = stack[n].object
          /\ Reached.schema \in Reaches(Top.object.schema)
      BY <1>1, <1>2, <1>5, <3>1, TopFrame DEF Top, n
    <3>3. CASE i < n
      <4>1. Top.object.schema \in Reaches(stack[i].object.schema)
        BY <1>1, <1>5, <3>2, <3>3 DEF PathInv
      <4>2. stack[i] \in Frame
        BY <1>1, <1>5 DEF WalkTypeOK
      <4>3. stack[i].object.schema \in Schemas(graph)
        BY <4>2 DEF Frame, FrameOf, Object
      <4>4. QED  BY <3>2, <4>1, <4>3, ReachesOn
    <3>4. CASE i = n
      BY <3>2, <3>4
    <3>5. QED  BY <1>5, <3>3, <3>4
  <2>3. ASSUME NEW i \in 1..(n + 1), NEW j \in 1..(n + 1), i < j
        PROVE  stack'[j].object.schema \in Reaches(stack'[i].object.schema)
    <3>1. CASE j = n + 1
      BY <1>4, <1>5, <2>2, <2>3, <3>1
    <3>2. CASE j # n + 1
      BY <1>1, <1>5, <2>3, <3>2 DEF PathInv
    <3>3. QED  BY <3>1, <3>2
  <2>4. HoistedOnCycle'
    BY <1>1, <2>1 DEF PathInv, HoistedOnCycle
  <2>5. QED  BY <1>5, <2>1, <2>3, <2>4 DEF PathInv
<1>13. QED  BY <1>8, <1>9, <1>10, <1>11, <1>12 DEF WalkInv

(* The stack overflows: nothing changes but the status.                    *)
LEMMA OverflowStep ==
  ASSUME WalkInv, Stop, mode = "json"
  PROVE  WalkInv'
<1>1. /\ WalkTypeOK /\ GuardInv /\ NamesInv /\ RefersInv /\ PathInv
      /\ status' = "threw" /\ Counted
      /\ UNCHANGED <<mode, graph, exported, stack, visiting, names, defs, unsupported, result>>
  BY DEF WalkInv, Stop, input, guard
<1>2. built' \in Nat /\ (built' = 0 => built = 0)
  BY <1>1, CountedTyped
<1>3. /\ Frame' = Frame /\ Object' = Object /\ OnStack' = OnStack
      /\ InProgress' = InProgress /\ Referred' = Referred
      /\ AliasNames' = AliasNames /\ HoistedNames' = HoistedNames
  BY <1>1 DEF Object, OnStack, InProgress, AliasNames, HoistedNames, Frame, FrameOf, Referred
<1>4. WalkTypeOK' /\ GuardInv'
  BY <1>1, <1>2, <1>3 DEF WalkTypeOK, GuardInv
<1>5. NamesInv' /\ RefersInv'
  BY <1>1, <1>3 DEF NamesInv, NamesDistinct, RefersInv, IsRoot, Named
<1>6. PathInv'
  BY <1>1 DEF PathInv, HoistedOnCycle, Reaches, Closed, PartsOf, Schemas
<1>7. QED  BY <1>4, <1>5, <1>6 DEF WalkInv

LEMMA LeaveStep ==
  ASSUME WalkInv, Leave
  PROVE  WalkInv'
<1>1. /\ WalkTypeOK /\ GuardInv /\ NamesInv /\ RefersInv /\ PathInv
      /\ status = "walking" /\ stack # <<>>
      /\ visiting' = visiting \ {Top.object}
      /\ UNCHANGED <<mode, graph, exported, names, unsupported, built>>
  BY DEF WalkInv, Leave, input, flags
<1>2. /\ Object' = Object /\ AliasNames' = AliasNames /\ HoistedNames' = HoistedNames
      /\ Frame' = Frame
  BY <1>1 DEF Object, AliasNames, HoistedNames, Frame, FrameOf
<1> DEFINE n == Len(stack)
           object == Top.object
           refers == IF object \in DOMAIN names THEN {names[object]} ELSE Rendered
<1>3. /\ n \in DOMAIN stack /\ DOMAIN stack = 1..n /\ n \in Nat \ {0}
      /\ Top \in Frame /\ Top = stack[n] /\ object \in OnStack
  BY <1>1, TopFrame DEF Top
<1>4. /\ Outer \in Seq(Frame) /\ DOMAIN Outer = 1..(n - 1)
      /\ \A i \in 1..(n - 1) : Outer[i] = stack[i] /\ i \in DOMAIN stack
  <2>1. stack \in Seq(Frame)
    BY <1>1 DEF WalkTypeOK
  <2>2. QED  BY <1>3, <2>1 DEF Outer
<1>5. /\ Rendered \subseteq Top.refers /\ Rendered \subseteq InProgress
      /\ Top.refers \subseteq AliasNames \cup HoistedNames
  <2>1. Top.refers \subseteq InProgress
    BY <1>3 DEF InProgress
  <2>2. Top.refers \subseteq AliasNames \cup HoistedNames
    BY <1>3 DEF Frame, FrameOf
  <2>3. QED  BY <2>1, <2>2 DEF Rendered
<1>6. /\ Return(Outer, refers)
      /\ object \in DOMAIN names => defs' = Put(defs, names[object], Rendered)
      /\ object \notin DOMAIN names => defs' = defs
  BY DEF Leave
<1>7. refers \subseteq AliasNames \cup HoistedNames
  BY <1>5 DEF HoistedNames
<1> HIDE DEF refers, n
<1>8. /\ stack' \in Seq(Frame) /\ DOMAIN stack' = 1..(n - 1)
      /\ \A i \in 1..(n - 1) :
           /\ stack'[i].object = stack[i].object
           /\ stack'[i].refers \subseteq stack[i].refers \cup refers
      /\ result' \subseteq result \cup refers
      /\ \/ status' = status
         \/ status' = "done" /\ stack' = <<>>
  <2>1. Outer \in Seq(FrameOf(AliasNames \cup HoistedNames))
    BY <1>4 DEF Frame
  <2>2. /\ stack' \in Seq(FrameOf(AliasNames \cup HoistedNames))
        /\ DOMAIN stack' = DOMAIN Outer
        /\ \A i \in DOMAIN Outer :
             /\ stack'[i].object = Outer[i].object
             /\ stack'[i].refers \subseteq Outer[i].refers \cup refers
        /\ result' \subseteq result \cup refers
        /\ \/ status' = status
           \/ status' = "done" /\ stack' = <<>>
    BY <1>6, <1>7, <2>1, ReturnStep
  <2>3. QED  BY <1>4, <2>2 DEF Frame
<1>9. OnStack' = OnStack \ {object}
  <2>1. \A i \in DOMAIN stack : i # n => stack[i].object # object /\ i \in 1..(n - 1)
    BY <1>1, <1>3 DEF GuardInv
  <2>2. \A i \in 1..(n - 1) : i # n /\ i \in DOMAIN stack
    BY <1>3
  <2>3. object = stack[n].object
    BY <1>3
  <2> HIDE DEF object
  <2>4. QED  BY <1>8, <2>1, <2>2, <2>3 DEF OnStack
<1>10. InProgress' \subseteq InProgress \cup refers
  BY <1>4, <1>8 DEF InProgress
<1>11. /\ \A name \in DOMAIN defs' :
            \/ name \in DOMAIN defs /\ defs'[name] = defs[name]
            \/ defs'[name] = Rendered
       /\ \A name \in DOMAIN defs' \ DOMAIN defs :
            object \in DOMAIN names /\ name = names[object]
       /\ DOMAIN defs \subseteq DOMAIN defs'
       /\ object \in DOMAIN names => names[object] \in DOMAIN defs'
  BY <1>6 DEF Put
<1>12. (Referred \cup InProgress)' \subseteq (Referred \cup InProgress) \cup refers
  <2>1. \A name \in DOMAIN defs' : defs'[name] \subseteq Referred \cup InProgress
    BY <1>5, <1>11 DEF Referred
  <2>2. Referred' \subseteq (Referred \cup InProgress) \cup refers
    BY <1>8, <2>1 DEF Referred
  <2>3. QED  BY <1>10, <2>2
<1> HIDE DEF object
<1>13. WalkTypeOK'
  BY <1>1, <1>2, <1>8 DEF WalkTypeOK
<1>14. GuardInv'
  <2>1. visiting' = visiting \ {object}
    BY <1>1 DEF object
  <2>2. \A i, j \in DOMAIN stack' : stack'[i].object = stack'[j].object => i = j
    BY <1>1, <1>4, <1>8 DEF GuardInv
  <2>3. QED  BY <1>1, <1>8, <1>9, <2>1, <2>2 DEF GuardInv
<1>15. NamesInv'
  <2>1. NamesDistinct'
    BY <1>1, <1>11 DEF NamesInv, NamesDistinct
  <2>2. ASSUME NEW o \in DOMAIN names
        PROVE  names[o] \in DOMAIN defs' \/ o \in OnStack'
    BY <1>1, <1>9, <1>11 DEF NamesInv
  <2>3. QED  BY <1>1, <2>1, <2>2 DEF NamesInv
<1>16. RefersInv'
  <2>1. mode = "json" => refers \subseteq HoistedNames
    BY <1>1, <1>5 DEF RefersInv, HoistedNames, refers
  <2>2. mode = "structural" /\ ~ unsupported => refers \subseteq AliasNames
    BY <1>1, <1>5 DEF RefersInv, AliasNames, WalkTypeOK, refers
  <2>3. \A o \in OnStack' : o \in OnStack
    BY <1>9
  <2>4. QED  BY <1>1, <1>2, <1>12, <2>1, <2>2, <2>3 DEF RefersInv, IsRoot, Named
<1>17. PathInv'
  <2>1. \A t : Reaches(t)' = Reaches(t)
    BY <1>1 DEF Reaches, Closed, PartsOf, Schemas
  <2>2. HoistedOnCycle'
    BY <1>1, <2>1 DEF PathInv, HoistedOnCycle
  <2>3. QED  BY <1>1, <1>4, <1>8, <2>1, <2>2 DEF PathInv
<1>18. QED  BY <1>13, <1>14, <1>15, <1>16, <1>17 DEF WalkInv

-----------------------------------------------------------------------------
(* The invariant                                                           *)

LEMMA WalkInit == Init => WalkInv
<1>1. SUFFICES ASSUME Init PROVE WalkInv
  OBVIOUS
<1>2. /\ DOMAIN names = {} /\ DOMAIN defs = {} /\ DOMAIN stack = {}
      /\ stack = <<>> /\ status = "walking" /\ result = {} /\ visiting = {}
  BY <1>1 DEF Init
<1>3. OnStack = {} /\ InProgress = {} /\ Referred = {}
  BY <1>2 DEF OnStack, InProgress, Referred
<1>4. WalkTypeOK
  <2>1. stack \in Seq(Frame)
    BY <1>2
  <2>2. DOMAIN names \subseteq Object
    BY <1>2
  <2>3. QED  BY <1>1, <2>1, <2>2 DEF Init, WalkTypeOK
<1>5. GuardInv /\ NamesInv /\ RefersInv /\ PathInv
  BY <1>2, <1>3 DEF GuardInv, NamesInv, NamesDistinct, RefersInv, PathInv, HoistedOnCycle
<1>6. QED  BY <1>4, <1>5 DEF WalkInv

LEMMA Unmoved ==
  ASSUME WalkInv, UNCHANGED walkerVars
  PROVE  WalkInv'
<1>1. UNCHANGED <<mode, graph, exported, stack, visiting, names, defs, built,
                  unsupported, result, status>>
  BY DEF walkerVars, input, guard, flags
<1>2. /\ Frame' = Frame /\ Object' = Object /\ OnStack' = OnStack
      /\ InProgress' = InProgress /\ Referred' = Referred
      /\ AliasNames' = AliasNames /\ HoistedNames' = HoistedNames
  BY <1>1 DEF Object, OnStack, InProgress, AliasNames, HoistedNames, Frame, FrameOf, Referred
<1>3. WalkTypeOK' /\ GuardInv'
  BY <1>1, <1>2 DEF WalkInv, WalkTypeOK, GuardInv
<1>4. NamesInv' /\ RefersInv'
  BY <1>1, <1>2 DEF WalkInv, NamesInv, NamesDistinct, RefersInv, IsRoot, Named
<1>5. PathInv'
  BY <1>1 DEF WalkInv, PathInv, HoistedOnCycle, Reaches, Closed, PartsOf, Schemas
<1>6. QED  BY <1>3, <1>4, <1>5 DEF WalkInv

LEMMA WalkNext == WalkInv /\ [Next]_walkerVars => WalkInv'
<1>1. SUFFICES ASSUME WalkInv, [Next]_walkerVars PROVE WalkInv'
  OBVIOUS
<1>2. mode \in {"json", "structural"}
  BY <1>1 DEF WalkInv, WalkTypeOK
<1>3. CASE WalkNonObject \/ ReferToAlias \/ RefuseForeign \/ ReferToHoisted
  BY <1>1, <1>3, PassedStep
<1>4. CASE Stop
  BY <1>1, <1>2, <1>4, PassedStep, OverflowStep
<1>5. CASE Hoist
  BY <1>1, <1>5, HoistStep
<1>6. CASE Enter
  BY <1>1, <1>6, EnterStep
<1>7. CASE Leave
  BY <1>1, <1>7, LeaveStep
<1>8. CASE Halted \/ UNCHANGED walkerVars
  BY <1>1, <1>8, Unmoved DEF Halted
<1>9. QED
  BY <1>1, <1>3, <1>4, <1>5, <1>6, <1>7, <1>8 DEF Next

LEMMA WalkCorrect == Spec => []WalkInv
BY WalkInit, WalkNext, PTL DEF Spec

-----------------------------------------------------------------------------
(* What the walk promises                                                  *)

(* An acyclic schema stays inlined: what the guard hoists can be reached   *)
(* from itself, in a graph of any size (cycle-guard.ts:12-13).             *)
THEOREM HoistsOnlyCycles == Spec => []HoistedOnCycle
BY WalkCorrect, PTL DEF WalkInv, PathInv

(* Two objects never share a definition, whatever names are declared and   *)
(* whatever the suffixed names collide with (cycle-guard.ts:83-96).        *)
THEOREM NamesNeverShared == Spec => []NamesDistinct
BY WalkCorrect, PTL DEF WalkInv, NamesInv

(* When the walk of any graph ends no reference dangles: the body of an    *)
(* object hoisted while it was walked has been stored under its name       *)
(* (cycle-guard.ts:47-72, structural-ts.ts:117-119).                       *)
THEOREM ReferencesNeverDangle == Spec => []ReferencesResolve
<1>1. ASSUME WalkInv, status = "done"
      PROVE  ReferencesResolve
  <2>1. stack = <<>> /\ mode \in {"json", "structural"}
    BY <1>1 DEF WalkInv, GuardInv, WalkTypeOK
  <2>2. OnStack = {}
    BY <2>1 DEF OnStack
  <2>3. HoistedNames \subseteq DOMAIN defs /\ DOMAIN defs \subseteq HoistedNames
    BY <1>1, <2>2 DEF WalkInv, NamesInv, NamesDistinct, HoistedNames
  <2>4. CASE mode = "json"
    BY <1>1, <2>3, <2>4 DEF WalkInv, RefersInv, ReferencesResolve
  <2>5. CASE mode = "structural" /\ ~ unsupported
    <3>1. HoistedNames \subseteq {exported[Root]} /\ Referred \subseteq AliasNames
      BY <1>1, <2>5 DEF WalkInv, RefersInv, HoistedNames
    <3>2. QED  BY <2>3, <2>5, <3>1 DEF ReferencesResolve, AliasNames
  <2>6. CASE mode = "structural" /\ unsupported
    BY <2>6 DEF ReferencesResolve
  <2>7. QED  BY <2>1, <2>4, <2>5, <2>6
<1>2. WalkInv => ReferencesResolve
  BY <1>1 DEF ReferencesResolve
<1>3. QED  BY <1>2, WalkCorrect, PTL

(* No two of the first n bodies on the stack are of one object, so that    *)
(* the stack never outgrows the objects there are: n objects the module    *)
(* holds are n schemas.                                                    *)
LEMMA StackBounded ==
  ASSUME WalkInv, built = 0, IsFiniteSet(Schemas(graph))
  PROVE  Len(stack) <= Cardinality(Schemas(graph))
<1> DEFINE n == Len(stack)
           f == [i \in 1..n |-> stack[i].object.schema]
<1>1. n \in Nat /\ DOMAIN stack = 1..n /\ \A i \in 1..n : stack[i] \in Frame
  BY DEF WalkInv, WalkTypeOK
<1>2. \A i \in 1..n : stack[i].object \in Object /\ stack[i].object.copy = 0
  BY <1>1 DEF WalkInv, GuardInv, OnStack, Frame, FrameOf
<1>3. f \in [1..n -> Schemas(graph)]
  BY <1>2 DEF Object
<1>4. ASSUME NEW i \in 1..n, NEW j \in 1..n, f[i] = f[j]
      PROVE  i = j
  <2>1. stack[i].object = stack[j].object
    BY <1>2, <1>4 DEF Object
  <2>2. QED  BY <1>1, <2>1 DEF WalkInv, GuardInv
<1>5. IsFiniteSet(1..n) /\ Cardinality(1..n) = n
  <2>1. 1 \in Int /\ n \in Int
    BY <1>1
  <2>2. /\ IsFiniteSet(1..n)
        /\ Cardinality(1..n) = IF 1 > n THEN 0 ELSE n - 1 + 1
    BY <2>1, FS_Interval
  <2>3. QED  BY <1>1, <2>2
<1>6. Cardinality(Schemas(graph)) \in Nat
  BY FS_CardinalityType
<1> HIDE DEF f, n
<1>7. ~ (Cardinality(Schemas(graph)) < Cardinality(1..n))
  <2>1. PICK I, T : I = 1..n /\ T = Schemas(graph)
    OBVIOUS
  <2>2. SUFFICES ASSUME Cardinality(T) < Cardinality(I) PROVE FALSE
    BY <2>1
  <2>3. IsFiniteSet(I) /\ IsFiniteSet(T) /\ f \in [I -> T]
    BY <1>3, <1>5, <2>1
  <2>4. \E x, y \in I : x # y /\ f[x] = f[y]
    BY <2>2, <2>3, FS_PigeonHole
  <2>5. QED  BY <1>4, <2>1, <2>4
<1>8. n <= Cardinality(Schemas(graph))
  BY <1>1, <1>5, <1>6, <1>7
<1>9. QED  BY <1>8 DEF n

(* The identity guard alone ends the walk: when a module has fewer schemas *)
(* than the depth allows (64 objects; for JSON thousands of calls), only   *)
(* objects built by getters overflow the stack, and no object is entered   *)
(* twice on one stack (structural-ts.ts:171-181).                          *)
THEOREM GuardAloneEndsWalk ==
  ASSUME \A g \in Graphs : IsFiniteSet(Schemas(g)) /\ Cardinality(Schemas(g)) < MaxDepth
  PROVE  Spec => []GuardEndsWalk
<1> DEFINE Threw == status = "threw" => built > 0
<1>1. Init => Threw
  BY DEF Init
<1>2. ASSUME WalkInv, Threw, [Next]_walkerVars
      PROVE  Threw'
  <2>1. WalkTypeOK /\ graph \in Graphs /\ built \in Nat
    BY <1>2 DEF WalkInv, WalkTypeOK
  <2>2. CASE Stop /\ mode = "json"
    <3>1. built' \in Nat /\ (built' = 0 => built = 0)
      BY <2>1, <2>2, CountedTyped DEF Stop
    <3>2. Len(stack) \in Nat /\ Len(stack) >= MaxDepth
      BY <2>1, <2>2 DEF Stop, TooDeep, WalkTypeOK
    <3>3. Cardinality(Schemas(graph)) \in Nat /\ Cardinality(Schemas(graph)) < MaxDepth
      BY <2>1, FS_CardinalityType
    <3>4. built # 0
      BY <1>2, <2>1, <3>2, <3>3, StackBounded
    <3>5. QED  BY <3>1, <3>4
  <2>3. CASE Stop /\ mode # "json"
    BY <2>1, <2>3 DEF Stop, WalkTypeOK, Return
  <2>4. CASE WalkNonObject \/ ReferToAlias \/ RefuseForeign \/ ReferToHoisted
    BY <2>4 DEF WalkNonObject, ReferToAlias, RefuseForeign, ReferToHoisted, Guarded, Return
  <2>5. CASE Hoist \/ Enter \/ Leave
    BY <2>5 DEF Hoist, Enter, Leave, Guarded, Return
  <2>6. CASE Halted \/ UNCHANGED walkerVars
    BY <1>2, <2>6 DEF Halted, walkerVars
  <2>7. QED  BY <1>2, <2>2, <2>3, <2>4, <2>5, <2>6 DEF Next
<1>3. WalkInv /\ Threw => GuardEndsWalk
  BY DEF WalkInv, GuardInv, GuardEndsWalk
<1> HIDE DEF Threw
<1>4. Spec => []Threw
  BY <1>1, <1>2, WalkCorrect, PTL DEF Spec
<1>5. QED  BY <1>3, <1>4, WalkCorrect, PTL
=============================================================================
