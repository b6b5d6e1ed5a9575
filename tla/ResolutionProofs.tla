--------------------------- MODULE ResolutionProofs ---------------------------
(***************************************************************************)
(* The resolution of one source file, for any set of exports, aliases and  *)
(* files: types, fail-closed emission and the exactness of the prune.      *)
(***************************************************************************)
EXTENDS Resolution, TLAPS

USE ResolutionAssumption

(* What depends on the targets of the file alone.                          *)
LEMMA SameFile ==
  ASSUME file' = file
  PROVE  /\ Declared' = Declared
         /\ CheckerTargets' = CheckerTargets
         /\ \A a : Kind(a)' = Kind(a)
BY DEF Declared, CheckerTargets, Kind, First

LEMMA TargetSets ==
  /\ CheckerTargets \subseteq Declared
  /\ Canonical \subseteq StructuralTargets
  /\ Duplicates \subseteq StructuralTargets
  /\ StructuralTargets \subseteq {a \in Declared : Kind(a) # "external"}
BY DEF CheckerTargets, Canonical, Duplicates, StructuralTargets

LEMMA DeclaredAliases == TypeOK => Declared \subseteq Aliases
<1>1. ASSUME TypeOK, NEW i \in DOMAIN file PROVE file[i].alias \in Aliases
  <2>1. file[i] \in Target
    BY <1>1 DEF TypeOK
  <2>2. QED  BY <2>1 DEF Target
<1>2. QED  BY <1>1 DEF Declared

(* A structural body names canonical aliases only.                         *)
LEMMA WalkedBodies ==
  ASSUME TypeOK, WalkAll
  PROVE  /\ DOMAIN walked' \subseteq StructuralTargets
         /\ walked' = [a \in DOMAIN walked' |-> walked'[a]]
         /\ \A a \in DOMAIN walked' : walked'[a] \in Walk /\ walked'[a].refs \subseteq Declared
         /\ untouched' \subseteq Declared
<1>1. PICK entry \in [Canonical -> Entries] :
        LET resolved == {a \in Canonical : Resolves(a, entry[a])}
            cyclic == BareCycles([a \in resolved |-> entry[a].walk])
            solid == resolved \ cyclic
            thin == {d \in Duplicates : CanonicalOf(d) \in solid}
        IN  /\ walked' = [a \in solid \cup thin |->
                            IF a \in solid THEN entry[a].walk ELSE Thin(CanonicalOf(a))]
            /\ untouched' = untouched \cup (Duplicates \ thin)
                              \cup {a \in Canonical : Skips(a, entry[a])}
  BY DEF WalkAll
<1> DEFINE resolved == {a \in Canonical : Resolves(a, entry[a])}
           solid == resolved \ BareCycles([a \in resolved |-> entry[a].walk])
           thin == {d \in Duplicates : CanonicalOf(d) \in solid}
           walk(a) == IF a \in solid THEN entry[a].walk ELSE Thin(CanonicalOf(a))
<1>2. walked' = [a \in solid \cup thin |-> walk(a)]
  BY <1>1
<1>3. untouched' = untouched \cup (Duplicates \ thin) \cup {a \in Canonical : Skips(a, entry[a])}
  BY <1>1
<1>4. solid \subseteq Canonical /\ thin \subseteq Duplicates
  OBVIOUS
<1>5. Canonical \subseteq Declared /\ Canonical \subseteq Aliases
  BY TargetSets, DeclaredAliases
<1>6. ASSUME NEW a \in solid
      PROVE  entry[a].walk \in Walk /\ entry[a].walk.refs \subseteq Declared
  <2>1. entry[a] \in Entries /\ entry[a].status = "walked"
    BY <1>6, <1>4 DEF Resolves
  <2>2. entry[a].walk \in Walks(Canonical)
    BY <2>1 DEF Entries
  <2>3. QED  BY <1>5, <2>2 DEF Walks, Walk
<1>7. ASSUME NEW a \in thin
      PROVE  Thin(CanonicalOf(a)) \in Walk /\ Thin(CanonicalOf(a)).refs \subseteq Declared
  <2>1. CanonicalOf(a) \in Canonical
    BY <1>4, <1>7
  <2>2. QED  BY <1>5, <2>1 DEF Thin, Walk
<1>8. \A a \in solid \cup thin : walk(a) \in Walk /\ walk(a).refs \subseteq Declared
  BY <1>6, <1>7
<1> HIDE DEF solid, thin, walk
<1>9. /\ DOMAIN walked' = solid \cup thin
      /\ \A a \in solid \cup thin : walked'[a] = walk(a)
  BY <1>2
<1>10. walked' = [a \in DOMAIN walked' |-> walked'[a]]
  BY <1>2
<1>11. untouched' \subseteq Declared
  BY <1>3, TargetSets DEF TypeOK
<1>12. QED  BY <1>4, <1>8, <1>9, <1>10, <1>11, TargetSets

(* Inductive: a pass is under way past "idle", checker bodies name no      *)
(* alias, structural ones name declared aliases, and the prune has dropped *)
(* nothing that could stand.                                               *)
ResolutionInv ==
  /\ stage # "idle" => runs \in 1..MaxRuns
  /\ \A a \in DOMAIN walked : walked[a].refs \subseteq Declared
  /\ \A a \in DOMAIN bodies :
       IF bodies[a].structural THEN bodies[a].refs \subseteq Declared ELSE bodies[a].refs = {}
  /\ stage \in {"prune", "emit"} =>
       \A S \in SUBSET DOMAIN bodies : Closed(S) => S \subseteq kept
  /\ stage = "emit" => Closed(kept)
  /\ AliasesResolve

(* Dropping a body that names a missing sibling never drops a body of a    *)
(* set that can stand.                                                     *)
LEMMA PruneKeepsClosed ==
  ASSUME TypeOK, ResolutionInv, NEW a \in Aliases, Prune(a)
  PROVE  \A S \in SUBSET DOMAIN bodies : Closed(S) => S \subseteq kept \ {a}
<1>1. SUFFICES ASSUME NEW S \in SUBSET DOMAIN bodies, Closed(S), a \in S PROVE FALSE
  BY DEF ResolutionInv, Prune
<1>2. S \subseteq kept
  BY <1>1 DEF ResolutionInv, Prune
<1>3. bodies[a].structural /\ Missing(a) # {}
  BY DEF Prune, Dangling
<1>4. PICK n \in bodies[a].refs \cap Declared : n # a /\ n \notin kept
  BY <1>3 DEF Missing
<1>5. n \in S
  BY <1>1, <1>3, <1>4 DEF Closed
<1>6. QED  BY <1>2, <1>4, <1>5

LEMMA EmittedAliases ==
  ASSUME TypeOK, ResolutionInv, EmitSidecar
  PROVE  /\ AliasesResolve'
         /\ IsPartial(sidecar', Aliases, Declaration)
<1>1. /\ DOMAIN sidecar' = kept
      /\ \A a \in kept : sidecar'[a] = [refs |-> bodies[a].refs, bare |-> bodies[a].bare,
                                        run |-> runs]
      /\ sidecar' = [a \in DOMAIN sidecar' |-> sidecar'[a]]
  BY DEF EmitSidecar
<1>2. kept \subseteq Aliases /\ kept \subseteq DOMAIN bodies
  BY DeclaredAliases DEF TypeOK, IsPartial
<1>3. ASSUME NEW a \in kept
      PROVE  bodies[a].refs \subseteq kept /\ sidecar'[a] \in Declaration
  <2>1. bodies[a] \in Body
    BY <1>2 DEF TypeOK, IsPartial
  <2>2. runs \in 1..MaxRuns
    BY DEF EmitSidecar, ResolutionInv
  <2>3. Closed(kept)
    BY DEF EmitSidecar, ResolutionInv
  <2>4. bodies[a].refs \subseteq kept
    BY <1>2, <2>3 DEF Closed, ResolutionInv
  <2>5. QED  BY <1>1, <2>1, <2>2, <2>4 DEF Body, Declaration
<1>4. QED  BY <1>1, <1>2, <1>3 DEF AliasesResolve, IsPartial

LEMMA MergedBodies ==
  ASSUME TypeOK, ResolutionInv, Merge
  PROVE  /\ IsPartial(bodies', Declared, Body)
         /\ \A a \in DOMAIN bodies' :
              IF bodies'[a].structural THEN bodies'[a].refs \subseteq Declared
                                       ELSE bodies'[a].refs = {}
<1>1. PICK upgraded \in SUBSET {a \in DOMAIN walked : walked[a].opaque} :
        bodies' = [a \in checked \cup DOMAIN walked |->
                     IF a \in DOMAIN walked \ upgraded THEN Skeleton(walked[a]) ELSE Inline]
  BY DEF Merge
<1>2. checked \cup DOMAIN walked \subseteq Declared
  BY TargetSets DEF TypeOK, IsPartial
<1>3. Inline \in Body /\ ~ Inline.structural /\ Inline.refs = {}
  BY DEF Inline, Body
<1>4. ASSUME NEW a \in DOMAIN walked
      PROVE  /\ Skeleton(walked[a]) \in Body
             /\ Skeleton(walked[a]).structural
             /\ Skeleton(walked[a]).refs \subseteq Declared
  <2>1. walked[a] \in Walk /\ walked[a].refs \subseteq Declared
    BY <1>4 DEF TypeOK, IsPartial, ResolutionInv
  <2>2. QED  BY <2>1 DEF Walk, Skeleton, Body
<1>5. \A a \in DOMAIN bodies' : bodies'[a] = Inline \/ \E d \in DOMAIN walked :
                                                   bodies'[a] = Skeleton(walked[d])
  BY <1>1
<1>6. \A a \in DOMAIN bodies' : bodies'[a] \in Body
  BY <1>3, <1>4, <1>5
<1>7. IsPartial(bodies', Declared, Body)
  BY <1>1, <1>2, <1>6 DEF IsPartial
<1>8. QED  BY <1>3, <1>4, <1>5, <1>7

LEMMA InitInv == Init => TypeOK /\ ResolutionInv
<1>1. SUFFICES ASSUME Init PROVE TypeOK /\ ResolutionInv
  OBVIOUS
<1>2. DOMAIN None = {} /\ None = [a \in DOMAIN None |-> None[a]]
  BY DEF None
<1>3. \A S, T : IsPartial(None, S, T)
  BY <1>2 DEF IsPartial
<1>4. TypeOK
  BY <1>1, <1>3 DEF Init, TypeOK, Stages
<1>5. ResolutionInv
  BY <1>1, <1>2 DEF Init, ResolutionInv, AliasesResolve
<1>6. QED  BY <1>4, <1>5

LEMMA NextInv == TypeOK /\ ResolutionInv /\ [Next]_vars => TypeOK' /\ ResolutionInv'
<1>1. SUFFICES ASSUME TypeOK, ResolutionInv, [Next]_vars PROVE TypeOK' /\ ResolutionInv'
  OBVIOUS
<1>2. ASSUME NEW f \in Files, Prepare(f) PROVE TypeOK' /\ ResolutionInv'
  <2>1. DOMAIN None = {} /\ \A S, T : IsPartial(None, S, T)
    BY DEF None, IsPartial
  <2>2. runs' \in 1..MaxRuns /\ stage' \in {"idle", "checker"}
    BY <1>1, <1>2 DEF Prepare, TypeOK
  <2>3. TypeOK'
    BY <1>1, <1>2, <2>1, <2>2 DEF Prepare, TypeOK, Stages
  <2>4. ResolutionInv'
    BY <1>1, <1>2, <2>1, <2>2 DEF Prepare, ResolutionInv, AliasesResolve
  <2>5. QED  BY <2>3, <2>4
<1>3. CASE Check
  <2>1. file' = file /\ UNCHANGED <<runs, walked, bodies, kept, sidecar>>
        /\ stage' = "worker" /\ stage = "checker"
        /\ checked' \subseteq CheckerTargets /\ untouched' \subseteq CheckerTargets
    BY <1>3 DEF Check
  <2>2. TypeOK'
    BY <1>1, <2>1, SameFile, TargetSets DEF TypeOK, Stages, IsPartial
  <2>3. ResolutionInv'
    BY <1>1, <2>1, SameFile DEF ResolutionInv, AliasesResolve
  <2>4. QED  BY <2>2, <2>3
<1>4. CASE WorkerFails
  <2>1. file' = file /\ UNCHANGED <<runs, checked, bodies, kept, untouched, sidecar>>
        /\ stage' = "merge" /\ stage = "worker" /\ walked' = None
    BY <1>4 DEF WorkerFails
  <2>2. DOMAIN None = {} /\ \A S, T : IsPartial(None, S, T)
    BY DEF None, IsPartial
  <2>3. TypeOK'
    BY <1>1, <2>1, <2>2, SameFile DEF TypeOK, Stages, IsPartial
  <2>4. ResolutionInv'
    BY <1>1, <2>1, <2>2, SameFile DEF ResolutionInv, AliasesResolve
  <2>5. QED  BY <2>3, <2>4
<1>5. CASE WalkAll
  <2>1. file' = file /\ UNCHANGED <<runs, checked, bodies, kept, sidecar>>
        /\ stage' = "merge" /\ stage = "worker"
    BY <1>5 DEF WalkAll
  <2>2. IsPartial(walked', {a \in Declared : Kind(a) # "external"}, Walk)
    BY <1>1, <1>5, WalkedBodies, TargetSets DEF IsPartial
  <2>3. untouched' \subseteq Declared /\ \A a \in DOMAIN walked' : walked'[a].refs \subseteq Declared
    BY <1>1, <1>5, WalkedBodies
  <2>4. TypeOK'
    BY <1>1, <2>1, <2>2, <2>3, SameFile DEF TypeOK, Stages, IsPartial
  <2>5. ResolutionInv'
    BY <1>1, <2>1, <2>3, SameFile DEF ResolutionInv, AliasesResolve
  <2>6. QED  BY <2>4, <2>5
<1>6. CASE Merge
  <2>1. file' = file /\ UNCHANGED <<runs, checked, walked, untouched, sidecar>>
        /\ stage' = "prune" /\ stage = "merge" /\ kept' = DOMAIN bodies'
    BY <1>6 DEF Merge
  <2>2. TypeOK'
    BY <1>1, <1>6, <2>1, MergedBodies, SameFile DEF TypeOK, Stages, IsPartial
  <2>3. ResolutionInv'
    BY <1>1, <1>6, <2>1, MergedBodies, SameFile DEF ResolutionInv, AliasesResolve
  <2>4. QED  BY <2>2, <2>3
<1>7. ASSUME NEW a \in Aliases, Prune(a) PROVE TypeOK' /\ ResolutionInv'
  <2>1. file' = file /\ UNCHANGED <<stage, runs, checked, walked, bodies, sidecar>>
        /\ stage = "prune" /\ kept' = kept \ {a} /\ untouched' = untouched \cup {a} /\ a \in kept
    BY <1>7 DEF Prune, Dangling
  <2>2. TypeOK'
    BY <1>1, <2>1, SameFile DEF TypeOK, IsPartial
  <2>3. \A S : Closed(S)' = Closed(S)
    BY <2>1, SameFile DEF Closed
  <2>4. ResolutionInv'
    BY <1>1, <1>7, <2>1, <2>3, PruneKeepsClosed, SameFile DEF ResolutionInv, AliasesResolve
  <2>5. QED  BY <2>2, <2>4
<1>8. CASE Pruned
  <2>1. file' = file /\ UNCHANGED <<runs, checked, walked, bodies, kept, untouched, sidecar>>
        /\ stage' = "emit" /\ stage = "prune" /\ Dangling = {}
    BY <1>8 DEF Pruned
  <2>2. Closed(kept)
    BY <2>1 DEF Dangling, Missing, Closed
  <2>3. TypeOK'
    BY <1>1, <2>1, SameFile DEF TypeOK, Stages, IsPartial
  <2>4. \A S : Closed(S)' = Closed(S)
    BY <2>1, SameFile DEF Closed
  <2>5. ResolutionInv'
    BY <1>1, <2>1, <2>2, <2>4, SameFile DEF ResolutionInv, AliasesResolve
  <2>6. QED  BY <2>3, <2>5
<1>9. CASE KeepSidecar
  <2>1. file' = file /\ UNCHANGED <<runs, checked, walked, bodies, kept, untouched, sidecar>>
        /\ stage' = "idle"
    BY <1>9 DEF KeepSidecar
  <2>2. QED
    BY <1>1, <2>1, SameFile DEF TypeOK, Stages, IsPartial, ResolutionInv, AliasesResolve
<1>10. CASE EmitSidecar
  <2>1. file' = file /\ UNCHANGED <<runs, checked, walked, bodies, kept, untouched>>
        /\ stage' = "idle"
    BY <1>10 DEF EmitSidecar
  <2>2. TypeOK'
    BY <1>1, <1>10, <2>1, EmittedAliases, SameFile DEF TypeOK, Stages, IsPartial
  <2>3. ResolutionInv'
    BY <1>1, <1>10, <2>1, EmittedAliases, SameFile DEF ResolutionInv
  <2>4. QED  BY <2>2, <2>3
<1>11. CASE UNCHANGED vars
  <2>1. file' = file /\ UNCHANGED <<stage, runs, checked, walked, bodies, kept, untouched, sidecar>>
    BY <1>11 DEF vars
  <2>2. \A S : Closed(S)' = Closed(S)
    BY <2>1, SameFile DEF Closed
  <2>3. TypeOK'
    BY <1>1, <2>1, SameFile DEF TypeOK, IsPartial
  <2>4. ResolutionInv'
    BY <1>1, <2>1, <2>2, SameFile DEF ResolutionInv, AliasesResolve
  <2>5. QED  BY <2>3, <2>4
<1>12. QED
  BY <1>1, <1>2, <1>3, <1>4, <1>5, <1>6, <1>7, <1>8, <1>9, <1>10, <1>11 DEF Next

LEMMA InvCorrect == Spec => [](TypeOK /\ ResolutionInv)
BY InitInv, NextInv, PTL DEF Spec

(* The resolution keeps its types: in particular no external schema ever   *)
(* has a structural body.                                                  *)
THEOREM TypeCorrect == Spec => []TypeOK
BY InvCorrect, PTL

(* No sidecar on disk names an alias it does not declare.                  *)
THEOREM SidecarsResolve == Spec => []AliasesResolve
<1>1. ResolutionInv => AliasesResolve
  BY DEF ResolutionInv
<1>2. QED  BY <1>1, InvCorrect, PTL

(* The prune ends in the greatest set of bodies that can stand together.   *)
THEOREM PruneIsExact == Spec => []PruneExact
<1>1. ResolutionInv => PruneExact
  BY DEF ResolutionInv, PruneExact
<1>2. QED  BY <1>1, InvCorrect, PTL

-----------------------------------------------------------------------------
(* Circles of bare aliases                                                 *)

Circle(w, C) == (\A a \in C : w[a].bare) /\ UNION {w[a].refs : a \in C} = C
NoCircle(w) == \A C \in SUBSET DOMAIN w : C # {} => ~ Circle(w, C)

(* The worker's bodies hold no circle, nor do the candidates that come of  *)
(* them, nor what is left of those on disk.                                *)
CircleInv == NoCircle(walked) /\ NoCircle(bodies) /\ NoCircle(sidecar)

(* The worker refuses every body on a circle.  A duplicate, which is the   *)
(* bare name of its canonical alias, closes no new one: no body names a    *)
(* duplicate.                                                              *)
LEMMA WalkedCircles ==
  ASSUME WalkAll
  PROVE  NoCircle(walked')
<1>1. PICK entry \in [Canonical -> Entries] :
        LET resolved == {a \in Canonical : Resolves(a, entry[a])}
            cyclic == BareCycles([a \in resolved |-> entry[a].walk])
            solid == resolved \ cyclic
            thin == {d \in Duplicates : CanonicalOf(d) \in solid}
        IN  walked' = [a \in solid \cup thin |->
                         IF a \in solid THEN entry[a].walk ELSE Thin(CanonicalOf(a))]
  BY DEF WalkAll
<1> DEFINE resolved == {a \in Canonical : Resolves(a, entry[a])}
           w == [a \in resolved |-> entry[a].walk]
           solid == resolved \ BareCycles(w)
           thin == {d \in Duplicates : CanonicalOf(d) \in solid}
<1>2. walked' = [a \in solid \cup thin |->
                   IF a \in solid THEN entry[a].walk ELSE Thin(CanonicalOf(a))]
  BY <1>1
<1>3. /\ solid \subseteq Canonical /\ solid \subseteq resolved
      /\ \A a \in thin : a \notin Canonical /\ CanonicalOf(a) \in Canonical
  BY DEF Duplicates
<1>4. \A a \in resolved : entry[a].walk.refs \subseteq Canonical
  <2>1. SUFFICES ASSUME NEW a \in resolved PROVE entry[a].walk.refs \subseteq Canonical
    OBVIOUS
  <2>2. entry[a] \in Entries /\ entry[a].status = "walked"
    BY <2>1 DEF Resolves
  <2>3. entry[a].walk \in Walks(Canonical)
    BY <2>2 DEF Entries
  <2>4. QED  BY <2>3 DEF Walks
<1>5. \A a \in resolved : w[a] = entry[a].walk
  OBVIOUS
<1>6. DOMAIN w = resolved
  OBVIOUS
<1>7. BareCycles(w) = UNION {C \in SUBSET DOMAIN w : Circle(w, C)}
  BY DEF BareCycles, Circle
<1>8. \A a \in solid : a \notin BareCycles(w)
  OBVIOUS
<1> HIDE DEF resolved, solid, thin, w
<1>9. /\ DOMAIN walked' = solid \cup thin
      /\ \A a \in solid : walked'[a] = w[a]
      /\ \A a \in thin : a \notin solid /\ walked'[a] = Thin(CanonicalOf(a))
  BY <1>2, <1>3, <1>5
<1>10. SUFFICES ASSUME NEW C \in SUBSET DOMAIN walked', C # {}, Circle(walked', C)
                PROVE  FALSE
  BY DEF NoCircle
<1>11. \A a \in C : walked'[a].refs \subseteq Canonical
  <2>1. \A a \in thin : walked'[a].refs = {CanonicalOf(a)}
    BY <1>9 DEF Thin
  <2>2. QED  BY <1>3, <1>4, <1>5, <1>9, <2>1
<1>12. C \subseteq Canonical
  BY <1>10, <1>11 DEF Circle
<1>13. C \subseteq solid
  BY <1>3, <1>9, <1>12
<1>14. C \in SUBSET DOMAIN w /\ Circle(w, C)
  <2>1. \A a \in C : walked'[a] = w[a]
    BY <1>9, <1>13
  <2>2. {walked'[a].refs : a \in C} = {w[a].refs : a \in C}
    BY <2>1
  <2>3. QED  BY <1>3, <1>6, <1>10, <1>13, <2>1, <2>2 DEF Circle
<1>15. QED  BY <1>7, <1>8, <1>10, <1>13, <1>14

(* A circle among some of the declarations that came of bodies is one      *)
(* among the bodies.                                                       *)
LEMMA CircleWithin ==
  ASSUME NEW v, NEW w, NoCircle(w), NEW D \in SUBSET DOMAIN v, D \subseteq DOMAIN w,
         \A a \in D : v[a].bare = w[a].bare /\ v[a].refs = w[a].refs,
         \A a \in DOMAIN v \ D : ~ v[a].bare
  PROVE  NoCircle(v)
<1>1. SUFFICES ASSUME NEW C \in SUBSET DOMAIN v, C # {}, Circle(v, C) PROVE FALSE
  BY DEF NoCircle
<1>2. C \subseteq D
  BY <1>1 DEF Circle
<1>3. {v[a].refs : a \in C} = {w[a].refs : a \in C}
  BY <1>2
<1>4. Circle(w, C)
  BY <1>1, <1>2, <1>3 DEF Circle
<1>5. QED  BY <1>1, <1>2, <1>4 DEF NoCircle

LEMMA MergedCircles ==
  ASSUME NoCircle(walked), Merge
  PROVE  NoCircle(bodies')
<1>1. PICK upgraded \in SUBSET {a \in DOMAIN walked : walked[a].opaque} :
        bodies' = [a \in checked \cup DOMAIN walked |->
                     IF a \in DOMAIN walked \ upgraded THEN Skeleton(walked[a]) ELSE Inline]
  BY DEF Merge
<1>2. PICK D : D = DOMAIN walked \ upgraded
  OBVIOUS
<1>3. /\ D \subseteq DOMAIN walked /\ D \subseteq DOMAIN bodies'
      /\ \A a \in D : bodies'[a] = Skeleton(walked[a])
      /\ \A a \in DOMAIN bodies' \ D : bodies'[a] = Inline
  BY <1>1, <1>2
<1>4. \A a \in D : bodies'[a].bare = walked[a].bare /\ bodies'[a].refs = walked[a].refs
  <2>1. \A x : Skeleton(x).bare = x.bare /\ Skeleton(x).refs = x.refs
    BY DEF Skeleton
  <2>2. QED  BY <1>3, <2>1
<1>5. \A a \in DOMAIN bodies' \ D : ~ bodies'[a].bare
  BY <1>3 DEF Inline
<1>6. PICK v : v = bodies'
  OBVIOUS
<1>7. NoCircle(v)
  BY <1>3, <1>4, <1>5, <1>6, CircleWithin
<1>8. QED  BY <1>6, <1>7

LEMMA EmittedCircles ==
  ASSUME TypeOK, NoCircle(bodies), EmitSidecar
  PROVE  NoCircle(sidecar')
<1>1. PICK v : v = sidecar'
  OBVIOUS
<1>2. /\ kept \subseteq DOMAIN bodies /\ DOMAIN v = kept
      /\ \A a \in kept : v[a].bare = bodies[a].bare /\ v[a].refs = bodies[a].refs
  BY <1>1 DEF EmitSidecar, TypeOK
<1>3. NoCircle(v)
  BY <1>2, CircleWithin
<1>4. QED  BY <1>1, <1>3

(* No sidecar holds a circle of bare aliases, duplicate aliases of one     *)
(* export included, whatever the worker's walks rendered and whatever the  *)
(* prune dropped (structural-ts.ts, bareAliasCycleNames; session.ts).      *)
THEOREM SidecarsHaveNoCircle == Spec => []NoAliasCycle
<1>1. NoCircle(None)
  BY DEF NoCircle, None
<1>2. Init => CircleInv
  BY <1>1 DEF Init, CircleInv
<1>3. ASSUME TypeOK, CircleInv, [Next]_vars
      PROVE  CircleInv'
  <2>1. ASSUME NEW f \in Files, Prepare(f) PROVE CircleInv'
    BY <1>1, <1>3, <2>1 DEF Prepare, CircleInv
  <2>2. CASE WorkerFails
    BY <1>1, <1>3, <2>2 DEF WorkerFails, CircleInv
  <2>3. CASE WalkAll
    <3>1. bodies' = bodies /\ sidecar' = sidecar
      BY <2>3 DEF WalkAll
    <3>2. QED  BY <1>3, <2>3, <3>1, WalkedCircles DEF CircleInv
  <2>4. CASE Merge
    <3>1. walked' = walked /\ sidecar' = sidecar
      BY <2>4 DEF Merge
    <3>2. QED  BY <1>3, <2>4, <3>1, MergedCircles DEF CircleInv
  <2>5. CASE EmitSidecar
    <3>1. walked' = walked /\ bodies' = bodies
      BY <2>5 DEF EmitSidecar
    <3>2. QED  BY <1>3, <2>5, <3>1, EmittedCircles DEF CircleInv
  <2>6. CASE Check \/ (\E a \in Aliases : Prune(a)) \/ Pruned \/ KeepSidecar \/ UNCHANGED vars
    <3>1. UNCHANGED <<walked, bodies, sidecar>>
      BY <2>6 DEF Check, Prune, Pruned, KeepSidecar, vars
    <3>2. QED  BY <1>3, <3>1 DEF CircleInv
  <2>7. QED  BY <1>3, <2>1, <2>2, <2>3, <2>4, <2>5, <2>6 DEF Next
<1>4. CircleInv => NoAliasCycle
  BY DEF CircleInv, NoCircle, Circle, NoAliasCycle
<1>5. Spec => []CircleInv
  BY <1>2, <1>3, TypeCorrect, PTL DEF Spec
<1>6. QED  BY <1>4, <1>5, PTL
=============================================================================
