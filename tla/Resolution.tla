------------------------------ MODULE Resolution ------------------------------
(***************************************************************************)
(* How the aliases of one source file get their types: resolveAndFinalize  *)
(* of packages/compiler/src/session.ts with the passes it calls.  The      *)
(* targets of a file are routed to the checker and to the structural       *)
(* worker, both results are merged, dangling references are pruned to a    *)
(* fixpoint, a compile gate runs and the sidecar is rewritten as a whole.  *)
(*                                                                         *)
(* What the checker answers, what the worker's walk renders and whether    *)
(* Tier-1 and the gate accept is chosen freely at each step.  A rendered   *)
(* type is abstracted to the sibling aliases it names and to whether it    *)
(* is nothing but one alias name.                                          *)
(***************************************************************************)
EXTENDS Integers, Sequences

CONSTANTS
  Exports,     \* bindings the source file may export
  Aliases,     \* type names the sidecar may declare
  Files,       \* discovered targets a source file may have, in order
  NameShared,  \* config.codegen.nameSharedSchemas
  MaxRuns      \* bound on the generate passes over the file

(* plain: a tskm schema; recursive: a tskm recursive() root; external: a   *)
(* schema of another library.                                              *)
Kinds == {"plain", "recursive", "external"}
Target == [export : Exports, alias : Aliases, kind : Kinds]

ASSUME ResolutionAssumption ==
  /\ Files \subseteq Seq(Target)
  /\ NameShared \in BOOLEAN
  /\ MaxRuns \in Nat

VARIABLES
  stage,      \* the step resolveAndFinalize is at
  runs,       \* passes so far
  file,       \* targets of the source file
  checked,    \* aliases the checker has resolved
  walked,     \* walked[a]: structural resolution of alias a
  bodies,     \* bodies[a]: candidate body of alias a
  kept,       \* candidates not pruned
  untouched,  \* aliases reported as skipped, "Existing output left untouched"
  sidecar     \* sidecar[a]: declaration of a on disk

vars == <<stage, runs, file, checked, walked, bodies, kept, untouched, sidecar>>

(* One emitted alias per type name: the first declaration wins.            *)
Declared == {file[i].alias : i \in DOMAIN file}
First(a) ==
  CHOOSE i \in DOMAIN file :
    /\ file[i].alias = a
    /\ \A j \in DOMAIN file : file[j].alias = a => i <= j
Kind(a) == file[First(a)].kind
Export(a) == file[First(a)].export

(* splitTargets                                                            *)
CheckerTargets == {a \in Declared : Kind(a) # "recursive"}

(* Mutant: nameSharedSchemas forgets that the worker is for tskm schemas.  *)
StructuralTargetsAnySource ==
  {a \in Declared : Kind(a) = "recursive" \/ NameShared}

StructuralTargets ==
  {a \in Declared : Kind(a) = "recursive" \/ (NameShared /\ Kind(a) = "plain")}

(* splitCanonicalTargets: one alias per export is walked.                  *)
CanonicalOf(a) ==
  CHOOSE c \in StructuralTargets :
    /\ Export(c) = Export(a)
    /\ \A d \in StructuralTargets : Export(d) = Export(a) => First(c) <= First(d)
Canonical == {a \in StructuralTargets : CanonicalOf(a) = a}
Duplicates == StructuralTargets \ Canonical

(* A structural body names aliases of the identity map only, and the map   *)
(* holds the canonical aliases.                                            *)
Walk == [refs : SUBSET Aliases, bare : BOOLEAN, opaque : BOOLEAN]
Walks(names) ==
  {w \in [refs : SUBSET names, bare : BOOLEAN, opaque : BOOLEAN] :
     w.bare => ~ w.opaque /\ \E n \in names : w.refs = {n}}
Thin(a) == [refs |-> {a}, bare |-> TRUE, opaque |-> FALSE]

Body == [refs : SUBSET Aliases, bare : BOOLEAN, structural : BOOLEAN]
Inline == [refs |-> {}, bare |-> FALSE, structural |-> FALSE]
Skeleton(w) == [refs |-> w.refs, bare |-> w.bare, structural |-> TRUE]

Declaration == [refs : SUBSET Aliases, bare : BOOLEAN, run : 1..MaxRuns]
IsPartial(w, S, T) == DOMAIN w \in SUBSET S /\ w \in [DOMAIN w -> T]
Stages == {"idle", "checker", "worker", "merge", "prune", "emit"}

TypeOK ==
  /\ stage \in Stages
  /\ runs \in 0..MaxRuns
  /\ file \in Seq(Target)
  /\ checked \subseteq CheckerTargets
  /\ IsPartial(walked, {a \in Declared : Kind(a) # "external"}, Walk)
  /\ IsPartial(bodies, Declared, Body)
  /\ kept \subseteq DOMAIN bodies
  /\ untouched \subseteq Declared
  /\ IsPartial(sidecar, Aliases, Declaration)

None == [a \in {} |-> a]

Init ==
  /\ stage = "idle"
  /\ runs = 0
  /\ file = <<>>
  /\ checked = {}
  /\ walked = None
  /\ bodies = None
  /\ kept = {}
  /\ untouched = {}
  /\ sidecar = None

-----------------------------------------------------------------------------
(* prepareTargets: a file without a target is skipped, sidecar and all.    *)
Prepare(f) ==
  /\ stage = "idle"
  /\ runs < MaxRuns
  /\ runs' = runs + 1
  /\ file' = f
  /\ stage' = IF f = <<>> THEN "idle" ELSE "checker"
  /\ checked' = {}
  /\ walked' = None
  /\ bodies' = None
  /\ kept' = {}
  /\ untouched' = {}
  /\ UNCHANGED sidecar

(* resolveMarkers: a schema without a concrete type is skipped.  (An       *)
(* unconfirmed candidate of another library is dropped without a word;     *)
(* diagnostics are about the others.)                                      *)
Check ==
  /\ stage = "checker"
  /\ \E ok \in SUBSET CheckerTargets :
       /\ checked' = ok
       /\ untouched' = CheckerTargets \ ok
  /\ stage' = "worker"
  /\ UNCHANGED <<runs, file, walked, bodies, kept, sidecar>>

(* What the envelope holds for a canonical target, and what becomes of it. *)
(* "missing", "notRecursive": skipped; "unsupported": skipped with the     *)
(* walker's own warning; "unknown": a value or a position the walker       *)
(* cannot type.                                                            *)
NoWalk == [refs |-> {}, bare |-> FALSE, opaque |-> FALSE]
Entries ==
  [status : {"missing", "notRecursive", "unsupported", "unknown"}, walk : {NoWalk}]
    \cup [status : {"walked"}, walk : Walks(Canonical)]

Resolves(a, e) == e.status = "walked" /\ (Kind(a) = "plain" => ~ e.walk.opaque)
Skips(a, e) == e.status = "missing" \/ (e.status = "notRecursive" /\ Kind(a) = "recursive")

(* bareAliasCycleNames: the aliases on a cycle of bare alias references.   *)

(* Mutant: only a body that is its own alias counts as a cycle.            *)
BareCyclesSelf(w) == {a \in DOMAIN w : w[a].bare /\ w[a].refs = {a}}

BareCycles(w) ==
  UNION {C \in SUBSET DOMAIN w :
           /\ \A a \in C : w[a].bare
           /\ UNION {w[a].refs : a \in C} = C}

(* resolveRecursiveSchemas: without a target no worker is spawned; a run   *)
(* that fails resolves nothing.                                            *)
WorkerFails ==
  /\ stage = "worker"
  /\ StructuralTargets # {}
  /\ walked' = None
  /\ stage' = "merge"
  /\ UNCHANGED <<runs, file, checked, bodies, kept, untouched, sidecar>>

WalkAll ==
  /\ stage = "worker"
  /\ \E entry \in [Canonical -> Entries] :
       LET resolved == {a \in Canonical : Resolves(a, entry[a])}
           cyclic == BareCycles([a \in resolved |-> entry[a].walk])
           solid == resolved \ cyclic
           thin == {d \in Duplicates : CanonicalOf(d) \in solid}
       IN  /\ walked' = [a \in solid \cup thin |->
                           IF a \in solid THEN entry[a].walk ELSE Thin(CanonicalOf(a))]
           /\ untouched' = untouched \cup (Duplicates \ thin)
                             \cup {a \in Canonical : Skips(a, entry[a])}
  /\ stage' = "merge"
  /\ UNCHANGED <<runs, file, checked, bodies, kept, sidecar>>

(* applyTier1 may replace an opaque skeleton by a checker-rendered body;   *)
(* the structural body of an alias takes the place of its checker type.    *)
Merge ==
  /\ stage = "merge"
  /\ \E upgraded \in SUBSET {a \in DOMAIN walked : walked[a].opaque} :
       bodies' = [a \in checked \cup DOMAIN walked |->
                    IF a \in DOMAIN walked \ upgraded THEN Skeleton(walked[a]) ELSE Inline]
  /\ kept' = DOMAIN bodies'
  /\ stage' = "prune"
  /\ UNCHANGED <<runs, file, checked, walked, untouched, sidecar>>

-----------------------------------------------------------------------------
(* pruneDanglingAliases: one iteration of the loop drops the first         *)
(* structural body that names a declared sibling which is not emitted.     *)

(* Mutant: the emitted names are collected once, before the loop.          *)
MissingNoCascade(a) == {n \in bodies[a].refs \cap Declared : n # a /\ n \notin DOMAIN bodies}

(* Mutant: only the names with a structural body count as emitted.         *)
MissingChecked(a) ==
  {n \in bodies[a].refs \cap Declared : n # a /\ ~ (n \in kept /\ bodies[n].structural)}

Missing(a) == {n \in bodies[a].refs \cap Declared : n # a /\ n \notin kept}

Dangling == {a \in kept : bodies[a].structural /\ Missing(a) # {}}

Prune(a) ==
  /\ stage = "prune"
  /\ a \in Dangling
  /\ \A b \in Dangling : First(a) <= First(b)
  /\ kept' = kept \ {a}
  /\ untouched' = untouched \cup {a}
  /\ UNCHANGED <<stage, runs, file, checked, walked, bodies, sidecar>>

Pruned ==
  /\ stage = "prune"
  /\ Dangling = {}
  /\ stage' = "emit"
  /\ UNCHANGED <<runs, file, checked, walked, bodies, kept, untouched, sidecar>>

(* Nothing resolved, or the types of a file with external schemas do not   *)
(* compile: nothing is written.                                            *)
KeepSidecar ==
  /\ stage = "emit"
  /\ kept = {} \/ \E a \in kept : Kind(a) = "external"
  /\ stage' = "idle"
  /\ UNCHANGED <<runs, file, checked, walked, bodies, kept, untouched, sidecar>>

EmitSidecar ==
  /\ stage = "emit"
  /\ kept # {}
  /\ sidecar' = [a \in kept |->
                   [refs |-> bodies[a].refs, bare |-> bodies[a].bare, run |-> runs]]
  /\ stage' = "idle"
  /\ UNCHANGED <<runs, file, checked, walked, bodies, kept, untouched>>

Next ==
  \/ \E f \in Files : Prepare(f)
  \/ Check
  \/ WorkerFails
  \/ WalkAll
  \/ Merge
  \/ \E a \in Aliases : Prune(a)
  \/ Pruned
  \/ KeepSidecar
  \/ EmitSidecar

Spec == Init /\ [][Next]_vars

-----------------------------------------------------------------------------
(* Fail-closed emission: no sidecar on disk names an alias that the same   *)
(* sidecar does not declare, whatever failed on the way.                   *)
AliasesResolve == \A a \in DOMAIN sidecar : sidecar[a].refs \subseteq DOMAIN sidecar

(* The prune is exact: its cascade, whatever the order of the targets,     *)
(* ends in the greatest set of bodies that can stand together.             *)
Closed(S) ==
  \A a \in S : bodies[a].structural => (bodies[a].refs \cap Declared) \ {a} \subseteq S
PruneExact ==
  stage = "emit" => Closed(kept) /\ \A S \in SUBSET DOMAIN bodies : Closed(S) => S \subseteq kept

(* No sidecar holds a circle of bare aliases (type A = B, type B = A,      *)
(* TS2456), duplicate aliases of one export included.                      *)
NoAliasCycle ==
  \A C \in SUBSET DOMAIN sidecar :
    C # {} => ~ /\ \A a \in C : sidecar[a].bare
                /\ UNION {sidecar[a].refs : a \in C} = C

(* "Existing output left untouched": an alias reported so and declared on   *)
(* disk is still declared after the pass.                                  *)
UntouchedSurvives ==
  [][\A a \in untouched : a \in DOMAIN sidecar => a \in DOMAIN sidecar']_vars
=============================================================================
