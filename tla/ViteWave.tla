------------------------------- MODULE ViteWave -------------------------------
(***************************************************************************)
(* Generate waves of the Vite plugin: packages/vite/src/index.ts, where    *)
(* the hooks of one plugin instance are called by several environment      *)
(* builds (client, ssr) and each wave of builds shares one generate pass.  *)
(*                                                                         *)
(* A hook runs without interruption up to its await.  The builds, the      *)
(* generate passes and the user's edits interleave freely otherwise.       *)
(***************************************************************************)
EXTENDS Integers, Sequences

CONSTANTS
  Environments,  \* names Vite gives to this.environment
  MaxEdits,      \* bound on the edits of the schema sources
  MaxPasses,     \* bound on the generate passes started
  MaxConfigs     \* bound on the calls of configResolved

ASSUME WaveAssumption ==
  /\ MaxEdits \in Nat
  /\ MaxPasses \in Nat
  /\ MaxConfigs \in Nat

VARIABLES
  edits,    \* version of the schema sources
  passes,   \* generate passes in the order deps.generate() was called
  wave,     \* current wave, or NoWave
  seen,     \* environments that have taken some wave
  build,    \* build[e]: where the build of environment e stands
  took,     \* took[e]: number of the pass e took last, 0 before the first
  configs,  \* number of calls of configResolved
  \* history, for the properties only
  base,     \* number of passes when configResolved was last called
  builds,   \* builds[e]: builds of e since configResolved
  since,    \* since[e]: version of the sources when e's build started
  alone     \* alone[e]: e's build started as a rebuild while no build was under way

plugin == <<wave, seen>>
history == <<base, builds, since, alone>>
vars == <<edits, passes, plugin, build, took, configs, history>>

NoWave == [pass |-> 0, consumed |-> {}, closed |-> TRUE]

(* version: the version of the sources the pass has read                   *)
Pass == [state : {"pending", "read", "ok", "failed"}, version : 0..MaxEdits]
Wave == [pass : 0..MaxPasses, consumed : SUBSET Environments, closed : BOOLEAN]
Stages == {"idle", "awaiting", "building", "failed"}

TypeOK ==
  /\ edits \in 0..MaxEdits
  /\ passes \in Seq(Pass) /\ Len(passes) <= MaxPasses
  /\ wave \in Wave /\ wave.pass <= Len(passes)
  /\ seen \subseteq Environments
  /\ build \in [Environments -> Stages]
  /\ took \in [Environments -> 0..Len(passes)]
  /\ configs \in 0..MaxConfigs
  /\ base \in 0..MaxPasses
  /\ builds \in [Environments -> Nat]
  /\ since \in [Environments -> 0..MaxEdits]
  /\ alone \in [Environments -> BOOLEAN]

Init ==
  /\ edits = 0
  /\ passes = <<>>
  /\ wave = NoWave
  /\ seen = {}
  /\ build = [e \in Environments |-> "idle"]
  /\ took = [e \in Environments |-> 0]
  /\ configs = 0
  /\ base = 0
  /\ builds = [e \in Environments |-> 0]
  /\ since = [e \in Environments |-> 0]
  /\ alone = [e \in Environments |-> FALSE]

-----------------------------------------------------------------------------
(* configResolved drops the wave and forgets who has built.                *)

(* Mutant: the consumers are forgotten, the wave is kept.                  *)
ClearWaveConsumers == seen' = {} /\ wave' = [wave EXCEPT !.consumed = {}]

(* Mutant: the finished wave survives a new configuration.                 *)
ClearWaveKept == seen' = {} /\ UNCHANGED wave

ClearWave == wave' = NoWave /\ seen' = {}

ConfigResolved ==
  /\ configs < MaxConfigs
  /\ configs' = configs + 1
  /\ ClearWave
  /\ base' = Len(passes)
  /\ builds' = [e \in Environments |-> 0]
  /\ UNCHANGED <<edits, passes, build, took, since, alone>>

-----------------------------------------------------------------------------
(* buildStart                                                              *)

(* Mutant: a never-built environment joins an open wave only.              *)
JoinsOpenOnly(e) == wave # NoWave /\ e \notin wave.consumed /\ ~ wave.closed

(* Mutant: any environment joins a closed wave, once.                      *)
JoinsClosed(e) == wave # NoWave /\ e \notin wave.consumed

Joins(e) ==
  /\ wave # NoWave
  /\ e \notin wave.consumed
  /\ e \notin seen \/ ~ wave.closed

(* Mutant: generate() is called before the wave is tested.                 *)
JoinWaveStarted(e) ==
  /\ Joins(e) /\ Len(passes) < MaxPasses
  /\ wave' = [wave EXCEPT !.consumed = @ \cup {e}]
  /\ took' = [took EXCEPT ![e] = wave.pass]
  /\ passes' = Append(passes, [state |-> "pending", version |-> 0])

JoinWave(e) ==
  /\ Joins(e)
  /\ wave' = [wave EXCEPT !.consumed = @ \cup {e}]
  /\ took' = [took EXCEPT ![e] = wave.pass]
  /\ UNCHANGED passes

(* deps.generate() is called and its promise kept before any await.        *)
BeginWave(e) ==
  /\ ~ Joins(e)
  /\ Len(passes) < MaxPasses
  /\ passes' = Append(passes, [state |-> "pending", version |-> 0])
  /\ wave' = [pass |-> Len(passes) + 1, consumed |-> {e}, closed |-> FALSE]
  /\ took' = [took EXCEPT ![e] = Len(passes) + 1]

BuildStart(e) ==
  /\ build[e] = "idle"
  /\ JoinWave(e) \/ BeginWave(e)
  /\ seen' = seen \cup {e}
  /\ build' = [build EXCEPT ![e] = "awaiting"]
  /\ builds' = [builds EXCEPT ![e] = @ + 1]
  /\ since' = [since EXCEPT ![e] = edits]
  /\ alone' = [alone EXCEPT ![e] = e \in seen /\ \A d \in Environments : build[d] = "idle"]
  /\ UNCHANGED <<edits, configs, base>>

(* The awaited pass settles: the build goes on, or fails.                  *)
Awaited(e) ==
  /\ build[e] = "awaiting"
  /\ \/ /\ passes[took[e]].state = "ok"
        /\ build' = [build EXCEPT ![e] = "building"]
     \/ /\ passes[took[e]].state = "failed"
        /\ build' = [build EXCEPT ![e] = "failed"]
  /\ UNCHANGED <<edits, passes, plugin, took, configs, history>>

(* buildEnd is called after a build and after an error alike.              *)

CloseWave ==
  wave' = IF wave = NoWave THEN NoWave ELSE [wave EXCEPT !.closed = TRUE]

BuildEnd(e) ==
  /\ build[e] \in {"building", "failed"}
  /\ build' = [build EXCEPT ![e] = "idle"]
  /\ CloseWave
  /\ UNCHANGED <<edits, passes, seen, took, configs, history>>

-----------------------------------------------------------------------------
(* deps.generate: reads the sources, then resolves or rejects.             *)
Read(p) ==
  /\ passes[p].state = "pending"
  /\ passes' = [passes EXCEPT ![p] = [state |-> "read", version |-> edits]]
  /\ UNCHANGED <<edits, plugin, build, took, configs, history>>

Settle(p) ==
  /\ \/ passes[p].state = "read" /\ passes' = [passes EXCEPT ![p].state = "ok"]
     \/ /\ passes[p].state \in {"pending", "read"}
        /\ passes' = [passes EXCEPT ![p].state = "failed"]
  /\ UNCHANGED <<edits, plugin, build, took, configs, history>>

Edit ==
  /\ edits < MaxEdits
  /\ edits' = edits + 1
  /\ UNCHANGED <<passes, plugin, build, took, configs, history>>

Next ==
  \/ ConfigResolved
  \/ \E e \in Environments : BuildStart(e) \/ Awaited(e) \/ BuildEnd(e)
  \/ \E p \in DOMAIN passes : Read(p) \/ Settle(p)
  \/ Edit

Spec == Init /\ [][Next]_vars

-----------------------------------------------------------------------------
(* No environment builds twice on one generate: each of its builds takes a *)
(* strictly newer pass than its previous one, across waves that overlap,   *)
(* fail, or are dropped by configResolved.                                 *)
NeverSamePass ==
  [][\A e \in Environments :
       build[e] = "idle" /\ build'[e] = "awaiting" => took'[e] > took[e]]_vars

(* client then ssr, in sequence or overlapping, successful or not: while   *)
(* every environment has built at most once since configResolved, at most  *)
(* one generate was started.                                               *)
OneGeneratePerWave ==
  (\A e \in Environments : builds[e] <= 1) => Len(passes) - base <= 1

(* A new configuration starts clean: a build started after configResolved  *)
(* never shares a pass that was started before it.                         *)
NewConfigNewPass ==
  \A e \in Environments : builds[e] > 0 => took[e] > base

(* "A later rebuild must not join a sibling's already-finished wave": a    *)
(* rebuild that starts when no build is under way gets a pass that has     *)
(* read every edit made before the rebuild.                                *)
RebuildSeesEdits ==
  \A e \in Environments :
    alone[e] /\ passes[took[e]].state \in {"read", "ok"} =>
      passes[took[e]].version >= since[e]

(* The waves implement what the builds were promised, SharedPass: a build  *)
(* is served by a pass of the current configuration, newer than its last,  *)
(* and no pass is started but for the build that needs it.                 *)
Shared == INSTANCE SharedPass WITH started <- Len(passes)
SharedPassSpec == Shared!SharedSpec
=============================================================================
