------------------------------ MODULE ViteProofs ------------------------------
(***************************************************************************)
(* The Vite plugin for any set of environments and any number of edits,    *)
(* passes, configurations and servers: the wave protocol on its own, the   *)
(* dev server life cycle, and the link between them: every step of the     *)
(* plugin is a step of the wave protocol or leaves its state alone.        *)
(***************************************************************************)
EXTENDS Vite, TLAPS

-----------------------------------------------------------------------------
(* The wave protocol: ViteWave                                             *)

USE WaveAssumption

LEMMA InitType == Init => TypeOK
<1>1. SUFFICES ASSUME Init PROVE TypeOK
  OBVIOUS
<1>2. passes \in Seq(Pass) /\ Len(passes) <= MaxPasses
  BY <1>1 DEF Init
<1>3. wave \in Wave /\ wave.pass <= Len(passes)
  BY <1>1 DEF Init, NoWave, Wave
<1>4. QED  BY <1>1, <1>2, <1>3 DEF Init, TypeOK, Stages

LEMMA BuildStartType ==
  ASSUME TypeOK, NEW e \in Environments, BuildStart(e)
  PROVE  TypeOK'
<1>1. /\ passes' \in Seq(Pass) /\ Len(passes') <= MaxPasses
      /\ wave' \in Wave /\ wave'.pass <= Len(passes')
      /\ took' \in [Environments -> 0..Len(passes')]
  <2>1. CASE JoinWave(e)
    <3>1. /\ wave' = [wave EXCEPT !.consumed = @ \cup {e}]
          /\ took' = [took EXCEPT ![e] = wave.pass] /\ passes' = passes
      BY <2>1 DEF JoinWave
    <3>2. wave.pass \in 0..Len(passes)
      BY DEF TypeOK, Wave
    <3>3. took' \in [Environments -> 0..Len(passes')]
      BY <3>1, <3>2 DEF TypeOK
    <3>4. wave' \in Wave /\ wave'.pass = wave.pass
      BY <3>1 DEF TypeOK, Wave
    <3>5. QED  BY <3>1, <3>2, <3>3, <3>4 DEF TypeOK
  <2>2. CASE BeginWave(e)
    <3>1. [state |-> "pending", version |-> 0] \in Pass
      BY DEF Pass
    <3>2. passes' \in Seq(Pass) /\ Len(passes') = Len(passes) + 1
      BY <2>2, <3>1 DEF BeginWave, TypeOK
    <3>3. Len(passes) + 1 \in 0..MaxPasses
      BY <2>2 DEF BeginWave, TypeOK
    <3>4. QED  BY <2>2, <3>2, <3>3 DEF BeginWave, TypeOK, Wave
  <2>3. QED  BY <2>1, <2>2 DEF BuildStart
<1>2. /\ build' \in [Environments -> Stages]
      /\ builds' \in [Environments -> Nat]
      /\ since' \in [Environments -> 0..MaxEdits]
      /\ alone' \in [Environments -> BOOLEAN]
      /\ seen' \subseteq Environments
  BY DEF BuildStart, TypeOK, Stages
<1>3. QED  BY <1>1, <1>2 DEF BuildStart, TypeOK

LEMMA PassType ==
  ASSUME TypeOK, NEW p \in DOMAIN passes, Read(p) \/ Settle(p)
  PROVE  TypeOK' /\ Len(passes') = Len(passes)
<1>1. p \in 1..Len(passes) /\ passes[p] \in Pass
  BY DEF TypeOK
<1>2. ASSUME NEW r \in Pass, passes' = [passes EXCEPT ![p] = r]
      PROVE  passes' \in Seq(Pass) /\ Len(passes') = Len(passes)
  BY <1>1, <1>2 DEF TypeOK
<1>3. PICK r \in Pass : passes' = [passes EXCEPT ![p] = r]
  <2>1. CASE Read(p)
    <3>1. [state |-> "read", version |-> edits] \in Pass
      BY DEF Pass, TypeOK
    <3>2. QED  BY <2>1, <3>1 DEF Read
  <2>2. CASE Settle(p)
    <3>1. ASSUME NEW st \in {"ok", "failed"}
          PROVE  [passes[p] EXCEPT !.state = st] \in Pass
      BY <1>1 DEF Pass
    <3>2. QED  BY <2>2, <3>1 DEF Settle
  <2>3. QED  BY <2>1, <2>2
<1>4. passes' \in Seq(Pass) /\ Len(passes') = Len(passes)
  BY <1>2, <1>3
<1>5. QED  BY <1>4 DEF Read, Settle, TypeOK, plugin, history

LEMMA NextType == TypeOK /\ [Next]_vars => TypeOK'
<1>1. SUFFICES ASSUME TypeOK, [Next]_vars PROVE TypeOK'
  OBVIOUS
<1>2. CASE ConfigResolved
  <2>2. Len(passes) \in 0..MaxPasses
    BY <1>1 DEF TypeOK
  <2>1. wave' \in Wave /\ wave'.pass <= Len(passes) /\ seen' = {}
    BY <1>2, <2>2 DEF ConfigResolved, ClearWave, NoWave, Wave
  <2>3. QED  BY <1>1, <1>2, <2>1, <2>2 DEF ConfigResolved, TypeOK
<1>3. ASSUME NEW e \in Environments, BuildStart(e) PROVE TypeOK'
  BY <1>1, <1>3, BuildStartType
<1>4. ASSUME NEW e \in Environments, Awaited(e) PROVE TypeOK'
  BY <1>1, <1>4 DEF Awaited, TypeOK, Stages, plugin, history
<1>5. ASSUME NEW e \in Environments, BuildEnd(e) PROVE TypeOK'
  <2>1. wave' \in Wave /\ wave'.pass <= Len(passes)
    BY <1>1, <1>5 DEF BuildEnd, CloseWave, TypeOK, Wave, NoWave
  <2>2. QED  BY <1>1, <1>5, <2>1 DEF BuildEnd, TypeOK, Stages, history
<1>6. ASSUME NEW p \in DOMAIN passes, Read(p) \/ Settle(p) PROVE TypeOK'
  BY <1>1, <1>6, PassType
<1>7. CASE Edit
  BY <1>1, <1>7 DEF Edit, TypeOK, plugin, history
<1>8. CASE UNCHANGED vars
  BY <1>1, <1>8 DEF vars, TypeOK, plugin, history
<1>9. QED
  BY <1>1, <1>2, <1>3, <1>4, <1>5, <1>6, <1>7, <1>8 DEF Next

(* The plugin's wave and the passes keep their types.                      *)
THEOREM TypeCorrect == Spec => []TypeOK
BY InitType, NextType, PTL DEF Spec

-----------------------------------------------------------------------------
(* The wave is always the newest pass, and whoever has taken that pass is  *)
(* recorded as its consumer: this is what makes the consumed set a proof   *)
(* that a join gives a newer pass.  An environment that has built since    *)
(* configResolved is recorded in seen.                                     *)
WaveInv ==
  /\ base <= Len(passes)
  /\ \A e \in Environments : took[e] <= Len(passes)
  /\ wave = NoWave => seen = {} /\ base = Len(passes)
  /\ wave # NoWave =>
       /\ wave.pass = Len(passes) /\ wave.pass > base
       /\ wave.consumed \subseteq seen
       /\ \A e \in Environments : e \notin wave.consumed => took[e] < wave.pass
  /\ \A e \in Environments : e \in seen <=> builds[e] > 0
  /\ \A e \in seen : took[e] > base
  /\ OneGeneratePerWave

LEMMA BuildStartWave ==
  ASSUME TypeOK, WaveInv, NEW e \in Environments, BuildStart(e)
  PROVE  WaveInv' /\ took'[e] > took[e]
<1>1. /\ seen' = seen \cup {e} /\ base' = base
      /\ builds' = [builds EXCEPT ![e] = @ + 1]
      /\ builds'[e] = builds[e] + 1 /\ builds'[e] > 0
      /\ \A d \in Environments \ {e} : builds'[d] = builds[d]
  BY DEF BuildStart, TypeOK
<1>2. CASE JoinWave(e)
  <2>1. /\ wave # NoWave /\ e \notin wave.consumed
        /\ wave' = [wave EXCEPT !.consumed = @ \cup {e}]
        /\ took' = [took EXCEPT ![e] = wave.pass] /\ passes' = passes
    BY <1>2 DEF JoinWave, Joins
  <2>2. /\ wave'.pass = wave.pass /\ wave'.consumed = wave.consumed \cup {e}
        /\ took'[e] = wave.pass
        /\ \A d \in Environments \ {e} : took'[d] = took[d]
    BY <2>1 DEF TypeOK, Wave
  <2>3. wave' # NoWave
    BY <2>2 DEF NoWave
  <2>4. OneGeneratePerWave'
    <3>1. (\A d \in Environments : builds'[d] <= 1) => \A d \in Environments : builds[d] <= 1
      BY <1>1 DEF TypeOK
    <3>2. QED  BY <1>1, <2>1, <3>1 DEF OneGeneratePerWave, WaveInv
  <2>5. QED  BY <1>1, <2>1, <2>2, <2>3, <2>4 DEF WaveInv, TypeOK
<1>3. CASE BeginWave(e)
  <2>1. /\ Len(passes') = Len(passes) + 1
        /\ wave'.pass = Len(passes) + 1 /\ wave'.consumed = {e} /\ wave' # NoWave
        /\ took'[e] = Len(passes) + 1
        /\ \A d \in Environments \ {e} : took'[d] = took[d]
    BY <1>3 DEF BeginWave, TypeOK, NoWave
  <2>2. OneGeneratePerWave'
    <3>1. SUFFICES ASSUME builds'[e] <= 1 PROVE Len(passes') - base' <= 1
      BY DEF OneGeneratePerWave
    <3>2. e \notin seen
      BY <1>1, <3>1 DEF WaveInv, TypeOK
    <3>3. wave = NoWave
      BY <1>3, <3>2 DEF BeginWave, Joins, WaveInv
    <3>4. base = Len(passes) /\ Len(passes) \in Nat
      BY <3>3 DEF WaveInv, TypeOK
    <3>5. QED  BY <1>1, <2>1, <3>4
  <2>3. Len(passes) \in Nat /\ base <= Len(passes) /\ base \in Nat
    BY DEF TypeOK, WaveInv
  <2>4. /\ base' <= Len(passes')
        /\ wave'.pass = Len(passes') /\ wave'.pass > base'
        /\ wave'.consumed \subseteq seen'
    BY <1>1, <2>1, <2>3
  <2>5. \A d \in Environments : took[d] <= Len(passes) /\ took[d] \in Nat
    BY DEF TypeOK, WaveInv
  <2>6. /\ \A d \in Environments : took'[d] <= Len(passes')
        /\ \A d \in Environments : d \notin wave'.consumed => took'[d] < wave'.pass
        /\ took'[e] > took[e]
    BY <2>1, <2>3, <2>5
  <2>7. \A d \in seen' : took'[d] > base'
    BY <1>1, <2>1, <2>3 DEF WaveInv, TypeOK
  <2>8. \A d \in Environments : d \in seen' <=> builds'[d] > 0
    BY <1>1 DEF WaveInv
  <2>9. QED  BY <2>1, <2>2, <2>4, <2>6, <2>7, <2>8 DEF WaveInv
<1>4. QED  BY <1>2, <1>3 DEF BuildStart

LEMMA NextWave == TypeOK /\ WaveInv /\ [Next]_vars => WaveInv'
<1>1. SUFFICES ASSUME TypeOK, WaveInv, [Next]_vars PROVE WaveInv'
  OBVIOUS
<1>2. ASSUME UNCHANGED <<wave, seen, took, base, builds>>, Len(passes') = Len(passes)
      PROVE  WaveInv'
  BY <1>1, <1>2 DEF WaveInv, OneGeneratePerWave
<1>3. CASE ConfigResolved
  BY <1>1, <1>3 DEF ConfigResolved, ClearWave, WaveInv, OneGeneratePerWave, TypeOK
<1>4. ASSUME NEW e \in Environments, BuildStart(e) PROVE WaveInv'
  BY <1>1, <1>4, BuildStartWave
<1>5. ASSUME NEW e \in Environments, BuildEnd(e) PROVE WaveInv'
  <2>1. CASE wave = NoWave
    BY <1>2, <1>5, <2>1 DEF BuildEnd, CloseWave, history
  <2>2. CASE wave # NoWave
    <3>1. /\ wave'.pass = wave.pass /\ wave'.consumed = wave.consumed
          /\ UNCHANGED <<seen, took, base, builds, passes>>
      BY <1>1, <1>5, <2>2 DEF BuildEnd, CloseWave, history, TypeOK, Wave
    <3>2. wave' # NoWave
      BY <1>1, <2>2, <3>1 DEF WaveInv, NoWave, TypeOK
    <3>3. QED  BY <1>1, <2>2, <3>1, <3>2 DEF WaveInv, OneGeneratePerWave
  <2>3. QED  BY <2>1, <2>2
<1>6. ASSUME NEW e \in Environments, Awaited(e) PROVE WaveInv'
  BY <1>2, <1>6 DEF Awaited, plugin, history
<1>7. ASSUME NEW p \in DOMAIN passes, Read(p) \/ Settle(p) PROVE WaveInv'
  BY <1>1, <1>2, <1>7, PassType DEF Read, Settle, plugin, history
<1>8. CASE Edit \/ UNCHANGED vars
  BY <1>2, <1>8 DEF Edit, vars, plugin, history
<1>9. QED
  BY <1>1, <1>3, <1>4, <1>5, <1>6, <1>7, <1>8 DEF Next

LEMMA InitWave == Init => WaveInv
<1>1. SUFFICES ASSUME Init PROVE WaveInv
  OBVIOUS
<1>2. Len(passes) = 0
  BY <1>1 DEF Init
<1>3. QED  BY <1>1, <1>2 DEF Init, WaveInv, NoWave, OneGeneratePerWave

LEMMA WaveCorrect == Spec => []WaveInv
BY InitWave, NextWave, TypeCorrect, PTL DEF Spec

(* While each environment has built at most once since configResolved, one *)
(* generate serves them all.                                               *)
THEOREM OneGenerate == Spec => []OneGeneratePerWave
<1>1. WaveInv => OneGeneratePerWave
  BY DEF WaveInv
<1>2. QED  BY <1>1, WaveCorrect, PTL

(* No build after configResolved shares a pass started before it.          *)
THEOREM CleanConfiguration == Spec => []NewConfigNewPass
<1>1. WaveInv => NewConfigNewPass
  BY DEF WaveInv, NewConfigNewPass
<1>2. QED  BY <1>1, WaveCorrect, PTL

LEMMA PassesIncreaseStep ==
  ASSUME TypeOK, WaveInv, [Next]_vars, NEW e \in Environments,
         build[e] = "idle", build'[e] = "awaiting"
  PROVE  took'[e] > took[e]
<1>1. BuildStart(e)
  <2>1. build' # build
    OBVIOUS
  <2>2. PICK d \in Environments : BuildStart(d) \/ Awaited(d) \/ BuildEnd(d)
    BY <2>1 DEF Next, ConfigResolved, Read, Settle, Edit, vars, plugin, history
  <2>3. d = e
    BY <2>2 DEF BuildStart, Awaited, BuildEnd, TypeOK
  <2>4. QED  BY <2>2, <2>3 DEF Awaited, BuildEnd, TypeOK
<1>2. QED  BY <1>1, BuildStartWave

(* Every build of an environment takes a strictly newer pass than its      *)
(* previous build did.                                                     *)
THEOREM PassesIncrease == Spec => NeverSamePass
<1>1. TypeOK /\ WaveInv /\ [Next]_vars =>
        [\A e \in Environments :
           build[e] = "idle" /\ build'[e] = "awaiting" => took'[e] > took[e]]_vars
  BY PassesIncreaseStep
<1>2. QED  BY <1>1, TypeCorrect, WaveCorrect, PTL DEF Spec, NeverSamePass

LEMMA JoinServes ==
  ASSUME TypeOK, WaveInv, NEW e \in Environments, BuildStart(e), JoinWave(e)
  PROVE  Shared!ServeByStarted(e)
<1>1. /\ wave # NoWave /\ e \notin wave.consumed /\ passes' = passes
      /\ took' = [took EXCEPT ![e] = wave.pass] /\ base' = base
  BY DEF JoinWave, Joins, BuildStart
<1>2. /\ wave.pass \in Int /\ base \in Int /\ Len(passes) \in Int
      /\ wave.pass > base /\ wave.pass <= Len(passes) /\ took[e] < wave.pass
  BY <1>1 DEF WaveInv, TypeOK, Wave
<1>3. wave.pass \in base + 1 .. Len(passes) /\ wave.pass > took[e]
  BY <1>2 DEF TypeOK
<1>4. QED  BY <1>1, <1>3 DEF Shared!ServeByStarted

LEMMA SharedPassStep ==
  ASSUME TypeOK, WaveInv, [Next]_vars
  PROVE  [Shared!SharedNext]_(Shared!sharedVars)
<1>1. ASSUME UNCHANGED <<took, base>>, Len(passes') = Len(passes)
      PROVE  UNCHANGED Shared!sharedVars
  BY <1>1 DEF Shared!sharedVars
<1>2. CASE ConfigResolved
  BY <1>2 DEF ConfigResolved, Shared!SharedNext, Shared!NewConfiguration
<1>3. ASSUME NEW e \in Environments, BuildStart(e) PROVE Shared!SharedNext
  <2>1. CASE JoinWave(e)
    BY <1>3, <2>1, JoinServes DEF Shared!SharedNext
  <2>2. CASE BeginWave(e)
    <3>1. /\ Len(passes') = Len(passes) + 1 /\ base' = base
          /\ took' = [took EXCEPT ![e] = Len(passes) + 1]
      BY <1>3, <2>2 DEF BeginWave, BuildStart, TypeOK
    <3>2. QED  BY <3>1 DEF Shared!SharedNext, Shared!ServeByNew
  <2>3. QED  BY <1>3, <2>1, <2>2 DEF BuildStart
<1>4. ASSUME NEW e \in Environments, Awaited(e) \/ BuildEnd(e)
      PROVE  UNCHANGED Shared!sharedVars
  BY <1>1, <1>4 DEF Awaited, BuildEnd, history
<1>5. ASSUME NEW p \in DOMAIN passes, Read(p) \/ Settle(p)
      PROVE  UNCHANGED Shared!sharedVars
  BY <1>1, <1>5, PassType DEF Read, Settle, history
<1>6. CASE Edit \/ UNCHANGED vars
  BY <1>1, <1>6 DEF Edit, vars, history
<1>7. QED  BY <1>2, <1>3, <1>4, <1>5, <1>6 DEF Next

(* The wave protocol implements SharedPass: ClearWave is a new             *)
(* configuration, JoinWave serves a build by a started pass, BeginWave by  *)
(* a new one, and every other step leaves the abstract state unchanged.    *)
THEOREM WavesImplementSharedPass == Spec => SharedPassSpec
<1>1. Init => Shared!SharedInit
  BY DEF Init, Shared!SharedInit
<1>2. TypeOK /\ WaveInv /\ [Next]_vars => [Shared!SharedNext]_(Shared!sharedVars)
  BY SharedPassStep
<1>3. QED
  BY <1>1, <1>2, TypeCorrect, WaveCorrect, PTL
  DEF Spec, SharedPassSpec, Shared!SharedSpec

-----------------------------------------------------------------------------
(* A wave is open only while some build is under way, so a rebuild that    *)
(* starts alone begins a pass of its own; that pass reads the sources      *)
(* after the rebuild started.                                              *)
RebuildInv ==
  /\ wave # NoWave /\ ~ wave.closed => \E d \in Environments : build[d] # "idle"
  /\ \A e \in Environments : since[e] <= edits
  /\ \A e \in Environments : alone[e] => took[e] \in DOMAIN passes
  /\ RebuildSeesEdits

LEMMA BuildStartRebuild ==
  ASSUME TypeOK, RebuildInv, NEW e \in Environments, BuildStart(e)
  PROVE  RebuildInv'
<1>1. /\ build'[e] = "awaiting" /\ since'[e] = edits /\ edits' = edits
      /\ \A d \in Environments \ {e} : since'[d] = since[d] /\ alone'[d] = alone[d]
      /\ \A d \in Environments \ {e} : took'[d] = took[d]
      /\ edits \in Nat /\ Len(passes) \in Nat
  BY DEF BuildStart, JoinWave, BeginWave, TypeOK
<1>2. ASSUME alone'[e] PROVE BeginWave(e)
  <2>1. e \in seen /\ \A d \in Environments : build[d] = "idle"
    BY <1>2 DEF BuildStart, TypeOK
  <2>2. ~ Joins(e)
    BY <2>1 DEF RebuildInv, Joins
  <2>3. QED  BY <2>2 DEF BuildStart, JoinWave
<1>3. /\ DOMAIN passes \subseteq DOMAIN passes'
      /\ \A p \in DOMAIN passes : passes'[p] = passes[p]
  <2>1. CASE BeginWave(e)
    <3>1. passes' = Append(passes, [state |-> "pending", version |-> 0])
      BY <2>1 DEF BeginWave
    <3>2. /\ DOMAIN passes = 1..Len(passes) /\ Len(passes) \in Nat
          /\ Len(passes') = Len(passes) + 1 /\ DOMAIN passes' = 1..Len(passes')
      BY <3>1 DEF TypeOK
    <3>3. ASSUME NEW p \in 1..Len(passes) PROVE passes'[p] = passes[p]
      BY <3>1 DEF TypeOK
    <3>4. QED  BY <3>2, <3>3
  <2>2. QED  BY <2>1 DEF BuildStart, JoinWave
<1>4. ASSUME alone'[e]
      PROVE  took'[e] \in DOMAIN passes' /\ passes'[took'[e]].state = "pending"
  <2>1. took'[e] = Len(passes) + 1
    BY <1>2, <1>4 DEF BeginWave, TypeOK
  <2>2. passes' = Append(passes, [state |-> "pending", version |-> 0])
    BY <1>2, <1>4 DEF BeginWave
  <2>3. Len(passes') = Len(passes) + 1 /\ DOMAIN passes' = 1..Len(passes')
        /\ passes'[Len(passes) + 1] = [state |-> "pending", version |-> 0]
    BY <2>2 DEF TypeOK
  <2>4. QED  BY <1>1, <2>1, <2>3
<1>5. \A d \in Environments : since'[d] <= edits'
  BY <1>1 DEF RebuildInv
<1>6. \A d \in Environments : alone'[d] => took'[d] \in DOMAIN passes'
  BY <1>1, <1>3, <1>4 DEF RebuildInv
<1>7. RebuildSeesEdits'
  <2>1. SUFFICES ASSUME NEW d \in Environments, alone'[d],
                        passes'[took'[d]].state \in {"read", "ok"}
                 PROVE  passes'[took'[d]].version >= since'[d]
    BY DEF RebuildSeesEdits
  <2>2. d # e
    BY <1>4, <2>1
  <2>3. /\ alone[d] /\ took[d] \in DOMAIN passes
        /\ took'[d] = took[d] /\ since'[d] = since[d]
        /\ passes'[took'[d]] = passes[took[d]]
    BY <1>1, <1>3, <2>1, <2>2 DEF RebuildInv
  <2>4. QED  BY <2>1, <2>3 DEF RebuildInv, RebuildSeesEdits
<1>8. QED  BY <1>1, <1>5, <1>6, <1>7 DEF RebuildInv

LEMMA PassRebuild ==
  ASSUME TypeOK, RebuildInv, NEW p \in DOMAIN passes, Read(p) \/ Settle(p)
  PROVE  RebuildInv'
<1>1. UNCHANGED <<edits, wave, build, took, since, alone>>
  BY DEF Read, Settle, plugin, history
<1>2. /\ DOMAIN passes' = DOMAIN passes
      /\ \A q \in DOMAIN passes \ {p} : passes'[q] = passes[q]
  BY DEF Read, Settle, TypeOK
<1>3. \/ passes'[p].version = edits
      \/ passes'[p].version = passes[p].version /\ passes[p].state = "read"
      \/ passes'[p].state = "failed"
  <2>1. passes[p] \in Pass
    BY DEF TypeOK
  <2>2. CASE Read(p)
    BY <2>2 DEF Read, TypeOK
  <2>3. CASE Settle(p)
    BY <2>1, <2>3 DEF Settle, TypeOK, Pass
  <2>4. QED  BY <2>2, <2>3
<1>4. ASSUME NEW d \in Environments, alone[d],
             passes'[took[d]].state \in {"read", "ok"}
      PROVE  passes'[took[d]].version >= since[d]
  <2>1. since[d] <= edits /\ since[d] \in Nat /\ edits \in Nat /\ took[d] \in DOMAIN passes
    BY <1>4 DEF RebuildInv, TypeOK
  <2>2. CASE took[d] # p
    BY <1>2, <1>4, <2>1, <2>2 DEF RebuildInv, RebuildSeesEdits
  <2>3. CASE took[d] = p
    <3>1. passes[p].state = "read" => passes[p].version >= since[d]
      BY <1>4, <2>3 DEF RebuildInv, RebuildSeesEdits
    <3>2. QED  BY <1>3, <1>4, <2>1, <2>3, <3>1
  <2>4. QED  BY <2>2, <2>3
<1>5. RebuildSeesEdits'
  BY <1>1, <1>4 DEF RebuildSeesEdits
<1>6. QED  BY <1>1, <1>2, <1>5 DEF RebuildInv

LEMMA NextRebuild == TypeOK /\ RebuildInv /\ [Next]_vars => RebuildInv'
<1>1. SUFFICES ASSUME TypeOK, RebuildInv, [Next]_vars PROVE RebuildInv'
  OBVIOUS
<1>2. CASE ConfigResolved
  BY <1>1, <1>2 DEF ConfigResolved, ClearWave, RebuildInv, RebuildSeesEdits
<1>3. ASSUME NEW e \in Environments, BuildStart(e) PROVE RebuildInv'
  BY <1>1, <1>3, BuildStartRebuild
<1>4. ASSUME NEW e \in Environments, Awaited(e) PROVE RebuildInv'
  <2>1. build'[e] # "idle"
    BY <1>1, <1>4 DEF Awaited, TypeOK
  <2>2. UNCHANGED <<edits, wave, passes, took, since, alone>>
    BY <1>4 DEF Awaited, plugin, history
  <2>3. QED  BY <1>1, <2>1, <2>2 DEF RebuildInv, RebuildSeesEdits
<1>5. ASSUME NEW e \in Environments, BuildEnd(e) PROVE RebuildInv'
  <2>1. wave' = NoWave \/ wave'.closed
    BY <1>1, <1>5 DEF BuildEnd, CloseWave, TypeOK, Wave
  <2>2. UNCHANGED <<edits, passes, took, since, alone>>
    BY <1>5 DEF BuildEnd, history
  <2>3. QED  BY <1>1, <2>1, <2>2 DEF RebuildInv, RebuildSeesEdits
<1>6. ASSUME NEW p \in DOMAIN passes, Read(p) \/ Settle(p) PROVE RebuildInv'
  BY <1>1, <1>6, PassRebuild
<1>7. CASE Edit
  <2>1. UNCHANGED <<wave, build, passes, took, since, alone>>
    BY <1>7 DEF Edit, plugin, history
  <2>2. edits' = edits + 1 /\ edits \in Nat /\ \A e \in Environments : since[e] \in Nat
    BY <1>1, <1>7 DEF Edit, TypeOK
  <2>3. QED  BY <1>1, <2>1, <2>2 DEF RebuildInv, RebuildSeesEdits
<1>8. CASE UNCHANGED vars
  BY <1>1, <1>8 DEF vars, plugin, history, RebuildInv, RebuildSeesEdits
<1>9. QED
  BY <1>1, <1>2, <1>3, <1>4, <1>5, <1>6, <1>7, <1>8 DEF Next

LEMMA InitRebuild == Init => RebuildInv
BY DEF Init, RebuildInv, RebuildSeesEdits, NoWave

(* A rebuild that starts while no build is under way gets a pass that read *)
(* the sources after every edit made before the rebuild.                   *)
THEOREM RebuildFresh == Spec => []RebuildSeesEdits
<1>1. RebuildInv => RebuildSeesEdits
  BY DEF RebuildInv
<1>2. QED  BY <1>1, InitRebuild, NextRebuild, TypeCorrect, PTL DEF Spec

-----------------------------------------------------------------------------
(* The dev server, and the plugin as a whole: Vite                         *)

USE ServerAssumption

WatcherStates == {"starting", "on", "closing", "off", "failed"}
ServerStages == {"absent", "created", "configuring", "up", "closing", "closed", "failed"}
Server == [stage : ServerStages, http : BOOLEAN, listener : BOOLEAN,
           over : {0} \cup Servers, left : SUBSET {"close", "closeBundle"},
           ends : SUBSET Environments, waits : SUBSET Nat]

ServerTypeOK ==
  /\ dev \in BOOLEAN
  /\ watchers \in Seq(WatcherStates)
  /\ controller \in 0..Len(watchers)
  /\ server \in [Servers -> Server]
  /\ starter \in [Servers -> 0..Len(watchers)]

Gone(s) == server[s].stage \in {"closed", "failed"}
New(s) == server[s].stage \in {"created", "configuring"}

(* Servers follow one another: besides the newest one only the server that *)
(* it replaces is not gone, and that one stays up until the newest is up,  *)
(* and is closed before it.                                                *)
OrderInv ==
  /\ \A s, r \in Servers : server[s].stage # "absent" /\ r < s =>
       Gone(r) \/ r = server[s].over
  /\ \A s \in Servers : server[s].over # 0 =>
       /\ server[s].over < s
       /\ server[server[s].over].stage \in {"up", "closing", "closed"}
  /\ \A s \in Servers : New(s) /\ server[s].over # 0 =>
       server[server[s].over].stage = "up"
  /\ \A s, r \in Servers : server[s].stage \in {"closing", "closed"} /\ r < s => Gone(r)
  /\ \A s \in Servers :
       server[s].left # {} \/ server[s].ends # {} => server[s].stage = "closing"

(* The watcher that the plugin holds is the only one that is on, and the   *)
(* server that started it is up, or closing with closeBundle still to run. *)
(* A watcher that is starting is awaited by the server that is being       *)
(* configured, and meanwhile the plugin holds none.                        *)
WatcherInv ==
  /\ \A s \in Servers : server[s].stage = "configuring" =>
       controller = 0 /\ starter[s] # 0 /\ watchers[starter[s]] = "starting"
  /\ controller # 0 =>
       /\ watchers[controller] = "on"
       /\ \E s \in Servers :
            /\ starter[s] = controller
            /\ \/ server[s].stage = "up"
               \/ server[s].stage = "closing" /\ "closeBundle" \in server[s].left
  /\ \A w \in DOMAIN watchers : watchers[w] = "on" => w = controller
  /\ \A w \in DOMAIN watchers : watchers[w] = "starting" =>
       \E s \in Servers : server[s].stage = "configuring" /\ starter[s] = w
  /\ \A s \in Up : server[s].over \in {0} \cup Up => controller # 0

(* A process that serves starts no pass, one that builds has no server.    *)
ModeInv ==
  IF dev THEN passes = <<>> /\ wave = NoWave
         ELSE \A s \in Servers : server[s].stage = "absent"

ServerInv == OrderInv /\ WatcherInv /\ ModeInv

LEMMA ServerInit == ViteInit => ServerTypeOK /\ ServerInv
<1>1. SUFFICES ASSUME ViteInit PROVE ServerTypeOK /\ ServerInv
  OBVIOUS
<1>2. /\ Absent \in Server /\ Absent.stage = "absent"
      /\ Absent.left = {} /\ Absent.ends = {} /\ Absent.over = 0
  BY DEF Absent, Server, ServerStages
<1>3. ServerTypeOK
  BY <1>1, <1>2 DEF ViteInit, ServerTypeOK
<1>4. passes = <<>> /\ wave = NoWave /\ watchers = <<>> /\ controller = 0
  BY <1>1 DEF ViteInit, Init
<1>5. \A s \in Servers : /\ server[s].stage = "absent" /\ server[s].over = 0
                         /\ server[s].left = {} /\ server[s].ends = {}
  BY <1>1, <1>2 DEF ViteInit
<1>6. OrderInv
  BY <1>5 DEF OrderInv, New
<1>7. WatcherInv /\ ModeInv
  BY <1>4, <1>5 DEF WatcherInv, ModeInv, Up
<1>8. QED  BY <1>3, <1>6, <1>7 DEF ServerInv

(* While a server is being set up, the only other one that is not gone is  *)
(* the one it replaces, which is up.                                       *)
LEMMA Newest ==
  ASSUME OrderInv, NEW s \in Servers, New(s), NEW r \in Servers, r # s
  PROVE  server[r].stage \notin {"created", "configuring", "closing"}
<1>1. s \in Nat /\ r \in Nat /\ ~ Gone(s) /\ s # 0 /\ r # 0 /\ server[s].stage # "absent"
  BY DEF Servers, Gone, New
<1>2. CASE r < s
  <2>1. Gone(r) \/ r = server[s].over
    BY <1>1, <1>2 DEF OrderInv
  <2>2. CASE Gone(r)
    BY <2>2 DEF Gone
  <2>3. CASE r = server[s].over
    <3>1. server[s].over # 0
      BY <1>1, <2>3
    <3>2. server[server[s].over].stage = "up"
      BY <3>1 DEF OrderInv
    <3>3. QED  BY <2>3, <3>2
  <2>4. QED  BY <2>1, <2>2, <2>3
<1>3. CASE s < r
  <2>1. server[r].stage = "absent" \/ s = server[r].over
    BY <1>1, <1>3 DEF OrderInv
  <2>2. s # server[r].over
    <3>1. SUFFICES ASSUME s = server[r].over PROVE FALSE
      OBVIOUS
    <3>2. server[server[r].over].stage \in {"up", "closing", "closed"}
      BY <1>1, <3>1 DEF OrderInv
    <3>3. QED  BY <3>1, <3>2 DEF New
  <2>3. QED  BY <2>1, <2>2
<1>4. QED  BY <1>1, <1>2, <1>3

(* While a server is closing, the only other one that is not gone is the   *)
(* one that replaces it, which is up.                                      *)
LEMMA Oldest ==
  ASSUME OrderInv, NEW s \in Servers, server[s].stage = "closing",
         NEW r \in Servers, r # s
  PROVE  /\ server[r].stage \notin {"created", "configuring", "closing"}
         /\ server[r].stage = "up" => server[r].over = s
<1>1. s \in Nat /\ r \in Nat /\ ~ Gone(s) /\ s # 0
  BY DEF Servers, Gone
<1>2. CASE r < s
  <2>1. Gone(r)
    BY <1>2 DEF OrderInv
  <2>2. QED  BY <2>1 DEF Gone
<1>3. CASE s < r
  <2>1. server[r].stage = "absent" \/ server[r].over = s
    BY <1>1, <1>3 DEF OrderInv
  <2>2. server[r].stage # "closing"
    BY <1>1, <1>3 DEF OrderInv
  <2>3. ~ New(r)
    <3>1. SUFFICES ASSUME New(r) PROVE FALSE
      OBVIOUS
    <3>2. server[r].over = s /\ server[r].over # 0
      BY <1>1, <2>1, <3>1 DEF New
    <3>3. server[server[r].over].stage = "up"
      BY <3>1, <3>2 DEF OrderInv
    <3>4. QED  BY <3>2, <3>3
  <2>4. QED  BY <2>1, <2>2, <2>3 DEF New
<1>4. QED  BY <1>1, <1>2, <1>3

(* A step of a server that is there keeps the succession, when it goes on  *)
(* in order and closes after the servers before it.                        *)
LEMMA OrderStep ==
  ASSUME ServerTypeOK, OrderInv, NEW s \in Servers, NEW after \in Server,
         server' = [server EXCEPT ![s] = after], after.over = server[s].over,
         server[s].stage # "absent", ~ Gone(s), after.stage # "absent",
         after.stage \in {"created", "configuring"} => New(s),
         server[s].stage \in {"up", "closing"} => after.stage \in {"up", "closing", "closed"},
         after.stage \in {"closing", "closed"} =>
           \A r \in Servers : r < s => Gone(r),
         server[s].stage = "up" /\ after.stage # "up" =>
           \A r \in Servers : r > s => ~ New(r),
         after.left # {} \/ after.ends # {} => after.stage = "closing"
  PROVE  /\ OrderInv'
         /\ server' \in [Servers -> Server] /\ server'[s] = after
         /\ \A r \in Servers : r # s => server'[r] = server[r]
<1>1. /\ server' \in [Servers -> Server] /\ server'[s] = after
      /\ \A r \in Servers : r # s => server'[r] = server[r]
  BY DEF ServerTypeOK
<1>2. \A r \in Servers : /\ server'[r].over = server[r].over
                         /\ Gone(r) => Gone(r)'
                         /\ server'[r].stage = "absent" <=> server[r].stage = "absent"
  BY <1>1 DEF Gone
<1>3. \A t, r \in Servers : server'[t].stage # "absent" /\ r < t =>
        Gone(r)' \/ r = server'[t].over
  BY <1>2 DEF OrderInv
<1>4. ASSUME NEW t \in Servers, server'[t].over # 0
      PROVE  /\ server'[t].over < t
             /\ server'[server'[t].over].stage \in {"up", "closing", "closed"}
  <2>1. PICK p \in Servers : p = server[t].over
    BY <1>2, <1>4 DEF ServerTypeOK, Server
  <2>2. p < t /\ server[p].stage \in {"up", "closing", "closed"}
    BY <1>2, <1>4, <2>1 DEF OrderInv
  <2>3. server'[p].stage \in {"up", "closing", "closed"}
    BY <1>1, <2>2 DEF Gone
  <2>4. QED  BY <1>2, <2>1, <2>2, <2>3
<1>5. ASSUME NEW t \in Servers, New(t)', server'[t].over # 0
      PROVE  server'[server'[t].over].stage = "up"
  <2>1. PICK p \in Servers : p = server[t].over
    BY <1>2, <1>5 DEF ServerTypeOK, Server
  <2>2. New(t)
    BY <1>1, <1>5 DEF New
  <2>3. p < t /\ server[p].stage = "up"
    BY <1>2, <1>5, <2>1, <2>2 DEF OrderInv
  <2>4. server'[p].stage = "up"
    <3>1. CASE p = s
      BY <1>1, <2>2, <2>3, <3>1 DEF Servers
    <3>2. CASE p # s
      BY <1>1, <2>3, <3>2
    <3>3. QED  BY <3>1, <3>2
  <2>5. QED  BY <1>2, <2>1, <2>4
<1>6. \A t, r \in Servers : server'[t].stage \in {"closing", "closed"} /\ r < t => Gone(r)'
  <2>1. SUFFICES ASSUME NEW t \in Servers, NEW r \in Servers, r < t,
                        server'[t].stage \in {"closing", "closed"}
                 PROVE  Gone(r)
    BY <1>2
  <2>2. QED  BY <1>1, <2>1 DEF OrderInv
<1>7. \A t \in Servers : server'[t].left # {} \/ server'[t].ends # {} =>
        server'[t].stage = "closing"
  BY <1>1 DEF OrderInv
<1>8. QED  BY <1>1, <1>3, <1>4, <1>5, <1>6, <1>7 DEF OrderInv

LEMMA CreateServerStep ==
  ASSUME ServerTypeOK, ServerInv, NEW s \in Servers, CreateServer(s)
  PROVE  ServerTypeOK' /\ ServerInv'
<1>1. PICK http \in BOOLEAN : \E over \in {0} \cup Servers :
        /\ Up = {over} \ {0}
        /\ server' = [server EXCEPT ![s] = [Absent EXCEPT !.stage = "created",
                                              !.http = http, !.over = over]]
  BY DEF CreateServer
<1>2. PICK over \in {0} \cup Servers :
        /\ Up = {over} \ {0}
        /\ server' = [server EXCEPT ![s] = [Absent EXCEPT !.stage = "created",
                                              !.http = http, !.over = over]]
  BY <1>1
<1>3. PICK after \in Server :
        /\ server' = [server EXCEPT ![s] = after]
        /\ after.stage = "created" /\ after.over = over
        /\ after.left = {} /\ after.ends = {}
  <2>1. [Absent EXCEPT !.stage = "created", !.http = http, !.over = over] \in Server
    BY DEF Absent, Server, ServerStages
  <2>2. QED  BY <1>2, <2>1 DEF Absent
<1>4. /\ server' \in [Servers -> Server] /\ server'[s] = after
      /\ \A r \in Servers : r # s => server'[r] = server[r]
  BY <1>3 DEF ServerTypeOK
<1>5. /\ server[s].stage = "absent" /\ dev
      /\ \A r \in 1..(s - 1) : server[r].stage \in {"up", "closed", "failed"}
      /\ dev' = dev /\ watchers' = watchers /\ controller' = controller
      /\ starter' = starter /\ passes' = passes /\ wave' = NoWave
  BY DEF CreateServer, ConfigResolved, ClearWave
<1>6. OrderInv /\ WatcherInv /\ ModeInv
  BY DEF ServerInv
<1>7. \A r \in Servers : r > s => server[r].stage = "absent"
  <2>1. SUFFICES ASSUME NEW r \in Servers, r > s, server[r].stage # "absent" PROVE FALSE
    OBVIOUS
  <2>2. Gone(s) \/ s = server[r].over
    BY <1>6, <2>1 DEF OrderInv, Servers
  <2>3. s = server[r].over /\ s # 0
    BY <1>5, <2>2 DEF Gone, Servers
  <2>4. server[server[r].over].stage \in {"up", "closing", "closed"}
    BY <1>6, <2>3 DEF OrderInv
  <2>5. QED  BY <1>5, <2>3, <2>4
<1>8. over # 0 => over \in Servers /\ over < s /\ over # s /\ server[over].stage = "up"
  <2>1. SUFFICES ASSUME over # 0 PROVE over \in Up /\ over < s /\ over # s
    BY DEF Up
  <2>2. over \in Up
    BY <1>2, <2>1
  <2>3. over # s /\ ~ (over > s)
    BY <1>5, <1>7, <2>2 DEF Up
  <2>4. QED  BY <2>2, <2>3 DEF Up, Servers
<1>9. \A r \in Servers : server[r].over # s
  BY <1>5, <1>6 DEF OrderInv, Servers
<1>10. \A r \in Servers : r < s => Gone(r) \/ r = over
  <2>1. SUFFICES ASSUME NEW r \in Servers, r < s PROVE Gone(r) \/ r = over
    OBVIOUS
  <2>2. r \in 1..(s - 1)
    BY <2>1 DEF Servers
  <2>3. Gone(r) \/ r \in Up
    BY <1>5, <2>2 DEF Gone, Up
  <2>4. QED  BY <1>2, <2>3
<1>11. OrderInv'
  <2>1. \A r \in Servers : Gone(r) => Gone(r)'
    BY <1>4, <1>5 DEF Gone
  <2>2. \A t, r \in Servers : server'[t].stage # "absent" /\ r < t =>
          Gone(r)' \/ r = server'[t].over
    BY <1>3, <1>4, <1>6, <1>10, <2>1 DEF OrderInv
  <2>3. ASSUME NEW t \in Servers, server'[t].over # 0
        PROVE  /\ server'[t].over < t
               /\ server'[server'[t].over].stage \in {"up", "closing", "closed"}
    <3>1. CASE t = s
      <4>1. server'[t].over = over /\ over # 0
        BY <1>3, <1>4, <2>3, <3>1
      <4>2. over < t /\ server'[over].stage = "up"
        BY <1>4, <1>8, <3>1, <4>1
      <4>3. QED  BY <4>1, <4>2
    <3>2. CASE t # s
      <4>1. PICK p \in Servers : p = server[t].over /\ p # s
        BY <1>4, <1>9, <2>3, <3>2 DEF ServerTypeOK, Server
      <4>2. p < t /\ server[p].stage \in {"up", "closing", "closed"}
        BY <1>4, <1>6, <2>3, <3>2, <4>1 DEF OrderInv
      <4>3. QED  BY <1>4, <3>2, <4>1, <4>2
    <3>3. QED  BY <3>1, <3>2
  <2>4. ASSUME NEW t \in Servers, New(t)', server'[t].over # 0
        PROVE  server'[server'[t].over].stage = "up"
    <3>1. CASE t = s
      <4>1. server'[t].over = over /\ over # 0
        BY <1>3, <1>4, <2>4, <3>1
      <4>2. QED  BY <1>4, <1>8, <4>1
    <3>2. CASE t # s
      <4>1. PICK p \in Servers : p = server[t].over /\ p # s
        BY <1>4, <1>9, <2>4, <3>2 DEF ServerTypeOK, Server
      <4>2. New(t) /\ server[p].stage = "up"
        BY <1>4, <1>6, <2>4, <3>2, <4>1 DEF OrderInv, New
      <4>3. QED  BY <1>4, <3>2, <4>1, <4>2
    <3>3. QED  BY <3>1, <3>2
  <2>5. \A t, r \in Servers : server'[t].stage \in {"closing", "closed"} /\ r < t => Gone(r)'
    BY <1>3, <1>4, <1>6, <2>1 DEF OrderInv
  <2>6. \A t \in Servers : server'[t].left # {} \/ server'[t].ends # {} =>
          server'[t].stage = "closing"
    BY <1>3, <1>4, <1>6 DEF OrderInv
  <2>7. QED  BY <2>2, <2>3, <2>4, <2>5, <2>6 DEF OrderInv
<1>12. Up' = Up
  BY <1>3, <1>4, <1>5 DEF Up
<1>13. WatcherInv'
  <2>1. controller # 0 => \E r \in Servers :
          /\ starter[r] = controller /\ r # s
          /\ \/ server[r].stage = "up"
             \/ server[r].stage = "closing" /\ "closeBundle" \in server[r].left
    BY <1>5, <1>6 DEF WatcherInv
  <2>2. \A w \in DOMAIN watchers : watchers[w] = "starting" =>
          \E r \in Servers : server[r].stage = "configuring" /\ starter[r] = w /\ r # s
    BY <1>5, <1>6 DEF WatcherInv
  <2>3. \A r \in Servers : server'[r].stage = "configuring" =>
          server[r].stage = "configuring"
    BY <1>3, <1>4
  <2>4. \A r \in Up' : server'[r].over \in {0} \cup Up' => controller' # 0
    BY <1>4, <1>5, <1>6, <1>12 DEF WatcherInv, Up
  <2>5. QED  BY <1>4, <1>5, <1>6, <2>1, <2>2, <2>3, <2>4 DEF WatcherInv
<1>14. ModeInv'
  BY <1>5, <1>6 DEF ModeInv
<1>15. QED
  BY <1>4, <1>5, <1>11, <1>13, <1>14 DEF ServerTypeOK, ServerInv

LEMMA ConfigureServerStep ==
  ASSUME ServerTypeOK, ServerInv, NEW s \in Servers, ConfigureServer(s)
  PROVE  ServerTypeOK' /\ ServerInv'
<1>1. /\ server[s] \in Server /\ server[s].stage = "created" /\ New(s) /\ ~ Gone(s)
      /\ server[s].left = {} /\ server[s].ends = {}
      /\ OrderInv /\ WatcherInv /\ ModeInv
      /\ dev' = dev /\ controller' = controller /\ passes' = passes /\ wave' = wave
  BY DEF ConfigureServer, ServerTypeOK, ServerInv, OrderInv, Gone, New, waveVars, vars, plugin
<1>2. \A r \in Servers : r # s =>
        server[r].stage \notin {"created", "configuring", "closing"}
  BY <1>1, Newest
<1>3. CASE controller # 0
  <2>1. PICK after \in Server :
          /\ server' = [server EXCEPT ![s] = after] /\ after.stage = "up"
          /\ after.over = server[s].over /\ after.left = {} /\ after.ends = {}
    <3>1. /\ [server[s] EXCEPT !.stage = "up"] \in Server
          /\ server' = [server EXCEPT ![s] = [server[s] EXCEPT !.stage = "up"]]
      BY <1>1, <1>3 DEF ConfigureServer, Server, ServerStages
    <3>2. QED  BY <1>1, <3>1 DEF Server
  <2>2. watchers' = watchers /\ starter' = starter
    BY <1>3 DEF ConfigureServer
  <2>3. /\ OrderInv' /\ server' \in [Servers -> Server] /\ server'[s] = after
        /\ \A r \in Servers : r # s => server'[r] = server[r]
    BY <1>1, <2>1, OrderStep
  <2>4. \E r \in Servers :
          /\ starter[r] = controller /\ r # s
          /\ \/ server[r].stage = "up"
             \/ server[r].stage = "closing" /\ "closeBundle" \in server[r].left
    BY <1>1, <1>3 DEF WatcherInv
  <2>5. \A r \in Servers : server'[r].stage # "configuring"
    BY <1>2, <2>1, <2>3
  <2>6. \A w \in DOMAIN watchers : watchers[w] # "starting"
    BY <1>1, <1>2 DEF WatcherInv
  <2>7. WatcherInv'
    BY <1>1, <1>3, <2>2, <2>3, <2>4, <2>5, <2>6 DEF WatcherInv
  <2>8. ModeInv'
    BY <1>1 DEF ModeInv
  <2>9. QED  BY <1>1, <2>2, <2>3, <2>7, <2>8 DEF ServerTypeOK, ServerInv
<1>4. CASE controller = 0
  <2>1. PICK after \in Server :
          /\ server' = [server EXCEPT ![s] = after] /\ after.stage = "configuring"
          /\ after.over = server[s].over /\ after.left = {} /\ after.ends = {}
    <3>1. /\ [server[s] EXCEPT !.stage = "configuring"] \in Server
          /\ server' = [server EXCEPT ![s] = [server[s] EXCEPT !.stage = "configuring"]]
      BY <1>1, <1>4 DEF ConfigureServer, Server, ServerStages
    <3>2. QED  BY <1>1, <3>1 DEF Server
  <2>2. /\ watchers' = Append(watchers, "starting")
        /\ starter' = [starter EXCEPT ![s] = Len(watchers) + 1]
    BY <1>4 DEF ConfigureServer
  <2>3. /\ OrderInv' /\ server' \in [Servers -> Server] /\ server'[s] = after
        /\ \A r \in Servers : r # s => server'[r] = server[r]
    BY <1>1, <2>1, OrderStep
  <2>4. /\ Len(watchers') = Len(watchers) + 1 /\ watchers' \in Seq(WatcherStates)
        /\ watchers'[Len(watchers) + 1] = "starting"
        /\ \A w \in DOMAIN watchers : watchers'[w] = watchers[w]
        /\ DOMAIN watchers = 1..Len(watchers) /\ Len(watchers) \in Nat
        /\ DOMAIN watchers' = 1..(Len(watchers) + 1)
    BY <2>2 DEF ServerTypeOK, WatcherStates
  <2>5. /\ starter' \in [Servers -> 0..Len(watchers')]
        /\ starter'[s] = Len(watchers) + 1
    BY <2>2, <2>4 DEF ServerTypeOK
  <2>6. \A w \in DOMAIN watchers : watchers[w] \notin {"starting", "on"}
    BY <1>1, <1>2, <1>4, <2>4 DEF WatcherInv
  <2>7. \A w \in DOMAIN watchers' :
          watchers'[w] \in {"starting", "on"} => w = Len(watchers) + 1
    <3>1. \A w \in DOMAIN watchers' : w \in DOMAIN watchers \/ w = Len(watchers) + 1
      BY <2>4
    <3>2. QED  BY <2>4, <2>6, <3>1
  <2>8. \A r \in Servers : server'[r].stage = "configuring" => r = s
    BY <1>2, <2>3
  <2>9. Up' = Up /\ \A r \in Up : server'[r].over = server[r].over
    BY <1>1, <2>1, <2>3 DEF Up
  <2>10. WatcherInv'
    <3>1. \A r \in Up' : server'[r].over \in {0} \cup Up' => controller' # 0
      BY <1>1, <2>9 DEF WatcherInv
    <3>2. QED  BY <1>1, <1>4, <2>1, <2>3, <2>4, <2>5, <2>7, <2>8, <3>1 DEF WatcherInv
  <2>11. ModeInv'
    BY <1>1 DEF ModeInv
  <2>12. QED  BY <1>1, <1>4, <2>3, <2>4, <2>5, <2>10, <2>11 DEF ServerTypeOK, ServerInv
<1>5. QED  BY <1>3, <1>4

LEMMA WatchReadyStep ==
  ASSUME ServerTypeOK, ServerInv, NEW s \in Servers, WatchReady(s)
  PROVE  ServerTypeOK' /\ ServerInv'
<1>1. /\ server[s] \in Server /\ server[s].stage = "configuring" /\ New(s) /\ ~ Gone(s)
      /\ server[s].left = {} /\ server[s].ends = {}
      /\ OrderInv /\ WatcherInv /\ ModeInv
      /\ starter' = starter /\ dev' = dev /\ passes' = passes /\ wave' = wave
  BY DEF WatchReady, ServerTypeOK, ServerInv, OrderInv, Gone, New, waveVars, vars, plugin
<1>2. \A r \in Servers : r # s =>
        server[r].stage \notin {"created", "configuring", "closing"}
  BY <1>1, Newest
<1>3. controller = 0 /\ starter[s] \in 1..Len(watchers) /\ watchers[starter[s]] = "starting"
  BY <1>1 DEF WatcherInv, ServerTypeOK
<1>4. PICK after \in Server :
        /\ server' = [server EXCEPT ![s] = after] /\ after.stage = "up"
        /\ after.over = server[s].over /\ after.left = {} /\ after.ends = {}
  <2>1. /\ [server[s] EXCEPT !.stage = "up", !.listener = server[s].http] \in Server
        /\ server' = [server EXCEPT ![s] =
                        [server[s] EXCEPT !.stage = "up", !.listener = server[s].http]]
    BY <1>1 DEF WatchReady, Server, ServerStages
  <2>2. QED  BY <1>1, <2>1 DEF Server
<1>5. /\ OrderInv' /\ server' \in [Servers -> Server] /\ server'[s] = after
      /\ \A r \in Servers : r # s => server'[r] = server[r]
  BY <1>1, <1>4, OrderStep
<1>6. /\ watchers' = [watchers EXCEPT ![starter[s]] = "on"]
      /\ controller' = starter[s]
  BY DEF WatchReady
<1>7. /\ Len(watchers') = Len(watchers) /\ watchers' \in Seq(WatcherStates)
      /\ DOMAIN watchers' = DOMAIN watchers /\ DOMAIN watchers = 1..Len(watchers)
      /\ watchers'[starter[s]] = "on"
      /\ \A w \in DOMAIN watchers : w # starter[s] => watchers'[w] = watchers[w]
  BY <1>3, <1>6 DEF ServerTypeOK, WatcherStates
<1>8. \A r \in Servers : server'[r].stage # "configuring"
  BY <1>2, <1>4, <1>5
<1>9. \A w \in DOMAIN watchers : watchers[w] \in {"starting", "on"} => w = starter[s]
  BY <1>2, <1>3, <1>1, <1>7 DEF WatcherInv
<1>10. WatcherInv'
  BY <1>1, <1>3, <1>4, <1>5, <1>6, <1>7, <1>8, <1>9 DEF WatcherInv
<1>11. ModeInv'
  BY <1>1 DEF ModeInv
<1>12. QED  BY <1>1, <1>3, <1>5, <1>6, <1>7, <1>10, <1>11 DEF ServerTypeOK, ServerInv

LEMMA WatchRejectsStep ==
  ASSUME ServerTypeOK, ServerInv, NEW s \in Servers, WatchRejects(s)
  PROVE  ServerTypeOK' /\ ServerInv'
<1>1. /\ server[s] \in Server /\ server[s].stage = "configuring" /\ New(s) /\ ~ Gone(s)
      /\ server[s].left = {} /\ server[s].ends = {}
      /\ OrderInv /\ WatcherInv /\ ModeInv
      /\ starter' = starter /\ dev' = dev /\ controller' = controller
      /\ passes' = passes /\ wave' = wave
  BY DEF WatchRejects, ServerTypeOK, ServerInv, OrderInv, Gone, New, waveVars, vars, plugin
<1>2. \A r \in Servers : r # s =>
        server[r].stage \notin {"created", "configuring", "closing"}
  BY <1>1, Newest
<1>3. controller = 0 /\ starter[s] \in 1..Len(watchers) /\ watchers[starter[s]] = "starting"
  BY <1>1 DEF WatcherInv, ServerTypeOK
<1>4. PICK after \in Server :
        /\ server' = [server EXCEPT ![s] = after] /\ after.stage = "failed"
        /\ after.over = server[s].over /\ after.left = {} /\ after.ends = {}
  <2>1. /\ [server[s] EXCEPT !.stage = "failed"] \in Server
        /\ server' = [server EXCEPT ![s] = [server[s] EXCEPT !.stage = "failed"]]
    BY <1>1 DEF WatchRejects, Server, ServerStages
  <2>2. QED  BY <1>1, <2>1 DEF Server
<1>5. /\ OrderInv' /\ server' \in [Servers -> Server] /\ server'[s] = after
      /\ \A r \in Servers : r # s => server'[r] = server[r]
  BY <1>1, <1>4, OrderStep
<1>6. watchers' = [watchers EXCEPT ![starter[s]] = "failed"]
  BY DEF WatchRejects
<1>7. /\ Len(watchers') = Len(watchers) /\ watchers' \in Seq(WatcherStates)
      /\ DOMAIN watchers' = DOMAIN watchers /\ DOMAIN watchers = 1..Len(watchers)
      /\ watchers'[starter[s]] = "failed"
      /\ \A w \in DOMAIN watchers : w # starter[s] => watchers'[w] = watchers[w]
  BY <1>3, <1>6 DEF ServerTypeOK, WatcherStates
<1>8. \A r \in Servers : server'[r].stage # "configuring"
  BY <1>2, <1>4, <1>5
<1>9. \A w \in DOMAIN watchers : watchers'[w] \notin {"starting", "on"}
  BY <1>2, <1>3, <1>1, <1>7 DEF WatcherInv
<1>10. Up' = Up /\ \A r \in Up : server'[r].over = server[r].over
  BY <1>1, <1>4, <1>5 DEF Up
<1>11. WatcherInv'
  <2>1. \A r \in Up' : server'[r].over \in {0} \cup Up' => controller' # 0
    BY <1>1, <1>10 DEF WatcherInv
  <2>2. QED  BY <1>1, <1>3, <1>7, <1>8, <1>9, <2>1 DEF WatcherInv
<1>12. ModeInv'
  BY <1>1 DEF ModeInv
<1>13. QED  BY <1>1, <1>5, <1>7, <1>11, <1>12 DEF ServerTypeOK, ServerInv

LEMMA CloseServerStep ==
  ASSUME ServerTypeOK, ServerInv, NEW s \in Servers, CloseServer(s)
  PROVE  ServerTypeOK' /\ ServerInv'
<1>1. /\ server[s] \in Server /\ server[s].stage = "up" /\ ~ New(s) /\ ~ Gone(s)
      /\ OrderInv /\ WatcherInv /\ ModeInv
      /\ starter' = starter /\ dev' = dev /\ controller' = controller
      /\ watchers' = watchers /\ passes' = passes /\ wave' = wave
  BY DEF CloseServer, ServerTypeOK, ServerInv, Gone, New, waveVars, vars, plugin
<1>2. /\ \A r \in Servers : r < s => Gone(r)
      /\ \A r \in Servers : r > s => ~ New(r)
  <2>1. /\ \A r \in Servers : r < s => r \in 1..(s - 1)
        /\ \A r \in Servers : r > s => r \in (s + 1)..MaxServers
    BY DEF Servers
  <2>2. QED  BY <2>1 DEF CloseServer, Gone, New
<1>3. PICK after \in Server :
        /\ server' = [server EXCEPT ![s] = after] /\ after.stage = "closing"
        /\ after.over = server[s].over /\ "closeBundle" \in after.left
  <2>1. PICK left \in SUBSET {"close", "closeBundle"} :
          /\ "closeBundle" \in left
          /\ server' = [server EXCEPT ![s] = [server[s] EXCEPT !.stage = "closing",
                          !.ends = Environments, !.left = left]]
    <3>1. {"closeBundle"} \cup (IF server[s].listener THEN {"close"} ELSE {})
            \in SUBSET {"close", "closeBundle"}
      OBVIOUS
    <3>2. QED  BY <3>1 DEF CloseServer
  <2>2. [server[s] EXCEPT !.stage = "closing", !.ends = Environments, !.left = left]
          \in Server
    BY <1>1 DEF Server, ServerStages
  <2>3. QED  BY <1>1, <2>1, <2>2 DEF Server
<1>4. /\ OrderInv' /\ server' \in [Servers -> Server] /\ server'[s] = after
      /\ \A r \in Servers : r # s => server'[r] = server[r]
  BY <1>1, <1>2, <1>3, OrderStep
<1>5. Up' \subseteq Up /\ s \notin Up'
  BY <1>3, <1>4 DEF Up
<1>6. \A r \in Servers : server'[r].stage = "configuring" <=> server[r].stage = "configuring"
  BY <1>1, <1>3, <1>4
<1>7. controller # 0 => \E r \in Servers :
        /\ starter[r] = controller
        /\ \/ server'[r].stage = "up"
           \/ server'[r].stage = "closing" /\ "closeBundle" \in server'[r].left
  <2>1. SUFFICES ASSUME controller # 0
                 PROVE  \E r \in Servers :
                          /\ starter[r] = controller
                          /\ \/ server'[r].stage = "up"
                             \/ server'[r].stage = "closing" /\ "closeBundle" \in server'[r].left
    OBVIOUS
  <2>2. PICK r \in Servers :
          /\ starter[r] = controller
          /\ \/ server[r].stage = "up"
             \/ server[r].stage = "closing" /\ "closeBundle" \in server[r].left
    BY <1>1, <2>1 DEF WatcherInv
  <2>3. CASE r = s
    BY <1>3, <1>4, <2>2, <2>3
  <2>4. CASE r # s
    BY <1>4, <2>2, <2>4
  <2>5. QED  BY <2>3, <2>4
<1>8. \A r \in Up' : server'[r].over \in {0} \cup Up' => controller # 0
  <2>1. SUFFICES ASSUME NEW r \in Up', server'[r].over \in {0} \cup Up'
                 PROVE  controller # 0
    OBVIOUS
  <2>2. r \in Up /\ server[r].over \in {0} \cup Up
    BY <1>4, <1>5, <2>1 DEF Up
  <2>3. QED  BY <1>1, <2>2 DEF WatcherInv
<1>9. WatcherInv'
  BY <1>1, <1>6, <1>7, <1>8 DEF WatcherInv
<1>10. ModeInv'
  BY <1>1 DEF ModeInv
<1>11. QED  BY <1>1, <1>4, <1>9, <1>10 DEF ServerTypeOK, ServerInv

(* closeWatcher, from whichever hook of a closing server: afterwards no    *)
(* watcher is starting or on.                                              *)
LEMMA CloseWatcherStep ==
  ASSUME ServerTypeOK, ServerInv, NEW s \in Servers, NEW after \in Server,
         server[s].stage = "closing", after.stage = "closing",
         after.over = server[s].over,
         CloseWatcher(s, after), passes' = passes, dev => wave' = wave
  PROVE  ServerTypeOK' /\ ServerInv'
<1>1. ~ Gone(s) /\ OrderInv /\ WatcherInv /\ ModeInv
  BY DEF ServerInv, Gone
<1>2. /\ server' = [server EXCEPT ![s] = after]
      /\ controller' = 0 /\ starter' = starter /\ dev' = dev
  BY DEF CloseWatcher
<1>3. /\ OrderInv' /\ server' \in [Servers -> Server] /\ server'[s] = after
      /\ \A r \in Servers : r # s => server'[r] = server[r]
  <2>1. \A r \in Servers : r < s => Gone(r)
    BY <1>1 DEF OrderInv
  <2>2. QED  BY <1>1, <1>2, <2>1, OrderStep
<1>4. \A r \in Servers : r # s =>
        /\ server[r].stage \notin {"created", "configuring", "closing"}
        /\ server[r].stage = "up" => server[r].over = s
  BY <1>1, Oldest
<1>5. \A w \in DOMAIN watchers : watchers[w] \in {"starting", "on"} => w = controller
  BY <1>1, <1>4 DEF WatcherInv
<1>6. /\ Len(watchers') = Len(watchers) /\ watchers' \in Seq(WatcherStates)
      /\ \A w \in DOMAIN watchers' : watchers'[w] \notin {"starting", "on"}
  <2>1. CASE controller = 0
    <3>1. watchers' = watchers /\ controller \notin DOMAIN watchers
      BY <2>1 DEF CloseWatcher, ServerTypeOK
    <3>2. QED  BY <1>5, <3>1 DEF ServerTypeOK
  <2>2. CASE controller # 0
    <3>1. /\ watchers' = [watchers EXCEPT ![controller] = "closing"]
          /\ controller \in DOMAIN watchers
      BY <2>2 DEF CloseWatcher, ServerTypeOK
    <3>2. /\ Len(watchers') = Len(watchers) /\ watchers' \in Seq(WatcherStates)
          /\ DOMAIN watchers' = DOMAIN watchers
          /\ watchers'[controller] = "closing"
          /\ \A w \in DOMAIN watchers : w # controller => watchers'[w] = watchers[w]
      BY <3>1 DEF ServerTypeOK, WatcherStates
    <3>3. QED  BY <1>5, <3>2
  <2>3. QED  BY <2>1, <2>2
<1>7. \A r \in Servers : server'[r].stage # "configuring"
  BY <1>3, <1>4
<1>8. \A r \in Up' : server'[r].over \notin {0} \cup Up'
  <2>1. s \notin Up' /\ s # 0
    BY <1>3 DEF Up, Servers
  <2>2. \A r \in Up' : server'[r].over = s
    BY <1>3, <1>4 DEF Up
  <2>3. QED  BY <2>1, <2>2
<1>9. WatcherInv'
  BY <1>2, <1>6, <1>7, <1>8 DEF WatcherInv
<1>10. ModeInv'
  BY <1>1, <1>2 DEF ModeInv
<1>11. QED  BY <1>2, <1>3, <1>6, <1>9, <1>10 DEF ServerTypeOK, ServerInv

(* In a process that serves there is no wave to close.                     *)
LEMMA DevHasNoWave ==
  ASSUME ServerInv, dev, CloseWave
  PROVE  wave' = wave
BY DEF ServerInv, ModeInv, CloseWave

(* The three hooks that call it.                                           *)
LEMMA CloseHooksStep ==
  ASSUME ServerTypeOK, ServerInv, NEW s \in Servers,
         \/ OnHttpClose(s) \/ CloseBundle(s)
         \/ \E e \in Environments : DevBuildEnd(s, e)
  PROVE  ServerTypeOK' /\ ServerInv'
<1>1. server[s] \in Server /\ Held \subseteq Nat
  BY DEF ServerTypeOK, Held
<1>2. CASE OnHttpClose(s)
  <2>1. /\ [server[s] EXCEPT !.left = @ \ {"close"}] \in Server
        /\ [server[s] EXCEPT !.left = @ \ {"close"}].stage = server[s].stage
        /\ [server[s] EXCEPT !.left = @ \ {"close"}].over = server[s].over
    BY <1>1 DEF Server
  <2>2. server[s].stage = "closing" /\ passes' = passes /\ wave' = wave
    BY <1>2 DEF OnHttpClose, ServerInv, OrderInv, waveVars, vars, plugin
  <2>3. QED  BY <1>2, <2>1, <2>2, CloseWatcherStep DEF OnHttpClose
<1>3. CASE CloseBundle(s)
  <2>1. /\ [server[s] EXCEPT !.left = @ \ {"closeBundle"}, !.waits = @ \cup Held] \in Server
        /\ [server[s] EXCEPT !.left = @ \ {"closeBundle"}, !.waits = @ \cup Held].stage
             = server[s].stage
        /\ [server[s] EXCEPT !.left = @ \ {"closeBundle"}, !.waits = @ \cup Held].over
             = server[s].over
    BY <1>1 DEF Server
  <2>2. server[s].stage = "closing" /\ passes' = passes /\ wave' = wave
    BY <1>3 DEF CloseBundle, ServerInv, OrderInv, waveVars, vars, plugin
  <2>3. QED  BY <1>3, <2>1, <2>2, CloseWatcherStep DEF CloseBundle
<1>4. ASSUME NEW e \in Environments, DevBuildEnd(s, e)
      PROVE  ServerTypeOK' /\ ServerInv'
  <2>1. /\ [server[s] EXCEPT !.ends = @ \ {e}, !.waits = @ \cup Held] \in Server
        /\ [server[s] EXCEPT !.ends = @ \ {e}, !.waits = @ \cup Held].stage = server[s].stage
        /\ [server[s] EXCEPT !.ends = @ \ {e}, !.waits = @ \cup Held].over = server[s].over
    BY <1>1 DEF Server
  <2>2. server[s].stage = "closing" /\ passes' = passes /\ (dev => wave' = wave)
    BY <1>4, DevHasNoWave DEF DevBuildEnd, ServerInv, OrderInv
  <2>3. QED  BY <1>4, <2>1, <2>2, CloseWatcherStep DEF DevBuildEnd
<1>5. QED  BY <1>2, <1>3, <1>4

LEMMA ServerClosedStep ==
  ASSUME ServerTypeOK, ServerInv, NEW s \in Servers, ServerClosed(s)
  PROVE  ServerTypeOK' /\ ServerInv'
<1>1. /\ server[s] \in Server /\ server[s].stage = "closing" /\ ~ New(s) /\ ~ Gone(s)
      /\ server[s].left = {} /\ server[s].ends = {}
      /\ OrderInv /\ WatcherInv /\ ModeInv
      /\ starter' = starter /\ dev' = dev /\ controller' = controller
      /\ watchers' = watchers /\ passes' = passes /\ wave' = wave
  BY DEF ServerClosed, ServerTypeOK, ServerInv, Gone, New, waveVars, vars, plugin
<1>2. PICK after \in Server :
        /\ server' = [server EXCEPT ![s] = after] /\ after.stage = "closed"
        /\ after.over = server[s].over /\ after.left = {} /\ after.ends = {}
  <2>1. /\ [server[s] EXCEPT !.stage = "closed"] \in Server
        /\ server' = [server EXCEPT ![s] = [server[s] EXCEPT !.stage = "closed"]]
    BY <1>1 DEF ServerClosed, Server, ServerStages
  <2>2. QED  BY <1>1, <2>1 DEF Server
<1>3. /\ OrderInv' /\ server' \in [Servers -> Server] /\ server'[s] = after
      /\ \A r \in Servers : r # s => server'[r] = server[r]
  <2>1. \A r \in Servers : r < s => Gone(r)
    BY <1>1 DEF OrderInv
  <2>2. QED  BY <1>1, <1>2, <2>1, OrderStep
<1>4. Up' = Up /\ \A r \in Up : server'[r].over = server[r].over
  BY <1>1, <1>2, <1>3 DEF Up
<1>5. \A r \in Servers : server'[r].stage = "configuring" <=> server[r].stage = "configuring"
  BY <1>1, <1>2, <1>3
<1>6. controller # 0 => \E r \in Servers :
        /\ starter[r] = controller /\ r # s
        /\ \/ server[r].stage = "up"
           \/ server[r].stage = "closing" /\ "closeBundle" \in server[r].left
  BY <1>1 DEF WatcherInv
<1>7. WatcherInv'
  <2>1. \A r \in Up' : server'[r].over \in {0} \cup Up' => controller' # 0
    BY <1>1, <1>4 DEF WatcherInv
  <2>2. QED  BY <1>1, <1>3, <1>5, <1>6, <2>1 DEF WatcherInv
<1>8. ModeInv'
  BY <1>1 DEF ModeInv
<1>9. QED  BY <1>1, <1>3, <1>7, <1>8 DEF ServerTypeOK, ServerInv

LEMMA WatcherOffStep ==
  ASSUME ServerTypeOK, ServerInv, NEW w \in DOMAIN watchers, WatcherOff(w)
  PROVE  ServerTypeOK' /\ ServerInv'
<1>1. /\ watchers[w] = "closing" /\ watchers' = [watchers EXCEPT ![w] = "off"]
      /\ dev' = dev /\ server' = server /\ controller' = controller
      /\ starter' = starter /\ passes' = passes /\ wave' = wave
      /\ OrderInv /\ WatcherInv /\ ModeInv
  BY DEF WatcherOff, ServerInv, waveVars, vars, plugin
<1>2. /\ Len(watchers') = Len(watchers) /\ watchers' \in Seq(WatcherStates)
      /\ DOMAIN watchers' = DOMAIN watchers /\ DOMAIN watchers = 1..Len(watchers)
      /\ watchers'[w] = "off"
      /\ \A v \in DOMAIN watchers : v # w => watchers'[v] = watchers[v]
  BY <1>1 DEF ServerTypeOK, WatcherStates
<1>3. ServerTypeOK'
  BY <1>1, <1>2 DEF ServerTypeOK
<1>4. \A v \in DOMAIN watchers : watchers[v] \in {"starting", "on"} => watchers'[v] = watchers[v]
  BY <1>1, <1>2
<1>5. \A v \in DOMAIN watchers : watchers'[v] \in {"starting", "on"} => watchers[v] = watchers'[v]
  BY <1>2
<1>6. \A s \in Servers : server[s].stage = "configuring" => starter[s] \in DOMAIN watchers
  BY <1>1, <1>2 DEF WatcherInv, ServerTypeOK
<1>7. controller # 0 => controller \in DOMAIN watchers
  BY <1>2 DEF ServerTypeOK
<1>8. WatcherInv'
  BY <1>1, <1>2, <1>4, <1>5, <1>6, <1>7 DEF WatcherInv, Up
<1>9. OrderInv' /\ ModeInv'
  BY <1>1 DEF OrderInv, ModeInv, Gone, New
<1>10. QED  BY <1>3, <1>8, <1>9 DEF ServerInv

LEMMA ServerNext ==
  ASSUME ServerTypeOK, ServerInv, [ViteNext]_viteVars
  PROVE  ServerTypeOK' /\ ServerInv'
<1>1. ASSUME UNCHANGED serverVars, dev => passes' = passes /\ wave' = wave
      PROVE  ServerTypeOK' /\ ServerInv'
  BY <1>1 DEF serverVars, ServerTypeOK, ServerInv, OrderInv, WatcherInv, ModeInv, Gone, New,
              Up
<1>2. CASE BuildNext
  BY <1>1, <1>2 DEF BuildNext, DevWatcherOwnsInitialGenerate
<1>3. ASSUME NEW s \in Servers,
             \/ CreateServer(s) \/ ConfigureServer(s) \/ WatchReady(s) \/ WatchRejects(s)
             \/ CloseServer(s) \/ OnHttpClose(s) \/ CloseBundle(s) \/ ServerClosed(s)
             \/ \E e \in Environments : DevBuildEnd(s, e)
      PROVE  ServerTypeOK' /\ ServerInv'
  BY <1>3, CreateServerStep, ConfigureServerStep, WatchReadyStep, WatchRejectsStep,
     CloseServerStep, CloseHooksStep, ServerClosedStep
<1>4. ASSUME NEW w \in DOMAIN watchers, WatcherOff(w)
      PROVE  ServerTypeOK' /\ ServerInv'
  BY <1>4, WatcherOffStep
<1>5. CASE UNCHANGED viteVars
  BY <1>1, <1>5 DEF viteVars, waveVars, vars, plugin
<1>6. QED  BY <1>2, <1>3, <1>4, <1>5 DEF ViteNext, ServeNext

LEMMA ServerCorrect == ViteSpec => [](ServerTypeOK /\ ServerInv)
BY ServerInit, ServerNext, PTL DEF ViteSpec

(* A dev server that is up has a watcher that is on: one that starts on    *)
(* its own until its close begins, one that replaces another server in a   *)
(* restart until the close of that server begins.  However many servers    *)
(* came before it and in whatever order their hooks ran.                   *)
THEOREM ServesWatched == ViteSpec => []WatchedWhileUp
<1>1. ServerTypeOK /\ ServerInv => WatchedWhileUp
  BY DEF ServerInv, WatcherInv, WatchedWhileUp
<1>2. QED  BY <1>1, ServerCorrect, PTL

(* No watcher outlives the server that started it, nor a server that       *)
(* replaced that one.                                                      *)
THEOREM WatchersStop == ViteSpec => []NoOrphanWatcher
<1>1. ASSUME ServerTypeOK, ServerInv, NEW s \in Servers, server[s].stage = "closed",
             NEW w \in DOMAIN watchers, watchers[w] \in {"starting", "on"}
      PROVE  \E r \in Servers : r > s /\ starter[r] = w
  <2>1. PICK r \in Servers :
          /\ starter[r] = w
          /\ server[r].stage \in {"configuring", "up", "closing"}
    <3>1. w # 0
      BY <1>1 DEF ServerTypeOK
    <3>2. CASE watchers[w] = "starting"
      BY <1>1, <3>2 DEF ServerInv, WatcherInv
    <3>3. CASE watchers[w] = "on"
      <4>1. controller = w
        BY <1>1, <3>3 DEF ServerInv, WatcherInv
      <4>2. PICK r \in Servers :
              starter[r] = controller /\ server[r].stage \in {"up", "closing"}
        BY <1>1, <3>1, <4>1 DEF ServerInv, WatcherInv
      <4>3. QED  BY <4>1, <4>2
    <3>4. QED  BY <1>1, <3>2, <3>3
  <2>2. r # s /\ ~ Gone(r)
    BY <1>1, <2>1 DEF Gone
  <2>3. ~ (r < s)
    BY <1>1, <2>2 DEF ServerInv, OrderInv
  <2>4. QED  BY <2>1, <2>2, <2>3 DEF Servers
<1>2. ServerTypeOK /\ ServerInv => NoOrphanWatcher
  BY <1>1 DEF NoOrphanWatcher
<1>3. QED  BY <1>2, ServerCorrect, PTL

-----------------------------------------------------------------------------
(* Seen from the waves, a step of the plugin is a step of the wave         *)
(* protocol or none at all.                                                *)
LEMMA PluginStep ==
  ASSUME ServerInv, [ViteNext]_viteVars
  PROVE  [Next]_vars
<1>1. CASE BuildNext
  BY <1>1 DEF BuildNext, Next
<1>2. ASSUME NEW s \in Servers, CreateServer(s) PROVE ConfigResolved
  BY <1>2 DEF CreateServer
<1>3. ASSUME NEW s \in Servers, NEW e \in Environments, DevBuildEnd(s, e)
      PROVE  UNCHANGED vars
  <2>1. dev
    <3>1. server[s].stage = "closing"
      BY <1>3 DEF DevBuildEnd, ServerInv, OrderInv
    <3>2. QED  BY <3>1 DEF ServerInv, ModeInv
  <2>2. QED  BY <1>3, <2>1, DevHasNoWave DEF DevBuildEnd, vars, plugin
<1>4. ASSUME NEW s \in Servers,
             \/ ConfigureServer(s) \/ WatchReady(s) \/ WatchRejects(s) \/ CloseServer(s)
             \/ OnHttpClose(s) \/ CloseBundle(s) \/ ServerClosed(s)
      PROVE  UNCHANGED vars
  BY <1>4 DEF ConfigureServer, WatchReady, WatchRejects, CloseServer, OnHttpClose,
              CloseBundle, ServerClosed, waveVars
<1>5. ASSUME NEW w \in DOMAIN watchers, WatcherOff(w) PROVE UNCHANGED vars
  BY <1>5 DEF WatcherOff, waveVars
<1>6. CASE UNCHANGED viteVars
  BY <1>6 DEF viteVars, waveVars
<1>7. QED
  BY <1>1, <1>2, <1>3, <1>4, <1>5, <1>6 DEF ViteNext, ServeNext, Next

LEMMA PluginWaves == ViteSpec => [](TypeOK /\ WaveInv /\ RebuildInv)
<1>1. ViteInit => TypeOK /\ WaveInv /\ RebuildInv
  BY InitType, InitWave, InitRebuild DEF ViteInit
<1>2. ServerInv /\ TypeOK /\ WaveInv /\ RebuildInv /\ [ViteNext]_viteVars
        => (TypeOK /\ WaveInv /\ RebuildInv)'
  BY PluginStep, NextType, NextWave, NextRebuild
<1>3. QED  BY <1>1, <1>2, ServerCorrect, PTL DEF ViteSpec

(* In a process that builds and in one that serves, and across the servers *)
(* of the latter, the first builds of a configuration share one generate.  *)
THEOREM PluginOneGenerate == ViteSpec => []OneGeneratePerWave
<1>1. WaveInv => OneGeneratePerWave
  BY DEF WaveInv
<1>2. QED  BY <1>1, PluginWaves, PTL

(* A dev server restart is a new configuration: no build after it shares a *)
(* pass started before it.                                                 *)
THEOREM PluginCleanConfiguration == ViteSpec => []NewConfigNewPass
<1>1. WaveInv => NewConfigNewPass
  BY DEF WaveInv, NewConfigNewPass
<1>2. QED  BY <1>1, PluginWaves, PTL

(* Each build of an environment takes a newer pass than its previous one,  *)
(* whatever servers start and close in between.                            *)
THEOREM PluginPassesIncrease == ViteSpec => NeverSamePass
<1>1. ServerInv /\ TypeOK /\ WaveInv /\ [ViteNext]_viteVars =>
        [\A e \in Environments :
           build[e] = "idle" /\ build'[e] = "awaiting" => took'[e] > took[e]]_vars
  BY PluginStep, PassesIncreaseStep
<1>2. QED  BY <1>1, PluginWaves, ServerCorrect, PTL DEF ViteSpec, NeverSamePass

(* A rebuild on its own sees the edits made before it, in both kinds of    *)
(* process.                                                                *)
THEOREM PluginRebuildFresh == ViteSpec => []RebuildSeesEdits
<1>1. RebuildInv => RebuildSeesEdits
  BY DEF RebuildInv
<1>2. QED  BY <1>1, PluginWaves, PTL

(* The plugin as a whole implements SharedPass: of the dev server only the *)
(* creation, which resolves a configuration, shows in the abstract state.  *)
THEOREM PluginImplementsSharedPass == ViteSpec => SharedPassSpec
<1>1. ViteInit => Shared!SharedInit
  BY DEF ViteInit, Init, Shared!SharedInit
<1>2. ServerInv /\ TypeOK /\ WaveInv /\ [ViteNext]_viteVars
        => [Shared!SharedNext]_(Shared!sharedVars)
  BY PluginStep, SharedPassStep
<1>3. QED
  BY <1>1, <1>2, PluginWaves, ServerCorrect, PTL DEF ViteSpec, SharedPassSpec, Shared!SharedSpec
=============================================================================
