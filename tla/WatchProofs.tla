----------------------------- MODULE WatchProofs -----------------------------
(***************************************************************************)
(* What holds of watch mode for every set of sources and helpers, every    *)
(* import relation and every number of edits and runs.                     *)
(***************************************************************************)
EXTENDS Watch, TLAPS

-----------------------------------------------------------------------------
(* Type correctness.                                                       *)

LEMMA PathTypes ==
  /\ \A f \in Inputs : Input(f) \in Paths
  /\ \A s \in Sources : Output(s) \in Paths /\ s \in Inputs
BY DEF Paths, Input, Artifact, Output, Inputs

LEMMA StampType ==
  ASSUME NEW v \in [Inputs -> Version], NEW s
  PROVE  Stamp(v, s) \in [Inputs -> Version]
BY WatchAssumption DEF Stamp, Version

LEMMA ShortSequences ==
  ASSUME NEW S, NEW d \in S, NEW e \in S
  PROVE  <<>> \in Seq(S) /\ <<e>> \in Seq(S) /\ <<d, e>> \in Seq(S)
OBVIOUS

(* A change appends at most two notifications about its own path.          *)
LEMMA NotifyType ==
  ASSUME events \in Seq(Events), NEW p \in Paths, NEW kinds \in SUBSET Kinds,
         Notify(p, kinds)
  PROVE  events' \in Seq(Events)
<1>1. CASE phase = "open"
  <2>1. PICK k \in kinds :
          \E q \in Arrivals([path |-> p, kind |-> k]) : events' = events \o q
    BY <1>1 DEF Notify
  <2>2. PICK q \in Arrivals([path |-> p, kind |-> k]) : events' = events \o q
    BY <2>1
  <2>3. [path |-> p, kind |-> k] \in Events
    BY DEF Events
  <2>4. q \in Seq(Events)
    <3>1. q = <<[path |-> p, kind |-> k]>> \/ q = <<>>
            \/ q = <<[path |-> p, kind |-> k], [path |-> p, kind |-> k]>>
      BY <2>2 DEF Arrivals
    <3>2. QED  BY <2>3, <3>1, ShortSequences
  <2>5. QED  BY <2>2, <2>4
<1>2. CASE phase # "open"
  BY <1>2 DEF Notify
<1>3. QED  BY <1>1, <1>2

LEMMA NoneTypes ==
  /\ 0 \in Version /\ 1 \in Version
  /\ NoVersions \in [Inputs -> Version]
  /\ NoAnswer \in Answers
  /\ NoView \in Views
  /\ Idle \in [Sources -> Stages]
<1>1. 0 \in Version /\ 1 \in Version
  BY WatchAssumption DEF Version
<1>2. NoVersions \in [Inputs -> Version]
  BY <1>1 DEF NoVersions
<1>3. NoAnswer \in Answers
  BY <1>1, <1>2 DEF NoAnswer, Answers
<1>4. NoView \in Views
  BY <1>1, <1>3 DEF NoView, Views
<1>5. QED  BY <1>1, <1>2, <1>3, <1>4 DEF Idle, Stages

LEMMA InitType == Init => TypeOK
<1>1. SUFFICES ASSUME Init PROVE TypeOK
  OBVIOUS
<1>2. /\ disk \in [Inputs -> Version]
      /\ clock \in Version
      /\ known \in [Inputs -> Version]
  BY <1>1, NoneTypes DEF Init
<1>3. /\ region \in [Sources -> Answers]
      /\ seen \in [Sources -> Answers]
      /\ view \in [Sources -> Views]
      /\ stage \in [Sources -> Stages]
  BY <1>1, NoneTypes DEF Init
<1>4. events \in Seq(Events) /\ pending \in [Paths -> Kinds \cup {"none"}]
  BY <1>1 DEF Init, NoPending
<1>5. runs \in 0..MaxRuns
  BY <1>1, WatchAssumption DEF Init
<1>6. QED  BY <1>1, <1>2, <1>3, <1>4, <1>5 DEF Init, TypeOK

LEMMA UserType ==
  ASSUME TypeOK, NEW f \in Inputs, Edit(f) \/ Create(f) \/ Delete(f)
  PROVE  TypeOK'
<1>1. clock + 1 \in Version \/ ~ clock < MaxVersion
  BY WatchAssumption DEF TypeOK, Version
<1>2. ASSUME NEW v \in Version, Touch(f, v), events' \in Seq(Events),
             region' \in [Sources -> Answers]
      PROVE  TypeOK'
  BY <1>1, <1>2 DEF Touch, TypeOK, batch, answers, work
<1>3. Input(f) \in Paths
  BY PathTypes
<1>4. CASE Edit(f)
  <2>1. events' \in Seq(Events) /\ region' \in [Sources -> Answers]
    BY <1>3, <1>4, NotifyType DEF Edit, TypeOK
  <2>2. Touch(f, clock + 1) /\ clock + 1 \in Version
    BY <1>1, <1>4 DEF Edit, Touch
  <2>3. QED  BY <1>2, <2>1, <2>2
<1>5. CASE Create(f)
  <2>1. /\ [path |-> Input(f), kind |-> "rename"] \in Events
        /\ [path |-> Input(f), kind |-> "change"] \in Events
    BY <1>3 DEF Events, Kinds
  <2>2. events' \in Seq(Events)
    BY <1>5, <2>1, ShortSequences DEF Create, TypeOK
  <2>3. Touch(f, clock + 1) /\ clock + 1 \in Version
    BY <1>1, <1>5 DEF Create, Touch
  <2>4. region' \in [Sources -> Answers]
    BY <1>5 DEF Create, TypeOK
  <2>5. QED  BY <1>2, <2>2, <2>3, <2>4
<1>6. CASE Delete(f)
  <2>1. events' \in Seq(Events)
    BY <1>3, <1>6, NotifyType DEF Delete, TypeOK, Kinds
  <2>2. region' \in [Sources -> Answers]
    BY <1>6, NoneTypes DEF Delete, TypeOK
  <2>3. Touch(f, 0)
    BY <1>6 DEF Delete
  <2>4. QED  BY <1>2, <2>1, <2>2, <2>3, NoneTypes
<1>7. QED  BY <1>4, <1>5, <1>6

LEMMA PrepareType ==
  ASSUME TypeOK, NEW s \in Sources, Prepare(s)
  PROVE  TypeOK'
<1>1. disk[s] \in Version /\ region[s] \in Answers /\ Stamp(disk, s) \in [Inputs -> Version]
  BY PathTypes, StampType DEF TypeOK
<1>2. /\ [version |-> disk[s], region |-> region[s]] \in Views
      /\ [text |-> disk[s], checker |-> Stamp(disk, s),
          worker |-> Stamp(disk, s)] \in Answers
  BY <1>1 DEF Views, Answers
<1>3. "read" \in Stages /\ "none" \in Stages
  BY DEF Stages
<1>4. /\ stage' \in [Sources -> Stages]
      /\ view' \in [Sources -> Views]
      /\ seen' \in [Sources -> Answers]
  BY <1>2, <1>3 DEF Prepare, TypeOK
<1>5. QED  BY <1>4 DEF Prepare, TypeOK, user, batch

LEMMA ResolveType ==
  ASSUME TypeOK, NEW s \in Sources, Resolve(s)
  PROVE  TypeOK'
<1>1. /\ view[s].version \in Version
      /\ Stamp(disk, s) \in [Inputs -> Version]
      /\ Stamp(known, s) \in [Inputs -> Version]
  BY StampType DEF TypeOK, Views
<1>2. [text |-> view[s].version, checker |-> Stamp(known, s),
       worker |-> Stamp(disk, s)] \in Answers
  BY <1>1 DEF Answers
<1>3. stage' \in [Sources -> Stages] /\ seen' \in [Sources -> Answers]
  BY <1>2 DEF Resolve, TypeOK, Stages
<1>4. QED  BY <1>3 DEF Resolve, TypeOK, user, batch

LEMMA WriteType ==
  ASSUME TypeOK, NEW s \in Sources, WriteFile(s)
  PROVE  TypeOK'
<1>1. s \in Inputs /\ Output(s) \in Paths /\ view[s].version \in Version
  BY PathTypes DEF TypeOK, Views
<1>2. stage' \in [Sources -> Stages] /\ view' \in [Sources -> Views]
  BY NoneTypes DEF WriteFile, TypeOK, Stages
<1>3. CASE Emit(s)
  <2>1. events' \in Seq(Events)
    BY <1>1, <1>3, NotifyType DEF Emit, TypeOK, Kinds
  <2>2. disk' \in [Inputs -> Version] /\ region' \in [Sources -> Answers]
    BY <1>1, <1>3 DEF Emit, TypeOK
  <2>3. wrote' \subseteq Paths
    BY <1>1, <1>3 DEF Emit, TypeOK
  <2>4. QED  BY <1>2, <2>1, <2>2, <2>3 DEF WriteFile, TypeOK, batch, answers
<1>4. CASE UNCHANGED <<disk, region, events, wrote>>
  BY <1>2, <1>4 DEF WriteFile, TypeOK, batch, answers
<1>5. QED  BY <1>3, <1>4 DEF WriteFile

LEMMA PassType ==
  ASSUME TypeOK, Tell \/ EndPass
  PROVE  TypeOK'
<1>1. CASE Tell
  <2>1. known' \in [Inputs -> Version] /\ stage' \in [Sources -> Stages]
    BY <1>1 DEF Tell, TypeOK, Stages
  <2>2. QED  BY <1>1, <2>1 DEF Tell, TypeOK, user, batch
<1>2. CASE EndPass
  BY <1>2 DEF EndPass, TypeOK, user, answers
<1>3. QED  BY <1>1, <1>2

LEMMA DownType ==
  ASSUME TypeOK, Down
  PROVE  TypeOK'
<1>1. pending' \in [Paths -> Kinds \cup {"none"}] /\ events' \in Seq(Events)
  BY DEF Down, NoPending
<1>2. /\ known' \in [Inputs -> Version]
      /\ seen' \in [Sources -> Answers]
      /\ stage' \in [Sources -> Stages]
      /\ view' \in [Sources -> Views]
  BY NoneTypes DEF Down
<1>3. QED  BY <1>1, <1>2 DEF Down, TypeOK, user

LEMMA WatcherType ==
  ASSUME TypeOK, Start \/ Register \/ Deliver \/ Flush \/ Close
  PROVE  TypeOK'
<1>1. ASSUME NEW kind \in {"full", "files"}, NEW S, BeginPass(kind, S)
      PROVE  /\ pass' \in {"none", "full", "files"}
             /\ stage' \in [Sources -> Stages]
             /\ wrote' \subseteq Paths
             /\ view' = view
  BY <1>1 DEF BeginPass, Stages
<1>2. CASE Start
  <2>1. runs' \in 0..MaxRuns
    BY <1>2, WatchAssumption DEF Start, TypeOK
  <2>2. BeginPass("full", Present)
    BY <1>2 DEF Start
  <2>3. QED  BY <1>1, <1>2, <2>1, <2>2 DEF Start, TypeOK, user, batch
<1>3. CASE Register
  BY <1>3 DEF Register, TypeOK, user, batch, answers, work
<1>4. CASE Deliver
  <2>1. Head(events) \in Events /\ Tail(events) \in Seq(Events)
    BY <1>4 DEF Deliver, TypeOK
  <2>2. Head(events).path \in Paths /\ Head(events).kind \in Kinds
    BY <2>1 DEF Events
  <2>3. QED  BY <1>4, <2>1, <2>2 DEF Deliver, TypeOK, user, answers, work
<1>5. CASE Flush
  <2>1. /\ pending' \in [Paths -> Kinds \cup {"none"}]
        /\ timer' \in BOOLEAN
        /\ selfWrites' \subseteq Paths
    BY <1>5 DEF Flush, TakeBatch, NoPending
  <2>2. /\ pass' \in {"none", "full", "files"}
        /\ stage' \in [Sources -> Stages]
        /\ wrote' \subseteq Paths
        /\ view' = view
    <3>1. CASE BeginPass("full", Present) \/ BeginPass("files", PlannedFiles)
      BY <1>1, <3>1
    <3>2. CASE UNCHANGED work
      BY <3>2 DEF work, TypeOK
    <3>3. QED  BY <1>5, <3>1, <3>2 DEF Flush
  <2>3. QED  BY <1>5, <2>1, <2>2 DEF Flush, TypeOK, user, answers
<1>6. CASE Close
  <2>1. events' \in Seq(Events)
    BY <1>6 DEF Close
  <2>2. QED  BY <1>6, <2>1 DEF Close, TypeOK, user, answers, work
<1>7. QED  BY <1>2, <1>3, <1>4, <1>5, <1>6

(* Every variable of the watch process, the disk and the kernel queue      *)
(* keeps its type, whatever the configuration.                             *)
THEOREM TypeCorrect == Spec => []TypeOK
<1>1. TypeOK /\ [Next]_vars => TypeOK'
  <2>1. SUFFICES ASSUME TypeOK, [Next]_vars PROVE TypeOK'
    OBVIOUS
  <2>2. CASE Process
    BY <2>1, <2>2, PrepareType, ResolveType, WriteType, PassType, DownType, WatcherType
    DEF Process, Throw
  <2>3. CASE User
    BY <2>1, <2>3, UserType DEF User
  <2>4. CASE Start \/ Close \/ Exit
    BY <2>1, <2>4, WatcherType, DownType DEF Exit
  <2>5. CASE UNCHANGED vars
    BY <2>1, <2>5 DEF TypeOK, vars, user, batch, answers, work
  <2>6. QED  BY <2>1, <2>2, <2>3, <2>4, <2>5 DEF Next
<1>2. QED  BY InitType, <1>1, PTL DEF Spec

-----------------------------------------------------------------------------
(* The debounce timer.                                                     *)

TimerInv ==
  /\ TimerIffBatched
  /\ phase \in {"down", "starting"} => ~ timer /\ pending = NoPending

(* An open watcher has its timer armed exactly while a batch waits for it. *)
(* Before the watcher is registered both are empty, a flush empties both.  *)
THEOREM TimerCorrect == Spec => []TimerIffBatched
<1>1. Init => TimerInv
  BY DEF Init, TimerInv, TimerIffBatched, Batch
<1>2. TypeOK /\ TimerInv /\ [Next]_vars => TimerInv'
  <2>1. SUFFICES ASSUME TypeOK, TimerInv, [Next]_vars PROVE TimerInv'
    OBVIOUS
  <2>2. CASE UNCHANGED <<phase, timer, pending>>
    BY <2>1, <2>2 DEF TimerInv, TimerIffBatched, Batch
  <2>3. CASE Down
    BY <2>3 DEF Down, TimerInv, TimerIffBatched, NoPending
  <2>4. CASE Start
    BY <2>1, <2>4 DEF Start, batch, TimerInv, TimerIffBatched
  <2>5. CASE Register
    <3>1. Batch' = {} /\ ~ timer'
      BY <2>1, <2>5 DEF Register, batch, TimerInv, Batch, NoPending
    <3>2. QED  BY <2>5, <3>1 DEF Register, TimerInv, TimerIffBatched
  <2>6. CASE Deliver
    <3>1. CASE Head(events).path \in selfWrites
      BY <2>1, <2>6, <3>1 DEF Deliver, TimerInv, TimerIffBatched, Batch
    <3>2. CASE Head(events).path \notin selfWrites
      <4>1. Head(events).path \in Paths /\ Head(events).kind \in Kinds
        <5>1. Head(events) \in Events
          BY <2>1, <2>6 DEF TypeOK, Deliver
        <5>2. QED  BY <5>1 DEF Events
      <4>2. pending'[Head(events).path] # "none" /\ timer'
        BY <2>1, <2>6, <3>2, <4>1 DEF Deliver, TypeOK, Kinds
      <4>3. phase' = "open" /\ Batch' # {}
        BY <2>6, <4>1, <4>2 DEF Deliver, Batch
      <4>4. QED  BY <4>2, <4>3 DEF TimerInv, TimerIffBatched
    <3>3. QED  BY <3>1, <3>2
  <2>7. CASE Flush
    <3>1. Batch' = {} /\ ~ timer'
      BY <2>7 DEF Flush, TakeBatch, Batch, NoPending
    <3>2. QED  BY <2>7, <3>1 DEF Flush, TimerInv, TimerIffBatched
  <2>8. CASE Close
    BY <2>8 DEF Close, TimerInv, TimerIffBatched
  <2>9. CASE User
    BY <2>2, <2>9 DEF User, Edit, Create, Delete, Touch, batch
  <2>10. CASE \/ Tell \/ EndPass
              \/ \E s \in Sources : Prepare(s) \/ Resolve(s) \/ WriteFile(s)
    BY <2>2, <2>10 DEF Prepare, Tell, Resolve, WriteFile, EndPass, batch
  <2>11. CASE UNCHANGED vars
    BY <2>2, <2>11 DEF vars, batch
  <2>12. QED
    BY <2>1, <2>3, <2>4, <2>5, <2>6, <2>7, <2>8, <2>9, <2>10, <2>11
    DEF Next, Process, Throw, Exit
<1>3. TimerInv => TimerIffBatched
  BY DEF TimerInv
<1>4. QED  BY <1>1, <1>2, <1>3, TypeCorrect, PTL DEF Spec

-----------------------------------------------------------------------------
(* Eventual freshness, as an invariant.  FreshWhenQuiet alone is not       *)
(* inductive: it says nothing of what is still in flight.  The invariant   *)
(* below follows every stale source: a notification about one of its       *)
(* inputs is queued or batched, or the running pass has yet to read it, or *)
(* what the pass has read, and has told the checker, is still current.     *)

(* The configuration the claim needs: no source imports another one, the   *)
(* output of a source is another file, the user waits for the watcher.     *)
SimpleSidecar ==
  /\ Mode = "sidecar"
  /\ ~ StartupEdits
  /\ \A s \in Sources : Imports[s] \cap Sources = {}

Queued(q, p) == \E i \in 1..Len(q) : q[i].path = p

Signal(s) ==
  /\ phase = "open"
  /\ \E f \in Reads(s) : Queued(events, Input(f)) \/ pending[Input(f)] # "none"

OnTheWay(s) ==
  CASE stage[s] = "todo" -> TRUE
    [] stage[s] = "read" -> view[s].version = disk[s]
    [] stage[s] = "told" -> view[s].version = disk[s] /\ known[s] = disk[s]
    [] OTHER -> Fresh(s)

Settled(s) == OnTheWay(s) \/ Signal(s)

FreshInv ==
  /\ phase \in {"starting", "open"} => \A s \in Present : Settled(s)
  /\ \A f \in Inputs : Input(f) \notin selfWrites \cup wrote
  /\ pass = "none" => stage = Idle

LEMMA ReadsType ==
  ASSUME NEW s \in Sources
  PROVE  Reads(s) \subseteq Inputs /\ s \in Reads(s)
BY WatchAssumption DEF Reads, Inputs

(* A stamp is determined by the versions of what the source reads.         *)
LEMMA StampEqual ==
  ASSUME NEW s, NEW v, NEW w, \A f \in Reads(s) : v[f] = w[f]
  PROVE  Stamp(v, s) = Stamp(w, s)
BY DEF Stamp

LEMMA StampOwn ==
  ASSUME NEW s \in Sources, NEW v
  PROVE  Stamp(v, s)[s] = v[s]
BY ReadsType DEF Stamp

LEMMA QueuedAppend ==
  ASSUME NEW q \in Seq(Events), NEW r \in Seq(Events), NEW p,
         Queued(q, p) \/ Queued(r, p)
  PROVE  Queued(q \o r, p)
<1>1. CASE Queued(q, p)
  BY <1>1 DEF Queued
<1>2. CASE Queued(r, p)
  <2>1. PICK i \in 1..Len(r) : r[i].path = p
    BY <1>2 DEF Queued
  <2>2. /\ Len(q) + i \in 1..Len(q \o r)
        /\ (q \o r)[Len(q) + i] = r[i]
    OBVIOUS
  <2>3. QED  BY <2>1, <2>2 DEF Queued
<1>3. QED  BY <1>1, <1>2

LEMMA QueuedTail ==
  ASSUME NEW q \in Seq(Events), q # <<>>, NEW p, Queued(q, p), Head(q).path # p
  PROVE  Queued(Tail(q), p)
<1>1. PICK i \in 1..Len(q) : q[i].path = p
  BY DEF Queued
<1>2. i # 1
  BY <1>1
<1>3. i - 1 \in 1..Len(Tail(q)) /\ Tail(q)[i - 1] = q[i]
  BY <1>1, <1>2
<1>4. QED  BY <1>1, <1>3 DEF Queued

(* Once the watcher is open a change of p leaves p queued, and what was    *)
(* queued stays queued.                                                    *)
LEMMA NotifyQueues ==
  ASSUME events \in Seq(Events), NEW p \in Paths,
         NEW kinds \in SUBSET Kinds, Notify(p, kinds), phase = "open"
  PROVE  /\ Queued(events', p)
         /\ \A r : Queued(events, r) => Queued(events', r)
<1>1. PICK k \in kinds :
        \E q \in Arrivals([path |-> p, kind |-> k]) : events' = events \o q
  BY DEF Notify
<1>2. PICK q \in Arrivals([path |-> p, kind |-> k]) : events' = events \o q
  BY <1>1
<1> DEFINE e == [path |-> p, kind |-> k]
<1>3. e \in Events /\ e.path = p
  BY DEF Events
<1>4. \/ q = <<e>>
      \/ q = <<e, e>>
      \/ q = <<>> /\ events # <<>> /\ events[Len(events)] = e
  BY <1>2 DEF Arrivals
<1>5. q \in Seq(Events)
  <2>1. <<>> \in Seq(Events) /\ <<e>> \in Seq(Events) /\ <<e, e>> \in Seq(Events)
    BY <1>3, ShortSequences
  <2>2. QED  BY <1>4, <2>1
<1>6. Queued(events, p) \/ Queued(q, p)
  <2>1. CASE q = <<e>> \/ q = <<e, e>>
    <3>1. 1 \in 1..Len(q) /\ q[1] = e
      BY <2>1
    <3>2. QED  BY <1>3, <3>1 DEF Queued
  <2>2. CASE events # <<>> /\ events[Len(events)] = e
    <3>1. Len(events) \in 1..Len(events)
      BY <2>2
    <3>2. QED  BY <1>3, <2>2, <3>1 DEF Queued
  <2>3. QED  BY <1>4, <2>1, <2>2
<1>7. QED  BY <1>2, <1>5, <1>6, QueuedAppend

(* A user's step: the sources that read the touched input get a signal,    *)
(* nothing changes for the others.                                         *)
LEMMA TouchFresh ==
  ASSUME SimpleSidecar, TypeOK, FreshInv, NEW f \in Inputs, NEW v \in Version,
         Touch(f, v), events' \in Seq(Events),
         phase # "open" => events' = events,
         phase = "open" => /\ Queued(events', Input(f))
                           /\ \A r : Queued(events, r) => Queued(events', r)
  PROVE  FreshInv'
<1>1. /\ phase' = phase /\ pending' = pending /\ pass' = pass /\ stage' = stage
      /\ view' = view /\ wrote' = wrote /\ known' = known /\ seen' = seen
      /\ selfWrites' = selfWrites /\ disk' = [disk EXCEPT ![f] = v]
      /\ phase # "starting"
  BY DEF Touch, batch, answers, work, SimpleSidecar
<1>2. ASSUME NEW s \in Present', phase = "open"
      PROVE  Settled(s)'
  <2>1. s \in Sources
    BY <1>2 DEF Present
  <2>2. CASE f \in Reads(s)
    <3>1. Signal(s)'
      BY <1>1, <1>2, <2>2 DEF Signal
    <3>2. QED  BY <3>1 DEF Settled
  <2>3. CASE f \notin Reads(s)
    <3>1. \A g \in Reads(s) : disk'[g] = disk[g]
      BY <1>1, <2>1, <2>3, ReadsType DEF TypeOK
    <3>2. disk'[s] = disk[s] /\ s \in Present
      BY <1>2, <2>1, <3>1, ReadsType DEF Present
    <3>3. Settled(s)
      BY <1>2, <3>2 DEF FreshInv
    <3>4. Signal(s) => Signal(s)'
      BY <1>1, <1>2 DEF Signal
    <3>5. Stamp(disk', s) = Stamp(disk, s)
      BY <3>1, StampEqual
    <3>6. Fresh(s) => Fresh(s)'
      BY <1>1, <3>2, <3>5 DEF Fresh
    <3>7. OnTheWay(s) => OnTheWay(s)'
      BY <1>1, <3>2, <3>6 DEF OnTheWay
    <3>8. QED  BY <3>3, <3>4, <3>7 DEF Settled
  <2>4. QED  BY <2>2, <2>3
<1>3. QED  BY <1>1, <1>2 DEF FreshInv

LEMMA UserFresh ==
  ASSUME SimpleSidecar, TypeOK, FreshInv, NEW f \in Inputs,
         Edit(f) \/ Create(f) \/ Delete(f)
  PROVE  FreshInv'
<1>1. events' \in Seq(Events) /\ clock' \in Version
  BY UserType DEF TypeOK
<1>2. Input(f) \in Paths /\ 0 \in Version /\ events \in Seq(Events)
  BY PathTypes, NoneTypes DEF TypeOK
<1>3. CASE Edit(f)
  <2>1. Notify(Input(f), Kinds) /\ Touch(f, clock')
    BY <1>3 DEF Edit, Touch
  <2>2. phase # "open" => events' = events
    BY <2>1 DEF Notify
  <2>3. QED  BY <1>1, <1>2, <2>1, <2>2, NotifyQueues, TouchFresh
<1>4. CASE Create(f)
  <2>1. Touch(f, clock')
    BY <1>4 DEF Create, Touch
  <2>2. phase # "open" => events' = events
    BY <1>4 DEF Create
  <2>3. ASSUME phase = "open"
        PROVE  /\ Queued(events', Input(f))
               /\ \A r : Queued(events, r) => Queued(events', r)
    <3> DEFINE q == <<[path |-> Input(f), kind |-> "rename"],
                      [path |-> Input(f), kind |-> "change"]>>
    <3>1. /\ [path |-> Input(f), kind |-> "rename"] \in Events
          /\ [path |-> Input(f), kind |-> "change"] \in Events
      BY <1>2 DEF Events, Kinds
    <3>2. q \in Seq(Events)
      BY <3>1, ShortSequences
    <3>3. 1 \in 1..Len(q) /\ q[1].path = Input(f)
      OBVIOUS
    <3>4. Queued(q, Input(f))
      BY <3>3 DEF Queued
    <3>5. events' = events \o q
      BY <1>4, <2>3 DEF Create
    <3> HIDE DEF q
    <3>6. QED  BY <1>2, <3>2, <3>4, <3>5, QueuedAppend
  <2>4. QED  BY <1>1, <2>1, <2>2, <2>3, TouchFresh
<1>5. CASE Delete(f)
  <2>1. Notify(Input(f), {"rename"}) /\ Touch(f, 0)
    BY <1>5 DEF Delete
  <2>2. phase # "open" => events' = events
    BY <2>1 DEF Notify
  <2>3. {"rename"} \subseteq Kinds
    BY DEF Kinds
  <2>4. QED  BY <1>1, <1>2, <2>1, <2>2, <2>3, NotifyQueues, TouchFresh
<1>6. QED  BY <1>3, <1>4, <1>5

(* A step of the pass that leaves the disk and the batch alone, and loses  *)
(* no notification: it keeps the invariant when it keeps every source      *)
(* settled that it finds on its way.                                       *)
LEMMA PassFresh ==
  ASSUME FreshInv, phase' = phase, pending' = pending, disk' = disk,
         selfWrites' = selfWrites, pass # "none", pass' = pass,
         \A r : Queued(events, r) => Queued(events', r),
         \A f \in Inputs : Input(f) \notin wrote',
         \A s \in Present : OnTheWay(s) => OnTheWay(s)' \/ Signal(s)
  PROVE  FreshInv'
<1>1. Present' = Present
  BY DEF Present
<1>2. \A s : Signal(s) => Signal(s)'
  BY DEF Signal
<1>3. ASSUME NEW s \in Present, phase \in {"starting", "open"}
      PROVE  Settled(s)'
  BY <1>2, <1>3 DEF FreshInv, Settled
<1>4. QED  BY <1>1, <1>3 DEF FreshInv

LEMMA PrepareFresh ==
  ASSUME SimpleSidecar, TypeOK, FreshInv, NEW s \in Sources, Prepare(s)
  PROVE  FreshInv'
<1>1. /\ phase' = phase /\ pending' = pending /\ events' = events
      /\ disk' = disk /\ pass' = pass /\ known' = known
      /\ selfWrites' = selfWrites /\ wrote' = wrote
      /\ stage[s] = "todo"
  BY DEF Prepare, MayPrepare, user, batch
<1>2. pass # "none"
  BY <1>1 DEF FreshInv, Idle
<1>3. ASSUME NEW t \in Present, OnTheWay(t)
      PROVE  OnTheWay(t)'
  <2>1. t \in Sources
    BY DEF Present
  <2>2. CASE t # s
    <3>1. stage'[t] = stage[t] /\ view'[t] = view[t] /\ seen'[t] = seen[t]
      BY <2>1, <2>2 DEF Prepare, TypeOK
    <3>2. Fresh(t) => Fresh(t)'
      BY <1>1, <3>1 DEF Fresh
    <3>3. QED  BY <1>1, <1>3, <3>1, <3>2 DEF OnTheWay
  <2>3. CASE t = s /\ stage'[s] = "read"
    <3>1. view'[s].version = disk[s]
      BY <2>3 DEF Prepare, TypeOK
    <3>2. QED  BY <1>1, <2>3, <3>1 DEF OnTheWay
  <2>4. CASE t = s /\ stage'[s] # "read"
    <3>1. /\ stage'[s] = "none"
          /\ seen'[s] = [text |-> disk[s], checker |-> Stamp(disk, s),
                         worker |-> Stamp(disk, s)]
      BY <2>4 DEF Prepare, TypeOK
    <3>2. Fresh(s)'
      BY <1>1, <3>1, StampOwn DEF Fresh
    <3>3. QED  BY <2>4, <3>1, <3>2 DEF OnTheWay
  <2>5. QED  BY <2>2, <2>3, <2>4
<1>4. QED  BY <1>1, <1>2, <1>3, PassFresh DEF FreshInv

LEMMA TellFresh ==
  ASSUME TypeOK, FreshInv, Tell
  PROVE  FreshInv'
<1>1. /\ phase' = phase /\ pending' = pending /\ events' = events
      /\ disk' = disk /\ pass' = pass /\ seen' = seen /\ view' = view
      /\ selfWrites' = selfWrites /\ wrote' = wrote
  BY DEF Tell, user, batch
<1>2. pass # "none"
  BY DEF Tell, At, FreshInv, Idle
<1>3. ASSUME NEW t \in Present, OnTheWay(t)
      PROVE  OnTheWay(t)'
  <2>1. t \in Sources /\ t \in Inputs
    BY PathTypes DEF Present
  <2>2. CASE stage[t] = "read"
    <3>1. stage'[t] = "told" /\ known'[t] = disk[t]
      BY <2>1, <2>2 DEF Tell, At
    <3>2. QED  BY <1>1, <1>3, <2>2, <3>1 DEF OnTheWay
  <2>3. CASE stage[t] # "read"
    <3>1. stage'[t] = stage[t] /\ known'[t] = known[t]
      BY <2>1, <2>3 DEF Tell, At
    <3>2. Fresh(t) => Fresh(t)'
      BY <1>1 DEF Fresh
    <3>3. QED  BY <1>1, <1>3, <3>1, <3>2 DEF OnTheWay
  <2>4. QED  BY <2>2, <2>3
<1>4. QED  BY <1>1, <1>2, <1>3, PassFresh DEF FreshInv

LEMMA ResolveFresh ==
  ASSUME TypeOK, FreshInv, NEW s \in Sources, Resolve(s)
  PROVE  FreshInv'
<1>1. /\ phase' = phase /\ pending' = pending /\ events' = events
      /\ disk' = disk /\ pass' = pass /\ known' = known /\ view' = view
      /\ selfWrites' = selfWrites /\ wrote' = wrote
      /\ stage[s] = "told"
  BY DEF Resolve, user, batch
<1>2. pass # "none"
  BY <1>1 DEF FreshInv, Idle
<1>3. ASSUME NEW t \in Present, OnTheWay(t)
      PROVE  OnTheWay(t)'
  <2>1. t \in Sources
    BY DEF Present
  <2>2. CASE t # s
    <3>1. stage'[t] = stage[t] /\ seen'[t] = seen[t]
      BY <2>1, <2>2 DEF Resolve, TypeOK
    <3>2. Fresh(t) => Fresh(t)'
      BY <1>1, <3>1 DEF Fresh
    <3>3. QED  BY <1>1, <1>3, <3>1, <3>2 DEF OnTheWay
  <2>3. CASE t = s
    <3>1. view[s].version = disk[s] /\ known[s] = disk[s]
      BY <1>1, <1>3, <2>3 DEF OnTheWay
    <3>2. /\ stage'[s] = "resolved"
          /\ seen'[s] = [text |-> view[s].version, checker |-> Stamp(known, s),
                         worker |-> Stamp(disk, s)]
      BY DEF Resolve, TypeOK
    <3>3. Fresh(s)'
      BY <1>1, <3>1, <3>2, StampOwn DEF Fresh
    <3>4. QED  BY <2>3, <3>2, <3>3 DEF OnTheWay
  <2>4. QED  BY <2>2, <2>3
<1>4. QED  BY <1>1, <1>2, <1>3, PassFresh DEF FreshInv

LEMMA WriteFresh ==
  ASSUME SimpleSidecar, TypeOK, FreshInv, NEW s \in Sources, WriteFile(s)
  PROVE  FreshInv'
<1>1. /\ phase' = phase /\ pending' = pending /\ pass' = pass
      /\ selfWrites' = selfWrites /\ known' = known /\ seen' = seen
      /\ stage[s] = "resolved" /\ disk' = disk
  BY DEF WriteFile, Emit, SimpleSidecar, batch, answers
<1>2. pass # "none"
  BY <1>1 DEF FreshInv, Idle
<1>3. \A r : Queued(events, r) => Queued(events', r)
  <2>1. CASE events' = events
    BY <2>1
  <2>2. CASE Emit(s) /\ phase = "open"
    <3>1. Notify(Output(s), {"change"}) /\ Output(s) \in Paths
      BY <2>2, PathTypes DEF Emit
    <3>2. {"change"} \in SUBSET Kinds /\ events \in Seq(Events)
      BY DEF Kinds, TypeOK
    <3>3. QED  BY <2>2, <3>1, <3>2, NotifyQueues
  <2>3. CASE Emit(s) /\ phase # "open"
    BY <2>3 DEF Emit, Notify
  <2>4. QED  BY <2>1, <2>2, <2>3 DEF WriteFile
<1>4. \A f \in Inputs : Input(f) \notin wrote'
  <2>1. \A f \in Inputs : Input(f) # Output(s)
    BY DEF Input, Output, Artifact, SimpleSidecar
  <2>2. QED  BY <2>1 DEF WriteFile, Emit, FreshInv
<1>5. ASSUME NEW t \in Present, OnTheWay(t)
      PROVE  OnTheWay(t)'
  <2>1. t \in Sources
    BY DEF Present
  <2>2. Fresh(t) => Fresh(t)'
    BY <1>1 DEF Fresh
  <2>3. CASE t # s
    <3>1. stage'[t] = stage[t] /\ view'[t] = view[t]
      BY <2>1, <2>3 DEF WriteFile, TypeOK
    <3>2. QED  BY <1>1, <1>5, <2>2, <3>1 DEF OnTheWay
  <2>4. CASE t = s
    <3>1. stage'[s] = "none"
      BY DEF WriteFile, TypeOK
    <3>2. QED  BY <1>1, <1>5, <2>2, <2>4, <3>1 DEF OnTheWay
  <2>5. QED  BY <2>3, <2>4
<1>6. QED  BY <1>1, <1>2, <1>3, <1>4, <1>5, PassFresh

LEMMA EndPassFresh ==
  ASSUME FreshInv, EndPass
  PROVE  FreshInv'
<1>1. /\ phase' = phase /\ pending' = pending /\ events' = events
      /\ disk' = disk /\ known' = known /\ seen' = seen
      /\ stage = Idle /\ stage' = stage /\ view' = view
      /\ selfWrites' = selfWrites \cup wrote /\ wrote' = {}
  BY DEF EndPass, user, answers
<1>2. \A s : Fresh(s)' = Fresh(s) /\ Signal(s)' = Signal(s)
  BY <1>1 DEF Fresh, Signal
<1>3. Present' = Present
  BY <1>1 DEF Present
<1>4. QED  BY <1>1, <1>2, <1>3 DEF FreshInv, Settled, OnTheWay

LEMMA DownFresh ==
  ASSUME FreshInv, Down
  PROVE  FreshInv'
BY DEF Down, FreshInv

(* Every source of a new pass is on its way.                               *)
LEMMA BeginFresh ==
  ASSUME NEW kind, NEW S, BeginPass(kind, S), NEW s \in S \cap Sources
  PROVE  Settled(s)'
BY DEF BeginPass, Settled, OnTheWay

LEMMA StartFresh ==
  ASSUME FreshInv, Start
  PROVE  FreshInv'
<1>1. /\ wrote' = {} /\ pass' = "full" /\ disk' = disk /\ selfWrites' = selfWrites
  BY DEF Start, BeginPass, user, batch
<1>2. Present' = Present /\ Present = Present \cap Sources
  BY <1>1 DEF Present
<1>3. \A s \in Present : Settled(s)'
  BY <1>2, BeginFresh DEF Start
<1>4. QED  BY <1>1, <1>2, <1>3 DEF FreshInv

LEMMA RegisterFresh ==
  ASSUME FreshInv, Register
  PROVE  FreshInv'
<1>1. /\ phase = "starting" /\ phase' = "open" /\ stage' = stage
      /\ seen' = seen /\ known' = known /\ disk' = disk /\ view' = view
      /\ pass' = pass /\ selfWrites' = selfWrites /\ wrote' = wrote
  BY DEF Register, user, batch, answers, work
<1>2. \A s : Fresh(s)' = Fresh(s) /\ ~ Signal(s)
  BY <1>1 DEF Fresh, Signal
<1>3. Present' = Present
  BY <1>1 DEF Present
<1>4. QED  BY <1>1, <1>2, <1>3 DEF FreshInv, Settled, OnTheWay

(* A queued signal becomes a batched one: the path of an input is never    *)
(* among the own writes whose echo is dropped.                             *)
LEMMA DeliverFresh ==
  ASSUME TypeOK, FreshInv, Deliver
  PROVE  FreshInv'
<1> DEFINE e == Head(events)
<1>1. /\ phase' = phase /\ stage' = stage /\ seen' = seen /\ known' = known
      /\ disk' = disk /\ view' = view /\ pass' = pass
      /\ wrote' = wrote /\ events # <<>> /\ events' = Tail(events)
      /\ selfWrites' \subseteq selfWrites
  BY DEF Deliver, user, answers, work
<1>2. e \in Events /\ events \in Seq(Events)
  BY <1>1 DEF TypeOK
<1>3. e.path \in Paths /\ e.kind \in Kinds
  BY <1>2 DEF Events
<1>4. IF e.path \in selfWrites THEN pending' = pending
      ELSE pending' = [pending EXCEPT ![e.path] = e.kind]
  BY DEF Deliver
<1> HIDE DEF e
<1>5. ASSUME NEW s \in Present, Signal(s)
      PROVE  Signal(s)'
  <2>1. PICK f \in Reads(s) :
          Queued(events, Input(f)) \/ pending[Input(f)] # "none"
    BY <1>5 DEF Signal
  <2>2. f \in Inputs /\ Input(f) \in Paths /\ Input(f) \notin selfWrites
    BY <2>1, ReadsType, PathTypes DEF Present, FreshInv
  <2>3. CASE pending[Input(f)] # "none"
    <3>1. pending'[Input(f)] # "none"
      BY <1>3, <1>4, <2>2, <2>3 DEF TypeOK, Kinds
    <3>2. QED  BY <1>1, <1>5, <2>1, <3>1 DEF Signal
  <2>4. CASE Queued(events, Input(f)) /\ e.path = Input(f)
    <3>1. pending'[Input(f)] = e.kind /\ e.kind # "none"
      BY <1>3, <1>4, <2>2, <2>4 DEF TypeOK, Kinds
    <3>2. QED  BY <1>1, <1>5, <2>1, <3>1 DEF Signal
  <2>5. CASE Queued(events, Input(f)) /\ e.path # Input(f)
    <3>1. Queued(events', Input(f))
      BY <1>1, <1>2, <2>5, QueuedTail DEF e
    <3>2. QED  BY <1>1, <1>5, <2>1, <3>1 DEF Signal
  <2>6. QED  BY <2>1, <2>3, <2>4, <2>5
<1>6. \A s : Fresh(s)' = Fresh(s) /\ OnTheWay(s)' = OnTheWay(s)
  BY <1>1 DEF Fresh, OnTheWay
<1>7. Present' = Present
  BY <1>1 DEF Present
<1>8. QED  BY <1>1, <1>5, <1>6, <1>7 DEF FreshInv, Settled

(* The plan covers every source with a batched input: a helper or the      *)
(* tsconfig forces a full pass, the source itself is planned.              *)
LEMMA FlushFresh ==
  ASSUME SimpleSidecar, TypeOK, FreshInv, Flush
  PROVE  FreshInv'
<1>1. /\ phase' = phase /\ seen' = seen /\ disk' = disk
      /\ events' = events /\ selfWrites' = {}
      /\ stage = Idle /\ phase = "open"
  BY DEF Flush, TakeBatch, user, answers, FreshInv
<1>2. wrote' \subseteq wrote /\ (pass' = "none" => stage' = Idle)
  BY <1>1 DEF Flush, BeginPass, work
<1>3. Present' = Present /\ Present \subseteq Sources
  BY <1>1 DEF Present
<1>4. ASSUME NEW s \in Present
      PROVE  Settled(s)'
  <2>1. stage[s] = "none" /\ (Fresh(s) \/ Signal(s))
    BY <1>1, <1>3, <1>4 DEF FreshInv, Settled, OnTheWay, Idle
  <2>2. stage'[s] \in {"none", "todo"}
    BY <1>3, <2>1 DEF Flush, BeginPass, work
  <2>3. CASE Fresh(s)
    <3>1. Fresh(s)'
      BY <1>1, <2>3 DEF Fresh
    <3>2. QED  BY <2>2, <3>1 DEF Settled, OnTheWay
  <2>4. CASE Signal(s)
    <3>1. PICK f \in Reads(s) :
            Queued(events, Input(f)) \/ pending[Input(f)] # "none"
      BY <2>4 DEF Signal
    <3>2. CASE Queued(events, Input(f))
      BY <1>1, <3>1, <3>2 DEF Settled, Signal
    <3>3. CASE pending[Input(f)] # "none"
      <4>1. Input(f) \in Batch
        BY <1>3, <3>1, <3>3, ReadsType, PathTypes DEF Batch
      <4>2. CASE f = s
        <5>1. s \in PlannedFiles
          BY <4>1, <4>2 DEF PlannedFiles
        <5>2. BeginPass("full", Present) \/ BeginPass("files", PlannedFiles)
          BY <5>1 DEF Flush
        <5>3. QED  BY <1>3, <5>1, <5>2, BeginFresh
      <4>3. CASE f # s
        <5>1. f = Tsconfig \/ f \notin Sources
          BY <1>3, <3>1, <4>3 DEF Reads, SimpleSidecar
        <5>2. NeedsFull(Input(f))
          BY <1>3, <5>1 DEF NeedsFull, IsGeneratedArtifact, Input
        <5>3. BeginPass("full", Present)
          BY <4>1, <5>2 DEF Flush
        <5>4. QED  BY <1>3, <5>3, BeginFresh
      <4>4. QED  BY <4>2, <4>3
    <3>4. QED  BY <3>1, <3>2, <3>3
  <2>5. QED  BY <2>1, <2>3, <2>4
<1>5. QED  BY <1>1, <1>2, <1>3, <1>4 DEF FreshInv

LEMMA CloseFresh ==
  ASSUME FreshInv, Close
  PROVE  FreshInv'
BY DEF Close, FreshInv, work

(* Sidecar mode, sources that do not import one another, no edit before    *)
(* the watcher is registered: whenever the watcher is at rest, the last    *)
(* pass over every existing source read its present text, had told the     *)
(* checker of that text and loaded its inputs as they are on disk.  For    *)
(* any number of sources, helpers, edits and runs, and wherever the        *)
(* process is killed.                                                      *)
THEOREM EventuallyFresh ==
  ASSUME SimpleSidecar
  PROVE  Spec => []FreshWhenQuiet
<1>1. Init => FreshInv
  BY DEF Init, FreshInv
<1>2. TypeOK /\ FreshInv /\ [Next]_vars => FreshInv'
  <2>1. SUFFICES ASSUME TypeOK, FreshInv, [Next]_vars PROVE FreshInv'
    OBVIOUS
  <2>2. CASE User
    BY <2>1, <2>2, UserFresh DEF User
  <2>3. ASSUME NEW s \in Sources, Prepare(s) \/ Resolve(s) \/ WriteFile(s)
        PROVE  FreshInv'
    BY <2>1, <2>3, PrepareFresh, ResolveFresh, WriteFresh
  <2>4. CASE Tell \/ EndPass \/ Throw \/ Register \/ Deliver \/ Flush
    BY <2>1, <2>4, TellFresh, EndPassFresh, DownFresh, RegisterFresh, DeliverFresh,
       FlushFresh DEF Throw
  <2>5. CASE Start \/ Close \/ Exit
    BY <2>1, <2>5, StartFresh, CloseFresh, DownFresh DEF Exit
  <2>6. CASE UNCHANGED vars
    BY <2>1, <2>6
    DEF vars, user, batch, answers, work, FreshInv, Settled, OnTheWay, Present, Fresh,
        Signal
  <2>7. QED
    BY <2>1, <2>2, <2>3, <2>4, <2>5, <2>6 DEF Next, Process
<1>3. TypeOK /\ TimerIffBatched /\ FreshInv => FreshWhenQuiet
  <2>1. SUFFICES ASSUME TypeOK, TimerIffBatched, FreshInv, Quiet,
                        NEW s \in Present
                 PROVE  Fresh(s)
    BY DEF FreshWhenQuiet
  <2>2. Batch = {} /\ events = <<>> /\ stage[s] = "none"
    BY <2>1 DEF Quiet, TimerIffBatched, FreshInv, Idle, Present
  <2>3. ~ Signal(s)
    <3>1. \A p : ~ Queued(events, p)
      BY <2>2 DEF Queued
    <3>2. \A f \in Reads(s) : pending[Input(f)] = "none"
      BY <2>2, ReadsType, PathTypes DEF Batch, Present
    <3>3. QED  BY <3>1, <3>2 DEF Signal
  <2>4. QED  BY <2>1, <2>2, <2>3 DEF FreshInv, Settled, OnTheWay, Quiet
<1>4. QED  BY <1>1, <1>2, <1>3, TypeCorrect, TimerCorrect, PTL DEF Spec
=============================================================================
