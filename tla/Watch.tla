-------------------------------- MODULE Watch --------------------------------
(***************************************************************************)
(* Watch mode of the compiler: packages/compiler/src/watch.ts, with the    *)
(* generate passes it starts (packages/compiler/src/session.ts) seen from  *)
(* the file system.                                                        *)
(*                                                                         *)
(* Three actors share the disk.  The user edits, creates and deletes       *)
(* input files at any moment.  The kernel queues a notification for every  *)
(* change under the watched root.  The watch process runs JavaScript to    *)
(* completion: a callback (the notification handler, the debounce timer,   *)
(* close) never interrupts a generate pass, but the user does, between any *)
(* two reads and writes of the pass.                                       *)
(*                                                                         *)
(* The content of a file is abstracted to the number of the edit that      *)
(* produced it (0: the file does not exist), and what a pass generates for *)
(* a source to the versions it was computed from.  There are three of      *)
(* them: the text that the pass has read, the files of the program that    *)
(* the checker process holds, which learns of an edit only when it is told *)
(* of the file, and the files on disk, which the worker processes load.    *)
(***************************************************************************)
EXTENDS Integers, Sequences

CONSTANTS
  Sources,       \* schema modules matched by config.include
  Order,         \* Order[s]: place of source s among the sorted paths
  Helpers,       \* .ts modules outside config.include that a source may import
  Tsconfig,      \* config.tsconfig
  Imports,       \* Imports[s]: the modules source s imports
  Mode,          \* config.mode
  UserOps,       \* what the user does to the inputs
  StartupEdits,  \* does the user also edit before the watcher is registered?
  MaxVersion,    \* bound on the number of edits (the first content of an input is 1)
  MaxRuns        \* bound on the number of times the process is started

ASSUME WatchAssumption ==
  /\ Sources \cap Helpers = {}
  /\ Order \in [Sources -> Nat]
  /\ Tsconfig \notin Sources \cup Helpers
  /\ Imports \in [Sources -> SUBSET (Sources \cup Helpers)]
  /\ Mode \in {"sidecar", "inplace"}
  /\ UserOps \subseteq {"edit", "create", "delete"}
  /\ StartupEdits \in BOOLEAN
  /\ MaxVersion \in Nat \ {0}
  /\ MaxRuns \in Nat

Inputs == Sources \cup Helpers \cup {Tsconfig}
Reads(s) == {s, Tsconfig} \cup Imports[s]

(* Absolute paths: an input, or the generated artifact next to a source.   *)
(* The .gen.ts sidecar stands for the .tskm-query.ts file too: neither is  *)
(* ever an input, and a notification beyond the expected echo of the       *)
(* sidecar has the effect of a notification about a query file.            *)
Input(f) == <<"input", f>>
Artifact(s) == <<"gen", s>>
Paths == {Input(f) : f \in Inputs} \cup {Artifact(s) : s \in Sources}

(* Mutant: the compiler's own artifacts are not recognised.                *)
IsGeneratedArtifactNever(p) == FALSE

IsGeneratedArtifact(p) == p[1] = "gen"

Kinds == {"change", "rename"}
Events == [path : Paths, kind : Kinds]
Version == 0..MaxVersion

VARIABLES
  disk,        \* disk[f]: version of input f, 0 when it does not exist
  clock,       \* version of the latest edit
  region,      \* region[s]: what the types in the text of s come from, in inplace mode
  events,      \* notifications queued in the kernel
  phase,       \* life of the watch process
  runs,        \* number of starts so far
  timer,       \* is the debounce timer armed?
  pending,     \* pending[p]: kind of the batched event of p, or "none"
  selfWrites,  \* outputs whose echo is still to be dropped
  known,       \* known[f]: version of input f in the program of the checker
  seen,        \* seen[s]: what this process has last answered s from
  pass,        \* running generate pass: "none", "full" or "files"
  stage,       \* stage[s]: how far the pass has come with s
  view,        \* view[s]: the text of s the pass works on
  wrote        \* outputs the pass reports as changed

user == <<disk, clock>>
batch == <<timer, pending, selfWrites>>
answers == <<known, seen>>
work == <<pass, stage, view, wrote>>
vars == <<disk, clock, region, events, phase, runs, batch, answers, work>>

Present == {s \in Sources : disk[s] # 0}
NoVersions == [f \in Inputs |-> 0]
NoPending == [p \in Paths |-> "none"]
Stamp(v, s) == [f \in Inputs |-> IF f \in Reads(s) THEN v[f] ELSE 0]

Answers == [text : Version, checker : [Inputs -> Version], worker : [Inputs -> Version]]
NoAnswer == [text |-> 0, checker |-> NoVersions, worker |-> NoVersions]
Views == [version : Version, region : Answers]
NoView == [version |-> 0, region |-> NoAnswer]

Stages == {"none", "todo", "read", "told", "resolved"}
Idle == [s \in Sources |-> "none"]
At(p) == {s \in Sources : stage[s] = p}

(* Mutant: an output is reported by a name that is no absolute path.       *)
OutputByName(s) == s

Output(s) == IF Mode = "inplace" THEN Input(s) ELSE Artifact(s)

TypeOK ==
  /\ disk \in [Inputs -> Version]
  /\ clock \in Version
  /\ region \in [Sources -> Answers]
  /\ events \in Seq(Events)
  /\ phase \in {"down", "starting", "open", "closed"}
  /\ runs \in 0..MaxRuns
  /\ timer \in BOOLEAN
  /\ pending \in [Paths -> Kinds \cup {"none"}]
  /\ selfWrites \subseteq Paths
  /\ known \in [Inputs -> Version]
  /\ seen \in [Sources -> Answers]
  /\ pass \in {"none", "full", "files"}
  /\ stage \in [Sources -> Stages]
  /\ view \in [Sources -> Views]
  /\ wrote \subseteq Paths

(* Every input exists, nothing was ever generated and nothing runs.        *)
Init ==
  /\ disk = [f \in Inputs |-> 1]
  /\ clock = 1
  /\ region = [s \in Sources |-> NoAnswer]
  /\ events = <<>>
  /\ phase = "down"
  /\ runs = 0
  /\ timer = FALSE
  /\ pending = NoPending
  /\ selfWrites = {}
  /\ known = NoVersions
  /\ seen = [s \in Sources |-> NoAnswer]
  /\ pass = "none"
  /\ stage = Idle
  /\ view = [s \in Sources |-> NoView]
  /\ wrote = {}

-----------------------------------------------------------------------------
(* The kernel: a change yields one notification or two (a truncation and a *)
(* write), or none of its own when the last queued one is the same.        *)
Arrivals(e) ==
  {<<e>>, <<e, e>>} \cup
    {q \in {<<>>} : events # <<>> /\ events[Len(events)] = e}

Notify(p, kinds) ==
  IF phase = "open"
  THEN \E k \in kinds : \E q \in Arrivals([path |-> p, kind |-> k]) :
         events' = events \o q
  ELSE UNCHANGED events

-----------------------------------------------------------------------------
(* The user.                                                               *)
Touch(f, version) ==
  /\ clock < MaxVersion
  /\ StartupEdits \/ phase # "starting"
  /\ clock' = clock + 1
  /\ disk' = [disk EXCEPT ![f] = version]
  /\ UNCHANGED <<phase, runs, batch, answers, work>>

(* Saving in place notifies a change, saving through a temporary file and  *)
(* a rename notifies a rename.                                             *)
Edit(f) ==
  /\ "edit" \in UserOps
  /\ disk[f] # 0
  /\ Touch(f, clock + 1)
  /\ Notify(Input(f), Kinds)
  /\ UNCHANGED region

(* A new file is notified as a rename, its first write as a change.        *)
Create(f) ==
  /\ "create" \in UserOps
  /\ disk[f] = 0
  /\ Touch(f, clock + 1)
  /\ events' = IF phase = "open"
               THEN events \o <<[path |-> Input(f), kind |-> "rename"],
                                [path |-> Input(f), kind |-> "change"]>>
               ELSE events
  /\ UNCHANGED region

(* In inplace mode the generated region goes with the file.                *)
Delete(f) ==
  /\ "delete" \in UserOps
  /\ disk[f] # 0
  /\ Touch(f, 0)
  /\ Notify(Input(f), {"rename"})
  /\ region' = IF f \in Sources THEN [region EXCEPT ![f] = NoAnswer] ELSE region

-----------------------------------------------------------------------------
(* Generate passes.                                                        *)
BeginPass(kind, sources) ==
  /\ pass' = kind
  /\ stage' = [s \in Sources |-> IF s \in sources THEN "todo" ELSE "none"]
  /\ wrote' = {}
  /\ UNCHANGED view

(* generateAll takes the sources in order and prepares all of them before  *)
(* it resolves any, generateFile is called for one after the other.        *)
First(s, sources) == pass = "full" => \A r \in sources : Order[s] <= Order[r]
MayPrepare(s) ==
  /\ stage[s] = "todo"
  /\ First(s, At("todo"))
  /\ pass = "full" \/ At("read") \cup At("told") \cup At("resolved") = {}

(* prepareTargets reads the source.  One without targets is left out: the  *)
(* checker is not told of it and nothing is asked about it.                *)
Prepare(s) ==
  /\ MayPrepare(s)
  /\ disk[s] # 0
  /\ \/ /\ stage' = [stage EXCEPT ![s] = "read"]
        /\ view' = [view EXCEPT ![s] = [version |-> disk[s], region |-> region[s]]]
        /\ UNCHANGED seen
     \/ /\ stage' = [stage EXCEPT ![s] = "none"]
        /\ seen' = [seen EXCEPT ![s] = [text |-> disk[s], checker |-> Stamp(disk, s),
                                        worker |-> Stamp(disk, s)]]
        /\ UNCHANGED view
  /\ UNCHANGED <<user, region, events, phase, runs, batch, known, pass, wrote>>

(* The checker is told that the prepared sources have changed, all of them *)
(* in one snapshot in a full pass, and takes them from the disk.  Nobody   *)
(* tells it of a helper or of the tsconfig.                                *)
Tell ==
  /\ At("read") # {}
  /\ pass = "full" => At("todo") = {}
  /\ known' = [f \in Inputs |-> IF f \in At("read") THEN disk[f] ELSE known[f]]
  /\ stage' = [s \in Sources |-> IF s \in At("read") THEN "told" ELSE stage[s]]
  /\ UNCHANGED <<user, region, events, phase, runs, batch, seen, pass, view, wrote>>

(* One source at a time: the checker answers from its program, the worker  *)
(* loads the modules from the disk.                                        *)
Resolve(s) ==
  /\ stage[s] = "told"
  /\ First(s, At("told"))
  /\ At("resolved") = {}
  /\ stage' = [stage EXCEPT ![s] = "resolved"]
  /\ seen' = [seen EXCEPT ![s] = [text |-> view[s].version, checker |-> Stamp(known, s),
                                  worker |-> Stamp(disk, s)]]
  /\ UNCHANGED <<user, region, events, phase, runs, batch, known, pass, view, wrote>>

(* Mutant: an inplace region is rewritten by every pass, too.              *)
RewrittenAlways(s) == TRUE

(* A sidecar is rewritten by every pass, an inplace region only when its   *)
(* content hash differs from the one in the source text the pass has read. *)
Rewritten(s) ==
  \/ Mode = "sidecar"
  \/ view[s].region.checker # seen[s].checker
  \/ view[s].region.worker # seen[s].worker

(* The inplace emitter writes back the whole source text it was given.     *)
Emit(s) ==
  /\ Rewritten(s)
  /\ wrote' = wrote \cup {Output(s)}
  /\ IF Mode = "inplace"
     THEN /\ disk' = [disk EXCEPT ![s] = view[s].version]
          /\ region' = [region EXCEPT ![s] = seen[s]]
     ELSE UNCHANGED <<disk, region>>
  /\ Notify(Output(s), {"change"})

(* Nothing is written where nothing is resolved, where the result does not *)
(* compile, or where the region is up to date.                             *)
WriteFile(s) ==
  /\ stage[s] = "resolved"
  /\ stage' = [stage EXCEPT ![s] = "none"]
  /\ view' = [view EXCEPT ![s] = NoView]
  /\ Emit(s) \/ UNCHANGED <<disk, region, events, wrote>>
  /\ UNCHANGED <<clock, phase, runs, batch, answers, pass>>

(* emit: the pass is over, its writes are recorded.                        *)
EndPass ==
  /\ pass # "none"
  /\ stage = Idle
  /\ pass' = "none"
  /\ selfWrites' = selfWrites \cup wrote
  /\ wrote' = {}
  /\ UNCHANGED <<user, region, events, phase, runs, timer, pending, answers, stage, view>>

-----------------------------------------------------------------------------
(* The watch process.                                                      *)
Down ==
  /\ phase' = "down"
  /\ events' = <<>>
  /\ timer' = FALSE
  /\ pending' = NoPending
  /\ selfWrites' = {}
  /\ known' = NoVersions
  /\ seen' = [s \in Sources |-> NoAnswer]
  /\ pass' = "none"
  /\ stage' = Idle
  /\ view' = [s \in Sources |-> NoView]
  /\ wrote' = {}
  /\ UNCHANGED <<user, region, runs>>

(* A source listed by the pass is gone when the pass reads it: the read    *)
(* throws out of watch() or out of the timer callback.                     *)
Throw ==
  /\ pass # "none"
  /\ \E s \in Sources : MayPrepare(s) /\ disk[s] = 0
  /\ Down

(* watch(): one session, whose checker opens the project, and a full pass  *)
(* before the watcher exists.                                              *)
Start ==
  /\ phase = "down"
  /\ runs < MaxRuns
  /\ phase' = "starting"
  /\ runs' = runs + 1
  /\ known' = disk
  /\ BeginPass("full", Present)
  /\ UNCHANGED <<user, region, events, batch, seen>>

Register ==
  /\ phase = "starting"
  /\ pass = "none"
  /\ phase' = "open"
  /\ UNCHANGED <<user, region, events, runs, batch, answers, work>>

(* The notification callback: drop the echo of an own write, or batch the  *)
(* event under its path and restart the debounce window.                   *)
Deliver ==
  /\ phase = "open"
  /\ pass = "none"
  /\ events # <<>>
  /\ events' = Tail(events)
  /\ LET e == Head(events)
     IN  IF e.path \in selfWrites
         THEN /\ selfWrites' = selfWrites \ {e.path}
              /\ UNCHANGED <<timer, pending>>
         ELSE /\ pending' = [pending EXCEPT ![e.path] = e.kind]
              /\ timer' = TRUE
              /\ UNCHANGED selfWrites
  /\ UNCHANGED <<user, region, phase, runs, answers, work>>

(* planWatchActions over the batch: the sources to regenerate, or all.     *)
Batch == {p \in Paths : pending[p] # "none"}

(* Mutant: a .ts file outside the source set is taken for irrelevant.      *)
NeedsFullKnownOnly(p) ==
  /\ ~ IsGeneratedArtifact(p)
  /\ p = Input(Tsconfig) \/ pending[p] = "rename"

NeedsFull(p) ==
  /\ ~ IsGeneratedArtifact(p)
  /\ \/ p = Input(Tsconfig)
     \/ pending[p] = "rename"
     \/ p \notin {Input(s) : s \in Present}

PlannedFiles == {s \in Present : Input(s) \in Batch}

(* Mutant: the batch is planned but never cleared.                         *)
TakeBatchKept == timer' = FALSE /\ selfWrites' = {} /\ UNCHANGED pending

TakeBatch == timer' = FALSE /\ selfWrites' = {} /\ pending' = NoPending

Flush ==
  /\ phase = "open"
  /\ pass = "none"
  /\ timer
  /\ TakeBatch
  /\ \/ /\ \E p \in Batch : NeedsFull(p)
        /\ BeginPass("full", Present)
     \/ /\ \A p \in Batch : ~ NeedsFull(p)
        /\ PlannedFiles # {}
        /\ BeginPass("files", PlannedFiles)
     \/ /\ \A p \in Batch : ~ NeedsFull(p)
        /\ PlannedFiles = {}
        /\ UNCHANGED work
  /\ UNCHANGED <<user, region, events, phase, runs, answers>>

Close ==
  /\ phase = "open"
  /\ pass = "none"
  /\ phase' = "closed"
  /\ timer' = FALSE
  /\ events' = <<>>
  /\ UNCHANGED <<user, region, runs, pending, selfWrites, answers, work>>

(* The process ends after close, or is killed at any moment.               *)
Exit == phase # "down" /\ Down

-----------------------------------------------------------------------------
Process ==
  \/ \E s \in Sources : Prepare(s) \/ Resolve(s) \/ WriteFile(s)
  \/ Tell
  \/ EndPass
  \/ Throw
  \/ Register
  \/ Deliver
  \/ Flush

User == \E f \in Inputs : Edit(f) \/ (f # Tsconfig /\ (Create(f) \/ Delete(f)))

Next == Process \/ User \/ Start \/ Close \/ Exit

Spec == Init /\ [][Next]_vars

(* The event loop runs what is due: passes complete, queued notifications  *)
(* are delivered, an armed timer fires.  Nothing obliges the user to edit, *)
(* nor anyone to start, close or kill the process.                         *)
FairSpec == Spec /\ WF_vars(Process)

-----------------------------------------------------------------------------
(* Nothing is in flight: no notification, no batched event, no pass.       *)
Quiet ==
  /\ phase = "open"
  /\ pass = "none"
  /\ ~ timer
  /\ events = <<>>

(* The last pass over s has read its text, and it has told the checker of  *)
(* it and loaded what s reads from the disk, as they are now.              *)
Fresh(s) ==
  /\ seen[s].text = disk[s]
  /\ seen[s].checker[s] = disk[s]
  /\ seen[s].worker = Stamp(disk, s)

(* watch() promises to regenerate on file-system events: whenever it has   *)
(* handled every notification, a pass has answered each existing source    *)
(* from its current text, after the last edit of anything it imports and   *)
(* of the tsconfig, however edits, callbacks and the reads and writes of   *)
(* the passes interleaved.  It does not say that the checker knew of the   *)
(* edits of the other inputs: it is not told, and may not.                 *)
FreshWhenQuiet == Quiet => \A s \in Present : Fresh(s)

(* The debounce timer is armed exactly while events are batched: no event  *)
(* waits for a flush that nobody scheduled.                                *)
TimerIffBatched == phase = "open" => (timer <=> Batch # {})

(* The process never retriggers itself for ever: once the user stops, the  *)
(* echoes of its own writes (sidecars, query files, inplace sources) die   *)
(* out and an open watcher comes to rest.                                  *)
ComesToRest == <>[](phase \in {"starting", "open"} => Quiet)
=============================================================================
