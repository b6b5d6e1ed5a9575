# TLA+ models of tskm

tskm is a schema library for TypeScript (`src/packages/tskm`) with a compiler
(`src/packages/compiler`) that resolves the type of every exported schema with
the native TypeScript checker (tsgo) and writes the types as plain aliases, in
a sidecar file or in place, and a Vite plugin (`src/packages/vite`) that runs
the compiler before every build. The compiler also writes JSON Schema
documents, and a playground (`src/playgrounds/tskm`) runs it in the browser.

This directory holds TLA+ models of the parts of that program whose
correctness depends on the order of events, on failures, or on a fixpoint, the
configurations that check them with TLC, and proofs that TLAPS checks.

    tlc -config MCWatchSidecar.cfg MCWatch.tla     # a run
    tlapm WatchProofs.tla                          # the proofs of a module

## The system

| component | state it keeps | operations | what is hard about it |
|---|---|---|---|
| watch mode (`compiler/src/watch.ts`) | debounce timer, batch of events, outputs whose echo is to be dropped, `open` | notification, flush, close, abort | the user edits between any two steps; own writes come back as notifications; the planner may only skip what cannot be stale |
| compile session (`compiler/src/session.ts`) | checker client, project, batch of registered query files | `generateAll`, `generateFile`, `close` | every call may throw; query files must not outlive the call; several aliases of a file fail independently |
| checker client (`compiler/src/tsgo-client.ts`, `query-core.ts`) | the snapshot of the project, overlays | open, update, overlay, query, close | answers come from the last snapshot the client told the checker about |
| resolution (`resolve.ts`, `structural-resolve.ts`, `prune.ts`, `emit.ts`) | none between passes, except the sidecar | split, check, walk, merge, prune, gate, emit | partial results; references between aliases; all-or-nothing emission |
| Tier-1 and the oracle (`tier1.ts`, `verify-splice.ts`) | none | unroll, probe, splice | a splice must not change the type |
| walkers (`structural-ts.ts`, `jsonschema.ts`, `cycle-guard.ts`) | stack and names of a walk | walk, reserve a name, define it | cyclic schema graphs, several roots on a cycle, getters that build anew |
| workers (`worker-harness.ts`) | temporary envelope, child process | spawn, time out, read the envelope | timeouts, partial output, a child that runs user code |
| inplace emitter (`inplace.ts`) | none; the regions in the source and their hashes | scan, locate, replace | the source is input and output, and the user edits it |
| JSON Schema (`jsonschema.ts`, `jsonschema-adapter.ts`) | documents on disk | call a worker per source, route by vendor, write | one source fails, the others go on |
| Vite plugin, builds (`vite/src/index.ts`) | current wave, environments that have built | `configResolved`, `buildStart`, `buildEnd` | several environments share one pass, overlap, fail and rebuild |
| Vite plugin, dev server | watch controller | `configureServer`, `closeWatcher` from three hooks | start, close and restart around awaits |
| runtime (`tskm/src/schemas`, `methods`, `actions`) | none; a dataset per run | `~run`, `safeParse`, `safeParseAsync` | the order of issues, abort modes, a dataset shared by a pipe, awaits between reads of the input |
| compiled validators (`tskm/src/compile.ts`) | a cache of steps; one mutable cursor per run | compile, run | must agree with the runtime in every detail |
| playground (`playgrounds/tskm`) | two panes, their requests, temporary projects | edit, fire, abort, answer | late answers to older texts |
| configuration (`config.ts`, `cli-core.ts`) | none | load, default, override | what an argument replaces |
| publish script (`scripts/publish.ts`) | manifests on disk, the registry | check, publish | fails in the middle |
| discovery, token scan | none | scan | syntax |

The components interact as follows. The watcher and the Vite plugin call
`generateAll`/`generateFile` of a session. A session reads the sources, discovers
the targets, registers query files (on disk, or as overlays of the checker),
asks the checker, spawns a worker that imports the sources and walks the
schemas, merges both answers, prunes what does not stand alone, and writes the
output; the write is seen by the watcher again. The json-schema command spawns
the same kind of worker with the other walker. `PROJECT.json` lists, next to
each component, how far it is modelled, and every hazard with the line where it
bites and the properties that cover it.

## The modules

| module | what it models | uses |
|---|---|---|
| `Watch` | the watcher, its passes, the kernel and the user | |
| `SharedPass` | what the plugin promises to environment builds (abstract) | |
| `ViteWave` | the generate waves; implements `SharedPass` | `SharedPass` |
| `Vite` | the plugin instance: waves composed with the dev server hooks | `ViteWave` |
| `Resolution` | one file through the resolution pipeline | |
| `QueryFiles` | query files and the checker's program | |
| `Walker` | both walks over a schema graph | |
| `WorkerCall` | what a worker call promises (abstract) | |
| `Worker` | parent and child of a call; implements `WorkerCall` | `WorkerCall` |
| `Documents` | the json-schema command: workers composed over the sources | `Worker` |
| `Inplace` | inplace passes and the edits of the file they write | |
| `Playground` | the panes, their requests, the endpoint | |
| `Validation` | the interpreter: what `~run` of each schema does | |
| `Compiled` | compiled validators beside the interpreter | `Validation` |
| `Async` | `safeParseAsync` beside both, with a caller who changes his value | `Compiled` |

Every model abstracts text: the content of a file is a version number or a
sequence of kinds of lines, a rendered type is the set of names it refers to, a
query body is the number of the pass that wrote it. All control is kept: guards,
early returns, the order of effects, and what each error path leaves behind.

### Watch: `Watch.tla`, `MCWatch.tla`, `WatchProofs.tla`

Three actors share the disk. The *user* (`Edit`, `Create`, `Delete`) acts at any
moment, also between two reads or writes of a pass. The *kernel* queues one or
two notifications of a change, or merges the notification with an equal one
that is queued last (`Arrivals`). The *watch process* is single-threaded:
`Deliver` is the `fs.watch` callback (drop an echo, or batch the event and
restart the timer), `Flush` the timer callback with `planWatchActions`, `Throw` a
source that vanished before it was read, `Close` the controller, `Exit` the end of
the process. `Start` and `Register` are `watch()` up to the initial pass and from
there on.

A pass goes source by source. `Prepare` reads a source (`view`), or finds nothing to
resolve in it; `Tell` tells the checker which sources have changed; `Resolve`
asks the checker about one source and has a worker load it; `WriteFile` emits, or
leaves the file alone (nothing resolved, the result does not compile, the region
is up to date); `EndPass` records the writes. A full pass prepares all sources
before it tells the checker of them in one snapshot, `generateFile` goes through
them one after the other. The user may act between any two of these steps. The
three readers see different things, and `seen[s]` records what s was last answered
from: the text the pass has read, the files of the checker's program (`known`:
those of the start, but for the sources it has been told of since) and the disk
at the time the worker loads it. `region[s]` is the same for the region in the text
of s, in inplace mode.

`FreshWhenQuiet` is what the watcher can promise: whenever no notification, no
batched event and no pass is left, a pass has answered every existing source from
its current text, has told the checker of that text, and its worker has loaded what
the source imports, and the tsconfig, as they are now. It does not say that the
checker has seen the last edit of a helper or of the tsconfig: it is not told of
them, see Observed. `TimerIffBatched` says that no event waits for a flush nobody
scheduled, `ComesToRest` that the process does not retrigger itself for ever through
its own writes.

Fairness: weak fairness of `Process`, the steps of the watch process alone. The
JavaScript event loop runs what is due: a pass runs to its end, queued
notifications are delivered, an armed timer fires. Nobody is obliged to edit,
start, close or kill. A continuous stream of edits postpones the pass for ever
in the code (`watch.ts:194-197`, every event restarts the window); the bound on
the edits rules this out of the runs, and no property claims the contrary.

### The Vite plugin: `SharedPass`, `ViteWave`, `Vite`, `MCVite`, `ViteProofs`

`ViteWave` is the hooks of one plugin instance called by several environment
builds. `BuildStart` joins the current wave or begins one; it calls
`deps.generate()` before its first await, so the decision and the start of the
pass are one step. `Awaited` is the await of the shared promise, `BuildEnd`
closes the wave after a build and after an error alike, `ConfigResolved` drops
wave and environments. `Read` and `Settle` are the pass itself; `Edit` is the
user. The variables `base`, `builds`, `since` and `alone` are history: no guard
of the code's actions reads them.

`SharedPass` says what builds are promised without a word about waves: a build is
served by a pass of the current configuration that is strictly newer than the
one that served its environment's last build, and a pass is started only for a
build. `SharedPassSpec` instantiates it with the number of passes for `started`;
it is an action-level refinement without fairness.

`Vite` composes the waves with the dev server. A process either builds or serves
(`dev`). `CreateServer` and `CloseServer` are Vite; `ConfigureServer` up to its
await and `WatchReady`/`WatchRejects` after it are the hook. `CloseWatcher` is
the function the http server's close event (`OnHttpClose`, not awaited), the
environments' `buildEnd` (`DevBuildEnd`) and `CloseBundle` all call, in any
order. The order of a restart is Vite's: the next server is created while the old
one is up (`over`), and the old one is closed once the new one is up. With the
plugin in an inline config both run over one instance, so that the new server's
`configureServer` may find the old watcher and the old server's hooks close it.
One server is created at a time, and a server is closed only when it is up. Seen from
the waves a step of `ViteSpec` is a step of `ViteWave!Next`: where a watcher serves,
`buildStart` returns at once and there is no wave to join.

`OneGeneratePerWave` and `NewConfigNewPass` are the two halves of "once per
wave, and never an old one"; `NeverSamePass` says that every build of an
environment takes a strictly newer pass than its previous one;
`RebuildSeesEdits` is what the `closed` flag is for. `WatchedWhileUp` and
`NoOrphanWatcher` tie the watchers to their servers through every order of the
three closing hooks. Of a server that replaces another one `WatchedWhileUp` speaks
until the close of the old one begins: from then on the code keeps no watcher for it,
see Observed.

### Resolution: `Resolution.tla`, `MCResolution.tla`, `ResolutionProofs.tla`

One source file with several targets. `Prepare` discovers the targets, `Check` is
the checker's half (each alias resolves or is skipped), `WorkerFails`/`WalkAll`
the worker's (every canonical target is walked, cycles of bare aliases are
dropped, the duplicates of an export become thin aliases of the canonical one),
`Merge` puts structural bodies in place of checker types except where Tier-1
upgraded them, `Prune`/`Pruned` is the loop of `pruneDanglingAliases` one
iteration at a time, `KeepSidecar`/`EmitSidecar` the compile gate and the
emission. What the checker, the worker, Tier-1 and the gate answer is chosen
freely at each step, so a run explores every combination of partial failures.

`AliasesResolve` says the file on disk never names an alias it does not declare,
`NoAliasCycle` that it never holds `type A = B, type B = A`, `PruneExact` that the
loop drops no more than it must: it ends in the greatest set of bodies that can
stand together, whatever the order of the targets.

### Query files: `QueryFiles.tla`, `MCQueryFiles.tla`, `QueryFilesProofs.tla`

A scope of registered query files goes through `write`, `notify`, `open`,
`remove`, `unnotify` and `shut`, one effect per step. `generateAll` holds the scope
"batch" for a whole pass; `withQueryFile` opens the scope "single", nested in it
or alone. Every step may throw (`Fault`, bounded by `MaxFaults`), a dead checker
throws at every call, and the process may be killed between any two steps. A
throw runs the cleanup of the scopes it crosses, in the code's order:
`RegistrationFails` inside the try, `Raise` out of the cleanup. With overlays
nothing is written to disk and the cleanup uncovers what is there. `orphans` and
`ghosts` record which removals failed or were cut off; they are history.

`NothingLeft` is the doc's "Always cleans up, whatever `fn` does": every query
file on disk and every one the checker still knows belongs to an open scope,
unless its own removal failed or a kill cut it off. `AnswersAreCurrent` says a
query is answered from the body this pass registered, never from none and never
from a stray one of an earlier pass or a killed process.

### Walks: `Walker.tla`, `MCWalker.tla`, `WalkerProofs.tla`

The recursion of the two emitters over the objects of a schema, as an explicit
stack: `mode` selects `jsonschema.ts` or `structural-ts.ts`. A graph gives each
schema its kind and its parts; a schema in `fresh` is built anew by each call of
the getter that leads to it, so an object is a schema and a copy number. What
precedes the guard is one action per early return (`ReferToAlias`,
`RefuseForeign`, `TooDeep`...); `ReferToHoisted`, `Hoist`, `Enter` and `Leave`
are the branches of `walkWithCycleGuard`. `AssignDefName` is the postcondition of the
loop that looks for a name, the first candidate nobody has taken (`IsFirstFree`).
`Halted` is the walk that has returned or thrown; every other state must have a
step, so the run checks for deadlock.

`ReferencesResolve` says that no reference dangles when a walk ends, although
names are handed out while bodies are still walked; `NamesDistinct` that a
reserved name is never given twice, `HoistedOnCycle` that a schema outside every
cycle stays inlined, `GuardEndsWalk` that only getters which build new objects
can exhaust the depth limit or the stack.

### Workers and documents: `WorkerCall`, `Worker`, `Documents`, `MCDocuments`, `DocumentsProofs`

`Worker` has the two processes of a call. The parent (`Spawn`, `Timeout`,
`Collect`, `Interrupt`) shares the envelope file and the exit status with the
child (`Import`, `Extract`, `Emit`, `Report`, `EndWrite`, `Exit`, `Dies`), whose
user code may exit, hang, throw, or fail after the envelope is complete; a write
is not atomic. `WorkerCall` is the promise: a call fails with one diagnostic, or
answers with the entries of *all* exports in order. `CallSpec` is the refinement.

`Documents` runs one call after the other over the sources. `CommandConfig`
resolves the configuration, which `--out` replaces as a whole; `ViaAdapter`
routes each export by its vendor; `Answer` writes the document and collects the
diagnostics, which are kept as a set of lines. A write (`Write`) may throw, before it
has touched the file or in the middle: then the command rejects (`rejected`), later
sources are not run, and the list of files and the diagnostics are lost. A document
carries the source it was made of, since two sources of one base name share a path
under `outDir`. What a source may export is
constrained by `IsValue`: `@tskm/core` gives its schemas both marks, and a value that
is no tskm schema converts through its own converter or one of the two packages
the adapter knows. `DocumentOfEachSource` says what is on disk at every path: the
document of the last source that should have written it, with all the exports a
reader of the docs expects in it and no others, and nothing new at a path no source
should have written; a source should write when one of its exports is wanted and its
worker has not failed. Only the path of a write that threw is in doubt.
`EverySourceAnswered` says of a command that returns that it passes over no
exported schema in silence: each is in a document that is reported as written, or a
diagnostic tells of it, of its vendor or of its source's worker. `CommandEnds` says
that whatever the user's modules do the command ends, by returning or by rejecting,
unless it is interrupted.

Fairness: weak fairness of the parent's steps and of the timeout of `spawnSync`,
which the runtime enforces with `SIGKILL`. None for the child: it may hang.

### Inplace: `Inplace.tla`, `MCInplace.tla`

The file is a sequence of kinds of lines; sentinels carry names and a hash.
`Regions`, `Corrupt`, `RegionOf` and `MarkerOf` are the scan, `Replacements` and
`Applied` the rewrite. Between the passes the user deletes, inserts and copies
lines and regions and renames schemas in fences. Assumed of him (`Honest`): the
text in a fence is the one its hash was made for. `TextKept` says that a pass
changes nothing outside the fences it owns, `PassConverges` that the next pass
over the same answers changes nothing.

### Playground: `Playground.tla`, `MCPlayground.tla`, `PlaygroundProofs.tla`

Each pane is an effect with numbered requests: `Edit` and `RunEffects` are React,
`Fire` the debounce timer, `MakeRoot`/`Compile` the endpoint's handler,
`Deliver` the answer, `Disconnect` a connection that fails; without the
endpoint `UpsertModels`, `NotReady` and `WorkerAnswers` are Monaco's worker over
two shared models. `AnswersCurrentTexts` says a pane never shows the answer to
older texts, `NoProjectLeft` that a temporary project ends with its handler,
`PanesSettle` that both panes come to an answer once the user stops. Fairness:
weak fairness of `Step`, everything but the user's edits.

### Validation: `Validation`, `Compiled`, `Async`, `MCCompiled`, `MCAsync`, `ValidationProofs`

`Validation.tla` is the interpreter: `Run(schema, dataset, config)` is the `~run` of
a schema. A schema runs its children by calling the method they carry, and so `Run`
is a parameter, the methods; `RunBody` is what the method of each factory does, in
terms of the calls it makes in turn, and `RunAssumption` says that the methods do
that. The recursion is over the calls: `Calls` holds those of the program, with
every call that one of its members makes (`Inner`), and `Rank` bounds the depth of
each. That is the one restriction: the values are finite and the schemas consume
them, so a recursive schema applied to a cyclic value, or one that reaches itself
without taking the value apart, on which the code does not return either, has no
rank and is excluded. `IsSchema`, `IsValue` and `IsDataset` say what the factories
build and what `~run` is given. A schema is a record named after the factory that
built it, a dataset is `[value, typed, issues]`, and the functions of a user
(getters of defaults, checks, transforms, other libraries' schemas) are tables. The
containers share one loop (`Enter`, `Visit`, `Leave`), as their code does line by
line; what an abort leaves behind, which issues get which path, and when `typed` is
cleared are kept exactly. `expected` and `received` are functions of an issue's type
and input and are left out. An operation of the user may report any number of issues
in one call, by calling `ctx.issue` and by throwing (`transform.ts:36-51`,
`preprocess.ts:164-166`; `preprocess.test.ts:191-203` pins two errors of one call).
The `__proto__` case of `_safeAssign` is the assignment of an own property. A
foreign schema of the model keeps the contract of `types/dataset.ts:25-29`, by which
an untyped dataset has an issue. The `thisProbe` fixture of
`compile.test.ts:342-359` breaks it: its dataset is untyped and without issues, and
passes as a success. `UntypedFails` and `RunAnswers` hold of schemas that keep the
contract and of no others.

`Compiled.tla` is `compile.ts`: the same schemas as steps that share one mutable
cursor, which holds the issues of the whole run, so that a container has to find its
own by a mark (`From`, `Before`). The routing is part of it: `Code` decides by the
factory and never by the public `type`, which `pipe` copies and a foreign schema may
claim; what is not specialised runs its own `~run` (`StepFallback`). `Step` is the
closure `compile()` returns, a parameter as `Run` is: `StepBody` says what it does,
and `Cursors` holds the steps that are taken (`InnerSteps`). In the runs `Run` and
`Step` are `RunBody` and `StepBody` themselves, and TLC evaluates the assumptions on
all calls and steps of the instance. The machine is a caller that runs `safeParse`
and `safeParseCompiled` on one input.

`Async.tla` adds `safeParseAsync`. A pending `~run` is a frame on a stack, a step
is what runs between two awaits, and each async schema says what it takes from
an awaited child (`ObjectTakes`, ...) and how it goes on (`ObjectGoesOn`, ...).
The caller's value is known by reference, and he may change it between two steps
(`Change`): top-level properties or elements, within its type. `Root` stands for the
reference, in the value of a dataset and in the `input` of an issue, and `Deref`,
`Seen` and `Resolved` for what a reader finds behind it; `RootAssumption` says that
it is a new value, one that no dataset of a synchronous call holds.

`ByteIdentical` is the promise of `compile.ts`; `UntypedFails` that no wrapper, union
or fallback turns a value of the wrong shape into a success;
`RejectStopsAtFirst` that under `reject` nothing else runs once an error has been
recorded, so that what follows the first error can only be the rest of the same
operation's report; `GateAgrees` that the abort modes report less but never decide
otherwise. `AsyncAgrees` says that on a value nobody changes the async
forms, which repeat the code of the sync ones, return the same result;
`SuccessIsWhole` that on a value that does change a success is still a value the
schema accepts: every part of the output was checked, not read a second time. It
speaks of outputs the call has built. Where the output is the caller's own object
(`pipeAsync(any(), checkAsync(...))`, which the run contains), it changes with the
caller, also after it was checked: see Observed.

## The runs

| run | instance and bounds | what it shows |
|---|---|---|
| `watch_sidecar` | two sources, a helper one of them imports, the tsconfig; two user operations of any kind; two starts | `FreshWhenQuiet`, `TimerIffBatched`, `ComesToRest` in sidecar mode, with kills, closes and restarts (2.1 million states) |
| `watch_inplace` | the same, inplace mode, edits also before registration, one start | `ComesToRest` although every output is an input |
| `vite` | two environments, two edits, four passes, three configurations or three servers | all plugin properties, and the refinement of `SharedPass` (4.6 million states) |
| `resolution` | six files of up to three targets: mixed kinds, duplicate aliases, duplicate exports; `nameSharedSchemas` on | all resolution properties |
| `resolution_untouched` | the same files, two passes | counterexample: an alias "left untouched" disappears |
| `query_files` | two sources, three passes, two faults, one kill | all query file properties |
| `walker` | every connected graph of three schemas with up to two parts each, with objects, wrappers, lazies, templates, transforms and foreign schemas; getters that build anew; four maps of exports; both walks | all walker properties |
| `documents` | two sources of one base name in two directories, up to two exports of each kind the adapter tells apart, three project configurations, with and without `--out`, writes that throw | all document properties, and the refinement of `WorkerCall` |
| `inplace` | two aliases, two schemas, two types, up to eight lines, three edits between passes | `TextKept`, `PassConverges` |
| `inplace_edit` | the same, with an edit at any moment | counterexample: an edit during a pass is overwritten |
| `playground` | two texts in each editor, two changes, with and without the endpoint | all playground properties |
| `compiled` | every container and wrapper over a set of leaves, two levels of nesting, a recursive schema: 609 schemas; 44 inputs that match, mismatch and half match; operations that report two issues; the three modes; 82 of the schemas also awaited, with one change of the input | all validation properties (80,388 calls) |

Why the bounds are enough. *Watch*: two user operations suffice for one before and
one during a pass, an edit and a deletion of the same file, or an edit of a source
and of what it imports; every mutant needs no more. A second start covers a restart
on top of old output. *Vite*: with two environments, one may overlap, precede or
follow the other; four passes allow each to rebuild once after a failure and once
more after a new configuration; three servers are an old one, the one that replaces
it and one that comes after both, or three started in turn. *Resolution*: three
aliases give chains and cycles of length two and three and a cascade of two prunes;
the proofs do not depend on the number. *QueryFiles*: two faults hit a registration
and the cleanup that follows it, three passes allow one to leave a stray file, one
to meet it and one after; both sources are interchangeable, hence the symmetry.
*Walker*: three schemas with two parts give nested and crossing cycles, a cycle
entered in its middle, and a schema shared by two others; `MaxDepth` 5 is more than
the longest stack of distinct objects, so it is reached through getters that build
anew and in no other way. *Documents*: sources share nothing but the disk and the
order, so two show what a failure does to its successor and its predecessor; both
have one base name, so with `outDir` they share a path and without it they do not.
*Inplace*: eight lines hold two regions and text around and between them; three
edits break a fence, copy a region and restore it. *Playground*: two changes give
three generations of requests, one answered, one aborted, one current. *Compiled*:
two children show every order of a failing, warning and valid one, two levels every
propagation through a container, and the tables of the leaves hold a value that is
accepted, one that is rejected and one that is mapped. One change of the input can
fall between any two reads of a call.

`CHECK_DEADLOCK FALSE` is in every configuration but the walker's, because every
other one of these programs may stop: the user's edits, the passes and the starts
are bounded, and a watcher with nothing to do waits.

### What the violation runs show

Two documented statements do not hold of the code; each run checks the
statement alone and TLC prints a short behaviour.

* `resolution_untouched`: the sidecar is rewritten as a whole, so an alias
  reported with "Existing output left untouched" loses its declaration when
  another alias of the file resolves (`session.ts:399`).
* `inplace_edit`: a pass relies on sources that do not change, "which holds for a
  one-shot build and for watch (any on-disk edit re-triggers a fresh run)"
  (`session.ts:472-476`), but it writes back the text it read (`session.ts:145`,
  `348`): the fresh run finds the edit gone.

## The proofs

TLAPS proves the following for every value of the constants that satisfies the
`ASSUME` of its module. TLC evaluates the assumptions in every run.

* `WatchProofs`: `TypeCorrect`; `TimerCorrect` for `TimerIffBatched`, by an
  invariant that ties the timer to the batch in every phase; `EventuallyFresh` for
  `FreshWhenQuiet`, under `SimpleSidecar` (sidecar mode, no source imports a source,
  no edit before registration). Each hypothesis is needed: without it the code has
  one of the first three behaviours under Observed. The inductive invariant
  `FreshInv` says that each existing source is `Settled`: a *signal* will regenerate
  it (`Signal`: a queued notification or a batched event about one of its inputs),
  or it is `OnTheWay`: a pass has yet to read it, or the text the pass has read, and
  has told the checker of, is still the one on disk, or it is fresh.
  `FreshWhenQuiet` alone is not inductive, because it says nothing while something
  is in flight.
* `ViteProofs`, the waves: `TypeCorrect`; `OneGenerate`, `CleanConfiguration` and
  `PassesIncrease` from one invariant, `WaveInv`: the wave holds the newest pass,
  its consumers are environments that have built, everyone else holds an older one,
  and an environment counts as seen exactly when it has built since
  `configResolved`. `RebuildFresh` needs `RebuildInv` on top: an open wave has a
  build under way, so a rebuild that starts alone cannot join one.
  `WavesImplementSharedPass` is the refinement: `ConfigResolved` is
  `NewConfiguration`, a build that begins a wave is `ServeByNew`, one that joins is
  `ServeByStarted` (lemma `JoinServes`, from `WaveInv`), every other step a stutter.
  These theorems are about `ViteWave!Spec`, the waves alone.
* `ViteProofs`, the plugin as a whole, carries them over: by lemma `PluginStep` a
  step of `ViteSpec` is a step of the waves, since a process that serves has no wave
  to close (`DevHasNoWave`). So `PluginOneGenerate`, `PluginCleanConfiguration`,
  `PluginPassesIncrease`, `PluginRebuildFresh` and `PluginImplementsSharedPass` hold
  with any number of server restarts between the builds. `ServesWatched` and
  `WatchersStop` are about the servers themselves. `WatchedWhileUp` is not
  inductive, because one controller variable is shared by all servers and cleared
  from three hooks. `ServerInv` has three parts. `OrderInv`: the servers before one
  that was created are over, but for the one it replaces, which is up until the new
  one is (lemmas `Newest`, `Oldest` and `OrderStep`). `WatcherInv`: only the watcher
  the plugin holds is on, started by a server that is up or is closing with
  `closeBundle` still to run; a watcher that is starting is awaited by the server
  being configured; and while every server that is up stands alone or beside the one
  it replaces, a watcher is held. `ModeInv`: a process that serves starts no pass,
  one that builds has no server.
* `ResolutionProofs`: `TypeCorrect`; `SidecarsResolve` and `PruneIsExact`. The
  invariant is that every set of bodies that can stand together survives the prune
  so far; a pruned body names a sibling that is gone, so it is in no such set.
  `SidecarsHaveNoCircle` is `NoAliasCycle`: no body ever names a duplicate, a
  checker type is never bare, and `Merge`, `Prune` and the gate add no bare body, so
  a circle in the sidecar would be one among the bodies the walk resolved, and those
  that lie on one were dropped there (`CircleInv`).
* `QueryFilesProofs`: `TypeCorrect`, `CleansUp` and `CurrentAnswers` from `IInv`: a
  shut scope owns nothing (`ShutInv`), scopes nest and own different files
  (`NestInv`), what a scope has written or removed so far is on disk or gone
  (`DiskInv`), and with overlays the disk is left alone (`OverlayInv`).
* `WalkerProofs`: all four properties of the walk, for every graph, from `WalkInv`.
  `GuardInv`: an object is marked exactly while a frame of the stack walks it, and
  no two frames walk the same one. `NamesInv`: names are distinct, and a name
  without a definition belongs to an object still on the stack. `RefersInv`:
  whatever a body, a definition or the result refers to is a reserved name (JSON)
  or, unless the type is refused, a declared alias, and then only the root is
  hoisted (structural). `PathInv`: what a frame walks is reachable from every frame
  below it, so that a back-edge closes a cycle of the schema (`HoistsOnlyCycles`;
  reachability is the least closed set, which needs no recursion).
  `GuardAloneEndsWalk` has the hypothesis that a graph has fewer schemas than
  `MaxDepth`: without objects that getters built, a stack holds each schema once at
  most (lemma `StackBounded`, a pigeonhole). A longer chain of schemas does reach
  the limit, in the code as well.
* `DocumentsProofs`: `WorkerImplementsCall` for a call on its own and
  `CommandImplementsCall` for the calls of the command (whose `Modules` are the ones
  its sources may yield), by `WorkerInv`, which ties the entries extracted so far
  and the content of the envelope file to the child's progress. What the child has
  extracted after n exports is the value at n of a recursive function
  (`WorkerCall!EntriesOf`); that this function is defined, and that its entries are
  those of the exports, needs an induction, done by the smallest counterexample
  (lemma `LeastNatural`, from the well-foundedness of the order on the naturals).
  `EnvelopeRemoved`, `NoSourceSilent` and `DocumentsOwnSchemas` follow from
  `CommandInv`: of every source before the current one each exported schema is in a
  file or told of, no diagnostic speaks of a source that is still to come, and the
  outcome the command holds is about the current one. A step of `Answer` makes the
  current source the last of the writers of its path, or leaves the writers of every
  path as they are (lemma `WritersStep`), whatever the base names; so
  `DocumentsOwnSchemas` needs no assumption about them.
* `PlaygroundProofs`: `PlaygroundTyped`, `ShownIsCurrent` for `AnswersCurrentTexts`
  and `ProjectsRemoved` for `NoProjectLeft`, from `PlaygroundInv`: a timer that is
  set, and an answer awaited from the endpoint, belong to the last run of their
  effect and to the texts it saw (`RequestInv`); and each edit makes an effect run
  once at most (`RunsBounded`).

* `ValidationProofs`: the runtime, its compiled validators and its async calls, for
  any schemas, inputs and configurations. `RunAnswers` is about every call of
  `~run`: the dataset is typed or has an error, under `reject` has nothing behind
  its first error but what the same operation reported with it, fails exactly when
  the report mode does, and is the report mode's dataset when it does not.
  `StepFollowsRun` is about every compiled step: it leaves in the cursor the dataset
  that `~run` of the same value returns, with its issues behind those the cursor
  had. Both go by the smallest counterexample, a call of least rank for which the
  statement fails (lemma `LeastNatural`): all calls it makes have a smaller rank,
  and one lemma per schema (`ObjectAnswers`, `StepObjectFollows`...) shows that the
  body keeps the statement. The loop over the children is a recursive function;
  lemmas `VisitsLoop` and its siblings show that it is defined, and the invariants
  of the loops are `Loops` (the two modes are at the same place, or both have met an
  error) and the step-wise form of `Behind`. `CompiledByteIdentical`,
  `UntypedAlwaysFails`, `RejectStops` and `ModesAcceptTheSame` follow from `CInv`:
  whatever the caller has got, from `safeParse` or from `safeParseCompiled`, is the
  dataset of that one run. None of the four is provable schema by schema on its own:
  that a container stops at the first error rests on its children stopping at
  theirs, and that a fallback or a union accepts in both modes on the children
  failing in both.
* `ValidationProofs`, the async calls: `AsyncFollowsSync` for `AsyncAgrees`, over
  any schemas, awaits and depth, from `AInv`: while the caller has not changed his
  value, the stack and the next step are `Consistent`. Each frame runs the call that
  the frame below awaits, and is where the loop of the synchronous `~run` is after
  as many children (`IsFrame`, and per schema `ObjectProgress`, `RecordProgress`,
  ...: a record is before a property, or between its key and its value). What is
  about to be returned is, read through the references, the dataset of the call
  (`Returns`). Three lemmas carry it, over one lemma per schema each: a call begins
  a frame (`FrameBegins`), a frame that goes on awaits a call the runtime takes or
  returns the synchronous answer (`FrameGoes`), and a frame that takes over an
  awaited child is still one (`FrameTakes`). That the awaited calls have ranks is
  what ends the recursion; the async proof needs no induction of its own, since the
  answer of a child is known before its parent resumes. Records rest on `IsValue`:
  an object has no two properties of one key, otherwise the value read at an await
  could be another one's. `ConsistentKept` says that the invariant depends on the
  caller's value and the configuration alone. `AsyncRefinesCallers` carries the four theorems
  above over to the callers of `Async`.

Only model-checked: the liveness properties (`ComesToRest`, `CommandEnds`,
`PanesSettle`), which are out of the prover's reach; the inplace mode of the
watcher, whose run checks liveness only; `TextKept` and `PassConverges` of `Inplace`,
about a scan and a rewrite of whole texts; `SuccessIsWhole`, whose frames hold parts
of several values of the caller, so that no synchronous run is left to compare them
with; and the violation runs.

## Observed, without a run

In watch mode. TLC gives each of the first three as a counterexample to
`FreshWhenQuiet` when the instance allows it, and the last as one to the stronger
claim that `seen[s].checker` agrees with the disk in what s reads:

* The planner's over-approximation does not cover a source that imports another
  source: the importer is not regenerated (`watch.ts:87-92`).
* In inplace mode an own write is remembered until the next flush. When its echo
  never comes as a notification of its own, the user's next edit of that file is
  dropped in its place (`watch.ts:123-124`, `188-191`).
* An edit after the initial pass has read a source and before `fs.watch` is called
  triggers nothing (`watch.ts:140`, `179`).
* A rename followed by a change of the same path within a window is batched as a
  change (`watch.ts:193`) and plans less than a rename would.
* The session opens the project once and tells the checker of sources only
  (`session.ts:241`, `432-441`, `479-483`), where `tsgo-client.ts:124-127` has every
  later write flow through `updateFile`/`updateFiles`. After an edit of a helper or of
  the tsconfig the planner starts a full pass in that same session, which may
  answer from the old text of both.

In the compiler and the plugin:

* A rebuild that joins a wave still open may share a pass that has read the
  sources before its edits (`vite/src/index.ts:125-127`).
* With the plugin in an inline config Vite restarts over one instance: the new
  server's `configureServer` finds the old watcher and starts none
  (`vite/src/index.ts:137`), and then the old server's close ends the only watcher
  (`152-166`). The new server is up and nothing regenerates.
* With `nameSharedSchemas` a structural body replaces a checker type and may then
  be pruned; the checker type is not restored (`session.ts:265-267`, `307`).
* The diagnostic of a bare cycle promises the checker-resolved type also for
  recursive roots, which have none (`structural-resolve.ts:202-208`).
* A file whose last schema is removed keeps its old sidecar (`session.ts:206-208`),
  and a source whose last schema is removed its old document (`jsonschema.ts:460`).
* Query file names collide for unusual sources: `a.verify.ts` next to `a.ts`, or
  `a.mts` next to `a.ts` (`session.ts:20`, `resolve.ts:121`).
* After a kill, a stray `query` file is removed by the next pass over its source;
  stray probe files are removed only by a pass that runs the same probe.
* A marker of another type inside a generated region makes two spans overlap,
  which the comment at `inplace.ts:375-376` rules out.
* The structural walk of getters that branch and build anew is exponential up to
  its depth limit; the JSON walk has no limit but the stack.

In the json-schema command:

* With `--out` the config file is not read at all (`cli-core.ts:163-166`);
  `config.worker` has defaults nothing reads (`jsonschema.ts:411-412`).
* `config.ts:10-13` speaks of `<base>.schema.json`, the code writes `<base>.json`.
* Two sources of the same base name with `outDir` write one document
  (`jsonschema.ts:356`). It is the later one's, and the first source is still reported
  as written.
* Nothing creates the directory of a document: `writeFileSync` (`jsonschema.ts:469`)
  throws for an `outDir` that does not exist. The command rejects, later sources are
  not run, and the diagnostics collected so far are lost (`cli-core.ts:162-174`).
* `jsonschema-adapter.ts:16-18` says one schema's failure never aborts the file. That
  is so for other vendors; the branch for tskm schemas (`69-72`) has no `try`, so a
  getter that throws, or a literal with no JSON text, leaves the file without a
  document (and with a diagnostic of its worker).
* A document nests each schema under its export name (`jsonschema.ts:465-469`),
  where a `$ref` of `#/$defs/Name` (`jsonschema.ts:91`) does not lead.

In the runtime and the playground:

* The warning of a `preprocess` is in the dataset when a union is run, and a member
  that matches with a warning of its own replaces the issues of the dataset
  (`schemas/union.ts:51`), so the first warning is lost.
* `abortEarly` and `reject` end a run at the first error, but one operation may put
  several issues behind another: `preprocess` keeps those of `ctx.issue` and adds the
  thrown one without a look at the configuration (`preprocess.ts:164-166`).
* `pipeAsync(any(), checkAsync(...))` succeeds with the caller's own object. A change
  after the check has read it and before the promise is taken over is in the output,
  which the schema may then reject.
* A foreign schema that answers untyped without an issue passes as a success
  (the `thisProbe` fixture, `compile.test.ts:342-359`).
* `regex()` with a `g` or `y` flag keeps its `lastIndex` (`actions/regex.ts:25`): the
  same value may pass once and fail once.
* Without the endpoint the check of the input ignores its abort signal and shares
  two models, so a pane may show an answer to older or mixed texts;
  `AnswersCurrentTexts` therefore speaks of the endpoint only for that pane.
* The endpoint's run of the compiler has no timeout.

## Not modelled

The layout of generated text, wording and logging; the token scan and the
syntax-directed part of discovery; the Tier-1 splice, which edits a rendered type
at the positions the checker reports, and the fixpoint oracle's comparison: both
depend on what the checker prints, and the models take their answers as free.
Arguments and `init` of the CLI; the predicates of string and number checks and
`templateLiteral`, whose control is that of `check` and `string`; the editor and
views of the playground; benches, examples and tools. Of the sessions, the
release of snapshot handles. The publish script runs outside the program. Real
time: a debounce window is a timer that may fire at any moment while it is armed.

What the models take from outside: Vite creates its servers one after the other, and
in a restart closes the replaced one once the new one is up (a close that user code
asks for during a restart is not modelled); an error text of a worker is never empty; the
caller of `safeParseAsync` changes properties or elements of the value he passed,
not values nested in it.

## Plan

Done: watch, the plugin with its dev server, resolution, query files, walks,
workers and documents, inplace, the playground, and the three forms of
validation. Open:

1. Proofs: `SuccessIsWhole`, by an invariant about each part of an output on its own;
   `TextKept`, by an induction over the spans of a pass; `FreshWhenQuiet` with a
   relation between sources that the planner does cover, and a safety property for
   the inplace mode of the watcher.
2. *Publish*: order, provenance and restored manifests under failures.
3. `Watch` composed with `Inplace`: the two halves of an edit during a pass.
