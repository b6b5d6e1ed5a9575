------------------------------ MODULE Documents ------------------------------
(***************************************************************************)
(* tskm json-schema, packages/compiler/src/jsonschema.ts: the command      *)
(* generateJsonSchema runs one worker after the other over the collected   *)
(* sources and writes a document per source.  In the child, the adapter    *)
(* (jsonschema-adapter.ts) decides what each exported value becomes.       *)
(*                                                                         *)
(* A value is a record: the vendor of its ~standard marker (NoVendor when  *)
(* it has none), kind === "schema", the vendor's own converter (native),   *)
(* what conversion does with it, and whether the walker warned.            *)
(***************************************************************************)
EXTENDS Worker

CONSTANTS
  Sources,        \* sequence of source files, sorted: [dir, base]
  Contents,       \* what a source may export: sequences of values
  ConfigFiles,    \* what tskm.config.ts may hold, see NoConfig
  OutArguments    \* values of --out, NoDir when it is not given

VARIABLES
  exported,     \* exported[i]: the values source i exports
  vendors,      \* allowedVendors
  outDir,       \* jsonSchema.outDir
  current,      \* the source being processed
  called,       \* its worker was called
  disk,         \* documents on disk, by path
  files,        \* documents written so far, in order
  diagnostics,  \* diagnostics collected so far, as a set of lines
  rejected      \* a write threw: the command ends without files and diagnostics

docVars == <<exported, vendors, outDir, current, called, disk, files, diagnostics, rejected>>
documentsVars == <<workerVars, docVars>>

NoVendor == "none"
NoDir == "none"

-----------------------------------------------------------------------------
(* Configuration.  A schema source is <<package root, subpath>>.           *)
RuntimeSchemaSource == <<"@tskm/core", "">>
DefaultSchemaSources == {<<"zod", "">>, <<"valibot", "">>, <<"arktype", "">>}

(* A project without a config file                                         *)
NoConfig == [given |-> FALSE, schemaSources |-> {}, outDir |-> NoDir]

ResolveConfig(raw) ==
  [schemaSources |->
     {RuntimeSchemaSource} \cup (IF raw.given THEN raw.schemaSources ELSE DefaultSchemaSources),
   outDir |-> raw.outDir]

VendorName(source) == source[1]

(* NoVendor is the name of no package.                                     *)
ASSUME ConfigAssumption ==
  \A file \in ConfigFiles : \A s \in file.schemaSources : VendorName(s) # NoVendor

VendorAllowList(sources) ==
  {"tskm"} \cup {VendorName(s) : s \in sources \ {RuntimeSchemaSource}}

(* With --out the command line is the whole configuration, and the config  *)
(* file of the project is not read.                                        *)
CommandConfig(file, out) ==
  ResolveConfig(IF out = NoDir THEN file ELSE [NoConfig EXCEPT !.outDir = out])

-----------------------------------------------------------------------------
(* readStandard, isTskmWalkable, isExtractableSchema                       *)

(* Mutant: the legacy kind alone makes a value walkable.                   *)
WalkableByKind(v) == v.kind

Walkable(v) == IF v.vendor = NoVendor THEN v.kind ELSE v.vendor = "tskm" /\ v.kind

IsExtractableSchema(v) == v.vendor # NoVendor \/ v.kind

(* @tskm/core gives its schemas both marks.  The walker rejects no tskm    *)
(* schema without an exception; other values convert through their own     *)
(* converter, or through the package of their vendor, which accepts no     *)
(* more than its own converter would.                                      *)
IsValue(v) ==
  /\ v.vendor = "tskm" => v.kind
  /\ v.native \in {"ok", "throws", "none"}
  /\ IF v.vendor \in {"tskm", NoVendor} /\ v.kind
     THEN v.convert \in {"ok", "throws", "unwritable"}
     ELSE v.convert = "ok" => v.vendor \in {"zod", "valibot"} /\ v.native # "throws"

ASSUME SourcesAssumption == Sources \in Seq(Range(Sources))
ASSUME ContentsAssumption ==
  \A values \in Contents : values \in Seq(Range(values)) /\ \A v \in Range(values) : IsValue(v)

(* schemaToJsonSchemaViaAdapter, when the conversion does not throw        *)

ViaAdapter(v, allowed) ==
  CASE Walkable(v) -> "converted"
    [] ~ Walkable(v) /\ v.vendor \notin allowed -> "excluded"
    [] ~ Walkable(v) /\ v.vendor \in allowed ->
         CASE v.native = "ok" -> "converted"
           [] v.native = "throws" -> "skipped"
           [] v.native = "none" ->
                IF v.vendor \in {"zod", "valibot"} /\ v.convert = "ok"
                THEN "converted" ELSE "skipped"

(* The entry jsonschema-worker.ts makes of the export in place i.          *)
Entry(i, v, allowed) ==
  [name |-> i,
   kind |-> ViaAdapter(v, allowed),
   vendor |-> v.vendor,
   warned |-> IF Walkable(v) THEN v.warns ELSE ViaAdapter(v, allowed) = "skipped"]

(* The native walker runs the user's lazy getters, which may throw, and a  *)
(* literal of the user's may have no JSON text.                            *)
ModuleOf(values, allowed) ==
  [i \in DOMAIN values |->
    [extractable |-> IsExtractableSchema(values[i]),
     yields |-> IF Walkable(values[i]) /\ values[i].convert # "ok"
                THEN values[i].convert ELSE "entry",
     entry |-> Entry(i, values[i], allowed)]]

(* jsonSchemaOutputPath: beside the source, or under outDir by the base    *)
(* name alone.                                                             *)
JsonSchemaOutputPath(i) ==
  [dir |-> IF outDir = NoDir THEN Sources[i].dir ELSE outDir, base |-> Sources[i].base]

Paths ==
  [dir : {s.dir : s \in Range(Sources)} \cup OutArguments \cup {f.outDir : f \in ConfigFiles},
   base : {s.base : s \in Range(Sources)}]

Document(i, names) == [source |-> i, names |-> names]
NoDocument == Document(0, {})  \* whatever was there before the command

-----------------------------------------------------------------------------
DocumentsInit ==
  /\ WorkerInit
  /\ exported \in [DOMAIN Sources -> Contents]
  /\ \E file \in ConfigFiles, out \in OutArguments :
       LET config == CommandConfig(file, out)
       IN  /\ vendors = VendorAllowList(config.schemaSources)
           /\ outDir = config.outDir
  /\ current = 1
  /\ called = FALSE
  /\ disk = [p \in Paths |-> NoDocument]
  /\ files = <<>>
  /\ diagnostics = {}
  /\ rejected = FALSE

CallWorker ==
  /\ current <= Len(Sources) /\ ~ called /\ ~ rejected
  /\ Spawn(ModuleOf(exported[current], vendors))
  /\ called' = TRUE
  /\ UNCHANGED <<exported, vendors, outDir, current, disk, files, diagnostics, rejected>>

(* Diagnostics about source i: of its worker, of an export, or of a vendor *)
(* outside the allow-list, one for all its exports of that vendor.         *)
Line(i, about, export, vendor) ==
  [source |-> i, about |-> about, export |-> export, vendor |-> vendor]

WorkerLine(i) == Line(i, "worker", 0, NoVendor)

EntryLines(i, entries) ==
  {Line(i, "entry", x.name, NoVendor) : x \in {y \in Range(entries) : y.warned}}

VendorLines(i, entries) ==
  {Line(i, "vendor", 0, x.vendor) : x \in {y \in Range(entries) : y.kind = "excluded"}}

Emittable(entries) == {x.name : x \in {y \in Range(entries) : y.kind = "converted"}}

(* Nothing creates the directory of the document: writeFileSync may throw, *)
(* before it touched the file or with the file cut short.                  *)
Write(i, names) ==
  \/ names = {} /\ UNCHANGED <<disk, files, rejected>>
  \/ /\ names # {}
     /\ disk' = [disk EXCEPT ![JsonSchemaOutputPath(i)] = Document(i, names)]
     /\ files' = Append(files, Document(i, names))
     /\ UNCHANGED rejected
  \/ /\ names # {}
     /\ rejected' = TRUE
     /\ disk' \in {disk, [disk EXCEPT ![JsonSchemaOutputPath(i)] = Document(i, {})]}
     /\ UNCHANGED files

Conclude(i) ==
  IF outcome.ok
  THEN /\ diagnostics' = diagnostics \cup EntryLines(i, outcome.schemas)
                                     \cup VendorLines(i, outcome.schemas)
       /\ Write(i, Emittable(outcome.schemas))
  ELSE /\ diagnostics' = diagnostics \cup {WorkerLine(i)}
       /\ UNCHANGED <<disk, files, rejected>>

(* Mutant: the first failing source ends the run.                          *)
AnswerStopping ==
  /\ called /\ parent = "idle"
  /\ called' = FALSE
  /\ Conclude(current)
  /\ current' = IF rejected' THEN current
                ELSE IF outcome.ok THEN current + 1 ELSE Len(Sources) + 1
  /\ UNCHANGED <<workerVars, exported, vendors, outDir>>

Answer ==
  /\ called /\ parent = "idle"
  /\ called' = FALSE
  /\ Conclude(current)
  /\ current' = IF rejected' THEN current ELSE current + 1
  /\ UNCHANGED <<workerVars, exported, vendors, outDir>>

DocumentsNext ==
  \/ CallWorker
  \/ WorkerStep /\ UNCHANGED docVars
  \/ Answer

(* The parent goes on while it can, and spawnSync's timeout fires.         *)
DocumentsSpec ==
  /\ DocumentsInit /\ [][DocumentsNext]_documentsVars
  /\ WF_documentsVars(CallWorker) /\ WF_documentsVars(Answer)
  /\ WF_documentsVars(Timeout /\ UNCHANGED docVars)
  /\ WF_documentsVars(Collect /\ UNCHANGED docVars)

-----------------------------------------------------------------------------
(* generateJsonSchema resolves; a rejected command never does.             *)
Done == current > Len(Sources)

(* What a reader of the docs expects of an export: it is in the document   *)
(* when it is a tskm schema, or a schema of an allowed vendor that can be  *)
(* converted.                                                              *)
Wanted(v) ==
  \/ v.vendor = "tskm"
  \/ v.vendor = NoVendor /\ v.kind
  \/ v.vendor \in vendors /\ "ok" \in {v.native, v.convert}

WantedOf(i) == {n \in DOMAIN exported[i] : Wanted(exported[i][n])}

(* The sources that should have written path p so far: their worker did    *)
(* not fail, and they export a schema that is wanted.                      *)
Writers(p) ==
  {i \in DOMAIN Sources :
     /\ i < current /\ JsonSchemaOutputPath(i) = p
     /\ WantedOf(i) # {} /\ WorkerLine(i) \notin diagnostics}

(* "Emit JSON Schema for each schema": the document on disk is the one of  *)
(* the last source that should have written it.  It holds all the schemas  *)
(* wanted of that source, none of a vendor outside schemaSources and none  *)
(* of another source, even one of the same path; and a path nobody should  *)
(* have written is untouched, whatever the workers of other sources did.   *)
(* Only a write that threw leaves its own path in doubt.                   *)
DocumentOfEachSource ==
  \A p \in Paths : ~ (rejected /\ p = JsonSchemaOutputPath(current)) =>
    /\ Writers(p) = {} => disk[p] = NoDocument
    /\ \A i \in Writers(p) :
         (\A j \in Writers(p) : j <= i) => disk[p] = Document(i, WantedOf(i))

(* "callers have exactly one failure branch": when the command returns, no *)
(* schema any source exports was passed over in silence.  It is named      *)
(* among the documents written, or a diagnostic tells of it, of its vendor *)
(* or of the worker of its source, even when the worker of another source  *)
(* crashed.  A command that a write makes reject returns nothing.          *)
EverySourceAnswered ==
  Done => \A i \in DOMAIN Sources : \A n \in DOMAIN exported[i] :
    \/ ~ IsExtractableSchema(exported[i][n])
    \/ \E f \in Range(files) : f.source = i /\ n \in f.names
    \/ {Line(i, "entry", n, NoVendor), Line(i, "vendor", 0, exported[i][n].vendor),
        WorkerLine(i)} \cap diagnostics # {}

(* Whatever the user's modules do in the children (hang, exit, crash), the *)
(* command comes to its end, by returning or by rejecting, unless it is    *)
(* itself interrupted.                                                     *)
CommandEnds == <>(Done \/ rejected \/ parent = "interrupted")
=============================================================================
