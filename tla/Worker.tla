-------------------------------- MODULE Worker --------------------------------
(***************************************************************************)
(* The isolated schema worker, packages/compiler/src/worker-harness.ts:    *)
(* the parent's half, runWorker, and the child's half, runSchemaWorker.    *)
(* The two processes share one temporary envelope file and the child's     *)
(* exit status.  The child runs the user's module, which may end the       *)
(* process, hang, throw, or fail after the envelope was written; the       *)
(* parent kills the child on overrun and can itself be interrupted.        *)
(*                                                                         *)
(* An export is a record: extractable (isExtractableSchema), and what      *)
(* extract yields for it: an entry, "null", "throws", or an entry that     *)
(* JSON.stringify rejects ("unwritable").                                  *)
(***************************************************************************)
EXTENDS Integers, SequencesExt

CONSTANTS
  Modules  \* what the import of a source may yield: sequences of exports

ASSUME ModulesAssumption == \A m \in Modules : m \in Seq(Range(m))

VARIABLES
  parent,    \* "idle", "waiting" in spawnSync, "interrupted"
  module,    \* the module the child imports
  child,     \* where the child stands
  at,        \* the export it extracts next
  schemas,   \* entries it has extracted
  envelope,  \* the envelope file of the call
  status,    \* how the child ended, "running" before
  outcome    \* what the last call returned

workerVars == <<parent, module, child, at, schemas, envelope, status, outcome>>

Missing == [state |-> "missing", error |-> FALSE, schemas |-> <<>>]
Partial == [state |-> "partial", error |-> FALSE, schemas |-> <<>>]
Written(error, entries) == [state |-> "written", error |-> error, schemas |-> entries]

Diagnostic == [ok |-> FALSE, schemas |-> <<>>]
Envelope(entries) == [ok |-> TRUE, schemas |-> entries]

WorkerInit ==
  /\ parent = "idle"
  /\ module = <<>>
  /\ child = "absent"
  /\ at = 1
  /\ schemas = <<>>
  /\ envelope = Missing
  /\ status = "running"
  /\ outcome = Diagnostic

-----------------------------------------------------------------------------
(* The parent: spawnSync, then the four failure modes, then the removal of *)
(* the envelope file.                                                      *)

Spawn(m) ==
  /\ parent = "idle"
  /\ parent' = "waiting"
  /\ module' = m
  /\ at' = 1 /\ schemas' = <<>>
  /\ \/ child' = "importing" /\ status' = "running"
     \/ child' = "ended" /\ status' = "spawn error"
  /\ UNCHANGED <<envelope, outcome>>

(* Mutant: a signal the child may ignore.                                  *)
TimeoutIgnored ==
  /\ parent = "waiting" /\ status = "running"
  /\ UNCHANGED workerVars

Timeout ==
  /\ parent = "waiting" /\ status = "running"
  /\ child' = "ended" /\ status' = "timeout"
  /\ UNCHANGED <<parent, module, at, schemas, envelope, outcome>>

(* Mutant: an envelope that carries an error is taken for an empty one.    *)
ResultIgnoringError ==
  IF status = "zero" /\ envelope.state = "written"
  THEN Envelope(envelope.schemas) ELSE Diagnostic

Result ==
  IF status = "zero" /\ envelope.state = "written" /\ ~ envelope.error
  THEN Envelope(envelope.schemas) ELSE Diagnostic

(* Mutant: the envelope file is removed on success only.                   *)
CollectLeaving ==
  /\ parent = "waiting" /\ status # "running"
  /\ outcome' = Result
  /\ envelope' = IF Result.ok THEN Missing ELSE envelope
  /\ parent' = "idle"
  /\ UNCHANGED <<module, child, at, schemas, status>>

Collect ==
  /\ parent = "waiting" /\ status # "running"
  /\ outcome' = Result
  /\ envelope' = Missing
  /\ parent' = "idle"
  /\ UNCHANGED <<module, child, at, schemas, status>>

(* A signal ends parent and child before the finally block.                *)
Interrupt ==
  /\ parent = "waiting" /\ status = "running"
  /\ parent' = "interrupted"
  /\ child' = "ended" /\ status' = "signal"
  /\ UNCHANGED <<module, at, schemas, envelope, outcome>>

-----------------------------------------------------------------------------
(* The child.  The user's code may throw while it is imported.             *)
Running == parent = "waiting" /\ status = "running"

Import ==
  /\ Running /\ child = "importing"
  /\ child' \in {"extracting", "reporting"}
  /\ UNCHANGED <<parent, module, at, schemas, envelope, status, outcome>>

Extract ==
  /\ Running /\ child = "extracting" /\ at <= Len(module)
  /\ \/ /\ module[at].extractable /\ module[at].yields = "throws"
        /\ child' = "reporting"
        /\ UNCHANGED <<at, schemas>>
     \/ /\ ~ (module[at].extractable /\ module[at].yields = "throws")
        /\ at' = at + 1
        /\ schemas' = IF module[at].extractable /\ module[at].yields \in {"entry", "unwritable"}
                      THEN Append(schemas, module[at].entry) ELSE schemas
        /\ UNCHANGED child
  /\ UNCHANGED <<parent, module, envelope, status, outcome>>

(* emit(outFile, { schemas }): stringify may throw, the write is not       *)
(* atomic.                                                                 *)
Unwritable == \E i \in DOMAIN module : module[i].extractable /\ module[i].yields = "unwritable"

Emit ==
  /\ Running /\ child = "extracting" /\ at > Len(module)
  /\ IF Unwritable
     THEN child' = "reporting" /\ UNCHANGED envelope
     ELSE child' = "emitting" /\ envelope' = Partial
  /\ UNCHANGED <<parent, module, at, schemas, status, outcome>>

(* The catch block: emit(outFile, { error }).                              *)
Report ==
  /\ Running /\ child = "reporting"
  /\ child' = "complaining" /\ envelope' = Partial
  /\ UNCHANGED <<parent, module, at, schemas, status, outcome>>

EndWrite ==
  /\ Running /\ child \in {"emitting", "complaining"}
  /\ envelope' = IF child = "emitting" THEN Written(FALSE, schemas) ELSE Written(TRUE, <<>>)
  /\ child' = "written"
  /\ UNCHANGED <<parent, module, at, schemas, status, outcome>>

(* The event loop drains; an unhandled rejection of the user's module      *)
(* makes the status nonzero even now.                                      *)
Exit ==
  /\ Running /\ child = "written"
  /\ child' = "ended" /\ status' \in {"zero", "nonzero"}
  /\ UNCHANGED <<parent, module, at, schemas, envelope, outcome>>

(* The user's module calls process.exit before the envelope is written, or *)
(* the system kills the child at any point.                                *)
Dies ==
  /\ Running
  /\ child' = "ended"
  /\ \/ child \in {"importing", "extracting"} /\ status' \in {"zero", "nonzero"}
     \/ status' = "signal"
  /\ UNCHANGED <<parent, module, at, schemas, envelope, outcome>>

WorkerStep ==
  \/ Timeout \/ Collect \/ Interrupt
  \/ Import \/ Extract \/ Emit \/ Report \/ EndWrite \/ Exit \/ Dies

WorkerNext == (\E m \in Modules : Spawn(m)) \/ WorkerStep

WorkerSpec == WorkerInit /\ [][WorkerNext]_workerVars

-----------------------------------------------------------------------------
(* "the temp envelope file is always removed", however the child ended:    *)
(* between two calls there is none.                                        *)
NoEnvelopeLeft == parent = "idle" => envelope = Missing

(* Every call implements the abstract call: a diagnostic, or the entries   *)
(* of all exports.  A child that was killed half-way, that reported an     *)
(* error, or whose file was half-written never passes for an answer.       *)
Call == INSTANCE WorkerCall WITH
  calling <- IF parent = "idle" THEN [called |-> FALSE, module |-> <<>>]
             ELSE [called |-> TRUE, module |-> module]
CallSpec == Call!CallSpec
=============================================================================
