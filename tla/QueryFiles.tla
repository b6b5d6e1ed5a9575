------------------------------ MODULE QueryFiles ------------------------------
(***************************************************************************)
(* The query files of a compile session: packages/compiler/src/session.ts  *)
(* and query-core.ts over the client of tsgo-client.ts.  The checker only  *)
(* answers about files, so a session writes a query file beside a source,  *)
(* tells the checker, asks, removes the file and tells the checker again.  *)
(* generateAll keeps the query files of all sources registered during the  *)
(* whole pass; probes of single sources are nested in it.                  *)
(*                                                                         *)
(* Every call may throw, the checker may die and the process may be killed *)
(* between any two calls.  The body of a file is abstracted to the number  *)
(* of the pass that wrote it (0: there is no file).                        *)
(***************************************************************************)
EXTENDS Integers, FiniteSets

CONSTANTS
  Sources,    \* source files with a schema
  MaxPasses,  \* bound on the passes
  MaxFaults,  \* bound on the calls that throw and the deaths of the checker
  MaxKills    \* bound on the kills of the process

ASSUME QueryAssumption ==
  /\ MaxPasses \in Nat
  /\ MaxFaults \in Nat
  /\ MaxKills \in Nat

(* What a query file of a source is for: the output types, the Tier-1      *)
(* unroll, the fixpoint oracle, the compile gate.                          *)
Uses == {"query", "tier1", "probe", "verify"}
Rank == [u \in Uses |-> CASE u = "query" -> 1 [] u = "tier1" -> 2
                          [] u = "probe" -> 3 [] u = "verify" -> 4]

(* sourceBase.query, .tier1, .tier1-probe and .verify, pairwise distinct   *)
Documents == Sources \X Uses

(* Where a scope of registered query files stands.  "batch" is the one of  *)
(* generateAll, "single" the one of withQueryFile.                         *)
Scopes == {"batch", "single"}
Steps == {"shut", "write", "notify", "open", "remove", "unnotify"}
Scope == [at : Steps, docs : SUBSET Documents, left : SUBSET Documents, throws : BOOLEAN]
Shut == [at |-> "shut", docs |-> {}, left |-> {}, throws |-> FALSE]

VARIABLES
  process,  \* "down", "idle" or "pass"
  alive,    \* does the checker process answer?
  overlay,  \* does it support in-memory overlays?
  file,     \* file[d]: body of d on disk
  checker,  \* checker[d]: body of d in the checker's program
  scope,    \* scope[k]: the query files registered by k
  pass,     \* number of the latest pass
  todo,     \* sources of the pass not resolved yet
  current,  \* the source being resolved, as a set
  rank,     \* rank of the last use of `current`
  faults, kills,
  \* history, for the properties only
  orphans,  \* query files whose removal failed or was never reached
  ghosts    \* documents whose removal the checker may not have heard of

disk == <<file, orphans>>
program == <<checker, alive, overlay, ghosts>>
plan == <<pass, todo, current, rank>>
vars == <<process, disk, program, scope, plan, faults, kills>>

Body == 0..MaxPasses
OnDisk == {d \in Documents : file[d] # 0}
Known == {d \in Documents : checker[d] # 0}

TypeOK ==
  /\ process \in {"down", "idle", "pass"}
  /\ alive \in BOOLEAN
  /\ overlay \in BOOLEAN
  /\ file \in [Documents -> Body]
  /\ checker \in [Documents -> Body]
  /\ scope \in [Scopes -> Scope]
  /\ \A k \in Scopes : scope[k].left \subseteq scope[k].docs
  /\ pass \in Body
  /\ todo \subseteq Sources
  /\ current \subseteq Sources
  /\ rank \in 0..4
  /\ faults \in 0..MaxFaults
  /\ kills \in 0..MaxKills
  /\ orphans \subseteq Documents
  /\ ghosts \subseteq Documents

Init ==
  /\ process = "down"
  /\ alive = FALSE
  /\ overlay = FALSE
  /\ file = [d \in Documents |-> 0]
  /\ checker = [d \in Documents |-> 0]
  /\ scope = [k \in Scopes |-> Shut]
  /\ pass = 0
  /\ todo = {}
  /\ current = {}
  /\ rank = 0
  /\ faults = 0
  /\ kills = 0
  /\ orphans = {}
  /\ ghosts = {}

-----------------------------------------------------------------------------
(* createTsgoClient opens the project once, stray query files included,    *)
(* and asks the checker whether it supports overlays.                      *)
Start ==
  /\ process = "down"
  /\ process' = "idle"
  /\ alive' = TRUE
  /\ overlay' \in BOOLEAN
  /\ checker' = file
  /\ ghosts' = OnDisk
  /\ UNCHANGED <<disk, scope, plan, faults, kills>>

Close ==
  /\ process = "idle"
  /\ process' = "down"
  /\ alive' = FALSE
  /\ UNCHANGED <<disk, checker, overlay, ghosts, scope, plan, faults, kills>>

(* A kill takes the checker, a child process, along.                       *)
Kill ==
  /\ process # "down"
  /\ kills < MaxKills
  /\ kills' = kills + 1
  /\ process' = "down"
  /\ alive' = FALSE
  /\ scope' = [k \in Scopes |-> Shut]
  /\ todo' = {}
  /\ current' = {}
  /\ orphans' = OnDisk
  /\ UNCHANGED <<file, checker, overlay, ghosts, pass, rank, faults>>

CheckerDies ==
  /\ alive
  /\ faults < MaxFaults
  /\ faults' = faults + 1
  /\ alive' = FALSE
  /\ UNCHANGED <<process, disk, checker, overlay, ghosts, scope, plan, kills>>

-----------------------------------------------------------------------------
(* Scopes.  The statements of the inner scope run before the outer goes on. *)
Active(k) ==
  /\ scope[k].at # "shut"
  /\ k = "batch" => scope["single"].at = "shut"

Enter(D) == [at |-> "write", docs |-> D, left |-> D, throws |-> FALSE]

(* The `finally` of a scope.                                               *)

(* Mutant: the cleanup removes every query file of the project.            *)
CleanupAll(s, thrown) ==
  [s EXCEPT !.at = "remove", !.left = Documents, !.throws = thrown]

Cleanup(s, thrown) == [s EXCEPT !.at = "remove", !.left = s.docs, !.throws = thrown]

(* An exception that leaves scope k closes it.  Out of withQueryFile it    *)
(* reaches the `finally` of generateAll, else it ends the pass.            *)
Raise(k) ==
  IF k = "single" /\ scope["batch"].at # "shut"
  THEN /\ scope' = [scope EXCEPT !["single"] = Shut, !["batch"] = Cleanup(@, TRUE)]
       /\ UNCHANGED <<process, todo, current>>
  ELSE /\ scope' = [scope EXCEPT ![k] = Shut]
       /\ process' = "idle"
       /\ todo' = {}
       /\ current' = {}

(* Mutant: registration happens before the try.                            *)
RegistrationFailsUncaught(k) == Raise(k)

(* A throw during the registration runs the cleanup as well.               *)
RegistrationFails(k) ==
  /\ scope' = [scope EXCEPT ![k] = Cleanup(@, TRUE)]
  /\ UNCHANGED <<process, todo, current>>

Fault == faults < MaxFaults /\ faults' = faults + 1

(* writeFileSync, or nothing when the body goes into an overlay.           *)
Write(k) ==
  /\ Active(k) /\ scope[k].at = "write"
  /\ \/ /\ overlay \/ scope[k].left = {}
        /\ scope' = [scope EXCEPT ![k].at = "notify"]
        /\ UNCHANGED <<process, file, todo, current, faults>>
     \/ /\ ~ overlay
        /\ \E d \in scope[k].left :
             \/ /\ file' = [file EXCEPT ![d] = pass]
                /\ scope' = [scope EXCEPT ![k].left = @ \ {d}]
                /\ UNCHANGED <<process, todo, current, faults>>
             \/ /\ Fault
                /\ file' \in {file, [file EXCEPT ![d] = pass]}
                /\ RegistrationFails(k)
  /\ UNCHANGED <<program, orphans, pass, rank, kills>>

(* updateFile(s) or applyOverlay: the checker reads the named documents.   *)

(* Mutant: what the checker already has of a document stays.               *)
RegisteredStale(k) ==
  [d \in Documents |->
     IF d \in scope[k].docs /\ checker[d] = 0
     THEN IF overlay THEN pass ELSE file[d]
     ELSE checker[d]]

Registered(k) ==
  [d \in Documents |->
     IF d \in scope[k].docs THEN IF overlay THEN pass ELSE file[d] ELSE checker[d]]

Notify(k) ==
  /\ Active(k) /\ scope[k].at = "notify"
  /\ \/ /\ alive
        /\ checker' = Registered(k)
        /\ scope' = [scope EXCEPT ![k].at = "open"]
        /\ UNCHANGED <<process, todo, current, faults>>
     \/ /\ Fault
        /\ checker' \in {checker, Registered(k)}
        /\ RegistrationFails(k)
     \/ /\ ~ alive
        /\ RegistrationFails(k)
        /\ UNCHANGED <<checker, faults>>
  /\ UNCHANGED <<disk, alive, overlay, ghosts, pass, rank, kills>>

(* The function run inside a scope throws: a query, a worker, an emit.     *)
BodyThrows(k) ==
  /\ Active(k) /\ scope[k].at = "open"
  /\ Fault \/ (~ alive /\ UNCHANGED faults)
  /\ scope' = [scope EXCEPT ![k] = Cleanup(@, TRUE)]
  /\ UNCHANGED <<process, disk, program, plan, kills>>

(* rmSync with force; a failure skips the files after it and the checker.  *)
Remove(k) ==
  /\ Active(k) /\ scope[k].at = "remove"
  /\ \/ /\ overlay \/ scope[k].left = {}
        /\ scope' = [scope EXCEPT ![k].at = "unnotify", ![k].left = {}]
        /\ UNCHANGED <<process, disk, ghosts, todo, current, faults>>
     \/ /\ ~ overlay
        /\ \E d \in scope[k].left :
             \/ /\ file' = [file EXCEPT ![d] = 0]
                /\ orphans' = orphans \ {d}
                /\ scope' = [scope EXCEPT ![k].left = @ \ {d}]
                /\ UNCHANGED <<process, ghosts, todo, current, faults>>
             \/ /\ Fault
                /\ orphans' = orphans \cup scope[k].left
                /\ ghosts' = ghosts \cup scope[k].docs
                /\ UNCHANGED file
                /\ Raise(k)
  /\ UNCHANGED <<alive, overlay, checker, pass, rank, kills>>

Return(k) ==
  IF scope[k].throws \/ (k = "batch" /\ todo = {})
  THEN Raise(k)
  ELSE /\ scope' = [scope EXCEPT ![k] = Shut]
       /\ UNCHANGED <<process, todo, current>>

(* updateFile(s) with the deleted paths, or clearOverlay, which uncovers   *)
(* what is on disk; nothing to clear when generateAll registered no query  *)
(* file.                                                                   *)
Cleared(k) ==
  [d \in Documents |->
     IF d \in scope[k].docs THEN IF overlay THEN file[d] ELSE 0 ELSE checker[d]]

Unnotify(k) ==
  /\ Active(k) /\ scope[k].at = "unnotify"
  /\ \/ /\ alive \/ scope[k].docs = {}
        /\ checker' = Cleared(k)
        /\ ghosts' = ghosts \ {d \in scope[k].docs : Cleared(k)[d] = 0}
        /\ Return(k)
        /\ UNCHANGED faults
     \/ /\ scope[k].docs # {}
        /\ Fault \/ (~ alive /\ UNCHANGED faults)
        /\ ghosts' = ghosts \cup scope[k].docs
        /\ UNCHANGED checker
        /\ Raise(k)
  /\ UNCHANGED <<disk, alive, overlay, pass, rank, kills>>

-----------------------------------------------------------------------------
(* Passes.                                                                 *)
Begin(S) ==
  /\ process = "idle"
  /\ pass < MaxPasses
  /\ pass' = pass + 1
  /\ process' = "pass"
  /\ todo' = S
  /\ current' = {}
  /\ UNCHANGED <<disk, program, rank, faults, kills>>

(* generateAll: Q are the sources with a schema for the checker.           *)
GenerateAll(Q) ==
  /\ Begin(Sources)
  /\ scope' = [scope EXCEPT !["batch"] = Enter({<<s, "query">> : s \in Q})]

(* generateFile tells the checker of the source first, without a scope.    *)
GenerateFile(s) == Begin({s}) /\ UNCHANGED scope

Resolving ==
  /\ process = "pass"
  /\ scope["single"].at = "shut"
  /\ scope["batch"].at \in {"shut", "open"}

(* In a batch the queries of a source are registered already.              *)
Pick(s) ==
  /\ Resolving
  /\ current = {} /\ s \in todo
  /\ current' = {s}
  /\ rank' = IF scope["batch"].at = "open" THEN 1 ELSE 0
  /\ UNCHANGED <<process, disk, program, scope, pass, todo, faults, kills>>

(* withQueryFile, in the order of resolveAndFinalize: the oracle probes of *)
(* a source follow its unroll, the compile gate comes last.                *)
Query(s, u) ==
  /\ Resolving
  /\ s \in current
  /\ \/ Rank[u] > rank
     \/ u = "probe" /\ rank = Rank["probe"]
  /\ u = "probe" => rank \in {Rank["tier1"], Rank["probe"]}
  /\ scope' = [scope EXCEPT !["single"] = Enter({<<s, u>>})]
  /\ rank' = Rank[u]
  /\ UNCHANGED <<process, disk, program, pass, todo, current, faults, kills>>

(* A call outside withQueryFile throws in the single-file path.            *)
PlainThrow ==
  /\ Resolving
  /\ scope["batch"].at = "shut"
  /\ Fault \/ (~ alive /\ UNCHANGED faults)
  /\ Raise("single")
  /\ UNCHANGED <<disk, program, pass, rank, kills>>

(* The source is emitted; after the last one the pass is over.             *)
Emit(s) ==
  /\ Resolving
  /\ s \in current
  /\ todo' = todo \ {s}
  /\ current' = {}
  /\ IF todo' # {}
     THEN UNCHANGED <<process, scope>>
     ELSE IF scope["batch"].at = "open"
     THEN scope' = [scope EXCEPT !["batch"] = Cleanup(@, FALSE)] /\ UNCHANGED process
     ELSE process' = "idle" /\ UNCHANGED scope
  /\ UNCHANGED <<disk, program, pass, rank, faults, kills>>

Next ==
  \/ Start \/ Close \/ Kill \/ CheckerDies
  \/ \E Q \in SUBSET Sources : GenerateAll(Q)
  \/ \E s \in Sources : GenerateFile(s) \/ Pick(s) \/ Emit(s)
  \/ \E s \in Sources, u \in Uses : Query(s, u)
  \/ \E k \in Scopes :
       Write(k) \/ Notify(k) \/ BodyThrows(k) \/ Remove(k) \/ Unnotify(k)
  \/ PlainThrow

Spec == Init /\ [][Next]_vars

-----------------------------------------------------------------------------
(* "Always cleans up, whatever fn does": a query file on disk, or in the   *)
(* checker's program, belongs to a scope that is still to clean it up,     *)
(* unless its own removal failed or the process was killed.  In particular *)
(* nothing is left when a pass has returned or thrown, wherever a          *)
(* registration, a query or a dead checker interrupted it.                 *)
Pending == scope["batch"].docs \cup scope["single"].docs
NothingLeft ==
  /\ OnDisk \subseteq Pending \cup orphans
  /\ Known \subseteq Pending \cup ghosts \/ process = "down"

(* The checker answers from what this pass registered: inside a scope it   *)
(* holds the body just written for every query file of the scope, never    *)
(* none and never a stray one of an earlier pass or a killed process.      *)
AnswersAreCurrent ==
  \A k \in Scopes : scope[k].at = "open" =>
    \A d \in scope[k].docs : checker[d] = pass
=============================================================================
