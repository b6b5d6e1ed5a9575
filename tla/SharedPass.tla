------------------------------ MODULE SharedPass ------------------------------
(***************************************************************************)
(* What the generate waves of the Vite plugin promise to the environment   *)
(* builds of one process, without saying how a wave is kept: every build   *)
(* is served by a generate pass of the current configuration that is       *)
(* strictly newer than the pass which served that environment's last       *)
(* build, and a pass is started only for a build that needs it.            *)
(***************************************************************************)
EXTENDS Integers

CONSTANTS Environments

VARIABLES
  started,  \* generate passes started so far
  base,     \* passes started before the current configuration
  took      \* took[e]: the pass that serves the latest build of e

sharedVars == <<started, base, took>>

SharedInit ==
  /\ started = 0
  /\ base = 0
  /\ took = [e \in Environments |-> 0]

NewConfiguration ==
  /\ base' = started
  /\ UNCHANGED <<started, took>>

ServeByStarted(e) ==
  /\ \E p \in base + 1 .. started :
       /\ p > took[e]
       /\ took' = [took EXCEPT ![e] = p]
  /\ UNCHANGED <<started, base>>

ServeByNew(e) ==
  /\ started' = started + 1
  /\ took' = [took EXCEPT ![e] = started']
  /\ UNCHANGED base

SharedNext ==
  \/ NewConfiguration
  \/ \E e \in Environments : ServeByStarted(e) \/ ServeByNew(e)

SharedSpec == SharedInit /\ [][SharedNext]_sharedVars
=============================================================================
