--------------------------------- MODULE Vite ---------------------------------
(***************************************************************************)
(* One instance of the Vite plugin, packages/vite/src/index.ts: the hooks  *)
(* of ViteWave composed with the dev server hooks, which start and stop    *)
(* the compiler's watcher.  A process either builds (vite build, or vite   *)
(* dev with watch: false: the watcher is never started), or serves with a  *)
(* watcher.  The watcher itself is the module Watch: here it is starting   *)
(* (its initial pass runs), on, closing, off, or failed.                   *)
(***************************************************************************)
EXTENDS ViteWave

CONSTANTS
  MaxServers  \* bound on the dev servers created over the instance

ASSUME ServerAssumption == MaxServers \in Nat

VARIABLES
  dev,         \* command === "serve" && options.watch !== false
  watchers,    \* watchers in the order deps.watch() was called
  controller,  \* the watcher the plugin holds, 0 for none
  server,      \* server[s].stage, and what is left of its close
  starter      \* starter[s]: the watcher whose start configureServer awaits

serverVars == <<dev, watchers, controller, server, starter>>
waveVars == vars
viteVars == <<waveVars, serverVars>>

Servers == 1..MaxServers

(* http: the server owns an http server (not middleware mode)              *)
(* listener: the http server's close calls closeWatcher                    *)
(* over: the server that s replaces in a restart, 0 for none               *)
(* left, ends: hooks and buildEnds its close has still to run              *)
(* waits: watchers whose close these hooks await                           *)
Absent == [stage |-> "absent", http |-> FALSE, listener |-> FALSE, over |-> 0,
           left |-> {}, ends |-> {}, waits |-> {}]

ViteInit ==
  /\ Init
  /\ dev \in BOOLEAN
  /\ watchers = <<>>
  /\ controller = 0
  /\ server = [s \in Servers |-> Absent]
  /\ starter = [s \in Servers |-> 0]

-----------------------------------------------------------------------------
(* closeWatcher on behalf of server s, whose hook awaits it or not: the    *)
(* controller is cleared before the close is awaited.                      *)

(* Mutant: the controller is kept.                                         *)
CloseWatcherKept(s, after) ==
  /\ watchers' = IF controller = 0 THEN watchers
                 ELSE [watchers EXCEPT ![controller] = "closing"]
  /\ server' = [server EXCEPT ![s] = after]
  /\ UNCHANGED <<controller, starter, dev>>

(* Mutant: the controller is dropped without being closed.                 *)
CloseWatcherDropped(s, after) ==
  /\ controller' = 0
  /\ server' = [server EXCEPT ![s] = after]
  /\ UNCHANGED <<watchers, starter, dev>>

CloseWatcher(s, after) ==
  IF controller = 0
  THEN /\ server' = [server EXCEPT ![s] = after]
       /\ UNCHANGED <<watchers, controller, starter, dev>>
  ELSE /\ watchers' = [watchers EXCEPT ![controller] = "closing"]
       /\ controller' = 0
       /\ server' = [server EXCEPT ![s] = after]
       /\ UNCHANGED <<starter, dev>>

-----------------------------------------------------------------------------
(* The dev server.  A restart creates the next server while the old one is *)
(* up, and closes the old one once the new one is up: with the plugin in   *)
(* the inline config both run over this instance.                          *)
Up == {s \in Servers : server[s].stage = "up"}

CreateServer(s) ==
  /\ dev /\ server[s].stage = "absent"
  /\ \A r \in 1..(s - 1) : server[r].stage \in {"up", "closed", "failed"}
  /\ ConfigResolved
  /\ \E http \in BOOLEAN : \E over \in {0} \cup Servers :
       /\ Up = {over} \ {0}
       /\ server' = [server EXCEPT ![s] = [Absent EXCEPT !.stage = "created",
                                             !.http = http, !.over = over]]
  /\ UNCHANGED <<dev, watchers, controller, starter>>

ConfigureServer(s) ==
  /\ server[s].stage = "created"
  /\ IF controller # 0
     THEN /\ server' = [server EXCEPT ![s].stage = "up"]
          /\ UNCHANGED <<watchers, starter>>
     ELSE /\ watchers' = Append(watchers, "starting")
          /\ starter' = [starter EXCEPT ![s] = Len(watchers) + 1]
          /\ server' = [server EXCEPT ![s].stage = "configuring"]
  /\ UNCHANGED <<dev, controller, waveVars>>

(* deps.watch resolves: its initial pass is done.                          *)
WatchReady(s) ==
  /\ server[s].stage = "configuring"
  /\ watchers' = [watchers EXCEPT ![starter[s]] = "on"]
  /\ controller' = starter[s]
  /\ server' = [server EXCEPT ![s].stage = "up", ![s].listener = server[s].http]
  /\ UNCHANGED <<dev, starter, waveVars>>

(* deps.watch rejects: the initial pass threw, and the server with it.     *)
WatchRejects(s) ==
  /\ server[s].stage = "configuring"
  /\ watchers' = [watchers EXCEPT ![starter[s]] = "failed"]
  /\ server' = [server EXCEPT ![s].stage = "failed"]
  /\ UNCHANGED <<dev, controller, starter, waveVars>>

-----------------------------------------------------------------------------
(* server.close() runs buildEnd and closeBundle, and closes its http       *)
(* server, in any order.                                                   *)
CloseServer(s) ==
  /\ server[s].stage = "up"
  /\ \A r \in 1..(s - 1) : server[r].stage \in {"closed", "failed"}
  /\ \A r \in (s + 1)..MaxServers : server[r].stage \in {"absent", "up", "failed"}
  /\ server' = [server EXCEPT ![s] =
       [server[s] EXCEPT !.stage = "closing", !.ends = Environments,
                 !.left = {"closeBundle"} \cup IF server[s].listener THEN {"close"} ELSE {}]]
  /\ UNCHANGED <<dev, watchers, controller, starter, waveVars>>

(* void closeWatcher(): nobody awaits it                                   *)
OnHttpClose(s) ==
  /\ "close" \in server[s].left
  /\ CloseWatcher(s, [server[s] EXCEPT !.left = @ \ {"close"}])
  /\ UNCHANGED waveVars

Held == IF controller = 0 THEN {} ELSE {controller}

DevBuildEnd(s, e) ==
  /\ e \in server[s].ends
  /\ CloseWave
  /\ CloseWatcher(s, [server[s] EXCEPT !.ends = @ \ {e}, !.waits = @ \cup Held])
  /\ UNCHANGED <<edits, passes, seen, build, took, configs, history>>

CloseBundle(s) ==
  /\ "closeBundle" \in server[s].left
  /\ server[s].ends = {}
  /\ CloseWatcher(s, [server[s] EXCEPT !.left = @ \ {"closeBundle"}, !.waits = @ \cup Held])
  /\ UNCHANGED waveVars

ServerClosed(s) ==
  /\ server[s].stage = "closing" /\ server[s].left = {} /\ server[s].ends = {}
  /\ \A w \in server[s].waits : watchers[w] = "off"
  /\ server' = [server EXCEPT ![s].stage = "closed"]
  /\ UNCHANGED <<dev, watchers, controller, starter, waveVars>>

WatcherOff(w) ==
  /\ watchers[w] = "closing"
  /\ watchers' = [watchers EXCEPT ![w] = "off"]
  /\ UNCHANGED <<dev, controller, server, starter, waveVars>>

-----------------------------------------------------------------------------
(* buildStart returns at once where the watcher runs the first pass.       *)
DevWatcherOwnsInitialGenerate == dev

BuildNext ==
  /\ ~ DevWatcherOwnsInitialGenerate
  /\ \/ ConfigResolved
     \/ \E e \in Environments : BuildStart(e) \/ Awaited(e) \/ BuildEnd(e)
     \/ \E p \in DOMAIN passes : Read(p) \/ Settle(p)
     \/ Edit
  /\ UNCHANGED serverVars

ServeNext ==
  \/ \E s \in Servers :
       \/ CreateServer(s) \/ ConfigureServer(s) \/ WatchReady(s) \/ WatchRejects(s)
       \/ CloseServer(s) \/ OnHttpClose(s) \/ CloseBundle(s) \/ ServerClosed(s)
       \/ \E e \in Environments : DevBuildEnd(s, e)
  \/ \E w \in DOMAIN watchers : WatcherOff(w)

ViteNext == BuildNext \/ ServeNext

ViteSpec == ViteInit /\ [][ViteNext]_viteVars

-----------------------------------------------------------------------------
(* "Returning closeWatcher here stopped the watcher before listen, so      *)
(* later edits never regenerated": while a dev server is up, the plugin    *)
(* holds a watcher that is on, whichever servers came before it and        *)
(* however they were closed.  A server that replaces another one loses it  *)
(* to the close of the old one: of it this holds until that close begins.  *)
WatchedWhileUp ==
  \A s \in Up :
    server[s].over \in {0} \cup Up => controller # 0 /\ watchers[controller] = "on"

(* No watcher outlives its server: once a server is closed, every watcher  *)
(* but the one of a later server is off or being closed.                   *)
NoOrphanWatcher ==
  \A s \in Servers : server[s].stage = "closed" =>
    \A w \in DOMAIN watchers :
      watchers[w] \in {"starting", "on"} => \E r \in Servers : r > s /\ starter[r] = w
=============================================================================
