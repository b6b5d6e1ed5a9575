----------------------------- MODULE Playground -----------------------------
(***************************************************************************)
(* The playground (playgrounds/tskm): App.tsx asks for the generated type  *)
(* of the schema and for the diagnostics of the input, each in an effect   *)
(* that waits, sends a request and aborts it when its texts change.  With  *)
(* the endpoint of vite.config.ts each request is a run of the compiler in *)
(* a temporary project; without it the type is rendered in the page and    *)
(* the diagnostics come from Monaco's worker over two shared models.       *)
(*                                                                         *)
(* A text is its identity.  A generated type or a list of diagnostics is   *)
(* the texts it was computed on.                                           *)
(***************************************************************************)
EXTENDS Naturals, FiniteSets

CONSTANTS
  SchemaSources,   \* texts of the schema editor
  InputSources,    \* texts of the input editor
  Example,         \* the texts of the first example
  MaxEdits         \* bound: changes of the texts

Texts == [schema : SchemaSources, input : InputSources]

ASSUME TextsAssumption == Example \in Texts /\ MaxEdits \in Nat

VARIABLES
  endpoint,   \* hasTypecheckEndpoint, hasGenerationEndpoint: one build flag
  text,       \* schemaSource and inputSource
  edits,      \* changes of the texts so far
  seen,       \* seen[e]: the texts the last run of effect e saw
  runs,       \* runs[e]: number of runs of effect e
  request,    \* request[e][n]: what the n-th run of e has in flight
  root,       \* root[e][n]: its temporary project is on disk
  shown,      \* shown[e]: generatedType, inputTypecheck
  models      \* the texts of the two Monaco models

clientVars == <<endpoint, text, edits, seen, runs, shown>>
playgroundVars == <<endpoint, text, edits, seen, runs, request, root, shown, models>>

Effects == {"type", "check"}
Run == 1 .. MaxEdits + 1
NoText == [schema |-> "none", input |-> "none"]

(* The dependency lists of the effects, [schemaSource] and both texts.     *)
Dependencies(e, t) == IF e = "type" THEN [t EXCEPT !.input = "none"] ELSE t

NoRequest == [of |-> NoText, client |-> "none", stage |-> "none"]

Init ==
  /\ endpoint \in BOOLEAN
  /\ text = Example
  /\ edits = 0
  /\ seen = [e \in Effects |-> NoText]
  /\ runs = [e \in Effects |-> 0]
  /\ request = [e \in Effects |-> [n \in Run |-> NoRequest]]
  /\ root = [e \in Effects |-> [n \in Run |-> FALSE]]
  /\ shown = [e \in Effects |->
               IF e = "type"
               THEN [status |-> "fallback", of |-> Dependencies(e, text), on |-> Dependencies(e, text)]
               ELSE [status |-> "idle", of |-> NoText, on |-> NoText]]
  /\ models = NoText

-----------------------------------------------------------------------------
(* App: editors, effects and their timers                                  *)

(* One editor, or loadExample for both.                                    *)
Edit ==
  /\ edits < MaxEdits
  /\ \E t \in Texts \ {text} : text' = t
  /\ edits' = edits + 1
  /\ UNCHANGED <<endpoint, seen, runs, request, root, shown, models>>

(* Mutant: the cleanup clears the timer but does not abort the request.    *)
AbortedTimerOnly(r) ==
  IF r.client = "timer" THEN [r EXCEPT !.client = "done"] ELSE r

(* The cleanup: controller.abort() and clearTimeout.  A pending fetch      *)
(* rejects and its catch returns; the page's own checker takes no signal.  *)
Aborted(r) ==
  IF r.client = "timer" \/ (r.client = "pending" /\ endpoint)
  THEN [r EXCEPT !.client = "done"] ELSE r

(* The effects whose texts changed run after a render.                     *)
RunEffects ==
  LET due == {e \in Effects : seen[e] # Dependencies(e, text)}
      now(e) == Dependencies(e, text)
  IN
  /\ due # {}
  /\ seen' = [e \in Effects |-> now(e)]
  /\ runs' = [e \in Effects |-> IF e \in due THEN runs[e] + 1 ELSE runs[e]]
  /\ request' = [e \in Effects |-> [n \in Run |->
       CASE e \in due /\ n = runs[e] -> Aborted(request[e][n])
         [] e \in due /\ n = runs[e] + 1 -> [of |-> now(e), client |-> "timer", stage |-> "none"]
         [] OTHER -> request[e][n]]]
  /\ shown' = [e \in Effects |->
       IF e \notin due THEN shown[e]
       ELSE IF e = "type" THEN [status |-> "loading", of |-> now(e), on |-> now(e)]
       ELSE [shown[e] EXCEPT !.status = "loading"]]
  /\ UNCHANGED <<endpoint, text, edits, root, models>>

Show(e, status, of, on) ==
  shown' = [shown EXCEPT ![e] = [status |-> status, of |-> of, on |-> on]]

(* The timer fires.  With the endpoint the request is sent; without it the *)
(* type is rendered at once, and the checker first renders the schema's    *)
(* type, which may throw, and loads Monaco.                                *)
Fire(e, n) ==
  /\ request[e][n].client = "timer"
  /\ \/ /\ endpoint
        /\ request' = [request EXCEPT ![e][n].client = "pending", ![e][n].stage = "sent"]
        /\ UNCHANGED shown
     \/ /\ ~ endpoint
        /\ request' = [request EXCEPT ![e][n].client = "done"]
        /\ \E status \in IF e = "type" THEN {"fallback", "error"} ELSE {"error"} :
             Show(e, status, request[e][n].of, request[e][n].of)
     \/ /\ ~ endpoint /\ e = "check"
        /\ request' = [request EXCEPT ![e][n].client = "pending", ![e][n].stage = "loading"]
        /\ UNCHANGED shown
  /\ UNCHANGED <<endpoint, text, edits, seen, runs, root, models>>

-----------------------------------------------------------------------------
(* The endpoint: a handler per request, which no abort reaches             *)

Stage(e, n, s) == request' = [request EXCEPT ![e][n].stage = s]

(* mkdtemp; when it fails the handler answers the error.                   *)
MakeRoot(e, n) ==
  /\ request[e][n].stage = "sent"
  /\ \/ Stage(e, n, "project") /\ root' = [root EXCEPT ![e][n] = TRUE]
     \/ Stage(e, n, "failed") /\ UNCHANGED root
  /\ UNCHANGED <<clientVars, models>>

(* Mutant: the root is removed on the way out of a success only.           *)
CompileWithoutFinally(e, n) ==
  /\ request[e][n].stage = "project"
  /\ \/ Stage(e, n, "ready") /\ root' = [root EXCEPT ![e][n] = FALSE]
     \/ Stage(e, n, "failed") /\ UNCHANGED root
  /\ UNCHANGED <<clientVars, models>>

(* The project is written, generated and, for the diagnostics, checked;    *)
(* each may throw, and generate may emit no file.  The finally block       *)
(* removes the root before the answer is sent.                             *)
Compile(e, n) ==
  /\ request[e][n].stage = "project"
  /\ \E s \in {"ready", "failed"} : Stage(e, n, s)
  /\ root' = [root EXCEPT ![e][n] = FALSE]
  /\ UNCHANGED <<clientVars, models>>

(* Mutant: a failure answer is dropped.                                    *)
DeliverSuccess(e, n) ==
  /\ request[e][n].client = "pending"
  /\ request[e][n].stage \in {"ready", "failed"}
  /\ request' = [request EXCEPT ![e][n].client = "done"]
  /\ IF request[e][n].stage = "ready"
     THEN Show(e, "ready", request[e][n].of, request[e][n].of) ELSE UNCHANGED shown
  /\ UNCHANGED <<endpoint, text, edits, seen, runs, root, models>>

(* The answer arrives at a request that is still pending.                  *)
Deliver(e, n) ==
  /\ request[e][n].client = "pending"
  /\ request[e][n].stage \in {"ready", "failed"}
  /\ request' = [request EXCEPT ![e][n].client = "done"]
  /\ Show(e, IF request[e][n].stage = "ready" THEN "ready" ELSE "error",
          request[e][n].of, request[e][n].of)
  /\ UNCHANGED <<endpoint, text, edits, seen, runs, root, models>>

(* The connection fails, or the status is not 200: the catch shows it.     *)
Disconnect(e, n) ==
  /\ endpoint
  /\ request[e][n].client = "pending"
  /\ request' = [request EXCEPT ![e][n].client = "done"]
  /\ Show(e, "error", request[e][n].of, request[e][n].of)
  /\ UNCHANGED <<endpoint, text, edits, seen, runs, root, models>>

-----------------------------------------------------------------------------
(* typecheckInputInBrowser: awaits between the steps, no look at the signal *)

(* Monaco is loaded; both models take this request's texts.                *)
UpsertModels(n) ==
  /\ request["check"][n].stage = "loading"
  /\ models' = request["check"][n].of
  /\ Stage("check", n, "waiting")
  /\ UNCHANGED <<clientVars, root>>

(* waitForTypeScriptReady gives up, or throws: shown, unless it was        *)
(* aborted and it throws.                                                  *)
NotReady(n) ==
  /\ request["check"][n].stage = "waiting"
  /\ request' = [request EXCEPT !["check"][n].stage = "failed", !["check"][n].client = "done"]
  /\ \/ Show("check", "error", request["check"][n].of, request["check"][n].of)
     \/ n # runs["check"] /\ UNCHANGED shown
  /\ UNCHANGED <<endpoint, text, edits, seen, runs, root, models>>

(* The worker answers for the models as they are by then.                  *)
WorkerAnswers(n) ==
  /\ request["check"][n].stage = "waiting"
  /\ request' = [request EXCEPT !["check"][n].stage = "ready", !["check"][n].client = "done"]
  /\ Show("check", "ready", request["check"][n].of, models)
  /\ UNCHANGED <<endpoint, text, edits, seen, runs, root, models>>

Handle(e, n) == MakeRoot(e, n) \/ Compile(e, n)
Browse(n) == UpsertModels(n) \/ NotReady(n) \/ WorkerAnswers(n)

Step ==
  \/ RunEffects
  \/ \E e \in Effects, n \in Run : Fire(e, n) \/ Handle(e, n) \/ Deliver(e, n) \/ Disconnect(e, n)
  \/ \E n \in Run : Browse(n)

Next == Edit \/ Step

(* Effects run, timers fire, the compiler and the worker come to an end;   *)
(* the user need never edit.                                               *)
Spec == Init /\ [][Next]_playgroundVars /\ WF_playgroundVars(Step)

-----------------------------------------------------------------------------
(* Properties                                                              *)

(* Whatever is shown as an answer is the answer for the texts of the       *)
(* effect's last run, computed on those texts: an answer to older texts    *)
(* that arrives after the cleanup is never shown (App.tsx:60-77, 80-101).  *)
(* Without the endpoint only the generated type keeps this.                *)
AnswersCurrentTexts ==
  \A e \in Effects :
    (shown[e].status \in {"ready", "error"} /\ (endpoint \/ e = "type")) =>
      shown[e].of = seen[e] /\ shown[e].on = shown[e].of

(* A temporary project is on disk only while its handler runs, whether it  *)
(* succeeded or threw and whether or not the page still waits              *)
(* (vite.config.ts:80-129).                                                *)
NoProjectLeft ==
  \A e \in Effects, n \in Run :
    root[e][n] => request[e][n].stage = "project"

(* Once the user stops, both panes come to an answer; with the endpoint to *)
(* the answer for the texts in the editors.                                *)
PanesSettle ==
  <>[](\A e \in Effects :
         /\ shown[e].status \in {"ready", "error", "fallback"}
         /\ (endpoint \/ e = "type") => shown[e].of = Dependencies(e, text))
=============================================================================
