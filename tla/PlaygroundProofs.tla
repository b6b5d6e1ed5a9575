--------------------------- MODULE PlaygroundProofs ---------------------------
(***************************************************************************)
(* The playground for any texts and any number of edits: which answers it  *)
(* shows, and that no temporary project outlives its handler.              *)
(***************************************************************************)
EXTENDS Playground, TLAPS

USE TextsAssumption

(* A text an effect depends on, or NoText                                  *)
Seen == [schema : SchemaSources \cup {"none"}, input : InputSources \cup {"none"}]
Clients == {"none", "timer", "pending", "done"}
RequestStages == {"none", "sent", "project", "ready", "failed", "loading", "waiting"}
Request == [of : Seen, client : Clients, stage : RequestStages]
Statuses == {"idle", "loading", "ready", "error", "fallback"}
Shown == [status : Statuses, of : Seen, on : Seen]

PlaygroundTypeOK ==
  /\ endpoint \in BOOLEAN
  /\ text \in Texts
  /\ edits \in 0..MaxEdits
  /\ seen \in [Effects -> Seen]
  /\ runs \in [Effects -> Nat]
  /\ request \in [Effects -> [Run -> Request]]
  /\ root \in [Effects -> [Run -> BOOLEAN]]
  /\ shown \in [Effects -> Shown]
  /\ models \in Seen

(* The bound on the runs of an effect: one for the first texts and one for *)
(* each edit.                                                              *)
RunsBounded ==
  \A e \in Effects :
    /\ runs[e] <= edits + 1
    /\ seen[e] # Dependencies(e, text) => runs[e] <= edits

(* A run that has not happened has no request.  A timer that is set, and   *)
(* an answer that is awaited from the endpoint, belong to the last run of  *)
(* their effect and to the texts it saw; without the endpoint the type is  *)
(* never awaited, and with it nothing is asked of Monaco.                  *)
RequestInv ==
  \A e \in Effects, n \in Run :
    /\ n > runs[e] => request[e][n] = NoRequest
    /\ request[e][n].client = "timer" =>
         n = runs[e] /\ request[e][n].of = seen[e] /\ request[e][n].stage = "none"
    /\ request[e][n].client = "pending" /\ endpoint =>
         n = runs[e] /\ request[e][n].of = seen[e]
    /\ request[e][n].client = "pending" => endpoint \/ e = "check"
    /\ endpoint => request[e][n].stage \notin {"loading", "waiting"}

PlaygroundInv ==
  PlaygroundTypeOK /\ RunsBounded /\ RequestInv /\ NoProjectLeft /\ AnswersCurrentTexts

LEMMA DependenciesSeen ==
  ASSUME NEW e \in Effects, NEW t \in Texts
  PROVE  Dependencies(e, t) \in Seen
BY DEF Dependencies, Texts, Seen, Effects

LEMMA NoTextSeen == NoText \in Seen
BY DEF NoText, Seen

LEMMA PlaygroundInit == Init => PlaygroundInv
<1>1. SUFFICES ASSUME Init PROVE PlaygroundInv
  OBVIOUS
<1>2. NoRequest \in Request /\ NoRequest.client = "none" /\ NoRequest.stage = "none"
  BY NoTextSeen DEF NoRequest, Request, Clients, RequestStages
<1>3. \A e \in Effects : shown[e] \in Shown /\ shown[e].status \in {"fallback", "idle"}
  BY <1>1, DependenciesSeen, NoTextSeen DEF Init, Shown, Statuses
<1>4. PlaygroundTypeOK
  BY <1>1, <1>2, <1>3, NoTextSeen DEF Init, PlaygroundTypeOK
<1>5. RunsBounded /\ RequestInv /\ NoProjectLeft
  BY <1>1, <1>2 DEF Init, RunsBounded, RequestInv, NoProjectLeft
<1>6. AnswersCurrentTexts
  BY <1>3 DEF AnswersCurrentTexts
<1>7. QED  BY <1>4, <1>5, <1>6 DEF PlaygroundInv

-----------------------------------------------------------------------------
(* Edits and effects                                                       *)

LEMMA EditStep ==
  ASSUME PlaygroundInv, Edit
  PROVE  PlaygroundInv'
<1>1. /\ UNCHANGED <<endpoint, seen, runs, request, root, shown, models>>
      /\ edits' = edits + 1 /\ edits' \in 0..MaxEdits /\ text' \in Texts
  BY DEF Edit, PlaygroundInv, PlaygroundTypeOK
<1>2. PlaygroundTypeOK'
  BY <1>1 DEF PlaygroundInv, PlaygroundTypeOK
<1>3. RunsBounded'
  BY <1>1 DEF PlaygroundInv, PlaygroundTypeOK, RunsBounded
<1>4. RequestInv' /\ NoProjectLeft' /\ AnswersCurrentTexts'
  BY <1>1 DEF PlaygroundInv, RequestInv, NoProjectLeft, AnswersCurrentTexts
<1>5. QED  BY <1>2, <1>3, <1>4 DEF PlaygroundInv

LEMMA RunEffectsStep ==
  ASSUME PlaygroundInv, RunEffects
  PROVE  PlaygroundInv'
<1> DEFINE due == {e \in Effects : seen[e] # Dependencies(e, text)}
           now(e) == Dependencies(e, text)
           fresh(e) == [of |-> now(e), client |-> "timer", stage |-> "none"]
<1>1. PlaygroundTypeOK /\ RunsBounded /\ RequestInv /\ NoProjectLeft /\ AnswersCurrentTexts
  BY DEF PlaygroundInv
<1>2. /\ UNCHANGED <<endpoint, text, edits, root, models>>
      /\ seen' = [e \in Effects |-> now(e)]
      /\ runs' = [e \in Effects |-> IF e \in due THEN runs[e] + 1 ELSE runs[e]]
      /\ request' = [e \in Effects |-> [n \in Run |->
           CASE e \in due /\ n = runs[e] -> Aborted(request[e][n])
             [] e \in due /\ n = runs[e] + 1 -> fresh(e)
             [] OTHER -> request[e][n]]]
      /\ shown' = [e \in Effects |->
           IF e \notin due THEN shown[e]
           ELSE IF e = "type" THEN [status |-> "loading", of |-> now(e), on |-> now(e)]
           ELSE [shown[e] EXCEPT !.status = "loading"]]
  BY DEF RunEffects
<1> HIDE DEF due, now, fresh
<1>3. \A e \in Effects : now(e) \in Seen /\ fresh(e) \in Request
  BY <1>1, DependenciesSeen
  DEF now, fresh, PlaygroundTypeOK, Request, Clients, RequestStages
<1>4. ASSUME NEW r \in Request
      PROVE  /\ Aborted(r) \in Request
             /\ Aborted(r).of = r.of /\ Aborted(r).stage = r.stage
             /\ Aborted(r).client # "timer"
             /\ Aborted(r).client = "pending" => r.client = "pending" /\ ~ endpoint
  BY DEF Aborted, Request, Clients
<1>5. ASSUME NEW e \in Effects, NEW n \in Run
      PROVE  /\ e \in due /\ n = runs[e] => request'[e][n] = Aborted(request[e][n])
             /\ e \in due /\ n = runs[e] + 1 => request'[e][n] = fresh(e)
             /\ e \notin due \/ n \notin {runs[e], runs[e] + 1} => request'[e][n] = request[e][n]
             /\ request[e][n] \in Request /\ runs[e] \in Nat /\ n \in Nat
             /\ request'[e][n] \in Request
  <2>1. request[e][n] \in Request /\ runs[e] \in Nat /\ n \in Nat
    BY <1>1 DEF PlaygroundTypeOK, Run
  <2>2. request'[e][n] = CASE e \in due /\ n = runs[e] -> Aborted(request[e][n])
                            [] e \in due /\ n = runs[e] + 1 -> fresh(e)
                            [] OTHER -> request[e][n]
    BY <1>2
  <2>3. runs[e] # runs[e] + 1
    BY <2>1
  <2>4. QED  BY <1>3, <1>4, <2>1, <2>2, <2>3
<1>6. ASSUME NEW e \in Effects
      PROVE  shown'[e] \in Shown /\ (e \in due => shown'[e].status = "loading")
             /\ (e \notin due => shown'[e] = shown[e])
  BY <1>1, <1>2, <1>3 DEF PlaygroundTypeOK, Shown, Statuses
<1>7. PlaygroundTypeOK'
  <2>1. request' \in [Effects -> [Run -> Request]]
    BY <1>2, <1>5
  <2>2. runs' \in [Effects -> Nat] /\ seen' \in [Effects -> Seen]
    BY <1>1, <1>2, <1>3 DEF PlaygroundTypeOK
  <2>3. shown' \in [Effects -> Shown]
    BY <1>2, <1>6
  <2>4. QED  BY <1>1, <1>2, <2>1, <2>2, <2>3 DEF PlaygroundTypeOK
<1>8. \A e \in Effects : seen'[e] = now(e) /\ (e \notin due => seen'[e] = seen[e])
  BY <1>2 DEF due, now
<1>9. RunsBounded'
  BY <1>1, <1>2, <1>8 DEF RunsBounded, PlaygroundTypeOK, due, now
<1>10. RequestInv'
  <2>1. SUFFICES ASSUME NEW e \in Effects, NEW n \in Run
        PROVE  /\ n > runs'[e] => request'[e][n] = NoRequest
               /\ request'[e][n].client = "timer" =>
                    n = runs'[e] /\ request'[e][n].of = seen'[e] /\ request'[e][n].stage = "none"
               /\ request'[e][n].client = "pending" /\ endpoint =>
                    n = runs'[e] /\ request'[e][n].of = seen'[e]
               /\ request'[e][n].client = "pending" => endpoint \/ e = "check"
               /\ endpoint => request'[e][n].stage \notin {"loading", "waiting"}
    BY <1>2 DEF RequestInv
  <2>2. /\ runs'[e] = IF e \in due THEN runs[e] + 1 ELSE runs[e]
        /\ runs[e] \in Nat /\ n \in Nat
    BY <1>2, <1>5
  <2>3. CASE e \notin due
    BY <1>1, <1>5, <1>8, <2>2, <2>3 DEF RequestInv
  <2>4. CASE e \in due /\ n = runs[e]
    BY <1>1, <1>4, <1>5, <2>2, <2>4 DEF RequestInv
  <2>5. CASE e \in due /\ n = runs[e] + 1
    <3>1. /\ fresh(e).of = now(e) /\ fresh(e).client = "timer"
          /\ fresh(e).stage = "none"
      BY DEF fresh
    <3>2. request'[e][n] = fresh(e) /\ runs'[e] = n /\ ~ (n > n)
      BY <1>5, <2>2, <2>5
    <3>3. QED  BY <1>8, <3>1, <3>2
  <2>6. CASE e \in due /\ n # runs[e] /\ n # runs[e] + 1
    BY <1>1, <1>5, <2>2, <2>6 DEF RequestInv
  <2>7. QED  BY <2>3, <2>4, <2>5, <2>6
<1>11. NoProjectLeft'
  <2>1. SUFFICES ASSUME NEW e \in Effects, NEW n \in Run, root[e][n]
                 PROVE  request'[e][n].stage = "project"
    BY <1>2 DEF NoProjectLeft
  <2>2. request[e][n].stage = "project"
    BY <1>1, <2>1 DEF NoProjectLeft
  <2>3. ~ (n = runs[e] + 1)
    BY <1>1, <1>5, <2>2 DEF RequestInv, NoRequest
  <2>4. QED  BY <1>4, <1>5, <2>2, <2>3
<1>12. AnswersCurrentTexts'
  BY <1>1, <1>2, <1>6, <1>8 DEF AnswersCurrentTexts
<1>13. QED  BY <1>7, <1>9, <1>10, <1>11, <1>12 DEF PlaygroundInv

-----------------------------------------------------------------------------
(* Steps of one request                                                    *)

(* A request that has left its timer behind, or has been sent, keeps its   *)
(* texts and its run.                                                      *)
Becomes(e, n, r) ==
  /\ request' = [request EXCEPT ![e][n] = r]
  /\ request[e][n] # NoRequest
  /\ r.of = request[e][n].of
  /\ r.client # "timer"
  /\ r.client = "pending" => /\ request[e][n].client \in {"timer", "pending"}
                             /\ endpoint \/ e = "check"
  /\ endpoint => r.stage \notin {"loading", "waiting"}
  /\ UNCHANGED <<endpoint, text, edits, seen, runs>>

LEMMA RequestStep ==
  ASSUME PlaygroundInv, NEW e \in Effects, NEW n \in Run, NEW r \in Request,
         Becomes(e, n, r)
  PROVE  /\ request' \in [Effects -> [Run -> Request]]
         /\ request'[e][n] = r
         /\ \A d \in Effects, m \in Run :
              d # e \/ m # n => request'[d][m] = request[d][m]
         /\ RunsBounded' /\ RequestInv'
<1>1. /\ request' \in [Effects -> [Run -> Request]]
      /\ request'[e][n] = r
      /\ \A d \in Effects, m \in Run :
           d # e \/ m # n => request'[d][m] = request[d][m]
  BY DEF PlaygroundInv, PlaygroundTypeOK, Becomes
<1>2. RunsBounded'
  BY DEF PlaygroundInv, RunsBounded, Becomes
<1>3. ASSUME NEW d \in Effects, NEW m \in Run
      PROVE  /\ m > runs[d] => request'[d][m] = NoRequest
             /\ request'[d][m].client = "timer" =>
                  m = runs[d] /\ request'[d][m].of = seen[d] /\ request'[d][m].stage = "none"
             /\ request'[d][m].client = "pending" /\ endpoint =>
                  m = runs[d] /\ request'[d][m].of = seen[d]
             /\ request'[d][m].client = "pending" => endpoint \/ d = "check"
             /\ endpoint => request'[d][m].stage \notin {"loading", "waiting"}
  <2>1. CASE d = e /\ m = n
    BY <1>1, <2>1 DEF PlaygroundInv, RequestInv, Becomes
  <2>2. CASE d # e \/ m # n
    BY <1>1, <2>2 DEF PlaygroundInv, RequestInv, Becomes
  <2>3. QED  BY <2>1, <2>2
<1>4. RequestInv'
  <2>1. UNCHANGED <<endpoint, seen, runs>>
    BY DEF Becomes
  <2>2. QED  BY <1>3, <2>1 DEF RequestInv
<1>5. QED  BY <1>1, <1>2, <1>4

(* Showing an answer for the texts the effect saw last.                    *)
LEMMA ShowStep ==
  ASSUME PlaygroundInv, NEW e \in Effects, NEW status \in Statuses,
         NEW of \in Seen, NEW on \in Seen,
         Show(e, status, of, on), UNCHANGED <<endpoint, seen>>,
         endpoint \/ e = "type" => of = seen[e] /\ on = of
  PROVE  shown' \in [Effects -> Shown] /\ AnswersCurrentTexts'
<1>1. /\ shown'[e] = [status |-> status, of |-> of, on |-> on]
      /\ \A d \in Effects : d # e => shown'[d] = shown[d]
      /\ shown' \in [Effects -> Shown]
  BY DEF Show, PlaygroundInv, PlaygroundTypeOK, Shown
<1>2. QED  BY <1>1 DEF PlaygroundInv, AnswersCurrentTexts

(* The temporary project of a request appears and goes with its stage.     *)
LEMMA RootStep ==
  ASSUME PlaygroundInv, NEW e \in Effects, NEW n \in Run,
         root'[e][n] => request'[e][n].stage = "project",
         \A d \in Effects, m \in Run : d # e \/ m # n =>
           request'[d][m] = request[d][m] /\ root'[d][m] = root[d][m]
  PROVE  NoProjectLeft'
BY DEF PlaygroundInv, NoProjectLeft

LEMMA FireStep ==
  ASSUME PlaygroundInv, NEW e \in Effects, NEW n \in Run, Fire(e, n)
  PROVE  PlaygroundInv'
<1>1. PlaygroundTypeOK /\ RequestInv /\ NoProjectLeft /\ AnswersCurrentTexts
  BY DEF PlaygroundInv
<1>2. /\ request[e][n].client = "timer" /\ request[e][n].of = seen[e]
      /\ request[e][n].stage = "none" /\ request[e][n] # NoRequest
      /\ request[e][n] \in Request /\ request[e][n].of \in Seen
      /\ UNCHANGED <<endpoint, text, edits, seen, runs, root, models>>
  BY <1>1 DEF Fire, RequestInv, NoRequest, PlaygroundTypeOK, Request
<1>3. PICK r \in Request :
        /\ request' = [request EXCEPT ![e][n] = r]
        /\ r.of = request[e][n].of /\ r.client # "timer"
        /\ r.client = "pending" => endpoint \/ e = "check"
        /\ endpoint => r.stage \notin {"loading", "waiting"}
  <2>1. CASE endpoint /\ request' = [request EXCEPT ![e][n].client = "pending", ![e][n].stage = "sent"]
    <3>1. [request[e][n] EXCEPT !.client = "pending", !.stage = "sent"] \in Request
      BY <1>2 DEF Request, Clients, RequestStages
    <3>2. request' = [request EXCEPT ![e][n] = [request[e][n] EXCEPT !.client = "pending", !.stage = "sent"]]
      BY <1>1, <2>1 DEF PlaygroundTypeOK, Request
    <3>3. QED  BY <1>2, <2>1, <3>1, <3>2 DEF Request
  <2>2. CASE request' = [request EXCEPT ![e][n].client = "done"]
    <3>1. [request[e][n] EXCEPT !.client = "done"] \in Request
      BY <1>2 DEF Request, Clients
    <3>2. QED  BY <1>2, <2>2, <3>1 DEF Request
  <2>3. CASE /\ ~ endpoint /\ e = "check"
             /\ request' = [request EXCEPT ![e][n].client = "pending", ![e][n].stage = "loading"]
    <3>1. [request[e][n] EXCEPT !.client = "pending", !.stage = "loading"] \in Request
      BY <1>2 DEF Request, Clients, RequestStages
    <3>2. request' = [request EXCEPT ![e][n] = [request[e][n] EXCEPT !.client = "pending", !.stage = "loading"]]
      BY <1>1, <2>3 DEF PlaygroundTypeOK, Request
    <3>3. QED  BY <1>2, <2>3, <3>1, <3>2 DEF Request
  <2>4. QED  BY <2>1, <2>2, <2>3 DEF Fire
<1>4. /\ request' \in [Effects -> [Run -> Request]] /\ RunsBounded' /\ RequestInv'
      /\ \A d \in Effects, m \in Run :
           d # e \/ m # n => request'[d][m] = request[d][m]
  <2>1. Becomes(e, n, r)
    BY <1>2, <1>3 DEF Becomes
  <2>2. QED  BY <2>1, RequestStep
<1>5. ~ root[e][n]
  BY <1>1, <1>2 DEF NoProjectLeft
<1>6. NoProjectLeft'
  BY <1>2, <1>4, <1>5, RootStep
<1>7. shown' \in [Effects -> Shown] /\ AnswersCurrentTexts'
  <2>1. CASE UNCHANGED shown
    BY <1>1, <1>2, <2>1 DEF PlaygroundTypeOK, AnswersCurrentTexts
  <2>2. ASSUME NEW status \in {"fallback", "error"},
               Show(e, status, request[e][n].of, request[e][n].of)
        PROVE  shown' \in [Effects -> Shown] /\ AnswersCurrentTexts'
    BY <1>2, <2>2, ShowStep DEF Statuses
  <2>3. QED  BY <2>1, <2>2 DEF Fire
<1>8. PlaygroundTypeOK'
  BY <1>1, <1>2, <1>4, <1>7 DEF PlaygroundTypeOK
<1>9. QED  BY <1>4, <1>6, <1>7, <1>8 DEF PlaygroundInv

(* A stage of the handler, with what it does to its project.               *)
LEMMA StageStep ==
  ASSUME PlaygroundInv, NEW e \in Effects, NEW n \in Run,
         NEW s \in RequestStages \ {"none", "loading", "waiting"},
         NEW present \in BOOLEAN, present => s = "project",
         request[e][n].stage \in {"sent", "project"},
         Stage(e, n, s), root' = [root EXCEPT ![e][n] = present],
         UNCHANGED clientVars, UNCHANGED models
  PROVE  PlaygroundInv'
<1>1. PlaygroundTypeOK /\ RequestInv /\ AnswersCurrentTexts
  BY DEF PlaygroundInv
<1>2. /\ request[e][n] \in Request /\ request[e][n] # NoRequest
      /\ request[e][n].client # "timer"
      /\ UNCHANGED <<endpoint, text, edits, seen, runs, shown, models>>
  BY <1>1 DEF RequestInv, NoRequest, PlaygroundTypeOK, clientVars
<1>3. PICK r \in Request :
        /\ request' = [request EXCEPT ![e][n] = r]
        /\ r.of = request[e][n].of /\ r.client = request[e][n].client /\ r.stage = s
  <2>1. [request[e][n] EXCEPT !.stage = s] \in Request
    BY <1>2 DEF Request
  <2>2. QED  BY <1>2, <2>1 DEF Stage, Request
<1>4. /\ r.client # "timer"
      /\ r.client = "pending" => /\ request[e][n].client \in {"timer", "pending"}
                                 /\ endpoint \/ e = "check"
      /\ endpoint => r.stage \notin {"loading", "waiting"}
  BY <1>1, <1>2, <1>3 DEF RequestInv
<1>5. /\ request' \in [Effects -> [Run -> Request]] /\ RunsBounded' /\ RequestInv'
      /\ request'[e][n] = r
      /\ \A d \in Effects, m \in Run :
           d # e \/ m # n => request'[d][m] = request[d][m]
  <2>1. Becomes(e, n, r)
    BY <1>2, <1>3, <1>4 DEF Becomes
  <2>2. QED  BY <2>1, RequestStep
<1>6. /\ root' \in [Effects -> [Run -> BOOLEAN]]
      /\ root'[e][n] = present
      /\ \A d \in Effects, m \in Run : d # e \/ m # n => root'[d][m] = root[d][m]
  BY <1>1 DEF PlaygroundTypeOK
<1>7. NoProjectLeft'
  BY <1>3, <1>5, <1>6, RootStep
<1>8. AnswersCurrentTexts'
  BY <1>1, <1>2 DEF AnswersCurrentTexts
<1>9. PlaygroundTypeOK'
  BY <1>1, <1>2, <1>5, <1>6 DEF PlaygroundTypeOK
<1>10. QED  BY <1>5, <1>7, <1>8, <1>9 DEF PlaygroundInv

LEMMA HandleStep ==
  ASSUME PlaygroundInv, NEW e \in Effects, NEW n \in Run, Handle(e, n)
  PROVE  PlaygroundInv'
<1>1. CASE MakeRoot(e, n)
  <2>1. CASE Stage(e, n, "project") /\ root' = [root EXCEPT ![e][n] = TRUE]
    BY <1>1, <2>1, StageStep DEF MakeRoot, RequestStages
  <2>2. CASE Stage(e, n, "failed") /\ UNCHANGED root
    <3>1. root[e][n] = FALSE /\ root' = [root EXCEPT ![e][n] = FALSE]
      BY <1>1, <2>2 DEF MakeRoot, PlaygroundInv, PlaygroundTypeOK, NoProjectLeft
    <3>2. QED  BY <1>1, <2>2, <3>1, StageStep DEF MakeRoot, RequestStages
  <2>3. QED  BY <1>1, <2>1, <2>2 DEF MakeRoot
<1>2. CASE Compile(e, n)
  BY <1>2, StageStep DEF Compile, RequestStages
<1>3. QED  BY <1>1, <1>2 DEF Handle

(* An answer, or its failure, is shown for a request that is still wanted. *)
LEMMA AnswerStep ==
  ASSUME PlaygroundInv, NEW e \in Effects, NEW n \in Run,
         Deliver(e, n) \/ Disconnect(e, n)
  PROVE  PlaygroundInv'
<1>1. PlaygroundTypeOK /\ RequestInv /\ NoProjectLeft
  BY DEF PlaygroundInv
<1>2. /\ request[e][n] \in Request /\ request[e][n].of \in Seen
      /\ request[e][n].client = "pending" /\ request[e][n] # NoRequest
      /\ request' = [request EXCEPT ![e][n].client = "done"]
      /\ UNCHANGED <<endpoint, text, edits, seen, runs, root, models>>
  BY <1>1 DEF Deliver, Disconnect, NoRequest, PlaygroundTypeOK, Request
<1>3. PICK r \in Request :
        /\ request' = [request EXCEPT ![e][n] = r]
        /\ r.of = request[e][n].of /\ r.client = "done" /\ r.stage = request[e][n].stage
  <2>1. [request[e][n] EXCEPT !.client = "done"] \in Request
    BY <1>2 DEF Request, Clients
  <2>2. QED  BY <1>2, <2>1 DEF Request
<1>4. endpoint => r.stage \notin {"loading", "waiting"}
  BY <1>1, <1>3 DEF RequestInv
<1>5. /\ request' \in [Effects -> [Run -> Request]] /\ RunsBounded' /\ RequestInv'
      /\ request'[e][n] = r
      /\ \A d \in Effects, m \in Run :
           d # e \/ m # n => request'[d][m] = request[d][m]
  <2>1. Becomes(e, n, r)
    BY <1>2, <1>3, <1>4 DEF Becomes
  <2>2. QED  BY <2>1, RequestStep
<1>6. NoProjectLeft'
  BY <1>1, <1>2, <1>3, <1>5 DEF NoProjectLeft
<1>7. endpoint \/ e = "type" => request[e][n].of = seen[e]
  BY <1>1, <1>2 DEF RequestInv
<1>8. \E status \in Statuses : Show(e, status, request[e][n].of, request[e][n].of)
  BY DEF Deliver, Disconnect, Statuses
<1>9. shown' \in [Effects -> Shown] /\ AnswersCurrentTexts'
  BY <1>2, <1>7, <1>8, ShowStep
<1>10. PlaygroundTypeOK'
  BY <1>1, <1>2, <1>5, <1>9 DEF PlaygroundTypeOK
<1>11. QED  BY <1>5, <1>6, <1>9, <1>10 DEF PlaygroundInv

(* Monaco's answers, which only a page without the endpoint asks for.      *)
LEMMA BrowseStep ==
  ASSUME PlaygroundInv, NEW n \in Run, Browse(n)
  PROVE  PlaygroundInv'
<1>1. PlaygroundTypeOK /\ RequestInv /\ NoProjectLeft /\ AnswersCurrentTexts
  BY DEF PlaygroundInv
<1>2. /\ "check" \in Effects /\ "check" # "type"
      /\ request["check"][n] \in Request /\ request["check"][n].of \in Seen
      /\ request["check"][n].stage \in {"loading", "waiting"}
      /\ request["check"][n] # NoRequest /\ request["check"][n].client # "timer"
      /\ ~ endpoint /\ ~ root["check"][n]
      /\ UNCHANGED <<endpoint, text, edits, seen, runs, root>>
  BY <1>1 DEF Browse, UpsertModels, NotReady, WorkerAnswers, clientVars, Effects,
              PlaygroundTypeOK, Request, RequestInv, NoProjectLeft, NoRequest
<1>3. PICK r \in Request :
        /\ request' = [request EXCEPT !["check"][n] = r]
        /\ r.of = request["check"][n].of
        /\ r.client \in {"done", request["check"][n].client}
  <2>1. CASE UpsertModels(n)
    <3>1. [request["check"][n] EXCEPT !.stage = "waiting"] \in Request
      BY <1>2 DEF Request, RequestStages
    <3>2. QED  BY <1>2, <2>1, <3>1 DEF UpsertModels, Stage, Request
  <2>2. ASSUME NEW s \in {"failed", "ready"},
               request' = [request EXCEPT !["check"][n].stage = s, !["check"][n].client = "done"]
        PROVE  \E r \in Request :
                 /\ request' = [request EXCEPT !["check"][n] = r]
                 /\ r.of = request["check"][n].of
                 /\ r.client \in {"done", request["check"][n].client}
    <3>1. [request["check"][n] EXCEPT !.stage = s, !.client = "done"] \in Request
      BY <1>2, <2>2 DEF Request, Clients, RequestStages
    <3>2. request' = [request EXCEPT !["check"][n] =
                        [request["check"][n] EXCEPT !.stage = s, !.client = "done"]]
      BY <1>1, <1>2, <2>2 DEF PlaygroundTypeOK, Request
    <3>3. QED  BY <1>2, <3>1, <3>2 DEF Request
  <2>3. QED  BY <2>1, <2>2 DEF Browse, NotReady, WorkerAnswers
<1>4. /\ r.client # "timer"
      /\ r.client = "pending" => request["check"][n].client \in {"timer", "pending"}
  BY <1>2, <1>3
<1>5. /\ request' \in [Effects -> [Run -> Request]] /\ RunsBounded' /\ RequestInv'
      /\ \A d \in Effects, m \in Run :
           d # "check" \/ m # n => request'[d][m] = request[d][m]
  <2>1. Becomes("check", n, r)
    BY <1>2, <1>3, <1>4 DEF Becomes
  <2>2. QED  BY <1>2, <2>1, RequestStep
<1>6. NoProjectLeft'
  BY <1>2, <1>5, RootStep
<1>7. models' \in Seen /\ shown' \in [Effects -> Shown] /\ AnswersCurrentTexts'
  <2>1. CASE UNCHANGED shown
    BY <1>1, <1>2, <2>1
    DEF PlaygroundTypeOK, AnswersCurrentTexts, Browse, UpsertModels, NotReady, WorkerAnswers
  <2>2. CASE NotReady(n) /\ ~ UNCHANGED shown
    BY <1>1, <1>2, <2>2, ShowStep DEF NotReady, Statuses, PlaygroundTypeOK
  <2>3. CASE WorkerAnswers(n)
    BY <1>1, <1>2, <2>3, ShowStep DEF WorkerAnswers, Statuses, PlaygroundTypeOK
  <2>4. QED  BY <2>1, <2>2, <2>3 DEF Browse, UpsertModels, clientVars
<1>8. PlaygroundTypeOK'
  BY <1>1, <1>2, <1>5, <1>7 DEF PlaygroundTypeOK
<1>9. QED  BY <1>5, <1>6, <1>7, <1>8 DEF PlaygroundInv

-----------------------------------------------------------------------------
LEMMA PlaygroundNext == PlaygroundInv /\ [Next]_playgroundVars => PlaygroundInv'
<1>1. CASE UNCHANGED playgroundVars
  BY <1>1 DEF playgroundVars, PlaygroundInv, PlaygroundTypeOK, RunsBounded, RequestInv,
              NoProjectLeft, AnswersCurrentTexts
<1>2. QED
  BY <1>1, EditStep, RunEffectsStep, FireStep, HandleStep, AnswerStep, BrowseStep
  DEF Next, Step

LEMMA PlaygroundCorrect == Spec => []PlaygroundInv
BY PlaygroundInit, PlaygroundNext, PTL DEF Spec

(* The panes' state keeps its type, whatever answers arrive in what order. *)
THEOREM PlaygroundTyped == Spec => []PlaygroundTypeOK
<1>1. PlaygroundInv => PlaygroundTypeOK
  BY DEF PlaygroundInv
<1>2. QED  BY <1>1, PlaygroundCorrect, PTL

(* An answer that is shown is the answer to the texts the effect saw last: *)
(* a late one, to texts that were edited since, never is.                  *)
THEOREM ShownIsCurrent == Spec => []AnswersCurrentTexts
<1>1. PlaygroundInv => AnswersCurrentTexts
  BY DEF PlaygroundInv
<1>2. QED  BY <1>1, PlaygroundCorrect, PTL

(* A temporary project is on disk only while its handler runs.             *)
THEOREM ProjectsRemoved == Spec => []NoProjectLeft
<1>1. PlaygroundInv => NoProjectLeft
  BY DEF PlaygroundInv
<1>2. QED  BY <1>1, PlaygroundCorrect, PTL
=============================================================================
