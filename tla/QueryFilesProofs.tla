--------------------------- MODULE QueryFilesProofs ---------------------------
(***************************************************************************)
(* The query files of a session for any set of sources and any number of   *)
(* passes, throwing calls, deaths of the checker and kills.                *)
(***************************************************************************)
EXTENDS QueryFiles, TLAPS

USE QueryAssumption

(* A shut scope holds nothing, and scopes are open during a pass only.     *)
ShutInv ==
  /\ \A k \in Scopes : scope[k].at = "shut" => scope[k].docs = {}
  /\ process # "pass" => \A k \in Scopes : scope[k].at = "shut"

(* The probes of a source nest in an open batch and register other files.  *)
NestInv ==
  /\ scope["batch"].at \notin {"shut", "open"} => scope["single"].at = "shut"
  /\ scope["batch"].docs \cap scope["single"].docs = {}
  /\ scope["batch"].docs \subseteq Sources \X {"query"}
  /\ scope["batch"].at \in {"write", "notify"} => current = {}
  /\ scope["batch"].at = "open" /\ current # {} => rank >= 1

(* Progress of the registration and the removal of a scope on disk.        *)
DiskInv ==
  \A k \in Scopes :
    /\ scope[k].at \in {"notify", "unnotify"} /\ ~ overlay => scope[k].left = {}
    /\ ~ overlay => \A d \in scope[k].docs \ scope[k].left :
         /\ scope[k].at \in {"write", "notify"} => file[d] = pass
         /\ scope[k].at \in {"remove", "unnotify"} => file[d] = 0

(* With overlays a session leaves the disk alone.                          *)
OverlayInv ==
  overlay => OnDisk \subseteq orphans /\ (process # "down" => OnDisk \subseteq ghosts)

IInv ==
  TypeOK /\ ShutInv /\ NestInv /\ DiskInv /\ OverlayInv /\ NothingLeft /\ AnswersAreCurrent

LEMMA InitIInv == Init => IInv
<1> SUFFICES ASSUME Init PROVE IInv
  OBVIOUS
<1>1. /\ \A k \in Scopes : scope[k] = Shut
      /\ Shut \in Scope /\ Shut.at = "shut" /\ Shut.docs = {} /\ Shut.left = {}
  BY DEF Init, Shut, Scope, Steps
<1>2. TypeOK
  <2>1. alive \in BOOLEAN /\ overlay \in BOOLEAN
    BY DEF Init
  <2>2. scope \in [Scopes -> Scope] /\ \A k \in Scopes : scope[k].left \subseteq scope[k].docs
    BY <1>1 DEF Init
  <2>3. QED  BY <2>1, <2>2 DEF Init, TypeOK, Body
<1>3. ShutInv /\ NestInv /\ DiskInv /\ AnswersAreCurrent
  BY <1>1 DEF ShutInv, NestInv, DiskInv, AnswersAreCurrent, Scopes
<1>4. OnDisk = {} /\ Known = {}
  BY DEF Init, OnDisk, Known
<1>5. QED  BY <1>2, <1>3, <1>4 DEF IInv, OverlayInv, NothingLeft

LEMMA StartIInv == IInv /\ Start => IInv'
<1> SUFFICES ASSUME IInv, Start PROVE IInv'
  OBVIOUS
<1>1. TypeOK'
  BY DEF IInv, Start, TypeOK, disk, plan, OnDisk, Body
<1>2. \A k \in Scopes : scope[k].at = "shut" /\ scope[k].docs = {}
  BY DEF IInv, ShutInv, Start
<1>3. OnDisk \subseteq orphans
  BY <1>2 DEF IInv, NothingLeft, Pending, Scopes
<1>4. ShutInv' /\ NestInv' /\ DiskInv' /\ AnswersAreCurrent'
  BY <1>2 DEF IInv, Start, ShutInv, NestInv, DiskInv, AnswersAreCurrent, Scopes, disk, plan
<1>5. OverlayInv' /\ NothingLeft'
  BY <1>3 DEF Start, OverlayInv, NothingLeft, OnDisk, Known, disk
<1>6. QED  BY <1>1, <1>4, <1>5 DEF IInv

LEMMA OutsideIInv == IInv /\ (Close \/ Kill \/ CheckerDies) => IInv'
<1> SUFFICES ASSUME IInv, Close \/ Kill \/ CheckerDies PROVE IInv'
  OBVIOUS
<1>1. CASE Close
  BY <1>1 DEF IInv, Close, TypeOK, ShutInv, NestInv, DiskInv, OverlayInv, NothingLeft,
              AnswersAreCurrent, OnDisk, Known, Pending, disk, plan
<1>2. CASE Kill
  <2>1. TypeOK'
    <3>1. Shut \in Scope /\ Shut.left \subseteq Shut.docs
      BY DEF Shut, Scope, Steps
    <3>2. scope' \in [Scopes -> Scope] /\ \A k \in Scopes : scope'[k].left \subseteq scope'[k].docs
      BY <1>2, <3>1 DEF Kill
    <3>3. alive' \in BOOLEAN /\ overlay' \in BOOLEAN
      BY <1>2 DEF IInv, Kill, TypeOK
    <3>4. kills' \in 0..MaxKills
      BY <1>2 DEF IInv, Kill, TypeOK
    <3>5. QED  BY <1>2, <3>2, <3>3, <3>4 DEF IInv, Kill, TypeOK, OnDisk
  <2>2. \A k \in Scopes : scope'[k] = Shut
    BY <1>2 DEF Kill
  <2>3. ShutInv' /\ NestInv' /\ DiskInv' /\ AnswersAreCurrent'
    BY <1>2, <2>2 DEF ShutInv, NestInv, DiskInv, AnswersAreCurrent, Shut, Scopes
  <2>4. OverlayInv' /\ NothingLeft'
    BY <1>2 DEF Kill, OverlayInv, NothingLeft, OnDisk
  <2>5. QED  BY <2>1, <2>3, <2>4 DEF IInv
<1>3. CASE CheckerDies
  <2>1. UNCHANGED <<process, file, orphans, checker, overlay, ghosts, scope, plan, kills>>
    BY <1>3 DEF CheckerDies, disk
  <2>2. TypeOK'
    <3>1. alive' \in BOOLEAN
      BY <1>3 DEF CheckerDies
    <3>2. faults \in 0..MaxFaults /\ faults < MaxFaults /\ faults' = faults + 1
      BY <1>3 DEF IInv, CheckerDies, TypeOK
    <3>3. faults' \in 0..MaxFaults
      BY <3>2
    <3>4. QED  BY <2>1, <3>1, <3>3 DEF IInv, TypeOK, plan
  <2>3. ShutInv' /\ NestInv' /\ DiskInv' /\ AnswersAreCurrent'
    BY <2>1 DEF IInv, ShutInv, NestInv, DiskInv, AnswersAreCurrent, plan
  <2>4. OverlayInv' /\ NothingLeft'
    BY <2>1 DEF IInv, OverlayInv, NothingLeft, OnDisk, Known, Pending
  <2>5. QED  BY <2>2, <2>3, <2>4 DEF IInv
<1>4. QED  BY <1>1, <1>2, <1>3

LEMMA BeginIInv ==
  ASSUME IInv, \/ \E Q \in SUBSET Sources : GenerateAll(Q)
               \/ \E s \in Sources : GenerateFile(s)
  PROVE  IInv'
<1>1. /\ process = "idle" /\ process' = "pass" /\ pass' = pass + 1 /\ pass < MaxPasses
      /\ current' = {} /\ todo' \subseteq Sources
      /\ UNCHANGED <<disk, program, rank, faults, kills>>
  BY DEF GenerateAll, GenerateFile, Begin
<1>2. \A k \in Scopes : scope[k].at = "shut" /\ scope[k].docs = {}
  BY <1>1 DEF IInv, ShutInv
<1>3. /\ scope' \in [Scopes -> Scope]
      /\ scope'["single"] = scope["single"]
      /\ \/ scope'["batch"] = scope["batch"]
         \/ \E Q \in SUBSET Sources : scope'["batch"] = Enter({<<s, "query">> : s \in Q})
      /\ \A k \in Scopes : scope'[k].left \subseteq scope'[k].docs
  <2>1. CASE \E s \in Sources : GenerateFile(s)
    BY <2>1 DEF GenerateFile, IInv, TypeOK
  <2>2. ASSUME NEW Q \in SUBSET Sources, GenerateAll(Q)
        PROVE  <1>3!1 /\ <1>3!2 /\ <1>3!3 /\ <1>3!4
    <3>1. Enter({<<s, "query">> : s \in Q}) \in Scope
      BY DEF Enter, Scope, Steps, Documents, Uses
    <3>2. scope' = [scope EXCEPT !["batch"] = Enter({<<s, "query">> : s \in Q})]
      BY <2>2 DEF GenerateAll
    <3>3. scope'["batch"] = Enter({<<s, "query">> : s \in Q})
      BY <3>2 DEF IInv, TypeOK, Scopes
    <3>4. scope' \in [Scopes -> Scope] /\ scope'["single"] = scope["single"]
      BY <3>1, <3>2 DEF IInv, TypeOK, Scopes
    <3>5. \A k \in Scopes : scope'[k].left \subseteq scope'[k].docs
      BY <3>3, <3>4 DEF Enter, Scopes, IInv, TypeOK
    <3>6. QED  BY <3>3, <3>4, <3>5
  <2>3. QED  BY <2>1, <2>2
<1>4. TypeOK'
  BY <1>1, <1>3 DEF IInv, TypeOK, disk, program, Body
<1>5. /\ scope'["single"].at = "shut" /\ scope'["single"].docs = {}
      /\ scope'["batch"].at \in {"shut", "write"}
      /\ scope'["batch"].at = "shut" => scope'["batch"].docs = {}
      /\ scope'["batch"].docs = scope'["batch"].left \/ scope'["batch"].docs = {}
      /\ scope'["batch"].docs \subseteq Sources \X {"query"}
  <2>1. /\ scope["single"].at = "shut" /\ scope["single"].docs = {}
        /\ scope["batch"].at = "shut" /\ scope["batch"].docs = {}
    BY <1>2 DEF Scopes
  <2>2. CASE scope'["batch"] = scope["batch"]
    BY <1>3, <2>1, <2>2
  <2>3. ASSUME NEW Q \in SUBSET Sources, scope'["batch"] = Enter({<<s, "query">> : s \in Q})
        PROVE  <1>5
    BY <1>3, <2>1, <2>3 DEF Enter
  <2>4. QED  BY <1>3, <2>2, <2>3
<1>6. ShutInv' /\ NestInv' /\ DiskInv' /\ AnswersAreCurrent'
  BY <1>1, <1>5 DEF ShutInv, NestInv, DiskInv, AnswersAreCurrent, Scopes
<1>7. OverlayInv' /\ NothingLeft'
  BY <1>1, <1>2 DEF IInv, OverlayInv, NothingLeft, OnDisk, Known, Pending, Scopes, disk, program
<1>8. QED  BY <1>4, <1>6, <1>7 DEF IInv

LEMMA PickIInv == ASSUME IInv, NEW s \in Sources, Pick(s) PROVE IInv'
<1>1. /\ UNCHANGED <<process, disk, program, scope, pass, todo, faults, kills>>
      /\ current' = {s} /\ rank' \in 0..4
      /\ scope["batch"].at = "open" => rank' = 1
      /\ scope["batch"].at \in {"shut", "open"}
  BY DEF Pick, Resolving
<1>2. TypeOK'
  BY <1>1 DEF IInv, TypeOK, disk, program
<1>3. ShutInv' /\ NestInv' /\ DiskInv' /\ AnswersAreCurrent'
  BY <1>1 DEF IInv, ShutInv, NestInv, DiskInv, AnswersAreCurrent, disk, program
<1>4. OverlayInv' /\ NothingLeft'
  BY <1>1 DEF IInv, OverlayInv, NothingLeft, OnDisk, Known, Pending, disk, program
<1>5. QED  BY <1>2, <1>3, <1>4 DEF IInv

(* The only facts about a step that changes scope k alone.                 *)
LEMMA ScopeUpdate ==
  ASSUME TypeOK, NEW k \in Scopes, NEW r \in Scope, scope' = [scope EXCEPT ![k] = r],
         r.left \subseteq r.docs
  PROVE  /\ scope' \in [Scopes -> Scope]
         /\ scope'[k] = r
         /\ \A j \in Scopes \ {k} : scope'[j] = scope[j]
         /\ \A j \in Scopes : scope'[j].left \subseteq scope'[j].docs
BY DEF TypeOK

LEMMA QueryIInv ==
  ASSUME IInv, NEW s \in Sources, NEW u \in Uses, Query(s, u) PROVE IInv'
<1>1. /\ UNCHANGED <<process, disk, program, pass, todo, current, faults, kills>>
      /\ process = "pass" /\ s \in current
      /\ scope["single"].at = "shut" /\ scope["batch"].at \in {"shut", "open"}
      /\ scope' = [scope EXCEPT !["single"] = Enter({<<s, u>>})]
      /\ rank' = Rank[u]
      /\ Rank[u] > rank \/ (u = "probe" /\ rank = Rank["probe"])
  BY DEF Query, Resolving
<1>2. Rank[u] \in 1..4 /\ (Rank[u] = 1 <=> u = "query")
  BY DEF Rank, Uses
<1>3. Enter({<<s, u>>}) \in Scope
  BY DEF Enter, Scope, Steps, Documents
<1>4. /\ scope' \in [Scopes -> Scope]
      /\ scope'["single"] = Enter({<<s, u>>})
      /\ scope'["batch"] = scope["batch"]
      /\ \A j \in Scopes : scope'[j].left \subseteq scope'[j].docs
  BY <1>1, <1>3, ScopeUpdate DEF IInv, Enter, Scopes
<1>5. TypeOK'
  <2>1. rank' \in 0..4
    BY <1>1, <1>2
  <2>2. QED  BY <1>1, <1>4, <2>1 DEF IInv, TypeOK, disk, program
<1>6. /\ scope'["single"].at = "write" /\ scope'["single"].docs = {<<s, u>>}
      /\ scope'["single"].left = {<<s, u>>}
  BY <1>4 DEF Enter
<1>7. scope["single"].docs = {} /\ (scope["batch"].at = "shut" => scope["batch"].docs = {})
  BY <1>1 DEF IInv, ShutInv, Scopes
<1>8. scope["batch"].at = "open" => u # "query"
  BY <1>1, <1>2 DEF IInv, TypeOK, NestInv
<1>9. NestInv'
  <2>1. scope'["batch"].docs \cap scope'["single"].docs = {}
    <3>1. CASE scope["batch"].at = "shut"
      BY <1>4, <1>7, <3>1
    <3>2. CASE u # "query"
      <4>1. <<s, u>> \notin Sources \X {"query"}
        BY <3>2
      <4>2. QED  BY <1>4, <1>6, <4>1 DEF IInv, NestInv
    <3>3. QED  BY <1>1, <1>8, <3>1, <3>2
  <2>2. rank' >= 1
    BY <1>1, <1>2
  <2>3. QED  BY <1>1, <1>4, <2>1, <2>2 DEF IInv, NestInv
<1>10. ShutInv' /\ DiskInv' /\ AnswersAreCurrent'
  BY <1>1, <1>4, <1>6 DEF IInv, ShutInv, DiskInv, AnswersAreCurrent, Scopes, disk, program
<1>11. OverlayInv' /\ NothingLeft'
  BY <1>1, <1>4, <1>7 DEF IInv, OverlayInv, NothingLeft, OnDisk, Known, Pending, disk, program
<1>12. QED  BY <1>5, <1>9, <1>10, <1>11 DEF IInv

-----------------------------------------------------------------------------
(* What one call of a scope does to the invariant: it moves the scope on,  *)
(* closes it, or raises an exception out of it.                            *)
SafeInv == ShutInv /\ NestInv /\ DiskInv /\ AnswersAreCurrent

LEMMA ActiveFacts ==
  ASSUME IInv, NEW k \in Scopes, Active(k)
  PROVE  /\ process = "pass"
         /\ scope[k] \in Scope
         /\ k = "batch" => scope["single"].at = "shut" /\ scope["single"].docs = {}
         /\ k = "single" => scope["batch"].at \in {"shut", "open"}
         /\ \A j \in Scopes \ {k} : scope[j].docs \cap scope[k].docs = {}
BY DEF IInv, TypeOK, ShutInv, NestInv, Active, Scopes

LEMMA AdvanceInv ==
  ASSUME IInv, NEW k \in Scopes, Active(k), NEW r \in Scope,
         scope' = [scope EXCEPT ![k] = r],
         UNCHANGED <<process, pass, current, rank, overlay>>,
         \A d \in Documents \ scope[k].docs : file'[d] = file[d] /\ checker'[d] = checker[d],
         r.docs = scope[k].docs, r.at # "shut", r.left \subseteq r.docs,
         r.at \in {"write", "notify", "open"} => scope[k].at \in {"write", "notify"},
         r.at \in {"notify", "unnotify"} /\ ~ overlay => r.left = {},
         ~ overlay => \A d \in r.docs \ r.left :
           /\ r.at \in {"write", "notify"} => file'[d] = pass
           /\ r.at \in {"remove", "unnotify"} => file'[d] = 0,
         r.at = "open" => \A d \in r.docs : checker'[d] = pass
  PROVE  /\ SafeInv' /\ Pending' = Pending
         /\ scope' \in [Scopes -> Scope]
         /\ \A j \in Scopes : scope'[j].left \subseteq scope'[j].docs
<1>1. /\ scope' \in [Scopes -> Scope]
      /\ scope'[k] = r
      /\ \A j \in Scopes \ {k} : scope'[j] = scope[j]
      /\ \A j \in Scopes : scope'[j].left \subseteq scope'[j].docs
  BY ScopeUpdate DEF IInv
<1>2. \A j \in Scopes : scope'[j].docs = scope[j].docs /\ scope[j].docs \subseteq Documents
  BY <1>1 DEF IInv, TypeOK, Scope
<1>3. Pending' = Pending
  BY <1>2 DEF Pending, Scopes
<1>4. ShutInv'
  BY <1>1, <1>2, ActiveFacts DEF IInv, ShutInv
<1>5. NestInv'
  <2>1. CASE k = "batch"
    BY <1>1, <1>2, <2>1, ActiveFacts DEF IInv, NestInv, Scopes
  <2>2. CASE k = "single"
    BY <1>1, <1>2, <2>2, ActiveFacts DEF IInv, NestInv, Scopes
  <2>3. QED  BY <2>1, <2>2 DEF Scopes
<1>6. ASSUME NEW j \in Scopes \ {k}
      PROVE  /\ scope'[j] = scope[j] /\ scope[j].at \in {"shut", "open"}
             /\ \A d \in scope[j].docs : checker'[d] = checker[d]
  BY <1>1, <1>2, ActiveFacts DEF Scopes
<1>7. DiskInv'
  <2>1. ASSUME NEW j \in Scopes
        PROVE  /\ scope'[j].at \in {"notify", "unnotify"} /\ ~ overlay => scope'[j].left = {}
               /\ ~ overlay => \A d \in scope'[j].docs \ scope'[j].left :
                    /\ scope'[j].at \in {"write", "notify"} => file'[d] = pass
                    /\ scope'[j].at \in {"remove", "unnotify"} => file'[d] = 0
    <3>1. CASE j = k
      BY <1>1, <3>1
    <3>2. CASE j # k
      BY <1>6, <3>2
    <3>3. QED  BY <3>1, <3>2
  <2>2. QED  BY <2>1 DEF DiskInv
<1>8. AnswersAreCurrent'
  BY <1>1, <1>6 DEF IInv, AnswersAreCurrent
<1>9. QED  BY <1>1, <1>3, <1>4, <1>5, <1>7, <1>8 DEF SafeInv

(* Closing k, with or without an exception, only gives up the files of k.  *)
LEMMA ShutLemma ==
  ASSUME IInv, NEW k \in Scopes, Active(k),
         scope' = [scope EXCEPT ![k] = Shut],
         UNCHANGED <<process, pass, current, rank, overlay>>,
         \A d \in Documents \ scope[k].docs : file'[d] = file[d] /\ checker'[d] = checker[d]
  PROVE  /\ SafeInv' /\ Pending \ scope[k].docs \subseteq Pending'
         /\ scope' \in [Scopes -> Scope]
         /\ \A j \in Scopes : scope'[j].left \subseteq scope'[j].docs
<1>1. Shut \in Scope /\ Shut.at = "shut" /\ Shut.docs = {} /\ Shut.left = {}
  BY DEF Shut, Scope, Steps
<1>2. /\ scope' \in [Scopes -> Scope]
      /\ scope'[k] = Shut
      /\ \A j \in Scopes \ {k} : scope'[j] = scope[j]
      /\ \A j \in Scopes : scope'[j].left \subseteq scope'[j].docs
  BY <1>1, ScopeUpdate DEF IInv
<1>3. ASSUME NEW j \in Scopes \ {k}
      PROVE  /\ scope'[j] = scope[j] /\ scope[j].at \in {"shut", "open"}
             /\ \A d \in scope[j].docs : checker'[d] = checker[d]
  BY <1>2, ActiveFacts DEF Scopes, IInv, TypeOK, Scope
<1>4. ShutInv'
  BY <1>1, <1>2, ActiveFacts DEF IInv, ShutInv
<1>5. NestInv'
  <2>1. CASE k = "batch"
    BY <1>1, <1>2, <2>1, ActiveFacts DEF IInv, NestInv, Scopes
  <2>2. CASE k = "single"
    BY <1>1, <1>2, <2>2, ActiveFacts DEF IInv, NestInv, Scopes
  <2>3. QED  BY <2>1, <2>2 DEF Scopes
<1>6. DiskInv' /\ AnswersAreCurrent'
  BY <1>1, <1>2, <1>3 DEF IInv, DiskInv, AnswersAreCurrent
<1>7. Pending \ scope[k].docs \subseteq Pending'
  BY <1>2 DEF Pending, Scopes
<1>8. QED  BY <1>2, <1>4, <1>5, <1>6, <1>7 DEF SafeInv

LEMMA RaiseLemma ==
  ASSUME IInv, NEW k \in Scopes, Raise(k),
         k = "batch" => scope["single"].at = "shut"
  PROVE  /\ SafeInv' /\ Pending \ scope[k].docs \subseteq Pending'
         /\ scope' \in [Scopes -> Scope]
         /\ \A j \in Scopes : scope'[j].left \subseteq scope'[j].docs
         /\ process' \in {"down", "idle", "pass"} /\ todo' \subseteq Sources /\ current' \subseteq Sources
         /\ process' = "down" => process = "down"
<1>1. Shut \in Scope /\ Shut.at = "shut" /\ Shut.docs = {} /\ Shut.left = {}
  BY DEF Shut, Scope, Steps
<1>2. CASE k = "single" /\ scope["batch"].at # "shut"
  <2> DEFINE r == Cleanup(scope["batch"], TRUE)
  <2>1. /\ scope' = [scope EXCEPT !["single"] = Shut, !["batch"] = r]
        /\ UNCHANGED <<process, todo, current>>
    BY <1>2 DEF Raise
  <2>2. scope["batch"] \in Scope
    BY DEF IInv, TypeOK, Scopes
  <2>3. /\ r \in Scope /\ r.at = "remove" /\ r.left = r.docs /\ r.docs = scope["batch"].docs
    BY <2>2 DEF Cleanup, Scope, Steps
  <2> HIDE DEF r
  <2>4. /\ scope' \in [Scopes -> Scope] /\ scope'["single"] = Shut /\ scope'["batch"] = r
    BY <1>1, <2>1, <2>3 DEF IInv, TypeOK, Scopes
  <2>5. process = "pass"
    BY <1>2 DEF IInv, ShutInv, Scopes
  <2>6. SafeInv'
    BY <1>1, <2>1, <2>3, <2>4, <2>5
       DEF IInv, SafeInv, ShutInv, NestInv, DiskInv, AnswersAreCurrent, Scopes
  <2>7. Pending \ scope[k].docs \subseteq Pending'
    BY <1>2, <2>3, <2>4 DEF Pending
  <2>8. \A j \in Scopes : scope'[j].left \subseteq scope'[j].docs
    BY <1>1, <2>3, <2>4 DEF Scopes
  <2>9. QED  BY <2>1, <2>4, <2>6, <2>7, <2>8 DEF IInv, TypeOK
<1>3. CASE ~ (k = "single" /\ scope["batch"].at # "shut")
  <2>1. /\ scope' = [scope EXCEPT ![k] = Shut]
        /\ process' = "idle" /\ todo' = {} /\ current' = {}
    BY <1>3 DEF Raise
  <2>2. /\ scope' \in [Scopes -> Scope] /\ scope'[k] = Shut
        /\ \A j \in Scopes \ {k} : scope'[j] = scope[j]
        /\ \A j \in Scopes : scope'[j].left \subseteq scope'[j].docs
    BY <1>1, <2>1, ScopeUpdate DEF IInv
  <2>3. \A j \in Scopes : scope'[j].at = "shut" /\ scope'[j].docs = {}
    BY <1>1, <1>3, <2>2 DEF IInv, ShutInv, Scopes
  <2>4. SafeInv'
    BY <2>1, <2>3 DEF SafeInv, ShutInv, NestInv, DiskInv, AnswersAreCurrent, Scopes
  <2>5. Pending \ scope[k].docs \subseteq Pending'
    BY <1>3, <2>2 DEF IInv, ShutInv, Pending, Scopes
  <2>6. QED  BY <2>1, <2>2, <2>4, <2>5
<1>4. QED  BY <1>2, <1>3

(* Entering the `finally` of a scope with every file still to remove.      *)
LEMMA CleanupLemma ==
  ASSUME IInv, NEW k \in Scopes, Active(k), NEW thrown \in BOOLEAN,
         scope' = [scope EXCEPT ![k] = Cleanup(@, thrown)],
         UNCHANGED <<process, pass, current, rank, overlay>>,
         \A d \in Documents \ scope[k].docs : file'[d] = file[d] /\ checker'[d] = checker[d]
  PROVE  /\ SafeInv' /\ Pending' = Pending
         /\ scope' \in [Scopes -> Scope]
         /\ \A j \in Scopes : scope'[j].left \subseteq scope'[j].docs
<1> DEFINE r == Cleanup(scope[k], thrown)
<1>1. scope[k] \in Scope
  BY ActiveFacts
<1>2. r \in Scope /\ r.at = "remove" /\ r.left = r.docs /\ r.docs = scope[k].docs
  BY <1>1 DEF Cleanup, Scope, Steps
<1>3. scope' = [scope EXCEPT ![k] = r]
  OBVIOUS
<1> HIDE DEF r
<1>4. QED  BY <1>2, <1>3, AdvanceInv

LEMMA FaultType == TypeOK /\ (Fault \/ UNCHANGED faults) => faults' \in 0..MaxFaults
<1> SUFFICES ASSUME TypeOK, Fault \/ UNCHANGED faults PROVE faults' \in 0..MaxFaults
  OBVIOUS
<1>1. faults \in 0..MaxFaults
  BY DEF TypeOK
<1>2. QED  BY <1>1 DEF Fault

-----------------------------------------------------------------------------
LEMMA WriteIInv == ASSUME IInv, NEW k \in Scopes, Write(k) PROVE IInv'
<1>1. /\ Active(k) /\ scope[k].at = "write"
      /\ UNCHANGED <<alive, checker, overlay, ghosts, orphans, pass, rank, kills>>
  BY DEF Write, program
<1>2. scope[k] \in Scope /\ scope[k].left \subseteq scope[k].docs /\ scope[k].docs \subseteq Documents
  BY <1>1, ActiveFacts DEF IInv, TypeOK, Scope
<1>3. UNCHANGED <<process, todo, current>> /\ (Fault \/ UNCHANGED faults)
  BY DEF Write, RegistrationFails
<1>4. \/ file' = file
      \/ ~ overlay /\ \E d \in scope[k].left : file' = [file EXCEPT ![d] = pass]
  BY DEF Write
<1>5. /\ file' \in [Documents -> Body]
      /\ \A d \in Documents \ scope[k].docs : file'[d] = file[d] /\ checker'[d] = checker[d]
      /\ overlay => file' = file
  BY <1>1, <1>2, <1>4 DEF IInv, TypeOK
<1>6. /\ SafeInv' /\ Pending' = Pending
      /\ scope' \in [Scopes -> Scope]
      /\ \A j \in Scopes : scope'[j].left \subseteq scope'[j].docs
  <2>1. CASE /\ overlay \/ scope[k].left = {}
             /\ scope' = [scope EXCEPT ![k].at = "notify"] /\ file' = file
    <3> DEFINE r == [scope[k] EXCEPT !.at = "notify"]
    <3>1. /\ r \in Scope /\ r.at = "notify" /\ r.left = scope[k].left /\ r.docs = scope[k].docs
      BY <1>2 DEF Scope, Steps
    <3>2. scope' = [scope EXCEPT ![k] = r]
      BY <2>1
    <3>3. ~ overlay => r.left = {} /\ \A d \in r.docs \ r.left : file'[d] = pass
      BY <1>1, <2>1, <3>1 DEF IInv, DiskInv
    <3> HIDE DEF r
    <3>4. QED  BY <1>1, <1>2, <1>3, <1>5, <3>1, <3>2, <3>3, AdvanceInv
  <2>2. ASSUME NEW d \in scope[k].left, file' = [file EXCEPT ![d] = pass],
               scope' = [scope EXCEPT ![k].left = @ \ {d}]
        PROVE  <1>6
    <3> DEFINE r == [scope[k] EXCEPT !.left = @ \ {d}]
    <3>1. /\ r \in Scope /\ r.at = "write" /\ r.left = scope[k].left \ {d} /\ r.docs = scope[k].docs
      BY <1>1, <1>2 DEF Scope, Steps
    <3>2. scope' = [scope EXCEPT ![k] = r]
      BY <2>2
    <3>3. ~ overlay => \A e \in r.docs \ r.left : file'[e] = pass
      BY <1>1, <1>2, <2>2, <3>1 DEF IInv, DiskInv, TypeOK
    <3> HIDE DEF r
    <3>4. QED  BY <1>1, <1>2, <1>3, <1>5, <3>1, <3>2, <3>3, AdvanceInv
  <2>3. CASE RegistrationFails(k)
    BY <1>1, <1>3, <1>5, <2>3, CleanupLemma DEF RegistrationFails
  <2>4. QED  BY <2>1, <2>2, <2>3 DEF Write
<1>7. TypeOK'
  BY <1>1, <1>3, <1>5, <1>6, FaultType DEF IInv, TypeOK
<1>8. OverlayInv'
  BY <1>1, <1>3, <1>5 DEF IInv, OverlayInv, OnDisk
<1>9. NothingLeft'
  <2>1. OnDisk' \subseteq OnDisk \cup scope[k].docs
    BY <1>5 DEF OnDisk
  <2>2. scope[k].docs \subseteq Pending
    BY DEF Pending, Scopes
  <2>3. QED  BY <1>1, <1>3, <1>6, <2>1, <2>2 DEF IInv, NothingLeft, Known
<1>10. QED  BY <1>6, <1>7, <1>8, <1>9 DEF IInv, SafeInv

LEMMA NotifyIInv == ASSUME IInv, NEW k \in Scopes, Notify(k) PROVE IInv'
<1>1. /\ Active(k) /\ scope[k].at = "notify"
      /\ UNCHANGED <<file, orphans, alive, overlay, ghosts, pass, rank, kills>>
  BY DEF Notify, disk
<1>2. scope[k] \in Scope /\ scope[k].left \subseteq scope[k].docs /\ scope[k].docs \subseteq Documents
  BY <1>1, ActiveFacts DEF IInv, TypeOK, Scope
<1>3. UNCHANGED <<process, todo, current>> /\ (Fault \/ UNCHANGED faults)
  BY DEF Notify, RegistrationFails
<1>4. checker' \in {checker, Registered(k)}
  BY DEF Notify
<1>5. /\ Registered(k) \in [Documents -> Body]
      /\ \A d \in Documents \ scope[k].docs : Registered(k)[d] = checker[d]
      /\ \A d \in scope[k].docs : Registered(k)[d] = pass
  <2>1. ~ overlay => \A d \in scope[k].docs : file[d] = pass
    BY <1>1 DEF IInv, DiskInv
  <2>2. QED  BY <1>2, <2>1 DEF Registered, IInv, TypeOK
<1>6. /\ checker' \in [Documents -> Body]
      /\ \A d \in Documents \ scope[k].docs : file'[d] = file[d] /\ checker'[d] = checker[d]
  BY <1>1, <1>4, <1>5 DEF IInv, TypeOK
<1>7. /\ SafeInv' /\ Pending' = Pending
      /\ scope' \in [Scopes -> Scope]
      /\ \A j \in Scopes : scope'[j].left \subseteq scope'[j].docs
  <2>1. CASE checker' = Registered(k) /\ scope' = [scope EXCEPT ![k].at = "open"]
    <3> DEFINE r == [scope[k] EXCEPT !.at = "open"]
    <3>1. /\ r \in Scope /\ r.at = "open" /\ r.left = scope[k].left /\ r.docs = scope[k].docs
      BY <1>2 DEF Scope, Steps
    <3>2. scope' = [scope EXCEPT ![k] = r]
      BY <2>1
    <3> HIDE DEF r
    <3>3. QED  BY <1>1, <1>2, <1>3, <1>5, <1>6, <2>1, <3>1, <3>2, AdvanceInv
  <2>2. CASE RegistrationFails(k)
    BY <1>1, <1>3, <1>6, <2>2, CleanupLemma DEF RegistrationFails
  <2>3. QED  BY <2>1, <2>2 DEF Notify
<1>8. TypeOK'
  BY <1>1, <1>3, <1>6, <1>7, FaultType DEF IInv, TypeOK
<1>9. OverlayInv'
  BY <1>1, <1>3 DEF IInv, OverlayInv, OnDisk
<1>10. NothingLeft'
  <2>1. Known' \subseteq Known \cup scope[k].docs
    BY <1>6 DEF Known
  <2>2. scope[k].docs \subseteq Pending
    BY DEF Pending, Scopes
  <2>3. QED  BY <1>1, <1>3, <1>7, <2>1, <2>2 DEF IInv, NothingLeft, OnDisk
<1>11. QED  BY <1>7, <1>8, <1>9, <1>10 DEF IInv, SafeInv

LEMMA BodyThrowsIInv == ASSUME IInv, NEW k \in Scopes, BodyThrows(k) PROVE IInv'
<1>1. /\ Active(k) /\ scope' = [scope EXCEPT ![k] = Cleanup(@, TRUE)]
      /\ UNCHANGED <<process, disk, program, plan, kills>>
      /\ Fault \/ UNCHANGED faults
  BY DEF BodyThrows
<1>2. UNCHANGED <<process, file, orphans, checker, alive, overlay, ghosts, pass, todo, current, rank>>
  BY <1>1 DEF disk, program, plan
<1>3. /\ SafeInv' /\ Pending' = Pending
      /\ scope' \in [Scopes -> Scope]
      /\ \A j \in Scopes : scope'[j].left \subseteq scope'[j].docs
  BY <1>1, <1>2, CleanupLemma
<1>4. TypeOK'
  BY <1>1, <1>2, <1>3, FaultType DEF IInv, TypeOK
<1>5. OverlayInv' /\ NothingLeft'
  BY <1>2, <1>3 DEF IInv, OverlayInv, NothingLeft, OnDisk, Known
<1>6. QED  BY <1>3, <1>4, <1>5 DEF IInv, SafeInv

LEMMA RemoveIInv == ASSUME IInv, NEW k \in Scopes, Remove(k) PROVE IInv'
<1>1. /\ Active(k) /\ scope[k].at = "remove"
      /\ UNCHANGED <<alive, overlay, checker, pass, rank, kills>>
  BY DEF Remove
<1>2. scope[k] \in Scope /\ scope[k].left \subseteq scope[k].docs /\ scope[k].docs \subseteq Documents
  BY <1>1, ActiveFacts DEF IInv, TypeOK, Scope
<1>3. scope[k].docs \subseteq Pending
  BY DEF Pending, Scopes
<1>4. Fault \/ UNCHANGED faults
  BY DEF Remove
<1>5. CASE /\ overlay \/ scope[k].left = {}
           /\ scope' = [scope EXCEPT ![k].at = "unnotify", ![k].left = {}]
           /\ UNCHANGED <<process, disk, ghosts, todo, current, faults>>
  <2> DEFINE r == [scope[k] EXCEPT !.at = "unnotify", !.left = {}]
  <2>1. r \in Scope /\ r.at = "unnotify" /\ r.left = {} /\ r.docs = scope[k].docs
    BY <1>2 DEF Scope, Steps
  <2>2. scope' = [scope EXCEPT ![k] = r]
    BY <1>5
  <2>3. ~ overlay => \A d \in r.docs \ r.left : file[d] = 0
    BY <1>1, <1>5, <2>1 DEF IInv, DiskInv
  <2>4. UNCHANGED <<process, file, orphans, ghosts, todo, current, faults>>
    BY <1>5 DEF disk
  <2> HIDE DEF r
  <2>5. /\ SafeInv' /\ Pending' = Pending
        /\ scope' \in [Scopes -> Scope]
        /\ \A j \in Scopes : scope'[j].left \subseteq scope'[j].docs
    BY <1>1, <1>2, <2>1, <2>2, <2>3, <2>4, AdvanceInv
  <2>6. TypeOK'
    BY <1>1, <2>4, <2>5 DEF IInv, TypeOK
  <2>7. OverlayInv' /\ NothingLeft'
    BY <1>1, <2>4, <2>5 DEF IInv, OverlayInv, NothingLeft, OnDisk, Known
  <2>8. QED  BY <2>5, <2>6, <2>7 DEF IInv, SafeInv
<1>6. ASSUME ~ overlay, NEW d \in scope[k].left, file' = [file EXCEPT ![d] = 0],
             orphans' = orphans \ {d}, scope' = [scope EXCEPT ![k].left = @ \ {d}],
             UNCHANGED <<process, ghosts, todo, current, faults>>
      PROVE  IInv'
  <2> DEFINE r == [scope[k] EXCEPT !.left = @ \ {d}]
  <2>1. r \in Scope /\ r.at = "remove" /\ r.left = scope[k].left \ {d} /\ r.docs = scope[k].docs
    BY <1>1, <1>2 DEF Scope, Steps
  <2>2. scope' = [scope EXCEPT ![k] = r]
    BY <1>6
  <2>3. \A e \in r.docs \ r.left : file'[e] = 0
    BY <1>1, <1>2, <1>6, <2>1 DEF IInv, DiskInv, TypeOK
  <2>4. /\ file' \in [Documents -> Body]
        /\ \A e \in Documents \ scope[k].docs : file'[e] = file[e] /\ checker'[e] = checker[e]
    BY <1>1, <1>2, <1>6 DEF IInv, TypeOK, Body
  <2> HIDE DEF r
  <2>5. /\ SafeInv' /\ Pending' = Pending
        /\ scope' \in [Scopes -> Scope]
        /\ \A j \in Scopes : scope'[j].left \subseteq scope'[j].docs
    BY <1>1, <1>2, <1>6, <2>1, <2>2, <2>3, <2>4, AdvanceInv
  <2>6. TypeOK'
    BY <1>1, <1>6, <2>4, <2>5 DEF IInv, TypeOK
  <2>7. OnDisk' = OnDisk \ {d}
    BY <1>2, <1>6 DEF IInv, TypeOK, OnDisk
  <2>8. OverlayInv' /\ NothingLeft'
    BY <1>1, <1>6, <2>5, <2>7 DEF IInv, OverlayInv, NothingLeft, Known
  <2>9. QED  BY <2>5, <2>6, <2>8 DEF IInv, SafeInv
<1>7. CASE /\ ~ overlay
           /\ orphans' = orphans \cup scope[k].left
           /\ ghosts' = ghosts \cup scope[k].docs
           /\ UNCHANGED file
           /\ Raise(k)
  <2>1. /\ SafeInv' /\ Pending \ scope[k].docs \subseteq Pending'
        /\ scope' \in [Scopes -> Scope]
        /\ \A j \in Scopes : scope'[j].left \subseteq scope'[j].docs
        /\ process' \in {"down", "idle", "pass"} /\ todo' \subseteq Sources /\ current' \subseteq Sources
        /\ process' = "down" => process = "down"
    BY <1>1, <1>7, ActiveFacts, RaiseLemma
  <2>2. TypeOK'
    BY <1>1, <1>2, <1>4, <1>7, <2>1, FaultType DEF IInv, TypeOK
  <2>3. process = "pass"
    BY <1>1, ActiveFacts
  <2>4. OnDisk \cap scope[k].docs \subseteq scope[k].left
    BY <1>1, <1>7 DEF IInv, DiskInv, OnDisk
  <2>5. OverlayInv' /\ NothingLeft'
    BY <1>1, <1>7, <2>1, <2>3, <2>4 DEF IInv, OverlayInv, NothingLeft, OnDisk, Known
  <2>6. QED  BY <2>1, <2>2, <2>5 DEF IInv, SafeInv
<1>8. QED  BY <1>5, <1>6, <1>7 DEF Remove

LEMMA UnnotifyIInv == ASSUME IInv, NEW k \in Scopes, Unnotify(k) PROVE IInv'
<1>1. /\ Active(k) /\ scope[k].at = "unnotify"
      /\ UNCHANGED <<file, orphans, alive, overlay, pass, rank, kills>>
      /\ Fault \/ UNCHANGED faults
  BY DEF Unnotify, disk
<1>2. scope[k] \in Scope /\ scope[k].docs \subseteq Documents /\ process = "pass"
  BY <1>1, ActiveFacts DEF IInv, TypeOK, Scope
<1>3. Raise(k) \/ (scope' = [scope EXCEPT ![k] = Shut] /\ UNCHANGED <<process, todo, current>>)
  BY DEF Unnotify, Return
<1>4. \/ /\ checker' = Cleared(k)
         /\ ghosts' = ghosts \ {d \in scope[k].docs : Cleared(k)[d] = 0}
      \/ checker' = checker /\ ghosts' = ghosts \cup scope[k].docs
  BY DEF Unnotify
<1>5. /\ checker' \in [Documents -> Body]
      /\ \A d \in Documents \ scope[k].docs : file'[d] = file[d] /\ checker'[d] = checker[d]
  BY <1>1, <1>4 DEF IInv, TypeOK, Cleared, Body
<1>6. /\ SafeInv' /\ Pending \ scope[k].docs \subseteq Pending'
      /\ scope' \in [Scopes -> Scope]
      /\ \A j \in Scopes : scope'[j].left \subseteq scope'[j].docs
      /\ process' \in {"down", "idle", "pass"} /\ todo' \subseteq Sources /\ current' \subseteq Sources
  <2>1. CASE Raise(k)
    BY <1>1, <2>1, ActiveFacts, RaiseLemma
  <2>2. CASE scope' = [scope EXCEPT ![k] = Shut] /\ UNCHANGED <<process, todo, current>>
    BY <1>1, <1>5, <2>2, ShutLemma DEF IInv, TypeOK
  <2>3. QED  BY <1>3, <2>1, <2>2
<1>7. TypeOK'
  BY <1>1, <1>2, <1>4, <1>5, <1>6, FaultType DEF IInv, TypeOK
<1>8. overlay => OnDisk \subseteq orphans /\ OnDisk \subseteq ghosts
  BY <1>2 DEF IInv, OverlayInv
<1>9. ~ overlay => OnDisk \cap scope[k].docs = {}
  BY <1>1 DEF IInv, DiskInv, OnDisk
<1>10. overlay => OnDisk \subseteq ghosts'
  BY <1>2, <1>4, <1>8 DEF Cleared, OnDisk
<1>11. OverlayInv'
  BY <1>1, <1>8, <1>10 DEF OverlayInv, OnDisk
<1>12. OnDisk' \subseteq Pending' \cup orphans'
  BY <1>1, <1>6, <1>8, <1>9 DEF IInv, NothingLeft, OnDisk
<1>13. Known' \subseteq Pending' \cup ghosts'
  <2>1. Known \subseteq Pending \cup ghosts
    BY <1>2 DEF IInv, NothingLeft
  <2>2. ASSUME NEW d \in Known' PROVE d \in Pending' \cup ghosts'
    <3>1. CASE d \notin scope[k].docs
      BY <1>4, <1>5, <1>6, <2>1, <2>2, <3>1 DEF Known
    <3>2. CASE d \in scope[k].docs /\ checker' = Cleared(k)
      <4>1. Cleared(k)[d] # 0 /\ overlay /\ file[d] # 0
        BY <1>2, <2>2, <3>2 DEF Known, Cleared
      <4>2. d \in ghosts
        BY <1>2, <1>8, <3>2, <4>1 DEF OnDisk
      <4>3. QED  BY <1>4, <4>1, <4>2
    <3>3. CASE d \in scope[k].docs /\ ghosts' = ghosts \cup scope[k].docs
      BY <3>3
    <3>4. QED  BY <1>4, <3>1, <3>2, <3>3
  <2>3. QED  BY <2>2
<1>14. QED  BY <1>6, <1>7, <1>11, <1>12, <1>13 DEF IInv, SafeInv, NothingLeft

LEMMA PlainThrowIInv == IInv /\ PlainThrow => IInv'
<1> SUFFICES ASSUME IInv, PlainThrow PROVE IInv'
  OBVIOUS
<1>1. /\ Raise("single") /\ (Fault \/ UNCHANGED faults)
      /\ process = "pass" /\ scope["single"].at = "shut"
      /\ UNCHANGED <<file, orphans, checker, alive, overlay, ghosts, pass, rank, kills>>
  BY DEF PlainThrow, Resolving, disk, program
<1>2. "single" \in Scopes
  BY DEF Scopes
<1>3. scope["single"].docs = {}
  BY <1>1, <1>2 DEF IInv, ShutInv
<1>4. /\ SafeInv' /\ Pending \subseteq Pending'
      /\ scope' \in [Scopes -> Scope]
      /\ \A j \in Scopes : scope'[j].left \subseteq scope'[j].docs
      /\ process' \in {"down", "idle", "pass"} /\ todo' \subseteq Sources /\ current' \subseteq Sources
      /\ process' = "down" => process = "down"
  BY <1>1, <1>2, <1>3, RaiseLemma
<1>5. TypeOK'
  BY <1>1, <1>4, FaultType DEF IInv, TypeOK
<1>6. OverlayInv' /\ NothingLeft'
  BY <1>1, <1>4 DEF IInv, OverlayInv, NothingLeft, OnDisk, Known
<1>7. QED  BY <1>4, <1>5, <1>6 DEF IInv, SafeInv

LEMMA EmitIInv == ASSUME IInv, NEW s \in Sources, Emit(s) PROVE IInv'
<1>1. /\ process = "pass" /\ scope["single"].at = "shut" /\ scope["batch"].at \in {"shut", "open"}
      /\ todo' = todo \ {s} /\ current' = {}
      /\ UNCHANGED <<file, orphans, checker, alive, overlay, ghosts, pass, rank, faults, kills>>
  BY DEF Emit, Resolving, disk, program
<1>2. CASE UNCHANGED <<process, scope>>
  BY <1>1, <1>2 DEF IInv, TypeOK, ShutInv, NestInv, DiskInv, OverlayInv, NothingLeft,
                    AnswersAreCurrent, OnDisk, Known, Pending
<1>3. CASE /\ scope["batch"].at = "open" /\ process' = process
           /\ scope' = [scope EXCEPT !["batch"] = Cleanup(@, FALSE)]
  <2> DEFINE r == Cleanup(scope["batch"], FALSE)
  <2>1. r \in Scope /\ r.at = "remove" /\ r.left = r.docs /\ r.docs = scope["batch"].docs
    BY DEF Cleanup, Scope, Steps, IInv, TypeOK, Scopes
  <2>2. scope' = [scope EXCEPT !["batch"] = r]
    BY <1>3
  <2> HIDE DEF r
  <2>3. /\ scope' \in [Scopes -> Scope] /\ scope'["batch"] = r
        /\ scope'["single"] = scope["single"]
        /\ \A j \in Scopes : scope'[j].left \subseteq scope'[j].docs
    BY <2>1, <2>2, ScopeUpdate DEF IInv, Scopes
  <2>4. scope["single"].docs = {}
    BY <1>1 DEF IInv, ShutInv, Scopes
  <2>5. SafeInv'
    BY <1>1, <1>3, <2>1, <2>3, <2>4
       DEF IInv, SafeInv, ShutInv, NestInv, DiskInv, AnswersAreCurrent, Scopes
  <2>6. TypeOK'
    BY <1>1, <1>3, <2>3 DEF IInv, TypeOK
  <2>7. OverlayInv' /\ NothingLeft'
    BY <1>1, <1>3, <2>1, <2>3 DEF IInv, OverlayInv, NothingLeft, OnDisk, Known, Pending
  <2>8. QED  BY <2>5, <2>6, <2>7 DEF IInv, SafeInv
<1>4. CASE scope["batch"].at # "open" /\ process' = "idle" /\ UNCHANGED scope
  <2>1. \A k \in Scopes : scope[k].at = "shut" /\ scope[k].docs = {}
    BY <1>1, <1>4 DEF IInv, ShutInv, Scopes
  <2>2. TypeOK'
    BY <1>1, <1>4 DEF IInv, TypeOK
  <2>3. SafeInv'
    BY <1>1, <1>4, <2>1
       DEF SafeInv, ShutInv, NestInv, DiskInv, AnswersAreCurrent, Scopes
  <2>4. OverlayInv' /\ NothingLeft'
    BY <1>1, <1>4 DEF IInv, OverlayInv, NothingLeft, OnDisk, Known, Pending
  <2>5. QED  BY <2>2, <2>3, <2>4 DEF IInv, SafeInv
<1>5. QED  BY <1>2, <1>3, <1>4 DEF Emit

LEMMA NextIInv == IInv /\ [Next]_vars => IInv'
<1> SUFFICES ASSUME IInv, [Next]_vars PROVE IInv'
  OBVIOUS
<1>1. CASE Start \/ Close \/ Kill \/ CheckerDies
  BY <1>1, StartIInv, OutsideIInv
<1>2. CASE (\E Q \in SUBSET Sources : GenerateAll(Q)) \/ \E s \in Sources : GenerateFile(s)
  BY <1>2, BeginIInv
<1>3. ASSUME NEW s \in Sources, Pick(s) \/ Emit(s) PROVE IInv'
  BY <1>3, PickIInv, EmitIInv
<1>4. ASSUME NEW s \in Sources, NEW u \in Uses, Query(s, u) PROVE IInv'
  BY <1>4, QueryIInv
<1>5. ASSUME NEW k \in Scopes,
             Write(k) \/ Notify(k) \/ BodyThrows(k) \/ Remove(k) \/ Unnotify(k)
      PROVE  IInv'
  BY <1>5, WriteIInv, NotifyIInv, BodyThrowsIInv, RemoveIInv, UnnotifyIInv
<1>6. CASE PlainThrow
  BY <1>6, PlainThrowIInv
<1>7. CASE UNCHANGED vars
  <2>1. UNCHANGED <<process, file, orphans, checker, alive, overlay, ghosts, scope, pass, todo,
                    current, rank, faults, kills>>
    BY <1>7 DEF vars, disk, program, plan
  <2>2. TypeOK' /\ SafeInv'
    BY <2>1 DEF IInv, SafeInv, TypeOK, ShutInv, NestInv, DiskInv, AnswersAreCurrent
  <2>3. OverlayInv' /\ NothingLeft'
    BY <2>1 DEF IInv, OverlayInv, NothingLeft, OnDisk, Known, Pending
  <2>4. QED  BY <2>2, <2>3 DEF IInv, SafeInv
<1>8. QED  BY <1>1, <1>2, <1>3, <1>4, <1>5, <1>6, <1>7 DEF Next

(* The session, the disk and the checker's program keep their types.       *)
THEOREM TypeCorrect == Spec => []TypeOK
<1>1. IInv => TypeOK
  BY DEF IInv
<1>2. QED  BY InitIInv, NextIInv, <1>1, PTL DEF Spec

(* Whatever throws, dies or is killed, wherever: a query file outside an   *)
(* open scope is one whose own removal failed or was cut off by a kill.    *)
THEOREM CleansUp == Spec => []NothingLeft
<1>1. IInv => NothingLeft
  BY DEF IInv
<1>2. QED  BY InitIInv, NextIInv, <1>1, PTL DEF Spec

(* A query is always answered from the body registered for it.             *)
THEOREM CurrentAnswers == Spec => []AnswersAreCurrent
<1>1. IInv => AnswersAreCurrent
  BY DEF IInv
<1>2. QED  BY InitIInv, NextIInv, <1>1, PTL DEF Spec
=============================================================================
