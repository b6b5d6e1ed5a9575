------------------------------ MODULE Inplace -------------------------------
(***************************************************************************)
(* Inplace mode, packages/compiler/src/inplace.ts: the types are written   *)
(* back into the source, fenced by sentinel comments, while the user edits *)
(* the same file.  A file is a sequence of lines.  A start sentinel holds  *)
(* the names of the type and of the schema and a hash, taken to identify   *)
(* what it was computed from.  An "alias" is an Infer alias over several   *)
(* lines: discovery sees it, the emitter does not.                         *)
(*                                                                         *)
(* Assumed of the user (Honest): a fence holds what the emitter put there, *)
(* which is what the hash stands for, and no Infer marker is moved inside. *)
(***************************************************************************)
EXTENDS SequencesExt, Naturals

CONSTANTS
  Types,            \* names of aliases
  Schemas,          \* names of schemas
  Values,           \* types the checker may answer for a schema
  Texts,            \* other lines of the file
  MaxLines,         \* bound: lines of a file the user edits
  MaxEdits,         \* bound: edits of the user
  EditWhilePassing  \* may an edit fall between the read and the write

ASSUME BoundsAssumption ==
  MaxLines \in Nat /\ MaxEdits \in Nat /\ EditWhilePassing \in BOOLEAN

VARIABLES
  file,    \* the source on disk
  type,    \* type[s]: what the checker answers for s
  read,    \* the text a pass has read, Idle between passes
  edits    \* edits so far

inplaceVars == <<file, type, read, edits>>

Idle == <<[kind |-> "idle"]>>

Text(x) == [kind |-> "text", x |-> x]
Marker(t, s) == [kind |-> "marker", t |-> t, s |-> s]
Alias(t, s) == [kind |-> "alias", t |-> t, s |-> s]
Body(t, v) == [kind |-> "body", t |-> t, v |-> v]
End(t) == [kind |-> "end", t |-> t]
Start(t, s, h) == [kind |-> "start", t |-> t, s |-> s, h |-> h]

-----------------------------------------------------------------------------
(* The sentinels of a file                                                 *)

ContentHash(v, s, t) == [v |-> v, s |-> s, t |-> t]

RenderRegion(t, s, v) == <<Start(t, s, ContentHash(v, s, t)), Body(t, v), End(t)>>

Sentinels(f) == {i \in DOMAIN f : f[i].kind \in {"start", "end"}}

(* A start and an end of one type with no other sentinel between them.     *)
Regions(f) ==
  LET sentinels == Sentinels(f) IN
  {r \in sentinels \X sentinels :
     /\ r[1] < r[2]
     /\ f[r[1]].kind = "start" /\ f[r[2]].kind = "end"
     /\ f[r[1]].t = f[r[2]].t
     /\ ~ \E k \in sentinels : r[1] < k /\ k < r[2]}

(* Mutant: two regions of one type are not noticed.                        *)
CorruptUnlessClosed(f) ==
  \E i \in Sentinels(f) : \A r \in Regions(f) : i \notin {r[1], r[2]}

(* Half open, nested, crossing or duplicate: the file is not rewritten.    *)
Corrupt(f) ==
  \/ \E i \in Sentinels(f) : \A r \in Regions(f) : i \notin {r[1], r[2]}
  \/ \E p, q \in Regions(f) : p # q /\ f[p[1]].t = f[q[1]].t

RegionOf(f, t) == {r \in Regions(f) : f[r[1]].t = t}

(* locateInferMarkers and the first marker of a type: none next to a region *)
MarkerOf(f, t) ==
  {i \in DOMAIN f : /\ f[i].kind = "marker" /\ f[i].t = t
                    /\ RegionOf(f, t) = {}
                    /\ \A k \in 1 .. i - 1 : f[k].kind # "marker" \/ f[k].t # t}

(* The lines a type occupies: its region, else its first marker.           *)
Spans(f, t) == RegionOf(f, t) \cup {<<i, i>> : i \in MarkerOf(f, t)}

(* collectInplaceTargets: the aliases, the first of each type, and the     *)
(* regions of the other types.                                             *)
Aliases(f) == {i \in DOMAIN f : f[i].kind \in {"marker", "alias"}}

Targets(f) ==
  {[t |-> f[i].t, s |-> f[i].s] :
     i \in {k \in Aliases(f) : \A l \in Aliases(f) : l < k => f[l].t # f[k].t}}
  \cup {[t |-> f[r[1]].t, s |-> f[r[1]].s] :
          r \in {q \in Regions(f) : \A k \in Aliases(f) : f[k].t # f[q[1]].t}}

-----------------------------------------------------------------------------
(* emitInplace                                                             *)

Unchanged(f, span, t, v) ==
  /\ f[span[1]].kind = "start"
  /\ f[span[1]].h = ContentHash(v, f[span[1]].s, t)

(* Mutant: the span of a region stops before its end sentinel.             *)
ReplacementsShort(f, t, v) ==
  {[from |-> span[1], to |-> IF span[1] = span[2] THEN span[2] ELSE span[2] - 1,
    text |-> RenderRegion(t, f[span[1]].s, v)] :
     span \in {p \in Spans(f, t) : ~ Unchanged(f, p, t, v)}}

(* The span to replace, with the text that takes its place.                *)
Replacements(f, t, v) ==
  {[from |-> span[1], to |-> span[2], text |-> RenderRegion(t, f[span[1]].s, v)] :
     span \in {p \in Spans(f, t) : ~ Unchanged(f, p, t, v)}}

Applied(f, i, replacements) ==
  IF \E r \in replacements : r.from = i
  THEN (CHOOSE r \in replacements : r.from = i).text
  ELSE IF \E r \in replacements : r.from < i /\ i <= r.to THEN <<>>
  ELSE <<f[i]>>

EmitInplace(f, answer) ==
  IF Corrupt(f) THEN f
  ELSE LET replacements == UNION {Replacements(f, r.t, r.v) : r \in answer}
       IN FlattenSeq([i \in DOMAIN f |-> Applied(f, i, replacements)])

-----------------------------------------------------------------------------
(* A pass over the file: what was read is rewritten later                  *)

Init ==
  /\ file \in {<<Text(x), Marker(t, s)>> : x \in Texts, t \in Types, s \in Schemas}
  /\ type \in [Schemas -> Values]
  /\ read = Idle
  /\ edits = 0

Read ==
  /\ read = Idle
  /\ Targets(file) # {}
  /\ read' = file
  /\ UNCHANGED <<file, type, edits>>

(* Some of the targets resolve; the write is skipped when nothing changes. *)
Write ==
  /\ read # Idle
  /\ \E resolved \in SUBSET Targets(read) :
       LET answer == {[t |-> r.t, v |-> type[r.s]] : r \in resolved}
           text == EmitInplace(read, answer)
       IN file' = IF text = read THEN file ELSE text
  /\ read' = Idle
  /\ UNCHANGED <<type, edits>>

-----------------------------------------------------------------------------
(* The user                                                                *)

(* A region is as the emitter wrote it, and encloses no marker.            *)
Honest(f) ==
  \A r \in Regions(f) :
    /\ r[2] = r[1] + 2
    /\ f[r[1] + 1].kind = "body"
    /\ f[r[1] + 1] = Body(f[r[1]].t, f[r[1]].h.v)

Saved(f) ==
  /\ edits < MaxEdits
  /\ read = Idle \/ EditWhilePassing
  /\ Len(f) <= MaxLines
  /\ Honest(f)
  /\ file' = f
  /\ edits' = edits + 1
  /\ UNCHANGED <<type, read>>

DeleteLine == \E i \in DOMAIN file : Saved(RemoveAt(file, i))

(* A line is written, or pasted from elsewhere in the file.                *)
InsertLine ==
  \E i \in 1 .. Len(file) + 1 :
    \E line \in {Text(x) : x \in Texts} \cup {Marker(t, s) : t \in Types, s \in Schemas}
                \cup {Alias(t, s) : t \in Types, s \in Schemas}
                \cup {file[k] : k \in Sentinels(file)} :
      Saved(InsertAt(file, i, line))

(* A generated region is copied to another place of the file.              *)
CopyRegion ==
  \E r \in Regions(file) : \E i \in 1 .. Len(file) + 1 :
    Saved(SubSeq(file, 1, i - 1) \o SubSeq(file, r[1], r[2]) \o SubSeq(file, i, Len(file)))

(* The schema name of a start sentinel is renamed, the hash stays.         *)
RenameSchema ==
  \E i \in DOMAIN file : \E s \in Schemas :
    /\ file[i].kind = "start" /\ file[i].s # s
    /\ Saved([file EXCEPT ![i].s = s])

(* An edit elsewhere changes what a schema infers to.                      *)
ChangeSchema ==
  /\ edits < MaxEdits
  /\ \E s \in Schemas : \E v \in Values \ {type[s]} : type' = [type EXCEPT ![s] = v]
  /\ edits' = edits + 1
  /\ UNCHANGED <<file, read>>

Next == Read \/ Write \/ DeleteLine \/ InsertLine \/ CopyRegion \/ RenameSchema \/ ChangeSchema

Spec == Init /\ [][Next]_inplaceVars

-----------------------------------------------------------------------------
(* Properties                                                              *)

(* A file with every region of the emitter and every marker reduced to the *)
(* name of its type: what the user wrote, and in which order.              *)
UserText(f) ==
  FlattenSeq([i \in DOMAIN f |->
    IF \E r \in Regions(f) : r[1] = i THEN <<Marker(f[i].t, f[i].s)>>
    ELSE IF \E r \in Regions(f) : r[1] < i /\ i <= r[2] THEN <<>>
    ELSE <<f[i]>>])

(* A pass changes nothing but the fenced text: every other line the file   *)
(* has on disk keeps its text and its place, and the generated regions     *)
(* stand where the markers or the older regions stood (inplace.ts:375-383, *)
(* the text read at session.ts:145 is the text written).                   *)
TextKept == [][Write => UserText(file') = UserText(file)]_inplaceVars

(* What a pass has resolved is in the file afterwards: a located type has  *)
(* one region, with the type it was answered and the hash of that answer,  *)
(* so that the next pass over the same answers changes nothing             *)
(* (inplace.ts:340-347).                                                   *)
Current(f, t, v) ==
  \E r \in RegionOf(f, t) :
    /\ RegionOf(f, t) = {r}
    /\ f[r[1] + 1] = Body(t, v)
    /\ Unchanged(f, r, t, v)

PassConverges ==
  [][\A resolved \in SUBSET Targets(read) :
       LET answer == {[t |-> r.t, v |-> type[r.s]] : r \in resolved}
       IN (Write /\ ~ Corrupt(read) /\ file' = EmitInplace(read, answer)) =>
            /\ \A a \in answer : Spans(read, a.t) # {} => Current(file', a.t, a.v)
            /\ EmitInplace(file', answer) = file']_inplaceVars
=============================================================================
