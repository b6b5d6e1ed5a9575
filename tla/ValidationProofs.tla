-------------------------- MODULE ValidationProofs --------------------------
(***************************************************************************)
(* The validation runtime and its compiled validators, for any schemas,    *)
(* inputs and configurations on whose calls the recursion of `~run` ends.  *)
(***************************************************************************)
EXTENDS Async, SequenceTheorems, WellFoundedInduction, TLAPS

-----------------------------------------------------------------------------
(* Induction, as a smallest counterexample                                 *)

LEMMA LeastNatural ==
  ASSUME NEW T \in SUBSET Nat, T # {}
  PROVE  \E x \in T : \A y \in T : x <= y
<1>1. PICK R : R = OpToRel(<, Nat)
  OBVIOUS
<1>2. IsWellFoundedOn(R, Nat)
  BY <1>1, NatLessThanWellFounded
<1>3. PICK x \in T : \A y \in T : ~ (<<y, x>> \in R)
  BY <1>2, WFMin
<1>4. \A m, n \in Nat : m < n => <<m, n>> \in R
  BY <1>1 DEF OpToRel
<1>5. \A m, n \in Nat : m < n \/ n <= m
  OBVIOUS
<1>6. QED  BY <1>3, <1>4, <1>5

LEMMA EveryPrefix ==
  ASSUME NEW N \in Nat, NEW T,
         0 \in T, \A n \in 1 .. N : n - 1 \in T => n \in T
  PROVE  \A n \in 0 .. N : n \in T
<1> DEFINE U == {n \in 0 .. N : n \notin T}
<1>1. SUFFICES ASSUME U # {} PROVE FALSE
  OBVIOUS
<1>2. U \in SUBSET Nat
  OBVIOUS
<1>3. PICK n \in U : \A m \in U : n <= m
  <2> HIDE DEF U
  <2>1. QED  BY <1>1, <1>2, LeastNatural
<1>4. n \in 1 .. N /\ n - 1 \in 0 .. N /\ n - 1 \notin U
  BY <1>3
<1>5. QED  BY <1>3, <1>4

-----------------------------------------------------------------------------
(* The loops: each is the function that its recursive definition describes *)

IsVisits(f, start, places, cfg, N) ==
  f = [n \in 0 .. N |-> IF n = 0 THEN start ELSE Visit(f[n - 1], places[n], cfg)]

LEMMA VisitsLoop ==
  ASSUME NEW start, NEW places, NEW cfg, Len(places) \in Nat
  PROVE  /\ Visits(start, places, cfg)[0] = start
         /\ \A n \in 1 .. Len(places) :
              Visits(start, places, cfg)[n] = Visit(Visits(start, places, cfg)[n - 1], places[n], cfg)
<1> DEFINE T == {N \in Nat : \E f : IsVisits(f, start, places, cfg, N)}
<1>1. 0 \in T
  <2>1. IsVisits([n \in 0 .. 0 |-> start], start, places, cfg, 0)
    BY DEF IsVisits
  <2>2. QED  BY <2>1
<1>2. ASSUME NEW N \in 1 .. Len(places), N - 1 \in T PROVE N \in T
  <2>1. PICK f : IsVisits(f, start, places, cfg, N - 1)
    BY <1>2
  <2> DEFINE g == [n \in 0 .. N |-> IF n = N THEN Visit(f[N - 1], places[N], cfg) ELSE f[n]]
  <2>2. \A n \in 0 .. N : n # N => n \in 0 .. N - 1
    OBVIOUS
  <2>3. \A n \in 0 .. N - 1 : f[n] = IF n = 0 THEN start ELSE Visit(f[n - 1], places[n], cfg)
    BY <2>1 DEF IsVisits
  <2>4. \A n \in 0 .. N : n # 0 => n - 1 \in 0 .. N /\ n - 1 # N
    OBVIOUS
  <2>5. \A n \in 0 .. N : g[n] = IF n = 0 THEN start ELSE Visit(g[n - 1], places[n], cfg)
    BY <2>2, <2>3, <2>4
  <2>6. IsVisits(g, start, places, cfg, N)
    BY <2>5 DEF IsVisits
  <2>7. QED  BY <2>6
<1>3. \A N \in 1 .. Len(places) : N - 1 \in T => N \in T
  BY <1>2
<1>4. Len(places) \in T
  <2>1. PICK U : U = T
    OBVIOUS
  <2>2. 0 \in U /\ \A N \in 1 .. Len(places) : N - 1 \in U => N \in U
    BY <1>1, <1>3, <2>1
  <2>3. \A N \in 0 .. Len(places) : N \in U
    BY <2>2, EveryPrefix
  <2>4. QED  BY <2>1, <2>3
<1>5. \E f : IsVisits(f, start, places, cfg, Len(places))
  BY <1>4
<1>6. Visits(start, places, cfg) = CHOOSE f : IsVisits(f, start, places, cfg, Len(places))
  BY DEF Visits, IsVisits
<1>7. PICK f : f = Visits(start, places, cfg)
  OBVIOUS
<1>8. IsVisits(f, start, places, cfg, Len(places))
  BY <1>5, <1>6, <1>7
<1>9. \A n \in 0 .. Len(places) : f[n] = IF n = 0 THEN start ELSE Visit(f[n - 1], places[n], cfg)
  BY <1>8 DEF IsVisits
<1>10. QED  BY <1>7, <1>9

IsRestVisits(f, start, s, own, cfg, N) ==
  f = [n \in 0 .. N |-> IF n = 0 THEN start ELSE ApplyRestKey(f[n - 1], s, own[n], cfg)]

LEMMA RestVisitsLoop ==
  ASSUME NEW start, NEW s, NEW own, NEW cfg, Len(own) \in Nat
  PROVE  /\ RestVisits(start, s, own, cfg)[0] = start
         /\ \A n \in 1 .. Len(own) :
              RestVisits(start, s, own, cfg)[n] = ApplyRestKey(RestVisits(start, s, own, cfg)[n - 1], s, own[n], cfg)
<1> DEFINE T == {N \in Nat : \E f : IsRestVisits(f, start, s, own, cfg, N)}
<1>1. 0 \in T
  <2>1. IsRestVisits([n \in 0 .. 0 |-> start], start, s, own, cfg, 0)
    BY DEF IsRestVisits
  <2>2. QED  BY <2>1
<1>2. ASSUME NEW N \in 1 .. Len(own), N - 1 \in T PROVE N \in T
  <2>1. PICK f : IsRestVisits(f, start, s, own, cfg, N - 1)
    BY <1>2
  <2> DEFINE g == [n \in 0 .. N |-> IF n = N THEN ApplyRestKey(f[N - 1], s, own[N], cfg) ELSE f[n]]
  <2>2. \A n \in 0 .. N : n # N => n \in 0 .. N - 1
    OBVIOUS
  <2>3. \A n \in 0 .. N - 1 : f[n] = IF n = 0 THEN start ELSE ApplyRestKey(f[n - 1], s, own[n], cfg)
    BY <2>1 DEF IsRestVisits
  <2>4. \A n \in 0 .. N : n # 0 => n - 1 \in 0 .. N /\ n - 1 # N
    OBVIOUS
  <2>5. \A n \in 0 .. N : g[n] = IF n = 0 THEN start ELSE ApplyRestKey(g[n - 1], s, own[n], cfg)
    BY <2>2, <2>3, <2>4
  <2>6. IsRestVisits(g, start, s, own, cfg, N)
    BY <2>5 DEF IsRestVisits
  <2>7. QED  BY <2>6
<1>3. \A N \in 1 .. Len(own) : N - 1 \in T => N \in T
  BY <1>2
<1>4. Len(own) \in T
  <2>1. PICK U : U = T
    OBVIOUS
  <2>2. 0 \in U /\ \A N \in 1 .. Len(own) : N - 1 \in U => N \in U
    BY <1>1, <1>3, <2>1
  <2>3. \A N \in 0 .. Len(own) : N \in U
    BY <2>2, EveryPrefix
  <2>4. QED  BY <2>1, <2>3
<1>5. \E f : IsRestVisits(f, start, s, own, cfg, Len(own))
  BY <1>4
<1>6. RestVisits(start, s, own, cfg) = CHOOSE f : IsRestVisits(f, start, s, own, cfg, Len(own))
  BY DEF RestVisits, IsRestVisits
<1>7. PICK f : f = RestVisits(start, s, own, cfg)
  OBVIOUS
<1>8. IsRestVisits(f, start, s, own, cfg, Len(own))
  BY <1>5, <1>6, <1>7
<1>9. \A n \in 0 .. Len(own) : f[n] = IF n = 0 THEN start ELSE ApplyRestKey(f[n - 1], s, own[n], cfg)
  BY <1>8 DEF IsRestVisits
<1>10. QED  BY <1>7, <1>9

IsRecordVisits(f, start, s, own, cfg, N) ==
  f = [n \in 0 .. N |-> IF n = 0 THEN start ELSE VisitRecord(f[n - 1], s, own[n], cfg)]

LEMMA RecordVisitsLoop ==
  ASSUME NEW start, NEW s, NEW own, NEW cfg, Len(own) \in Nat
  PROVE  /\ RecordVisits(start, s, own, cfg)[0] = start
         /\ \A n \in 1 .. Len(own) :
              RecordVisits(start, s, own, cfg)[n] = VisitRecord(RecordVisits(start, s, own, cfg)[n - 1], s, own[n], cfg)
<1> DEFINE T == {N \in Nat : \E f : IsRecordVisits(f, start, s, own, cfg, N)}
<1>1. 0 \in T
  <2>1. IsRecordVisits([n \in 0 .. 0 |-> start], start, s, own, cfg, 0)
    BY DEF IsRecordVisits
  <2>2. QED  BY <2>1
<1>2. ASSUME NEW N \in 1 .. Len(own), N - 1 \in T PROVE N \in T
  <2>1. PICK f : IsRecordVisits(f, start, s, own, cfg, N - 1)
    BY <1>2
  <2> DEFINE g == [n \in 0 .. N |-> IF n = N THEN VisitRecord(f[N - 1], s, own[N], cfg) ELSE f[n]]
  <2>2. \A n \in 0 .. N : n # N => n \in 0 .. N - 1
    OBVIOUS
  <2>3. \A n \in 0 .. N - 1 : f[n] = IF n = 0 THEN start ELSE VisitRecord(f[n - 1], s, own[n], cfg)
    BY <2>1 DEF IsRecordVisits
  <2>4. \A n \in 0 .. N : n # 0 => n - 1 \in 0 .. N /\ n - 1 # N
    OBVIOUS
  <2>5. \A n \in 0 .. N : g[n] = IF n = 0 THEN start ELSE VisitRecord(g[n - 1], s, own[n], cfg)
    BY <2>2, <2>3, <2>4
  <2>6. IsRecordVisits(g, start, s, own, cfg, N)
    BY <2>5 DEF IsRecordVisits
  <2>7. QED  BY <2>6
<1>3. \A N \in 1 .. Len(own) : N - 1 \in T => N \in T
  BY <1>2
<1>4. Len(own) \in T
  <2>1. PICK U : U = T
    OBVIOUS
  <2>2. 0 \in U /\ \A N \in 1 .. Len(own) : N - 1 \in U => N \in U
    BY <1>1, <1>3, <2>1
  <2>3. \A N \in 0 .. Len(own) : N \in U
    BY <2>2, EveryPrefix
  <2>4. QED  BY <2>1, <2>3
<1>5. \E f : IsRecordVisits(f, start, s, own, cfg, Len(own))
  BY <1>4
<1>6. RecordVisits(start, s, own, cfg) = CHOOSE f : IsRecordVisits(f, start, s, own, cfg, Len(own))
  BY DEF RecordVisits, IsRecordVisits
<1>7. PICK f : f = RecordVisits(start, s, own, cfg)
  OBVIOUS
<1>8. IsRecordVisits(f, start, s, own, cfg, Len(own))
  BY <1>5, <1>6, <1>7
<1>9. \A n \in 0 .. Len(own) : f[n] = IF n = 0 THEN start ELSE VisitRecord(f[n - 1], s, own[n], cfg)
  BY <1>8 DEF IsRecordVisits
<1>10. QED  BY <1>7, <1>9

IsActsInTurn(f, start, ops, cfg, N) ==
  f = [n \in 0 .. N |-> IF n = 0 THEN start ELSE ActNext(f[n - 1], ops[n], cfg)]

LEMMA ActsInTurnLoop ==
  ASSUME NEW start, NEW ops, NEW cfg, Len(ops) \in Nat
  PROVE  /\ ActsInTurn(start, ops, cfg)[0] = start
         /\ \A n \in 1 .. Len(ops) :
              ActsInTurn(start, ops, cfg)[n] = ActNext(ActsInTurn(start, ops, cfg)[n - 1], ops[n], cfg)
<1> DEFINE T == {N \in Nat : \E f : IsActsInTurn(f, start, ops, cfg, N)}
<1>1. 0 \in T
  <2>1. IsActsInTurn([n \in 0 .. 0 |-> start], start, ops, cfg, 0)
    BY DEF IsActsInTurn
  <2>2. QED  BY <2>1
<1>2. ASSUME NEW N \in 1 .. Len(ops), N - 1 \in T PROVE N \in T
  <2>1. PICK f : IsActsInTurn(f, start, ops, cfg, N - 1)
    BY <1>2
  <2> DEFINE g == [n \in 0 .. N |-> IF n = N THEN ActNext(f[N - 1], ops[N], cfg) ELSE f[n]]
  <2>2. \A n \in 0 .. N : n # N => n \in 0 .. N - 1
    OBVIOUS
  <2>3. \A n \in 0 .. N - 1 : f[n] = IF n = 0 THEN start ELSE ActNext(f[n - 1], ops[n], cfg)
    BY <2>1 DEF IsActsInTurn
  <2>4. \A n \in 0 .. N : n # 0 => n - 1 \in 0 .. N /\ n - 1 # N
    OBVIOUS
  <2>5. \A n \in 0 .. N : g[n] = IF n = 0 THEN start ELSE ActNext(g[n - 1], ops[n], cfg)
    BY <2>2, <2>3, <2>4
  <2>6. IsActsInTurn(g, start, ops, cfg, N)
    BY <2>5 DEF IsActsInTurn
  <2>7. QED  BY <2>6
<1>3. \A N \in 1 .. Len(ops) : N - 1 \in T => N \in T
  BY <1>2
<1>4. Len(ops) \in T
  <2>1. PICK U : U = T
    OBVIOUS
  <2>2. 0 \in U /\ \A N \in 1 .. Len(ops) : N - 1 \in U => N \in U
    BY <1>1, <1>3, <2>1
  <2>3. \A N \in 0 .. Len(ops) : N \in U
    BY <2>2, EveryPrefix
  <2>4. QED  BY <2>1, <2>3
<1>5. \E f : IsActsInTurn(f, start, ops, cfg, Len(ops))
  BY <1>4
<1>6. ActsInTurn(start, ops, cfg) = CHOOSE f : IsActsInTurn(f, start, ops, cfg, Len(ops))
  BY DEF ActsInTurn, IsActsInTurn
<1>7. PICK f : f = ActsInTurn(start, ops, cfg)
  OBVIOUS
<1>8. IsActsInTurn(f, start, ops, cfg, Len(ops))
  BY <1>5, <1>6, <1>7
<1>9. \A n \in 0 .. Len(ops) : f[n] = IF n = 0 THEN start ELSE ActNext(f[n - 1], ops[n], cfg)
  BY <1>8 DEF IsActsInTurn
<1>10. QED  BY <1>7, <1>9

IsStepVisits(f, start, places, cfg, N) ==
  f = [n \in 0 .. N |-> IF n = 0 THEN start ELSE StepChild(f[n - 1], places[n], cfg)]

LEMMA StepVisitsLoop ==
  ASSUME NEW start, NEW places, NEW cfg, Len(places) \in Nat
  PROVE  /\ StepVisits(start, places, cfg)[0] = start
         /\ \A n \in 1 .. Len(places) :
              StepVisits(start, places, cfg)[n] = StepChild(StepVisits(start, places, cfg)[n - 1], places[n], cfg)
<1> DEFINE T == {N \in Nat : \E f : IsStepVisits(f, start, places, cfg, N)}
<1>1. 0 \in T
  <2>1. IsStepVisits([n \in 0 .. 0 |-> start], start, places, cfg, 0)
    BY DEF IsStepVisits
  <2>2. QED  BY <2>1
<1>2. ASSUME NEW N \in 1 .. Len(places), N - 1 \in T PROVE N \in T
  <2>1. PICK f : IsStepVisits(f, start, places, cfg, N - 1)
    BY <1>2
  <2> DEFINE g == [n \in 0 .. N |-> IF n = N THEN StepChild(f[N - 1], places[N], cfg) ELSE f[n]]
  <2>2. \A n \in 0 .. N : n # N => n \in 0 .. N - 1
    OBVIOUS
  <2>3. \A n \in 0 .. N - 1 : f[n] = IF n = 0 THEN start ELSE StepChild(f[n - 1], places[n], cfg)
    BY <2>1 DEF IsStepVisits
  <2>4. \A n \in 0 .. N : n # 0 => n - 1 \in 0 .. N /\ n - 1 # N
    OBVIOUS
  <2>5. \A n \in 0 .. N : g[n] = IF n = 0 THEN start ELSE StepChild(g[n - 1], places[n], cfg)
    BY <2>2, <2>3, <2>4
  <2>6. IsStepVisits(g, start, places, cfg, N)
    BY <2>5 DEF IsStepVisits
  <2>7. QED  BY <2>6
<1>3. \A N \in 1 .. Len(places) : N - 1 \in T => N \in T
  BY <1>2
<1>4. Len(places) \in T
  <2>1. PICK U : U = T
    OBVIOUS
  <2>2. 0 \in U /\ \A N \in 1 .. Len(places) : N - 1 \in U => N \in U
    BY <1>1, <1>3, <2>1
  <2>3. \A N \in 0 .. Len(places) : N \in U
    BY <2>2, EveryPrefix
  <2>4. QED  BY <2>1, <2>3
<1>5. \E f : IsStepVisits(f, start, places, cfg, Len(places))
  BY <1>4
<1>6. StepVisits(start, places, cfg) = CHOOSE f : IsStepVisits(f, start, places, cfg, Len(places))
  BY DEF StepVisits, IsStepVisits
<1>7. PICK f : f = StepVisits(start, places, cfg)
  OBVIOUS
<1>8. IsStepVisits(f, start, places, cfg, Len(places))
  BY <1>5, <1>6, <1>7
<1>9. \A n \in 0 .. Len(places) : f[n] = IF n = 0 THEN start ELSE StepChild(f[n - 1], places[n], cfg)
  BY <1>8 DEF IsStepVisits
<1>10. QED  BY <1>7, <1>9

IsPrimitiveVisits(f, start, places, cfg, N) ==
  f = [n \in 0 .. N |-> IF n = 0 THEN start ELSE StepPrimitiveChild(f[n - 1], places[n], cfg)]

LEMMA PrimitiveVisitsLoop ==
  ASSUME NEW start, NEW places, NEW cfg, Len(places) \in Nat
  PROVE  /\ PrimitiveVisits(start, places, cfg)[0] = start
         /\ \A n \in 1 .. Len(places) :
              PrimitiveVisits(start, places, cfg)[n] = StepPrimitiveChild(PrimitiveVisits(start, places, cfg)[n - 1], places[n], cfg)
<1> DEFINE T == {N \in Nat : \E f : IsPrimitiveVisits(f, start, places, cfg, N)}
<1>1. 0 \in T
  <2>1. IsPrimitiveVisits([n \in 0 .. 0 |-> start], start, places, cfg, 0)
    BY DEF IsPrimitiveVisits
  <2>2. QED  BY <2>1
<1>2. ASSUME NEW N \in 1 .. Len(places), N - 1 \in T PROVE N \in T
  <2>1. PICK f : IsPrimitiveVisits(f, start, places, cfg, N - 1)
    BY <1>2
  <2> DEFINE g == [n \in 0 .. N |-> IF n = N THEN StepPrimitiveChild(f[N - 1], places[N], cfg) ELSE f[n]]
  <2>2. \A n \in 0 .. N : n # N => n \in 0 .. N - 1
    OBVIOUS
  <2>3. \A n \in 0 .. N - 1 : f[n] = IF n = 0 THEN start ELSE StepPrimitiveChild(f[n - 1], places[n], cfg)
    BY <2>1 DEF IsPrimitiveVisits
  <2>4. \A n \in 0 .. N : n # 0 => n - 1 \in 0 .. N /\ n - 1 # N
    OBVIOUS
  <2>5. \A n \in 0 .. N : g[n] = IF n = 0 THEN start ELSE StepPrimitiveChild(g[n - 1], places[n], cfg)
    BY <2>2, <2>3, <2>4
  <2>6. IsPrimitiveVisits(g, start, places, cfg, N)
    BY <2>5 DEF IsPrimitiveVisits
  <2>7. QED  BY <2>6
<1>3. \A N \in 1 .. Len(places) : N - 1 \in T => N \in T
  BY <1>2
<1>4. Len(places) \in T
  <2>1. PICK U : U = T
    OBVIOUS
  <2>2. 0 \in U /\ \A N \in 1 .. Len(places) : N - 1 \in U => N \in U
    BY <1>1, <1>3, <2>1
  <2>3. \A N \in 0 .. Len(places) : N \in U
    BY <2>2, EveryPrefix
  <2>4. QED  BY <2>1, <2>3
<1>5. \E f : IsPrimitiveVisits(f, start, places, cfg, Len(places))
  BY <1>4
<1>6. PrimitiveVisits(start, places, cfg) = CHOOSE f : IsPrimitiveVisits(f, start, places, cfg, Len(places))
  BY DEF PrimitiveVisits, IsPrimitiveVisits
<1>7. PICK f : f = PrimitiveVisits(start, places, cfg)
  OBVIOUS
<1>8. IsPrimitiveVisits(f, start, places, cfg, Len(places))
  BY <1>5, <1>6, <1>7
<1>9. \A n \in 0 .. Len(places) : f[n] = IF n = 0 THEN start ELSE StepPrimitiveChild(f[n - 1], places[n], cfg)
  BY <1>8 DEF IsPrimitiveVisits
<1>10. QED  BY <1>7, <1>9

-----------------------------------------------------------------------------
(* Lists of issues                                                         *)

IsIssues(q) == IsList(q) /\ \A i \in DOMAIN q : IsIssue(q[i])

LEMMA ListOf ==
  ASSUME NEW S, NEW q \in Seq(S)
  PROVE  IsList(q)
<1>1. /\ Len(q) \in Nat /\ DOMAIN q = 1 .. Len(q)
      /\ q = [i \in 1 .. Len(q) |-> q[i]]
  OBVIOUS
<1>2. \A i \in 1 .. Len(q) : q[i] \in Range(q)
  BY <1>1 DEF Range
<1>3. QED  BY <1>1, <1>2 DEF IsList

LEMMA ListDomain ==
  ASSUME NEW q, IsList(q)
  PROVE  Len(q) \in Nat /\ DOMAIN q = 1 .. Len(q)
BY DEF IsList

LEMMA IssuesAreLists == \A q : IsIssues(q) => IsList(q)
BY DEF IsIssues

LEMMA ListConcat ==
  ASSUME NEW p, NEW q, IsList(p), IsList(q)
  PROVE  /\ IsList(p \o q)
         /\ Len(p \o q) = Len(p) + Len(q)
         /\ \A i \in 1 .. Len(p) : (p \o q)[i] = p[i]
         /\ \A i \in 1 .. Len(q) : (p \o q)[Len(p) + i] = q[i]
         /\ \A k \in DOMAIN (p \o q) :
              \/ k \in DOMAIN p /\ (p \o q)[k] = p[k]
              \/ k - Len(p) \in DOMAIN q /\ (p \o q)[k] = q[k - Len(p)]
<1>1. p \in Seq(Range(p)) /\ q \in Seq(Range(q))
  BY DEF IsList
<1>2. PICK S : S = Range(p) \cup Range(q)
  OBVIOUS
<1>3. p \in Seq(S) /\ q \in Seq(S)
  BY <1>1, <1>2
<1>4. /\ p \o q \in Seq(S)
      /\ Len(p \o q) = Len(p) + Len(q)
      /\ DOMAIN (p \o q) = 1 .. Len(p) + Len(q)
      /\ \A i \in 1 .. Len(p) : (p \o q)[i] = p[i]
      /\ \A i \in 1 .. Len(q) : (p \o q)[Len(p) + i] = q[i]
  BY <1>3
<1>5. IsList(p \o q)
  BY <1>4, ListOf
<1>6. ASSUME NEW k \in DOMAIN (p \o q)
      PROVE  \/ k \in DOMAIN p /\ (p \o q)[k] = p[k]
             \/ k - Len(p) \in DOMAIN q /\ (p \o q)[k] = q[k - Len(p)]
  <2>1. /\ Len(p) \in Nat /\ Len(q) \in Nat
        /\ DOMAIN p = 1 .. Len(p) /\ DOMAIN q = 1 .. Len(q)
    BY ListDomain
  <2>2. CASE k <= Len(p)
    BY <1>4, <2>1, <2>2
  <2>3. CASE k > Len(p)
    <3>1. k - Len(p) \in 1 .. Len(q) /\ k = Len(p) + (k - Len(p))
      BY <1>4, <2>1, <2>3
    <3>2. QED  BY <1>4, <2>1, <3>1
  <2>4. QED  BY <1>4, <2>1, <2>2, <2>3
<1>7. QED  BY <1>4, <1>5, <1>6

LEMMA IssuesConcat ==
  ASSUME NEW p, NEW q, IsIssues(p), IsIssues(q)
  PROVE  /\ IsIssues(p \o q)
         /\ HasError(p \o q) <=> HasError(p) \/ HasError(q)
         /\ StopsAtFirst(q) /\ ~ HasError(p) => StopsAtFirst(p \o q)
<1>1. IsList(p) /\ IsList(q)
  BY DEF IsIssues
<1>2. /\ Len(p) \in Nat /\ Len(q) \in Nat /\ Len(p \o q) = Len(p) + Len(q)
      /\ DOMAIN p = 1 .. Len(p) /\ DOMAIN q = 1 .. Len(q)
      /\ DOMAIN (p \o q) = 1 .. Len(p) + Len(q)
  BY <1>1, ListDomain, ListConcat
<1>3. /\ IsList(p \o q)
      /\ \A i \in DOMAIN p : i \in DOMAIN (p \o q) /\ (p \o q)[i] = p[i]
      /\ \A i \in DOMAIN q : Len(p) + i \in DOMAIN (p \o q) /\ (p \o q)[Len(p) + i] = q[i]
      /\ \A k \in DOMAIN (p \o q) :
           \/ k \in DOMAIN p /\ (p \o q)[k] = p[k]
           \/ k - Len(p) \in DOMAIN q /\ (p \o q)[k] = q[k - Len(p)]
  BY <1>1, <1>2, ListConcat
<1>4. IsIssues(p \o q)
  BY <1>3 DEF IsIssues
<1>5. HasError(p \o q) <=> HasError(p) \/ HasError(q)
  BY <1>3 DEF HasError
<1>6. ASSUME StopsAtFirst(q), ~ HasError(p) PROVE StopsAtFirst(p \o q)
  <2>1. SUFFICES ASSUME NEW i \in DOMAIN (p \o q), NEW j \in DOMAIN (p \o q),
                        i < j, ~ IsWarning((p \o q)[i])
                 PROVE  SameReport((p \o q)[i], (p \o q)[j])
    BY DEF StopsAtFirst
  <2>2. i - Len(p) \in DOMAIN q /\ (p \o q)[i] = q[i - Len(p)]
    BY <1>3, <1>6, <2>1 DEF HasError
  <2>3. i \in Nat /\ j \in Nat /\ j \notin DOMAIN p
    BY <1>2, <2>1, <2>2
  <2>4. j - Len(p) \in DOMAIN q /\ (p \o q)[j] = q[j - Len(p)]
    BY <1>3, <2>1, <2>3
  <2>5. i - Len(p) < j - Len(p)
    BY <1>2, <2>1, <2>3
  <2>6. SameReport(q[i - Len(p)], q[j - Len(p)])
    BY <1>6, <2>1, <2>2, <2>4, <2>5 DEF StopsAtFirst
  <2>7. QED  BY <2>2, <2>4, <2>6
<1>7. QED  BY <1>4, <1>5, <1>6

(* No issue, and a single one                                              *)
LEMMA NoIssues ==
  IsIssues(<<>>) /\ ~ HasError(<<>>) /\ StopsAtFirst(<<>>)
<1>1. <<>> \in Seq({}) /\ DOMAIN <<>> = {}
  OBVIOUS
<1>2. IsList(<<>>)
  BY <1>1, ListOf
<1>3. QED  BY <1>1, <1>2 DEF IsIssues, HasError, StopsAtFirst

LEMMA OneIssue ==
  ASSUME NEW issue, IsIssue(issue)
  PROVE  /\ IsIssues(<<issue>>) /\ StopsAtFirst(<<issue>>)
         /\ HasError(<<issue>>) <=> issue.severity # "warning"
<1>1. <<issue>> \in Seq({issue}) /\ DOMAIN <<issue>> = {1} /\ <<issue>>[1] = issue
  OBVIOUS
<1>2. IsList(<<issue>>)
  BY <1>1, ListOf
<1>3. QED  BY <1>1, <1>2 DEF IsIssues, HasError, StopsAtFirst, IsWarning

LEMMA IssueIsIssue ==
  ASSUME NEW kind, NEW type, NEW v, NEW severity, NEW message, NEW path
  PROVE  /\ IsIssue(Issue(kind, type, v, severity, message, path))
         /\ Issue(kind, type, v, severity, message, path).severity = severity
BY DEF IsIssue, Issue

(* What an operation reports in one call                                   *)
LEMMA ReportParts ==
  ASSUME NEW op, IsReporter(op), NEW d, NEW type
  PROVE  /\ IsIssues(Reported(op, d, type)) /\ StopsAtFirst(Reported(op, d, type))
         /\ HasError(Reported(op, d, type)) <=> Fails(op)
<1>1. PICK n \in Nat : n = Len(op.issues)
  BY DEF IsReporter
<1>2. DOMAIN op.issues = 1 .. n /\ \A i \in 1 .. n : op.issues[i] \in {"warning", "error"}
  BY <1>1 DEF IsReporter, Severities
<1>3. PICK p : p = Reported(op, d, type)
  OBVIOUS
<1>4. /\ p = [i \in 1 .. n |-> p[i]]
      /\ \A i \in 1 .. n :
           p[i] = Issue("transformation", type, d.value, op.issues[i], "none", <<>>)
  BY <1>2, <1>3 DEF Reported
<1>5. \A i \in 1 .. n :
        IsIssue(p[i]) /\ p[i].kind = "transformation" /\ p[i].severity = op.issues[i]
  BY <1>4 DEF IsIssue, Issue
<1>6. p \in Seq(Range(p)) /\ DOMAIN p = 1 .. n
  BY <1>4 DEF Range
<1>7. IsIssues(p)
  BY <1>5, <1>6 DEF IsIssues, IsList
<1>8. \A i, j \in 1 .. n : SameReport(p[i], p[j])
  BY <1>4, <1>5 DEF SameReport, Issue
<1>9. StopsAtFirst(p)
  BY <1>6, <1>8 DEF StopsAtFirst
<1>10. HasError(p) <=> \E i \in 1 .. n : op.issues[i] = "error"
  BY <1>2, <1>5, <1>6 DEF HasError, IsWarning
<1>11. Fails(op) <=> \E i \in 1 .. n : op.issues[i] = "error"
  BY <1>2 DEF Fails, Range
<1>12. QED  BY <1>3, <1>7, <1>9, <1>10, <1>11

LEMMA UnderKeeps ==
  ASSUME NEW key, NEW q, IsIssues(q)
  PROVE  /\ IsIssues(Under(key, q))
         /\ HasError(Under(key, q)) <=> HasError(q)
         /\ StopsAtFirst(q) => StopsAtFirst(Under(key, q))
<1>1. Len(q) \in Nat /\ DOMAIN q = 1 .. Len(q)
  BY ListDomain DEF IsIssues
<1>2. PICK u : u = Under(key, q)
  OBVIOUS
<1>3. /\ u = [i \in 1 .. Len(q) |-> u[i]]
      /\ \A i \in DOMAIN q : u[i] = [q[i] EXCEPT !.path = <<key>> \o @]
  BY <1>1, <1>2 DEF Under
<1>4. ASSUME NEW i \in DOMAIN q
      PROVE  /\ IsIssue(u[i]) /\ u[i].severity = q[i].severity
             /\ u[i] = [q[i] EXCEPT !.path = u[i].path] /\ u[i].path = <<key>> \o q[i].path
  <2>1. q[i] = [kind |-> q[i].kind, type |-> q[i].type, input |-> q[i].input,
                severity |-> q[i].severity, message |-> q[i].message, path |-> q[i].path]
    BY DEF IsIssues, IsIssue, Issue
  <2>2. PICK e : e = q[i]
    OBVIOUS
  <2>3. PICK path : path = <<key>> \o e.path
    OBVIOUS
  <2>4. u[i] = [e EXCEPT !.path = path]
    BY <1>3, <2>2, <2>3
  <2>5. [e EXCEPT !.path = path] =
          [kind |-> e.kind, type |-> e.type, input |-> e.input,
           severity |-> e.severity, message |-> e.message, path |-> path]
    BY <2>1, <2>2
  <2>6. IsIssue(u[i]) /\ u[i].severity = q[i].severity /\ u[i].path = path
    BY <2>2, <2>4, <2>5 DEF IsIssue, Issue
  <2>7. QED  BY <2>2, <2>3, <2>4, <2>6
<1>5. u \in Seq(Range(u)) /\ DOMAIN u = DOMAIN q
  BY <1>1, <1>3 DEF Range
<1>6. IsIssues(u)
  BY <1>4, <1>5 DEF IsIssues, IsList
<1>7. \A i \in DOMAIN q : IsWarning(u[i]) <=> IsWarning(q[i])
  BY <1>4 DEF IsWarning
<1>8. ASSUME NEW i \in DOMAIN q, NEW j \in DOMAIN q, SameReport(q[i], q[j])
      PROVE  SameReport(u[i], u[j])
  <2>1. PICK a, b, path : a = q[i] /\ b = q[j] /\ path = <<key>> \o a.path
    OBVIOUS
  <2>2. a.kind = "transformation" /\ b = [a EXCEPT !.severity = b.severity]
    BY <1>8, <2>1 DEF SameReport
  <2>3. a = Issue(a.kind, a.type, a.input, a.severity, a.message, a.path)
    BY <2>1 DEF IsIssues, IsIssue
  <2>4. b = Issue(a.kind, a.type, a.input, b.severity, a.message, a.path) /\ b.path = a.path
    BY <2>2, <2>3 DEF Issue
  <2>5. u[i] = Issue(a.kind, a.type, a.input, a.severity, a.message, path)
    <3>1. u[i] = [a EXCEPT !.path = path]
      BY <1>4, <2>1
    <3>2. QED  BY <2>3, <3>1 DEF Issue
  <2>6. u[j] = Issue(a.kind, a.type, a.input, b.severity, a.message, path)
    <3>1. u[j] = [b EXCEPT !.path = path]
      BY <1>4, <2>1, <2>4
    <3>2. QED  BY <2>4, <3>1 DEF Issue
  <2>7. u[i].kind = "transformation" /\ u[j].severity = b.severity
    BY <2>2, <2>5, <2>6 DEF Issue
  <2>8. u[j] = [u[i] EXCEPT !.severity = u[j].severity]
    BY <2>5, <2>6, <2>7 DEF Issue
  <2>9. QED  BY <2>7, <2>8 DEF SameReport
<1>9. StopsAtFirst(q) => StopsAtFirst(u)
  BY <1>5, <1>7, <1>8 DEF StopsAtFirst
<1>10. HasError(u) <=> HasError(q)
  BY <1>5, <1>7 DEF HasError
<1>11. QED  BY <1>2, <1>6, <1>9, <1>10

-----------------------------------------------------------------------------
(* Datasets                                                                *)

Dataset(v, typed, issues) == [value |-> v, typed |-> typed, issues |-> issues]
SchemaIssue(d, s) == Issue("schema", s.type, d.value, "error", s.message, <<>>)

LEMMA DatasetParts ==
  ASSUME NEW d, IsDataset(d)
  PROVE  d = Dataset(d.value, d.typed, d.issues) /\ d.typed \in BOOLEAN /\ IsIssues(d.issues)
BY DEF IsDataset, Dataset, IsIssues

LEMMA DatasetOf ==
  ASSUME NEW v, NEW typed \in BOOLEAN, NEW q, IsIssues(q)
  PROVE  /\ IsDataset(Dataset(v, typed, q))
         /\ Dataset(v, typed, q).value = v
         /\ Dataset(v, typed, q).typed = typed
         /\ Dataset(v, typed, q).issues = q
BY DEF IsDataset, Dataset, IsIssues

LEMMA FreshParts ==
  ASSUME NEW v
  PROVE  /\ Fresh(v) = Dataset(v, FALSE, <<>>)
         /\ IsDataset(Fresh(v))
         /\ Fresh(v).value = v /\ Fresh(v).typed = FALSE /\ Fresh(v).issues = <<>>
<1>1. Fresh(v) = Dataset(v, FALSE, <<>>)
  BY DEF Fresh, Dataset
<1>2. Fresh(v).value = v /\ Fresh(v).typed = FALSE /\ Fresh(v).issues = <<>>
  BY DEF Fresh
<1>3. Fresh(v) = [value |-> v, typed |-> FALSE, issues |-> <<>>]
  BY DEF Fresh
<1>4. IsDataset(Fresh(v))
  BY <1>2, <1>3, NoIssues DEF IsDataset, IsIssues
<1>5. QED  BY <1>1, <1>2, <1>4

LEMMA AppendIssue ==
  ASSUME NEW q, IsIssues(q), NEW issue
  PROVE  Append(q, issue) = q \o <<issue>>
<1>1. PICK S : q \in Seq(S)
  BY DEF IsIssues, IsList
<1>2. PICK U : U = S \cup {issue}
  OBVIOUS
<1>3. q \in Seq(U) /\ issue \in U
  BY <1>1, <1>2
<1>4. QED  BY <1>3

LEMMA AddIssueParts ==
  ASSUME NEW d, IsDataset(d), NEW kind, NEW type, NEW message, NEW path
  PROVE  AddIssue(d, kind, type, message, path) =
           Dataset(d.value, d.typed /\ kind # "schema",
                   d.issues \o <<Issue(kind, type, d.value, "error", message, path)>>)
<1>1. d = [value |-> d.value, typed |-> d.typed, issues |-> d.issues] /\ IsIssues(d.issues)
  BY DatasetParts DEF Dataset
<1>2. PICK issue : issue = Issue(kind, type, d.value, "error", message, path)
  OBVIOUS
<1>3. PICK q : q = Append(d.issues, issue) /\ q = d.issues \o <<issue>>
  BY <1>1, AppendIssue
<1>4. PICK typed : typed = (d.typed /\ kind # "schema")
  OBVIOUS
<1>5. PICK e : e = [d EXCEPT !.issues = q, !.typed = typed]
  OBVIOUS
<1>6. e = Dataset(d.value, typed, q)
  BY <1>1, <1>5 DEF Dataset
<1>7. AddIssue(d, kind, type, message, path) = e
  BY <1>2, <1>3, <1>4, <1>5 DEF AddIssue
<1>8. QED  BY <1>2, <1>3, <1>4, <1>6, <1>7

LEMMA WithoutType ==
  ASSUME NEW d, IsDataset(d), NEW typed \in BOOLEAN
  PROVE  /\ [d EXCEPT !.typed = typed] = Dataset(d.value, typed, d.issues)
         /\ IsDataset([d EXCEPT !.typed = typed])
<1>1. d = [value |-> d.value, typed |-> d.typed, issues |-> d.issues] /\ IsIssues(d.issues)
  BY DatasetParts DEF Dataset
<1>2. [d EXCEPT !.typed = typed] = Dataset(d.value, typed, d.issues)
  BY <1>1 DEF Dataset
<1>3. QED  BY <1>1, <1>2, DatasetOf

LEMMA MismatchParts ==
  ASSUME NEW d, IsDataset(d), NEW s
  PROVE  Mismatch(d, s) = Dataset(d.value, FALSE, d.issues \o <<SchemaIssue(d, s)>>)
<1>1. PICK e : e = [d EXCEPT !.typed = FALSE]
  OBVIOUS
<1>2. FALSE \in BOOLEAN /\ IsIssues(d.issues)
  BY DatasetParts
<1>3. IsDataset(e) /\ e = Dataset(d.value, FALSE, d.issues)
  BY <1>1, <1>2, WithoutType
<1>4. e.value = d.value /\ e.typed = FALSE /\ e.issues = d.issues
  BY <1>3 DEF Dataset
<1>5. AddIssue(e, "schema", s.type, s.message, <<>>) =
        Dataset(e.value, e.typed /\ "schema" # "schema",
                e.issues \o <<Issue("schema", s.type, e.value, "error", s.message, <<>>)>>)
  BY <1>3, AddIssueParts
<1>6. (e.typed /\ "schema" # "schema") = FALSE
  OBVIOUS
<1>7. QED  BY <1>1, <1>4, <1>5, <1>6 DEF Mismatch, SchemaIssue

(* What a run promises in a mode, compared with its run in report mode     *)
Sound(r, cfg) ==
  /\ IsDataset(r)
  /\ r.typed \/ HasError(r.issues)
  /\ cfg.reject => StopsAtFirst(r.issues)
Agrees(r, report) ==
  /\ HasError(r.issues) <=> HasError(report.issues)
  /\ HasError(r.issues) \/ r = report
Answers(r, report, cfg) == Sound(r, cfg) /\ Agrees(r, report)

(* A dataset on its way: no error yet                                      *)
IsClean(d) == IsDataset(d) /\ ~ HasError(d.issues)
(* An answer that is the same in every mode                                *)
IsSettled(r) ==
  IsDataset(r) /\ (r.typed \/ HasError(r.issues)) /\ StopsAtFirst(r.issues)

LEMMA SettledAnswers ==
  ASSUME NEW r, IsSettled(r), NEW cfg
  PROVE  Answers(r, r, cfg)
BY DEF IsSettled, Answers, Sound, Agrees

LEMMA CleanAnswers ==
  ASSUME NEW d, IsClean(d)
  PROVE  StopsAtFirst(d.issues) /\ (d.typed => IsSettled(d))
BY DEF IsClean, IsSettled, StopsAtFirst, HasError

LEMMA MismatchSettled ==
  ASSUME NEW d, IsClean(d), NEW s
  PROVE  IsSettled(Mismatch(d, s)) /\ HasError(Mismatch(d, s).issues)
<1>1. IsIssues(d.issues) /\ IsDataset(d)
  BY DatasetParts DEF IsClean
<1>2. PICK issue : issue = SchemaIssue(d, s)
  OBVIOUS
<1>3. IsIssue(issue) /\ issue.severity = "error"
  BY <1>2, IssueIsIssue DEF SchemaIssue
<1>4. IsIssues(<<issue>>) /\ StopsAtFirst(<<issue>>) /\ HasError(<<issue>>)
  BY <1>3, OneIssue
<1>5. PICK q : q = d.issues \o <<issue>>
  OBVIOUS
<1>6. IsIssues(q) /\ HasError(q) /\ StopsAtFirst(q)
  BY <1>1, <1>4, <1>5, IssuesConcat DEF IsClean
<1>7. Mismatch(d, s) = Dataset(d.value, FALSE, q)
  BY <1>1, <1>2, <1>5, MismatchParts
<1>8. FALSE \in BOOLEAN
  OBVIOUS
<1>9. PICK r : r = Dataset(d.value, FALSE, q)
  OBVIOUS
<1>10. r.value = d.value /\ r.typed = FALSE /\ r.issues = q
  BY <1>9 DEF Dataset
<1>11. r = [value |-> r.value, typed |-> r.typed, issues |-> r.issues]
  BY <1>9, <1>10 DEF Dataset
<1>12. IsDataset(r)
  BY <1>6, <1>8, <1>10, <1>11 DEF IsDataset, IsIssues
<1>13. QED  BY <1>6, <1>7, <1>9, <1>10, <1>12 DEF IsSettled

LEMMA TypedSettled ==
  ASSUME NEW v, NEW q, IsIssues(q), ~ HasError(q)
  PROVE  IsSettled(Dataset(v, TRUE, q)) /\ ~ HasError(Dataset(v, TRUE, q).issues)
<1>1. StopsAtFirst(q)
  BY DEF StopsAtFirst, HasError
<1>2. TRUE \in BOOLEAN
  OBVIOUS
<1>3. PICK r : r = Dataset(v, TRUE, q)
  OBVIOUS
<1>4. r.value = v /\ r.typed = TRUE /\ r.issues = q
  BY <1>3 DEF Dataset
<1>5. r = [value |-> r.value, typed |-> r.typed, issues |-> r.issues]
  BY <1>3, <1>4 DEF Dataset
<1>6. IsDataset(r)
  BY <1>2, <1>4, <1>5 DEF IsDataset, IsIssues
<1>7. QED  BY <1>1, <1>3, <1>4, <1>6 DEF IsSettled

LEMMA AcceptSettled ==
  ASSUME NEW d, IsClean(d), NEW s, NEW valid \in BOOLEAN
  PROVE  IsSettled(Accept(s, d, valid))
<1>1. CASE valid
  <2>1. Accept(s, d, valid) = Dataset(d.value, TRUE, d.issues)
    BY <1>1, WithoutType DEF Accept, IsClean
  <2>2. QED  BY <2>1, DatasetParts, TypedSettled DEF IsClean
<1>2. CASE ~ valid
  BY <1>2, MismatchSettled DEF Accept
<1>3. QED  BY <1>1, <1>2

-----------------------------------------------------------------------------
(* The schemas that call nothing                                           *)

LEMMA LeavesSettled ==
  ASSUME NEW s, NEW d, IsClean(d)
  PROVE  /\ IsSettled(RunPrimitive(s, d)) /\ IsSettled(RunNull(s, d))
         /\ IsSettled(RunUndefined(s, d)) /\ IsSettled(RunDate(s, d))
         /\ IsSettled(RunLiteral(s, d)) /\ IsSettled(RunPicklist(s, d))
         /\ IsSettled(RunForeign(s, d)) /\ IsSettled(RunNever(s, d)) /\ IsSettled(RunAny(d))
<1>1. \A valid \in BOOLEAN : IsSettled(Accept(s, d, valid))
  BY AcceptSettled
<1>2. /\ IsPrimitive(s.type, d.value) \in BOOLEAN /\ (d.value = Null) \in BOOLEAN
      /\ (d.value = Undefined) \in BOOLEAN
      /\ (d.value.type = "date" /\ d.value # Date("invalid")) \in BOOLEAN
      /\ (d.value = s.literal) \in BOOLEAN /\ (d.value \in s.options) \in BOOLEAN
      /\ (d.value \in s.accepts) \in BOOLEAN
  BY DEF IsPrimitive
<1>3. IsSettled(RunPrimitive(s, d)) /\ IsSettled(RunNull(s, d))
  BY <1>1, <1>2 DEF RunPrimitive, RunNull
<1>4. IsSettled(RunUndefined(s, d)) /\ IsSettled(RunDate(s, d))
  BY <1>1, <1>2 DEF RunUndefined, RunDate
<1>5. IsSettled(RunLiteral(s, d)) /\ IsSettled(RunPicklist(s, d)) /\ IsSettled(RunForeign(s, d))
  BY <1>1, <1>2 DEF RunLiteral, RunPicklist, RunForeign
<1>6. IsSettled(RunNever(s, d))
  BY MismatchSettled DEF RunNever
<1>7. IsSettled(RunAny(d))
  <2>1. RunAny(d) = Accept(s, d, TRUE)
    BY DEF RunAny, Accept
  <2>2. QED  BY <1>1, <2>1
<1>8. QED  BY <1>3, <1>4, <1>5, <1>6, <1>7

-----------------------------------------------------------------------------
(* The loops of the containers, in a mode and in report mode               *)

Good(s, d) == \A cfg \in Modes : Answers(Run(s, d, cfg), Run(s, d, ReportMode), cfg)

LEMMA ModeParts ==
  /\ ReportMode \in Modes /\ ReportMode.reject = FALSE /\ ReportMode.abortPipeEarly = FALSE
  /\ \A cfg \in Modes : cfg.reject \in BOOLEAN /\ cfg.abortPipeEarly \in BOOLEAN
<1>1. ReportMode \in Modes
  BY DEF Modes
<1>2. ReportMode.reject = FALSE /\ ReportMode.abortPipeEarly = FALSE
  BY DEF ReportMode
<1>3. ASSUME NEW cfg \in Modes PROVE cfg.reject \in BOOLEAN /\ cfg.abortPipeEarly \in BOOLEAN
  <2>1. CASE cfg \in Configs
    BY <2>1, ConfigsAssumption
  <2>2. CASE cfg = ReportMode
    BY <1>2, <2>2
  <2>3. QED  BY <2>1, <2>2 DEF Modes
<1>4. QED  BY <1>1, <1>2, <1>3

LEMMA AbortsIsBoolean ==
  ASSUME NEW q, NEW cfg, cfg.reject \in BOOLEAN
  PROVE  Aborts(q, cfg) \in BOOLEAN
BY DEF Aborts

LoopOf(data, out, aborted) == [data |-> data, out |-> out, aborted |-> aborted]

SoundLoop(l, cfg) ==
  /\ l = LoopOf(l.data, l.out, l.aborted)
  /\ Sound(l.data, cfg)
  /\ l.aborted = Aborts(l.data.issues, cfg)
SameLoop(l, report) ==
  /\ HasError(l.data.issues) <=> HasError(report.data.issues)
  /\ HasError(l.data.issues) \/ l = report
Loops(l, report, cfg) ==
  SoundLoop(l, cfg) /\ SoundLoop(report, ReportMode) /\ SameLoop(l, report)

LEMMA EnterLoops ==
  ASSUME NEW d, IsClean(d), NEW cfg \in Modes
  PROVE  Loops(Enter(d), Enter(d), cfg)
<1>1. PICK e : e = [d EXCEPT !.typed = TRUE]
  OBVIOUS
<1>2. TRUE \in BOOLEAN /\ IsIssues(d.issues) /\ ~ HasError(d.issues) /\ IsDataset(d)
  BY DatasetParts DEF IsClean
<1>3. e = Dataset(d.value, TRUE, d.issues) /\ IsDataset(e)
  BY <1>1, <1>2, WithoutType
<1>4. e.typed = TRUE /\ e.issues = d.issues
  BY <1>3 DEF Dataset
<1>5. PICK l : l = Enter(d)
  OBVIOUS
<1>6. l = LoopOf(e, <<>>, FALSE)
  BY <1>1, <1>5 DEF Enter, LoopOf
<1>7. l.data = e /\ l.out = <<>> /\ l.aborted = FALSE
  BY <1>6 DEF LoopOf
<1>8. StopsAtFirst(e.issues)
  BY <1>2, <1>4, CleanAnswers
<1>9. ASSUME NEW mode \in Modes PROVE SoundLoop(l, mode)
  <2>1. Sound(l.data, mode)
    BY <1>3, <1>4, <1>7, <1>8 DEF Sound
  <2>2. Aborts(l.data.issues, mode) = FALSE
    BY <1>2, <1>4, <1>7, ModeParts DEF Aborts
  <2>3. QED  BY <1>6, <1>7, <2>1, <2>2 DEF SoundLoop
<1>10. QED  BY <1>5, <1>9, ModeParts DEF Loops, SameLoop

(* The child of a container adds its issues to those of the container.     *)
LEMMA CollectParts ==
  ASSUME NEW cfg, cfg.reject \in BOOLEAN, NEW d, Sound(d, cfg), ~ Aborts(d.issues, cfg),
         NEW r, Sound(r, cfg), NEW key, NEW stop, stop = Aborts(r.issues, cfg)
  PROVE  /\ Collect(d, key, r, stop) =
              Dataset(d.value, d.typed /\ r.typed /\ ~ stop, d.issues \o Under(key, r.issues))
         /\ Sound(Collect(d, key, r, stop), cfg)
         /\ HasError(Collect(d, key, r, stop).issues) <=> HasError(d.issues) \/ HasError(r.issues)
         /\ Aborts(Collect(d, key, r, stop).issues, cfg) = stop
<1>1. /\ d = Dataset(d.value, d.typed, d.issues) /\ IsIssues(d.issues) /\ d.typed \in BOOLEAN
      /\ IsIssues(r.issues) /\ r.typed \in BOOLEAN /\ stop \in BOOLEAN
  BY DatasetParts, AbortsIsBoolean DEF Sound
<1>2. PICK u : u = Under(key, r.issues)
  OBVIOUS
<1>3. /\ IsIssues(u) /\ (HasError(u) <=> HasError(r.issues))
      /\ StopsAtFirst(r.issues) => StopsAtFirst(u)
  BY <1>1, <1>2, UnderKeeps
<1>4. PICK q : q = d.issues \o u
  OBVIOUS
<1>5. /\ IsIssues(q) /\ (HasError(q) <=> HasError(d.issues) \/ HasError(r.issues))
      /\ StopsAtFirst(u) /\ ~ HasError(d.issues) => StopsAtFirst(q)
  BY <1>1, <1>3, <1>4, IssuesConcat
<1>6. PICK t \in BOOLEAN : t = (d.typed /\ r.typed /\ ~ stop)
  OBVIOUS
<1>7. PICK e : e = [d EXCEPT !.issues = q, !.typed = t]
  OBVIOUS
<1>8. e = Dataset(d.value, t, q)
  BY <1>1, <1>7 DEF Dataset
<1>9. e = Collect(d, key, r, stop)
  BY <1>2, <1>4, <1>6, <1>7 DEF Collect
<1>10. IsDataset(e) /\ e.typed = t /\ e.issues = q
  BY <1>5, <1>8, DatasetOf
<1>11. cfg.reject => ~ HasError(d.issues)
  BY DEF Aborts
<1>12. Aborts(q, cfg) = stop
  BY <1>1, <1>5, <1>11 DEF Aborts
<1>13. t \/ HasError(q)
  BY <1>5, <1>6 DEF Sound, Aborts
<1>14. Sound(e, cfg)
  BY <1>3, <1>5, <1>10, <1>11, <1>13 DEF Sound
<1>15. e = Dataset(d.value, d.typed /\ r.typed /\ ~ stop, d.issues \o Under(key, r.issues))
  BY <1>2, <1>4, <1>6, <1>8
<1>16. QED  BY <1>5, <1>9, <1>10, <1>12, <1>14, <1>15

LEMMA VisitSound ==
  ASSUME NEW cfg \in Modes, NEW l, SoundLoop(l, cfg), NEW place,
         Sound(Run(place.child, Fresh(place.v), cfg), cfg)
  PROVE  /\ SoundLoop(Visit(l, place, cfg), cfg)
         /\ HasError(Visit(l, place, cfg).data.issues) <=>
              HasError(l.data.issues) \/ HasError(Run(place.child, Fresh(place.v), cfg).issues)
<1>1. cfg.reject \in BOOLEAN
  BY ModeParts
<1>2. PICK r : r = Run(place.child, Fresh(place.v), cfg)
  OBVIOUS
<1>3. PICK stop \in BOOLEAN : stop = Aborts(r.issues, cfg)
  BY <1>1, AbortsIsBoolean
<1>4. CASE l.aborted
  <2>1. Visit(l, place, cfg) = l
    BY <1>4 DEF Visit
  <2>2. HasError(l.data.issues)
    BY <1>4 DEF SoundLoop, Aborts
  <2>3. QED  BY <2>1, <2>2
<1>5. CASE ~ l.aborted
  <2>1. PICK e : e = Collect(l.data, place.key, r, stop)
    OBVIOUS
  <2>2. PICK o : o = IF stop \/ (place.omit /\ r.value = Undefined)
                     THEN l.out ELSE Assign(l.out, place.key, r.value)
    OBVIOUS
  <2>3. PICK w : w = Visit(l, place, cfg)
    OBVIOUS
  <2>4. w = LoopOf(e, o, stop)
    BY <1>2, <1>3, <1>5, <2>1, <2>2, <2>3 DEF Visit, LoopOf
  <2>5. w.data = e /\ w.out = o /\ w.aborted = stop
    BY <2>4 DEF LoopOf
  <2>6. ~ Aborts(l.data.issues, cfg)
    BY <1>5 DEF SoundLoop
  <2>7. /\ Sound(e, cfg) /\ (HasError(e.issues) <=> HasError(l.data.issues) \/ HasError(r.issues))
        /\ Aborts(e.issues, cfg) = stop
    BY <1>1, <1>2, <1>3, <2>1, <2>6, CollectParts DEF SoundLoop
  <2>8. QED  BY <1>2, <2>3, <2>4, <2>5, <2>7 DEF SoundLoop
<1>6. QED  BY <1>4, <1>5

(* Without an error the mode does not matter.                              *)
LEMMA VisitLoops ==
  ASSUME NEW cfg \in Modes, NEW l, NEW report, Loops(l, report, cfg), NEW place,
         Good(place.child, Fresh(place.v))
  PROVE  Loops(Visit(l, place, cfg), Visit(report, place, ReportMode), cfg)
<1>1. PICK r : r = Run(place.child, Fresh(place.v), cfg)
  OBVIOUS
<1>2. PICK r0 : r0 = Run(place.child, Fresh(place.v), ReportMode)
  OBVIOUS
<1>3. Sound(r, cfg) /\ Sound(r0, ReportMode) /\ Agrees(r, r0)
  BY <1>1, <1>2, ModeParts DEF Good, Answers
<1>4. PICK w : w = Visit(l, place, cfg)
  OBVIOUS
<1>5. PICK w0 : w0 = Visit(report, place, ReportMode)
  OBVIOUS
<1>6. SoundLoop(w, cfg) /\ (HasError(w.data.issues) <=> HasError(l.data.issues) \/ HasError(r.issues))
  BY <1>1, <1>3, <1>4, VisitSound DEF Loops
<1>7. /\ SoundLoop(w0, ReportMode)
      /\ HasError(w0.data.issues) <=> HasError(report.data.issues) \/ HasError(r0.issues)
  BY <1>2, <1>3, <1>5, VisitSound, ModeParts DEF Loops
<1>8. HasError(w.data.issues) <=> HasError(w0.data.issues)
  BY <1>3, <1>6, <1>7 DEF Loops, SameLoop, Agrees
<1>9. ASSUME ~ HasError(w.data.issues) PROVE w = w0
  <2>1. l = report /\ r = r0 /\ ~ HasError(r.issues)
    BY <1>3, <1>6, <1>9 DEF Loops, SameLoop, Agrees
  <2>2. Aborts(r.issues, cfg) = FALSE /\ Aborts(r0.issues, ReportMode) = FALSE
    BY <2>1, ModeParts DEF Aborts
  <2>3. QED  BY <1>1, <1>2, <1>4, <1>5, <2>1, <2>2 DEF Visit
<1>10. QED  BY <1>4, <1>5, <1>6, <1>7, <1>8, <1>9 DEF Loops, SameLoop

LEMMA VisitsLoops ==
  ASSUME NEW cfg \in Modes, NEW l, NEW report, Loops(l, report, cfg),
         NEW places, Len(places) \in Nat,
         \A i \in 1 .. Len(places) : Good(places[i].child, Fresh(places[i].v))
  PROVE  Loops(Visits(l, places, cfg)[Len(places)],
               Visits(report, places, ReportMode)[Len(places)], cfg)
<1>1. PICK f : f = Visits(l, places, cfg)
  OBVIOUS
<1>2. PICK g : g = Visits(report, places, ReportMode)
  OBVIOUS
<1>3. PICK T : T = {n \in 0 .. Len(places) : Loops(f[n], g[n], cfg)}
  OBVIOUS
<1>4. 0 \in T
  <2>1. f[0] = l /\ g[0] = report
    BY <1>1, <1>2, VisitsLoop
  <2>2. QED  BY <1>3, <2>1
<1>5. ASSUME NEW n \in 1 .. Len(places), n - 1 \in T PROVE n \in T
  <2>1. f[n] = Visit(f[n - 1], places[n], cfg) /\ g[n] = Visit(g[n - 1], places[n], ReportMode)
    BY <1>1, <1>2, VisitsLoop
  <2>2. Loops(f[n - 1], g[n - 1], cfg)
    BY <1>3, <1>5
  <2>3. Loops(f[n], g[n], cfg)
    BY <2>1, <2>2, VisitLoops
  <2>4. QED  BY <1>3, <2>3
<1>6. \A n \in 0 .. Len(places) : n \in T
  BY <1>4, <1>5, EveryPrefix
<1>7. Loops(f[Len(places)], g[Len(places)], cfg)
  BY <1>3, <1>6
<1>8. QED  BY <1>1, <1>2, <1>7

LEMMA LeaveAnswers ==
  ASSUME NEW cfg \in Modes, NEW l, NEW report, Loops(l, report, cfg),
         NEW v, NEW v0, l = report => v = v0
  PROVE  Answers(Leave(l, v), Leave(report, v0), cfg)
<1>1. ASSUME NEW mode \in Modes, NEW k, SoundLoop(k, mode), NEW out
      PROVE  Sound(Leave(k, out), mode) /\ Leave(k, out).issues = k.data.issues
  <2>1. CASE k.aborted
    BY <1>1, <2>1 DEF Leave, SoundLoop
  <2>2. CASE ~ k.aborted
    <3>1. k.data = Dataset(k.data.value, k.data.typed, k.data.issues)
          /\ IsIssues(k.data.issues) /\ k.data.typed \in BOOLEAN
      BY <1>1, DatasetParts DEF SoundLoop, Sound
    <3>2. PICK d : d = k.data
      OBVIOUS
    <3>3. PICK e : e = [d EXCEPT !.value = out]
      OBVIOUS
    <3>4. e = Dataset(out, d.typed, d.issues)
      BY <3>1, <3>2, <3>3 DEF Dataset
    <3>5. IsDataset(e) /\ e.typed = d.typed /\ e.issues = d.issues
      BY <3>1, <3>2, <3>4, DatasetOf
    <3>6. Sound(e, mode)
      BY <1>1, <3>2, <3>5 DEF SoundLoop, Sound
    <3>7. Leave(k, out) = e
      BY <2>2, <3>2, <3>3 DEF Leave
    <3>8. QED  BY <3>2, <3>5, <3>6, <3>7
  <2>3. QED  BY <2>1, <2>2
<1>2. /\ Sound(Leave(l, v), cfg) /\ Leave(l, v).issues = l.data.issues
      /\ Leave(report, v0).issues = report.data.issues
  BY <1>1, ModeParts DEF Loops
<1>3. QED  BY <1>2 DEF Loops, SameLoop, Answers, Agrees

(* Undeclared keys: only a strict object has an issue for them.            *)
Declared(s, property) == \E i \in DOMAIN s.keys : s.keys[i] = property[1]
Refused(s, property) == ~ Declared(s, property) /\ s.rest # "passthrough"

LEMMA RestKeySound ==
  ASSUME NEW cfg \in Modes, NEW l, SoundLoop(l, cfg), NEW s, NEW property
  PROVE  /\ SoundLoop(ApplyRestKey(l, s, property, cfg), cfg)
         /\ HasError(ApplyRestKey(l, s, property, cfg).data.issues) <=>
              HasError(l.data.issues) \/ Refused(s, property)
<1>1. PICK w : w = ApplyRestKey(l, s, property, cfg)
  OBVIOUS
<1>2. CASE l.aborted \/ Declared(s, property)
  <2>1. w = l
    BY <1>1, <1>2 DEF ApplyRestKey, Declared
  <2>2. l.aborted => HasError(l.data.issues)
    BY DEF SoundLoop, Aborts
  <2>3. QED  BY <1>1, <1>2, <2>1, <2>2 DEF Refused
<1>3. CASE ~ l.aborted /\ ~ Declared(s, property) /\ s.rest = "passthrough"
  <2>1. PICK o : o = Assign(l.out, property[1], property[2])
    OBVIOUS
  <2>2. PICK k : k = [l EXCEPT !.out = o]
    OBVIOUS
  <2>3. w = k
    BY <1>1, <1>3, <2>1, <2>2 DEF ApplyRestKey, Declared
  <2>4. k = LoopOf(l.data, o, l.aborted)
    BY <2>2 DEF SoundLoop, LoopOf
  <2>5. k.data = l.data /\ k.out = o /\ k.aborted = l.aborted
    BY <2>4 DEF LoopOf
  <2>6. QED  BY <1>1, <1>3, <2>3, <2>4, <2>5 DEF SoundLoop, Refused
<1>4. CASE ~ l.aborted /\ Refused(s, property)
  <2>1. PICK q : q = <<property[1]>>
    OBVIOUS
  <2>2. PICK issue : issue = Issue("schema", "object", l.data.value, "error", s.message, q)
    OBVIOUS
  <2>3. PICK e : e = AddIssue(l.data, "schema", "object", s.message, q)
    OBVIOUS
  <2>4. PICK k : k = [l EXCEPT !.data = e, !.aborted = cfg.reject]
    OBVIOUS
  <2>5. w = k
    BY <1>1, <1>4, <2>1, <2>3, <2>4 DEF ApplyRestKey, Declared, Refused
  <2>6. k = LoopOf(e, l.out, cfg.reject)
    BY <2>4 DEF SoundLoop, LoopOf
  <2>7. k.data = e /\ k.out = l.out /\ k.aborted = cfg.reject
    BY <2>6 DEF LoopOf
  <2>8. IsDataset(l.data) /\ IsIssues(l.data.issues) /\ l.data.typed \in BOOLEAN
    BY DatasetParts DEF SoundLoop, Sound
  <2>9. IsIssues(<<issue>>) /\ StopsAtFirst(<<issue>>) /\ HasError(<<issue>>)
    BY <2>2, IssueIsIssue, OneIssue
  <2>10. PICK u : u = l.data.issues \o <<issue>>
    OBVIOUS
  <2>11. /\ IsIssues(u) /\ HasError(u)
         /\ ~ HasError(l.data.issues) => StopsAtFirst(u)
    BY <2>8, <2>9, <2>10, IssuesConcat
  <2>12. PICK t \in BOOLEAN : t = (l.data.typed /\ "schema" # "schema")
    OBVIOUS
  <2>13. e = Dataset(l.data.value, t, u)
    BY <2>2, <2>3, <2>8, <2>10, <2>12, AddIssueParts
  <2>14. IsDataset(e) /\ e.issues = u
    BY <2>11, <2>13, DatasetOf
  <2>15. cfg.reject \in BOOLEAN /\ (cfg.reject => ~ HasError(l.data.issues))
    BY <1>4, ModeParts DEF SoundLoop, Aborts
  <2>16. Sound(e, cfg) /\ Aborts(e.issues, cfg) = cfg.reject
    BY <2>11, <2>14, <2>15 DEF Sound, Aborts
  <2>17. SoundLoop(k, cfg)
    BY <2>6, <2>7, <2>16 DEF SoundLoop
  <2>18. QED  BY <1>1, <1>4, <2>5, <2>7, <2>11, <2>14, <2>17
<1>5. QED  BY <1>2, <1>3, <1>4 DEF Refused

LEMMA RestKeyLoops ==
  ASSUME NEW cfg \in Modes, NEW l, NEW report, Loops(l, report, cfg), NEW s, NEW property
  PROVE  Loops(ApplyRestKey(l, s, property, cfg), ApplyRestKey(report, s, property, ReportMode), cfg)
<1>1. PICK w : w = ApplyRestKey(l, s, property, cfg)
  OBVIOUS
<1>2. PICK w0 : w0 = ApplyRestKey(report, s, property, ReportMode)
  OBVIOUS
<1>3. /\ SoundLoop(w, cfg)
      /\ HasError(w.data.issues) <=> HasError(l.data.issues) \/ Refused(s, property)
  BY <1>1, RestKeySound DEF Loops
<1>4. /\ SoundLoop(w0, ReportMode)
      /\ HasError(w0.data.issues) <=> HasError(report.data.issues) \/ Refused(s, property)
  BY <1>2, RestKeySound, ModeParts DEF Loops
<1>5. HasError(w.data.issues) <=> HasError(w0.data.issues)
  BY <1>3, <1>4 DEF Loops, SameLoop
<1>6. ASSUME ~ HasError(w.data.issues) PROVE w = w0
  <2>1. l = report /\ ~ Refused(s, property)
    BY <1>3, <1>6 DEF Loops, SameLoop
  <2>2. QED  BY <1>1, <1>2, <2>1 DEF ApplyRestKey, Refused, Declared
<1>7. QED  BY <1>1, <1>2, <1>3, <1>4, <1>5, <1>6 DEF Loops, SameLoop

LEMMA RestLoops ==
  ASSUME NEW cfg \in Modes, NEW l, NEW report, Loops(l, report, cfg), NEW s,
         NEW own, Len(own) \in Nat
  PROVE  Loops(ApplyRest(l, s, own, cfg), ApplyRest(report, s, own, ReportMode), cfg)
<1>1. PICK f : f = RestVisits(l, s, own, cfg)
  OBVIOUS
<1>2. PICK g : g = RestVisits(report, s, own, ReportMode)
  OBVIOUS
<1>3. PICK T : T = {n \in 0 .. Len(own) : Loops(f[n], g[n], cfg)}
  OBVIOUS
<1>4. 0 \in T
  <2>1. f[0] = l /\ g[0] = report
    BY <1>1, <1>2, RestVisitsLoop
  <2>2. QED  BY <1>3, <2>1
<1>5. ASSUME NEW n \in 1 .. Len(own), n - 1 \in T PROVE n \in T
  <2>1. /\ f[n] = ApplyRestKey(f[n - 1], s, own[n], cfg)
        /\ g[n] = ApplyRestKey(g[n - 1], s, own[n], ReportMode)
    BY <1>1, <1>2, RestVisitsLoop
  <2>2. Loops(f[n - 1], g[n - 1], cfg)
    BY <1>3, <1>5
  <2>3. Loops(f[n], g[n], cfg)
    BY <2>1, <2>2, RestKeyLoops
  <2>4. QED  BY <1>3, <2>3
<1>6. \A n \in 0 .. Len(own) : n \in T
  BY <1>4, <1>5, EveryPrefix
<1>7. PICK w : w = f[Len(own)]
  OBVIOUS
<1>8. PICK w0 : w0 = g[Len(own)]
  OBVIOUS
<1>9. Loops(w, w0, cfg)
  BY <1>3, <1>6, <1>7, <1>8
<1>10. /\ SoundLoop(w, cfg) /\ SoundLoop(l, cfg)
       /\ SoundLoop(report, ReportMode)
  BY <1>9 DEF Loops
<1>11. ~ report.aborted
  BY <1>10, ModeParts DEF SoundLoop, Aborts
<1>12. CASE s.rest = "strip"
  BY <1>12 DEF ApplyRest
<1>13. CASE s.rest # "strip" /\ ~ l.aborted
  <2>1. ApplyRest(l, s, own, cfg) = w /\ ApplyRest(report, s, own, ReportMode) = w0
    BY <1>1, <1>2, <1>7, <1>8, <1>11, <1>13 DEF ApplyRest
  <2>2. QED  BY <1>9, <2>1
<1>14. CASE s.rest # "strip" /\ l.aborted
  <2>1. ApplyRest(l, s, own, cfg) = l /\ ApplyRest(report, s, own, ReportMode) = w0
    BY <1>2, <1>8, <1>11, <1>14 DEF ApplyRest
  <2>2. PICK U : U = {n \in 0 .. Len(own) : HasError(g[n].data.issues)}
    OBVIOUS
  <2>3. HasError(l.data.issues) /\ HasError(report.data.issues)
    BY <1>14, <1>10 DEF SoundLoop, Aborts, Loops, SameLoop
  <2>4. g[0] = report
    BY <1>2, RestVisitsLoop
  <2>5. 0 \in U
    BY <2>2, <2>3, <2>4
  <2>6. ASSUME NEW n \in 1 .. Len(own), n - 1 \in U PROVE n \in U
    <3>1. g[n] = ApplyRestKey(g[n - 1], s, own[n], ReportMode)
      BY <1>2, RestVisitsLoop
    <3>2. n - 1 \in 0 .. Len(own)
      OBVIOUS
    <3>3. SoundLoop(g[n - 1], ReportMode)
      BY <1>3, <1>6, <3>2 DEF Loops
    <3>4. HasError(g[n].data.issues)
      BY <2>2, <2>6, <3>1, <3>3, RestKeySound, ModeParts
    <3>5. QED  BY <2>2, <3>4
  <2>7. \A n \in 0 .. Len(own) : n \in U
    BY <2>5, <2>6, EveryPrefix
  <2>8. HasError(w0.data.issues)
    BY <1>8, <2>2, <2>7
  <2>9. Loops(l, w0, cfg)
    BY <1>9, <1>10, <2>3, <2>8 DEF Loops, SameLoop
  <2>10. QED  BY <2>1, <2>9
<1>15. QED  BY <1>12, <1>13, <1>14

(* A record checks the key, then the value.                                *)
LEMMA VisitRecordSound ==
  ASSUME NEW cfg \in Modes, NEW l, SoundLoop(l, cfg), NEW s, NEW property,
         Sound(Run(s.key, Fresh(Name(property)), cfg), cfg),
         Sound(Run(s.item, Fresh(property[2]), cfg), cfg)
  PROVE  /\ SoundLoop(VisitRecord(l, s, property, cfg), cfg)
         /\ HasError(VisitRecord(l, s, property, cfg).data.issues) <=>
              \/ HasError(l.data.issues)
              \/ HasError(Run(s.key, Fresh(Name(property)), cfg).issues)
              \/ HasError(Run(s.item, Fresh(property[2]), cfg).issues)
<1>1. cfg.reject \in BOOLEAN
  BY ModeParts
<1>2. PICK k : k = Run(s.key, Fresh(Name(property)), cfg)
  OBVIOUS
<1>3. PICK r : r = Run(s.item, Fresh(property[2]), cfg)
  OBVIOUS
<1>4. PICK stop \in BOOLEAN : stop = Aborts(k.issues, cfg)
  BY <1>1, AbortsIsBoolean
<1>5. PICK stopped \in BOOLEAN : stopped = Aborts(r.issues, cfg)
  BY <1>1, AbortsIsBoolean
<1>6. PICK d : d = l.data
  OBVIOUS
<1>7. PICK q : q = d.issues \o Under(property[1], k.issues)
  OBVIOUS
<1>8. PICK t \in BOOLEAN : t = (d.typed /\ ~ HasError(k.issues))
  OBVIOUS
<1>9. PICK keyed : keyed = [l EXCEPT !.data.issues = q, !.data.typed = t, !.aborted = stop]
  OBVIOUS
<1>10. /\ l = LoopOf(d, l.out, l.aborted) /\ d = Dataset(d.value, d.typed, d.issues)
       /\ d.typed \in BOOLEAN
  BY <1>6, DatasetParts DEF SoundLoop, Sound
<1>11. keyed = LoopOf(Dataset(d.value, t, q), l.out, stop)
  <2>1. PICK v, typed, issues, o, a :
          v = d.value /\ typed = d.typed /\ issues = d.issues /\ o = l.out /\ a = l.aborted
    OBVIOUS
  <2>2. l = [data |-> [value |-> v, typed |-> typed, issues |-> issues], out |-> o, aborted |-> a]
    BY <1>10, <2>1 DEF LoopOf, Dataset
  <2>3. keyed = [data |-> [value |-> v, typed |-> t, issues |-> q], out |-> o, aborted |-> stop]
    BY <1>9, <2>2
  <2>4. QED  BY <2>1, <2>3 DEF LoopOf, Dataset
<1>12. keyed.data = Dataset(d.value, t, q) /\ keyed.out = l.out /\ keyed.aborted = stop
  BY <1>11 DEF LoopOf
<1>13. PICK w : w = VisitRecord(l, s, property, cfg)
  OBVIOUS
<1>14. CASE l.aborted
  <2>1. w = l
    BY <1>13, <1>14 DEF VisitRecord
  <2>2. HasError(l.data.issues)
    BY <1>14 DEF SoundLoop, Aborts
  <2>3. QED  BY <1>13, <2>1, <2>2
<1>15. CASE ~ l.aborted
  <2>1. ~ Aborts(d.issues, cfg)
    BY <1>6, <1>15 DEF SoundLoop
  <2>2. PICK e \in BOOLEAN : e = ~ HasError(k.issues)
    OBVIOUS
  <2>3. PICK named : named = Dataset(k.value, e, k.issues)
    OBVIOUS
  <2>4. IsDataset(named) /\ named.typed = e /\ named.issues = k.issues
    <3>1. IsIssues(k.issues)
      BY <1>2, DatasetParts DEF Sound
    <3>2. QED  BY <2>3, <3>1, DatasetOf
  <2>5. Sound(named, cfg)
    BY <1>2, <2>2, <2>4 DEF Sound
  <2>6. PICK c : c = Collect(d, property[1], named, stop)
    OBVIOUS
  <2>7. /\ c = Dataset(d.value, d.typed /\ e /\ ~ stop, q)
        /\ Sound(c, cfg)
        /\ HasError(c.issues) <=> HasError(d.issues) \/ HasError(k.issues)
        /\ Aborts(c.issues, cfg) = stop
    <3>1. Sound(d, cfg) /\ stop = Aborts(named.issues, cfg)
      BY <1>4, <1>6, <2>4 DEF SoundLoop
    <3>2. /\ c = Dataset(d.value, d.typed /\ named.typed /\ ~ stop,
                         d.issues \o Under(property[1], named.issues))
          /\ Sound(c, cfg)
          /\ HasError(c.issues) <=> HasError(d.issues) \/ HasError(named.issues)
          /\ Aborts(c.issues, cfg) = stop
      BY <1>1, <2>1, <2>5, <2>6, <3>1, CollectParts
    <3>3. QED  BY <1>7, <2>4, <3>2
  <2>8. (d.typed /\ e /\ ~ stop) = t
    BY <1>4, <1>8, <2>2, <1>10 DEF Aborts
  <2>9. keyed.data = c
    BY <1>12, <2>7, <2>8
  <2>10. CASE stop
    <3>1. w = keyed
      BY <1>2, <1>4, <1>6, <1>7, <1>8, <1>9, <1>13, <1>15, <2>10 DEF VisitRecord
    <3>2. HasError(k.issues)
      BY <1>4, <2>10 DEF Aborts
    <3>3. SoundLoop(w, cfg)
      BY <1>11, <1>12, <2>7, <2>9, <3>1 DEF SoundLoop
    <3>4. QED  BY <1>2, <1>13, <2>7, <2>9, <3>1, <3>2, <3>3
  <2>11. CASE ~ stop
    <3>1. PICK b : b = Collect(keyed.data, property[1], r, stopped)
      OBVIOUS
    <3>2. PICK o : o = IF stopped THEN l.out ELSE Assign(l.out, k.value.token, r.value)
      OBVIOUS
    <3>3. w = LoopOf(b, o, stopped)
      BY <1>2, <1>3, <1>4, <1>5, <1>6, <1>7, <1>8, <1>9, <1>13, <1>15, <2>11, <3>1, <3>2
      DEF VisitRecord, LoopOf
    <3>4. /\ Sound(b, cfg) /\ (HasError(b.issues) <=> HasError(c.issues) \/ HasError(r.issues))
          /\ Aborts(b.issues, cfg) = stopped
      BY <1>1, <1>3, <1>5, <2>7, <2>9, <2>11, <3>1, CollectParts
    <3>5. w.data = b /\ w.aborted = stopped /\ w.out = o
      BY <3>3 DEF LoopOf
    <3>6. SoundLoop(w, cfg)
      BY <3>3, <3>4, <3>5 DEF SoundLoop
    <3>7. QED  BY <1>2, <1>3, <1>6, <1>13, <2>7, <3>4, <3>5, <3>6
  <2>12. QED  BY <2>10, <2>11
<1>16. QED  BY <1>14, <1>15

LEMMA VisitRecordLoops ==
  ASSUME NEW cfg \in Modes, NEW l, NEW report, Loops(l, report, cfg), NEW s, NEW property,
         Good(s.key, Fresh(Name(property))), Good(s.item, Fresh(property[2]))
  PROVE  Loops(VisitRecord(l, s, property, cfg), VisitRecord(report, s, property, ReportMode), cfg)
<1>1. PICK k, k0 : /\ k = Run(s.key, Fresh(Name(property)), cfg)
                   /\ k0 = Run(s.key, Fresh(Name(property)), ReportMode)
  OBVIOUS
<1>2. PICK r, r0 : /\ r = Run(s.item, Fresh(property[2]), cfg)
                   /\ r0 = Run(s.item, Fresh(property[2]), ReportMode)
  OBVIOUS
<1>3. Sound(k, cfg) /\ Sound(k0, ReportMode) /\ Agrees(k, k0)
  BY <1>1, ModeParts DEF Good, Answers
<1>4. Sound(r, cfg) /\ Sound(r0, ReportMode) /\ Agrees(r, r0)
  BY <1>2, ModeParts DEF Good, Answers
<1>5. PICK w, w0 : /\ w = VisitRecord(l, s, property, cfg)
                   /\ w0 = VisitRecord(report, s, property, ReportMode)
  OBVIOUS
<1>6. /\ SoundLoop(w, cfg)
      /\ HasError(w.data.issues) <=> HasError(l.data.issues) \/ HasError(k.issues) \/ HasError(r.issues)
  BY <1>1, <1>2, <1>3, <1>4, <1>5, VisitRecordSound DEF Loops
<1>7. /\ SoundLoop(w0, ReportMode)
      /\ HasError(w0.data.issues) <=>
           HasError(report.data.issues) \/ HasError(k0.issues) \/ HasError(r0.issues)
  BY <1>1, <1>2, <1>3, <1>4, <1>5, VisitRecordSound, ModeParts DEF Loops
<1>8. HasError(w.data.issues) <=> HasError(w0.data.issues)
  BY <1>3, <1>4, <1>6, <1>7 DEF Loops, SameLoop, Agrees
<1>9. ASSUME ~ HasError(w.data.issues) PROVE w = w0
  <2>1. l = report /\ k = k0 /\ r = r0 /\ ~ HasError(k.issues) /\ ~ HasError(r.issues)
    BY <1>3, <1>4, <1>6, <1>9 DEF Loops, SameLoop, Agrees
  <2>2. /\ Aborts(k.issues, cfg) = FALSE /\ Aborts(k0.issues, ReportMode) = FALSE
        /\ Aborts(r.issues, cfg) = FALSE /\ Aborts(r0.issues, ReportMode) = FALSE
    BY <2>1, ModeParts DEF Aborts
  <2>3. QED  BY <1>1, <1>2, <1>5, <2>1, <2>2 DEF VisitRecord
<1>10. QED  BY <1>5, <1>6, <1>7, <1>8, <1>9 DEF Loops, SameLoop

LEMMA RecordVisitsLoops ==
  ASSUME NEW cfg \in Modes, NEW l, NEW report, Loops(l, report, cfg),
         NEW s, NEW own, Len(own) \in Nat,
         \A i \in 1 .. Len(own) : Good(s.key, Fresh(Name(own[i]))) /\ Good(s.item, Fresh(own[i][2]))
  PROVE  Loops(RecordVisits(l, s, own, cfg)[Len(own)],
               RecordVisits(report, s, own, ReportMode)[Len(own)], cfg)
<1>1. PICK f : f = RecordVisits(l, s, own, cfg)
  OBVIOUS
<1>2. PICK g : g = RecordVisits(report, s, own, ReportMode)
  OBVIOUS
<1>3. PICK T : T = {n \in 0 .. Len(own) : Loops(f[n], g[n], cfg)}
  OBVIOUS
<1>4. 0 \in T
  <2>1. f[0] = l /\ g[0] = report
    BY <1>1, <1>2, RecordVisitsLoop
  <2>2. QED  BY <1>3, <2>1
<1>5. ASSUME NEW n \in 1 .. Len(own), n - 1 \in T PROVE n \in T
  <2>1. /\ f[n] = VisitRecord(f[n - 1], s, own[n], cfg)
        /\ g[n] = VisitRecord(g[n - 1], s, own[n], ReportMode)
    BY <1>1, <1>2, RecordVisitsLoop
  <2>2. Loops(f[n - 1], g[n - 1], cfg)
    BY <1>3, <1>5
  <2>3. Loops(f[n], g[n], cfg)
    BY <2>1, <2>2, VisitRecordLoops
  <2>4. QED  BY <1>3, <2>3
<1>6. \A n \in 0 .. Len(own) : n \in T
  BY <1>4, <1>5, EveryPrefix
<1>7. Loops(f[Len(own)], g[Len(own)], cfg)
  BY <1>3, <1>6
<1>8. QED  BY <1>1, <1>2, <1>7

-----------------------------------------------------------------------------
(* The containers                                                          *)

LEMMA FunctionList ==
  ASSUME NEW n \in Nat, NEW f, f = [i \in 1 .. n |-> f[i]]
  PROVE  IsList(f) /\ Len(f) = n /\ DOMAIN f = 1 .. n
<1>1. f \in Seq(Range(f))
  BY DEF Range
<1>2. Len(f) = n
  OBVIOUS
<1>3. QED  BY <1>1, <1>2 DEF IsList

LEMMA GoodPlaces ==
  ASSUME NEW places, IsList(places),
         \A x \in Range(Children(places)) : Good(x[1], x[2])
  PROVE  \A i \in 1 .. Len(places) : Good(places[i].child, Fresh(places[i].v))
<1>1. DOMAIN places = 1 .. Len(places)
  BY ListDomain
<1>2. SUFFICES ASSUME NEW i \in 1 .. Len(places)
               PROVE  Good(places[i].child, Fresh(places[i].v))
  OBVIOUS
<1>3. PICK x : x = <<places[i].child, Fresh(places[i].v)>>
  OBVIOUS
<1>4. Children(places)[i] = x /\ i \in DOMAIN Children(places)
  BY <1>1, <1>3 DEF Children
<1>5. x \in Range(Children(places))
  BY <1>4 DEF Range
<1>6. QED  BY <1>3, <1>5

LEMMA KeyPlacesList ==
  ASSUME NEW s, IsList(s.keys), NEW own
  PROVE  IsList(KeyPlaces(s, own))
<1>1. Len(s.keys) \in Nat /\ DOMAIN s.keys = 1 .. Len(s.keys)
  BY ListDomain
<1>2. PICK p : p = KeyPlaces(s, own)
  OBVIOUS
<1>3. p = [i \in 1 .. Len(s.keys) |-> p[i]]
  BY <1>1, <1>2 DEF KeyPlaces
<1>4. QED  BY <1>1, <1>2, <1>3, FunctionList

LEMMA ItemPlacesList ==
  ASSUME NEW kids, NEW items, IsList(items)
  PROVE  IsList(ItemPlaces(kids, items))
<1>1. Len(items) \in Nat /\ DOMAIN items = 1 .. Len(items)
  BY ListDomain
<1>2. PICK p : p = ItemPlaces(kids, items)
  OBVIOUS
<1>3. p = [i \in 1 .. Len(items) |-> p[i]]
  BY <1>1, <1>2 DEF ItemPlaces
<1>4. QED  BY <1>1, <1>2, <1>3, FunctionList

LEMMA ObjectAnswers ==
  ASSUME NEW s, NEW d, IsClean(d), IsValue(d.value), IsList(s.keys), NEW cfg \in Modes,
         IsObject(d.value) =>
           \A x \in Range(Children(KeyPlaces(s, d.value.own))) : Good(x[1], x[2])
  PROVE  Answers(RunObject(s, d, cfg), RunObject(s, d, ReportMode), cfg)
<1>1. CASE ~ IsObject(d.value)
  BY <1>1, MismatchSettled, SettledAnswers DEF RunObject
<1>2. CASE IsObject(d.value)
  <2>1. PICK own : own = d.value.own
    OBVIOUS
  <2>2. PICK p : p = KeyPlaces(s, own)
    OBVIOUS
  <2>3. IsList(own) /\ Len(own) \in Nat /\ IsList(p) /\ Len(p) \in Nat
    BY <1>2, <2>1, <2>2, ListDomain, KeyPlacesList DEF IsValue
  <2>4. \A i \in 1 .. Len(p) : Good(p[i].child, Fresh(p[i].v))
    BY <1>2, <2>1, <2>2, <2>3, GoodPlaces
  <2>5. PICK w, w0 : /\ w = Visits(Enter(d), p, cfg)[Len(p)]
                     /\ w0 = Visits(Enter(d), p, ReportMode)[Len(p)]
    OBVIOUS
  <2>6. Loops(w, w0, cfg)
    BY <2>3, <2>4, <2>5, EnterLoops, VisitsLoops
  <2>7. PICK e, e0 : e = ApplyRest(w, s, own, cfg) /\ e0 = ApplyRest(w0, s, own, ReportMode)
    OBVIOUS
  <2>8. Loops(e, e0, cfg)
    BY <2>3, <2>6, <2>7, RestLoops
  <2>9. PICK v, v0 : v = [type |-> "object", own |-> e.out] /\ v0 = [type |-> "object", own |-> e0.out]
    OBVIOUS
  <2>10. Answers(Leave(e, v), Leave(e0, v0), cfg)
    BY <2>8, <2>9, LeaveAnswers
  <2>11. RunObject(s, d, cfg) = Leave(e, v) /\ RunObject(s, d, ReportMode) = Leave(e0, v0)
    BY <1>2, <2>1, <2>2, <2>5, <2>7, <2>9 DEF RunObject
  <2>12. QED  BY <2>10, <2>11
<1>3. QED  BY <1>1, <1>2

LEMMA ItemsAnswers ==
  ASSUME NEW kids, NEW d, IsClean(d), IsList(d.value.items), NEW cfg \in Modes,
         \A x \in Range(Children(ItemPlaces(kids, d.value.items))) : Good(x[1], x[2])
  PROVE  Answers(RunItems(kids, d, cfg), RunItems(kids, d, ReportMode), cfg)
<1>1. PICK p : p = ItemPlaces(kids, d.value.items)
  OBVIOUS
<1>2. IsList(p) /\ Len(p) \in Nat
  BY <1>1, ItemPlacesList, ListDomain
<1>3. \A i \in 1 .. Len(p) : Good(p[i].child, Fresh(p[i].v))
  BY <1>1, <1>2, GoodPlaces
<1>4. PICK w, w0 : /\ w = Visits(Enter(d), p, cfg)[Len(p)]
                   /\ w0 = Visits(Enter(d), p, ReportMode)[Len(p)]
  OBVIOUS
<1>5. Loops(w, w0, cfg)
  BY <1>2, <1>3, <1>4, EnterLoops, VisitsLoops
<1>6. PICK v, v0 : v = Items(w.out) /\ v0 = Items(w0.out)
  OBVIOUS
<1>7. Answers(Leave(w, v), Leave(w0, v0), cfg)
  BY <1>5, <1>6, LeaveAnswers
<1>8. RunItems(kids, d, cfg) = Leave(w, v) /\ RunItems(kids, d, ReportMode) = Leave(w0, v0)
  BY <1>1, <1>4, <1>6 DEF RunItems
<1>9. QED  BY <1>7, <1>8

LEMMA ArrayAnswers ==
  ASSUME NEW s, NEW d, IsClean(d), IsValue(d.value), NEW cfg \in Modes,
         IsArray(d.value) =>
           \A x \in Range(Children(ArrayPlaces(s, d.value.items))) : Good(x[1], x[2])
  PROVE  Answers(RunArray(s, d, cfg), RunArray(s, d, ReportMode), cfg)
<1>1. CASE ~ IsArray(d.value)
  BY <1>1, MismatchSettled, SettledAnswers DEF RunArray
<1>2. CASE IsArray(d.value)
  <2>1. PICK kids : kids = SameItem(s, d.value.items)
    OBVIOUS
  <2>2. \A x \in Range(Children(ItemPlaces(kids, d.value.items))) : Good(x[1], x[2])
    BY <1>2, <2>1 DEF ArrayPlaces
  <2>3. Answers(RunItems(kids, d, cfg), RunItems(kids, d, ReportMode), cfg)
    BY <1>2, <2>2, ItemsAnswers DEF IsValue
  <2>4. QED  BY <1>2, <2>1, <2>3 DEF RunArray
<1>3. QED  BY <1>1, <1>2

LEMMA TupleAnswers ==
  ASSUME NEW s, NEW d, IsClean(d), IsValue(d.value), NEW cfg \in Modes,
         IsTupleOf(s, d.value) =>
           \A x \in Range(Children(ItemPlaces(s.kids, d.value.items))) : Good(x[1], x[2])
  PROVE  Answers(RunTuple(s, d, cfg), RunTuple(s, d, ReportMode), cfg)
<1>1. CASE ~ IsTupleOf(s, d.value)
  BY <1>1, MismatchSettled, SettledAnswers DEF RunTuple
<1>2. CASE IsTupleOf(s, d.value)
  <2>1. Answers(RunItems(s.kids, d, cfg), RunItems(s.kids, d, ReportMode), cfg)
    BY <1>2, ItemsAnswers DEF IsValue, IsTupleOf
  <2>2. QED  BY <1>2, <2>1 DEF RunTuple
<1>3. QED  BY <1>1, <1>2

LEMMA RecordAnswers ==
  ASSUME NEW s, NEW d, IsClean(d), IsValue(d.value), NEW cfg \in Modes,
         IsObject(d.value) =>
           \A i \in 1 .. Len(d.value.own) : /\ Good(s.key, Fresh(Name(d.value.own[i])))
                                            /\ Good(s.item, Fresh(d.value.own[i][2]))
  PROVE  Answers(RunRecord(s, d, cfg), RunRecord(s, d, ReportMode), cfg)
<1>1. CASE ~ IsObject(d.value)
  BY <1>1, MismatchSettled, SettledAnswers DEF RunRecord
<1>2. CASE IsObject(d.value)
  <2>1. PICK own : own = d.value.own
    OBVIOUS
  <2>2. Len(own) \in Nat
    BY <1>2, <2>1, ListDomain DEF IsValue
  <2>3. PICK w, w0 : /\ w = RecordVisits(Enter(d), s, own, cfg)[Len(own)]
                     /\ w0 = RecordVisits(Enter(d), s, own, ReportMode)[Len(own)]
    OBVIOUS
  <2>4. Loops(w, w0, cfg)
    BY <1>2, <2>1, <2>2, <2>3, EnterLoops, RecordVisitsLoops
  <2>5. PICK v, v0 : v = [type |-> "object", own |-> w.out] /\ v0 = [type |-> "object", own |-> w0.out]
    OBVIOUS
  <2>6. Answers(Leave(w, v), Leave(w0, v0), cfg)
    BY <2>4, <2>5, LeaveAnswers
  <2>7. RunRecord(s, d, cfg) = Leave(w, v) /\ RunRecord(s, d, ReportMode) = Leave(w0, v0)
    BY <1>2, <2>1, <2>3, <2>5 DEF RunRecord
  <2>8. QED  BY <2>6, <2>7
<1>3. QED  BY <1>1, <1>2

-----------------------------------------------------------------------------
(* Alternatives                                                            *)

LEMMA UnionAnswers ==
  ASSUME NEW s, NEW d, IsClean(d), IsList(s.kids), NEW cfg \in Modes,
         \A i \in 1 .. Len(s.kids) : Good(s.kids[i], Fresh(d.value))
  PROVE  Answers(RunUnion(s, d, cfg), RunUnion(s, d, ReportMode), cfg)
<1>1. Len(s.kids) \in Nat /\ DOMAIN s.kids = 1 .. Len(s.kids)
  BY ListDomain
<1>2. PICK r : r = [i \in DOMAIN s.kids |-> Run(s.kids[i], Fresh(d.value), cfg)]
  OBVIOUS
<1>3. PICK r0 : r0 = [i \in DOMAIN s.kids |-> Run(s.kids[i], Fresh(d.value), ReportMode)]
  OBVIOUS
<1>4. \A i \in 1 .. Len(s.kids) : Sound(r[i], cfg) /\ Agrees(r[i], r0[i])
  BY <1>1, <1>2, <1>3 DEF Good, Answers
<1>5. PICK m : m = Matching(r)
  OBVIOUS
<1>6. PICK m0 : m0 = Matching(r0)
  OBVIOUS
<1>7. DOMAIN r = 1 .. Len(s.kids) /\ DOMAIN r0 = 1 .. Len(s.kids)
  BY <1>1, <1>2, <1>3
<1>8. \A i \in 1 .. Len(s.kids) : Matches(r[i]) <=> Matches(r0[i])
  BY <1>4 DEF Matches, Agrees
<1>9. m = m0 /\ m = {i \in 1 .. Len(s.kids) : Matches(r[i])}
  BY <1>5, <1>6, <1>7, <1>8 DEF Matching
<1>10. CASE m = {}
  <2>1. RunUnion(s, d, cfg) = Mismatch(d, s)
    BY <1>2, <1>5, <1>10 DEF RunUnion
  <2>2. RunUnion(s, d, ReportMode) = Mismatch(d, s)
    BY <1>3, <1>6, <1>9, <1>10 DEF RunUnion
  <2>3. QED  BY <2>1, <2>2, MismatchSettled, SettledAnswers
<1>11. CASE m # {}
  <2>1. PICK j : j = CHOOSE i \in m : \A n \in m : i <= n
    OBVIOUS
  <2>2. m \in SUBSET Nat
    BY <1>1, <1>9
  <2>3. j \in m
    BY <1>11, <2>1, <2>2, LeastNatural
  <2>4. j \in 1 .. Len(s.kids) /\ Matches(r[j])
    BY <1>9, <2>3
  <2>5. PICK first : first = r[j]
    OBVIOUS
  <2>6. r0[j] = first /\ IsDataset(first) /\ first.typed /\ ~ HasError(first.issues)
    BY <1>4, <2>4, <2>5 DEF Matches, Agrees, Sound
  <2>7. PICK q : q = IF first.issues = <<>> THEN d.issues ELSE first.issues
    OBVIOUS
  <2>8. IsIssues(q) /\ ~ HasError(q)
    BY <2>6, <2>7, DatasetParts DEF IsClean
  <2>9. PICK e : e = [first EXCEPT !.issues = q]
    OBVIOUS
  <2>10. e = Dataset(first.value, TRUE, q)
    <3>1. first = Dataset(first.value, first.typed, first.issues) /\ first.typed \in BOOLEAN
      BY <2>6, DatasetParts
    <3>2. first.typed = TRUE
      BY <2>6, <3>1
    <3>3. QED  BY <2>9, <3>1, <3>2 DEF Dataset
  <2>11. Answers(e, e, cfg)
    BY <2>8, <2>10, TypedSettled, SettledAnswers
  <2>12. e = [first EXCEPT !.issues = IF @ = <<>> THEN d.issues ELSE @]
    BY <2>7, <2>9
  <2>13. RunUnion(s, d, cfg) = e /\ RunUnion(s, d, ReportMode) = e
    <3>1. FirstMatch(r) = first /\ FirstMatch(r0) = first
      BY <1>5, <1>6, <1>9, <2>1, <2>5, <2>6 DEF FirstMatch
    <3>2. RunUnion(s, d, cfg) = [FirstMatch(r) EXCEPT !.issues = IF @ = <<>> THEN d.issues ELSE @]
      BY <1>2, <1>5, <1>11 DEF RunUnion
    <3>3. RunUnion(s, d, ReportMode) = [FirstMatch(r0) EXCEPT !.issues = IF @ = <<>> THEN d.issues ELSE @]
      BY <1>3, <1>6, <1>9, <1>11 DEF RunUnion
    <3>4. QED  BY <2>12, <3>1, <3>2, <3>3
  <2>14. QED  BY <2>11, <2>13
<1>12. QED  BY <1>10, <1>11

(* The issues of the dataset come before those of the member.              *)
LEMMA DiscriminatedAnswers ==
  ASSUME NEW s, NEW d, IsClean(d), NEW cfg \in Modes,
         IsObject(d.value) /\ Tagged(s, d.value.own) # {} =>
           Good(Member(s, d.value.own), Fresh(d.value))
  PROVE  Answers(RunDiscriminated(s, d, cfg), RunDiscriminated(s, d, ReportMode), cfg)
<1>1. CASE ~ IsObject(d.value) \/ Tagged(s, d.value.own) = {}
  BY <1>1, MismatchSettled, SettledAnswers DEF RunDiscriminated
<1>2. CASE IsObject(d.value) /\ Tagged(s, d.value.own) # {}
  <2>1. PICK r, r0 : /\ r = Run(Member(s, d.value.own), Fresh(d.value), cfg)
                     /\ r0 = Run(Member(s, d.value.own), Fresh(d.value), ReportMode)
    OBVIOUS
  <2>2. Sound(r, cfg) /\ Sound(r0, ReportMode) /\ Agrees(r, r0)
    BY <1>2, <2>1, ModeParts DEF Good, Answers
  <2>3. ASSUME NEW mode \in Modes, NEW x, Sound(x, mode)
        PROVE  /\ Sound([x EXCEPT !.issues = d.issues \o @], mode)
               /\ HasError([x EXCEPT !.issues = d.issues \o @].issues) <=> HasError(x.issues)
    <3>1. /\ x = Dataset(x.value, x.typed, x.issues) /\ x.typed \in BOOLEAN /\ IsIssues(x.issues)
          /\ IsIssues(d.issues) /\ ~ HasError(d.issues)
      BY <2>3, DatasetParts DEF Sound, IsClean
    <3>2. PICK q : q = d.issues \o x.issues
      OBVIOUS
    <3>3. /\ IsIssues(q) /\ (HasError(q) <=> HasError(x.issues))
          /\ StopsAtFirst(x.issues) => StopsAtFirst(q)
      BY <3>1, <3>2, IssuesConcat
    <3>4. PICK e : e = [x EXCEPT !.issues = q]
      OBVIOUS
    <3>5. e = Dataset(x.value, x.typed, q)
      BY <3>1, <3>4 DEF Dataset
    <3>6. IsDataset(e) /\ e.typed = x.typed /\ e.issues = q
      BY <3>1, <3>3, <3>5, DatasetOf
    <3>7. e = [x EXCEPT !.issues = d.issues \o @]
      BY <3>2, <3>4
    <3>8. Sound(e, mode)
      BY <2>3, <3>3, <3>6 DEF Sound
    <3>9. QED  BY <3>3, <3>6, <3>7, <3>8
  <2>4. PICK w, w0 : w = [r EXCEPT !.issues = d.issues \o @] /\ w0 = [r0 EXCEPT !.issues = d.issues \o @]
    OBVIOUS
  <2>5. /\ Sound(w, cfg) /\ (HasError(w.issues) <=> HasError(r.issues))
        /\ HasError(w0.issues) <=> HasError(r0.issues)
    BY <2>2, <2>3, <2>4, ModeParts
  <2>6. Answers(w, w0, cfg)
    BY <2>2, <2>4, <2>5 DEF Answers, Agrees
  <2>7. RunDiscriminated(s, d, cfg) = w /\ RunDiscriminated(s, d, ReportMode) = w0
    BY <1>2, <2>1, <2>4 DEF RunDiscriminated
  <2>8. QED  BY <2>6, <2>7
<1>3. QED  BY <1>1, <1>2

-----------------------------------------------------------------------------
(* Wrappers                                                                *)

LEMMA OptionalAnswers ==
  ASSUME NEW s, NEW d, IsClean(d), NEW cfg \in Modes,
         d.value \notin Absent(s) => Good(s.wrapped, d)
  PROVE  Answers(RunOptional(s, d, cfg), RunOptional(s, d, ReportMode), cfg)
<1>1. CASE d.value \notin Absent(s)
  BY <1>1 DEF RunOptional, Good
<1>2. CASE d.value \in Absent(s)
  <2>1. PICK v : v = IF s.default.given THEN s.default.value ELSE d.value
    OBVIOUS
  <2>2. PICK e : e = [d EXCEPT !.typed = TRUE, !.value = v]
    OBVIOUS
  <2>3. d = Dataset(d.value, d.typed, d.issues) /\ IsIssues(d.issues) /\ ~ HasError(d.issues)
    BY DatasetParts DEF IsClean
  <2>4. e = Dataset(v, TRUE, d.issues)
    BY <2>2, <2>3 DEF Dataset
  <2>5. \A mode \in Modes : RunOptional(s, d, mode) = e
    BY <1>2, <2>1, <2>2 DEF RunOptional
  <2>6. QED  BY <2>3, <2>4, <2>5, TypedSettled, SettledAnswers, ModeParts
<1>3. QED  BY <1>1, <1>2

LEMMA ActsSound ==
  ASSUME NEW op, IsOperation(op), NEW d, IsDataset(d), d.typed \/ HasError(d.issues)
  PROVE  /\ IsDataset(Acts(op, d))
         /\ Acts(op, d).typed \/ HasError(Acts(op, d).issues)
         /\ HasError(d.issues) => HasError(Acts(op, d).issues)
         /\ ~ HasError(d.issues) => StopsAtFirst(Acts(op, d).issues)
<1>1. d = Dataset(d.value, d.typed, d.issues) /\ IsIssues(d.issues) /\ d.typed \in BOOLEAN
  BY DatasetParts
<1>2. ~ HasError(d.issues) => StopsAtFirst(d.issues)
  BY CleanAnswers DEF IsClean
<1>3. PICK w : w = Acts(op, d)
  OBVIOUS
<1>4. CASE w = d
  BY <1>2, <1>3, <1>4
<1>5. CASE op.kind = "check" /\ w # d
  <2>1. w = AddIssue(d, "validation", "check", "none", <<>>) /\ d.typed
    BY <1>3, <1>5 DEF Acts, Check
  <2>2. PICK issue : issue = Issue("validation", "check", d.value, "error", "none", <<>>)
    OBVIOUS
  <2>3. IsIssues(<<issue>>) /\ StopsAtFirst(<<issue>>) /\ HasError(<<issue>>)
    BY <2>2, IssueIsIssue, OneIssue
  <2>4. PICK q : q = d.issues \o <<issue>>
    OBVIOUS
  <2>5. IsIssues(q) /\ HasError(q) /\ (~ HasError(d.issues) => StopsAtFirst(q))
    BY <1>1, <2>3, <2>4, IssuesConcat
  <2>6. PICK t \in BOOLEAN : t = (d.typed /\ "validation" # "schema")
    OBVIOUS
  <2>7. w = Dataset(d.value, t, q)
    BY <2>1, <2>2, <2>4, <2>6, AddIssueParts
  <2>8. IsDataset(w) /\ w.issues = q
    BY <2>5, <2>7, DatasetOf
  <2>9. QED  BY <1>3, <2>5, <2>8
<1>6. CASE op.kind = "transform" /\ w # d
  <2>1. PICK u : u = Reported(op, d, "transform")
    OBVIOUS
  <2>2. IsReporter(op)
    BY <1>6 DEF IsOperation
  <2>3. /\ IsIssues(u) /\ StopsAtFirst(u)
        /\ HasError(u) <=> Fails(op)
    BY <2>1, <2>2, ReportParts
  <2>4. PICK q : q = d.issues \o u
    OBVIOUS
  <2>5. PICK t \in BOOLEAN : t = ~ Fails(op)
    OBVIOUS
  <2>6. PICK v : v = Mapped(op, d.value)
    OBVIOUS
  <2>7. w = Dataset(v, t, q)
    BY <1>3, <1>6, <2>1, <2>4, <2>5, <2>6 DEF Acts, Transform, Dataset
  <2>8. /\ IsIssues(q) /\ (HasError(q) <=> HasError(d.issues) \/ HasError(u))
        /\ ~ HasError(d.issues) => StopsAtFirst(q)
    BY <1>1, <2>3, <2>4, IssuesConcat
  <2>9. IsDataset(w) /\ w.typed = t /\ w.issues = q
    BY <2>7, <2>8, DatasetOf
  <2>10. QED  BY <1>3, <2>3, <2>5, <2>8, <2>9
<1>7. CASE op.kind = "brand"
  BY <1>3, <1>4, <1>7 DEF Acts, Brand
<1>8. QED  BY <1>4, <1>5, <1>6, <1>7 DEF IsOperation

LEMMA ActNextAnswers ==
  ASSUME NEW cfg \in Modes, NEW op, IsOperation(op), NEW d, NEW d0,
         Answers(d, d0, cfg), Sound(d0, ReportMode)
  PROVE  /\ Answers(ActNext(d, op, cfg), ActNext(d0, op, ReportMode), cfg)
         /\ Sound(ActNext(d0, op, ReportMode), ReportMode)
<1>1. ActNext(d0, op, ReportMode) = Acts(op, d0)
  BY ModeParts DEF ActNext, PipeStops
<1>2. /\ Sound(Acts(op, d0), ReportMode)
      /\ HasError(d0.issues) => HasError(Acts(op, d0).issues)
  BY ActsSound, ModeParts DEF Sound
<1>3. CASE PipeStops(d, cfg)
  <2>1. ActNext(d, op, cfg) = d /\ HasError(d.issues) /\ HasError(d0.issues)
    BY <1>3 DEF ActNext, PipeStops, Answers, Agrees
  <2>2. QED  BY <1>1, <1>2, <2>1 DEF Answers, Agrees
<1>4. CASE ~ PipeStops(d, cfg)
  <2>1. ActNext(d, op, cfg) = Acts(op, d)
    BY <1>4 DEF ActNext
  <2>2. cfg.reject => ~ HasError(d.issues)
    BY <1>4 DEF PipeStops
  <2>3. Sound(Acts(op, d), cfg)
    BY <2>2, ActsSound DEF Answers, Sound
  <2>4. Agrees(Acts(op, d), Acts(op, d0))
    <3>1. CASE ~ HasError(d.issues)
      BY <3>1 DEF Answers, Agrees
    <3>2. CASE HasError(d.issues)
      <4>1. HasError(Acts(op, d).issues)
        BY <3>2, ActsSound DEF Answers, Sound
      <4>2. QED  BY <1>2, <3>2, <4>1 DEF Answers, Agrees
    <3>3. QED  BY <3>1, <3>2
  <2>5. QED  BY <1>1, <1>2, <2>1, <2>3, <2>4 DEF Answers
<1>5. QED  BY <1>3, <1>4

LEMMA PipeAnswers ==
  ASSUME NEW s, NEW d, IsList(s.ops), \A i \in DOMAIN s.ops : IsOperation(s.ops[i]),
         NEW cfg \in Modes, Good(s.wrapped, d)
  PROVE  Answers(RunPipe(s, d, cfg), RunPipe(s, d, ReportMode), cfg)
<1>1. Len(s.ops) \in Nat /\ DOMAIN s.ops = 1 .. Len(s.ops)
  BY ListDomain
<1>2. PICK r, r0 : r = Run(s.wrapped, d, cfg) /\ r0 = Run(s.wrapped, d, ReportMode)
  OBVIOUS
<1>3. Answers(r, r0, cfg) /\ Sound(r0, ReportMode)
  BY <1>2, ModeParts DEF Good, Answers
<1>4. PICK f : f = ActsInTurn(r, s.ops, cfg)
  OBVIOUS
<1>5. PICK g : g = ActsInTurn(r0, s.ops, ReportMode)
  OBVIOUS
<1>6. PICK T : T = {n \in 0 .. Len(s.ops) : Answers(f[n], g[n], cfg) /\ Sound(g[n], ReportMode)}
  OBVIOUS
<1>7. 0 \in T
  <2>1. f[0] = r /\ g[0] = r0
    BY <1>1, <1>4, <1>5, ActsInTurnLoop
  <2>2. QED  BY <1>1, <1>3, <1>6, <2>1
<1>8. ASSUME NEW n \in 1 .. Len(s.ops), n - 1 \in T PROVE n \in T
  <2>1. f[n] = ActNext(f[n - 1], s.ops[n], cfg) /\ g[n] = ActNext(g[n - 1], s.ops[n], ReportMode)
    BY <1>1, <1>4, <1>5, ActsInTurnLoop
  <2>2. Answers(f[n - 1], g[n - 1], cfg) /\ Sound(g[n - 1], ReportMode) /\ IsOperation(s.ops[n])
    BY <1>1, <1>6, <1>8
  <2>3. Answers(f[n], g[n], cfg) /\ Sound(g[n], ReportMode)
    BY <2>1, <2>2, ActNextAnswers
  <2>4. QED  BY <1>1, <1>6, <2>3
<1>9. \A n \in 0 .. Len(s.ops) : n \in T
  BY <1>1, <1>7, <1>8, EveryPrefix
<1>10. Answers(f[Len(s.ops)], g[Len(s.ops)], cfg)
  BY <1>1, <1>6, <1>9
<1>11. QED  BY <1>2, <1>4, <1>5, <1>10 DEF RunPipe

LEMMA PreprocessAnswers ==
  ASSUME NEW s, NEW d, IsClean(d), NEW cfg \in Modes, IsReporter(s.op),
         ~ Fails(s.op) => Good(s.wrapped, Preprocessed(s, d))
  PROVE  Answers(RunPreprocess(s, d, cfg), RunPreprocess(s, d, ReportMode), cfg)
<1>1. CASE ~ Fails(s.op)
  BY <1>1 DEF RunPreprocess, Good
<1>2. CASE Fails(s.op)
  <2>1. PICK op : op = s.op
    OBVIOUS
  <2>2. PICK u : u = Reported(op, d, "preprocess")
    OBVIOUS
  <2>3. IsIssues(u) /\ StopsAtFirst(u) /\ HasError(u)
    BY <1>2, <2>1, <2>2, ReportParts
  <2>4. PICK q : q = d.issues \o u
    OBVIOUS
  <2>5. /\ d = Dataset(d.value, d.typed, d.issues) /\ IsIssues(d.issues)
        /\ ~ HasError(d.issues)
    BY DatasetParts DEF IsClean
  <2>6. IsIssues(q) /\ HasError(q) /\ StopsAtFirst(q)
    BY <2>3, <2>4, <2>5, IssuesConcat
  <2>7. PICK t \in BOOLEAN : t = FALSE
    OBVIOUS
  <2>8. PICK e : e = [d EXCEPT !.typed = t, !.issues = q]
    OBVIOUS
  <2>9. e = Dataset(d.value, t, q)
    BY <2>5, <2>8 DEF Dataset
  <2>10. IsDataset(e) /\ e.issues = q
    BY <2>6, <2>9, DatasetOf
  <2>11. IsSettled(e)
    BY <2>6, <2>10 DEF IsSettled
  <2>12. \A mode \in Modes : RunPreprocess(s, d, mode) = e
    BY <1>2, <2>1, <2>2, <2>4, <2>7, <2>8 DEF RunPreprocess
  <2>13. QED  BY <2>11, <2>12, SettledAnswers, ModeParts
<1>3. QED  BY <1>1, <1>2

LEMMA FallbackAnswers ==
  ASSUME NEW s, NEW d, NEW cfg \in Modes, Good(s.wrapped, d)
  PROVE  Answers(RunFallback(s, d, cfg), RunFallback(s, d, ReportMode), cfg)
<1>1. PICK r, r0 : r = Run(s.wrapped, d, cfg) /\ r0 = Run(s.wrapped, d, ReportMode)
  OBVIOUS
<1>2. Answers(r, r0, cfg)
  BY <1>1 DEF Good
<1>3. CASE HasError(r.issues)
  <2>1. PICK e : e = Dataset(s.fallback, TRUE, <<>>)
    OBVIOUS
  <2>2. HasError(r0.issues)
    BY <1>2, <1>3 DEF Answers, Agrees
  <2>3. RunFallback(s, d, cfg) = e /\ RunFallback(s, d, ReportMode) = e
    BY <1>1, <1>3, <2>1, <2>2 DEF RunFallback, Dataset
  <2>4. QED  BY <2>1, <2>3, NoIssues, TypedSettled, SettledAnswers
<1>4. CASE ~ HasError(r.issues)
  <2>1. r0 = r
    BY <1>2, <1>4 DEF Answers, Agrees
  <2>2. QED  BY <1>1, <1>2, <1>4, <2>1 DEF RunFallback
<1>5. QED  BY <1>3, <1>4

-----------------------------------------------------------------------------
(* Every call answers in every mode as it does in report mode              *)

Leaf == {"string", "number", "boolean", "bigint", "null", "undefined", "date", "literal",
         "picklist", "never", "any", "unknown", "foreign"}

LEMMA LeafAnswers ==
  ASSUME NEW s, s.type \in Leaf, NEW d, IsClean(d), NEW cfg \in Modes
  PROVE  Answers(RunBody(s, d, cfg), RunBody(s, d, ReportMode), cfg)
<1>1. PICK r : r = RunBody(s, d, cfg)
  OBVIOUS
<1>2. RunBody(s, d, ReportMode) = r
  BY <1>1 DEF RunBody, Leaf
<1>3. \/ r = RunPrimitive(s, d) \/ r = RunNull(s, d) \/ r = RunUndefined(s, d)
      \/ r = RunDate(s, d) \/ r = RunLiteral(s, d) \/ r = RunPicklist(s, d)
      \/ r = RunNever(s, d) \/ r = RunAny(d) \/ r = RunForeign(s, d)
  BY <1>1 DEF RunBody, Leaf
<1>4. IsSettled(r)
  BY <1>3, LeavesSettled
<1>5. QED  BY <1>1, <1>2, <1>4, SettledAnswers

LEMMA SingleCall ==
  ASSUME NEW s, NEW d, NEW q, q = <<<<s, d>>>>, \A x \in Range(q) : Good(x[1], x[2])
  PROVE  Good(s, d)
<1>1. PICK x : x = <<s, d>>
  OBVIOUS
<1>2. q[1] = x /\ 1 \in DOMAIN q
  BY <1>1
<1>3. x \in Range(q)
  BY <1>2 DEF Range
<1>4. QED  BY <1>1, <1>3

LEMMA ContainerAnswers ==
  ASSUME NEW s, s.type \in {"object", "array", "tuple", "record"}, IsSchema(s),
         NEW d, IsClean(d), IsValue(d.value), NEW cfg \in Modes,
         \A x \in Range(Inner(s, d)) : Good(x[1], x[2])
  PROVE  Answers(RunBody(s, d, cfg), RunBody(s, d, ReportMode), cfg)
<1>1. CASE s.type = "object"
  <2>1. \A mode : RunBody(s, d, mode) = RunObject(s, d, mode)
    BY <1>1 DEF RunBody
  <2>2. IsList(s.keys)
    BY <1>1 DEF IsSchema
  <2>3. IsObject(d.value) => Inner(s, d) = Children(KeyPlaces(s, d.value.own))
    BY <1>1 DEF Inner
  <2>4. QED  BY <2>1, <2>2, <2>3, ObjectAnswers
<1>2. CASE s.type = "array"
  <2>1. \A mode : RunBody(s, d, mode) = RunArray(s, d, mode)
    BY <1>2 DEF RunBody
  <2>2. IsArray(d.value) => Inner(s, d) = Children(ArrayPlaces(s, d.value.items))
    BY <1>2 DEF Inner
  <2>3. QED  BY <2>1, <2>2, ArrayAnswers
<1>3. CASE s.type = "tuple"
  <2>1. \A mode : RunBody(s, d, mode) = RunTuple(s, d, mode)
    BY <1>3 DEF RunBody
  <2>2. IsTupleOf(s, d.value) => Inner(s, d) = Children(ItemPlaces(s.kids, d.value.items))
    BY <1>3 DEF Inner
  <2>3. QED  BY <2>1, <2>2, TupleAnswers
<1>4. CASE s.type = "record"
  <2>1. \A mode : RunBody(s, d, mode) = RunRecord(s, d, mode)
    BY <1>4 DEF RunBody
  <2>2. ASSUME IsObject(d.value), NEW i \in 1 .. Len(d.value.own)
        PROVE  Good(s.key, Fresh(Name(d.value.own[i]))) /\ Good(s.item, Fresh(d.value.own[i][2]))
    <3>1. PICK own : own = d.value.own
      OBVIOUS
    <3>2. Len(own) \in Nat /\ DOMAIN own = 1 .. Len(own)
      BY <2>2, <3>1, ListDomain DEF IsValue
    <3>3. PICK p : p = [j \in DOMAIN own |-> <<s.key, Fresh(Name(own[j]))>>]
      OBVIOUS
    <3>4. PICK q : q = [j \in DOMAIN own |-> <<s.item, Fresh(own[j][2])>>]
      OBVIOUS
    <3>5. IsList(p) /\ Len(p) = Len(own) /\ IsList(q) /\ Len(q) = Len(own)
      <4>1. p = [j \in 1 .. Len(own) |-> p[j]] /\ q = [j \in 1 .. Len(own) |-> q[j]]
        BY <3>2, <3>3, <3>4
      <4>2. QED  BY <3>2, <4>1, FunctionList
    <3>6. /\ (p \o q)[i] = p[i] /\ i \in DOMAIN (p \o q)
          /\ (p \o q)[Len(p) + i] = q[i] /\ Len(p) + i \in DOMAIN (p \o q)
      <4>1. IsList(p \o q) /\ Len(p \o q) = Len(p) + Len(q)
        BY <3>5, ListConcat
      <4>2. DOMAIN (p \o q) = 1 .. Len(p) + Len(q)
        BY <4>1, ListDomain
      <4>3. i \in 1 .. Len(p) /\ i \in 1 .. Len(q) /\ Len(p) \in Nat /\ Len(q) \in Nat
        BY <2>2, <3>1, <3>2, <3>5
      <4>4. QED  BY <3>5, <4>2, <4>3, ListConcat
    <3>7. Inner(s, d) = p \o q
      BY <1>4, <2>2, <3>1, <3>3, <3>4 DEF Inner
    <3>8. p[i] \in Range(Inner(s, d)) /\ q[i] \in Range(Inner(s, d))
      BY <3>6, <3>7 DEF Range
    <3>9. p[i] = <<s.key, Fresh(Name(own[i]))>> /\ q[i] = <<s.item, Fresh(own[i][2])>>
      BY <2>2, <3>1, <3>2, <3>3, <3>4
    <3>10. QED  BY <3>1, <3>8, <3>9
  <2>3. QED  BY <2>1, <2>2, RecordAnswers
<1>5. QED  BY <1>1, <1>2, <1>3, <1>4

LEMMA AlternativeAnswers ==
  ASSUME NEW s, s.type \in {"union", "discriminated_union"}, IsSchema(s),
         NEW d, IsClean(d), NEW cfg \in Modes,
         \A x \in Range(Inner(s, d)) : Good(x[1], x[2])
  PROVE  Answers(RunBody(s, d, cfg), RunBody(s, d, ReportMode), cfg)
<1>1. CASE s.type = "union"
  <2>1. \A mode : RunBody(s, d, mode) = RunUnion(s, d, mode)
    BY <1>1 DEF RunBody
  <2>2. PICK q : q = [i \in DOMAIN s.kids |-> <<s.kids[i], Fresh(d.value)>>]
    OBVIOUS
  <2>3. Inner(s, d) = q
    BY <1>1, <2>2 DEF Inner
  <2>4. IsList(s.kids) /\ DOMAIN s.kids = 1 .. Len(s.kids)
    BY <1>1, ListDomain DEF IsSchema
  <2>5. ASSUME NEW i \in 1 .. Len(s.kids) PROVE Good(s.kids[i], Fresh(d.value))
    <3>1. q[i] = <<s.kids[i], Fresh(d.value)>> /\ i \in DOMAIN q
      BY <2>2, <2>4
    <3>2. q[i] \in Range(q)
      BY <3>1 DEF Range
    <3>3. QED  BY <2>3, <3>1, <3>2
  <2>6. QED  BY <2>1, <2>4, <2>5, UnionAnswers
<1>2. CASE s.type = "discriminated_union"
  <2>1. \A mode : RunBody(s, d, mode) = RunDiscriminated(s, d, mode)
    BY <1>2 DEF RunBody
  <2>2. ASSUME IsObject(d.value), Tagged(s, d.value.own) # {}
        PROVE  Good(Member(s, d.value.own), Fresh(d.value))
    <3>1. Inner(s, d) = <<<<Member(s, d.value.own), Fresh(d.value)>>>>
      BY <1>2, <2>2 DEF Inner
    <3>2. QED  BY <3>1, SingleCall
  <2>3. QED  BY <2>1, <2>2, DiscriminatedAnswers
<1>3. QED  BY <1>1, <1>2

LEMMA WrapperAnswers ==
  ASSUME NEW s, s.type \in SchemaTypes, IsSchema(s), s.type \notin Leaf,
         s.type \notin {"object", "array", "tuple", "record", "union", "discriminated_union"},
         NEW d, IsClean(d), NEW cfg \in Modes,
         \A x \in Range(Inner(s, d)) : Good(x[1], x[2])
  PROVE  Answers(RunBody(s, d, cfg), RunBody(s, d, ReportMode), cfg)
<1>1. CASE s.type \in {"optional", "nullable", "nullish"}
  <2>1. \A mode : RunBody(s, d, mode) = RunOptional(s, d, mode)
    BY <1>1 DEF RunBody
  <2>2. ASSUME d.value \notin Absent(s) PROVE Good(s.wrapped, d)
    <3>1. Inner(s, d) = <<<<s.wrapped, d>>>>
      BY <1>1, <2>2 DEF Inner
    <3>2. QED  BY <3>1, SingleCall
  <2>3. QED  BY <2>1, <2>2, OptionalAnswers
<1>2. CASE s.type = "pipe"
  <2>1. \A mode : RunBody(s, d, mode) = RunPipe(s, d, mode)
    BY <1>2 DEF RunBody
  <2>2. Inner(s, d) = <<<<s.wrapped, d>>>>
    BY <1>2 DEF Inner
  <2>3. IsList(s.ops) /\ \A i \in DOMAIN s.ops : IsOperation(s.ops[i])
    BY <1>2 DEF IsSchema
  <2>4. QED  BY <2>1, <2>2, <2>3, SingleCall, PipeAnswers
<1>3. CASE s.type = "preprocess"
  <2>1. \A mode : RunBody(s, d, mode) = RunPreprocess(s, d, mode)
    BY <1>3 DEF RunBody
  <2>2. ASSUME ~ Fails(s.op) PROVE Good(s.wrapped, Preprocessed(s, d))
    <3>1. Inner(s, d) = <<<<s.wrapped, Preprocessed(s, d)>>>>
      BY <1>3, <2>2 DEF Inner
    <3>2. QED  BY <3>1, SingleCall
  <2>3. IsReporter(s.op)
    BY <1>3 DEF IsSchema
  <2>4. QED  BY <2>1, <2>2, <2>3, PreprocessAnswers
<1>4. CASE s.type = "fallback"
  <2>1. \A mode : RunBody(s, d, mode) = RunFallback(s, d, mode)
    BY <1>4 DEF RunBody
  <2>2. Inner(s, d) = <<<<s.wrapped, d>>>>
    BY <1>4 DEF Inner
  <2>3. QED  BY <2>1, <2>2, SingleCall, FallbackAnswers
<1>5. CASE s.type \in {"lazy", "recursive"}
  <2>1. \A mode : RunBody(s, d, mode) = Run(Definitions[s.name], d, mode)
    BY <1>5 DEF RunBody, RunLazy
  <2>2. Inner(s, d) = <<<<Definitions[s.name], d>>>>
    BY <1>5 DEF Inner
  <2>3. Good(Definitions[s.name], d)
    BY <2>2, SingleCall
  <2>4. QED  BY <2>1, <2>3 DEF Good
<1>6. QED  BY <1>1, <1>2, <1>3, <1>4, <1>5 DEF SchemaTypes, Leaf

LEMMA BodyAnswers ==
  ASSUME NEW s, IsSchema(s), NEW d, IsClean(d), IsValue(d.value), NEW cfg \in Modes,
         \A x \in Range(Inner(s, d)) : Good(x[1], x[2])
  PROVE  Answers(RunBody(s, d, cfg), RunBody(s, d, ReportMode), cfg)
<1>1. s.type \in SchemaTypes
  BY DEF IsSchema
<1>2. QED  BY <1>1, LeafAnswers, ContainerAnswers, AlternativeAnswers, WrapperAnswers

(* In any mode a run answers a dataset, typed or with an error; under      *)
(* reject an error is the end of what it reports, the rest of that report  *)
(* of the user's operation aside; and it fails exactly when the run in     *)
(* report mode does, whose dataset it returns otherwise.                   *)
THEOREM RunAnswers ==
  \A call_ \in Calls, cfg \in Modes :
    Answers(Run(call_[1], call_[2], cfg), Run(call_[1], call_[2], ReportMode), cfg)
<1>1. PICK bad : bad = {x \in Calls : ~ Good(x[1], x[2])}
  OBVIOUS
<1>2. SUFFICES ASSUME bad # {} PROVE FALSE
  BY <1>1 DEF Good
<1>3. PICK ranks : ranks = {Rank(x) : x \in bad}
  OBVIOUS
<1>4. ranks \in SUBSET Nat /\ ranks # {}
  BY <1>1, <1>2, <1>3, CallsAssumption
<1>5. PICK n \in ranks : \A m \in ranks : n <= m
  BY <1>4, LeastNatural
<1>6. PICK x \in bad : Rank(x) = n
  BY <1>3, <1>5
<1>7. x \in Calls /\ ~ Good(x[1], x[2])
  BY <1>1, <1>6
<1>8. PICK s, d : s = x[1] /\ d = x[2]
  OBVIOUS
<1>9. IsSchema(s) /\ IsClean(d) /\ IsValue(d.value)
  BY <1>7, <1>8, CallsAssumption DEF IsClean
<1>10. ASSUME NEW y \in Range(Inner(s, d)) PROVE Good(y[1], y[2])
  <2>1. y \in Calls /\ Rank(y) < Rank(x) /\ Rank(y) \in Nat /\ Rank(x) \in Nat
    BY <1>7, <1>8, CallsAssumption
  <2>2. y \notin bad
    BY <1>3, <1>4, <1>5, <1>6, <2>1
  <2>3. QED  BY <1>1, <2>1, <2>2
<1>11. ASSUME NEW cfg \in Modes
       PROVE  Answers(Run(s, d, cfg), Run(s, d, ReportMode), cfg)
  <2>1. Run(s, d, cfg) = RunBody(s, d, cfg) /\ Run(s, d, ReportMode) = RunBody(s, d, ReportMode)
    BY <1>7, <1>8, RunAssumption, ModeParts
  <2>2. QED  BY <1>9, <1>10, <2>1, BodyAnswers
<1>12. QED  BY <1>7, <1>8, <1>11 DEF Good

-----------------------------------------------------------------------------
(* Compiled steps: the run of a fresh dataset, behind the issues that the  *)
(* cursor already holds                                                    *)

LEMMA ConcatParts ==
  ASSUME NEW p, NEW q, IsList(p), IsList(q)
  PROVE  /\ SubSeq(p \o q, 1, Len(p)) = p
         /\ SubSeq(p \o q, Len(p) + 1, Len(p \o q)) = q
         /\ p \o <<>> = p /\ <<>> \o p = p
<1>1. PICK S : S = Range(p) \cup Range(q)
  OBVIOUS
<1>2. p \in Seq(S) /\ q \in Seq(S) /\ p \o q \in Seq(S)
  BY <1>1 DEF IsList
<1>3. Len(p) \in Nat /\ Len(q) \in Nat /\ Len(p \o q) = Len(p) + Len(q)
  BY <1>2
<1>4. p \o <<>> = p /\ <<>> \o p = p
  BY <1>2, ConcatEmptySeq
<1>5. SubSeq(p \o q, 1, Len(p)) = p
  <2>1. CASE Len(p) = 0
    <3>1. p = <<>>
      BY <1>2, <2>1
    <3>2. SubSeq(p \o q, 1, 0) = <<>>
      BY SubSeqEmpty
    <3>3. QED  BY <2>1, <3>1, <3>2
  <2>2. CASE Len(p) # 0
    <3>1. 1 \in 1 .. Len(p) /\ Len(p) \in 1 .. Len(p)
      BY <1>3, <2>2
    <3>2. SubSeq(p \o q, 1, Len(p)) = SubSeq(p, 1, Len(p))
      BY <1>2, <3>1, SubSeqOfConcat1
    <3>3. QED  BY <1>2, <3>2, SubSeqFull
  <2>3. QED  BY <2>1, <2>2
<1>6. SubSeq(p \o q, Len(p) + 1, Len(p \o q)) = q
  <2>1. CASE Len(q) = 0
    <3>1. q = <<>>
      BY <1>2, <2>1
    <3>2. SubSeq(p \o q, Len(p) + 1, Len(p)) = <<>>
      BY <1>3, SubSeqEmpty
    <3>3. QED  BY <1>3, <2>1, <3>1, <3>2
  <2>2. CASE Len(q) # 0
    <3>1. /\ Len(p) + 1 \in Len(p) + 1 .. Len(p) + Len(q)
          /\ Len(p) + Len(q) \in Len(p) + 1 .. Len(p) + Len(q)
          /\ Len(p) + 1 - Len(p) = 1 /\ Len(p) + Len(q) - Len(p) = Len(q)
      BY <1>3, <2>2
    <3>2. SubSeq(p \o q, Len(p) + 1, Len(p) + Len(q)) = SubSeq(q, 1, Len(q))
      BY <1>2, <3>1, SubSeqOfConcat2
    <3>3. QED  BY <1>2, <1>3, <3>2, SubSeqFull
  <2>3. QED  BY <2>1, <2>2
<1>7. QED  BY <1>4, <1>5, <1>6

LEMMA ConcatGroups ==
  ASSUME NEW p, NEW q, NEW u, IsList(p), IsList(q), IsList(u)
  PROVE  (p \o q) \o u = p \o (q \o u)
<1>1. PICK S : S = Range(p) \cup Range(q) \cup Range(u)
  OBVIOUS
<1>2. p \in Seq(S) /\ q \in Seq(S) /\ u \in Seq(S)
  BY <1>1 DEF IsList
<1>3. QED  BY <1>2, ConcatAssociative

Behind(p, r) == Dataset(r.value, r.typed, p \o r.issues)
BehindLoop(p, l) == LoopOf(Behind(p, l.data), l.out, l.aborted)
Follows(s, c, cfg) == Step(s, c, cfg) = Behind(c.issues, Run(s, Fresh(c.value), cfg))

LEMMA BehindParts ==
  ASSUME NEW p, IsIssues(p), NEW r, IsDataset(r)
  PROVE  /\ IsDataset(Behind(p, r))
         /\ Behind(p, r).value = r.value
         /\ Behind(p, r).typed = r.typed
         /\ Behind(p, r).issues = p \o r.issues
<1>1. r.typed \in BOOLEAN /\ IsIssues(r.issues)
  BY DatasetParts
<1>2. IsIssues(p \o r.issues)
  BY <1>1, IssuesConcat
<1>3. PICK q : q = p \o r.issues
  OBVIOUS
<1>4. PICK b : b = Behind(p, r)
  OBVIOUS
<1>5. b = Dataset(r.value, r.typed, q)
  BY <1>3, <1>4 DEF Behind
<1>6. IsIssues(q)
  BY <1>2, <1>3
<1>7. PICK t \in BOOLEAN : t = r.typed
  BY <1>1
<1>8. IsDataset(Dataset(r.value, t, q))
  BY <1>6, DatasetOf
<1>9. b.value = r.value /\ b.typed = r.typed /\ b.issues = q
  BY <1>5 DEF Dataset
<1>10. QED  BY <1>3, <1>4, <1>5, <1>7, <1>8, <1>9

(* One child, in the step of a container                                   *)
LEMMA StepChildFollows ==
  ASSUME NEW cfg \in Modes, NEW p, IsIssues(p), NEW l, SoundLoop(l, cfg), NEW place,
         Sound(Run(place.child, Fresh(place.v), cfg), cfg),
         ~ l.aborted => Follows(place.child, Seat(Behind(p, l.data), place.v), cfg)
  PROVE  StepChild(BehindLoop(p, l), place, cfg) = BehindLoop(p, Visit(l, place, cfg))
<1>1. PICK b : b = BehindLoop(p, l)
  OBVIOUS
<1>2. PICK bd : bd = Behind(p, l.data)
  OBVIOUS
<1>3. b = LoopOf(bd, l.out, l.aborted)
  BY <1>1, <1>2 DEF BehindLoop
<1>4. b.data = bd /\ b.out = l.out /\ b.aborted = l.aborted
  BY <1>3 DEF LoopOf
<1>5. IsDataset(l.data) /\ IsIssues(l.data.issues) /\ l.data.typed \in BOOLEAN
  BY DatasetParts DEF SoundLoop, Sound
<1>6. /\ IsDataset(bd) /\ bd.value = l.data.value /\ bd.typed = l.data.typed
      /\ bd.issues = p \o l.data.issues /\ IsIssues(bd.issues)
  <2>1. /\ IsDataset(bd) /\ bd.value = l.data.value /\ bd.typed = l.data.typed
        /\ bd.issues = p \o l.data.issues
    BY <1>2, <1>5, BehindParts
  <2>2. QED  BY <2>1, DatasetParts
<1>7. CASE l.aborted
  <2>1. StepChild(b, place, cfg) = b /\ Visit(l, place, cfg) = l
    BY <1>4, <1>7 DEF StepChild, Visit
  <2>2. QED  BY <1>1, <2>1
<1>8. CASE ~ l.aborted
  <2>1. PICK r : r = Run(place.child, Fresh(place.v), cfg)
    OBVIOUS
  <2>2. IsDataset(r) /\ IsIssues(r.issues) /\ r.typed \in BOOLEAN
    BY <2>1, DatasetParts DEF Sound
  <2>3. PICK v : v = place.v
    OBVIOUS
  <2>4. PICK seat : seat = [bd EXCEPT !.value = v, !.typed = TRUE]
    OBVIOUS
  <2>5. seat = Dataset(v, TRUE, bd.issues)
    <3>1. bd = Dataset(bd.value, bd.typed, bd.issues)
      BY <1>6, DatasetParts
    <3>2. QED  BY <2>4, <3>1 DEF Dataset
  <2>6. seat.value = v /\ seat.issues = bd.issues
    BY <2>5 DEF Dataset
  <2>7. seat = Seat(bd, place.v)
    BY <2>3, <2>4 DEF Seat
  <2>8. PICK c : c = Step(place.child, seat, cfg)
    OBVIOUS
  <2>9. c = Behind(bd.issues, r)
    BY <1>2, <1>8, <2>1, <2>3, <2>6, <2>7, <2>8 DEF Follows
  <2>10. c.value = r.value /\ c.typed = r.typed /\ c.issues = bd.issues \o r.issues
    BY <1>6, <2>2, <2>9, BehindParts
  <2>11. Before(c, Len(bd.issues)) = bd.issues /\ From(c, Len(bd.issues)) = r.issues
    <3>1. IsList(bd.issues) /\ IsList(r.issues)
      BY <1>6, <2>2, IssuesAreLists
    <3>2. PICK x, y : x = bd.issues /\ y = r.issues
      OBVIOUS
    <3>3. SubSeq(x \o y, 1, Len(x)) = x /\ SubSeq(x \o y, Len(x) + 1, Len(x \o y)) = y
      BY <3>1, <3>2, ConcatParts
    <3>4. c.issues = x \o y
      BY <2>10, <3>2
    <3>5. QED  BY <3>2, <3>3, <3>4 DEF Before, From
  <2>12. PICK stop \in BOOLEAN : stop = Aborts(r.issues, cfg)
    BY AbortsIsBoolean, ModeParts
  <2>13. PICK o : o = IF stop \/ (place.omit /\ r.value = Undefined)
                      THEN l.out ELSE Assign(l.out, place.key, r.value)
    OBVIOUS
  <2>14. PICK u : u = Under(place.key, r.issues)
    OBVIOUS
  <2>15. IsIssues(u)
    BY <2>2, <2>14, UnderKeeps
  <2>16. PICK q : q = bd.issues \o u
    OBVIOUS
  <2>17. q = p \o (l.data.issues \o u)
    <3>1. IsList(p) /\ IsList(l.data.issues) /\ IsList(u)
      BY <1>5, <2>15, IssuesAreLists
    <3>2. PICK x : x = l.data.issues
      OBVIOUS
    <3>3. IsList(p) /\ IsList(x) /\ IsList(u)
      BY <3>1, <3>2
    <3>4. (p \o x) \o u = p \o (x \o u)
      BY <3>3, ConcatGroups
    <3>5. QED  BY <1>6, <2>16, <3>2, <3>4
  <2>18. PICK t \in BOOLEAN : t = (l.data.typed /\ r.typed /\ ~ stop)
    OBVIOUS
  <2>19. PICK e : e = [bd EXCEPT !.issues = q, !.typed = t]
    OBVIOUS
  <2>20. e = Dataset(l.data.value, t, q)
    <3>1. bd = Dataset(bd.value, bd.typed, bd.issues)
      BY <1>6, DatasetParts
    <3>2. QED  BY <1>6, <2>19, <3>1 DEF Dataset
  <2>21. StepChild(b, place, cfg) = LoopOf(e, o, stop)
    BY <1>4, <1>6, <1>8, <2>3, <2>7, <2>8, <2>10, <2>11, <2>12, <2>13, <2>14, <2>16, <2>18, <2>19
    DEF StepChild, LoopOf
  <2>22. PICK d : d = Collect(l.data, place.key, r, stop)
    OBVIOUS
  <2>23. ~ Aborts(l.data.issues, cfg) /\ Sound(l.data, cfg)
    BY <1>8 DEF SoundLoop
  <2>24. d = Dataset(l.data.value, t, l.data.issues \o u)
    <3>1. cfg.reject \in BOOLEAN
      BY ModeParts
    <3>2. d = Dataset(l.data.value, l.data.typed /\ r.typed /\ ~ stop,
                      l.data.issues \o Under(place.key, r.issues))
      BY <2>1, <2>12, <2>22, <2>23, <3>1, CollectParts
    <3>3. QED  BY <2>14, <2>18, <3>2
  <2>25. d.value = l.data.value /\ d.typed = t /\ d.issues = l.data.issues \o u
    BY <2>24 DEF Dataset
  <2>26. e = Behind(p, d)
    BY <2>17, <2>20, <2>25 DEF Behind
  <2>27. PICK w : w = Visit(l, place, cfg)
    OBVIOUS
  <2>28. w = LoopOf(d, o, stop)
    BY <1>8, <2>1, <2>12, <2>13, <2>22, <2>27 DEF Visit, LoopOf
  <2>29. w.data = d /\ w.out = o /\ w.aborted = stop
    BY <2>28 DEF LoopOf
  <2>30. QED  BY <1>1, <2>21, <2>26, <2>27, <2>29 DEF BehindLoop
<1>9. QED  BY <1>7, <1>8

LEMMA StepVisitsFollow ==
  ASSUME NEW cfg \in Modes, NEW p, IsIssues(p), NEW l, SoundLoop(l, cfg),
         NEW places, Len(places) \in Nat,
         \A i \in 1 .. Len(places) :
           Sound(Run(places[i].child, Fresh(places[i].v), cfg), cfg),
         \A i \in 1 .. Len(places) : \A k :
           /\ SoundLoop(k, cfg) /\ ~ k.aborted
           /\ StepVisits(BehindLoop(p, l), places, cfg)[i - 1] = BehindLoop(p, k)
           => Follows(places[i].child, Seat(Behind(p, k.data), places[i].v), cfg)
  PROVE  /\ SoundLoop(Visits(l, places, cfg)[Len(places)], cfg)
         /\ StepVisits(BehindLoop(p, l), places, cfg)[Len(places)] =
              BehindLoop(p, Visits(l, places, cfg)[Len(places)])
<1>1. PICK f : f = StepVisits(BehindLoop(p, l), places, cfg)
  OBVIOUS
<1>2. PICK g : g = Visits(l, places, cfg)
  OBVIOUS
<1>3. PICK T : T = {n \in 0 .. Len(places) : SoundLoop(g[n], cfg) /\ f[n] = BehindLoop(p, g[n])}
  OBVIOUS
<1>4. 0 \in T
  <2>1. f[0] = BehindLoop(p, l) /\ g[0] = l
    BY <1>1, <1>2, StepVisitsLoop, VisitsLoop
  <2>2. QED  BY <1>3, <2>1
<1>5. ASSUME NEW n \in 1 .. Len(places), n - 1 \in T PROVE n \in T
  <2>1. f[n] = StepChild(f[n - 1], places[n], cfg) /\ g[n] = Visit(g[n - 1], places[n], cfg)
    BY <1>1, <1>2, StepVisitsLoop, VisitsLoop
  <2>2. PICK k : k = g[n - 1]
    OBVIOUS
  <2>3. SoundLoop(k, cfg) /\ f[n - 1] = BehindLoop(p, k)
    BY <1>3, <1>5, <2>2
  <2>4. StepVisits(BehindLoop(p, l), places, cfg)[n - 1] = BehindLoop(p, k)
    BY <1>1, <2>3
  <2>5. ~ k.aborted => Follows(places[n].child, Seat(Behind(p, k.data), places[n].v), cfg)
    BY <2>3, <2>4
  <2>6. StepChild(BehindLoop(p, k), places[n], cfg) = BehindLoop(p, Visit(k, places[n], cfg))
    BY <2>3, <2>5, StepChildFollows
  <2>7. SoundLoop(Visit(k, places[n], cfg), cfg)
    BY <2>3, VisitSound
  <2>8. QED  BY <1>3, <2>1, <2>2, <2>3, <2>6, <2>7
<1>6. \A n \in 0 .. Len(places) : n \in T
  BY <1>4, <1>5, EveryPrefix
<1>7. SoundLoop(g[Len(places)], cfg) /\ f[Len(places)] = BehindLoop(p, g[Len(places)])
  BY <1>3, <1>6
<1>8. QED  BY <1>1, <1>2, <1>7

LEMMA UnderNothing ==
  ASSUME NEW key
  PROVE  Under(key, <<>>) = <<>>
BY DEF Under

LEMMA RunPrimitiveParts ==
  ASSUME NEW s, NEW v
  PROVE  /\ IsPrimitive(s.type, v) => RunPrimitive(s, Fresh(v)) = Dataset(v, TRUE, <<>>)
         /\ ~ IsPrimitive(s.type, v) =>
              RunPrimitive(s, Fresh(v)) =
                Dataset(v, FALSE, <<Issue("schema", s.type, v, "error", s.message, <<>>)>>)
<1>1. PICK d : d = Fresh(v)
  OBVIOUS
<1>2. /\ d = Dataset(v, FALSE, <<>>) /\ IsDataset(d) /\ d.value = v /\ d.issues = <<>>
  BY <1>1, FreshParts
<1>3. CASE IsPrimitive(s.type, v)
  <2>1. PICK t \in BOOLEAN : t = TRUE
    OBVIOUS
  <2>2. PICK e : e = [d EXCEPT !.typed = t]
    OBVIOUS
  <2>3. e = Dataset(v, t, <<>>)
    BY <1>2, <2>2 DEF Dataset
  <2>4. RunPrimitive(s, d) = e
    BY <1>2, <1>3, <2>1, <2>2 DEF RunPrimitive, Accept
  <2>5. QED  BY <1>1, <1>3, <2>1, <2>3, <2>4
<1>4. CASE ~ IsPrimitive(s.type, v)
  <2>1. PICK issue : issue = Issue("schema", s.type, v, "error", s.message, <<>>)
    OBVIOUS
  <2>2. SchemaIssue(d, s) = issue
    BY <1>2, <2>1 DEF SchemaIssue
  <2>3. PICK one : one = <<issue>>
    OBVIOUS
  <2>4. IsIssues(one)
    BY <2>1, <2>3, IssueIsIssue, OneIssue
  <2>5. <<>> \o one = one
    <3>1. IsList(one)
      BY <2>4, IssuesAreLists
    <3>2. QED  BY <3>1, ConcatParts
  <2>6. Mismatch(d, s) = Dataset(v, FALSE, one)
    BY <1>2, <2>2, <2>3, <2>5, MismatchParts
  <2>7. RunPrimitive(s, d) = Mismatch(d, s)
    BY <1>2, <1>4 DEF RunPrimitive, Accept
  <2>8. QED  BY <1>1, <1>4, <2>1, <2>3, <2>6, <2>7
<1>5. QED  BY <1>3, <1>4

LEMMA PrimitiveChildFollows ==
  ASSUME NEW cfg \in Modes, NEW p, IsIssues(p), NEW l, SoundLoop(l, cfg), NEW place,
         ~ place.omit,
         Run(place.child, Fresh(place.v), cfg) = RunPrimitive(place.child, Fresh(place.v)),
         Sound(Run(place.child, Fresh(place.v), cfg), cfg)
  PROVE  StepPrimitiveChild(BehindLoop(p, l), place, cfg) = BehindLoop(p, Visit(l, place, cfg))
<1>1. PICK b, bd : b = BehindLoop(p, l) /\ bd = Behind(p, l.data)
  OBVIOUS
<1>2. b = LoopOf(bd, l.out, l.aborted)
  BY <1>1 DEF BehindLoop
<1>3. b.data = bd /\ b.out = l.out /\ b.aborted = l.aborted
  BY <1>2 DEF LoopOf
<1>4. IsDataset(l.data) /\ IsIssues(l.data.issues) /\ l.data.typed \in BOOLEAN
  BY DatasetParts DEF SoundLoop, Sound
<1>5. /\ IsDataset(bd) /\ bd.value = l.data.value /\ bd.typed = l.data.typed
      /\ bd.issues = p \o l.data.issues
  BY <1>1, <1>4, BehindParts
<1>6. bd = Dataset(bd.value, bd.typed, bd.issues) /\ IsIssues(bd.issues) /\ bd.typed \in BOOLEAN
  BY <1>5, DatasetParts
<1>7. PICK v : v = place.v
  OBVIOUS
<1>8. PICK r : r = RunPrimitive(place.child, Fresh(v))
  OBVIOUS
<1>9. Run(place.child, Fresh(place.v), cfg) = r /\ Sound(r, cfg)
  BY <1>7, <1>8
<1>10. PICK w : w = Visit(l, place, cfg)
  OBVIOUS
<1>11. CASE l.aborted
  <2>1. StepPrimitiveChild(b, place, cfg) = b /\ w = l
    BY <1>3, <1>10, <1>11 DEF StepPrimitiveChild, Visit
  <2>2. QED  BY <1>1, <1>10, <2>1
<1>12. ASSUME ~ l.aborted,
              NEW stop \in BOOLEAN, stop = Aborts(r.issues, cfg),
              NEW t \in BOOLEAN, t = (l.data.typed /\ r.typed /\ ~ stop),
              NEW o, o = (IF stop THEN l.out ELSE Assign(l.out, place.key, r.value)),
              NEW u, u = Under(place.key, r.issues)
       PROVE  /\ IsIssues(u)
              /\ BehindLoop(p, w) = LoopOf(Dataset(l.data.value, t, bd.issues \o u), o, stop)
  <2>1. PICK d : d = Collect(l.data, place.key, r, stop)
    OBVIOUS
  <2>2. d = Dataset(l.data.value, t, l.data.issues \o u)
    <3>1. cfg.reject \in BOOLEAN /\ ~ Aborts(l.data.issues, cfg) /\ Sound(l.data, cfg)
      BY <1>12, ModeParts DEF SoundLoop
    <3>2. d = Dataset(l.data.value, l.data.typed /\ r.typed /\ ~ stop,
                      l.data.issues \o Under(place.key, r.issues))
      BY <1>9, <1>12, <2>1, <3>1, CollectParts
    <3>3. QED  BY <1>12, <3>2
  <2>3. d.value = l.data.value /\ d.typed = t /\ d.issues = l.data.issues \o u
    BY <2>2 DEF Dataset
  <2>4. w = LoopOf(d, o, stop)
    BY <1>9, <1>10, <1>12, <2>1 DEF Visit, LoopOf
  <2>5. w.data = d /\ w.out = o /\ w.aborted = stop
    BY <2>4 DEF LoopOf
  <2>6. IsIssues(u)
    BY <1>9, <1>12, UnderKeeps, DatasetParts DEF Sound
  <2>7. p \o (l.data.issues \o u) = bd.issues \o u
    <3>1. PICK x : x = l.data.issues
      OBVIOUS
    <3>2. IsList(p) /\ IsList(x) /\ IsList(u)
      BY <1>4, <2>6, <3>1, IssuesAreLists
    <3>3. (p \o x) \o u = p \o (x \o u)
      BY <3>2, ConcatGroups
    <3>4. QED  BY <1>5, <3>1, <3>3
  <2>8. Behind(p, d) = Dataset(l.data.value, t, bd.issues \o u)
    BY <2>3, <2>7 DEF Behind
  <2>9. QED  BY <2>5, <2>6, <2>8 DEF BehindLoop
<1>13. CASE ~ l.aborted /\ IsPrimitive(place.child.type, v)
  <2>1. r = Dataset(v, TRUE, <<>>)
    BY <1>8, <1>13, RunPrimitiveParts
  <2>2. r.value = v /\ r.typed = TRUE /\ r.issues = <<>>
    BY <2>1 DEF Dataset
  <2>3. PICK stop \in BOOLEAN : stop = FALSE
    OBVIOUS
  <2>4. stop = Aborts(r.issues, cfg)
    BY <2>2, <2>3, NoIssues DEF Aborts
  <2>5. PICK o : o = Assign(l.out, place.key, v)
    OBVIOUS
  <2>6. PICK u : u = Under(place.key, r.issues)
    OBVIOUS
  <2>7. BehindLoop(p, w) = LoopOf(Dataset(l.data.value, l.data.typed, bd.issues \o u), o, stop)
    <3>1. PICK t \in BOOLEAN : t = l.data.typed
      BY <1>4
    <3>2. t = (l.data.typed /\ r.typed /\ ~ stop)
      BY <2>2, <2>3, <3>1
    <3>3. o = IF stop THEN l.out ELSE Assign(l.out, place.key, r.value)
      BY <2>2, <2>3, <2>5
    <3>4. BehindLoop(p, w) = LoopOf(Dataset(l.data.value, t, bd.issues \o u), o, stop)
      BY <1>12, <1>13, <2>4, <2>6, <3>2, <3>3
    <3>5. QED  BY <3>1, <3>4
  <2>8. bd.issues \o u = bd.issues
    <3>1. u = <<>>
      BY <2>2, <2>6, UnderNothing
    <3>2. PICK x : x = bd.issues
      OBVIOUS
    <3>3. IsList(x)
      BY <1>6, <3>2, IssuesAreLists
    <3>4. x \o <<>> = x
      BY <3>3, ConcatParts
    <3>5. QED  BY <3>1, <3>2, <3>4
  <2>9. Dataset(l.data.value, l.data.typed, bd.issues \o u) = bd
    BY <1>5, <1>6, <2>8
  <2>10. PICK e : e = [b EXCEPT !.out = o]
    OBVIOUS
  <2>11. e = LoopOf(bd, o, l.aborted)
    BY <1>2, <2>10 DEF LoopOf
  <2>12. l.aborted = stop
    BY <1>13, <2>3, ModeParts DEF SoundLoop, Aborts
  <2>13. StepPrimitiveChild(b, place, cfg) = e
    BY <1>3, <1>7, <1>13, <2>5, <2>10 DEF StepPrimitiveChild
  <2>14. QED  BY <1>1, <1>10, <2>7, <2>9, <2>11, <2>12, <2>13
<1>14. CASE ~ l.aborted /\ ~ IsPrimitive(place.child.type, v)
  <2>1. PICK issue : issue = Issue("schema", place.child.type, v, "error", place.child.message, <<>>)
    OBVIOUS
  <2>2. PICK one : one = <<issue>>
    OBVIOUS
  <2>3. r = Dataset(v, FALSE, one)
    BY <1>8, <1>14, <2>1, <2>2, RunPrimitiveParts
  <2>4. r.value = v /\ r.typed = FALSE /\ r.issues = one
    BY <2>3 DEF Dataset
  <2>5. IsIssues(one) /\ HasError(one)
    BY <2>1, <2>2, IssueIsIssue, OneIssue
  <2>6. PICK stop \in BOOLEAN : stop = cfg.reject
    BY ModeParts
  <2>7. stop = Aborts(r.issues, cfg)
    BY <2>4, <2>5, <2>6 DEF Aborts
  <2>8. PICK o : o = IF cfg.reject THEN l.out ELSE Assign(l.out, place.key, v)
    OBVIOUS
  <2>9. PICK u : u = Under(place.key, one)
    OBVIOUS
  <2>10. PICK t \in BOOLEAN : t = FALSE
    OBVIOUS
  <2>11. BehindLoop(p, w) = LoopOf(Dataset(l.data.value, t, bd.issues \o u), o, stop)
    <3>1. t = (l.data.typed /\ r.typed /\ ~ stop)
      BY <2>4, <2>10
    <3>2. o = IF stop THEN l.out ELSE Assign(l.out, place.key, r.value)
      BY <2>4, <2>6, <2>8
    <3>3. QED  BY <1>12, <1>14, <2>4, <2>7, <2>9, <3>1, <3>2
  <2>12. PICK seat : seat = [bd EXCEPT !.value = v]
    OBVIOUS
  <2>13. seat = Dataset(v, bd.typed, bd.issues)
    BY <1>6, <2>12 DEF Dataset
  <2>14. IsDataset(seat) /\ seat.value = v /\ seat.issues = bd.issues
    BY <1>6, <2>13, DatasetOf
  <2>15. PICK c : c = Mismatch(seat, place.child)
    OBVIOUS
  <2>16. c.issues = bd.issues \o one
    <3>1. SchemaIssue(seat, place.child) = issue
      BY <2>1, <2>14 DEF SchemaIssue
    <3>2. c = Dataset(v, FALSE, bd.issues \o one)
      BY <2>2, <2>14, <2>15, <3>1, MismatchParts
    <3>3. QED  BY <3>2 DEF Dataset
  <2>17. From(c, Len(bd.issues)) = one
    <3>1. PICK x : x = bd.issues
      OBVIOUS
    <3>2. IsList(x) /\ IsList(one)
      BY <1>6, <2>5, <3>1, IssuesAreLists
    <3>3. SubSeq(x \o one, Len(x) + 1, Len(x \o one)) = one
      BY <3>2, ConcatParts
    <3>4. QED  BY <2>16, <3>1, <3>3 DEF From
  <2>18. PICK q : q = bd.issues \o u
    OBVIOUS
  <2>19. PICK e : e = [bd EXCEPT !.issues = q, !.typed = t]
    OBVIOUS
  <2>20. e = Dataset(l.data.value, t, q)
    BY <1>5, <1>6, <2>19 DEF Dataset
  <2>21. StepPrimitiveChild(b, place, cfg) = LoopOf(e, o, cfg.reject)
    BY <1>3, <1>7, <1>14, <2>8, <2>9, <2>10, <2>12, <2>15, <2>17, <2>18, <2>19
    DEF StepPrimitiveChild, LoopOf
  <2>22. QED  BY <1>1, <1>10, <2>6, <2>11, <2>18, <2>20, <2>21
<1>15. QED  BY <1>11, <1>13, <1>14

LEMMA PrimitiveVisitsFollow ==
  ASSUME NEW cfg \in Modes, NEW p, IsIssues(p), NEW l, SoundLoop(l, cfg),
         NEW places, Len(places) \in Nat,
         \A i \in 1 .. Len(places) :
           /\ ~ places[i].omit
           /\ Run(places[i].child, Fresh(places[i].v), cfg) =
                RunPrimitive(places[i].child, Fresh(places[i].v))
           /\ Sound(Run(places[i].child, Fresh(places[i].v), cfg), cfg)
  PROVE  /\ SoundLoop(Visits(l, places, cfg)[Len(places)], cfg)
         /\ PrimitiveVisits(BehindLoop(p, l), places, cfg)[Len(places)] =
              BehindLoop(p, Visits(l, places, cfg)[Len(places)])
<1>1. PICK f : f = PrimitiveVisits(BehindLoop(p, l), places, cfg)
  OBVIOUS
<1>2. PICK g : g = Visits(l, places, cfg)
  OBVIOUS
<1>3. PICK T : T = {n \in 0 .. Len(places) : SoundLoop(g[n], cfg) /\ f[n] = BehindLoop(p, g[n])}
  OBVIOUS
<1>4. 0 \in T
  <2>1. f[0] = BehindLoop(p, l) /\ g[0] = l
    BY <1>1, <1>2, PrimitiveVisitsLoop, VisitsLoop
  <2>2. QED  BY <1>3, <2>1
<1>5. ASSUME NEW n \in 1 .. Len(places), n - 1 \in T PROVE n \in T
  <2>1. /\ f[n] = StepPrimitiveChild(f[n - 1], places[n], cfg)
        /\ g[n] = Visit(g[n - 1], places[n], cfg)
    BY <1>1, <1>2, PrimitiveVisitsLoop, VisitsLoop
  <2>2. PICK k : k = g[n - 1]
    OBVIOUS
  <2>3. SoundLoop(k, cfg) /\ f[n - 1] = BehindLoop(p, k)
    BY <1>3, <1>5, <2>2
  <2>4. StepPrimitiveChild(BehindLoop(p, k), places[n], cfg) = BehindLoop(p, Visit(k, places[n], cfg))
    BY <2>3, PrimitiveChildFollows
  <2>5. SoundLoop(Visit(k, places[n], cfg), cfg)
    BY <2>3, VisitSound
  <2>6. QED  BY <1>3, <2>1, <2>2, <2>3, <2>4, <2>5
<1>6. \A n \in 0 .. Len(places) : n \in T
  BY <1>4, <1>5, EveryPrefix
<1>7. SoundLoop(g[Len(places)], cfg) /\ f[Len(places)] = BehindLoop(p, g[Len(places)])
  BY <1>3, <1>6
<1>8. QED  BY <1>1, <1>2, <1>7

LEMMA RestKeyFollows ==
  ASSUME NEW cfg \in Modes, NEW p, IsIssues(p), NEW l, SoundLoop(l, cfg), NEW s, NEW property
  PROVE  ApplyRestKey(BehindLoop(p, l), s, property, cfg) =
           BehindLoop(p, ApplyRestKey(l, s, property, cfg))
<1>1. PICK b, bd : b = BehindLoop(p, l) /\ bd = Behind(p, l.data)
  OBVIOUS
<1>2. b = LoopOf(bd, l.out, l.aborted)
  BY <1>1 DEF BehindLoop
<1>3. b.data = bd /\ b.out = l.out /\ b.aborted = l.aborted
  BY <1>2 DEF LoopOf
<1>4. IsDataset(l.data) /\ IsIssues(l.data.issues) /\ l.data.typed \in BOOLEAN
  BY DatasetParts DEF SoundLoop, Sound
<1>5. /\ IsDataset(bd) /\ bd.value = l.data.value /\ bd.typed = l.data.typed
      /\ bd.issues = p \o l.data.issues
  BY <1>1, <1>4, BehindParts
<1>6. l = LoopOf(l.data, l.out, l.aborted)
  BY DEF SoundLoop
<1>7. CASE l.aborted \/ Declared(s, property)
  <2>1. ApplyRestKey(b, s, property, cfg) = b /\ ApplyRestKey(l, s, property, cfg) = l
    BY <1>3, <1>7 DEF ApplyRestKey, Declared
  <2>2. QED  BY <1>1, <2>1
<1>8. CASE ~ l.aborted /\ ~ Declared(s, property) /\ s.rest = "passthrough"
  <2>1. PICK o : o = Assign(l.out, property[1], property[2])
    OBVIOUS
  <2>2. PICK k : k = [l EXCEPT !.out = o]
    OBVIOUS
  <2>3. PICK e : e = [b EXCEPT !.out = o]
    OBVIOUS
  <2>4. ApplyRestKey(l, s, property, cfg) = k /\ ApplyRestKey(b, s, property, cfg) = e
    BY <1>3, <1>8, <2>1, <2>2, <2>3 DEF ApplyRestKey, Declared
  <2>5. k = LoopOf(l.data, o, l.aborted) /\ e = LoopOf(bd, o, l.aborted)
    BY <1>2, <1>6, <2>2, <2>3 DEF LoopOf
  <2>6. k.data = l.data /\ k.out = o /\ k.aborted = l.aborted
    BY <2>5 DEF LoopOf
  <2>7. QED  BY <1>1, <2>4, <2>5, <2>6 DEF BehindLoop
<1>9. CASE ~ l.aborted /\ Refused(s, property)
  <2>1. PICK path : path = <<property[1]>>
    OBVIOUS
  <2>2. PICK issue : issue = Issue("schema", "object", l.data.value, "error", s.message, path)
    OBVIOUS
  <2>3. PICK one : one = <<issue>>
    OBVIOUS
  <2>4. IsIssues(one)
    BY <2>2, <2>3, IssueIsIssue, OneIssue
  <2>5. PICK d : d = AddIssue(l.data, "schema", "object", s.message, path)
    OBVIOUS
  <2>6. PICK e : e = AddIssue(bd, "schema", "object", s.message, path)
    OBVIOUS
  <2>7. PICK t \in BOOLEAN : t = (l.data.typed /\ "schema" # "schema")
    OBVIOUS
  <2>8. d = Dataset(l.data.value, t, l.data.issues \o one)
    BY <1>4, <2>2, <2>3, <2>5, <2>7, AddIssueParts
  <2>9. e = Dataset(l.data.value, t, bd.issues \o one)
    <3>1. issue = Issue("schema", "object", bd.value, "error", s.message, path)
      BY <1>5, <2>2
    <3>2. t = (bd.typed /\ "schema" # "schema")
      BY <1>5, <2>7
    <3>3. IsDataset(bd) /\ bd.value = l.data.value
      BY <1>5
    <3>4. e = Dataset(bd.value, t, bd.issues \o one)
      BY <2>3, <2>6, <3>1, <3>2, <3>3, AddIssueParts
    <3>5. QED  BY <3>3, <3>4
  <2>10. bd.issues \o one = p \o (l.data.issues \o one)
    <3>1. PICK x : x = l.data.issues
      OBVIOUS
    <3>2. IsList(p) /\ IsList(x) /\ IsList(one)
      BY <1>4, <2>4, <3>1, IssuesAreLists
    <3>3. (p \o x) \o one = p \o (x \o one)
      BY <3>2, ConcatGroups
    <3>4. QED  BY <1>5, <3>1, <3>3
  <2>11. d.value = l.data.value /\ d.typed = t /\ d.issues = l.data.issues \o one
    BY <2>8 DEF Dataset
  <2>12. e = Behind(p, d)
    BY <2>9, <2>10, <2>11 DEF Behind
  <2>13. PICK k : k = [l EXCEPT !.data = d, !.aborted = cfg.reject]
    OBVIOUS
  <2>14. PICK m : m = [b EXCEPT !.data = e, !.aborted = cfg.reject]
    OBVIOUS
  <2>15. ApplyRestKey(l, s, property, cfg) = k /\ ApplyRestKey(b, s, property, cfg) = m
    BY <1>3, <1>9, <2>1, <2>5, <2>6, <2>13, <2>14 DEF ApplyRestKey, Refused, Declared
  <2>16. k = LoopOf(d, l.out, cfg.reject)
    BY <1>6, <2>13 DEF LoopOf
  <2>17. m = LoopOf(e, l.out, cfg.reject)
    BY <1>2, <2>14 DEF LoopOf
  <2>18. k.data = d /\ k.out = l.out /\ k.aborted = cfg.reject
    BY <2>16 DEF LoopOf
  <2>19. QED  BY <1>1, <2>12, <2>15, <2>17, <2>18 DEF BehindLoop
<1>10. QED  BY <1>7, <1>8, <1>9 DEF Refused

LEMMA RestFollows ==
  ASSUME NEW cfg \in Modes, NEW p, IsIssues(p), NEW l, SoundLoop(l, cfg), NEW s,
         NEW own, Len(own) \in Nat
  PROVE  /\ ApplyRest(BehindLoop(p, l), s, own, cfg) = BehindLoop(p, ApplyRest(l, s, own, cfg))
         /\ SoundLoop(ApplyRest(l, s, own, cfg), cfg)
<1>1. PICK f : f = RestVisits(BehindLoop(p, l), s, own, cfg)
  OBVIOUS
<1>2. PICK g : g = RestVisits(l, s, own, cfg)
  OBVIOUS
<1>3. PICK T : T = {n \in 0 .. Len(own) : SoundLoop(g[n], cfg) /\ f[n] = BehindLoop(p, g[n])}
  OBVIOUS
<1>4. 0 \in T
  <2>1. f[0] = BehindLoop(p, l) /\ g[0] = l
    BY <1>1, <1>2, RestVisitsLoop
  <2>2. QED  BY <1>3, <2>1
<1>5. ASSUME NEW n \in 1 .. Len(own), n - 1 \in T PROVE n \in T
  <2>1. /\ f[n] = ApplyRestKey(f[n - 1], s, own[n], cfg)
        /\ g[n] = ApplyRestKey(g[n - 1], s, own[n], cfg)
    BY <1>1, <1>2, RestVisitsLoop
  <2>2. PICK k : k = g[n - 1]
    OBVIOUS
  <2>3. SoundLoop(k, cfg) /\ f[n - 1] = BehindLoop(p, k)
    BY <1>3, <1>5, <2>2
  <2>4. ApplyRestKey(BehindLoop(p, k), s, own[n], cfg) = BehindLoop(p, ApplyRestKey(k, s, own[n], cfg))
    BY <2>3, RestKeyFollows
  <2>5. SoundLoop(ApplyRestKey(k, s, own[n], cfg), cfg)
    BY <2>3, RestKeySound
  <2>6. QED  BY <1>3, <2>1, <2>2, <2>3, <2>4, <2>5
<1>6. \A n \in 0 .. Len(own) : n \in T
  BY <1>4, <1>5, EveryPrefix
<1>7. SoundLoop(g[Len(own)], cfg) /\ f[Len(own)] = BehindLoop(p, g[Len(own)])
  BY <1>3, <1>6
<1>8. BehindLoop(p, l).aborted = l.aborted
  BY DEF BehindLoop, LoopOf
<1>9. QED  BY <1>1, <1>2, <1>7, <1>8 DEF ApplyRest

LEMMA LeaveFollows ==
  ASSUME NEW cfg \in Modes, NEW p, IsIssues(p), NEW l, SoundLoop(l, cfg), NEW v
  PROVE  Leave(BehindLoop(p, l), v) = Behind(p, Leave(l, v))
<1>1. PICK bd : bd = Behind(p, l.data)
  OBVIOUS
<1>2. BehindLoop(p, l).data = bd /\ BehindLoop(p, l).aborted = l.aborted
  BY <1>1 DEF BehindLoop, LoopOf
<1>3. IsDataset(l.data)
  BY DEF SoundLoop, Sound
<1>4. CASE l.aborted
  BY <1>1, <1>2, <1>4 DEF Leave
<1>5. CASE ~ l.aborted
  <2>1. PICK d : d = l.data
    OBVIOUS
  <2>2. d = Dataset(d.value, d.typed, d.issues)
    BY <1>3, <2>1, DatasetParts
  <2>3. PICK e : e = [d EXCEPT !.value = v]
    OBVIOUS
  <2>4. e = Dataset(v, d.typed, d.issues)
    BY <2>2, <2>3 DEF Dataset
  <2>5. e.value = v /\ e.typed = d.typed /\ e.issues = d.issues
    BY <2>4 DEF Dataset
  <2>6. PICK be : be = [bd EXCEPT !.value = v]
    OBVIOUS
  <2>7. be = Dataset(v, d.typed, p \o d.issues)
    BY <1>1, <2>1, <2>6 DEF Behind, Dataset
  <2>8. be = Behind(p, e)
    BY <2>5, <2>7 DEF Behind
  <2>9. QED  BY <1>2, <1>5, <2>1, <2>3, <2>6, <2>8 DEF Leave
<1>6. QED  BY <1>4, <1>5

LEMMA FreshIsClean ==
  ASSUME NEW v
  PROVE  IsClean(Fresh(v))
BY FreshParts, NoIssues DEF IsClean

LEMMA EnterFollows ==
  ASSUME NEW c, IsDataset(c), NEW cfg \in Modes
  PROVE  /\ Enter(c) = BehindLoop(c.issues, Enter(Fresh(c.value)))
         /\ SoundLoop(Enter(Fresh(c.value)), cfg)
<1>1. PICK v : v = c.value
  OBVIOUS
<1>2. IsIssues(c.issues) /\ c = Dataset(c.value, c.typed, c.issues)
  BY DatasetParts
<1>3. PICK e : e = [c EXCEPT !.typed = TRUE]
  OBVIOUS
<1>4. e = Dataset(v, TRUE, c.issues)
  BY <1>1, <1>2, <1>3 DEF Dataset
<1>5. PICK f : f = [Fresh(v) EXCEPT !.typed = TRUE]
  OBVIOUS
<1>6. f = Dataset(v, TRUE, <<>>)
  BY <1>5 DEF Fresh, Dataset
<1>7. f.value = v /\ f.typed = TRUE /\ f.issues = <<>>
  BY <1>6 DEF Dataset
<1>8. c.issues \o <<>> = c.issues
  <2>1. PICK x : x = c.issues
    OBVIOUS
  <2>2. IsList(x)
    BY <1>2, <2>1, IssuesAreLists
  <2>3. x \o <<>> = x
    BY <2>2, ConcatParts
  <2>4. QED  BY <2>1, <2>3
<1>9. e = Behind(c.issues, f)
  BY <1>4, <1>7, <1>8 DEF Behind
<1>10. PICK l : l = Enter(Fresh(v))
  OBVIOUS
<1>11. l = LoopOf(f, <<>>, FALSE)
  BY <1>5, <1>10 DEF Enter, LoopOf
<1>12. l.data = f /\ l.out = <<>> /\ l.aborted = FALSE
  BY <1>11 DEF LoopOf
<1>13. Enter(c) = LoopOf(e, <<>>, FALSE)
  BY <1>3 DEF Enter, LoopOf
<1>14. Enter(c) = BehindLoop(c.issues, l)
  BY <1>9, <1>12, <1>13 DEF BehindLoop
<1>15. SoundLoop(l, cfg)
  BY <1>10, FreshIsClean, EnterLoops DEF Loops
<1>16. QED  BY <1>1, <1>10, <1>14, <1>15

-----------------------------------------------------------------------------
(* The step of a schema, from the steps of its children                    *)

LEMMA SeatsFollow ==
  ASSUME NEW cfg \in Modes, NEW c, IsDataset(c), NEW places, IsList(places),
         Range(Seated(c, places, cfg)) \subseteq Cursors,
         \A y \in Cursors :
           <<y[1], Fresh(y[2].value)>> \in Range(Children(places)) => Follows(y[1], y[2], y[3]),
         NEW i \in 1 .. Len(places), NEW k, SoundLoop(k, cfg), ~ k.aborted,
         StepVisits(Enter(c), places, cfg)[i - 1] = BehindLoop(c.issues, k)
  PROVE  Follows(places[i].child, Seat(Behind(c.issues, k.data), places[i].v), cfg)
<1>1. PICK f : f = StepVisits(Enter(c), places, cfg)
  OBVIOUS
<1>2. PICK bd : bd = Behind(c.issues, k.data)
  OBVIOUS
<1>3. f[i - 1].data = bd /\ f[i - 1].aborted = k.aborted
  BY <1>1, <1>2 DEF BehindLoop, LoopOf
<1>4. DOMAIN places = 1 .. Len(places)
  BY ListDomain
<1>5. PICK seat : seat = Seat(bd, places[i].v)
  OBVIOUS
<1>6. PICK x : x = <<places[i].child, seat, cfg>>
  OBVIOUS
<1>7. x \in Range(Seated(c, places, cfg))
  <2>1. PICK D : D = {j \in DOMAIN places : ~ f[j - 1].aborted}
    OBVIOUS
  <2>2. i \in D
    BY <1>3, <1>4, <2>1
  <2>3. PICK q : q = Seated(c, places, cfg)
    OBVIOUS
  <2>4. q = [j \in D |-> <<places[j].child, Seat(f[j - 1].data, places[j].v), cfg>>]
    BY <1>1, <2>1, <2>3 DEF Seated
  <2>5. q[i] = x /\ i \in DOMAIN q
    BY <1>3, <1>5, <1>6, <2>2, <2>4
  <2>6. QED  BY <2>3, <2>5 DEF Range
<1>8. x \in Cursors
  BY <1>7
<1>9. seat.value = places[i].v
  <2>1. IsDataset(k.data) /\ IsIssues(c.issues)
    BY DatasetParts DEF SoundLoop, Sound
  <2>2. IsDataset(bd)
    BY <1>2, <2>1, BehindParts
  <2>3. bd = Dataset(bd.value, bd.typed, bd.issues)
    BY <2>2, DatasetParts
  <2>4. PICK v : v = places[i].v
    OBVIOUS
  <2>5. PICK e : e = [bd EXCEPT !.value = v, !.typed = TRUE]
    OBVIOUS
  <2>6. e = Dataset(v, TRUE, bd.issues)
    BY <2>3, <2>5 DEF Dataset
  <2>7. e.value = v
    BY <2>6 DEF Dataset
  <2>8. QED  BY <1>5, <2>4, <2>5, <2>7 DEF Seat
<1>10. PICK inner : inner = <<places[i].child, Fresh(places[i].v)>>
  OBVIOUS
<1>11. inner \in Range(Children(places))
  <2>1. Children(places)[i] = inner /\ i \in DOMAIN Children(places)
    BY <1>4, <1>10 DEF Children
  <2>2. QED  BY <2>1 DEF Range
<1>12. x[1] = places[i].child /\ x[2] = seat /\ x[3] = cfg
  BY <1>6
<1>13. <<x[1], Fresh(x[2].value)>> = inner
  BY <1>9, <1>10, <1>12
<1>14. Follows(x[1], x[2], x[3])
  BY <1>8, <1>11, <1>13
<1>15. QED  BY <1>2, <1>5, <1>12, <1>14

LEMMA ContainerFollows ==
  ASSUME NEW cfg \in Modes, NEW c, IsDataset(c), NEW places, IsList(places),
         \A x \in Range(Children(places)) : Good(x[1], x[2]),
         Range(Seated(c, places, cfg)) \subseteq Cursors,
         \A y \in Cursors :
           <<y[1], Fresh(y[2].value)>> \in Range(Children(places)) => Follows(y[1], y[2], y[3])
  PROVE  /\ SoundLoop(Visits(Enter(Fresh(c.value)), places, cfg)[Len(places)], cfg)
         /\ StepVisits(Enter(c), places, cfg)[Len(places)] =
              BehindLoop(c.issues, Visits(Enter(Fresh(c.value)), places, cfg)[Len(places)])
<1>1. PICK l : l = Enter(Fresh(c.value))
  OBVIOUS
<1>2. Enter(c) = BehindLoop(c.issues, l) /\ SoundLoop(l, cfg)
  BY <1>1, EnterFollows
<1>3. IsIssues(c.issues) /\ Len(places) \in Nat
  BY DatasetParts, ListDomain
<1>4. \A i \in 1 .. Len(places) : Sound(Run(places[i].child, Fresh(places[i].v), cfg), cfg)
  BY GoodPlaces DEF Good, Answers
<1>5. ASSUME NEW i \in 1 .. Len(places), NEW k, SoundLoop(k, cfg), ~ k.aborted,
             StepVisits(BehindLoop(c.issues, l), places, cfg)[i - 1] = BehindLoop(c.issues, k)
      PROVE  Follows(places[i].child, Seat(Behind(c.issues, k.data), places[i].v), cfg)
  <2>1. StepVisits(Enter(c), places, cfg)[i - 1] = BehindLoop(c.issues, k)
    BY <1>2, <1>5
  <2>2. QED  BY <1>5, <2>1, SeatsFollow
<1>6. /\ SoundLoop(Visits(l, places, cfg)[Len(places)], cfg)
      /\ StepVisits(BehindLoop(c.issues, l), places, cfg)[Len(places)] =
           BehindLoop(c.issues, Visits(l, places, cfg)[Len(places)])
  BY <1>2, <1>3, <1>4, <1>5, StepVisitsFollow
<1>7. QED  BY <1>1, <1>2, <1>6

LEMMA MismatchFollows ==
  ASSUME NEW c, IsDataset(c), NEW s
  PROVE  Mismatch(c, s) = Behind(c.issues, Mismatch(Fresh(c.value), s))
<1>1. PICK issue : issue = SchemaIssue(c, s)
  OBVIOUS
<1>2. PICK d : d = Fresh(c.value)
  OBVIOUS
<1>3. IsDataset(d) /\ d.value = c.value /\ d.issues = <<>>
  BY <1>2, FreshParts
<1>4. SchemaIssue(d, s) = issue
  BY <1>1, <1>3 DEF SchemaIssue
<1>5. PICK one : one = <<issue>>
  OBVIOUS
<1>6. IsIssues(one)
  BY <1>1, <1>5, IssueIsIssue, OneIssue DEF SchemaIssue
<1>7. <<>> \o one = one
  <2>1. IsList(one)
    BY <1>6, IssuesAreLists
  <2>2. QED  BY <2>1, ConcatParts
<1>8. PICK m : m = Mismatch(d, s)
  OBVIOUS
<1>9. m = Dataset(c.value, FALSE, one)
  BY <1>3, <1>4, <1>5, <1>7, <1>8, MismatchParts
<1>10. m.value = c.value /\ m.typed = FALSE /\ m.issues = one
  BY <1>9 DEF Dataset
<1>11. Mismatch(c, s) = Dataset(c.value, FALSE, c.issues \o one)
  BY <1>1, <1>5, MismatchParts
<1>12. QED  BY <1>2, <1>8, <1>10, <1>11 DEF Behind

LEMMA StepObjectFollows ==
  ASSUME NEW cfg \in Modes, NEW s, IsList(s.keys), NEW c, IsDataset(c), IsValue(c.value),
         LET places == KeyPlaces(s, c.value.own)
         IN  IsObject(c.value) =>
               /\ \A x \in Range(Children(places)) : Good(x[1], x[2])
               /\ Range(Seated(c, places, cfg)) \subseteq Cursors
               /\ \A y \in Cursors :
                    <<y[1], Fresh(y[2].value)>> \in Range(Children(places)) => Follows(y[1], y[2], y[3])
  PROVE  StepObject(s, c, cfg) = Behind(c.issues, RunObject(s, Fresh(c.value), cfg))
<1>1. Fresh(c.value).value = c.value
  BY FreshParts
<1>2. CASE ~ IsObject(c.value)
  BY <1>1, <1>2, MismatchFollows DEF StepObject, RunObject
<1>3. CASE IsObject(c.value)
  <2>1. PICK own : own = c.value.own
    OBVIOUS
  <2>2. PICK p : p = KeyPlaces(s, own)
    OBVIOUS
  <2>3. IsList(own) /\ Len(own) \in Nat /\ IsList(p)
    BY <1>3, <2>1, <2>2, ListDomain, KeyPlacesList DEF IsValue
  <2>4. PICK l : l = Visits(Enter(Fresh(c.value)), p, cfg)[Len(p)]
    OBVIOUS
  <2>5. SoundLoop(l, cfg) /\ StepVisits(Enter(c), p, cfg)[Len(p)] = BehindLoop(c.issues, l)
    BY <1>3, <2>1, <2>2, <2>3, <2>4, ContainerFollows
  <2>6. PICK e : e = ApplyRest(l, s, own, cfg)
    OBVIOUS
  <2>7. IsIssues(c.issues)
    BY DatasetParts
  <2>8. ApplyRest(BehindLoop(c.issues, l), s, own, cfg) = BehindLoop(c.issues, e) /\ SoundLoop(e, cfg)
    BY <2>3, <2>5, <2>6, <2>7, RestFollows
  <2>9. PICK v : v = [type |-> "object", own |-> e.out]
    OBVIOUS
  <2>10. BehindLoop(c.issues, e).out = e.out
    BY DEF BehindLoop, LoopOf
  <2>11. Leave(BehindLoop(c.issues, e), v) = Behind(c.issues, Leave(e, v))
    BY <2>7, <2>8, LeaveFollows
  <2>12. RunObject(s, Fresh(c.value), cfg) = Leave(e, v)
    BY <1>1, <1>3, <2>1, <2>2, <2>4, <2>6, <2>9 DEF RunObject
  <2>13. StepObject(s, c, cfg) = Leave(BehindLoop(c.issues, e), v)
    BY <1>3, <2>1, <2>2, <2>5, <2>8, <2>9, <2>10 DEF StepObject
  <2>14. QED  BY <2>11, <2>12, <2>13
<1>4. QED  BY <1>2, <1>3

LEMMA StepArrayFollows ==
  ASSUME NEW cfg \in Modes, NEW s, NEW c, IsDataset(c), IsValue(c.value),
         LET places == ArrayPlaces(s, c.value.items)
         IN  IsArray(c.value) =>
               /\ \A x \in Range(Children(places)) : Good(x[1], x[2])
               /\ Range(Seated(c, places, cfg)) \subseteq Cursors
               /\ \A y \in Cursors :
                    <<y[1], Fresh(y[2].value)>> \in Range(Children(places)) => Follows(y[1], y[2], y[3])
  PROVE  StepArray(s, c, cfg) = Behind(c.issues, RunArray(s, Fresh(c.value), cfg))
<1>1. Fresh(c.value).value = c.value
  BY FreshParts
<1>2. CASE ~ IsArray(c.value)
  BY <1>1, <1>2, MismatchFollows DEF StepArray, RunArray
<1>3. CASE IsArray(c.value)
  <2>1. PICK items : items = c.value.items
    OBVIOUS
  <2>2. PICK p : p = ArrayPlaces(s, items)
    OBVIOUS
  <2>3. IsList(p)
    BY <1>3, <2>1, <2>2, ItemPlacesList DEF IsValue, ArrayPlaces
  <2>4. PICK l : l = Visits(Enter(Fresh(c.value)), p, cfg)[Len(p)]
    OBVIOUS
  <2>5. SoundLoop(l, cfg) /\ StepVisits(Enter(c), p, cfg)[Len(p)] = BehindLoop(c.issues, l)
    BY <1>3, <2>1, <2>2, <2>3, <2>4, ContainerFollows
  <2>6. IsIssues(c.issues)
    BY DatasetParts
  <2>7. PICK v : v = Items(l.out)
    OBVIOUS
  <2>8. BehindLoop(c.issues, l).out = l.out
    BY DEF BehindLoop, LoopOf
  <2>9. Leave(BehindLoop(c.issues, l), v) = Behind(c.issues, Leave(l, v))
    BY <2>5, <2>6, LeaveFollows
  <2>10. RunArray(s, Fresh(c.value), cfg) = Leave(l, v)
    BY <1>1, <1>3, <2>1, <2>2, <2>4, <2>7 DEF RunArray, RunItems, ArrayPlaces
  <2>11. StepArray(s, c, cfg) = Leave(BehindLoop(c.issues, l), v)
    BY <1>3, <2>1, <2>2, <2>5, <2>7, <2>8 DEF StepArray
  <2>12. QED  BY <2>9, <2>10, <2>11
<1>4. QED  BY <1>2, <1>3

LEMMA StepPrimitiveObjectFollows ==
  ASSUME NEW cfg \in Modes, NEW s, s.type = "object", IsSchema(s), AllCodes(s),
         NEW c, IsDataset(c), IsValue(c.value),
         LET places == KeyPlaces(s, c.value.own)
         IN  IsObject(c.value) => Range(Children(places)) \subseteq Calls
  PROVE  StepPrimitiveObject(s, c, cfg) = Behind(c.issues, RunObject(s, Fresh(c.value), cfg))
<1>1. Fresh(c.value).value = c.value
  BY FreshParts
<1>2. CASE ~ IsObject(c.value)
  BY <1>1, <1>2, MismatchFollows DEF StepPrimitiveObject, RunObject
<1>3. CASE IsObject(c.value)
  <2>1. PICK own : own = c.value.own
    OBVIOUS
  <2>2. PICK p : p = KeyPlaces(s, own)
    OBVIOUS
  <2>3. /\ IsList(s.keys) /\ IsList(s.kids) /\ Len(s.keys) = Len(s.kids)
        /\ IsList(own) /\ Len(own) \in Nat /\ IsList(p) /\ Len(p) \in Nat
    BY <1>3, <2>1, <2>2, ListDomain, KeyPlacesList DEF IsValue, IsSchema
  <2>4. DOMAIN p = 1 .. Len(p) /\ DOMAIN p = DOMAIN s.keys /\ DOMAIN s.keys = DOMAIN s.kids
    BY <2>2, <2>3, ListDomain DEF KeyPlaces
  <2>5. ASSUME NEW i \in 1 .. Len(p)
        PROVE  /\ ~ p[i].omit
               /\ Run(p[i].child, Fresh(p[i].v), cfg) = RunPrimitive(p[i].child, Fresh(p[i].v))
               /\ Sound(Run(p[i].child, Fresh(p[i].v), cfg), cfg)
    <3>1. i \in DOMAIN s.keys /\ i \in DOMAIN s.kids /\ i \in DOMAIN p
      BY <2>4
    <3>2. p[i] = Place(s.keys[i], s.kids[i], Get(own, s.keys[i]),
                       s.optionalKeys /\ Omittable(s.kids[i]))
      BY <2>2, <3>1 DEF KeyPlaces
    <3>3. PICK k : k = s.kids[i]
      OBVIOUS
    <3>4. PICK omit \in BOOLEAN : omit = (s.optionalKeys /\ Omittable(k))
      OBVIOUS
    <3>5. PICK v : v = Get(own, s.keys[i])
      OBVIOUS
    <3>6. p[i].child = k /\ p[i].v = v /\ p[i].omit = omit
      BY <3>2, <3>3, <3>4, <3>5 DEF Place
    <3>7. k.type \in {"string", "number", "boolean"}
      BY <3>1, <3>3 DEF AllCodes, Code, Native
    <3>8. ~ Omittable(k)
      BY <3>7 DEF Omittable, TypeOf
    <3>9. PICK x : x = <<k, Fresh(v)>>
      OBVIOUS
    <3>10. x \in Calls
      <4>1. Children(p)[i] = x /\ i \in DOMAIN Children(p)
        BY <3>1, <3>6, <3>9 DEF Children
      <4>2. x \in Range(Children(p))
        BY <4>1 DEF Range
      <4>3. QED  BY <1>3, <2>1, <2>2, <4>2
    <3>11. x[1] = k /\ x[2] = Fresh(v)
      BY <3>9
    <3>12. Run(k, Fresh(v), cfg) = RunBody(k, Fresh(v), cfg)
      BY <3>10, <3>11, RunAssumption
    <3>13. RunBody(k, Fresh(v), cfg) = RunPrimitive(k, Fresh(v))
      BY <3>7 DEF RunBody
    <3>14. Sound(Run(k, Fresh(v), cfg), cfg)
      BY <3>10, <3>11, RunAnswers DEF Answers
    <3>15. QED  BY <3>4, <3>6, <3>8, <3>12, <3>13, <3>14
  <2>6. PICK start : start = Enter(Fresh(c.value))
    OBVIOUS
  <2>7. Enter(c) = BehindLoop(c.issues, start) /\ SoundLoop(start, cfg) /\ IsIssues(c.issues)
    BY <2>6, EnterFollows, DatasetParts
  <2>8. PICK l : l = Visits(start, p, cfg)[Len(p)]
    OBVIOUS
  <2>9. SoundLoop(l, cfg) /\ PrimitiveVisits(Enter(c), p, cfg)[Len(p)] = BehindLoop(c.issues, l)
    BY <2>3, <2>5, <2>7, <2>8, PrimitiveVisitsFollow
  <2>10. PICK e : e = ApplyRest(l, s, own, cfg)
    OBVIOUS
  <2>11. ApplyRest(BehindLoop(c.issues, l), s, own, cfg) = BehindLoop(c.issues, e) /\ SoundLoop(e, cfg)
    BY <2>3, <2>7, <2>9, <2>10, RestFollows
  <2>12. PICK v : v = [type |-> "object", own |-> e.out]
    OBVIOUS
  <2>13. BehindLoop(c.issues, e).out = e.out
    BY DEF BehindLoop, LoopOf
  <2>14. Leave(BehindLoop(c.issues, e), v) = Behind(c.issues, Leave(e, v))
    BY <2>7, <2>11, LeaveFollows
  <2>15. RunObject(s, Fresh(c.value), cfg) = Leave(e, v)
    BY <1>1, <1>3, <2>1, <2>2, <2>6, <2>8, <2>10, <2>12 DEF RunObject
  <2>16. StepPrimitiveObject(s, c, cfg) = Leave(BehindLoop(c.issues, e), v)
    BY <1>3, <2>1, <2>2, <2>9, <2>11, <2>12, <2>13 DEF StepPrimitiveObject
  <2>17. QED  BY <2>14, <2>15, <2>16
<1>4. QED  BY <1>2, <1>3

LEMMA BehindEmpty ==
  ASSUME NEW c, IsDataset(c), NEW v
  PROVE  Behind(c.issues, Dataset(v, TRUE, <<>>)) = Dataset(v, TRUE, c.issues)
<1>1. PICK x : x = c.issues
  OBVIOUS
<1>2. IsList(x)
  BY <1>1, DatasetParts, IssuesAreLists
<1>3. x \o <<>> = x
  BY <1>2, ConcatParts
<1>4. PICK d : d = Dataset(v, TRUE, <<>>)
  OBVIOUS
<1>5. d.value = v /\ d.typed = TRUE /\ d.issues = <<>>
  BY <1>4 DEF Dataset
<1>6. QED  BY <1>1, <1>3, <1>4, <1>5 DEF Behind

LEMMA StepPrimitiveFollows ==
  ASSUME NEW s, NEW c, IsDataset(c)
  PROVE  StepPrimitive(s, c) = Behind(c.issues, RunPrimitive(s, Fresh(c.value)))
<1>1. PICK d : d = Fresh(c.value)
  OBVIOUS
<1>2. d.value = c.value
  BY <1>1, FreshParts
<1>3. CASE IsPrimitive(s.type, c.value)
  <2>1. c = Dataset(c.value, c.typed, c.issues)
    BY DatasetParts
  <2>2. PICK e : e = [c EXCEPT !.typed = TRUE]
    OBVIOUS
  <2>3. e = Dataset(c.value, TRUE, c.issues)
    BY <2>1, <2>2 DEF Dataset
  <2>4. StepPrimitive(s, c) = e
    BY <1>3, <2>2 DEF StepPrimitive
  <2>5. RunPrimitive(s, d) = Dataset(c.value, TRUE, <<>>)
    BY <1>1, <1>3, RunPrimitiveParts
  <2>6. QED  BY <1>1, <2>3, <2>4, <2>5, BehindEmpty
<1>4. CASE ~ IsPrimitive(s.type, c.value)
  <2>1. StepPrimitive(s, c) = Mismatch(c, s)
    BY <1>4 DEF StepPrimitive
  <2>2. RunPrimitive(s, d) = Mismatch(d, s)
    BY <1>2, <1>4 DEF RunPrimitive, Accept
  <2>3. QED  BY <1>1, <2>1, <2>2, MismatchFollows
<1>5. QED  BY <1>3, <1>4

LEMMA StepOptionalFollows ==
  ASSUME NEW cfg, NEW s, NEW c, IsDataset(c),
         c.value \notin Absent(s) => Follows(s.wrapped, c, cfg)
  PROVE  StepOptional(s, c, cfg) = Behind(c.issues, RunOptional(s, Fresh(c.value), cfg))
<1>1. PICK d : d = Fresh(c.value)
  OBVIOUS
<1>2. d.value = c.value
  BY <1>1, FreshParts
<1>3. CASE c.value \notin Absent(s)
  <2>1. StepOptional(s, c, cfg) = Step(s.wrapped, c, cfg)
    BY <1>3 DEF StepOptional
  <2>2. RunOptional(s, d, cfg) = Run(s.wrapped, d, cfg)
    BY <1>2, <1>3 DEF RunOptional
  <2>3. QED  BY <1>1, <1>3, <2>1, <2>2 DEF Follows
<1>4. CASE c.value \in Absent(s)
  <2>1. PICK v : v = IF s.default.given THEN s.default.value ELSE c.value
    OBVIOUS
  <2>2. c = Dataset(c.value, c.typed, c.issues)
    BY DatasetParts
  <2>3. PICK e : e = [c EXCEPT !.typed = TRUE, !.value = v]
    OBVIOUS
  <2>4. e = Dataset(v, TRUE, c.issues)
    BY <2>2, <2>3 DEF Dataset
  <2>5. StepOptional(s, c, cfg) = e
    BY <1>4, <2>1, <2>3 DEF StepOptional
  <2>6. PICK f : f = [d EXCEPT !.typed = TRUE, !.value = v]
    OBVIOUS
  <2>7. f = Dataset(v, TRUE, <<>>)
    BY <1>1, <2>6 DEF Fresh, Dataset
  <2>8. RunOptional(s, d, cfg) = f
    BY <1>2, <1>4, <2>1, <2>6 DEF RunOptional
  <2>9. QED  BY <1>1, <2>4, <2>5, <2>7, <2>8, BehindEmpty
<1>5. QED  BY <1>3, <1>4

LEMMA StepFallbackFollows ==
  ASSUME NEW cfg, NEW s, NEW c, IsDataset(Run(s, Fresh(c.value), cfg))
  PROVE  StepFallback(s, c, cfg) = Behind(c.issues, Run(s, Fresh(c.value), cfg))
<1>1. PICK d : d = Run(s, Fresh(c.value), cfg)
  OBVIOUS
<1>2. d = Dataset(d.value, d.typed, d.issues)
  BY <1>1, DatasetParts
<1>3. PICK q : q = c.issues \o d.issues
  OBVIOUS
<1>4. PICK e : e = [d EXCEPT !.issues = q]
  OBVIOUS
<1>5. e = Dataset(d.value, d.typed, q)
  BY <1>2, <1>4 DEF Dataset
<1>6. StepFallback(s, c, cfg) = e
  BY <1>1, <1>3, <1>4 DEF StepFallback
<1>7. QED  BY <1>1, <1>3, <1>5, <1>6 DEF Behind

(* A compiled step leaves the cursor as `~run` of a fresh dataset would,   *)
(* with the issues of the run after those it found.                        *)
THEOREM StepFollowsRun ==
  \A x \in Cursors : Follows(x[1], x[2], x[3])
<1>1. PICK bad : bad = {x \in Cursors : ~ Follows(x[1], x[2], x[3])}
  OBVIOUS
<1>2. SUFFICES ASSUME bad # {} PROVE FALSE
  BY <1>1
<1>3. PICK ranks : ranks = {Rank(<<x[1], Fresh(x[2].value)>>) : x \in bad}
  OBVIOUS
<1>4. \A x \in Cursors : /\ <<x[1], Fresh(x[2].value)>> \in Calls
                         /\ IsDataset(x[2]) /\ x[2].typed
                         /\ x[3] \in Configs
                         /\ Range(InnerSteps(x[1], x[2], x[3])) \subseteq Cursors
  BY CursorsAssumption DEF AreSteps
<1>5. ranks \in SUBSET Nat /\ ranks # {}
  BY <1>1, <1>2, <1>3, <1>4, CallsAssumption
<1>6. PICK n \in ranks : \A m \in ranks : n <= m
  BY <1>5, LeastNatural
<1>7. PICK x \in bad : Rank(<<x[1], Fresh(x[2].value)>>) = n
  BY <1>3, <1>6
<1>8. x \in Cursors /\ ~ Follows(x[1], x[2], x[3])
  BY <1>1, <1>7
<1>9. PICK s, c, cfg : s = x[1] /\ c = x[2] /\ cfg = x[3]
  OBVIOUS
<1>10. PICK d : d = Fresh(c.value)
  OBVIOUS
<1>11. PICK call_ : call_ = <<s, d>>
  OBVIOUS
<1>12. call_[1] = s /\ call_[2] = d /\ d.value = c.value
  BY <1>10, <1>11, FreshParts
<1>13. /\ call_ \in Calls /\ IsDataset(c) /\ cfg \in Modes
       /\ Range(InnerSteps(s, c, cfg)) \subseteq Cursors
  BY <1>4, <1>8, <1>9, <1>10, <1>11 DEF Modes
<1>14. IsSchema(s) /\ IsValue(c.value)
  BY <1>12, <1>13, CallsAssumption
<1>15. Run(s, d, cfg) = RunBody(s, d, cfg) /\ IsDataset(Run(s, d, cfg))
  BY <1>12, <1>13, RunAssumption, RunAnswers DEF Answers, Sound
<1>16. \A y \in Range(Inner(s, d)) : y \in Calls /\ Rank(y) < Rank(call_)
  BY <1>12, <1>13, CallsAssumption
<1>17. \A y \in Range(Inner(s, d)) : Good(y[1], y[2])
  BY <1>16, RunAnswers DEF Good
<1>18. ASSUME NEW y \in Cursors, <<y[1], Fresh(y[2].value)>> \in Range(Inner(s, d))
       PROVE  Follows(y[1], y[2], y[3])
  <2>1. PICK inner : inner = <<y[1], Fresh(y[2].value)>>
    OBVIOUS
  <2>2. inner \in Calls /\ Rank(inner) < Rank(call_) /\ Rank(call_) = n
    BY <1>7, <1>9, <1>10, <1>11, <1>16, <1>18, <2>1
  <2>3. Rank(inner) \in Nat /\ n \in Nat
    BY <1>5, <1>6, <2>2, CallsAssumption
  <2>4. Rank(inner) \notin ranks
    BY <1>5, <1>6, <2>2, <2>3
  <2>5. y \notin bad
    BY <1>3, <2>1, <2>4
  <2>6. QED  BY <1>1, <1>18, <2>5
<1>19. Step(s, c, cfg) = StepBody(s, c, cfg)
  BY <1>8, <1>9, StepAssumption
<1>20. CASE Code(s)
  <2>1. StepBody(s, c, cfg) = StepPrimitive(s, c)
    BY <1>20 DEF StepBody, Code, Native
  <2>2. RunBody(s, d, cfg) = RunPrimitive(s, d)
    BY <1>20 DEF RunBody, Code, Native
  <2>3. Follows(s, c, cfg)
    BY <1>10, <1>13, <1>15, <1>19, <2>1, <2>2, StepPrimitiveFollows DEF Follows
  <2>4. QED  BY <1>8, <1>9, <2>3
<1>21. CASE s.type = "object" /\ AllCodes(s)
  <2>1. StepBody(s, c, cfg) = StepPrimitiveObject(s, c, cfg)
    BY <1>21 DEF StepBody, Code, Native
  <2>2. RunBody(s, d, cfg) = RunObject(s, d, cfg)
    BY <1>21 DEF RunBody
  <2>3. IsObject(c.value) => Range(Children(KeyPlaces(s, c.value.own))) \subseteq Calls
    BY <1>12, <1>16, <1>21 DEF Inner
  <2>4. Follows(s, c, cfg)
    BY <1>10, <1>13, <1>14, <1>15, <1>19, <1>21, <2>1, <2>2, <2>3, StepPrimitiveObjectFollows DEF Follows
  <2>5. QED  BY <1>8, <1>9, <2>4
<1>22. CASE s.type = "object" /\ ~ AllCodes(s)
  <2>1. StepBody(s, c, cfg) = StepObject(s, c, cfg)
    BY <1>22 DEF StepBody, Code, Native
  <2>2. RunBody(s, d, cfg) = RunObject(s, d, cfg)
    BY <1>22 DEF RunBody
  <2>3. IsObject(c.value) =>
          /\ Inner(s, d) = Children(KeyPlaces(s, c.value.own))
          /\ InnerSteps(s, c, cfg) = Seated(c, KeyPlaces(s, c.value.own), cfg)
    BY <1>12, <1>22 DEF Inner, InnerSteps
  <2>4. IsList(s.keys)
    BY <1>14, <1>22 DEF IsSchema
  <2>5. StepObject(s, c, cfg) = Behind(c.issues, RunObject(s, Fresh(c.value), cfg))
    BY <1>13, <1>14, <1>17, <1>18, <2>3, <2>4, StepObjectFollows
  <2>6. Follows(s, c, cfg)
    BY <1>10, <1>15, <1>19, <2>1, <2>2, <2>5 DEF Follows
  <2>7. QED  BY <1>8, <1>9, <2>6
<1>23. CASE s.type = "array"
  <2>1. StepBody(s, c, cfg) = StepArray(s, c, cfg)
    BY <1>23 DEF StepBody, Code, Native
  <2>2. RunBody(s, d, cfg) = RunArray(s, d, cfg)
    BY <1>23 DEF RunBody
  <2>3. IsArray(c.value) =>
          /\ Inner(s, d) = Children(ArrayPlaces(s, c.value.items))
          /\ InnerSteps(s, c, cfg) = Seated(c, ArrayPlaces(s, c.value.items), cfg)
    BY <1>12, <1>23 DEF Inner, InnerSteps
  <2>4. StepArray(s, c, cfg) = Behind(c.issues, RunArray(s, Fresh(c.value), cfg))
    BY <1>13, <1>14, <1>17, <1>18, <2>3, StepArrayFollows
  <2>5. Follows(s, c, cfg)
    BY <1>10, <1>15, <1>19, <2>1, <2>2, <2>4 DEF Follows
  <2>6. QED  BY <1>8, <1>9, <2>5
<1>24. CASE s.type \in {"optional", "nullish"}
  <2>1. StepBody(s, c, cfg) = StepOptional(s, c, cfg)
    BY <1>24 DEF StepBody, Code, Native
  <2>2. RunBody(s, d, cfg) = RunOptional(s, d, cfg)
    BY <1>24 DEF RunBody
  <2>3. ASSUME c.value \notin Absent(s) PROVE Follows(s.wrapped, c, cfg)
    <3>1. Inner(s, d) = <<<<s.wrapped, d>>>>
      BY <1>12, <1>24, <2>3 DEF Inner
    <3>2. InnerSteps(s, c, cfg) = <<<<s.wrapped, c, cfg>>>>
      BY <1>24, <2>3 DEF InnerSteps
    <3>3. PICK y : y = <<s.wrapped, c, cfg>>
      OBVIOUS
    <3>4. PICK inner : inner = <<s.wrapped, d>>
      OBVIOUS
    <3>5. y \in Range(InnerSteps(s, c, cfg))
      <4>1. PICK q : q = InnerSteps(s, c, cfg)
        OBVIOUS
      <4>2. q[1] = y /\ 1 \in DOMAIN q
        BY <3>2, <3>3, <4>1
      <4>3. QED  BY <4>1, <4>2 DEF Range
    <3>6. inner \in Range(Inner(s, d))
      <4>1. PICK q : q = Inner(s, d)
        OBVIOUS
      <4>2. q[1] = inner /\ 1 \in DOMAIN q
        BY <3>1, <3>4, <4>1
      <4>3. QED  BY <4>1, <4>2 DEF Range
    <3>7. y[1] = s.wrapped /\ y[2] = c /\ y[3] = cfg
      BY <3>3
    <3>8. <<y[1], Fresh(y[2].value)>> = inner
      BY <1>10, <3>4, <3>7
    <3>9. Follows(y[1], y[2], y[3])
      BY <1>13, <1>18, <3>5, <3>6, <3>8
    <3>10. QED  BY <3>7, <3>9
  <2>4. StepOptional(s, c, cfg) = Behind(c.issues, RunOptional(s, Fresh(c.value), cfg))
    BY <1>13, <2>3, StepOptionalFollows
  <2>5. Follows(s, c, cfg)
    BY <1>10, <1>15, <1>19, <2>1, <2>2, <2>4 DEF Follows
  <2>6. QED  BY <1>8, <1>9, <2>5
<1>25. CASE ~ Code(s) /\ s.type \notin {"object", "array", "optional", "nullish"}
  <2>1. StepBody(s, c, cfg) = StepFallback(s, c, cfg)
    BY <1>25 DEF StepBody
  <2>2. Follows(s, c, cfg)
    BY <1>10, <1>15, <1>19, <2>1, StepFallbackFollows DEF Follows
  <2>3. QED  BY <1>8, <1>9, <2>2
<1>26. QED  BY <1>20, <1>21, <1>22, <1>23, <1>24, <1>25

-----------------------------------------------------------------------------
(* The machine of the caller                                               *)

LEMMA StartParts ==
  ASSUME NEW v
  PROVE  StartCursor(v).value = v /\ StartCursor(v).issues = <<>>
<1>1. PICK f : f = Fresh(v)
  OBVIOUS
<1>2. f = Dataset(v, FALSE, <<>>)
  BY <1>1, FreshParts
<1>3. PICK e : e = [f EXCEPT !.typed = TRUE]
  OBVIOUS
<1>4. e = Dataset(v, TRUE, <<>>)
  BY <1>2, <1>3 DEF Dataset
<1>5. StartCursor(v) = e
  BY <1>1, <1>3 DEF StartCursor
<1>6. QED  BY <1>4, <1>5 DEF Dataset

(* The compiled schema returns the dataset of the interpreted one.         *)
LEMMA CompiledIsInterpreted ==
  ASSUME NEW s \in Schemas, NEW v \in Inputs, NEW cfg \in Configs
  PROVE  /\ Step(s, StartCursor(v), cfg) = Run(s, Fresh(v), cfg)
         /\ Answers(Run(s, Fresh(v), cfg), Run(s, Fresh(v), ReportMode), cfg)
<1>1. PICK x : x = <<s, Fresh(v)>>
  OBVIOUS
<1>2. x \in Calls /\ x[1] = s /\ x[2] = Fresh(v)
  BY <1>1, CallersAssumption
<1>3. cfg \in Modes
  BY DEF Modes
<1>4. Answers(Run(s, Fresh(v), cfg), Run(s, Fresh(v), ReportMode), cfg)
  BY <1>2, <1>3, RunAnswers
<1>5. PICK y : y = <<s, StartCursor(v), cfg>>
  OBVIOUS
<1>6. y \in Cursors /\ y[1] = s /\ y[2] = StartCursor(v) /\ y[3] = cfg
  BY <1>5, CallersAssumption
<1>7. Follows(s, StartCursor(v), cfg)
  BY <1>6, StepFollowsRun
<1>8. PICK r : r = Run(s, Fresh(v), cfg)
  OBVIOUS
<1>9. Step(s, StartCursor(v), cfg) = Behind(<<>>, r)
  BY <1>7, <1>8, StartParts DEF Follows
<1>10. IsDataset(r)
  BY <1>4, <1>8 DEF Answers, Sound
<1>11. PICK q : q = r.issues
  OBVIOUS
<1>12. IsList(q)
  BY <1>10, <1>11 DEF IsDataset
<1>13. <<>> \o q = q
  BY <1>12 DEF IsList
<1>14. Behind(<<>>, r) = r
  BY <1>10, <1>11, <1>13, DatasetParts DEF Behind
<1>15. QED  BY <1>4, <1>8, <1>9, <1>14

(* Whatever the caller has got is the dataset of the interpreted run.      *)
Returned == Run(schema, Fresh(input), config)
CInv ==
  /\ schema \in Schemas /\ input \in Inputs /\ config \in Configs
  /\ interpreted \in SUBSET {Returned}
  /\ compiled \in SUBSET {Returned}

LEMMA CallerInit == Init => CInv
BY DEF Init, CInv

LEMMA CallerNext == CInv /\ [Next]_vars => CInv'
<1> SUFFICES ASSUME CInv, [Next]_vars PROVE CInv'
  OBVIOUS
<1>1. /\ schema \in Schemas /\ input \in Inputs /\ config \in Configs
      /\ interpreted \in SUBSET {Returned} /\ compiled \in SUBSET {Returned}
  BY DEF CInv
<1>2. UNCHANGED call => UNCHANGED <<schema, input, config>> /\ Returned' = Returned
  BY DEF call, Returned
<1>3. CASE SafeParse
  <2>1. UNCHANGED call /\ compiled' = compiled /\ interpreted' = {Returned}
    BY <1>3 DEF SafeParse, Returned
  <2>2. QED  BY <1>1, <1>2, <2>1 DEF CInv
<1>4. CASE SafeParseCompiled
  <2>1. UNCHANGED call /\ interpreted' = interpreted
        /\ compiled' = {Step(schema, StartCursor(input), config)}
    BY <1>4 DEF SafeParseCompiled
  <2>2. Step(schema, StartCursor(input), config) = Returned
    BY <1>1, CompiledIsInterpreted DEF Returned
  <2>3. QED  BY <1>1, <1>2, <2>1, <2>2 DEF CInv
<1>5. CASE UNCHANGED vars
  <2>1. UNCHANGED call /\ interpreted' = interpreted /\ compiled' = compiled
    BY <1>5 DEF vars
  <2>2. QED  BY <1>1, <1>2, <2>1 DEF CInv
<1>6. QED  BY <1>3, <1>4, <1>5 DEF Next

LEMMA CallerInv == Spec => []CInv
<1>1. QED  BY CallerInit, CallerNext, PTL DEF Spec

LEMMA CInvParts ==
  ASSUME CInv
  PROVE  /\ \A d \in interpreted \cup compiled : d = Returned
         /\ Answers(Returned, Run(schema, Fresh(input), ReportMode), config)
<1>1. schema \in Schemas /\ input \in Inputs /\ config \in Configs
  BY DEF CInv
<1>2. Answers(Returned, Run(schema, Fresh(input), ReportMode), config)
  BY <1>1, CompiledIsInterpreted DEF Returned
<1>3. QED  BY <1>2 DEF CInv

(* compile.ts: for any schema, input and configuration, the cursor of the  *)
(* compiled schema is the dataset of the interpreted one, and so are the   *)
(* results that safeParseCompiled and safeParse make of them.              *)
THEOREM CompiledByteIdentical == Spec => []ByteIdentical
<1>1. CInv => ByteIdentical
  <2> SUFFICES ASSUME CInv, NEW d \in interpreted, NEW c \in compiled
               PROVE  Result(c) = Result(d)
    BY DEF ByteIdentical
  <2>1. c = d
    BY CInvParts
  <2>2. QED  BY <2>1
<1>2. QED  BY <1>1, CallerInv, PTL

(* `~run` of every schema: an untyped dataset carries an error, so a value *)
(* of the wrong shape is never returned as a success.                      *)
THEOREM UntypedAlwaysFails == Spec => []UntypedFails
<1>1. CInv => UntypedFails
  BY CInvParts DEF UntypedFails, Answers, Sound
<1>2. QED  BY <1>1, CallerInv, PTL

(* `reject` of the configuration: whatever containers, unions and pipes    *)
(* are nested, and however much an operation reports at a time, nothing    *)
(* else has reported after the first error.                                *)
THEOREM RejectStops == Spec => []RejectStopsAtFirst
<1>1. CInv => RejectStopsAtFirst
  BY CInvParts DEF RejectStopsAtFirst, Answers, Sound
<1>2. QED  BY <1>1, CallerInv, PTL

(* The configuration decides what a failure reports and nothing else: the  *)
(* report mode accepts the same inputs, with the same output and warnings. *)
THEOREM ModesAcceptTheSame == Spec => []GateAgrees
<1>1. CInv => GateAgrees
  <2> SUFFICES ASSUME CInv, NEW d \in interpreted
               PROVE  LET report == Result(Run(schema, Fresh(input), ReportMode))
                      IN  /\ Result(d).success = report.success
                          /\ report.success => Result(d) = report
    BY DEF GateAgrees
  <2>1. PICK r : r = Run(schema, Fresh(input), ReportMode)
    OBVIOUS
  <2>2. Agrees(d, r)
    BY <2>1, CInvParts DEF Answers
  <2>3. Result(d).success = ~ HasError(d.issues) /\ Result(r).success = ~ HasError(r.issues)
    BY DEF Result
  <2>4. CASE HasError(r.issues)
    <3>1. HasError(d.issues)
      BY <2>2, <2>4 DEF Agrees
    <3>2. QED  BY <2>1, <2>3, <2>4, <3>1
  <2>5. CASE ~ HasError(r.issues)
    <3>1. d = r
      BY <2>2, <2>5 DEF Agrees
    <3>2. QED  BY <2>1, <3>1
  <2>6. QED  BY <2>4, <2>5
<1>2. QED  BY <1>1, CallerInv, PTL

-----------------------------------------------------------------------------
(* The async calls: datasets as the caller sees them, with the references  *)
(* to his value followed                                                   *)

LEMMA SameList ==
  ASSUME NEW p, NEW q, IsList(p), IsList(q), Len(p) = Len(q),
         \A i \in 1 .. Len(p) : p[i] = q[i]
  PROVE  p = q
<1>1. p = [i \in 1 .. Len(p) |-> p[i]] /\ q = [i \in 1 .. Len(q) |-> q[i]]
  BY DEF IsList
<1>2. QED  BY <1>1

LEMMA SeenParts ==
  ASSUME NEW q, IsIssues(q)
  PROVE  /\ IsIssues(Seen(q)) /\ Len(Seen(q)) = Len(q) /\ DOMAIN Seen(q) = DOMAIN q
         /\ HasError(Seen(q)) <=> HasError(q)
         /\ \A i \in DOMAIN q :
              Seen(q)[i] = Issue(q[i].kind, q[i].type, Deref(q[i].input), q[i].severity,
                                 q[i].message, q[i].path)
<1>1. Len(q) \in Nat /\ DOMAIN q = 1 .. Len(q)
  BY ListDomain DEF IsIssues
<1>2. PICK u : u = Seen(q)
  OBVIOUS
<1>3. /\ u = [i \in 1 .. Len(q) |-> u[i]]
      /\ \A i \in DOMAIN q : u[i] = [q[i] EXCEPT !.input = Deref(@)]
  BY <1>1, <1>2 DEF Seen
<1>4. ASSUME NEW i \in DOMAIN q
      PROVE  u[i] = Issue(q[i].kind, q[i].type, Deref(q[i].input), q[i].severity,
                          q[i].message, q[i].path)
  <2>1. PICK e : e = q[i]
    OBVIOUS
  <2>2. e = [kind |-> e.kind, type |-> e.type, input |-> e.input,
             severity |-> e.severity, message |-> e.message, path |-> e.path]
    BY <2>1 DEF IsIssues, IsIssue, Issue
  <2>3. PICK v : v = Deref(e.input)
    OBVIOUS
  <2>4. u[i] = [e EXCEPT !.input = v]
    BY <1>3, <2>1, <2>3
  <2>5. [e EXCEPT !.input = v] =
          [kind |-> e.kind, type |-> e.type, input |-> v,
           severity |-> e.severity, message |-> e.message, path |-> e.path]
    BY <2>2
  <2>6. QED  BY <2>1, <2>3, <2>4, <2>5 DEF Issue
<1>5. \A i \in DOMAIN q : IsIssue(u[i]) /\ u[i].severity = q[i].severity
  BY <1>4, IssueIsIssue
<1>6. u \in Seq(Range(u)) /\ DOMAIN u = DOMAIN q /\ Len(u) = Len(q)
  BY <1>1, <1>3 DEF Range
<1>7. IsIssues(u)
  BY <1>5, <1>6 DEF IsIssues, IsList
<1>8. HasError(u) <=> HasError(q)
  BY <1>5, <1>6 DEF HasError, IsWarning
<1>9. QED  BY <1>2, <1>4, <1>6, <1>7, <1>8

LEMMA SeenConcat ==
  ASSUME NEW p, NEW q, IsIssues(p), IsIssues(q)
  PROVE  Seen(p \o q) = Seen(p) \o Seen(q)
<1>1. PICK r : r = p \o q
  OBVIOUS
<1>2. PICK sp, sq, sr : sp = Seen(p) /\ sq = Seen(q) /\ sr = Seen(r)
  OBVIOUS
<1>3. PICK w : w = sp \o sq
  OBVIOUS
<1>4. IsIssues(r) /\ IsIssues(sp) /\ IsIssues(sq) /\ IsIssues(sr)
  BY <1>1, <1>2, IssuesConcat, SeenParts
<1>5. IsList(p) /\ IsList(q) /\ IsList(sp) /\ IsList(sq) /\ IsList(sr)
  BY <1>4, IssuesAreLists
<1>6. /\ Len(p) \in Nat /\ Len(q) \in Nat /\ Len(r) = Len(p) + Len(q)
      /\ DOMAIN p = 1 .. Len(p) /\ DOMAIN q = 1 .. Len(q) /\ DOMAIN r = 1 .. Len(r)
      /\ \A k \in DOMAIN r :
           \/ k \in DOMAIN p /\ r[k] = p[k]
           \/ k - Len(p) \in DOMAIN q /\ r[k] = q[k - Len(p)]
  <2>1. IsList(r)
    BY <1>4, IssuesAreLists
  <2>2. QED  BY <1>1, <1>5, <2>1, ListConcat, ListDomain
<1>7. Len(sp) = Len(p) /\ Len(sq) = Len(q) /\ Len(sr) = Len(r)
  BY <1>2, <1>4, SeenParts
<1>8. /\ IsList(w) /\ Len(w) = Len(p) + Len(q)
      /\ \A i \in 1 .. Len(p) : w[i] = sp[i]
      /\ \A i \in 1 .. Len(q) : w[Len(p) + i] = sq[i]
  <2>1. /\ IsList(sp \o sq) /\ Len(sp \o sq) = Len(sp) + Len(sq)
        /\ \A i \in 1 .. Len(sp) : (sp \o sq)[i] = sp[i]
        /\ \A i \in 1 .. Len(sq) : (sp \o sq)[Len(sp) + i] = sq[i]
    BY <1>5, ListConcat
  <2>2. QED  BY <1>3, <1>7, <2>1
<1>9. ASSUME NEW k \in 1 .. Len(sr) PROVE sr[k] = w[k]
  <2>1. k \in DOMAIN r /\ sr[k] = [r[k] EXCEPT !.input = Deref(@)]
    BY <1>2, <1>6, <1>7 DEF Seen
  <2>2. CASE k \in DOMAIN p /\ r[k] = p[k]
    <3>1. sp[k] = [p[k] EXCEPT !.input = Deref(@)]
      BY <1>2, <2>2 DEF Seen
    <3>2. w[k] = sp[k]
      BY <1>6, <1>8, <2>2
    <3>3. QED  BY <2>1, <2>2, <3>1, <3>2
  <2>3. CASE k - Len(p) \in DOMAIN q /\ r[k] = q[k - Len(p)]
    <3>1. sq[k - Len(p)] = [q[k - Len(p)] EXCEPT !.input = Deref(@)]
      BY <1>2, <2>3 DEF Seen
    <3>2. w[Len(p) + (k - Len(p))] = sq[k - Len(p)] /\ Len(p) + (k - Len(p)) = k
      BY <1>6, <1>7, <1>8, <2>3
    <3>3. QED  BY <2>1, <2>3, <3>1, <3>2
  <2>4. QED  BY <1>6, <2>1, <2>2, <2>3
<1>10. sr = w
  BY <1>5, <1>6, <1>7, <1>8, <1>9, SameList
<1>11. QED  BY <1>1, <1>2, <1>3, <1>10

LEMMA SeenUnder ==
  ASSUME NEW key, NEW q, IsIssues(q)
  PROVE  Seen(Under(key, q)) = Under(key, Seen(q))
<1>1. PICK u : u = Under(key, q)
  OBVIOUS
<1>2. PICK s : s = Seen(q)
  OBVIOUS
<1>3. DOMAIN u = DOMAIN q /\ DOMAIN s = DOMAIN q
  BY <1>1, <1>2 DEF Under, Seen
<1>4. ASSUME NEW i \in DOMAIN q
      PROVE  [u[i] EXCEPT !.input = Deref(@)] = [s[i] EXCEPT !.path = <<key>> \o @]
  <2>1. PICK e : e = q[i]
    OBVIOUS
  <2>2. e = [kind |-> e.kind, type |-> e.type, input |-> e.input,
             severity |-> e.severity, message |-> e.message, path |-> e.path]
    BY <2>1 DEF IsIssues, IsIssue, Issue
  <2>3. PICK v, path : v = Deref(e.input) /\ path = <<key>> \o e.path
    OBVIOUS
  <2>4. u[i] = [e EXCEPT !.path = path] /\ s[i] = [e EXCEPT !.input = v]
    BY <1>1, <1>2, <2>1, <2>3 DEF Under, Seen
  <2>5. u[i] = [kind |-> e.kind, type |-> e.type, input |-> e.input,
                severity |-> e.severity, message |-> e.message, path |-> path]
    BY <2>2, <2>4
  <2>6. s[i] = [kind |-> e.kind, type |-> e.type, input |-> v,
                severity |-> e.severity, message |-> e.message, path |-> e.path]
    BY <2>2, <2>4
  <2>7. PICK ui, si : ui = u[i] /\ si = s[i]
    OBVIOUS
  <2>8. [ui EXCEPT !.input = v] = [si EXCEPT !.path = path]
    BY <2>5, <2>6, <2>7
  <2>9. ui.input = e.input /\ si.path = e.path
    BY <2>5, <2>6, <2>7
  <2>10. QED  BY <2>3, <2>7, <2>8, <2>9
<1>5. Seen(u) = Under(key, s)
  BY <1>3, <1>4 DEF Seen, Under
<1>6. QED  BY <1>1, <1>2, <1>5

LEMMA SeenNone == Seen(<<>>) = <<>>
<1>1. IsIssues(Seen(<<>>)) /\ Len(Seen(<<>>)) = Len(<<>>)
  BY SeenParts, NoIssues
<1>2. IsList(Seen(<<>>)) /\ IsList(<<>>) /\ Len(<<>>) = 0
  BY <1>1, NoIssues, IssuesAreLists
<1>3. QED  BY <1>1, <1>2, SameList

LEMMA SeenEmpty ==
  ASSUME NEW q, IsIssues(q)
  PROVE  Seen(q) = <<>> <=> q = <<>>
<1>1. CASE q = <<>>
  BY <1>1, SeenNone
<1>2. CASE Seen(q) = <<>>
  <2>1. Len(<<>>) = 0 /\ IsList(<<>>)
    BY NoIssues, IssuesAreLists
  <2>2. Len(q) = 0 /\ IsList(q)
    BY <1>2, <2>1, SeenParts, IssuesAreLists
  <2>3. q = <<>>
    BY <2>1, <2>2, SameList
  <2>4. QED  BY <1>2, <2>3
<1>3. QED  BY <1>1, <1>2

LEMMA SeenOne ==
  ASSUME NEW kind, NEW type, NEW v, NEW severity, NEW message, NEW path
  PROVE  Seen(<<Issue(kind, type, v, severity, message, path)>>) =
           <<Issue(kind, type, Deref(v), severity, message, path)>>
<1>1. PICK a : a = Issue(kind, type, v, severity, message, path)
  OBVIOUS
<1>2. PICK b : b = Issue(kind, type, Deref(v), severity, message, path)
  OBVIOUS
<1>3. PICK p, q : p = <<a>> /\ q = <<b>>
  OBVIOUS
<1>4. IsIssues(p) /\ IsIssues(q)
  BY <1>1, <1>2, <1>3, IssueIsIssue, OneIssue
<1>5. Len(p) = 1 /\ Len(q) = 1 /\ p[1] = a /\ q[1] = b /\ DOMAIN p = {1}
  BY <1>3
<1>6. /\ a.kind = kind /\ a.type = type /\ a.input = v /\ a.severity = severity
      /\ a.message = message /\ a.path = path
  BY <1>1 DEF Issue
<1>7. IsIssues(Seen(p)) /\ Len(Seen(p)) = 1 /\ Seen(p)[1] = b
  BY <1>2, <1>4, <1>5, <1>6, SeenParts
<1>8. IsList(Seen(p)) /\ IsList(q)
  BY <1>4, <1>7, IssuesAreLists
<1>9. Seen(p) = q
  BY <1>5, <1>7, <1>8, SameList
<1>10. QED  BY <1>1, <1>2, <1>3, <1>9

LEMMA SeenPlain ==
  ASSUME NEW q, IsIssues(q), \A i \in DOMAIN q : q[i].input # Root
  PROVE  Seen(q) = q
<1>1. IsList(Seen(q)) /\ IsList(q) /\ Len(Seen(q)) = Len(q) /\ DOMAIN q = 1 .. Len(q)
  BY SeenParts, IssuesAreLists, ListDomain
<1>2. \A i \in DOMAIN q : Seen(q)[i] = q[i]
  BY SeenParts DEF Deref, IsIssues, IsIssue
<1>3. QED  BY <1>1, <1>2, SameList

LEMMA ResolvedParts ==
  ASSUME NEW d, IsDataset(d)
  PROVE  /\ Resolved(d) = Dataset(Deref(d.value), d.typed, Seen(d.issues))
         /\ IsDataset(Resolved(d))
         /\ Resolved(d).value = Deref(d.value) /\ Resolved(d).typed = d.typed
         /\ Resolved(d).issues = Seen(d.issues)
         /\ HasError(Resolved(d).issues) <=> HasError(d.issues)
<1>1. d = Dataset(d.value, d.typed, d.issues) /\ d.typed \in BOOLEAN /\ IsIssues(d.issues)
  BY DatasetParts
<1>2. PICK v, q : v = Deref(d.value) /\ q = Seen(d.issues)
  OBVIOUS
<1>3. PICK e : e = [d EXCEPT !.value = v, !.issues = q]
  OBVIOUS
<1>4. e = Dataset(v, d.typed, q)
  BY <1>1, <1>3 DEF Dataset
<1>5. Resolved(d) = e
  BY <1>2, <1>3 DEF Resolved
<1>6. IsIssues(q) /\ (HasError(q) <=> HasError(d.issues))
  BY <1>1, <1>2, SeenParts
<1>7. IsDataset(e) /\ e.value = v /\ e.typed = d.typed /\ e.issues = q
  BY <1>1, <1>4, <1>6, DatasetOf
<1>8. QED  BY <1>2, <1>4, <1>5, <1>6, <1>7

LEMMA ResolvedOf ==
  ASSUME NEW v, NEW typed \in BOOLEAN, NEW q, IsIssues(q)
  PROVE  /\ IsDataset(Dataset(v, typed, q))
         /\ Resolved(Dataset(v, typed, q)) = Dataset(Deref(v), typed, Seen(q))
<1>1. PICK d : d = Dataset(v, typed, q)
  OBVIOUS
<1>2. IsDataset(d) /\ d.value = v /\ d.typed = typed /\ d.issues = q
  BY <1>1, DatasetOf
<1>3. QED  BY <1>1, <1>2, ResolvedParts

LEMMA ResolvedAs ==
  ASSUME NEW e, NEW v, NEW typed \in BOOLEAN, NEW q, IsIssues(q), e = Dataset(v, typed, q)
  PROVE  /\ IsDataset(e) /\ e.value = v /\ e.typed = typed /\ e.issues = q
         /\ Resolved(e) = Dataset(Deref(v), typed, Seen(q))
<1>1. IsDataset(e)
  BY DatasetOf
<1>2. e.value = v /\ e.typed = typed /\ e.issues = q
  BY DatasetOf
<1>3. Resolved(e) = Dataset(Deref(v), typed, Seen(q))
  BY ResolvedOf
<1>4. QED  BY <1>1, <1>2, <1>3

LEMMA ResolvedAdd ==
  ASSUME NEW d, IsDataset(d), NEW kind, NEW type, NEW message, NEW path
  PROVE  /\ IsDataset(AddIssue(d, kind, type, message, path))
         /\ Resolved(AddIssue(d, kind, type, message, path)) =
              AddIssue(Resolved(d), kind, type, message, path)
         /\ AddIssue(d, kind, type, message, path).value = d.value
<1>1. /\ d.typed \in BOOLEAN /\ IsIssues(d.issues) /\ IsDataset(Resolved(d))
      /\ Resolved(d).value = Deref(d.value) /\ Resolved(d).typed = d.typed
      /\ Resolved(d).issues = Seen(d.issues)
  BY DatasetParts, ResolvedParts
<1>2. PICK p, q : /\ p = <<Issue(kind, type, d.value, "error", message, path)>>
                  /\ q = <<Issue(kind, type, Deref(d.value), "error", message, path)>>
  OBVIOUS
<1>3. IsIssues(p) /\ Seen(p) = q
  <2>1. Seen(p) = q
    BY <1>2, SeenOne
  <2>2. PICK issue : issue = Issue(kind, type, d.value, "error", message, path)
    OBVIOUS
  <2>3. IsIssue(issue)
    BY <2>2, IssueIsIssue
  <2>4. IsIssues(<<issue>>)
    BY <2>3, OneIssue
  <2>5. QED  BY <1>2, <2>1, <2>2, <2>4
<1>4. PICK r : r = d.issues \o p
  OBVIOUS
<1>5. PICK typed \in BOOLEAN : typed = (d.typed /\ kind # "schema")
  OBVIOUS
<1>6. PICK a : a = AddIssue(d, kind, type, message, path)
  OBVIOUS
<1>7. a = Dataset(d.value, typed, r)
  BY <1>2, <1>4, <1>5, <1>6, AddIssueParts
<1>8. IsIssues(r) /\ Seen(r) = Seen(d.issues) \o q
  BY <1>1, <1>3, <1>4, IssuesConcat, SeenConcat
<1>9. IsDataset(a) /\ a.value = d.value /\ Resolved(a) = Dataset(Deref(d.value), typed, Seen(r))
  <2>1. PICK v : v = d.value
    OBVIOUS
  <2>2. a = Dataset(v, typed, r) /\ IsIssues(r)
    BY <1>7, <1>8, <2>1
  <2>3. IsDataset(a) /\ a.value = v /\ Resolved(a) = Dataset(Deref(v), typed, Seen(r))
    BY <2>2, ResolvedAs
  <2>4. QED  BY <2>1, <2>3
<1>10. PICK e : e = Resolved(d)
  OBVIOUS
<1>11. AddIssue(e, kind, type, message, path) =
         Dataset(e.value, e.typed /\ kind # "schema",
                 e.issues \o <<Issue(kind, type, e.value, "error", message, path)>>)
  BY <1>1, <1>10, AddIssueParts
<1>12. (e.typed /\ kind # "schema") = typed
  BY <1>1, <1>5, <1>10
<1>13. AddIssue(e, kind, type, message, path) = Dataset(Deref(d.value), typed, Seen(r))
  BY <1>1, <1>2, <1>8, <1>10, <1>11, <1>12
<1>14. QED  BY <1>6, <1>9, <1>10, <1>13

LEMMA ResolvedUntyped ==
  ASSUME NEW d, IsDataset(d), NEW typed \in BOOLEAN
  PROVE  /\ IsDataset([d EXCEPT !.typed = typed])
         /\ [d EXCEPT !.typed = typed].value = d.value
         /\ Resolved([d EXCEPT !.typed = typed]) = [Resolved(d) EXCEPT !.typed = typed]
<1>1. PICK u : u = [d EXCEPT !.typed = typed]
  OBVIOUS
<1>2. u = Dataset(d.value, typed, d.issues)
  BY <1>1, WithoutType
<1>3. IsIssues(d.issues)
  BY DatasetParts
<1>4. IsDataset(u) /\ u.value = d.value /\ Resolved(u) = Dataset(Deref(d.value), typed, Seen(d.issues))
  BY <1>2, <1>3, ResolvedAs
<1>5. PICK e : e = Resolved(d)
  OBVIOUS
<1>6. IsDataset(e) /\ e.value = Deref(d.value) /\ e.issues = Seen(d.issues)
  BY <1>5, ResolvedParts
<1>7. [e EXCEPT !.typed = typed] = Dataset(e.value, typed, e.issues)
  BY <1>6, WithoutType
<1>8. QED  BY <1>1, <1>4, <1>5, <1>6, <1>7

LEMMA ResolvedMismatch ==
  ASSUME NEW d, IsDataset(d), NEW s
  PROVE  /\ IsDataset(Mismatch(d, s))
         /\ Resolved(Mismatch(d, s)) = Mismatch(Resolved(d), s)
         /\ Mismatch(d, s).value = d.value
<1>1. PICK u : u = [d EXCEPT !.typed = FALSE]
  OBVIOUS
<1>2. FALSE \in BOOLEAN
  OBVIOUS
<1>3. IsDataset(u) /\ u.value = d.value /\ Resolved(u) = [Resolved(d) EXCEPT !.typed = FALSE]
  BY <1>1, <1>2, ResolvedUntyped
<1>4. /\ Mismatch(d, s) = AddIssue(u, "schema", s.type, s.message, <<>>)
      /\ Mismatch(Resolved(d), s) = AddIssue(Resolved(u), "schema", s.type, s.message, <<>>)
  BY <1>1, <1>3 DEF Mismatch
<1>5. PICK type, message : type = s.type /\ message = s.message
  OBVIOUS
<1>6. PICK a : a = AddIssue(u, "schema", type, message, <<>>)
  OBVIOUS
<1>7. IsDataset(a) /\ Resolved(a) = AddIssue(Resolved(u), "schema", type, message, <<>>) /\ a.value = u.value
  <2>1. PICK kind, path : kind = "schema" /\ path = <<>>
    OBVIOUS
  <2>2. a = AddIssue(u, kind, type, message, path) /\ IsDataset(u)
    BY <1>3, <1>6, <2>1
  <2>3. IsDataset(a) /\ Resolved(a) = AddIssue(Resolved(u), kind, type, message, path) /\ a.value = u.value
    BY <2>2, ResolvedAdd
  <2>4. QED  BY <2>1, <2>3
<1>8. QED  BY <1>3, <1>4, <1>5, <1>6, <1>7

(* A loop of an async container, as the caller sees it                     *)
IsLoop(l) == l = LoopOf(l.data, l.out, l.aborted) /\ IsDataset(l.data) /\ l.aborted \in BOOLEAN
SeenLoop(l) == LoopOf(Resolved(l.data), l.out, l.aborted)

LEMMA LoopParts ==
  ASSUME NEW l, NEW d, IsDataset(d), NEW out, NEW aborted \in BOOLEAN, l = LoopOf(d, out, aborted)
  PROVE  /\ IsLoop(l) /\ SeenLoop(l) = LoopOf(Resolved(d), out, aborted)
         /\ l.data = d /\ l.out = out /\ l.aborted = aborted
<1>1. l.data = d /\ l.out = out /\ l.aborted = aborted
  BY DEF LoopOf
<1>2. QED  BY <1>1 DEF IsLoop, SeenLoop

LEMMA SeenLoopParts ==
  ASSUME NEW l, IsLoop(l)
  PROVE  /\ IsLoop(SeenLoop(l))
         /\ SeenLoop(l).data = Resolved(l.data) /\ SeenLoop(l).out = l.out
         /\ SeenLoop(l).aborted = l.aborted
<1>1. IsDataset(Resolved(l.data)) /\ l.aborted \in BOOLEAN
  BY ResolvedParts DEF IsLoop
<1>2. QED  BY <1>1, LoopParts DEF SeenLoop

LEMMA EnterSeen ==
  ASSUME NEW d, IsDataset(d)
  PROVE  /\ IsLoop(Enter(d)) /\ SeenLoop(Enter(d)) = Enter(Resolved(d))
         /\ Enter(d).data.value = d.value /\ Enter(d).aborted = FALSE
<1>1. PICK u : u = [d EXCEPT !.typed = TRUE]
  OBVIOUS
<1>2. TRUE \in BOOLEAN /\ FALSE \in BOOLEAN
  OBVIOUS
<1>3. IsDataset(u) /\ u.value = d.value /\ Resolved(u) = [Resolved(d) EXCEPT !.typed = TRUE]
  BY <1>1, <1>2, ResolvedUntyped
<1>4. PICK l : l = Enter(d)
  OBVIOUS
<1>5. l = LoopOf(u, <<>>, FALSE) /\ Enter(Resolved(d)) = LoopOf(Resolved(u), <<>>, FALSE)
  BY <1>1, <1>3, <1>4 DEF Enter, LoopOf
<1>6. IsLoop(l) /\ SeenLoop(l) = LoopOf(Resolved(u), <<>>, FALSE) /\ l.data = u /\ l.aborted = FALSE
  <2>1. PICK out, aborted : out = <<>> /\ aborted = FALSE
    OBVIOUS
  <2>2. l = LoopOf(u, out, aborted) /\ aborted \in BOOLEAN /\ IsDataset(u)
    BY <1>3, <1>5, <2>1
  <2>3. /\ IsLoop(l) /\ SeenLoop(l) = LoopOf(Resolved(u), out, aborted)
        /\ l.data = u /\ l.aborted = aborted
    BY <2>2, LoopParts
  <2>4. QED  BY <2>1, <2>3
<1>7. QED  BY <1>3, <1>4, <1>5, <1>6

LEMMA CollectAs ==
  ASSUME NEW d, IsDataset(d), NEW r, IsDataset(r), NEW key, NEW stop \in BOOLEAN,
         NEW typed \in BOOLEAN, typed = (d.typed /\ r.typed /\ ~ stop)
  PROVE  Collect(d, key, r, stop) = Dataset(d.value, typed, d.issues \o Under(key, r.issues))
<1>1. d = Dataset(d.value, d.typed, d.issues)
  BY DatasetParts
<1>2. PICK q : q = d.issues \o Under(key, r.issues)
  OBVIOUS
<1>3. PICK e : e = [d EXCEPT !.issues = q, !.typed = typed]
  OBVIOUS
<1>4. e = Dataset(d.value, typed, q)
  BY <1>1, <1>3 DEF Dataset
<1>5. e = Collect(d, key, r, stop)
  BY <1>2, <1>3 DEF Collect
<1>6. QED  BY <1>2, <1>4, <1>5

LEMMA CollectSeen ==
  ASSUME NEW d, IsDataset(d), NEW r, IsDataset(r), NEW key, NEW stop \in BOOLEAN
  PROVE  /\ IsDataset(Collect(d, key, r, stop))
         /\ Resolved(Collect(d, key, r, stop)) = Collect(Resolved(d), key, Resolved(r), stop)
         /\ Collect(d, key, r, stop).value = d.value
<1>1. IsIssues(d.issues) /\ IsIssues(r.issues)
  BY DatasetParts
<1>2. PICK typed \in BOOLEAN : typed = (d.typed /\ r.typed /\ ~ stop)
  OBVIOUS
<1>3. PICK u : u = Under(key, r.issues)
  OBVIOUS
<1>4. IsIssues(u) /\ Seen(u) = Under(key, Seen(r.issues))
  BY <1>1, <1>3, UnderKeeps, SeenUnder
<1>5. PICK q : q = d.issues \o u
  OBVIOUS
<1>6. IsIssues(q) /\ Seen(q) = Seen(d.issues) \o Seen(u)
  BY <1>1, <1>4, <1>5, IssuesConcat, SeenConcat
<1>7. PICK c : c = Collect(d, key, r, stop)
  OBVIOUS
<1>8. c = Dataset(d.value, typed, q)
  BY <1>2, <1>3, <1>5, <1>7, CollectAs
<1>9. IsDataset(c) /\ c.value = d.value /\ Resolved(c) = Dataset(Deref(d.value), typed, Seen(q))
  <2>1. PICK v : v = d.value
    OBVIOUS
  <2>2. c = Dataset(v, typed, q) /\ IsIssues(q) /\ typed \in BOOLEAN
    BY <1>6, <1>8, <2>1
  <2>3. IsDataset(c) /\ c.value = v /\ c.typed = typed /\ c.issues = q
    BY <2>2, DatasetOf
  <2>4. Resolved(c) = Dataset(Deref(c.value), c.typed, Seen(c.issues))
    BY <2>3, ResolvedParts
  <2>5. QED  BY <2>1, <2>3, <2>4
<1>10. PICK rd, rr : rd = Resolved(d) /\ rr = Resolved(r)
  OBVIOUS
<1>11. /\ IsDataset(rd) /\ rd.value = Deref(d.value) /\ rd.typed = d.typed
       /\ rd.issues = Seen(d.issues)
       /\ IsDataset(rr) /\ rr.typed = r.typed /\ rr.issues = Seen(r.issues)
  BY <1>10, ResolvedParts
<1>12. typed = (rd.typed /\ rr.typed /\ ~ stop) /\ IsDataset(rd) /\ IsDataset(rr)
  BY <1>2, <1>11
<1>13. Collect(rd, key, rr, stop) = Dataset(rd.value, typed, rd.issues \o Under(key, rr.issues))
  BY <1>12, CollectAs
<1>14. Collect(rd, key, rr, stop) = Dataset(Deref(d.value), typed, Seen(q))
  BY <1>4, <1>6, <1>11, <1>13
<1>15. QED  BY <1>7, <1>9, <1>10, <1>14

(* The loop once the issues and the value of a child are taken over        *)
TakenLoop(l, key, r, omit, outKey) ==
  LET stop == Aborts(r.issues, config)
  IN  LoopOf(Collect(l.data, key, r, stop),
             IF stop \/ (omit /\ r.value = Undefined) THEN l.out
             ELSE Assign(l.out, outKey, r.value),
             stop)

LEMMA AbortsSeen ==
  ASSUME NEW r, IsDataset(r), NEW cfg
  PROVE  /\ Aborts(Resolved(r).issues, cfg) <=> Aborts(r.issues, cfg)
         /\ PipeStops(Resolved(r), cfg) <=> PipeStops(r, cfg)
         /\ Matches(Resolved(r)) <=> Matches(r)
<1>1. (HasError(Resolved(r).issues) <=> HasError(r.issues)) /\ Resolved(r).typed = r.typed
  BY ResolvedParts
<1>2. QED  BY <1>1 DEF Aborts, PipeStops, Matches

LEMMA TakenLoopSeen ==
  ASSUME config.reject \in BOOLEAN, NEW l, IsLoop(l), NEW r, IsDataset(r), r.value # Root,
         NEW key, NEW omit, NEW outKey
  PROVE  /\ IsLoop(TakenLoop(l, key, r, omit, outKey))
         /\ SeenLoop(TakenLoop(l, key, r, omit, outKey)) =
              TakenLoop(SeenLoop(l), key, Resolved(r), omit, outKey)
         /\ TakenLoop(l, key, r, omit, outKey).data.value = l.data.value
<1>1. PICK stop \in BOOLEAN : stop = Aborts(r.issues, config)
  BY AbortsIsBoolean
<1>2. PICK out : out = IF stop \/ (omit /\ r.value = Undefined) THEN l.out
                       ELSE Assign(l.out, outKey, r.value)
  OBVIOUS
<1>3. PICK d : d = Collect(l.data, key, r, stop)
  OBVIOUS
<1>4. PICK t : t = TakenLoop(l, key, r, omit, outKey)
  OBVIOUS
<1>5. t = LoopOf(d, out, stop)
  BY <1>1, <1>2, <1>3, <1>4 DEF TakenLoop
<1>6. IsDataset(l.data)
  BY DEF IsLoop
<1>7. /\ IsDataset(d) /\ d.value = l.data.value
      /\ Resolved(d) = Collect(Resolved(l.data), key, Resolved(r), stop)
  <2>1. PICK e : e = l.data
    OBVIOUS
  <2>2. IsDataset(e) /\ d = Collect(e, key, r, stop)
    BY <1>3, <1>6, <2>1
  <2>3. IsDataset(d) /\ d.value = e.value /\ Resolved(d) = Collect(Resolved(e), key, Resolved(r), stop)
    BY <2>2, CollectSeen
  <2>4. QED  BY <2>1, <2>3
<1>8. IsDataset(d)
  BY <1>7
<1>9. IsLoop(t) /\ SeenLoop(t) = LoopOf(Resolved(d), out, stop) /\ t.data = d
  BY <1>5, <1>8, LoopParts
<1>10. PICK m, rr : m = SeenLoop(l) /\ rr = Resolved(r)
  OBVIOUS
<1>11. m.data = Resolved(l.data) /\ m.out = l.out
  BY <1>10, SeenLoopParts
<1>12. rr.value = r.value
  BY <1>10, ResolvedParts DEF Deref
<1>13. Aborts(rr.issues, config) = stop
  BY <1>1, <1>10, ResolvedParts DEF Aborts
<1>14. TakenLoop(m, key, rr, omit, outKey) = LoopOf(Collect(m.data, key, rr, stop), out, stop)
  BY <1>2, <1>11, <1>12, <1>13 DEF TakenLoop
<1>15. QED  BY <1>4, <1>7, <1>9, <1>10, <1>11, <1>14

LEMMA RestKeySeen ==
  ASSUME config.reject \in BOOLEAN, NEW l, IsLoop(l), NEW s, NEW property
  PROVE  /\ IsLoop(ApplyRestKey(l, s, property, config))
         /\ SeenLoop(ApplyRestKey(l, s, property, config)) =
              ApplyRestKey(SeenLoop(l), s, property, config)
         /\ ApplyRestKey(l, s, property, config).data.value = l.data.value
<1>1. PICK m : m = SeenLoop(l)
  OBVIOUS
<1>2. /\ IsDataset(l.data) /\ l.aborted \in BOOLEAN /\ l = LoopOf(l.data, l.out, l.aborted)
      /\ m = LoopOf(Resolved(l.data), l.out, l.aborted)
      /\ m.data = Resolved(l.data) /\ m.out = l.out /\ m.aborted = l.aborted
  BY <1>1, SeenLoopParts DEF IsLoop, SeenLoop
<1>3. PICK key : key = property[1]
  OBVIOUS
<1>4. PICK declared : declared = Declared(s, property)
  OBVIOUS
<1>5. PICK a, b : a = ApplyRestKey(l, s, property, config) /\ b = ApplyRestKey(m, s, property, config)
  OBVIOUS
<1>6. CASE l.aborted \/ declared
  BY <1>1, <1>2, <1>4, <1>5, <1>6 DEF ApplyRestKey, Declared
<1>7. CASE ~ l.aborted /\ ~ declared /\ s.rest = "passthrough"
  <2>1. PICK out : out = Assign(l.out, key, property[2])
    OBVIOUS
  <2>2. a = [l EXCEPT !.out = out] /\ b = [m EXCEPT !.out = out]
    BY <1>2, <1>3, <1>4, <1>5, <1>7, <2>1 DEF ApplyRestKey, Declared
  <2>3. a = LoopOf(l.data, out, l.aborted) /\ b = LoopOf(m.data, out, l.aborted)
    BY <1>2, <2>2 DEF LoopOf
  <2>4. IsLoop(a) /\ SeenLoop(a) = LoopOf(Resolved(l.data), out, l.aborted) /\ a.data = l.data
    BY <1>2, <2>3, LoopParts
  <2>5. QED  BY <1>1, <1>2, <1>5, <2>3, <2>4
<1>8. CASE ~ l.aborted /\ ~ declared /\ s.rest # "passthrough"
  <2>1. PICK message, path, reject : message = s.message /\ path = <<key>> /\ reject = config.reject
    OBVIOUS
  <2>2. PICK d, e : /\ d = AddIssue(l.data, "schema", "object", message, path)
                    /\ e = AddIssue(m.data, "schema", "object", message, path)
    OBVIOUS
  <2>3. IsDataset(d) /\ Resolved(d) = e /\ d.value = l.data.value
    <3>1. PICK kind, type, x : kind = "schema" /\ type = "object" /\ x = l.data
      OBVIOUS
    <3>2. d = AddIssue(x, kind, type, message, path) /\ IsDataset(x)
      BY <1>2, <2>2, <3>1
    <3>3. /\ IsDataset(d) /\ Resolved(d) = AddIssue(Resolved(x), kind, type, message, path)
          /\ d.value = x.value
      BY <3>2, ResolvedAdd
    <3>4. QED  BY <1>2, <2>2, <3>1, <3>3
  <2>4. a = [l EXCEPT !.data = d, !.aborted = reject] /\ b = [m EXCEPT !.data = e, !.aborted = reject]
    BY <1>2, <1>3, <1>4, <1>5, <1>8, <2>1, <2>2 DEF ApplyRestKey, Declared
  <2>5. a = LoopOf(d, l.out, reject) /\ b = LoopOf(e, l.out, reject)
    BY <1>2, <2>4 DEF LoopOf
  <2>6. PICK out : out = l.out
    OBVIOUS
  <2>7. a = LoopOf(d, out, reject) /\ reject \in BOOLEAN /\ IsDataset(d)
    BY <2>1, <2>3, <2>5, <2>6
  <2>8. IsLoop(a) /\ SeenLoop(a) = LoopOf(Resolved(d), out, reject) /\ a.data = d
    BY <2>7, LoopParts
  <2>9. QED  BY <1>1, <1>5, <2>3, <2>5, <2>6, <2>8
<1>9. QED  BY <1>4, <1>6, <1>7, <1>8 DEF Declared

LEMMA RestSeen ==
  ASSUME config.reject \in BOOLEAN, NEW l, IsLoop(l), NEW s, NEW own, Len(own) \in Nat
  PROVE  /\ IsLoop(ApplyRest(l, s, own, config))
         /\ SeenLoop(ApplyRest(l, s, own, config)) = ApplyRest(SeenLoop(l), s, own, config)
         /\ ApplyRest(l, s, own, config).data.value = l.data.value
<1>1. PICK m : m = SeenLoop(l)
  OBVIOUS
<1>2. m.aborted = l.aborted
  BY <1>1, SeenLoopParts
<1>3. CASE l.aborted \/ s.rest = "strip"
  BY <1>1, <1>2, <1>3 DEF ApplyRest
<1>4. CASE ~ (l.aborted \/ s.rest = "strip")
  <2>1. PICK N \in Nat, cfg \in {config} : N = Len(own) /\ cfg = config
    OBVIOUS
  <2>2. PICK a, b : a = RestVisits(l, s, own, cfg) /\ b = RestVisits(m, s, own, cfg)
    OBVIOUS
  <2>3. a[0] = l /\ \A n \in 1 .. N : a[n] = ApplyRestKey(a[n - 1], s, own[n], cfg)
    BY <2>1, <2>2, RestVisitsLoop
  <2>4. b[0] = m /\ \A n \in 1 .. N : b[n] = ApplyRestKey(b[n - 1], s, own[n], cfg)
    BY <2>1, <2>2, RestVisitsLoop
  <2>5. PICK T : T = {n \in 0 .. N : /\ IsLoop(a[n]) /\ SeenLoop(a[n]) = b[n]
                                     /\ a[n].data.value = l.data.value}
    OBVIOUS
  <2>6. 0 \in T
    BY <1>1, <2>3, <2>4, <2>5
  <2>7. ASSUME NEW n \in 1 .. N, n - 1 \in T PROVE n \in T
    <3>1. PICK x : x = a[n - 1]
      OBVIOUS
    <3>2. IsLoop(x) /\ SeenLoop(x) = b[n - 1] /\ x.data.value = l.data.value
      BY <2>5, <2>7, <3>1
    <3>3. PICK property : property = own[n]
      OBVIOUS
    <3>4. PICK y : y = ApplyRestKey(x, s, property, config)
      OBVIOUS
    <3>5. /\ IsLoop(y) /\ SeenLoop(y) = ApplyRestKey(SeenLoop(x), s, property, config)
          /\ y.data.value = x.data.value
      BY <3>2, <3>4, RestKeySeen
    <3>6. a[n] = y /\ b[n] = SeenLoop(y)
      BY <2>1, <2>3, <2>4, <3>1, <3>2, <3>3, <3>4, <3>5
    <3>7. QED  BY <2>5, <3>2, <3>5, <3>6
  <2>8. N \in T
    <3>1. \A n \in 0 .. N : n \in T
      BY <2>6, <2>7, EveryPrefix
    <3>2. QED  BY <3>1
  <2>9. ApplyRest(l, s, own, config) = a[N] /\ ApplyRest(m, s, own, config) = b[N]
    BY <1>2, <1>4, <2>1, <2>2 DEF ApplyRest
  <2>10. QED  BY <1>1, <2>5, <2>8, <2>9
<1>5. QED  BY <1>3, <1>4

LEMMA ResolvedValue ==
  ASSUME NEW d, IsDataset(d), NEW v
  PROVE  /\ IsDataset([d EXCEPT !.value = v]) /\ [d EXCEPT !.value = v].value = v
         /\ Resolved([d EXCEPT !.value = v]) = [Resolved(d) EXCEPT !.value = Deref(v)]
<1>1. PICK e : e = [d EXCEPT !.value = v]
  OBVIOUS
<1>2. d = Dataset(d.value, d.typed, d.issues) /\ d.typed \in BOOLEAN /\ IsIssues(d.issues)
  BY DatasetParts
<1>3. PICK typed, q : typed = d.typed /\ q = d.issues
  OBVIOUS
<1>4. e = Dataset(v, typed, q)
  BY <1>1, <1>2, <1>3 DEF Dataset
<1>5. typed \in BOOLEAN /\ IsIssues(q)
  BY <1>2, <1>3
<1>6. IsDataset(e) /\ e.value = v /\ Resolved(e) = Dataset(Deref(v), typed, Seen(q))
  BY <1>4, <1>5, ResolvedAs
<1>7. PICK r, w : r = Resolved(d) /\ w = Deref(v)
  OBVIOUS
<1>8. r = Dataset(Deref(d.value), typed, Seen(q))
  BY <1>3, <1>7, ResolvedParts
<1>9. [r EXCEPT !.value = w] = Dataset(w, typed, Seen(q))
  BY <1>8 DEF Dataset
<1>10. QED  BY <1>1, <1>6, <1>7, <1>9

LEMMA LeaveSeen ==
  ASSUME NEW l, IsLoop(l), NEW v, v # Root
  PROVE  /\ IsDataset(Leave(l, v)) /\ Resolved(Leave(l, v)) = Leave(SeenLoop(l), v)
         /\ Leave(l, v).value \in {v, l.data.value}
<1>1. PICK m, d : m = SeenLoop(l) /\ d = l.data
  OBVIOUS
<1>2. m.aborted = l.aborted /\ m.data = Resolved(d) /\ IsDataset(d)
  BY <1>1, SeenLoopParts DEF IsLoop
<1>3. CASE l.aborted
  BY <1>1, <1>2, <1>3 DEF Leave
<1>4. CASE ~ l.aborted
  <2>1. PICK e : e = [d EXCEPT !.value = v]
    OBVIOUS
  <2>2. IsDataset(d)
    BY <1>2
  <2>3. IsDataset(e) /\ e.value = v /\ Resolved(e) = [Resolved(d) EXCEPT !.value = Deref(v)]
    BY <2>1, <2>2, ResolvedValue
  <2>4. Deref(v) = v
    BY DEF Deref
  <2>5. Leave(l, v) = e /\ Leave(m, v) = [Resolved(d) EXCEPT !.value = v]
    BY <1>1, <1>2, <1>4, <2>1 DEF Leave
  <2>6. QED  BY <1>1, <2>3, <2>4, <2>5
<1>5. QED  BY <1>3, <1>4

-----------------------------------------------------------------------------
(* The frames of the async calls: a frame has got as far as the loop of    *)
(* the synchronous `~run` has after as many children.                      *)

FrameOf(s, d, loop, awaited, outKey, keys) ==
  [s |-> s, d |-> d, loop |-> loop, awaited |-> awaited, outKey |-> outKey, keys |-> keys]

IsCall(s, d) == IsDataset(d) /\ <<s, Resolved(d)>> \in Calls
Returns(s, d, r) ==
  /\ IsDataset(r) /\ Resolved(r) = Run(s, Resolved(d), config)
  /\ r.value = Root => d.value = Root

GotTo(f, loop) == IsLoop(f.loop) /\ SeenLoop(f.loop) = loop /\ f.loop.data.value = f.d.value

VisitedBy(f, places) == Visits(Enter(Resolved(f.d)), places, config)
ObjectProgress(f) ==
  IsObject(Deref(f.d.value)) =>
    LET places == KeyPlaces(f.s, Own(f))
    IN  f.awaited <= Len(places) /\ GotTo(f, VisitedBy(f, places)[f.awaited])
ArrayProgress(f) ==
  IsArray(Deref(f.d.value)) =>
    LET places == ArrayPlaces(f.s, Elements(f))
    IN  f.awaited <= Len(places) /\ GotTo(f, VisitedBy(f, places)[f.awaited])

(* A record whose key is validated, and whose value is not yet             *)
Keyed(loop, s, property, cfg) ==
  LET k == Run(s.key, Fresh(Name(property)), cfg)
  IN  [loop EXCEPT
         !.data.issues = @ \o Under(property[1], k.issues),
         !.data.typed = @ /\ ~ HasError(k.issues),
         !.aborted = Aborts(k.issues, cfg)]
RecordProgress(f) ==
  IsObject(Deref(f.d.value)) =>
    LET own == Own(f)
        after == RecordVisits(Enter(Resolved(f.d)), f.s, own, config)
    IN  /\ f.keys = [i \in DOMAIN own |-> own[i][1]]
        /\ \E n \in 0 .. Len(own) :
             \/ f.awaited = 2 * n /\ GotTo(f, after[n])
             \/ /\ f.awaited = 2 * n + 1 /\ n < Len(own)
                /\ IsLoop(after[n]) /\ ~ after[n].aborted
                /\ GotTo(f, Keyed(after[n], f.s, own[n + 1], config))
                /\ f.outKey = Run(f.s.key, Fresh(Name(own[n + 1])), config).value.token

IsLoopRecord(l) == l = LoopOf(l.data, l.out, l.aborted)
UnionProgress(f) ==
  /\ IsLoopRecord(f.loop) /\ f.loop.aborted \in BOOLEAN
  /\ f.awaited <= Len(f.s.kids)
  /\ f.loop.aborted => Returns(f.s, f.d, f.loop.data)
  /\ ~ f.loop.aborted => \A i \in 1 .. f.awaited :
                           ~ Matches(Run(f.s.kids[i], Fresh(Deref(f.d.value)), config))
DiscriminatedProgress(f) ==
  /\ IsLoopRecord(f.loop)
  /\ \/ f.awaited = 0
     \/ f.awaited = 1 /\ Returns(f.s, f.d, f.loop.data)

(* The dataset a pipe or a preprocess goes on with                         *)
Holds(f, d) ==
  /\ IsDataset(f.loop.data) /\ Resolved(f.loop.data) = d
  /\ f.loop.data.value = Root => f.d.value = Root
PipeProgress(f) ==
  LET d == Resolved(f.d)
      after == ActsInTurn(Run(f.s.wrapped, d, config), f.s.ops, config)
  IN  /\ IsLoopRecord(f.loop)
      /\ \/ f.awaited = 0
         \/ f.awaited \in 1 .. Len(f.s.ops) + 1 /\ Holds(f, after[f.awaited - 1])
PreprocessProgress(f) ==
  /\ IsLoopRecord(f.loop)
  /\ \/ f.awaited = 0
     \/ f.awaited = 1 /\ ~ Fails(f.s.op) /\ Holds(f, Preprocessed(f.s, Resolved(f.d)))
     \/ f.awaited = 1 /\ Fails(f.s.op) /\ Returns(f.s, f.d, f.loop.data)
     \/ f.awaited = 2 /\ Returns(f.s, f.d, f.loop.data)

IsFrame(f) ==
  /\ f = FrameOf(f.s, f.d, f.loop, f.awaited, f.outKey, f.keys)
  /\ f.s.type \in AsyncTypes /\ IsCall(f.s, f.d) /\ f.awaited \in Nat
  /\ f.s.type = "object" => ObjectProgress(f)
  /\ f.s.type = "array" => ArrayProgress(f)
  /\ f.s.type = "record" => RecordProgress(f)
  /\ f.s.type = "union" => UnionProgress(f)
  /\ f.s.type = "discriminated_union" => DiscriminatedProgress(f)
  /\ f.s.type = "pipe" => PipeProgress(f)
  /\ f.s.type = "preprocess" => PreprocessProgress(f)

(* What a frame goes on with: a call, an action, or the answer.            *)
Moves(f, g) ==
  \/ g.step = "run" /\ g = Await(g.s, g.d) /\ IsCall(g.s, g.d)
  \/ g.step = "act"
  \/ g.step = "return" /\ g = Return(g.d) /\ Returns(f.s, f.d, g.d)

LEMMA CallParts ==
  ASSUME config \in Configs, NEW s, NEW d, IsCall(s, d)
  PROVE  /\ IsDataset(d) /\ IsDataset(Resolved(d)) /\ Resolved(d).value = Deref(d.value)
         /\ IsSchema(s) /\ IsValue(Deref(d.value))
         /\ Run(s, Resolved(d), config) = RunBody(s, Resolved(d), config)
         /\ \A inner \in Range(Inner(s, Resolved(d))) : inner \in Calls
         /\ config \in Modes /\ config.reject \in BOOLEAN
<1>1. IsDataset(d) /\ <<s, Resolved(d)>> \in Calls
  BY DEF IsCall
<1>2. IsDataset(Resolved(d)) /\ Resolved(d).value = Deref(d.value)
  BY <1>1, ResolvedParts
<1>3. config \in Modes /\ config.reject \in BOOLEAN
  BY ModeParts DEF Modes
<1>4. PICK x : x = <<s, Resolved(d)>>
  OBVIOUS
<1>5. x \in Calls /\ x[1] = s /\ x[2] = Resolved(d)
  BY <1>1, <1>4
<1>6. /\ IsSchema(x[1]) /\ IsValue(x[2].value)
      /\ \A inner \in Range(Inner(x[1], x[2])) : inner \in Calls
  BY <1>5, CallsAssumption
<1>7. Run(x[1], x[2], config) = RunBody(x[1], x[2], config)
  BY <1>3, <1>5, RunAssumption
<1>8. QED  BY <1>1, <1>2, <1>3, <1>5, <1>6, <1>7

LEMMA FreshSeen ==
  ASSUME NEW v
  PROVE  /\ IsDataset(Fresh(v)) /\ Fresh(v).value = v
         /\ Resolved(Fresh(v)) = Fresh(Deref(v))
<1>1. PICK e, w, typed, q : e = Fresh(v) /\ w = Deref(v) /\ typed = FALSE /\ q = <<>>
  OBVIOUS
<1>2. e = Dataset(v, typed, q) /\ Fresh(w) = Dataset(w, typed, q) /\ typed \in BOOLEAN
  BY <1>1, FreshParts
<1>3. IsIssues(q) /\ Seen(q) = q
  BY <1>1, NoIssues, SeenNone
<1>4. e = Dataset(v, typed, q) /\ typed \in BOOLEAN /\ IsIssues(q)
  BY <1>2, <1>3
<1>5. IsDataset(e) /\ e.value = v /\ Resolved(e) = Dataset(Deref(v), typed, Seen(q))
  BY <1>4, ResolvedAs
<1>6. QED  BY <1>1, <1>2, <1>3, <1>5

(* A child whose input is not the caller's value                           *)
LEMMA PlainCall ==
  ASSUME NEW s, NEW v, <<s, Fresh(v)>> \in Calls
  PROVE  /\ v # Root /\ Deref(v) = v /\ IsCall(s, Fresh(v))
         /\ \A r : Returns(s, Fresh(v), r) =>
              IsDataset(r) /\ r.value # Root /\ Resolved(r) = Run(s, Fresh(v), config)
<1>1. PICK x : x = <<s, Fresh(v)>>
  OBVIOUS
<1>2. x \in Calls /\ x[2] = Fresh(v)
  BY <1>1
<1>3. IsPlain(x[2])
  BY <1>2, RootAssumption
<1>4. v # Root
  BY <1>2, <1>3, FreshSeen DEF IsPlain
<1>5. Deref(v) = v
  BY <1>4 DEF Deref
<1>6. IsDataset(Fresh(v)) /\ Fresh(v).value = v /\ Resolved(Fresh(v)) = Fresh(v)
  BY <1>5, FreshSeen
<1>7. IsCall(s, Fresh(v))
  BY <1>6 DEF IsCall
<1>8. QED  BY <1>4, <1>5, <1>6, <1>7 DEF Returns

LEMMA VisitsStay ==
  ASSUME NEW start, NEW places, NEW cfg, NEW N \in Nat, N = Len(places), NEW n \in 0 .. N,
         Visits(start, places, cfg)[n].aborted
  PROVE  Visits(start, places, cfg)[N] = Visits(start, places, cfg)[n]
<1>1. PICK f : f = Visits(start, places, cfg)
  OBVIOUS
<1>2. \A k \in 1 .. N : f[k] = Visit(f[k - 1], places[k], cfg)
  BY <1>1, VisitsLoop
<1>3. PICK T : T = {k \in 0 .. N : k >= n => f[k] = f[n]}
  OBVIOUS
<1>4. 0 \in T
  BY <1>3
<1>5. ASSUME NEW k \in 1 .. N, k - 1 \in T PROVE k \in T
  <2>1. CASE k > n
    <3>1. f[k - 1] = f[n]
      BY <1>3, <1>5, <2>1
    <3>2. f[k] = f[n]
      BY <1>1, <1>2, <3>1 DEF Visit
    <3>3. QED  BY <1>3, <3>2
  <2>2. CASE k <= n
    BY <1>3, <2>2
  <2>3. QED  BY <2>1, <2>2
<1>6. N \in T
  <2>1. \A k \in 0 .. N : k \in T
    BY <1>4, <1>5, EveryPrefix
  <2>2. QED  BY <2>1
<1>7. QED  BY <1>1, <1>3, <1>6

LEMMA MismatchReturns ==
  ASSUME NEW s, NEW d, IsDataset(d), Run(s, Resolved(d), config) = Mismatch(Resolved(d), s)
  PROVE  Returns(s, d, Mismatch(d, s))
<1>1. PICK r : r = Mismatch(d, s)
  OBVIOUS
<1>2. IsDataset(r) /\ Resolved(r) = Mismatch(Resolved(d), s) /\ r.value = d.value
  BY <1>1, ResolvedMismatch
<1>3. QED  BY <1>1, <1>2 DEF Returns

LEMMA PlaceCall ==
  ASSUME config \in Configs, NEW s, NEW d, IsCall(s, d), NEW places, IsList(places),
         Inner(s, Resolved(d)) = Children(places), NEW i \in 1 .. Len(places)
  PROVE  <<places[i].child, Fresh(places[i].v)>> \in Calls
<1>1. DOMAIN places = 1 .. Len(places)
  BY ListDomain
<1>2. PICK x : x = <<places[i].child, Fresh(places[i].v)>>
  OBVIOUS
<1>3. Children(places)[i] = x /\ i \in DOMAIN Children(places)
  BY <1>1, <1>2 DEF Children
<1>4. x \in Range(Children(places))
  BY <1>3 DEF Range
<1>5. QED  BY <1>2, <1>4, CallParts

LEMMA TakenParts ==
  ASSUME NEW f, f = FrameOf(f.s, f.d, f.loop, f.awaited, f.outKey, f.keys),
         NEW key, NEW r, NEW omit, NEW outKey
  PROVE  Taken(f, key, r, omit, outKey) =
           FrameOf(f.s, f.d, TakenLoop(f.loop, key, r, omit, outKey),
                   f.awaited + 1, f.outKey, f.keys)
<1>1. PICK l : l = TakenLoop(f.loop, key, r, omit, outKey)
  OBVIOUS
<1>2. PICK n : n = f.awaited + 1
  OBVIOUS
<1>3. PICK t : t = [f EXCEPT !.awaited = n, !.loop = l]
  OBVIOUS
<1>4. t = FrameOf(f.s, f.d, l, n, f.outKey, f.keys)
  BY <1>3 DEF FrameOf
<1>5. Taken(f, key, r, omit, outKey) = t
  BY <1>1, <1>2, <1>3 DEF Taken, TakenLoop, LoopOf
<1>6. QED  BY <1>1, <1>2, <1>4, <1>5

LEMMA FrameFields ==
  ASSUME NEW s, NEW d, NEW loop, NEW awaited, NEW outKey, NEW keys, NEW f,
         f = FrameOf(s, d, loop, awaited, outKey, keys)
  PROVE  /\ f.s = s /\ f.d = d /\ f.loop = loop /\ f.awaited = awaited
         /\ f.outKey = outKey /\ f.keys = keys
         /\ f = FrameOf(f.s, f.d, f.loop, f.awaited, f.outKey, f.keys)
BY DEF FrameOf

(* The loop over the places of an object or an array                       *)
LEMMA PlaceTaken ==
  ASSUME config \in Configs, NEW f, f = FrameOf(f.s, f.d, f.loop, f.awaited, f.outKey, f.keys),
         NEW places, IsList(places), f.awaited \in Nat, f.awaited < Len(places),
         GotTo(f, VisitedBy(f, places)[f.awaited]), ~ f.loop.aborted,
         NEW place, place = places[f.awaited + 1], <<place.child, Fresh(place.v)>> \in Calls,
         NEW r, Returns(place.child, Fresh(place.v), r)
  PROVE  LET t == Taken(f, place.key, r, place.omit, place.key)
         IN  /\ t = FrameOf(f.s, f.d, t.loop, f.awaited + 1, f.outKey, f.keys)
             /\ GotTo(t, VisitedBy(t, places)[f.awaited + 1])
<1>1. Len(places) \in Nat /\ config.reject \in BOOLEAN
  BY ListDomain, ModeParts DEF Modes
<1>2. PICK l, t : l = f.loop /\ t = Taken(f, place.key, r, place.omit, place.key)
  OBVIOUS
<1>3. IsDataset(r) /\ r.value # Root /\ Resolved(r) = Run(place.child, Fresh(place.v), config)
  BY PlainCall
<1>4. PICK n \in 1 .. Len(places) : n = f.awaited + 1 /\ f.awaited = n - 1
  BY <1>1
<1>5. PICK k : k = TakenLoop(l, place.key, r, place.omit, place.key)
  OBVIOUS
<1>6. t = FrameOf(f.s, f.d, k, f.awaited + 1, f.outKey, f.keys)
  BY <1>2, <1>5, TakenParts
<1>7. t = FrameOf(f.s, f.d, k, n, f.outKey, f.keys)
  BY <1>6, <1>4
<1>8. t.s = f.s /\ t.d = f.d /\ t.loop = k
  BY <1>7, FrameFields
<1>9. IsLoop(l) /\ SeenLoop(l) = VisitedBy(f, places)[n - 1] /\ l.data.value = f.d.value
  BY <1>2, <1>4 DEF GotTo
<1>10. PICK key, omit, rr : key = place.key /\ omit = place.omit /\ rr = Resolved(r)
  OBVIOUS
<1>11. k = TakenLoop(l, key, r, omit, key) /\ IsLoop(l) /\ IsDataset(r) /\ r.value # Root
  BY <1>3, <1>5, <1>9, <1>10
<1>12. IsLoop(k) /\ SeenLoop(k) = TakenLoop(SeenLoop(l), key, rr, omit, key) /\ k.data.value = l.data.value
  BY <1>1, <1>10, <1>11, TakenLoopSeen
<1>13. SeenLoop(l).aborted = l.aborted
  BY <1>9, SeenLoopParts
<1>14. Visit(SeenLoop(l), place, config) = TakenLoop(SeenLoop(l), key, rr, omit, key)
  BY <1>2, <1>3, <1>10, <1>13 DEF Visit, TakenLoop, LoopOf
<1>15. VisitedBy(f, places)[n] = Visit(VisitedBy(f, places)[n - 1], place, config)
  BY <1>1, <1>4, VisitsLoop DEF VisitedBy
<1>16. VisitedBy(t, places) = VisitedBy(f, places)
  BY <1>8 DEF VisitedBy
<1>17. QED  BY <1>2, <1>7, <1>8, <1>9, <1>12, <1>14, <1>15, <1>16, <1>4 DEF GotTo

LEMMA PlacesDone ==
  ASSUME NEW f, NEW places, IsList(places), f.awaited \in 0 .. Len(places),
         GotTo(f, VisitedBy(f, places)[f.awaited]),
         f.loop.aborted \/ f.awaited = Len(places)
  PROVE  SeenLoop(f.loop) = VisitedBy(f, places)[Len(places)]
<1>1. PICK N \in Nat : N = Len(places)
  BY ListDomain
<1>2. PICK start, n : start = Enter(Resolved(f.d)) /\ n = f.awaited
  OBVIOUS
<1>3. PICK l : l = Visits(start, places, config)[n]
  OBVIOUS
<1>4. SeenLoop(f.loop) = l /\ l.aborted = f.loop.aborted
  BY <1>2, <1>3, SeenLoopParts DEF GotTo, VisitedBy
<1>5. CASE n = N
  BY <1>1, <1>2, <1>3, <1>4, <1>5 DEF VisitedBy
<1>6. CASE l.aborted
  <2>1. n \in 0 .. N /\ N = Len(places) /\ Visits(start, places, config)[n].aborted
    BY <1>1, <1>2, <1>3, <1>6
  <2>2. Visits(start, places, config)[N] = Visits(start, places, config)[n]
    BY <2>1, VisitsStay
  <2>3. QED  BY <1>1, <1>2, <1>3, <1>4, <2>2 DEF VisitedBy
<1>7. QED  BY <1>1, <1>2, <1>4, <1>5, <1>6

LEMMA ObjectPlaces ==
  ASSUME config \in Configs, NEW f, IsFrame(f), f.s.type = "object", IsObject(Deref(f.d.value)),
         NEW places, places = KeyPlaces(f.s, Own(f))
  PROVE  /\ IsList(places) /\ DOMAIN f.s.keys = 1 .. Len(places) /\ Len(places) \in Nat
         /\ Own(f) = Resolved(f.d).value.own /\ Len(Own(f)) \in Nat
         /\ f.awaited \in 0 .. Len(places)
         /\ GotTo(f, VisitedBy(f, places)[f.awaited])
         /\ \A i \in 1 .. Len(places) :
              /\ places[i].key = f.s.keys[i] /\ places[i].child = f.s.kids[i]
              /\ places[i].v = Get(Own(f), f.s.keys[i])
              /\ places[i].omit = (f.s.optionalKeys /\ Omittable(f.s.kids[i]))
              /\ <<places[i].child, Fresh(places[i].v)>> \in Calls
<1>1. IsCall(f.s, f.d) /\ f.awaited \in Nat /\ ObjectProgress(f)
  BY DEF IsFrame
<1>2. IsSchema(f.s) /\ IsValue(Deref(f.d.value)) /\ Resolved(f.d).value = Deref(f.d.value)
  BY <1>1, CallParts
<1>3. PICK own : own = Own(f)
  OBVIOUS
<1>4. own = Deref(f.d.value).own /\ IsList(own)
  BY <1>2, <1>3 DEF Own, IsValue
<1>5. IsList(f.s.keys)
  BY <1>2 DEF IsSchema
<1>6. IsList(places) /\ DOMAIN places = DOMAIN f.s.keys
  BY <1>5, KeyPlacesList DEF KeyPlaces
<1>7. Len(places) \in Nat /\ DOMAIN places = 1 .. Len(places) /\ Len(own) \in Nat
  BY <1>4, <1>6, ListDomain
<1>8. Inner(f.s, Resolved(f.d)) = Children(places)
  BY <1>2, <1>3, <1>4 DEF Inner
<1>9. f.awaited <= Len(places) /\ GotTo(f, VisitedBy(f, places)[f.awaited])
  BY <1>1 DEF ObjectProgress
<1>10. ASSUME NEW i \in 1 .. Len(places)
       PROVE  /\ places[i].key = f.s.keys[i] /\ places[i].child = f.s.kids[i]
              /\ places[i].v = Get(Own(f), f.s.keys[i])
              /\ places[i].omit = (f.s.optionalKeys /\ Omittable(f.s.kids[i]))
              /\ <<places[i].child, Fresh(places[i].v)>> \in Calls
  <2>1. <<places[i].child, Fresh(places[i].v)>> \in Calls
    BY <1>1, <1>6, <1>8, PlaceCall
  <2>2. PICK key, child, v, omit :
          /\ key = f.s.keys[i] /\ child = f.s.kids[i] /\ v = Get(Own(f), f.s.keys[i])
          /\ omit = (f.s.optionalKeys /\ Omittable(f.s.kids[i]))
    OBVIOUS
  <2>3. PICK p : p = places[i]
    OBVIOUS
  <2>4. p = [key |-> key, child |-> child, v |-> v, omit |-> omit]
    BY <1>6, <1>7, <2>2, <2>3 DEF KeyPlaces, Place
  <2>5. p.key = key /\ p.child = child /\ p.v = v /\ p.omit = omit
    BY <2>4
  <2>6. QED  BY <2>1, <2>2, <2>3, <2>5
<1>11. QED  BY <1>1, <1>2, <1>3, <1>4, <1>6, <1>7, <1>9, <1>10

LEMMA AwaitFields ==
  ASSUME NEW s, NEW d, NEW g
  PROVE  /\ g = Await(s, d) => g.step = "run" /\ g.s = s /\ g.d = d
         /\ g = AwaitUser(s, d) => g.step = "act" /\ g.s = s /\ g.d = d
         /\ g = Return(d) => g.step = "return" /\ g.d = d
BY DEF Await, AwaitUser, Return

LEMMA MovesOn ==
  ASSUME NEW f, NEW g, NEW s, NEW d
  PROVE  /\ g = Await(s, d) /\ IsCall(s, d) => Moves(f, g)
         /\ g = AwaitUser(s, d) => Moves(f, g)
         /\ g = Return(d) /\ Returns(f.s, f.d, d) => Moves(f, g)
BY AwaitFields DEF Moves

LEMMA ObjectGoes ==
  ASSUME config \in Configs, NEW f, IsFrame(f), f.s.type = "object"
  PROVE  Moves(f, ObjectGoesOn(f))
<1>1. IsCall(f.s, f.d) /\ f.awaited \in Nat
  BY DEF IsFrame
<1>2. PICK e : e = Resolved(f.d)
  OBVIOUS
<1>3. /\ IsDataset(f.d) /\ IsDataset(e) /\ e.value = Deref(f.d.value)
      /\ Run(f.s, e, config) = RunObject(f.s, e, config) /\ config.reject \in BOOLEAN
  BY <1>1, <1>2, CallParts DEF RunBody
<1>4. PICK g : g = ObjectGoesOn(f)
  OBVIOUS
<1>5. CASE ~ IsObject(e.value)
  <2>1. Run(f.s, e, config) = Mismatch(e, f.s)
    BY <1>3, <1>5 DEF RunObject
  <2>2. Returns(f.s, f.d, Mismatch(f.d, f.s))
    BY <1>2, <1>3, <2>1, MismatchReturns
  <2>3. g = Return(Mismatch(f.d, f.s))
    BY <1>3, <1>4, <1>5 DEF ObjectGoesOn
  <2>4. QED  BY <1>4, <2>2, <2>3, MovesOn
<1>6. CASE IsObject(e.value)
  <2>1. PICK places, own : places = KeyPlaces(f.s, own) /\ own = Own(f)
    OBVIOUS
  <2>2. /\ IsList(places) /\ DOMAIN f.s.keys = 1 .. Len(places) /\ Len(places) \in Nat
        /\ own = e.value.own /\ Len(own) \in Nat
        /\ f.awaited \in 0 .. Len(places)
        /\ GotTo(f, VisitedBy(f, places)[f.awaited])
        /\ \A i \in 1 .. Len(places) :
             /\ places[i].child = f.s.kids[i] /\ places[i].v = Get(own, f.s.keys[i])
             /\ <<places[i].child, Fresh(places[i].v)>> \in Calls
    BY <1>2, <1>3, <1>6, <2>1, ObjectPlaces
  <2>3. PICK i : i = f.awaited + 1
    OBVIOUS
  <2>4. CASE ~ f.loop.aborted /\ i \in DOMAIN f.s.keys
    <3>1. PICK s, v : s = f.s.kids[i] /\ v = Get(own, f.s.keys[i])
      OBVIOUS
    <3>2. g = Await(s, Fresh(v))
      BY <1>3, <1>4, <1>6, <2>1, <2>3, <2>4, <3>1 DEF ObjectGoesOn
    <3>3. places[i].child = s /\ places[i].v = v
      BY <2>2, <2>4, <3>1
    <3>4. <<s, Fresh(v)>> \in Calls
      BY <2>2, <2>4, <3>3
    <3>5. IsCall(s, Fresh(v))
      BY <3>4, PlainCall
    <3>6. QED  BY <1>4, <3>2, <3>5, MovesOn
  <2>5. CASE ~ (~ f.loop.aborted /\ i \in DOMAIN f.s.keys)
    <3>1. PICK l, m : l = f.loop /\ m = VisitedBy(f, places)[Len(places)]
      OBVIOUS
    <3>2. f.loop.aborted \/ f.awaited = Len(places)
      BY <2>2, <2>3, <2>5
    <3>3. IsLoop(l) /\ SeenLoop(l) = m /\ l.data.value = f.d.value
      BY <2>2, <3>1, <3>2, PlacesDone DEF GotTo
    <3>4. PICK done : done = ApplyRest(l, f.s, own, config)
      OBVIOUS
    <3>5. /\ IsLoop(done) /\ done.data.value = f.d.value
          /\ SeenLoop(done) = ApplyRest(m, f.s, own, config)
      <4>1. PICK s : s = f.s
        OBVIOUS
      <4>2. done = ApplyRest(l, s, own, config) /\ IsLoop(l) /\ Len(own) \in Nat
        BY <2>2, <3>3, <3>4, <4>1
      <4>3. /\ IsLoop(done) /\ done.data.value = l.data.value
            /\ SeenLoop(done) = ApplyRest(SeenLoop(l), s, own, config)
        BY <1>3, <4>2, RestSeen
      <4>4. QED  BY <3>3, <4>1, <4>3
    <3>6. PICK v : v = [type |-> "object", own |-> done.out]
      OBVIOUS
    <3>7. v # Root
      <4>1. v.type = "object" /\ Root.type = "root"
        BY <3>6 DEF Root
      <4>2. QED  BY <4>1
    <3>8. PICK r : r = Leave(done, v)
      OBVIOUS
    <3>9. IsDataset(r) /\ Resolved(r) = Leave(SeenLoop(done), v) /\ r.value \in {v, done.data.value}
      BY <3>5, <3>7, <3>8, LeaveSeen
    <3>10. g = Return(r)
      BY <1>3, <1>4, <1>6, <2>1, <2>3, <2>5, <3>1, <3>4, <3>6, <3>8 DEF ObjectGoesOn
    <3>11. SeenLoop(done).out = done.out
      BY <3>5, SeenLoopParts
    <3>12. Run(f.s, e, config) = Leave(SeenLoop(done), v)
      BY <1>2, <1>3, <1>6, <2>1, <2>2, <3>1, <3>5, <3>6, <3>11 DEF RunObject, VisitedBy
    <3>13. Returns(f.s, f.d, r)
      BY <1>2, <3>5, <3>7, <3>9, <3>12 DEF Returns
    <3>14. QED  BY <1>4, <3>10, <3>13, MovesOn
  <2>6. QED  BY <2>4, <2>5
<1>7. QED  BY <1>5, <1>6

(* Taking over what was awaited keeps the frame.                           *)
Resumed(g, r) ==
  \/ g.step = "run" /\ Returns(g.s, g.d, r)
  \/ g.step = "act" /\ r = Acted(g.s, g.d)
Keeps(f, t) == IsFrame(t) /\ t.s = f.s /\ t.d = f.d

LEMMA ObjectTakesKeeps ==
  ASSUME config \in Configs, NEW f, IsFrame(f), f.s.type = "object",
         NEW r, Resumed(ObjectGoesOn(f), r)
  PROVE  Keeps(f, ObjectTakes(f, r))
<1>1. PICK g, i : g = ObjectGoesOn(f) /\ i = f.awaited + 1
  OBVIOUS
<1>2. /\ f = FrameOf(f.s, f.d, f.loop, f.awaited, f.outKey, f.keys)
      /\ IsCall(f.s, f.d) /\ f.awaited \in Nat
  BY DEF IsFrame
<1>3. PICK places, own : places = KeyPlaces(f.s, own) /\ own = Own(f)
  OBVIOUS
<1>4. PICK s, v : s = f.s.kids[i] /\ v = Get(own, f.s.keys[i])
  OBVIOUS
<1>5. /\ IsObject(Deref(f.d.value)) /\ ~ f.loop.aborted /\ i \in DOMAIN f.s.keys
      /\ g = Await(s, Fresh(v))
  <2>1. g.step = "run" \/ g.step = "act"
    BY <1>1 DEF Resumed
  <2>2. ASSUME NEW x, g = Return(x) PROVE FALSE
    BY <2>1, <2>2, AwaitFields
  <2>3. IsObject(Deref(f.d.value)) /\ ~ f.loop.aborted /\ i \in DOMAIN f.s.keys
    BY <1>1, <2>2 DEF ObjectGoesOn
  <2>4. QED  BY <1>1, <1>3, <1>4, <2>3 DEF ObjectGoesOn
<1>6. Returns(s, Fresh(v), r)
  BY <1>1, <1>5, AwaitFields DEF Resumed
<1>7. /\ IsList(places) /\ DOMAIN f.s.keys = 1 .. Len(places)
      /\ GotTo(f, VisitedBy(f, places)[f.awaited])
      /\ \A k \in 1 .. Len(places) :
           /\ places[k].key = f.s.keys[k] /\ places[k].child = f.s.kids[k]
           /\ places[k].v = Get(own, f.s.keys[k])
           /\ places[k].omit = (f.s.optionalKeys /\ Omittable(f.s.kids[k]))
           /\ <<places[k].child, Fresh(places[k].v)>> \in Calls
  BY <1>3, <1>5, ObjectPlaces
<1>8. /\ places[i].key = f.s.keys[i] /\ places[i].child = s /\ places[i].v = v
      /\ places[i].omit = (f.s.optionalKeys /\ Omittable(f.s.kids[i]))
  BY <1>4, <1>5, <1>7
<1>9. PICK t : t = Taken(f, places[i].key, r, places[i].omit, places[i].key)
  OBVIOUS
<1>10. t = ObjectTakes(f, r)
  BY <1>1, <1>8, <1>9 DEF ObjectTakes
<1>11. i \in 1 .. Len(places) /\ f.awaited < Len(places)
  BY <1>1, <1>2, <1>5, <1>7, ListDomain
<1>12. <<places[i].child, Fresh(places[i].v)>> \in Calls /\ Returns(places[i].child, Fresh(places[i].v), r)
  BY <1>6, <1>7, <1>8, <1>11
<1>13. /\ t = FrameOf(f.s, f.d, t.loop, i, f.outKey, f.keys)
       /\ GotTo(t, VisitedBy(t, places)[i])
  <2>1. /\ IsList(places) /\ f.awaited \in Nat /\ f.awaited < Len(places)
        /\ f = FrameOf(f.s, f.d, f.loop, f.awaited, f.outKey, f.keys)
        /\ GotTo(f, VisitedBy(f, places)[f.awaited]) /\ ~ f.loop.aborted
    BY <1>2, <1>5, <1>7, <1>11
  <2>2. PICK place : place = places[f.awaited + 1]
    OBVIOUS
  <2>3. <<place.child, Fresh(place.v)>> \in Calls /\ Returns(place.child, Fresh(place.v), r)
    BY <1>1, <1>12, <2>2
  <2>4. t = Taken(f, place.key, r, place.omit, place.key)
    BY <1>1, <1>9, <2>2
  <2>5. /\ t = FrameOf(f.s, f.d, t.loop, f.awaited + 1, f.outKey, f.keys)
        /\ GotTo(t, VisitedBy(t, places)[f.awaited + 1])
    BY <2>1, <2>2, <2>3, <2>4, PlaceTaken, Zenon
  <2>6. QED  BY <1>1, <2>5
<1>14. /\ t.s = f.s /\ t.d = f.d /\ t.awaited = i
       /\ t = FrameOf(t.s, t.d, t.loop, t.awaited, t.outKey, t.keys)
  BY <1>13, FrameFields
<1>15. Own(t) = own
  BY <1>3, <1>14 DEF Own
<1>16. ObjectProgress(t)
  <2>1. i <= Len(places)
    BY <1>7, <1>11, ListDomain
  <2>2. QED  BY <1>3, <1>13, <1>14, <1>15, <2>1 DEF ObjectProgress
<1>17. i \in Nat
  BY <1>1, <1>2
<1>18. IsFrame(t)
  BY <1>2, <1>14, <1>16, <1>17 DEF IsFrame, AsyncTypes
<1>19. QED  BY <1>10, <1>14, <1>18 DEF Keeps

LEMMA ElementPlaces ==
  ASSUME config \in Configs, NEW f, IsFrame(f), f.s.type = "array", IsArray(Deref(f.d.value)),
         NEW items, items = Elements(f), NEW places, places = ArrayPlaces(f.s, items)
  PROVE  /\ IsList(places) /\ DOMAIN items = 1 .. Len(places) /\ Len(places) \in Nat
         /\ items = Resolved(f.d).value.items
         /\ f.awaited \in 0 .. Len(places)
         /\ GotTo(f, VisitedBy(f, places)[f.awaited])
         /\ \A i \in 1 .. Len(places) :
              /\ places[i].key = Index(i) /\ places[i].child = f.s.item
              /\ places[i].v = items[i] /\ ~ places[i].omit
              /\ <<places[i].child, Fresh(places[i].v)>> \in Calls
<1>1. IsCall(f.s, f.d) /\ f.awaited \in Nat /\ ArrayProgress(f)
  BY DEF IsFrame
<1>2. IsValue(Deref(f.d.value)) /\ Resolved(f.d).value = Deref(f.d.value)
  BY <1>1, CallParts
<1>3. items = Deref(f.d.value).items /\ IsList(items)
  BY <1>2 DEF Elements, IsValue
<1>4. PICK kids : kids = SameItem(f.s, items)
  OBVIOUS
<1>5. places = ItemPlaces(kids, items)
  BY <1>4 DEF ArrayPlaces
<1>6. IsList(places) /\ DOMAIN places = DOMAIN items
  <2>1. IsList(places)
    BY <1>3, <1>5, ItemPlacesList
  <2>2. DOMAIN places = DOMAIN items
    BY <1>5 DEF ItemPlaces
  <2>3. QED  BY <2>1, <2>2
<1>7. Len(places) \in Nat /\ DOMAIN places = 1 .. Len(places)
  BY <1>6, ListDomain
<1>8. Inner(f.s, Resolved(f.d)) = Children(places)
  BY <1>2, <1>3 DEF Inner
<1>9. f.awaited <= Len(places) /\ GotTo(f, VisitedBy(f, places)[f.awaited])
  BY <1>1 DEF ArrayProgress
<1>10. ASSUME NEW i \in 1 .. Len(places)
       PROVE  /\ places[i].key = Index(i) /\ places[i].child = f.s.item
              /\ places[i].v = items[i] /\ ~ places[i].omit
              /\ <<places[i].child, Fresh(places[i].v)>> \in Calls
  <2>1. <<places[i].child, Fresh(places[i].v)>> \in Calls
    BY <1>1, <1>6, <1>8, PlaceCall
  <2>2. PICK p, key, v : p = places[i] /\ key = Index(i) /\ v = items[i]
    OBVIOUS
  <2>3. kids[i] = f.s.item
    BY <1>4, <1>6, <1>7 DEF SameItem
  <2>4. p = Place(key, f.s.item, v, FALSE)
    BY <1>5, <1>6, <1>7, <2>2, <2>3 DEF ItemPlaces
  <2>5. p.key = key /\ p.child = f.s.item /\ p.v = v /\ p.omit = FALSE
    BY <2>4 DEF Place
  <2>6. ~ places[i].omit
    BY <2>2, <2>5
  <2>7. QED  BY <2>1, <2>2, <2>5, <2>6
<1>11. QED  BY <1>1, <1>2, <1>3, <1>6, <1>7, <1>9, <1>10

LEMMA ArrayGoes ==
  ASSUME config \in Configs, NEW f, IsFrame(f), f.s.type = "array"
  PROVE  Moves(f, ArrayGoesOn(f))
<1>1. IsCall(f.s, f.d) /\ f.awaited \in Nat
  BY DEF IsFrame
<1>2. PICK e : e = Resolved(f.d)
  OBVIOUS
<1>3. /\ IsDataset(f.d) /\ IsDataset(e) /\ e.value = Deref(f.d.value)
      /\ Run(f.s, e, config) = RunArray(f.s, e, config)
  BY <1>1, <1>2, CallParts DEF RunBody
<1>4. PICK g : g = ArrayGoesOn(f)
  OBVIOUS
<1>5. CASE ~ IsArray(e.value)
  <2>1. Run(f.s, e, config) = Mismatch(e, f.s)
    BY <1>3, <1>5 DEF RunArray
  <2>2. Returns(f.s, f.d, Mismatch(f.d, f.s))
    BY <1>2, <1>3, <2>1, MismatchReturns
  <2>3. g = Return(Mismatch(f.d, f.s))
    BY <1>3, <1>4, <1>5 DEF ArrayGoesOn
  <2>4. QED  BY <1>4, <2>2, <2>3, MovesOn
<1>6. CASE IsArray(e.value)
  <2>1. PICK places, items : places = ArrayPlaces(f.s, items) /\ items = Elements(f)
    OBVIOUS
  <2>2. /\ IsList(places) /\ DOMAIN items = 1 .. Len(places) /\ Len(places) \in Nat
        /\ items = e.value.items
        /\ f.awaited \in 0 .. Len(places)
        /\ GotTo(f, VisitedBy(f, places)[f.awaited])
        /\ \A i \in 1 .. Len(places) :
             /\ places[i].child = f.s.item /\ places[i].v = items[i]
             /\ <<places[i].child, Fresh(places[i].v)>> \in Calls
    BY <1>2, <1>3, <1>6, <2>1, ElementPlaces
  <2>3. PICK i : i = f.awaited + 1
    OBVIOUS
  <2>4. CASE ~ f.loop.aborted /\ i \in DOMAIN items
    <3>1. PICK s, v : s = f.s.item /\ v = items[i]
      OBVIOUS
    <3>2. g = Await(s, Fresh(v))
      BY <1>3, <1>4, <1>6, <2>1, <2>3, <2>4, <3>1 DEF ArrayGoesOn
    <3>3. places[i].child = s /\ places[i].v = v
      BY <2>2, <2>4, <3>1
    <3>4. <<s, Fresh(v)>> \in Calls
      BY <2>2, <2>4, <3>3
    <3>5. IsCall(s, Fresh(v))
      BY <3>4, PlainCall
    <3>6. QED  BY <1>4, <3>2, <3>5, MovesOn
  <2>5. CASE ~ (~ f.loop.aborted /\ i \in DOMAIN items)
    <3>1. PICK l, m : l = f.loop /\ m = VisitedBy(f, places)[Len(places)]
      OBVIOUS
    <3>2. f.loop.aborted \/ f.awaited = Len(places)
      BY <2>2, <2>3, <2>5
    <3>3. IsLoop(l) /\ SeenLoop(l) = m /\ l.data.value = f.d.value /\ m.out = l.out
      BY <2>2, <3>1, <3>2, PlacesDone, SeenLoopParts DEF GotTo
    <3>4. PICK v : v = Items(l.out)
      OBVIOUS
    <3>5. v # Root
      <4>1. v.type = "array" /\ Root.type = "root"
        BY <3>4 DEF Root, Items
      <4>2. QED  BY <4>1
    <3>6. PICK r : r = Leave(l, v)
      OBVIOUS
    <3>7. IsDataset(r) /\ Resolved(r) = Leave(m, v) /\ r.value \in {v, f.d.value}
      BY <3>3, <3>5, <3>6, LeaveSeen
    <3>8. g = Return(r)
      BY <1>3, <1>4, <1>6, <2>1, <2>3, <2>5, <3>1, <3>4, <3>6 DEF ArrayGoesOn
    <3>9. Run(f.s, e, config) = Leave(m, v)
      BY <1>2, <1>3, <1>6, <2>1, <2>2, <3>1, <3>3, <3>4
         DEF RunArray, RunItems, ArrayPlaces, VisitedBy
    <3>10. Returns(f.s, f.d, r)
      BY <1>2, <3>5, <3>7, <3>9 DEF Returns
    <3>11. QED  BY <1>4, <3>8, <3>10, MovesOn
  <2>6. QED  BY <2>4, <2>5
<1>7. QED  BY <1>5, <1>6

LEMMA ArrayTakesKeeps ==
  ASSUME config \in Configs, NEW f, IsFrame(f), f.s.type = "array",
         NEW r, Resumed(ArrayGoesOn(f), r)
  PROVE  Keeps(f, ArrayTakes(f, r))
<1>1. PICK g, i : g = ArrayGoesOn(f) /\ i = f.awaited + 1
  OBVIOUS
<1>2. /\ f = FrameOf(f.s, f.d, f.loop, f.awaited, f.outKey, f.keys)
      /\ IsCall(f.s, f.d) /\ f.awaited \in Nat
  BY DEF IsFrame
<1>3. PICK places, items : places = ArrayPlaces(f.s, items) /\ items = Elements(f)
  OBVIOUS
<1>4. PICK s, v : s = f.s.item /\ v = items[i]
  OBVIOUS
<1>5. /\ IsArray(Deref(f.d.value)) /\ ~ f.loop.aborted /\ i \in DOMAIN items
      /\ g = Await(s, Fresh(v))
  <2>1. g.step = "run" \/ g.step = "act"
    BY <1>1 DEF Resumed
  <2>2. ASSUME NEW x, g = Return(x) PROVE FALSE
    BY <2>1, <2>2, AwaitFields
  <2>3. IsArray(Deref(f.d.value)) /\ ~ f.loop.aborted /\ i \in DOMAIN items
    BY <1>1, <1>3, <2>2 DEF ArrayGoesOn
  <2>4. QED  BY <1>1, <1>3, <1>4, <2>3 DEF ArrayGoesOn
<1>6. Returns(s, Fresh(v), r)
  BY <1>1, <1>5, AwaitFields DEF Resumed
<1>7. /\ IsList(places) /\ DOMAIN items = 1 .. Len(places)
      /\ GotTo(f, VisitedBy(f, places)[f.awaited])
      /\ \A k \in 1 .. Len(places) :
           /\ places[k].key = Index(k) /\ places[k].child = f.s.item
           /\ places[k].v = items[k] /\ ~ places[k].omit
           /\ <<places[k].child, Fresh(places[k].v)>> \in Calls
  BY <1>3, <1>5, ElementPlaces
<1>8. i \in 1 .. Len(places) /\ f.awaited < Len(places)
  BY <1>1, <1>2, <1>5, <1>7, ListDomain
<1>9. PICK place : place = places[f.awaited + 1]
  OBVIOUS
<1>10. /\ place.key = Index(i) /\ place.child = s /\ place.v = v /\ ~ place.omit
       /\ <<place.child, Fresh(place.v)>> \in Calls
  BY <1>1, <1>4, <1>7, <1>8, <1>9
<1>11. PICK t : t = Taken(f, place.key, r, place.omit, place.key)
  OBVIOUS
<1>12. t = ArrayTakes(f, r)
  <2>1. PICK key, omit : key = place.key /\ omit = place.omit
    OBVIOUS
  <2>2. TakenLoop(f.loop, key, r, omit, key) = TakenLoop(f.loop, key, r, FALSE, key)
    BY <1>10, <2>1 DEF TakenLoop
  <2>3. PICK no : no = FALSE
    OBVIOUS
  <2>4. Taken(f, key, r, omit, key) = Taken(f, key, r, no, key)
    <3>1. f = FrameOf(f.s, f.d, f.loop, f.awaited, f.outKey, f.keys)
      BY <1>2
    <3>2. Taken(f, key, r, omit, key) =
            FrameOf(f.s, f.d, TakenLoop(f.loop, key, r, omit, key), f.awaited + 1, f.outKey, f.keys)
      BY <3>1, TakenParts
    <3>3. Taken(f, key, r, no, key) =
            FrameOf(f.s, f.d, TakenLoop(f.loop, key, r, no, key), f.awaited + 1, f.outKey, f.keys)
      BY <3>1, TakenParts
    <3>4. QED  BY <2>2, <2>3, <3>2, <3>3
  <2>5. QED  BY <1>1, <1>10, <1>11, <2>1, <2>3, <2>4 DEF ArrayTakes
<1>13. /\ t = FrameOf(f.s, f.d, t.loop, i, f.outKey, f.keys)
       /\ GotTo(t, VisitedBy(t, places)[i])
  <2>1. /\ IsList(places) /\ f.awaited \in Nat /\ f.awaited < Len(places)
        /\ f = FrameOf(f.s, f.d, f.loop, f.awaited, f.outKey, f.keys)
        /\ GotTo(f, VisitedBy(f, places)[f.awaited]) /\ ~ f.loop.aborted
    BY <1>2, <1>5, <1>7, <1>8
  <2>2. <<place.child, Fresh(place.v)>> \in Calls /\ Returns(place.child, Fresh(place.v), r)
    BY <1>6, <1>10
  <2>3. /\ t = FrameOf(f.s, f.d, t.loop, f.awaited + 1, f.outKey, f.keys)
        /\ GotTo(t, VisitedBy(t, places)[f.awaited + 1])
    BY <1>9, <1>11, <2>1, <2>2, PlaceTaken, Zenon
  <2>4. QED  BY <1>1, <2>3
<1>14. /\ t.s = f.s /\ t.d = f.d /\ t.awaited = i
       /\ t = FrameOf(t.s, t.d, t.loop, t.awaited, t.outKey, t.keys)
  BY <1>13, FrameFields
<1>15. Elements(t) = items
  BY <1>3, <1>14 DEF Elements
<1>16. ArrayProgress(t)
  <2>1. i <= Len(places)
    BY <1>7, <1>8, ListDomain
  <2>2. QED  BY <1>3, <1>13, <1>14, <1>15, <2>1 DEF ArrayProgress
<1>17. i \in Nat
  BY <1>1, <1>2
<1>18. IsFrame(t)
  BY <1>2, <1>14, <1>16, <1>17 DEF IsFrame, AsyncTypes
<1>19. QED  BY <1>12, <1>14, <1>18 DEF Keeps

LEMMA GetOwn ==
  ASSUME NEW own, \A i, j \in DOMAIN own : own[i][1] = own[j][1] => i = j, NEW i \in DOMAIN own
  PROVE  Get(own, own[i][1]) = own[i][2]
<1>1. PICK j : j = CHOOSE k \in DOMAIN own : own[k][1] = own[i][1]
  OBVIOUS
<1>2. j \in DOMAIN own /\ own[j][1] = own[i][1]
  BY <1>1
<1>3. j = i
  BY <1>2
<1>4. QED  BY <1>1, <1>3 DEF Get, HasOwn

LEMMA RecordStay ==
  ASSUME NEW start, NEW s, NEW own, NEW cfg, NEW N \in Nat, N = Len(own), NEW n \in 0 .. N,
         RecordVisits(start, s, own, cfg)[n].aborted
  PROVE  RecordVisits(start, s, own, cfg)[N] = RecordVisits(start, s, own, cfg)[n]
<1>1. PICK f : f = RecordVisits(start, s, own, cfg)
  OBVIOUS
<1>2. \A k \in 1 .. N : f[k] = VisitRecord(f[k - 1], s, own[k], cfg)
  BY <1>1, RecordVisitsLoop
<1>3. PICK T : T = {k \in 0 .. N : k >= n => f[k] = f[n]}
  OBVIOUS
<1>4. 0 \in T
  BY <1>3
<1>5. ASSUME NEW k \in 1 .. N, k - 1 \in T PROVE k \in T
  <2>1. CASE k > n
    <3>1. f[k - 1] = f[n]
      BY <1>3, <1>5, <2>1
    <3>2. f[k] = f[n]
      BY <1>1, <1>2, <3>1 DEF VisitRecord
    <3>3. QED  BY <1>3, <3>2
  <2>2. CASE k <= n
    BY <1>3, <2>2
  <2>3. QED  BY <2>1, <2>2
<1>6. N \in T
  <2>1. \A k \in 0 .. N : k \in T
    BY <1>4, <1>5, EveryPrefix
  <2>2. QED  BY <2>1
<1>7. QED  BY <1>1, <1>3, <1>6

(* The loop of a record once a key is validated                            *)
KeyedLoop(l, key, r) ==
  LoopOf(Dataset(l.data.value, l.data.typed /\ ~ HasError(r.issues), l.data.issues \o Under(key, r.issues)),
         l.out, Aborts(r.issues, config))

LEMMA KeyedLoopSeen ==
  ASSUME config.reject \in BOOLEAN, NEW l, IsLoop(l), NEW r, IsDataset(r), NEW key
  PROVE  /\ IsLoop(KeyedLoop(l, key, r))
         /\ SeenLoop(KeyedLoop(l, key, r)) = KeyedLoop(SeenLoop(l), key, Resolved(r))
         /\ KeyedLoop(l, key, r).data.value = l.data.value
         /\ KeyedLoop(l, key, r).out = l.out
         /\ KeyedLoop(l, key, r).aborted = Aborts(r.issues, config)
<1>1. PICK d, v, out : d = l.data /\ v = d.value /\ out = l.out
  OBVIOUS
<1>2. IsDataset(d) /\ d.typed \in BOOLEAN /\ IsIssues(d.issues) /\ IsIssues(r.issues)
  BY <1>1, DatasetParts DEF IsLoop
<1>3. PICK stop \in BOOLEAN : stop = Aborts(r.issues, config)
  BY AbortsIsBoolean
<1>4. PICK typed \in BOOLEAN : typed = (d.typed /\ ~ HasError(r.issues))
  OBVIOUS
<1>5. PICK u : u = Under(key, r.issues)
  OBVIOUS
<1>6. IsIssues(u) /\ Seen(u) = Under(key, Seen(r.issues))
  BY <1>2, <1>5, UnderKeeps, SeenUnder
<1>7. PICK q : q = d.issues \o u
  OBVIOUS
<1>8. IsIssues(q) /\ Seen(q) = Seen(d.issues) \o Seen(u)
  BY <1>2, <1>6, <1>7, IssuesConcat, SeenConcat
<1>9. PICK e : e = Dataset(v, typed, q)
  OBVIOUS
<1>10. IsDataset(e) /\ e.value = v /\ Resolved(e) = Dataset(Deref(v), typed, Seen(q))
  <2>1. IsIssues(q)
    BY <1>8
  <2>2. IsDataset(e) /\ e.value = v /\ e.typed = typed /\ e.issues = q
    BY <1>9, <2>1, DatasetOf
  <2>3. Resolved(e) = Dataset(Deref(e.value), e.typed, Seen(e.issues))
    BY <2>2, ResolvedParts
  <2>4. QED  BY <2>2, <2>3
<1>11. PICK k : k = KeyedLoop(l, key, r)
  OBVIOUS
<1>12. k = LoopOf(e, out, stop)
  BY <1>1, <1>3, <1>4, <1>5, <1>7, <1>9, <1>11 DEF KeyedLoop
<1>13. /\ IsLoop(k) /\ SeenLoop(k) = LoopOf(Resolved(e), out, stop)
       /\ k.data = e /\ k.out = out /\ k.aborted = stop
  <2>1. IsDataset(e) /\ k = LoopOf(e, out, stop)
    BY <1>10, <1>12
  <2>2. QED  BY <2>1, LoopParts
<1>14. PICK m, rr : m = SeenLoop(l) /\ rr = Resolved(r)
  OBVIOUS
<1>15. m.data = Resolved(d) /\ m.out = out
  BY <1>1, <1>14, SeenLoopParts
<1>16. m.data.value = Deref(v) /\ m.data.typed = d.typed /\ m.data.issues = Seen(d.issues)
  BY <1>1, <1>2, <1>15, ResolvedParts
<1>17. rr.issues = Seen(r.issues) /\ (HasError(rr.issues) <=> HasError(r.issues))
  BY <1>14, ResolvedParts
<1>18. Aborts(rr.issues, config) = stop
  BY <1>3, <1>17 DEF Aborts
<1>19. (m.data.typed /\ ~ HasError(rr.issues)) = typed
  BY <1>4, <1>16, <1>17
<1>20. KeyedLoop(m, key, rr) = LoopOf(Dataset(Deref(v), typed, Seen(q)), out, stop)
  BY <1>6, <1>8, <1>15, <1>16, <1>17, <1>18, <1>19 DEF KeyedLoop
<1>21. QED  BY <1>1, <1>3, <1>10, <1>11, <1>13, <1>14, <1>20

LEMMA KeyedIs ==
  ASSUME NEW l, IsLoop(l), NEW s, NEW property, ~ l.aborted
  PROVE  LET k == Run(s.key, Fresh(Name(property)), config)
             r == Run(s.item, Fresh(property[2]), config)
             keyed == Keyed(l, s, property, config)
         IN  /\ keyed = KeyedLoop(l, property[1], k)
             /\ keyed.aborted => VisitRecord(l, s, property, config) = keyed
             /\ ~ keyed.aborted =>
                  VisitRecord(l, s, property, config) =
                    TakenLoop(keyed, property[1], r, FALSE, k.value.token)
<1>1. PICK k, r : /\ k = Run(s.key, Fresh(Name(property)), config)
                  /\ r = Run(s.item, Fresh(property[2]), config)
  OBVIOUS
<1>2. PICK key, d, out : key = property[1] /\ d = l.data /\ out = l.out
  OBVIOUS
<1>3. IsDataset(d) /\ l = LoopOf(d, out, l.aborted)
  BY <1>2 DEF IsLoop
<1>4. PICK v, t, p : v = d.value /\ t = d.typed /\ p = d.issues
  OBVIOUS
<1>5. d = [value |-> v, typed |-> t, issues |-> p]
  BY <1>3, <1>4, DatasetParts DEF Dataset
<1>6. PICK q, typed, stop : /\ q = p \o Under(key, k.issues) /\ typed = (t /\ ~ HasError(k.issues))
                            /\ stop = Aborts(k.issues, config)
  OBVIOUS
<1>7. l = [data |-> d, out |-> out, aborted |-> l.aborted]
  BY <1>3 DEF LoopOf
<1>8. PICK keyed : keyed = [l EXCEPT !.data.issues = q, !.data.typed = typed, !.aborted = stop]
  OBVIOUS
<1>9. keyed = [data |-> [value |-> v, typed |-> typed, issues |-> q], out |-> out, aborted |-> stop]
  <2>1. l.data = d
    BY <1>7
  <2>2. PICK e : e = [d EXCEPT !.issues = q, !.typed = typed]
    OBVIOUS
  <2>3. e = [value |-> v, typed |-> typed, issues |-> q]
    BY <1>5, <2>2
  <2>4. keyed = [l EXCEPT !.data = e, !.aborted = stop]
    BY <1>5, <1>7, <1>8, <2>1, <2>2
  <2>5. PICK x : x = l.aborted
    OBVIOUS
  <2>6. l = [data |-> d, out |-> out, aborted |-> x]
    BY <1>7, <2>5
  <2>7. keyed = [data |-> e, out |-> out, aborted |-> stop]
    BY <2>4, <2>6
  <2>8. QED  BY <2>3, <2>7
<1>10. Keyed(l, s, property, config) = keyed
  BY <1>1, <1>2, <1>4, <1>5, <1>6, <1>7, <1>8 DEF Keyed
<1>11. keyed = KeyedLoop(l, key, k)
  BY <1>2, <1>4, <1>6, <1>9 DEF KeyedLoop, LoopOf, Dataset
<1>12. keyed.aborted = stop /\ keyed.out = out
  BY <1>9
<1>13. VisitRecord(l, s, property, config) =
         IF stop THEN keyed
         ELSE [data |-> Collect(keyed.data, key, r, Aborts(r.issues, config)),
               aborted |-> Aborts(r.issues, config),
               out |-> IF Aborts(r.issues, config) THEN out ELSE Assign(out, k.value.token, r.value)]
  BY <1>1, <1>2, <1>6, <1>10 DEF VisitRecord, Keyed
<1>14. TakenLoop(keyed, key, r, FALSE, k.value.token) =
         [data |-> Collect(keyed.data, key, r, Aborts(r.issues, config)),
          out |-> IF Aborts(r.issues, config) THEN out ELSE Assign(out, k.value.token, r.value),
          aborted |-> Aborts(r.issues, config)]
  BY <1>12 DEF TakenLoop, LoopOf
<1>15. QED  BY <1>1, <1>2, <1>10, <1>11, <1>12, <1>13, <1>14

LEMMA RecordCalls ==
  ASSUME config \in Configs, NEW s, s.type = "record", NEW d, IsCall(s, d), NEW own,
         IsObject(Deref(d.value)), own = Deref(d.value).own
  PROVE  /\ IsList(own) /\ DOMAIN own = 1 .. Len(own) /\ Len(own) \in Nat
         /\ \A i \in 1 .. Len(own) :
              /\ <<s.key, Fresh(Name(own[i]))>> \in Calls /\ <<s.item, Fresh(own[i][2])>> \in Calls
              /\ Get(own, own[i][1]) = own[i][2]
<1>1. IsValue(Deref(d.value)) /\ Resolved(d).value = Deref(d.value)
  BY CallParts
<1>2. IsList(own) /\ \A i, j \in DOMAIN own : own[i][1] = own[j][1] => i = j
  BY <1>1 DEF IsValue
<1>3. Len(own) \in Nat /\ DOMAIN own = 1 .. Len(own)
  BY <1>2, ListDomain
<1>4. PICK p, q : /\ p = [i \in DOMAIN own |-> <<s.key, Fresh(Name(own[i]))>>]
                  /\ q = [i \in DOMAIN own |-> <<s.item, Fresh(own[i][2])>>]
  OBVIOUS
<1>5. Inner(s, Resolved(d)) = p \o q
  BY <1>1, <1>4 DEF Inner
<1>6. IsList(p) /\ Len(p) = Len(own) /\ IsList(q) /\ Len(q) = Len(own)
  <2>1. p = [i \in 1 .. Len(own) |-> p[i]] /\ q = [i \in 1 .. Len(own) |-> q[i]]
    BY <1>3, <1>4
  <2>2. QED  BY <1>3, <2>1, FunctionList
<1>7. ASSUME NEW i \in 1 .. Len(own)
      PROVE  /\ <<s.key, Fresh(Name(own[i]))>> \in Calls /\ <<s.item, Fresh(own[i][2])>> \in Calls
             /\ Get(own, own[i][1]) = own[i][2]
  <2>1. /\ (p \o q)[i] = p[i] /\ i \in DOMAIN (p \o q)
        /\ (p \o q)[Len(p) + i] = q[i] /\ Len(p) + i \in DOMAIN (p \o q)
    <3>1. IsList(p \o q) /\ Len(p \o q) = Len(p) + Len(q)
      BY <1>6, ListConcat
    <3>2. DOMAIN (p \o q) = 1 .. Len(p) + Len(q)
      BY <3>1, ListDomain
    <3>3. i \in 1 .. Len(p) /\ i \in 1 .. Len(q) /\ Len(p) \in Nat /\ Len(q) \in Nat
      BY <1>3, <1>6
    <3>4. QED  BY <1>6, <3>2, <3>3, ListConcat
  <2>2. p[i] \in Range(Inner(s, Resolved(d))) /\ q[i] \in Range(Inner(s, Resolved(d)))
    BY <1>5, <2>1 DEF Range
  <2>3. p[i] = <<s.key, Fresh(Name(own[i]))>> /\ q[i] = <<s.item, Fresh(own[i][2])>>
    BY <1>3, <1>4
  <2>4. p[i] \in Calls /\ q[i] \in Calls
    BY <2>2, CallParts
  <2>5. Get(own, own[i][1]) = own[i][2]
    BY <1>2, <1>3, GetOwn
  <2>6. QED  BY <2>3, <2>4, <2>5
<1>8. QED  BY <1>2, <1>3, <1>7

(* How far a record is: between two properties, or between a key and its   *)
(* value                                                                   *)
BeforeProperty(f, after, n) == f.awaited = 2 * n /\ GotTo(f, after[n])
AfterKey(f, after, own, n) ==
  /\ f.awaited = 2 * n + 1 /\ n < Len(own) /\ IsLoop(after[n]) /\ ~ after[n].aborted
  /\ GotTo(f, Keyed(after[n], f.s, own[n + 1], config))
  /\ f.outKey = Run(f.s.key, Fresh(Name(own[n + 1])), config).value.token

LEMMA RecordParts ==
  ASSUME config \in Configs, NEW f, IsFrame(f), f.s.type = "record", IsObject(Deref(f.d.value)),
         NEW own, own = Own(f),
         NEW after, after = RecordVisits(Enter(Resolved(f.d)), f.s, own, config)
  PROVE  /\ own = Resolved(f.d).value.own
         /\ DOMAIN own = 1 .. Len(own) /\ Len(own) \in Nat /\ Len(f.keys) = Len(own)
         /\ \A i \in 1 .. Len(own) :
              /\ <<f.s.key, Fresh(Name(own[i]))>> \in Calls
              /\ <<f.s.item, Fresh(own[i][2])>> \in Calls
              /\ f.keys[i] = own[i][1] /\ Get(own, f.keys[i]) = own[i][2]
              /\ after[i] = VisitRecord(after[i - 1], f.s, own[i], config)
         /\ \E n \in 0 .. Len(own) : BeforeProperty(f, after, n) \/ AfterKey(f, after, own, n)
<1>1. IsCall(f.s, f.d) /\ f.awaited \in Nat /\ RecordProgress(f)
  BY DEF IsFrame
<1>2. own = Deref(f.d.value).own /\ own = Resolved(f.d).value.own
  BY <1>1, CallParts DEF Own
<1>3. /\ IsList(own) /\ DOMAIN own = 1 .. Len(own) /\ Len(own) \in Nat
      /\ \A i \in 1 .. Len(own) :
           /\ <<f.s.key, Fresh(Name(own[i]))>> \in Calls
           /\ <<f.s.item, Fresh(own[i][2])>> \in Calls
           /\ Get(own, own[i][1]) = own[i][2]
  BY <1>1, <1>2, RecordCalls
<1>4. /\ f.keys = [i \in DOMAIN own |-> own[i][1]]
      /\ \E n \in 0 .. Len(own) : BeforeProperty(f, after, n) \/ AfterKey(f, after, own, n)
  BY <1>1 DEF RecordProgress, BeforeProperty, AfterKey
<1>5. Len(f.keys) = Len(own) /\ \A i \in 1 .. Len(own) : f.keys[i] = own[i][1]
  <2>1. PICK keys : keys = f.keys
    OBVIOUS
  <2>2. keys = [i \in 1 .. Len(own) |-> keys[i]] /\ \A i \in 1 .. Len(own) : keys[i] = own[i][1]
    BY <1>3, <1>4, <2>1
  <2>3. Len(keys) = Len(own)
    BY <1>3, <2>2, FunctionList
  <2>4. QED  BY <2>1, <2>2, <2>3
<1>6. \A i \in 1 .. Len(own) : after[i] = VisitRecord(after[i - 1], f.s, own[i], config)
  BY <1>3, RecordVisitsLoop
<1>7. QED  BY <1>2, <1>3, <1>4, <1>5, <1>6

LEMMA RecordTurn ==
  ASSUME NEW f, NEW n \in Nat
  PROVE  /\ f.awaited = 2 * n => IsKeyTurn(f) /\ Key(f) = f.keys[n + 1]
         /\ f.awaited = 2 * n + 1 => ~ IsKeyTurn(f) /\ Key(f) = f.keys[n + 1]
BY DEF IsKeyTurn, Key

LEMMA RecordGoes ==
  ASSUME config \in Configs, NEW f, IsFrame(f), f.s.type = "record"
  PROVE  Moves(f, RecordGoesOn(f))
<1>1. IsCall(f.s, f.d) /\ f.awaited \in Nat
  BY DEF IsFrame
<1>2. PICK e : e = Resolved(f.d)
  OBVIOUS
<1>3. /\ IsDataset(f.d) /\ IsDataset(e) /\ e.value = Deref(f.d.value)
      /\ Run(f.s, e, config) = RunRecord(f.s, e, config)
  BY <1>1, <1>2, CallParts DEF RunBody
<1>4. PICK g : g = RecordGoesOn(f)
  OBVIOUS
<1>5. CASE ~ IsObject(e.value)
  <2>1. Run(f.s, e, config) = Mismatch(e, f.s)
    BY <1>3, <1>5 DEF RunRecord
  <2>2. Returns(f.s, f.d, Mismatch(f.d, f.s))
    BY <1>2, <1>3, <2>1, MismatchReturns
  <2>3. g = Return(Mismatch(f.d, f.s))
    BY <1>3, <1>4, <1>5 DEF RecordGoesOn
  <2>4. QED  BY <1>4, <2>2, <2>3, MovesOn
<1>6. CASE IsObject(e.value)
  <2>1. PICK own : own = Own(f)
    OBVIOUS
  <2>2. PICK after : after = RecordVisits(Enter(e), f.s, own, config)
    OBVIOUS
  <2>3. /\ own = e.value.own
        /\ DOMAIN own = 1 .. Len(own) /\ Len(own) \in Nat /\ Len(f.keys) = Len(own)
        /\ \A i \in 1 .. Len(own) :
             /\ <<f.s.key, Fresh(Name(own[i]))>> \in Calls
             /\ <<f.s.item, Fresh(own[i][2])>> \in Calls
             /\ f.keys[i] = own[i][1] /\ Get(own, f.keys[i]) = own[i][2]
             /\ after[i] = VisitRecord(after[i - 1], f.s, own[i], config)
        /\ \E n \in 0 .. Len(own) : BeforeProperty(f, after, n) \/ AfterKey(f, after, own, n)
    BY <1>2, <1>3, <1>6, <2>1, <2>2, RecordParts
  <2>4. PICK n \in 0 .. Len(own) : BeforeProperty(f, after, n) \/ AfterKey(f, after, own, n)
    BY <2>3
  <2>5. CASE f.loop.aborted \/ f.awaited = 2 * Len(f.keys)
    <3>1. PICK l, m : l = f.loop /\ m = after[Len(own)]
      OBVIOUS
    <3>2. PICK N \in Nat : N = Len(own)
      BY <2>3
    <3>3. IsLoop(l) /\ SeenLoop(l) = m /\ l.data.value = f.d.value
      <4>1. CASE BeforeProperty(f, after, n)
        <5>1. IsLoop(l) /\ SeenLoop(l) = after[n] /\ l.data.value = f.d.value
          BY <3>1, <4>1 DEF BeforeProperty, GotTo
        <5>2. after[n].aborted = l.aborted
          BY <5>1, SeenLoopParts
        <5>3. CASE after[n].aborted
          <6>1. PICK start, s : start = Enter(e) /\ s = f.s
            OBVIOUS
          <6>2. n \in 0 .. N /\ RecordVisits(start, s, own, config)[n].aborted
            BY <2>2, <3>2, <5>3, <6>1
          <6>3. RecordVisits(start, s, own, config)[N] = RecordVisits(start, s, own, config)[n]
            BY <3>2, <6>2, RecordStay
          <6>4. QED  BY <2>2, <3>1, <3>2, <5>1, <6>1, <6>3
        <5>4. CASE n = N
          BY <3>1, <3>2, <5>1, <5>4
        <5>5. f.awaited = 2 * Len(f.keys) => n = N
          BY <2>3, <3>2, <4>1 DEF BeforeProperty
        <5>6. QED  BY <2>5, <3>1, <5>2, <5>3, <5>4, <5>5
      <4>2. CASE AfterKey(f, after, own, n)
        <5>1. PICK a, property : a = after[n] /\ property = own[n + 1]
          OBVIOUS
        <5>2. PICK k : k = Keyed(a, f.s, property, config)
          OBVIOUS
        <5>3. /\ f.awaited = 2 * n + 1 /\ n < N /\ IsLoop(a) /\ ~ a.aborted
              /\ IsLoop(l) /\ SeenLoop(l) = k /\ l.data.value = f.d.value
          BY <3>1, <3>2, <4>2, <5>1, <5>2 DEF AfterKey, GotTo
        <5>4. k.aborted = l.aborted
          BY <5>3, SeenLoopParts
        <5>5. l.aborted
          BY <2>3, <2>5, <3>1, <3>2, <5>3
        <5>6. after[n + 1] = k
          <6>1. n + 1 \in 1 .. N /\ (n + 1) - 1 = n
            BY <3>2, <5>3
          <6>2. after[n + 1] = VisitRecord(a, f.s, property, config)
            BY <2>3, <3>2, <5>1, <6>1
          <6>3. PICK s : s = f.s
            OBVIOUS
          <6>4. Keyed(a, s, property, config).aborted
            BY <5>2, <5>4, <5>5, <6>3
          <6>5. VisitRecord(a, s, property, config) = Keyed(a, s, property, config)
            BY <5>3, <6>4, KeyedIs
          <6>6. QED  BY <5>2, <6>2, <6>3, <6>5
        <5>7. PICK start, s, x : start = Enter(e) /\ s = f.s /\ x = n + 1
          OBVIOUS
        <5>8. x \in 0 .. N /\ RecordVisits(start, s, own, config)[x].aborted
          <6>1. x \in 0 .. N
            BY <3>2, <5>3, <5>7
          <6>2. after[x].aborted
            BY <5>4, <5>5, <5>6, <5>7
          <6>3. QED  BY <2>2, <5>7, <6>1, <6>2
        <5>9. RecordVisits(start, s, own, config)[N] = RecordVisits(start, s, own, config)[x]
          BY <3>2, <5>8, RecordStay
        <5>10. QED  BY <2>2, <3>1, <3>2, <5>3, <5>6, <5>7, <5>9
      <4>3. QED  BY <2>4, <4>1, <4>2
    <3>4. PICK v : v = [type |-> "object", own |-> l.out]
      OBVIOUS
    <3>5. v # Root
      <4>1. v.type = "object" /\ Root.type = "root"
        BY <3>4 DEF Root
      <4>2. QED  BY <4>1
    <3>6. PICK r : r = Leave(l, v)
      OBVIOUS
    <3>7. IsDataset(r) /\ Resolved(r) = Leave(m, v) /\ r.value \in {v, f.d.value}
      BY <3>3, <3>5, <3>6, LeaveSeen
    <3>8. g = Return(r)
      BY <1>3, <1>4, <1>6, <2>5, <3>1, <3>4, <3>6 DEF RecordGoesOn
    <3>9. m.out = l.out
      BY <3>3, SeenLoopParts
    <3>10. Run(f.s, e, config) = Leave(m, v)
      BY <1>3, <1>6, <2>2, <2>3, <3>1, <3>4, <3>9 DEF RunRecord
    <3>11. Returns(f.s, f.d, r)
      BY <1>2, <3>5, <3>7, <3>10 DEF Returns
    <3>12. QED  BY <1>4, <3>8, <3>11, MovesOn
  <2>6. CASE ~ (f.loop.aborted \/ f.awaited = 2 * Len(f.keys))
    <3>1. PICK i : i = n + 1
      OBVIOUS
    <3>2. i \in 1 .. Len(own)
      BY <2>3, <2>4, <2>6, <3>1 DEF BeforeProperty, AfterKey
    <3>3. CASE f.awaited = 2 * n
      <4>1. IsKeyTurn(f) /\ Key(f) = own[i][1]
        <5>1. n \in Nat
          BY <2>3
        <5>2. IsKeyTurn(f) /\ Key(f) = f.keys[n + 1]
          BY <3>3, <5>1, RecordTurn
        <5>3. QED  BY <2>3, <3>1, <3>2, <5>2
      <4>2. PICK s, v : s = f.s.key /\ v = Name(own[i])
        OBVIOUS
      <4>3. g = Await(s, Fresh(v))
        BY <1>3, <1>4, <1>6, <2>6, <4>1, <4>2 DEF RecordGoesOn, Name
      <4>4. <<s, Fresh(v)>> \in Calls
        BY <2>3, <3>2, <4>2
      <4>5. IsCall(s, Fresh(v))
        BY <4>4, PlainCall
      <4>6. QED  BY <1>4, <4>3, <4>5, MovesOn
    <3>4. CASE f.awaited = 2 * n + 1
      <4>1. ~ IsKeyTurn(f) /\ Key(f) = f.keys[i]
        BY <2>3, <3>1, <3>2, <3>4, RecordTurn
      <4>2. PICK s, v : s = f.s.item /\ v = own[i][2]
        OBVIOUS
      <4>3. g = Await(s, Fresh(v))
        BY <1>3, <1>4, <1>6, <2>1, <2>3, <2>6, <3>2, <4>1, <4>2 DEF RecordGoesOn
      <4>4. <<s, Fresh(v)>> \in Calls
        BY <2>3, <3>2, <4>2
      <4>5. IsCall(s, Fresh(v))
        BY <4>4, PlainCall
      <4>6. QED  BY <1>4, <4>3, <4>5, MovesOn
    <3>5. QED  BY <2>4, <3>3, <3>4 DEF BeforeProperty, AfterKey
  <2>7. QED  BY <2>5, <2>6
<1>7. QED  BY <1>5, <1>6

LEMMA RecordTakesKeeps ==
  ASSUME config \in Configs, NEW f, IsFrame(f), f.s.type = "record",
         NEW r, Resumed(RecordGoesOn(f), r)
  PROVE  Keeps(f, RecordTakes(f, r))
<1>1. PICK g, t : g = RecordGoesOn(f) /\ t = RecordTakes(f, r)
  OBVIOUS
<1>2. /\ f = FrameOf(f.s, f.d, f.loop, f.awaited, f.outKey, f.keys)
      /\ IsCall(f.s, f.d) /\ f.awaited \in Nat
  BY DEF IsFrame
<1>3. /\ IsObject(Deref(f.d.value)) /\ ~ f.loop.aborted /\ f.awaited # 2 * Len(f.keys)
      /\ g = IF IsKeyTurn(f)
             THEN Await(f.s.key, Fresh([type |-> "string", token |-> Key(f)]))
             ELSE Await(f.s.item, Fresh(Get(Own(f), Key(f))))
  <2>1. g.step = "run" \/ g.step = "act"
    BY <1>1 DEF Resumed
  <2>2. ASSUME NEW x, g = Return(x) PROVE FALSE
    BY <2>1, <2>2, AwaitFields
  <2>3. IsObject(Deref(f.d.value)) /\ ~ f.loop.aborted /\ f.awaited # 2 * Len(f.keys)
    BY <1>1, <2>2 DEF RecordGoesOn
  <2>4. QED  BY <1>1, <2>3 DEF RecordGoesOn
<1>4. PICK own : own = Own(f)
  OBVIOUS
<1>5. PICK after : after = RecordVisits(Enter(Resolved(f.d)), f.s, own, config)
  OBVIOUS
<1>6. /\ DOMAIN own = 1 .. Len(own) /\ Len(own) \in Nat /\ Len(f.keys) = Len(own)
      /\ \A i \in 1 .. Len(own) :
           /\ <<f.s.key, Fresh(Name(own[i]))>> \in Calls
           /\ <<f.s.item, Fresh(own[i][2])>> \in Calls
           /\ f.keys[i] = own[i][1] /\ Get(own, f.keys[i]) = own[i][2]
           /\ after[i] = VisitRecord(after[i - 1], f.s, own[i], config)
      /\ \E n \in 0 .. Len(own) : BeforeProperty(f, after, n) \/ AfterKey(f, after, own, n)
  BY <1>3, <1>4, <1>5, RecordParts
<1>7. f.keys = [i \in DOMAIN own |-> own[i][1]]
  BY <1>3, <1>4 DEF IsFrame, RecordProgress
<1>8. PICK n \in 0 .. Len(own) : BeforeProperty(f, after, n) \/ AfterKey(f, after, own, n)
  BY <1>6
<1>9. PICK i, property, l : i = n + 1 /\ property = own[i] /\ l = f.loop
  OBVIOUS
<1>10. i \in 1 .. Len(own) /\ i \in 0 .. Len(own) /\ i - 1 = n /\ n \in Nat
  BY <1>3, <1>6, <1>8, <1>9 DEF BeforeProperty, AfterKey
<1>11. /\ <<f.s.key, Fresh(Name(property))>> \in Calls /\ <<f.s.item, Fresh(property[2])>> \in Calls
       /\ f.keys[i] = property[1] /\ Get(own, f.keys[i]) = property[2]
       /\ after[i] = VisitRecord(after[n], f.s, property, config)
  BY <1>6, <1>9, <1>10
<1>12. config.reject \in BOOLEAN
  BY ModeParts DEF Modes
<1>13. PICK k, s : k = Run(s.key, Fresh(Name(property)), config) /\ s = f.s
  OBVIOUS
(* A frame of the same call, further on                                    *)
<1>14. ASSUME NEW u, u = FrameOf(f.s, f.d, u.loop, u.awaited, u.outKey, f.keys),
              u.awaited \in Nat,
              \/ BeforeProperty(u, after, i)
              \/ AfterKey(u, after, own, n)
       PROVE  Keeps(f, u)
  <2>1. /\ u.s = f.s /\ u.d = f.d /\ u.keys = f.keys
        /\ u = FrameOf(u.s, u.d, u.loop, u.awaited, u.outKey, u.keys)
    BY <1>14, FrameFields
  <2>2. Own(u) = own
    BY <1>4, <2>1 DEF Own
  <2>3. RecordProgress(u)
    BY <1>5, <1>7, <1>8, <1>10, <1>14, <2>1, <2>2 DEF RecordProgress, BeforeProperty, AfterKey
  <2>4. QED  BY <1>2, <1>14, <2>1, <2>3 DEF Keeps, IsFrame, AsyncTypes
<1>15. CASE f.awaited = 2 * n
  <2>1. IsKeyTurn(f) /\ Key(f) = property[1]
    BY <1>9, <1>10, <1>11, <1>15, RecordTurn
  <2>2. g = Await(f.s.key, Fresh(Name(property)))
    BY <1>3, <2>1 DEF Name
  <2>3. Returns(f.s.key, Fresh(Name(property)), r)
    BY <1>1, <2>2, AwaitFields DEF Resumed
  <2>4. IsDataset(r) /\ r.value # Root /\ Resolved(r) = k
    BY <1>11, <1>13, <2>3, PlainCall
  <2>5. BeforeProperty(f, after, n)
    BY <1>8, <1>10, <1>15 DEF AfterKey
  <2>6. PICK a : a = after[n]
    OBVIOUS
  <2>7. IsLoop(l) /\ SeenLoop(l) = a /\ l.data.value = f.d.value
    BY <1>9, <2>5, <2>6 DEF BeforeProperty, GotTo
  <2>8. IsLoop(a) /\ ~ a.aborted
    BY <1>3, <1>9, <2>7, SeenLoopParts
  <2>9. PICK key : key = property[1]
    OBVIOUS
  <2>10. PICK next : next = KeyedLoop(l, key, r)
    OBVIOUS
  <2>11. IsLoop(next) /\ SeenLoop(next) = KeyedLoop(a, key, k) /\ next.data.value = f.d.value
    BY <1>12, <2>4, <2>7, <2>10, KeyedLoopSeen
  <2>12. Keyed(a, s, property, config) = KeyedLoop(a, key, k)
    BY <1>13, <2>8, <2>9, KeyedIs
  <2>13. t = FrameOf(f.s, f.d, next, f.awaited + 1, r.value.token, f.keys)
    <3>1. PICK d, v, dt, p, out, ab : /\ d = l.data /\ v = d.value /\ dt = d.typed /\ p = d.issues
                                      /\ out = l.out /\ ab = l.aborted
      OBVIOUS
    <3>2. d = [value |-> v, typed |-> dt, issues |-> p]
      BY <2>7, <3>1, DatasetParts DEF IsLoop, Dataset
    <3>3. l = [data |-> d, out |-> out, aborted |-> ab]
      BY <2>7, <3>1 DEF IsLoop, LoopOf
    <3>4. PICK q, typed, stop : /\ q = p \o Under(key, r.issues) /\ typed = (dt /\ ~ HasError(r.issues))
                                /\ stop = Aborts(r.issues, config)
      OBVIOUS
    <3>5. PICK e : e = [d EXCEPT !.issues = q, !.typed = typed]
      OBVIOUS
    <3>6. e = [value |-> v, typed |-> typed, issues |-> q]
      BY <3>2, <3>5
    <3>7. next = [data |-> e, out |-> out, aborted |-> stop]
      BY <2>10, <3>1, <3>4, <3>6 DEF KeyedLoop, LoopOf, Dataset
    <3>8. PICK count, token : count = f.awaited + 1 /\ token = r.value.token
      OBVIOUS
    <3>9. PICK x, y, z, w, o, ks : /\ x = f.s /\ y = f.d /\ z = f.loop /\ w = f.awaited
                                    /\ o = f.outKey /\ ks = f.keys
      OBVIOUS
    <3>10. f = [s |-> x, d |-> y, loop |-> l, awaited |-> w, outKey |-> o, keys |-> ks]
      BY <1>2, <1>9, <3>9 DEF FrameOf
    <3>11. t = [f EXCEPT !.awaited = count, !.outKey = token, !.loop = next]
      <4>1. PICK m : m = TakenKey(l, key, r)
        OBVIOUS
      <4>2. t = [f EXCEPT !.awaited = count, !.outKey = token, !.loop = m]
        BY <1>1, <1>2, <1>9, <2>1, <2>9, <3>8, <4>1 DEF RecordTakes
      <4>3. l.data = d /\ d.issues = p /\ d.typed = dt
        BY <3>1
      <4>4. m = [l EXCEPT !.data.issues = q, !.data.typed = typed, !.aborted = stop]
        BY <3>2, <3>3, <3>4, <4>1, <4>3 DEF TakenKey
      <4>5. m = [l EXCEPT !.data = e, !.aborted = stop]
        BY <3>2, <3>3, <3>5, <4>3, <4>4
      <4>6. m = [data |-> e, out |-> out, aborted |-> stop]
        BY <3>3, <4>5
      <4>7. QED  BY <3>7, <4>2, <4>6
    <3>12. t = [s |-> x, d |-> y, loop |-> next, awaited |-> count, outKey |-> token, keys |-> ks]
      BY <3>10, <3>11
    <3>13. QED  BY <3>8, <3>9, <3>12 DEF FrameOf
  <2>14. /\ t.s = f.s /\ t.d = f.d /\ t.loop = next /\ t.awaited = f.awaited + 1
         /\ t.outKey = r.value.token
    BY <2>13, FrameFields
  <2>15. t.outKey = k.value.token
    <3>1. k.value = r.value
      BY <2>4, ResolvedParts DEF Deref
    <3>2. QED  BY <2>14, <3>1
  <2>16. AfterKey(t, after, own, n)
    BY <1>9, <1>10, <1>13, <1>15, <2>6, <2>8, <2>11, <2>12, <2>14, <2>15 DEF AfterKey, GotTo
  <2>17. QED  BY <1>1, <1>2, <1>14, <2>13, <2>14, <2>16
<1>16. CASE f.awaited = 2 * n + 1
  <2>1. ~ IsKeyTurn(f) /\ Key(f) = property[1]
    BY <1>9, <1>10, <1>11, <1>16, RecordTurn
  <2>2. g = Await(f.s.item, Fresh(property[2]))
    BY <1>3, <1>4, <1>9, <1>11, <2>1
  <2>3. Returns(f.s.item, Fresh(property[2]), r)
    BY <1>1, <2>2, AwaitFields DEF Resumed
  <2>4. PICK rr : rr = Run(f.s.item, Fresh(property[2]), config)
    OBVIOUS
  <2>5. IsDataset(r) /\ r.value # Root /\ Resolved(r) = rr
    BY <1>11, <2>3, <2>4, PlainCall
  <2>6. AfterKey(f, after, own, n)
    BY <1>8, <1>10, <1>16 DEF BeforeProperty
  <2>7. PICK a : a = after[n]
    OBVIOUS
  <2>8. PICK keyed : keyed = Keyed(a, s, property, config)
    OBVIOUS
  <2>9. /\ IsLoop(a) /\ ~ a.aborted /\ f.outKey = k.value.token
        /\ IsLoop(l) /\ SeenLoop(l) = keyed /\ l.data.value = f.d.value
    BY <1>9, <1>13, <2>6, <2>7, <2>8 DEF AfterKey, GotTo
  <2>10. ~ keyed.aborted
    BY <1>3, <1>9, <2>9, SeenLoopParts
  <2>11. PICK key, token : key = property[1] /\ token = k.value.token
    OBVIOUS
  <2>12. VisitRecord(a, s, property, config) = TakenLoop(keyed, key, rr, FALSE, token)
    <3>1. PICK item : item = Run(s.item, Fresh(property[2]), config)
      OBVIOUS
    <3>2. item = rr
      BY <1>13, <2>4, <3>1
    <3>3. VisitRecord(a, s, property, config) = TakenLoop(keyed, property[1], item, FALSE, k.value.token)
      <4>1. /\ IsLoop(a) /\ ~ a.aborted /\ keyed = Keyed(a, s, property, config) /\ ~ keyed.aborted
        BY <2>8, <2>9, <2>10
      <4>2. PICK token2 : token2 = Run(s.key, Fresh(Name(property)), config).value.token
        OBVIOUS
      <4>3. VisitRecord(a, s, property, config) = TakenLoop(keyed, property[1], item, FALSE, token2)
        BY <3>1, <4>1, <4>2, KeyedIs
      <4>4. QED  BY <1>13, <4>2, <4>3
    <3>4. QED  BY <2>11, <3>2, <3>3 DEF TakenLoop
  <2>13. PICK next, no : next = TakenLoop(l, key, r, no, token) /\ no = FALSE
    OBVIOUS
  <2>14. IsLoop(l) /\ IsDataset(r) /\ r.value # Root
    BY <2>5, <2>9
  <2>15. IsLoop(next) /\ SeenLoop(next) = TakenLoop(SeenLoop(l), key, Resolved(r), no, token) /\ next.data.value = l.data.value
    BY <1>12, <2>13, <2>14, TakenLoopSeen
  <2>16. SeenLoop(next) = after[i]
    BY <1>11, <1>13, <2>5, <2>7, <2>9, <2>12, <2>13, <2>15
  <2>17. t = FrameOf(f.s, f.d, next, f.awaited + 1, f.outKey, f.keys)
    <3>1. t = Taken(f, key, r, no, token)
      BY <1>1, <2>1, <2>9, <2>11, <2>13 DEF RecordTakes
    <3>2. QED  BY <1>2, <1>9, <2>13, <3>1, TakenParts
  <2>18. t.s = f.s /\ t.d = f.d /\ t.loop = next /\ t.awaited = f.awaited + 1 /\ t.outKey = f.outKey
    BY <2>17, FrameFields
  <2>19. BeforeProperty(t, after, i)
    BY <1>9, <1>10, <1>16, <2>9, <2>15, <2>16, <2>18 DEF BeforeProperty, GotTo
  <2>20. QED  BY <1>1, <1>2, <1>14, <2>17, <2>18, <2>19
<1>17. QED  BY <1>8, <1>15, <1>16 DEF BeforeProperty, AfterKey

(* What the alternatives answer                                            *)
LEMMA FirstMatchIs ==
  ASSUME NEW r, NEW N \in Nat, DOMAIN r = 1 .. N, NEW i \in 1 .. N, Matches(r[i]),
         \A j \in 1 .. i - 1 : ~ Matches(r[j])
  PROVE  Matching(r) # {} /\ FirstMatch(r) = r[i]
<1>1. i \in Matching(r) /\ \A j \in Matching(r) : j \in 1 .. N /\ i <= j
  BY DEF Matching
<1>2. PICK c : c = CHOOSE k \in Matching(r) : \A j \in Matching(r) : k <= j
  OBVIOUS
<1>3. c \in Matching(r) /\ \A j \in Matching(r) : c <= j
  BY <1>1, <1>2
<1>4. c = i
  BY <1>1, <1>3
<1>5. QED  BY <1>1, <1>2, <1>4 DEF FirstMatch

LEMMA AdoptedSeen ==
  ASSUME NEW d, IsDataset(d), NEW r, IsDataset(r), NEW c, c = [r EXCEPT !.issues = IF @ = <<>> THEN d.issues ELSE @]
  PROVE  /\ IsDataset(c) /\ c.value = r.value
         /\ Resolved(c) = [Resolved(r) EXCEPT !.issues = IF @ = <<>> THEN Resolved(d).issues ELSE @]
<1>1. PICK v, typed, p : v = r.value /\ typed = r.typed /\ p = r.issues
  OBVIOUS
<1>2. r = Dataset(v, typed, p) /\ typed \in BOOLEAN /\ IsIssues(p) /\ IsIssues(d.issues)
  BY <1>1, DatasetParts
<1>3. PICK q : q = IF p = <<>> THEN d.issues ELSE p
  OBVIOUS
<1>4. IsIssues(q)
  BY <1>2, <1>3
<1>5. c = Dataset(v, typed, q)
  <2>1. c = [r EXCEPT !.issues = q]
    BY <1>1, <1>3
  <2>2. QED  BY <1>2, <2>1 DEF Dataset
<1>6. IsDataset(c) /\ c.value = v /\ Resolved(c) = Dataset(Deref(v), typed, Seen(q))
  BY <1>2, <1>4, <1>5, ResolvedAs
<1>7. PICK e, sp, w : e = Resolved(r) /\ sp = Seen(p) /\ w = Deref(v)
  OBVIOUS
<1>8. e = Dataset(w, typed, sp)
  BY <1>1, <1>7, ResolvedParts
<1>9. PICK sd : sd = Resolved(d).issues
  OBVIOUS
<1>10. sd = Seen(d.issues)
  BY <1>9, ResolvedParts
<1>11. Seen(q) = IF sp = <<>> THEN sd ELSE sp
  BY <1>2, <1>3, <1>7, <1>10, SeenEmpty
<1>12. PICK sq : sq = Seen(q)
  OBVIOUS
<1>13. e.issues = sp
  BY <1>8 DEF Dataset
<1>14. [e EXCEPT !.issues = IF @ = <<>> THEN sd ELSE @] = [e EXCEPT !.issues = sq]
  BY <1>11, <1>12, <1>13
<1>15. [e EXCEPT !.issues = sq] = Dataset(w, typed, sq)
  BY <1>8 DEF Dataset
<1>16. QED  BY <1>1, <1>6, <1>7, <1>9, <1>12, <1>14, <1>15

(* What the members of a union answer                                      *)
MembersOf(f) == [i \in DOMAIN f.s.kids |-> Run(f.s.kids[i], Fresh(Deref(f.d.value)), config)]

LEMMA UnionParts ==
  ASSUME config \in Configs, NEW f, IsFrame(f), f.s.type = "union"
  PROVE  /\ IsDataset(f.d) /\ f.awaited \in Nat /\ UnionProgress(f)
         /\ Len(f.s.kids) \in Nat /\ DOMAIN f.s.kids = 1 .. Len(f.s.kids)
         /\ \A i \in 1 .. Len(f.s.kids) : IsCall(f.s.kids[i], Fresh(f.d.value))
         /\ Run(f.s, Resolved(f.d), config) =
              IF Matching(MembersOf(f)) = {} THEN Mismatch(Resolved(f.d), f.s)
              ELSE [FirstMatch(MembersOf(f)) EXCEPT
                      !.issues = IF @ = <<>> THEN Resolved(f.d).issues ELSE @]
<1>1. IsCall(f.s, f.d) /\ f.awaited \in Nat /\ UnionProgress(f)
  BY DEF IsFrame
<1>2. /\ IsDataset(f.d) /\ Resolved(f.d).value = Deref(f.d.value) /\ IsSchema(f.s)
      /\ Run(f.s, Resolved(f.d), config) = RunBody(f.s, Resolved(f.d), config)
      /\ \A inner \in Range(Inner(f.s, Resolved(f.d))) : inner \in Calls
  BY <1>1, CallParts
<1>3. IsList(f.s.kids)
  BY <1>2 DEF IsSchema
<1>4. Len(f.s.kids) \in Nat /\ DOMAIN f.s.kids = 1 .. Len(f.s.kids)
  BY <1>3, ListDomain
<1>5. ASSUME NEW i \in 1 .. Len(f.s.kids) PROVE IsCall(f.s.kids[i], Fresh(f.d.value))
  <2>1. PICK v, w : v = f.d.value /\ w = Deref(v)
    OBVIOUS
  <2>2. PICK calls : calls = [k \in DOMAIN f.s.kids |-> <<f.s.kids[k], Fresh(w)>>]
    OBVIOUS
  <2>3. Inner(f.s, Resolved(f.d)) = calls
    BY <1>2, <2>1, <2>2 DEF Inner
  <2>4. PICK x : x = <<f.s.kids[i], Fresh(w)>>
    OBVIOUS
  <2>5. calls[i] = x /\ i \in DOMAIN calls
    BY <1>4, <2>2, <2>4
  <2>6. x \in Calls
    BY <1>2, <2>3, <2>5 DEF Range
  <2>7. IsDataset(Fresh(v)) /\ Resolved(Fresh(v)) = Fresh(w)
    BY <2>1, FreshSeen
  <2>8. QED  BY <2>1, <2>4, <2>6, <2>7 DEF IsCall
<1>6. RunBody(f.s, Resolved(f.d), config) = RunUnion(f.s, Resolved(f.d), config)
  BY DEF RunBody
<1>7. QED  BY <1>1, <1>2, <1>4, <1>5, <1>6 DEF RunUnion, MembersOf

LEMMA UnionGoes ==
  ASSUME config \in Configs, NEW f, IsFrame(f), f.s.type = "union"
  PROVE  Moves(f, UnionGoesOn(f))
<1>1. /\ IsDataset(f.d) /\ f.awaited \in Nat /\ UnionProgress(f)
      /\ Len(f.s.kids) \in Nat /\ DOMAIN f.s.kids = 1 .. Len(f.s.kids)
      /\ \A i \in 1 .. Len(f.s.kids) : IsCall(f.s.kids[i], Fresh(f.d.value))
  BY UnionParts
<1>2. PICK g : g = UnionGoesOn(f)
  OBVIOUS
<1>3. CASE f.loop.aborted
  <2>1. Returns(f.s, f.d, f.loop.data)
    BY <1>1, <1>3 DEF UnionProgress
  <2>2. g = Return(f.loop.data)
    BY <1>2, <1>3 DEF UnionGoesOn
  <2>3. QED  BY <1>2, <2>1, <2>2, MovesOn
<1>4. CASE ~ f.loop.aborted /\ f.awaited = Len(f.s.kids)
  <2>1. \A i \in DOMAIN f.s.kids : ~ Matches(MembersOf(f)[i])
    BY <1>1, <1>4 DEF UnionProgress, MembersOf
  <2>2. Matching(MembersOf(f)) = {}
    BY <2>1 DEF Matching, MembersOf
  <2>3. Run(f.s, Resolved(f.d), config) = Mismatch(Resolved(f.d), f.s)
    BY <2>2, UnionParts
  <2>4. Returns(f.s, f.d, Mismatch(f.d, f.s))
    BY <1>1, <2>3, MismatchReturns
  <2>5. g = Return(Mismatch(f.d, f.s))
    BY <1>2, <1>4 DEF UnionGoesOn
  <2>6. QED  BY <1>2, <2>4, <2>5, MovesOn
<1>5. CASE ~ f.loop.aborted /\ f.awaited # Len(f.s.kids)
  <2>1. f.awaited + 1 \in 1 .. Len(f.s.kids)
    BY <1>1, <1>5 DEF UnionProgress
  <2>2. IsCall(f.s.kids[f.awaited + 1], Fresh(f.d.value))
    BY <1>1, <2>1
  <2>3. g = Await(f.s.kids[f.awaited + 1], Fresh(f.d.value))
    BY <1>2, <1>5 DEF UnionGoesOn
  <2>4. QED  BY <1>2, <2>2, <2>3, MovesOn
<1>6. QED  BY <1>3, <1>4, <1>5

LEMMA UnionTakesKeeps ==
  ASSUME config \in Configs, NEW f, IsFrame(f), f.s.type = "union",
         NEW r, Resumed(UnionGoesOn(f), r)
  PROVE  Keeps(f, UnionTakes(f, r))
<1>1. PICK g, t, i : g = UnionGoesOn(f) /\ t = UnionTakes(f, r) /\ i = f.awaited + 1
  OBVIOUS
<1>2. /\ IsDataset(f.d) /\ f.awaited \in Nat /\ UnionProgress(f)
      /\ Len(f.s.kids) \in Nat /\ DOMAIN f.s.kids = 1 .. Len(f.s.kids)
  BY UnionParts
<1>3. f = FrameOf(f.s, f.d, f.loop, f.awaited, f.outKey, f.keys) /\ IsCall(f.s, f.d)
  BY DEF IsFrame
<1>4. /\ ~ f.loop.aborted /\ f.awaited # Len(f.s.kids)
      /\ g = Await(f.s.kids[i], Fresh(f.d.value))
  <2>1. g.step = "run" \/ g.step = "act"
    BY <1>1 DEF Resumed
  <2>2. ASSUME NEW x, g = Return(x) PROVE FALSE
    BY <2>1, <2>2, AwaitFields
  <2>3. ~ f.loop.aborted /\ f.awaited # Len(f.s.kids)
    BY <1>1, <2>2 DEF UnionGoesOn
  <2>4. QED  BY <1>1, <2>3 DEF UnionGoesOn
<1>5. i \in 1 .. Len(f.s.kids)
  BY <1>1, <1>2, <1>4 DEF UnionProgress
<1>6. PICK answers : answers = MembersOf(f)
  OBVIOUS
<1>7. DOMAIN answers = 1 .. Len(f.s.kids)
  BY <1>2, <1>6 DEF MembersOf
<1>8. Returns(f.s.kids[i], Fresh(f.d.value), r)
  BY <1>1, <1>4, AwaitFields DEF Resumed
<1>9. IsDataset(r) /\ Resolved(r) = answers[i] /\ (r.value = Root => f.d.value = Root)
  BY <1>2, <1>5, <1>6, <1>8, FreshSeen DEF Returns, MembersOf
<1>10. PICK match \in BOOLEAN : match = Matches(r)
  <2>1. r.typed \in BOOLEAN
    BY <1>9, DatasetParts
  <2>2. QED  BY <2>1 DEF Matches
<1>11. match <=> Matches(answers[i])
  BY <1>9, <1>10, AbortsSeen
<1>12. PICK chosen : chosen = [r EXCEPT !.issues = IF @ = <<>> THEN f.d.issues ELSE @]
  OBVIOUS
<1>13. PICK data : data = IF match THEN chosen ELSE f.loop.data
  OBVIOUS
<1>14. t = FrameOf(f.s, f.d, LoopOf(data, f.loop.out, match), i, f.outKey, f.keys)
  <2>1. PICK l, ld, out, ab : l = f.loop /\ ld = l.data /\ out = l.out /\ ab = l.aborted
    OBVIOUS
  <2>2. l = [data |-> ld, out |-> out, aborted |-> ab]
    BY <1>2, <2>1 DEF UnionProgress, IsLoopRecord, LoopOf
  <2>3. PICK x, y, w, o, ks : x = f.s /\ y = f.d /\ w = f.awaited /\ o = f.outKey /\ ks = f.keys
    OBVIOUS
  <2>4. f = [s |-> x, d |-> y, loop |-> l, awaited |-> w, outKey |-> o, keys |-> ks]
    BY <1>3, <2>1, <2>3 DEF FrameOf
  <2>5. t = [f EXCEPT !.awaited = @ + 1, !.loop = [data |-> IF match THEN chosen ELSE @.data, aborted |-> match, out |-> @.out]]
    BY <1>1, <1>10, <1>12 DEF UnionTakes
  <2>6. f.loop = l /\ l.data = ld /\ l.out = out /\ f.awaited + 1 = i
    BY <1>1, <2>1
  <2>7. PICK m : m = [data |-> data, out |-> out, aborted |-> match]
    OBVIOUS
  <2>8. t = [f EXCEPT !.awaited = i, !.loop = m]
    BY <1>13, <2>5, <2>6, <2>7
  <2>9. t = [s |-> x, d |-> y, loop |-> m, awaited |-> i, outKey |-> o, keys |-> ks]
    BY <2>4, <2>8
  <2>10. QED  BY <2>1, <2>3, <2>7, <2>9 DEF FrameOf, LoopOf
<1>15. /\ t.s = f.s /\ t.d = f.d /\ t.awaited = i /\ t.loop = LoopOf(data, f.loop.out, match)
       /\ t = FrameOf(t.s, t.d, t.loop, t.awaited, t.outKey, t.keys)
  BY <1>14, FrameFields
<1>16. t.loop.data = data /\ t.loop.aborted = match /\ IsLoopRecord(t.loop)
  BY <1>15 DEF LoopOf, IsLoopRecord
<1>17. \A j \in 1 .. i - 1 : ~ Matches(answers[j])
  BY <1>1, <1>2, <1>4, <1>5, <1>6 DEF UnionProgress, MembersOf
<1>18. match => Returns(f.s, f.d, chosen)
  <2>1. SUFFICES ASSUME match PROVE Returns(f.s, f.d, chosen)
    OBVIOUS
  <2>2. Matching(answers) # {} /\ FirstMatch(answers) = answers[i]
    BY <1>2, <1>5, <1>7, <1>11, <1>17, <2>1, FirstMatchIs
  <2>3. IsDataset(chosen) /\ chosen.value = r.value
        /\ Resolved(chosen) = [Resolved(r) EXCEPT !.issues = IF @ = <<>> THEN Resolved(f.d).issues ELSE @]
    BY <1>2, <1>9, <1>12, AdoptedSeen
  <2>4. Run(f.s, Resolved(f.d), config) =
          [FirstMatch(answers) EXCEPT !.issues = IF @ = <<>> THEN Resolved(f.d).issues ELSE @]
    BY <1>6, <2>2, UnionParts
  <2>5. QED  BY <1>9, <2>2, <2>3, <2>4 DEF Returns
<1>19. ~ match => \A j \in 1 .. i : ~ Matches(answers[j])
  BY <1>2, <1>5, <1>11, <1>17
<1>20. UnionProgress(t)
  <2>1. \A j \in 1 .. i : answers[j] = Run(t.s.kids[j], Fresh(Deref(t.d.value)), config)
    BY <1>2, <1>5, <1>6, <1>15 DEF MembersOf
  <2>2. i <= Len(t.s.kids)
    BY <1>5, <1>15
  <2>3. match => Returns(t.s, t.d, data)
    BY <1>13, <1>15, <1>18
  <2>4. ~ match => \A j \in 1 .. i : ~ Matches(Run(t.s.kids[j], Fresh(Deref(t.d.value)), config))
    BY <1>19, <2>1
  <2>5. QED  BY <1>15, <1>16, <2>2, <2>3, <2>4 DEF UnionProgress
<1>21. IsFrame(t)
  BY <1>1, <1>2, <1>3, <1>15, <1>20 DEF IsFrame, AsyncTypes
<1>22. QED  BY <1>1, <1>15, <1>21 DEF Keeps

LEMMA BehindSeen ==
  ASSUME NEW d, IsDataset(d), NEW r, IsDataset(r)
  PROVE  LET c == [r EXCEPT !.issues = d.issues \o @]
         IN  /\ IsDataset(c) /\ c.value = r.value
             /\ Resolved(c) = [Resolved(r) EXCEPT !.issues = Resolved(d).issues \o @]
<1>1. PICK v, typed, p : v = r.value /\ typed = r.typed /\ p = r.issues
  OBVIOUS
<1>2. r = Dataset(v, typed, p) /\ typed \in BOOLEAN /\ IsIssues(p) /\ IsIssues(d.issues)
  BY <1>1, DatasetParts
<1>3. PICK q : q = d.issues \o p
  OBVIOUS
<1>4. IsIssues(q) /\ Seen(q) = Seen(d.issues) \o Seen(p)
  BY <1>2, <1>3, IssuesConcat, SeenConcat
<1>5. PICK c : c = [r EXCEPT !.issues = d.issues \o @]
  OBVIOUS
<1>6. c = Dataset(v, typed, q)
  <2>1. c = [r EXCEPT !.issues = q]
    BY <1>1, <1>3, <1>5
  <2>2. QED  BY <1>2, <2>1 DEF Dataset
<1>7. IsDataset(c) /\ c.value = v /\ Resolved(c) = Dataset(Deref(v), typed, Seen(q))
  <2>1. IsIssues(q) /\ typed \in BOOLEAN /\ c = Dataset(v, typed, q)
    BY <1>2, <1>4, <1>6
  <2>2. /\ IsDataset(Dataset(v, typed, q)) /\ Dataset(v, typed, q).value = v
        /\ Dataset(v, typed, q).typed = typed /\ Dataset(v, typed, q).issues = q
    BY <2>1, DatasetOf
  <2>3. IsDataset(c) /\ c.value = v /\ c.typed = typed /\ c.issues = q
    BY <2>1, <2>2
  <2>4. Resolved(c) = Dataset(Deref(c.value), c.typed, Seen(c.issues))
    BY <2>3, ResolvedParts
  <2>5. QED  BY <2>3, <2>4
<1>8. PICK e, sp, w, sq : e = Resolved(r) /\ sp = Seen(p) /\ w = Deref(v) /\ sq = Seen(q)
  OBVIOUS
<1>9. e = Dataset(w, typed, sp)
  BY <1>1, <1>8, ResolvedParts
<1>10. PICK sd : sd = Resolved(d).issues
  OBVIOUS
<1>11. sd = Seen(d.issues)
  BY <1>10, ResolvedParts
<1>12. sq = sd \o sp
  BY <1>4, <1>8, <1>11
<1>13. e.issues = sp
  BY <1>9 DEF Dataset
<1>14. [e EXCEPT !.issues = sd \o @] = [e EXCEPT !.issues = sq]
  BY <1>12, <1>13
<1>15. [e EXCEPT !.issues = sq] = Dataset(w, typed, sq)
  BY <1>9 DEF Dataset
<1>16. QED  BY <1>1, <1>5, <1>7, <1>8, <1>10, <1>14, <1>15

LEMMA DiscriminatedParts ==
  ASSUME config \in Configs, NEW f, IsFrame(f), f.s.type = "discriminated_union"
  PROVE  /\ IsDataset(f.d) /\ f.awaited \in Nat /\ DiscriminatedProgress(f)
         /\ LET v == Deref(f.d.value)
                none == ~ IsObject(v) \/ Tagged(f.s, Own(f)) = {}
            IN  /\ none => Run(f.s, Resolved(f.d), config) = Mismatch(Resolved(f.d), f.s)
                /\ ~ none =>
                     /\ IsCall(Member(f.s, Own(f)), Fresh(f.d.value))
                     /\ Run(f.s, Resolved(f.d), config) =
                          [Run(Member(f.s, Own(f)), Fresh(v), config) EXCEPT
                             !.issues = Resolved(f.d).issues \o @]
<1>1. IsCall(f.s, f.d) /\ f.awaited \in Nat /\ DiscriminatedProgress(f)
  BY DEF IsFrame
<1>2. PICK v, w : v = f.d.value /\ w = Deref(v)
  OBVIOUS
<1>3. PICK e : e = Resolved(f.d)
  OBVIOUS
<1>4. /\ IsDataset(f.d) /\ e.value = w
      /\ Run(f.s, e, config) = RunBody(f.s, e, config)
      /\ \A inner \in Range(Inner(f.s, e)) : inner \in Calls
  BY <1>1, <1>2, <1>3, CallParts
<1>5. Own(f) = e.value.own
  BY <1>2, <1>4 DEF Own
<1>6. RunBody(f.s, e, config) = RunDiscriminated(f.s, e, config)
  BY DEF RunBody
<1>7. CASE ~ IsObject(w) \/ Tagged(f.s, Own(f)) = {}
  BY <1>1, <1>2, <1>3, <1>4, <1>5, <1>6, <1>7 DEF RunDiscriminated
<1>8. CASE IsObject(w) /\ Tagged(f.s, Own(f)) # {}
  <2>1. PICK s : s = Member(f.s, Own(f))
    OBVIOUS
  <2>2. PICK x : x = <<s, Fresh(w)>>
    OBVIOUS
  <2>3. Inner(f.s, e) = <<x>>
    BY <1>4, <1>5, <1>8, <2>1, <2>2 DEF Inner
  <2>4. x \in Range(<<x>>)
    BY DEF Range
  <2>5. x \in Calls
    BY <1>4, <2>3, <2>4
  <2>6. IsDataset(Fresh(v)) /\ Resolved(Fresh(v)) = Fresh(w)
    BY <1>2, FreshSeen
  <2>7. IsCall(s, Fresh(v))
    BY <2>2, <2>5, <2>6 DEF IsCall
  <2>8. Run(f.s, e, config) = [Run(s, Fresh(w), config) EXCEPT !.issues = e.issues \o @]
    BY <1>4, <1>5, <1>6, <1>8, <2>1 DEF RunDiscriminated
  <2>9. QED  BY <1>1, <1>2, <1>3, <1>4, <1>8, <2>1, <2>7, <2>8
<1>9. QED  BY <1>7, <1>8

LEMMA DiscriminatedGoes ==
  ASSUME config \in Configs, NEW f, IsFrame(f), f.s.type = "discriminated_union"
  PROVE  Moves(f, DiscriminatedGoesOn(f))
<1>1. PICK g : g = DiscriminatedGoesOn(f)
  OBVIOUS
<1>2. IsDataset(f.d) /\ f.awaited \in Nat /\ DiscriminatedProgress(f)
  BY DiscriminatedParts
<1>3. CASE f.awaited = 1
  <2>1. Returns(f.s, f.d, f.loop.data)
    BY <1>2, <1>3 DEF DiscriminatedProgress
  <2>2. g = Return(f.loop.data)
    BY <1>1, <1>3 DEF DiscriminatedGoesOn
  <2>3. QED  BY <1>1, <2>1, <2>2, MovesOn
<1>4. CASE f.awaited # 1 /\ (~ IsObject(Deref(f.d.value)) \/ Tagged(f.s, Own(f)) = {})
  <2>1. Run(f.s, Resolved(f.d), config) = Mismatch(Resolved(f.d), f.s)
    BY <1>4, DiscriminatedParts
  <2>2. Returns(f.s, f.d, Mismatch(f.d, f.s))
    BY <1>2, <2>1, MismatchReturns
  <2>3. g = Return(Mismatch(f.d, f.s))
    BY <1>1, <1>4 DEF DiscriminatedGoesOn
  <2>4. QED  BY <1>1, <2>2, <2>3, MovesOn
<1>5. CASE f.awaited # 1 /\ ~ (~ IsObject(Deref(f.d.value)) \/ Tagged(f.s, Own(f)) = {})
  <2>1. IsCall(Member(f.s, Own(f)), Fresh(f.d.value))
    BY <1>5, DiscriminatedParts
  <2>2. g = Await(Member(f.s, Own(f)), Fresh(f.d.value))
    BY <1>1, <1>5 DEF DiscriminatedGoesOn
  <2>3. QED  BY <1>1, <2>1, <2>2, MovesOn
<1>6. QED  BY <1>3, <1>4, <1>5

(* A frame that takes over a dataset as it is                              *)
LEMMA TakesData ==
  ASSUME NEW f, f = FrameOf(f.s, f.d, f.loop, f.awaited, f.outKey, f.keys), IsLoopRecord(f.loop),
         NEW c
  PROVE  LET t == TakenWhole(f, c)
         IN  /\ t = FrameOf(t.s, t.d, t.loop, t.awaited, t.outKey, t.keys) /\ IsLoopRecord(t.loop)
             /\ t.s = f.s /\ t.d = f.d /\ t.awaited = f.awaited + 1 /\ t.loop.data = c
<1>1. PICK l, out, ab, ld : l = f.loop /\ out = l.out /\ ab = l.aborted /\ ld = l.data
  OBVIOUS
<1>2. l = [data |-> ld, out |-> out, aborted |-> ab]
  BY <1>1 DEF IsLoopRecord, LoopOf
<1>3. PICK x, y, w, o, ks : x = f.s /\ y = f.d /\ w = f.awaited /\ o = f.outKey /\ ks = f.keys
  OBVIOUS
<1>4. f = [s |-> x, d |-> y, loop |-> l, awaited |-> w, outKey |-> o, keys |-> ks]
  BY <1>1, <1>3 DEF FrameOf
<1>5. PICK i, m : i = w + 1 /\ m = [l EXCEPT !.data = c]
  OBVIOUS
<1>6. PICK t : t = TakenWhole(f, c)
  OBVIOUS
<1>7. t = [f EXCEPT !.awaited = i, !.loop = m]
  BY <1>1, <1>3, <1>4, <1>5, <1>6 DEF TakenWhole
<1>8. t = [s |-> x, d |-> y, loop |-> m, awaited |-> i, outKey |-> o, keys |-> ks]
  BY <1>4, <1>7
<1>9. m = [data |-> c, out |-> out, aborted |-> ab]
  BY <1>2, <1>5
<1>10. m.data = c /\ IsLoopRecord(m)
  BY <1>9 DEF IsLoopRecord, LoopOf
<1>11. /\ t.s = x /\ t.d = y /\ t.loop = m /\ t.awaited = i
       /\ t = FrameOf(t.s, t.d, t.loop, t.awaited, t.outKey, t.keys)
  <2>1. t = FrameOf(x, y, m, i, o, ks)
    BY <1>8 DEF FrameOf
  <2>2. QED  BY <2>1, FrameFields
<1>12. t.awaited = f.awaited + 1
  <2>1. i = f.awaited + 1
    BY <1>3, <1>5
  <2>2. QED  BY <1>11, <2>1, Zenon
<1>13. t.s = f.s /\ t.d = f.d /\ t.loop.data = c /\ IsLoopRecord(t.loop)
  BY <1>3, <1>10, <1>11
<1>14. QED  BY <1>11, <1>12, <1>13, <1>6, Zenon

LEMMA DiscriminatedTakesKeeps ==
  ASSUME config \in Configs, NEW f, IsFrame(f), f.s.type = "discriminated_union",
         NEW r, Resumed(DiscriminatedGoesOn(f), r)
  PROVE  Keeps(f, DiscriminatedTakes(f, r))
<1>1. PICK g, t : g = DiscriminatedGoesOn(f) /\ t = DiscriminatedTakes(f, r)
  OBVIOUS
<1>2. IsDataset(f.d) /\ f.awaited \in Nat /\ DiscriminatedProgress(f)
  BY DiscriminatedParts
<1>3. f = FrameOf(f.s, f.d, f.loop, f.awaited, f.outKey, f.keys) /\ IsCall(f.s, f.d)
  BY DEF IsFrame
<1>4. /\ f.awaited # 1 /\ ~ (~ IsObject(Deref(f.d.value)) \/ Tagged(f.s, Own(f)) = {})
      /\ g = Await(Member(f.s, Own(f)), Fresh(f.d.value))
  <2>1. g.step = "run" \/ g.step = "act"
    BY <1>1 DEF Resumed
  <2>2. ASSUME NEW x, g = Return(x) PROVE FALSE
    BY <2>1, <2>2, AwaitFields
  <2>3. f.awaited # 1 /\ ~ (~ IsObject(Deref(f.d.value)) \/ Tagged(f.s, Own(f)) = {})
    BY <1>1, <2>2 DEF DiscriminatedGoesOn
  <2>4. QED  BY <1>1, <2>3 DEF DiscriminatedGoesOn
<1>5. f.awaited = 0 /\ IsLoopRecord(f.loop)
  BY <1>2, <1>4 DEF DiscriminatedProgress
<1>6. PICK s : s = Member(f.s, Own(f))
  OBVIOUS
<1>7. Returns(s, Fresh(f.d.value), r)
  BY <1>1, <1>4, <1>6, AwaitFields DEF Resumed
<1>8. PICK a : a = Run(s, Fresh(Deref(f.d.value)), config)
  OBVIOUS
<1>9. IsDataset(r) /\ Resolved(r) = a /\ (r.value = Root => f.d.value = Root)
  BY <1>7, <1>8, FreshSeen DEF Returns
<1>10. PICK chosen : chosen = [r EXCEPT !.issues = f.d.issues \o @]
  OBVIOUS
<1>11. IsDataset(chosen) /\ chosen.value = r.value
       /\ Resolved(chosen) = [a EXCEPT !.issues = Resolved(f.d).issues \o @]
  <2>1. /\ IsDataset(chosen) /\ chosen.value = r.value
        /\ Resolved(chosen) = [Resolved(r) EXCEPT !.issues = Resolved(f.d).issues \o @]
    BY <1>2, <1>9, <1>10, BehindSeen
  <2>2. QED  BY <1>9, <2>1
<1>12. Run(f.s, Resolved(f.d), config) = [a EXCEPT !.issues = Resolved(f.d).issues \o @]
  BY <1>4, <1>6, <1>8, DiscriminatedParts
<1>13. Returns(f.s, f.d, chosen)
  BY <1>9, <1>11, <1>12 DEF Returns
<1>14. t = TakenWhole(f, chosen)
  BY <1>1, <1>10 DEF DiscriminatedTakes
<1>15. /\ t = FrameOf(t.s, t.d, t.loop, t.awaited, t.outKey, t.keys) /\ IsLoopRecord(t.loop)
       /\ t.s = f.s /\ t.d = f.d /\ t.awaited = 1 /\ t.loop.data = chosen
  <2>1. /\ t = FrameOf(t.s, t.d, t.loop, t.awaited, t.outKey, t.keys) /\ IsLoopRecord(t.loop)
        /\ t.s = f.s /\ t.d = f.d /\ t.awaited = f.awaited + 1 /\ t.loop.data = chosen
    BY <1>3, <1>5, <1>14, TakesData
  <2>2. f.awaited + 1 = 1
    BY <1>5
  <2>3. QED  BY <2>1, <2>2, Zenon
<1>16. DiscriminatedProgress(t)
  BY <1>13, <1>15 DEF DiscriminatedProgress
<1>17. IsFrame(t)
  BY <1>3, <1>15, <1>16 DEF IsFrame, AsyncTypes
<1>18. QED  BY <1>1, <1>15, <1>17 DEF Keeps

(* The operations of the user                                              *)
LEMMA MappedSeen ==
  ASSUME NEW op, NEW v, op.keeps \/ op.to # Root
  PROVE  /\ Deref(Mapped(op, v)) = Mapped(op, Deref(v))
         /\ Mapped(op, v) = Root => v = Root
BY DEF Deref, Mapped

LEMMA ReportsSeen ==
  ASSUME NEW op, IsReporter(op), NEW d, IsDataset(d), NEW type
  PROVE  LET q == d.issues \o Reported(op, d, type)
         IN  /\ IsIssues(q)
             /\ Seen(q) = Resolved(d).issues \o Reported(op, Resolved(d), type)
<1>1. PICK p : p = Reported(op, d, type)
  OBVIOUS
<1>2. PICK e : e = Resolved(d)
  OBVIOUS
<1>3. e.value = Deref(d.value) /\ e.issues = Seen(d.issues) /\ IsIssues(d.issues)
  BY <1>2, ResolvedParts, DatasetParts
<1>4. IsIssues(p) /\ Seen(p) = Reported(op, e, type)
  <2>1. PICK D, v, w : D = DOMAIN op.issues /\ v = d.value /\ w = Deref(v)
    OBVIOUS
  <2>2. PICK a, b : /\ a = [i \in D |-> Issue("transformation", type, v, op.issues[i], "none", <<>>)]
                    /\ b = [i \in D |-> Issue("transformation", type, w, op.issues[i], "none", <<>>)]
    OBVIOUS
  <2>3. p = a /\ Reported(op, e, type) = b
    BY <1>1, <1>3, <2>1, <2>2 DEF Reported
  <2>4. \A i \in D : [a[i] EXCEPT !.input = Deref(@)] = b[i]
    BY <2>1, <2>2 DEF Issue
  <2>5. Seen(a) = b
    BY <2>2, <2>4 DEF Seen
  <2>6. QED  BY <1>1, <2>3, <2>5, ReportParts
<1>5. PICK q : q = d.issues \o p
  OBVIOUS
<1>6. IsIssues(q) /\ Seen(q) = Seen(d.issues) \o Seen(p)
  BY <1>3, <1>4, <1>5, IssuesConcat, SeenConcat
<1>7. QED  BY <1>1, <1>2, <1>3, <1>4, <1>5, <1>6

LEMMA ActedSeen ==
  ASSUME NEW op, IsOperation(op), op.kind = "transform" => op.to # Root, NEW d, IsDataset(d)
  PROVE  /\ IsDataset(Acted(op, d)) /\ Resolved(Acted(op, d)) = Acts(op, Resolved(d))
         /\ Acted(op, d).value = Root => d.value = Root
<1>1. PICK e : e = Resolved(d)
  OBVIOUS
<1>2. e.value = Deref(d.value) /\ e.typed = d.typed
  BY <1>1, ResolvedParts
<1>3. CASE op.kind = "check"
  <2>1. Acted(op, d) = CheckAsync(op, d) /\ Acts(op, e) = Check(op, e)
    BY <1>3 DEF Acted, Acts
  <2>2. CASE d.typed /\ Deref(d.value) \in op.rejects
    <3>1. PICK kind, type, message, path :
            kind = "validation" /\ type = "check" /\ message = "none" /\ path = <<>>
      OBVIOUS
    <3>2. Acted(op, d) = AddIssue(d, kind, type, message, path)
      BY <2>1, <2>2, <3>1 DEF CheckAsync
    <3>3. Acts(op, e) = AddIssue(e, kind, type, message, path)
      BY <1>2, <2>1, <2>2, <3>1 DEF Check
    <3>4. /\ IsDataset(AddIssue(d, kind, type, message, path))
          /\ Resolved(AddIssue(d, kind, type, message, path)) = AddIssue(e, kind, type, message, path)
          /\ AddIssue(d, kind, type, message, path).value = d.value
      BY <1>1, ResolvedAdd
    <3>5. QED  BY <1>1, <3>2, <3>3, <3>4
  <2>3. CASE ~ (d.typed /\ Deref(d.value) \in op.rejects)
    <3>1. Acted(op, d) = d /\ Acts(op, e) = e
      BY <1>2, <2>1, <2>3 DEF CheckAsync, Check
    <3>2. QED  BY <1>1, <3>1
  <2>4. QED  BY <2>2, <2>3
<1>4. CASE op.kind = "transform"
  <2>1. Acted(op, d) = Transform(op, d) /\ Acts(op, e) = Transform(op, e)
    BY <1>4 DEF Acted, Acts, TransformAsync
  <2>2. CASE d.typed
    <3>1. PICK v, w : v = Mapped(op, d.value) /\ w = Mapped(op, e.value)
      OBVIOUS
    <3>2. Deref(v) = w /\ (v = Root => d.value = Root)
      BY <1>2, <1>4, <3>1, MappedSeen
    <3>3. PICK typed \in BOOLEAN : typed = ~ Fails(op)
      OBVIOUS
    <3>4. PICK type : type = "transform"
      OBVIOUS
    <3>5. PICK q, p : q = d.issues \o Reported(op, d, type) /\ p = e.issues \o Reported(op, e, type)
      OBVIOUS
    <3>6. IsIssues(q) /\ Seen(q) = p
      BY <1>1, <1>4, <3>5, ReportsSeen DEF IsOperation
    <3>7. PICK a : a = Acted(op, d)
      OBVIOUS
    <3>8. a = Dataset(v, typed, q)
      BY <2>1, <2>2, <3>1, <3>3, <3>4, <3>5, <3>7 DEF Transform, Dataset
    <3>9. Acts(op, e) = Dataset(w, typed, p)
      BY <1>2, <2>1, <2>2, <3>1, <3>3, <3>4, <3>5 DEF Transform, Dataset
    <3>10. IsIssues(q) /\ typed \in BOOLEAN /\ a = Dataset(v, typed, q)
      BY <3>6, <3>8
    <3>11. IsDataset(a) /\ a.value = v /\ Resolved(a) = Dataset(Deref(v), typed, Seen(q))
      BY <3>10, ResolvedAs
    <3>12. QED  BY <1>1, <3>2, <3>6, <3>7, <3>9, <3>11
  <2>3. CASE ~ d.typed
    <3>1. Acted(op, d) = d /\ Acts(op, e) = e
      BY <1>2, <2>1, <2>3 DEF Transform
    <3>2. QED  BY <1>1, <3>1
  <2>4. QED  BY <2>2, <2>3
<1>5. CASE op.kind = "brand"
  <2>1. Acted(op, d) = d /\ Acts(op, e) = e
    BY <1>5 DEF Acted, Acts, Brand
  <2>2. QED  BY <1>1, <2>1
<1>6. QED  BY <1>3, <1>4, <1>5 DEF IsOperation

LEMMA ActsStay ==
  ASSUME NEW start, NEW ops, NEW cfg, NEW N \in Nat, N = Len(ops), NEW n \in 0 .. N,
         PipeStops(ActsInTurn(start, ops, cfg)[n], cfg)
  PROVE  ActsInTurn(start, ops, cfg)[N] = ActsInTurn(start, ops, cfg)[n]
<1>1. PICK f : f = ActsInTurn(start, ops, cfg)
  OBVIOUS
<1>2. \A k \in 1 .. N : f[k] = ActNext(f[k - 1], ops[k], cfg)
  BY <1>1, ActsInTurnLoop
<1>3. PICK T : T = {k \in 0 .. N : k >= n => f[k] = f[n]}
  OBVIOUS
<1>4. 0 \in T
  BY <1>3
<1>5. ASSUME NEW k \in 1 .. N, k - 1 \in T PROVE k \in T
  <2>1. CASE k > n
    <3>1. f[k - 1] = f[n]
      BY <1>3, <1>5, <2>1
    <3>2. f[k] = f[n]
      BY <1>1, <1>2, <3>1 DEF ActNext
    <3>3. QED  BY <1>3, <3>2
  <2>2. CASE k <= n
    BY <1>3, <2>2
  <2>3. QED  BY <2>1, <2>2
<1>6. N \in T
  <2>1. \A k \in 0 .. N : k \in T
    BY <1>4, <1>5, EveryPrefix
  <2>2. QED  BY <2>1
<1>7. QED  BY <1>1, <1>3, <1>6

(* The dataset of a pipe after its schema, and after each action           *)
ActedBy(f) == ActsInTurn(Run(f.s.wrapped, Resolved(f.d), config), f.s.ops, config)

LEMMA PipeParts ==
  ASSUME config \in Configs, NEW f, IsFrame(f), f.s.type = "pipe"
  PROVE  /\ IsDataset(f.d) /\ f.awaited \in Nat /\ IsLoopRecord(f.loop)
         /\ \/ f.awaited = 0
            \/ f.awaited \in 1 .. Len(f.s.ops) + 1 /\ Holds(f, ActedBy(f)[f.awaited - 1])
         /\ Len(f.s.ops) \in Nat /\ DOMAIN f.s.ops = 1 .. Len(f.s.ops)
         /\ \A i \in 1 .. Len(f.s.ops) :
              IsOperation(f.s.ops[i]) /\ (f.s.ops[i].kind = "transform" => f.s.ops[i].to # Root)
         /\ IsCall(f.s.wrapped, f.d)
         /\ Run(f.s, Resolved(f.d), config) = ActedBy(f)[Len(f.s.ops)]
<1>1. IsCall(f.s, f.d) /\ f.awaited \in Nat /\ PipeProgress(f)
  BY DEF IsFrame
<1>2. PICK e : e = Resolved(f.d)
  OBVIOUS
<1>3. /\ IsDataset(f.d) /\ IsSchema(f.s)
      /\ Run(f.s, e, config) = RunBody(f.s, e, config)
      /\ \A inner \in Range(Inner(f.s, e)) : inner \in Calls
  BY <1>1, <1>2, CallParts
<1>4. IsList(f.s.ops) /\ \A i \in DOMAIN f.s.ops : IsOperation(f.s.ops[i])
  BY <1>3 DEF IsSchema
<1>5. Len(f.s.ops) \in Nat /\ DOMAIN f.s.ops = 1 .. Len(f.s.ops)
  BY <1>4, ListDomain
<1>6. \A i \in DOMAIN f.s.ops : f.s.ops[i].kind = "transform" => f.s.ops[i].to # Root
  <2>1. PICK x : x = <<f.s, e>>
    OBVIOUS
  <2>2. x \in Calls /\ x[1] = f.s
    BY <1>1, <1>2, <2>1 DEF IsCall
  <2>3. QED  BY <2>2, RootAssumption
<1>7. IsCall(f.s.wrapped, f.d)
  <2>1. PICK x : x = <<f.s.wrapped, e>>
    OBVIOUS
  <2>2. Inner(f.s, e) = <<x>>
    BY <2>1 DEF Inner
  <2>3. x \in Range(<<x>>)
    BY DEF Range
  <2>4. x \in Calls
    BY <1>3, <2>2, <2>3
  <2>5. QED  BY <1>2, <1>3, <2>1, <2>4 DEF IsCall
<1>8. Run(f.s, e, config) = ActedBy(f)[Len(f.s.ops)]
  BY <1>2, <1>3 DEF RunBody, RunPipe, ActedBy
<1>9. /\ IsLoopRecord(f.loop)
      /\ \/ f.awaited = 0
         \/ f.awaited \in 1 .. Len(f.s.ops) + 1 /\ Holds(f, ActedBy(f)[f.awaited - 1])
  BY <1>1 DEF PipeProgress, ActedBy
<1>10. \A i \in 1 .. Len(f.s.ops) :
         IsOperation(f.s.ops[i]) /\ (f.s.ops[i].kind = "transform" => f.s.ops[i].to # Root)
  BY <1>4, <1>5, <1>6
<1>11. Run(f.s, Resolved(f.d), config) = ActedBy(f)[Len(f.s.ops)]
  BY <1>2, <1>8
<1>12. IsDataset(f.d) /\ f.awaited \in Nat
  BY <1>1, <1>3
<1>13. QED  BY <1>5, <1>7, <1>9, <1>10, <1>11, <1>12, Zenon

LEMMA PipeGoes ==
  ASSUME config \in Configs, NEW f, IsFrame(f), f.s.type = "pipe"
  PROVE  Moves(f, PipeGoesOn(f))
<1>1. PICK g : g = PipeGoesOn(f)
  OBVIOUS
<1>2. PICK after, d : after = ActedBy(f) /\ d = f.loop.data
  OBVIOUS
<1>3. /\ f.awaited \in Nat /\ Len(f.s.ops) \in Nat
      /\ \/ f.awaited = 0
         \/ f.awaited \in 1 .. Len(f.s.ops) + 1 /\ Holds(f, after[f.awaited - 1])
      /\ IsCall(f.s.wrapped, f.d)
      /\ Run(f.s, Resolved(f.d), config) = after[Len(f.s.ops)]
  BY <1>2, PipeParts
<1>4. CASE f.awaited = 0
  <2>1. g = Await(f.s.wrapped, f.d)
    BY <1>1, <1>4 DEF PipeGoesOn
  <2>2. QED  BY <1>1, <1>3, <2>1, MovesOn
<1>5. CASE f.awaited # 0 /\ (f.awaited > Len(f.s.ops) \/ PipeStops(d, config))
  <2>1. g = Return(d)
    BY <1>1, <1>2, <1>5 DEF PipeGoesOn
  <2>2. f.awaited \in Nat /\ f.awaited # 0 /\ Len(f.s.ops) \in Nat
    BY <1>3, <1>5
  <2>3. PICK n \in Nat : n = f.awaited - 1
    BY <2>2
  <2>4. PICK N \in Nat : N = Len(f.s.ops) /\ n = f.awaited - 1
    BY <2>2, <2>3
  <2>5. n \in 0 .. N
    BY <1>3, <1>5, <2>4
  <2>6. IsDataset(d) /\ Resolved(d) = after[n] /\ (d.value = Root => f.d.value = Root)
    BY <1>2, <1>3, <1>5, <2>4 DEF Holds
  <2>7. after[n] = after[N]
    <3>1. CASE f.awaited > Len(f.s.ops)
      <4>1. n = N
        BY <1>3, <1>5, <2>4, <3>1
      <4>2. QED  BY <4>1
    <3>2. CASE PipeStops(d, config)
      <4>1. PipeStops(after[n], config)
        BY <2>6, <3>2, AbortsSeen
      <4>2. PICK start, ops : start = Run(f.s.wrapped, Resolved(f.d), config) /\ ops = f.s.ops
        OBVIOUS
      <4>3. after = ActsInTurn(start, ops, config)
        BY <1>2, <4>2 DEF ActedBy
      <4>4. N = Len(ops) /\ PipeStops(ActsInTurn(start, ops, config)[n], config)
        BY <2>4, <4>1, <4>2, <4>3
      <4>5. ActsInTurn(start, ops, config)[N] = ActsInTurn(start, ops, config)[n]
        BY <2>5, <4>4, ActsStay
      <4>6. QED  BY <4>3, <4>5
    <3>3. QED  BY <1>5, <3>1, <3>2
  <2>8. Returns(f.s, f.d, d)
    BY <1>3, <2>4, <2>6, <2>7 DEF Returns
  <2>9. QED  BY <1>1, <2>1, <2>8, MovesOn
<1>6. CASE f.awaited # 0 /\ ~ (f.awaited > Len(f.s.ops) \/ PipeStops(d, config))
  <2>1. g = AwaitUser(f.s.ops[f.awaited], d)
    BY <1>1, <1>2, <1>6 DEF PipeGoesOn
  <2>2. QED  BY <1>1, <2>1, MovesOn
<1>7. QED  BY <1>4, <1>5, <1>6

LEMMA PipeTakesKeeps ==
  ASSUME config \in Configs, NEW f, IsFrame(f), f.s.type = "pipe",
         NEW r, Resumed(PipeGoesOn(f), r)
  PROVE  Keeps(f, PipeTakes(f, r))
<1>1. PICK g, t : g = PipeGoesOn(f) /\ t = PipeTakes(f, r)
  OBVIOUS
<1>2. PICK after, d : after = ActedBy(f) /\ d = f.loop.data
  OBVIOUS
<1>3. /\ f.awaited \in Nat /\ Len(f.s.ops) \in Nat /\ IsLoopRecord(f.loop)
      /\ \/ f.awaited = 0
         \/ f.awaited \in 1 .. Len(f.s.ops) + 1 /\ Holds(f, after[f.awaited - 1])
      /\ \A i \in 1 .. Len(f.s.ops) :
           IsOperation(f.s.ops[i]) /\ (f.s.ops[i].kind = "transform" => f.s.ops[i].to # Root)
  BY <1>2, PipeParts
<1>4. f = FrameOf(f.s, f.d, f.loop, f.awaited, f.outKey, f.keys) /\ IsCall(f.s, f.d)
  BY DEF IsFrame
<1>5. g.step = "run" \/ g.step = "act"
  BY <1>1 DEF Resumed
<1>6. ASSUME NEW x, g = Return(x) PROVE FALSE
  BY <1>5, <1>6, AwaitFields
<1>7. t = TakenWhole(f, r)
  BY <1>1 DEF PipeTakes
<1>8. /\ t = FrameOf(t.s, t.d, t.loop, t.awaited, t.outKey, t.keys) /\ IsLoopRecord(t.loop)
      /\ t.s = f.s /\ t.d = f.d /\ t.awaited = f.awaited + 1 /\ t.loop.data = r
  BY <1>3, <1>4, <1>7, TakesData
<1>9. PICK start, ops, n : /\ start = Run(f.s.wrapped, Resolved(f.d), config) /\ ops = f.s.ops
                           /\ n = f.awaited
  OBVIOUS
<1>10. after = ActsInTurn(start, ops, config)
  BY <1>2, <1>9 DEF ActedBy
<1>11. /\ n \in 0 .. Len(ops)
       /\ IsDataset(r) /\ Resolved(r) = after[n] /\ (r.value = Root => f.d.value = Root)
  <2>1. CASE n = 0
    <3>1. g = Await(f.s.wrapped, f.d)
      BY <1>1, <1>9, <2>1 DEF PipeGoesOn
    <3>2. Returns(f.s.wrapped, f.d, r)
      BY <1>1, <3>1, AwaitFields DEF Resumed
    <3>3. after[0] = start
      BY <1>3, <1>9, <1>10, ActsInTurnLoop
    <3>4. QED  BY <1>3, <1>9, <2>1, <3>2, <3>3 DEF Returns
  <2>2. CASE n # 0
    <3>1. ~ (f.awaited > Len(f.s.ops) \/ PipeStops(d, config))
      BY <1>1, <1>2, <1>6, <1>9, <2>2 DEF PipeGoesOn
    <3>2. g = AwaitUser(ops[n], d)
      BY <1>1, <1>2, <1>9, <2>2, <3>1 DEF PipeGoesOn
    <3>3. r = Acted(ops[n], d)
      BY <1>1, <3>2, AwaitFields DEF Resumed
    <3>4. n \in 1 .. Len(ops)
      BY <1>3, <1>9, <2>2, <3>1
    <3>5. IsDataset(d) /\ Resolved(d) = after[n - 1] /\ (d.value = Root => f.d.value = Root)
      BY <1>2, <1>3, <1>9, <2>2 DEF Holds
    <3>6. PICK op : op = ops[n]
      OBVIOUS
    <3>7. IsOperation(op) /\ (op.kind = "transform" => op.to # Root)
      BY <1>3, <1>9, <3>4, <3>6
    <3>8. /\ IsDataset(r) /\ Resolved(r) = Acts(op, Resolved(d))
          /\ r.value = Root => d.value = Root
      BY <3>3, <3>5, <3>6, <3>7, ActedSeen
    <3>9. ~ PipeStops(after[n - 1], config)
      BY <3>1, <3>5, AbortsSeen
    <3>10. after[n] = ActNext(after[n - 1], op, config)
      BY <1>3, <1>9, <1>10, <3>4, <3>6, ActsInTurnLoop
    <3>11. after[n] = Acts(op, after[n - 1])
      BY <3>9, <3>10 DEF ActNext
    <3>12. QED  BY <1>3, <1>9, <3>4, <3>5, <3>8, <3>11
  <2>3. QED  BY <2>1, <2>2
<1>12. PipeProgress(t)
  <2>1. PICK m : m = n + 1
    OBVIOUS
  <2>2. m - 1 = n /\ m \in 1 .. Len(ops) + 1
    <3>1. n \in 0 .. Len(ops)
      BY <1>11
    <3>2. Len(ops) \in Nat
      BY <1>3, <1>9
    <3>3. QED  BY <2>1, <3>1, <3>2
  <2>3. t.awaited = m
    BY <1>8, <1>9, <2>1
  <2>4. Holds(t, after[n])
    BY <1>8, <1>11 DEF Holds
  <2>5. after = ActsInTurn(Run(t.s.wrapped, Resolved(t.d), config), t.s.ops, config)
    BY <1>8, <1>9, <1>10
  <2>6. t.awaited \in 1 .. Len(t.s.ops) + 1 /\ Holds(t, after[t.awaited - 1])
    BY <1>8, <1>9, <2>2, <2>3, <2>4
  <2>7. QED  BY <1>8, <2>5, <2>6 DEF PipeProgress
<1>13. t.awaited \in Nat
  BY <1>3, <1>8
<1>14. IsFrame(t)
  BY <1>4, <1>8, <1>12, <1>13 DEF IsFrame, AsyncTypes
<1>15. QED  BY <1>1, <1>8, <1>14 DEF Keeps

LEMMA PreprocessParts ==
  ASSUME config \in Configs, NEW f, IsFrame(f), f.s.type = "preprocess"
  PROVE  /\ IsDataset(f.d) /\ f.awaited \in Nat /\ PreprocessProgress(f)
         /\ Run(f.s, Resolved(f.d), config) = RunPreprocess(f.s, Resolved(f.d), config)
         /\ IsReporter(f.s.op)
         /\ ~ Fails(f.s.op) =>
              /\ <<f.s.wrapped, Preprocessed(f.s, Resolved(f.d))>> \in Calls
              /\ f.s.op.keeps \/ f.s.op.to # Root
<1>1. IsCall(f.s, f.d) /\ f.awaited \in Nat /\ PreprocessProgress(f)
  BY DEF IsFrame
<1>2. PICK e : e = Resolved(f.d)
  OBVIOUS
<1>3. /\ IsDataset(f.d) /\ IsDataset(e) /\ Run(f.s, e, config) = RunBody(f.s, e, config)
      /\ \A inner \in Range(Inner(f.s, e)) : inner \in Calls
  BY <1>1, <1>2, CallParts
<1>4. RunBody(f.s, e, config) = RunPreprocess(f.s, e, config)
  BY DEF RunBody
<1>5. ASSUME ~ Fails(f.s.op)
      PROVE  <<f.s.wrapped, Preprocessed(f.s, e)>> \in Calls /\ (f.s.op.keeps \/ f.s.op.to # Root)
  <2>1. PICK p, x : p = Preprocessed(f.s, e) /\ x = <<f.s.wrapped, p>>
    OBVIOUS
  <2>2. Inner(f.s, e) = <<x>>
    BY <1>5, <2>1 DEF Inner
  <2>3. x \in Range(<<x>>)
    BY DEF Range
  <2>4. x \in Calls /\ x[2] = p
    BY <1>3, <2>1, <2>2, <2>3
  <2>5. p.value # Root
    BY <2>4, RootAssumption DEF IsPlain
  <2>6. p.value = Mapped(f.s.op, e.value)
    <3>1. PICK v, q : v = Mapped(f.s.op, e.value) /\ q = e.issues \o Reported(f.s.op, e, "preprocess")
      OBVIOUS
    <3>2. p = [e EXCEPT !.value = v, !.issues = q]
      BY <2>1, <3>1 DEF Preprocessed
    <3>3. e = [value |-> e.value, typed |-> e.typed, issues |-> e.issues]
      BY <1>3 DEF IsDataset
    <3>4. QED  BY <3>1, <3>2, <3>3
  <2>7. QED  BY <2>1, <2>4, <2>5, <2>6 DEF Mapped
<1>6. IsReporter(f.s.op)
  <2>1. IsSchema(f.s)
    BY <1>1, CallsAssumption DEF IsCall
  <2>2. QED  BY <2>1 DEF IsSchema
<1>7. QED  BY <1>1, <1>2, <1>3, <1>4, <1>5, <1>6

LEMMA PreprocessGoes ==
  ASSUME config \in Configs, NEW f, IsFrame(f), f.s.type = "preprocess"
  PROVE  Moves(f, PreprocessGoesOn(f))
<1>1. PICK g, d : g = PreprocessGoesOn(f) /\ d = f.loop.data
  OBVIOUS
<1>2. IsDataset(f.d) /\ f.awaited \in Nat /\ PreprocessProgress(f)
  BY PreprocessParts
<1>3. CASE f.awaited = 0
  <2>1. g = AwaitUser([kind |-> "preprocess", op |-> f.s.op], f.d)
    BY <1>1, <1>3 DEF PreprocessGoesOn
  <2>2. QED  BY <1>1, <2>1, MovesOn
<1>4. CASE f.awaited = 1 /\ ~ Fails(f.s.op)
  <2>1. g = Await(f.s.wrapped, d)
    BY <1>1, <1>4 DEF PreprocessGoesOn
  <2>2. IsDataset(d) /\ Resolved(d) = Preprocessed(f.s, Resolved(f.d))
    BY <1>1, <1>2, <1>4 DEF PreprocessProgress, Holds
  <2>3. <<f.s.wrapped, Resolved(d)>> \in Calls
    BY <1>4, <2>2, PreprocessParts
  <2>4. IsCall(f.s.wrapped, d)
    BY <2>2, <2>3 DEF IsCall
  <2>5. QED  BY <1>1, <2>1, <2>4, MovesOn
<1>5. CASE f.awaited # 0 /\ ~ (f.awaited = 1 /\ ~ Fails(f.s.op))
  <2>1. g = Return(d)
    BY <1>1, <1>5 DEF PreprocessGoesOn
  <2>2. Returns(f.s, f.d, d)
    BY <1>1, <1>2, <1>5 DEF PreprocessProgress
  <2>3. QED  BY <1>1, <2>1, <2>2, MovesOn
<1>6. QED  BY <1>3, <1>4, <1>5

(* What the operation of a preprocess leaves                               *)
LEMMA PreprocessedSeen ==
  ASSUME NEW s, IsReporter(s.op),
         NEW d, IsDataset(d), NEW a, a = PreprocessAsync(s.op, d)
  PROVE  /\ ~ Fails(s.op) /\ (s.op.keeps \/ s.op.to # Root) =>
              /\ IsDataset(a) /\ Resolved(a) = Preprocessed(s, Resolved(d))
              /\ a.value = Root => d.value = Root
         /\ Fails(s.op) =>
              /\ IsDataset(a) /\ \A cfg : Resolved(a) = RunPreprocess(s, Resolved(d), cfg)
              /\ a.value = Root => d.value = Root
<1>1. PICK op, e, type : op = s.op /\ e = Resolved(d) /\ type = "preprocess"
  OBVIOUS
<1>2. PICK v, typed, p : v = d.value /\ typed = d.typed /\ p = d.issues
  OBVIOUS
<1>3. d = [value |-> v, typed |-> typed, issues |-> p] /\ typed \in BOOLEAN
  BY <1>2, DatasetParts DEF Dataset
<1>4. PICK w, sp : w = Deref(v) /\ sp = Seen(p)
  OBVIOUS
<1>5. e = [value |-> w, typed |-> typed, issues |-> sp]
  BY <1>1, <1>2, <1>4, ResolvedParts DEF Dataset
<1>6. PICK q, sq : q = d.issues \o Reported(op, d, type) /\ sq = e.issues \o Reported(op, e, type)
  OBVIOUS
<1>7. IsIssues(q) /\ Seen(q) = sq
  BY <1>1, <1>6, ReportsSeen
<1>8. CASE ~ Fails(op) /\ (op.keeps \/ op.to # Root)
  <2>1. PICK x, y : x = Mapped(op, v) /\ y = Mapped(op, w)
    OBVIOUS
  <2>2. Deref(x) = y /\ (x = Root => v = Root)
    BY <1>4, <1>8, <2>1, MappedSeen
  <2>3. a = [d EXCEPT !.typed = typed, !.issues = q, !.value = x]
    BY <1>1, <1>2, <1>3, <1>6, <1>8, <2>1 DEF PreprocessAsync
  <2>4. a = Dataset(x, typed, q)
    BY <1>3, <2>3 DEF Dataset
  <2>5. IsIssues(q) /\ typed \in BOOLEAN /\ a = Dataset(x, typed, q)
    BY <1>3, <1>7, <2>4
  <2>6. IsDataset(a) /\ a.value = x /\ Resolved(a) = Dataset(Deref(x), typed, Seen(q))
    BY <2>5, ResolvedAs
  <2>7. Preprocessed(s, e) = [e EXCEPT !.value = y, !.issues = sq]
    BY <1>1, <1>5, <1>6, <2>1 DEF Preprocessed
  <2>8. Preprocessed(s, e) = Dataset(y, typed, sq)
    BY <1>5, <2>7 DEF Dataset
  <2>9. QED  BY <1>1, <1>2, <1>7, <1>8, <2>2, <2>6, <2>8
<1>9. CASE Fails(op)
  <2>1. PICK no \in BOOLEAN : no = FALSE
    OBVIOUS
  <2>2. a = [d EXCEPT !.typed = no, !.issues = q, !.value = v]
    BY <1>1, <1>2, <1>3, <1>6, <1>9, <2>1 DEF PreprocessAsync
  <2>3. a = Dataset(v, no, q)
    BY <1>3, <2>2 DEF Dataset
  <2>4. IsIssues(q) /\ no \in BOOLEAN /\ a = Dataset(v, no, q)
    BY <1>7, <2>1, <2>3
  <2>5. IsDataset(a) /\ a.value = v /\ Resolved(a) = Dataset(Deref(v), no, Seen(q))
    BY <2>4, ResolvedAs
  <2>6. PICK z : z = [e EXCEPT !.typed = no, !.issues = sq]
    OBVIOUS
  <2>7. z = Dataset(w, no, sq)
    BY <1>5, <2>6 DEF Dataset
  <2>8. \A cfg : RunPreprocess(s, e, cfg) = z
    BY <1>1, <1>6, <1>9, <2>1, <2>6 DEF RunPreprocess
  <2>9. QED  BY <1>1, <1>2, <1>4, <1>7, <1>9, <2>5, <2>7, <2>8
<1>10. QED  BY <1>1, <1>8, <1>9

LEMMA PreprocessTakesKeeps ==
  ASSUME config \in Configs, NEW f, IsFrame(f), f.s.type = "preprocess",
         NEW r, Resumed(PreprocessGoesOn(f), r)
  PROVE  Keeps(f, PreprocessTakes(f, r))
<1>1. PICK g, t, d : g = PreprocessGoesOn(f) /\ t = PreprocessTakes(f, r) /\ d = f.loop.data
  OBVIOUS
<1>2. IsDataset(f.d) /\ f.awaited \in Nat /\ PreprocessProgress(f)
  BY PreprocessParts
<1>3. f = FrameOf(f.s, f.d, f.loop, f.awaited, f.outKey, f.keys) /\ IsCall(f.s, f.d)
  BY DEF IsFrame
<1>4. g.step = "run" \/ g.step = "act"
  BY <1>1 DEF Resumed
<1>5. ASSUME NEW x, g = Return(x) PROVE FALSE
  BY <1>4, <1>5, AwaitFields
<1>6. t = TakenWhole(f, r) /\ IsLoopRecord(f.loop)
  BY <1>1, <1>2 DEF PreprocessTakes, PreprocessProgress
<1>7. /\ t = FrameOf(t.s, t.d, t.loop, t.awaited, t.outKey, t.keys) /\ IsLoopRecord(t.loop)
      /\ t.s = f.s /\ t.d = f.d /\ t.awaited = f.awaited + 1 /\ t.loop.data = r
  BY <1>3, <1>6, TakesData
<1>8. PreprocessProgress(t)
  <2>1. CASE f.awaited = 0
    <3>1. PICK act : act = [kind |-> "preprocess", op |-> f.s.op]
      OBVIOUS
    <3>2. g = AwaitUser(act, f.d)
      BY <1>1, <2>1, <3>1 DEF PreprocessGoesOn
    <3>3. r = Acted(act, f.d)
      BY <1>1, <3>2, AwaitFields DEF Resumed
    <3>4. act.kind = "preprocess" /\ act.op = f.s.op
      BY <3>1
    <3>5. r = PreprocessAsync(f.s.op, f.d)
      BY <3>3, <3>4 DEF Acted
    <3>6. t.awaited = 1
      BY <1>7, <2>1
    <3>7. CASE ~ Fails(f.s.op)
      <4>1. IsDataset(r) /\ Resolved(r) = Preprocessed(f.s, Resolved(f.d)) /\ (r.value = Root => f.d.value = Root)
        <5>1. f.s.op.keeps \/ f.s.op.to # Root
          BY <3>7, PreprocessParts
        <5>2. QED  BY <1>2, <3>5, <3>7, <5>1, PreprocessParts, PreprocessedSeen
      <4>2. Holds(t, Preprocessed(t.s, Resolved(t.d)))
        BY <1>7, <4>1 DEF Holds
      <4>3. QED  BY <1>7, <3>6, <3>7, <4>2 DEF PreprocessProgress
    <3>8. CASE Fails(f.s.op)
      <4>1. /\ IsDataset(r) /\ Resolved(r) = RunPreprocess(f.s, Resolved(f.d), config)
            /\ r.value = Root => f.d.value = Root
        <5>1. IsReporter(f.s.op)
          BY PreprocessParts
        <5>2. QED  BY <1>2, <3>5, <3>8, <5>1, PreprocessedSeen
      <4>2. Run(f.s, Resolved(f.d), config) = RunPreprocess(f.s, Resolved(f.d), config)
        BY PreprocessParts
      <4>3. Returns(t.s, t.d, t.loop.data)
        BY <1>7, <4>1, <4>2 DEF Returns
      <4>4. QED  BY <1>7, <3>6, <3>8, <4>3 DEF PreprocessProgress
    <3>9. QED  BY <3>7, <3>8
  <2>2. CASE f.awaited = 1 /\ ~ Fails(f.s.op)
    <3>1. g = Await(f.s.wrapped, d)
      BY <1>1, <2>2 DEF PreprocessGoesOn
    <3>2. Returns(f.s.wrapped, d, r)
      BY <1>1, <3>1, AwaitFields DEF Resumed
    <3>3. Resolved(d) = Preprocessed(f.s, Resolved(f.d)) /\ (d.value = Root => f.d.value = Root)
      BY <1>1, <1>2, <2>2 DEF PreprocessProgress, Holds
    <3>4. Run(f.s, Resolved(f.d), config) = Run(f.s.wrapped, Preprocessed(f.s, Resolved(f.d)), config)
      BY <2>2, PreprocessParts DEF RunPreprocess
    <3>5. Returns(t.s, t.d, t.loop.data)
      BY <1>7, <3>2, <3>3, <3>4 DEF Returns
    <3>6. t.awaited = 2
      BY <1>7, <2>2
    <3>7. QED  BY <1>7, <3>5, <3>6 DEF PreprocessProgress
  <2>3. CASE f.awaited # 0 /\ ~ (f.awaited = 1 /\ ~ Fails(f.s.op))
    <3>1. g = Return(d)
      BY <1>1, <2>3 DEF PreprocessGoesOn
    <3>2. QED  BY <1>5, <3>1
  <2>4. QED  BY <2>1, <2>2, <2>3
<1>9. t.awaited \in Nat
  BY <1>2, <1>7
<1>10. IsFrame(t)
  BY <1>3, <1>7, <1>8, <1>9 DEF IsFrame, AsyncTypes
<1>11. QED  BY <1>1, <1>7, <1>10 DEF Keeps

-----------------------------------------------------------------------------
(* A synchronous schema answers for the async one.                         *)

LEMMA ReferringSeen ==
  ASSUME NEW q, IsIssues(q), \A i \in DOMAIN q : q[i].input # Root
  PROVE  IsIssues(Referring(q)) /\ Seen(Referring(q)) = q
<1>1. Len(q) \in Nat /\ DOMAIN q = 1 .. Len(q) /\ IsList(q)
  BY ListDomain DEF IsIssues
<1>2. PICK u : u = Referring(q)
  OBVIOUS
<1>3. /\ u = [i \in 1 .. Len(q) |-> u[i]]
      /\ \A i \in DOMAIN q : u[i] = [q[i] EXCEPT !.input = IF @ = live THEN Root ELSE @]
  BY <1>1, <1>2 DEF Referring
<1>4. ASSUME NEW i \in DOMAIN q
      PROVE  /\ IsIssue(u[i])
             /\ Issue(u[i].kind, u[i].type, Deref(u[i].input), u[i].severity,
                      u[i].message, u[i].path) = q[i]
  <2>1. PICK e : e = q[i]
    OBVIOUS
  <2>2. e = [kind |-> e.kind, type |-> e.type, input |-> e.input,
             severity |-> e.severity, message |-> e.message, path |-> e.path]
    BY <2>1 DEF IsIssues, IsIssue, Issue
  <2>3. PICK v : v = IF e.input = live THEN Root ELSE e.input
    OBVIOUS
  <2>4. u[i] = [e EXCEPT !.input = v]
    BY <1>3, <2>1, <2>3
  <2>5. u[i] = [kind |-> e.kind, type |-> e.type, input |-> v,
                severity |-> e.severity, message |-> e.message, path |-> e.path]
    BY <2>2, <2>4
  <2>6. Deref(v) = e.input
    BY <2>1, <2>3 DEF Deref
  <2>7. IsIssue(u[i])
    BY <2>5 DEF IsIssue, Issue
  <2>8. Issue(u[i].kind, u[i].type, Deref(u[i].input), u[i].severity, u[i].message, u[i].path) = e
    BY <2>2, <2>5, <2>6 DEF Issue
  <2>9. QED  BY <2>1, <2>7, <2>8
<1>5. u \in Seq(Range(u)) /\ DOMAIN u = DOMAIN q /\ Len(u) = Len(q)
  BY <1>1, <1>3 DEF Range
<1>6. IsIssues(u)
  BY <1>4, <1>5 DEF IsIssues, IsList
<1>7. /\ IsIssues(Seen(u)) /\ Len(Seen(u)) = Len(u)
      /\ \A i \in DOMAIN u : Seen(u)[i] = Issue(u[i].kind, u[i].type, Deref(u[i].input),
                                                u[i].severity, u[i].message, u[i].path)
  BY <1>6, SeenParts
<1>8. \A i \in DOMAIN q : Seen(u)[i] = q[i]
  BY <1>4, <1>5, <1>7
<1>9. IsList(Seen(u)) /\ Len(Seen(u)) = Len(q)
  BY <1>5, <1>7, IssuesAreLists
<1>10. Seen(u) = q
  BY <1>1, <1>8, <1>9, SameList
<1>11. QED  BY <1>2, <1>6, <1>10

LEMMA RanSyncReturns ==
  ASSUME config \in Configs, NEW s, NEW d, IsCall(s, d)
  PROVE  Returns(s, d, RanSync(s, d))
<1>1. IsDataset(d) /\ <<s, Resolved(d)>> \in Calls /\ config \in Modes
  BY ModeParts DEF IsCall, Modes
<1>2. PICK r : r = Run(s, Resolved(d), config)
  OBVIOUS
<1>3. IsDataset(r)
  <2>1. PICK x : x = <<s, Resolved(d)>>
    OBVIOUS
  <2>2. x \in Calls /\ x[1] = s /\ x[2] = Resolved(d)
    BY <1>1, <2>1
  <2>3. Answers(Run(x[1], x[2], config), Run(x[1], x[2], ReportMode), config)
    BY <1>1, <2>2, RunAnswers
  <2>4. QED  BY <1>2, <2>2, <2>3 DEF Answers, Sound
<1>4. r.value # Root /\ \A i \in DOMAIN r.issues : r.issues[i].input # Root
  <2>1. PICK x : x = <<s, Resolved(d)>>
    OBVIOUS
  <2>2. x \in Calls /\ x[1] = s /\ x[2] = Resolved(d)
    BY <1>1, <2>1
  <2>3. IsPlain(Run(x[1], x[2], config))
    BY <2>2, RootAssumption
  <2>4. QED  BY <1>2, <2>2, <2>3 DEF IsPlain
<1>5. PICK v, typed, p : v = r.value /\ typed = r.typed /\ p = r.issues
  OBVIOUS
<1>6. r = [value |-> v, typed |-> typed, issues |-> p] /\ typed \in BOOLEAN /\ IsIssues(p)
  BY <1>3, <1>5, DatasetParts DEF Dataset
<1>7. PICK w : w = IF v = Deref(d.value) THEN d.value ELSE v
  OBVIOUS
<1>8. Deref(w) = v /\ (w = Root => d.value = Root)
  BY <1>4, <1>5, <1>7 DEF Deref
<1>9. PICK q : q = IF IsPlain(d) THEN p ELSE Referring(p)
  OBVIOUS
<1>10. IsIssues(q) /\ Seen(q) = p
  BY <1>4, <1>5, <1>6, <1>9, SeenPlain, ReferringSeen
<1>11. PICK a : a = RanSync(s, d)
  OBVIOUS
<1>12. a = [r EXCEPT !.value = w, !.issues = q]
  BY <1>2, <1>5, <1>7, <1>9, <1>11 DEF RanSync
<1>13. a = Dataset(w, typed, q)
  BY <1>6, <1>12 DEF Dataset
<1>14. IsIssues(q) /\ typed \in BOOLEAN /\ a = Dataset(w, typed, q)
  BY <1>6, <1>10, <1>13
<1>15. IsDataset(a) /\ a.value = w /\ Resolved(a) = Dataset(Deref(w), typed, Seen(q))
  BY <1>14, ResolvedAs
<1>16. Resolved(a) = r
  BY <1>6, <1>8, <1>10, <1>15 DEF Dataset
<1>17. QED  BY <1>2, <1>8, <1>11, <1>15, <1>16 DEF Returns

(* The frame of a call that has just begun                                 *)
Begun(f, s, d) ==
  /\ f = FrameOf(f.s, f.d, f.loop, f.awaited, f.outKey, f.keys)
  /\ f.s = s /\ f.d = d /\ f.awaited = 0 /\ f.loop.aborted = FALSE
  /\ IsLoopRecord(f.loop) /\ GotTo(f, Enter(Resolved(d)))
  /\ s.type = "record" /\ IsObject(Deref(d.value)) =>
       f.keys = [i \in DOMAIN Deref(d.value).own |-> Deref(d.value).own[i][1]]

LEMMA BegunGot ==
  ASSUME NEW s, NEW d, IsDataset(d)
  PROVE  Begun(Frame(s, d), s, d)
<1>1. PICK f, l, n, o : f = Frame(s, d) /\ l = Enter(d) /\ n = 0 /\ o = ""
  OBVIOUS
<1>2. PICK keys : keys = IF s.type = "record" /\ IsObject(Deref(d.value))
                         THEN [i \in DOMAIN Deref(d.value).own |-> Deref(d.value).own[i][1]]
                         ELSE <<>>
  OBVIOUS
<1>3. f = FrameOf(s, d, l, n, o, keys)
  BY <1>1, <1>2 DEF Frame, FrameOf
<1>4. /\ f.s = s /\ f.d = d /\ f.loop = l /\ f.awaited = n /\ f.keys = keys
      /\ f = FrameOf(f.s, f.d, f.loop, f.awaited, f.outKey, f.keys)
  BY <1>3, FrameFields
<1>5. IsLoop(l) /\ SeenLoop(l) = Enter(Resolved(d)) /\ l.data.value = d.value /\ l.aborted = FALSE
  BY <1>1, EnterSeen
<1>6. IsLoopRecord(l)
  BY <1>5 DEF IsLoop, IsLoopRecord
<1>7. GotTo(f, Enter(Resolved(d)))
  BY <1>4, <1>5 DEF GotTo
<1>8. QED  BY <1>1, <1>2, <1>4, <1>5, <1>6, <1>7 DEF Begun

LEMMA FrameBegins ==
  ASSUME config \in Configs, NEW s, NEW d, IsCall(s, d), s.type \in AsyncTypes
  PROVE  Keeps([s |-> s, d |-> d], Frame(s, d))
<1>1. PICK f, e : f = Frame(s, d) /\ e = Resolved(d)
  OBVIOUS
<1>2. PICK start : start = Enter(e)
  OBVIOUS
<1>3. /\ IsDataset(d) /\ e.value = Deref(d.value) /\ IsSchema(s) /\ IsValue(e.value)
  BY <1>1, CallParts
<1>4. /\ f = FrameOf(f.s, f.d, f.loop, f.awaited, f.outKey, f.keys)
      /\ f.s = s /\ f.d = d /\ f.awaited = 0 /\ f.loop.aborted = FALSE
      /\ IsLoopRecord(f.loop) /\ GotTo(f, start)
      /\ s.type = "record" /\ IsObject(e.value) =>
           f.keys = [i \in DOMAIN e.value.own |-> e.value.own[i][1]]
  <2>1. Begun(f, s, d)
    BY <1>1, <1>3, BegunGot
  <2>2. GotTo(f, start)
    BY <1>1, <1>2, <2>1 DEF Begun
  <2>3. s.type = "record" /\ IsObject(e.value) =>
           f.keys = [i \in DOMAIN e.value.own |-> e.value.own[i][1]]
    BY <1>1, <1>3, <2>1 DEF Begun
  <2>4. QED  BY <1>1, <2>1, <2>2, <2>3 DEF Begun
<1>5. IsObject(e.value) => Own(f) = e.value.own /\ Len(e.value.own) \in Nat
  BY <1>3, <1>4, ListDomain DEF Own, IsValue
<1>6. ASSUME NEW places, IsList(places)
      PROVE  f.awaited <= Len(places) /\ GotTo(f, VisitedBy(f, places)[f.awaited])
  <2>1. Len(places) \in Nat
    BY <1>6, ListDomain
  <2>2. Visits(start, places, config)[0] = start
    BY <2>1, VisitsLoop
  <2>3. VisitedBy(f, places)[0] = start
    BY <1>1, <1>2, <1>4, <2>2 DEF VisitedBy
  <2>4. QED  BY <1>4, <2>1, <2>3
<1>7. s.type = "object" => ObjectProgress(f)
  <2>1. SUFFICES ASSUME s.type = "object", IsObject(e.value) PROVE ObjectProgress(f)
    BY <1>3, <1>4 DEF ObjectProgress
  <2>2. PICK places : places = KeyPlaces(s, Own(f))
    OBVIOUS
  <2>3. IsList(places)
    BY <1>3, <2>1, <2>2, KeyPlacesList DEF IsSchema
  <2>4. QED  BY <1>4, <1>6, <2>2, <2>3 DEF ObjectProgress
<1>8. s.type = "array" => ArrayProgress(f)
  <2>1. SUFFICES ASSUME s.type = "array", IsArray(e.value) PROVE ArrayProgress(f)
    BY <1>3, <1>4 DEF ArrayProgress
  <2>2. PICK items : items = Elements(f)
    OBVIOUS
  <2>3. IsList(items)
    BY <1>3, <1>4, <2>1, <2>2 DEF Elements, IsValue
  <2>4. PICK places : places = ArrayPlaces(s, items)
    OBVIOUS
  <2>5. IsList(places)
    BY <2>3, <2>4, ItemPlacesList DEF ArrayPlaces
  <2>6. QED  BY <1>4, <1>6, <2>2, <2>4, <2>5 DEF ArrayProgress
<1>9. s.type = "record" => RecordProgress(f)
  <2>1. SUFFICES ASSUME s.type = "record", IsObject(e.value) PROVE RecordProgress(f)
    BY <1>3, <1>4 DEF RecordProgress
  <2>2. PICK own, after : own = Own(f) /\ after = RecordVisits(start, s, own, config)
    OBVIOUS
  <2>3. own = e.value.own /\ Len(own) \in Nat
    BY <1>5, <2>1, <2>2
  <2>4. after[0] = start
    BY <2>2, <2>3, RecordVisitsLoop
  <2>5. PICK n : n = 0
    OBVIOUS
  <2>6. n \in 0 .. Len(own) /\ f.awaited = 2 * n /\ GotTo(f, after[n])
    BY <1>4, <2>3, <2>4, <2>5
  <2>7. f.keys = [i \in DOMAIN own |-> own[i][1]]
    BY <1>4, <2>1, <2>3
  <2>8. QED  BY <1>1, <1>2, <1>4, <2>2, <2>6, <2>7 DEF RecordProgress
<1>10. s.type = "union" => UnionProgress(f)
  <2>1. SUFFICES ASSUME s.type = "union" PROVE UnionProgress(f)
    OBVIOUS
  <2>2. Len(s.kids) \in Nat
    BY <1>3, <2>1, ListDomain DEF IsSchema
  <2>3. f.awaited <= Len(s.kids) /\ 1 .. f.awaited = {} /\ f.loop.aborted \in BOOLEAN
    <3>1. PICK n, most : n = f.awaited /\ most = Len(s.kids)
      OBVIOUS
    <3>2. n = 0 /\ most \in Nat
      BY <1>4, <2>2, <3>1
    <3>3. n <= most /\ 1 .. n = {}
      BY <3>2
    <3>4. QED  BY <1>4, <3>1, <3>3
  <2>4. \A i \in 1 .. f.awaited : ~ Matches(Run(s.kids[i], Fresh(Deref(d.value)), config))
    BY <2>3
  <2>5. QED  BY <1>4, <2>3, <2>4 DEF UnionProgress
<1>11. DiscriminatedProgress(f) /\ PipeProgress(f) /\ PreprocessProgress(f)
  BY <1>4 DEF DiscriminatedProgress, PipeProgress, PreprocessProgress
<1>12. IsFrame(f)
  BY <1>4, <1>7, <1>8, <1>9, <1>10, <1>11 DEF IsFrame
<1>13. QED  BY <1>1, <1>4, <1>12 DEF Keeps

LEMMA FrameGoes ==
  ASSUME config \in Configs, NEW f, IsFrame(f)
  PROVE  Moves(f, GoesOn(f))
<1>1. f.s.type \in AsyncTypes
  BY DEF IsFrame
<1>2. CASE f.s.type = "object"
  BY <1>2, ObjectGoes DEF GoesOn
<1>3. CASE f.s.type = "array"
  BY <1>3, ArrayGoes DEF GoesOn
<1>4. CASE f.s.type = "record"
  BY <1>4, RecordGoes DEF GoesOn
<1>5. CASE f.s.type = "union"
  BY <1>5, UnionGoes DEF GoesOn
<1>6. CASE f.s.type = "discriminated_union"
  BY <1>6, DiscriminatedGoes DEF GoesOn
<1>7. CASE f.s.type = "pipe"
  BY <1>7, PipeGoes DEF GoesOn
<1>8. CASE f.s.type = "preprocess"
  BY <1>8, PreprocessGoes DEF GoesOn
<1>9. QED  BY <1>1, <1>2, <1>3, <1>4, <1>5, <1>6, <1>7, <1>8 DEF AsyncTypes

LEMMA FrameTakes ==
  ASSUME config \in Configs, NEW f, IsFrame(f), NEW r, Resumed(GoesOn(f), r)
  PROVE  Keeps(f, Takes(f, r))
<1>1. f.s.type \in AsyncTypes
  BY DEF IsFrame
<1>2. CASE f.s.type = "object"
  <2>1. GoesOn(f) = ObjectGoesOn(f) /\ Takes(f, r) = ObjectTakes(f, r)
    BY <1>2 DEF GoesOn, Takes
  <2>2. QED  BY <1>2, <2>1, ObjectTakesKeeps
<1>3. CASE f.s.type = "array"
  <2>1. GoesOn(f) = ArrayGoesOn(f) /\ Takes(f, r) = ArrayTakes(f, r)
    BY <1>3 DEF GoesOn, Takes
  <2>2. QED  BY <1>3, <2>1, ArrayTakesKeeps
<1>4. CASE f.s.type = "record"
  <2>1. GoesOn(f) = RecordGoesOn(f) /\ Takes(f, r) = RecordTakes(f, r)
    BY <1>4 DEF GoesOn, Takes
  <2>2. QED  BY <1>4, <2>1, RecordTakesKeeps
<1>5. CASE f.s.type = "union"
  <2>1. GoesOn(f) = UnionGoesOn(f) /\ Takes(f, r) = UnionTakes(f, r)
    BY <1>5 DEF GoesOn, Takes
  <2>2. QED  BY <1>5, <2>1, UnionTakesKeeps
<1>6. CASE f.s.type = "discriminated_union"
  <2>1. GoesOn(f) = DiscriminatedGoesOn(f) /\ Takes(f, r) = DiscriminatedTakes(f, r)
    BY <1>6 DEF GoesOn, Takes
  <2>2. QED  BY <1>6, <2>1, DiscriminatedTakesKeeps
<1>7. CASE f.s.type = "pipe"
  <2>1. GoesOn(f) = PipeGoesOn(f) /\ Takes(f, r) = PipeTakes(f, r)
    BY <1>7 DEF GoesOn, Takes
  <2>2. QED  BY <1>7, <2>1, PipeTakesKeeps
<1>8. CASE f.s.type = "preprocess"
  <2>1. GoesOn(f) = PreprocessGoesOn(f) /\ Takes(f, r) = PreprocessTakes(f, r)
    BY <1>8 DEF GoesOn, Takes
  <2>2. QED  BY <1>8, <2>1, PreprocessTakesKeeps
<1>9. QED  BY <1>1, <1>2, <1>3, <1>4, <1>5, <1>6, <1>7, <1>8 DEF AsyncTypes

-----------------------------------------------------------------------------
(* What a frame is depends on the caller's value and the configuration.    *)

LEMMA DerefKept ==
  ASSUME live' = live, NEW v
  PROVE  Deref(v)' = Deref(v)
BY DEF Deref

LEMMA ResolvedKept ==
  ASSUME live' = live, NEW d
  PROVE  Resolved(d)' = Resolved(d)
<1>1. Seen(d.issues)' = Seen(d.issues)
  BY DerefKept DEF Seen
<1>2. QED  BY <1>1, DerefKept DEF Resolved

LEMMA ReturnsKept ==
  ASSUME live' = live, config' = config, NEW s, NEW d
  PROVE  /\ IsCall(s, d)' <=> IsCall(s, d)
         /\ \A r : Returns(s, d, r)' <=> Returns(s, d, r)
<1>1. IsCall(s, d)' <=> IsCall(s, d)
  BY ResolvedKept DEF IsCall
<1>2. ASSUME NEW r
      PROVE  Returns(s, d, r)' <=> Returns(s, d, r)
  BY ResolvedKept DEF Returns
<1>3. QED  BY <1>1, <1>2

LEMMA GotToKept ==
  ASSUME live' = live, NEW f, NEW loop
  PROVE  GotTo(f, loop)' <=> GotTo(f, loop)
<1>1. SeenLoop(f.loop)' = SeenLoop(f.loop)
  BY ResolvedKept DEF SeenLoop
<1>2. QED  BY <1>1 DEF GotTo

LEMMA VisitedByKept ==
  ASSUME live' = live, config' = config, NEW f, NEW places
  PROVE  VisitedBy(f, places)' = VisitedBy(f, places)
<1>1. Resolved(f.d)' = Resolved(f.d)
  BY ResolvedKept
<1>2. QED  BY <1>1 DEF VisitedBy

LEMMA ObjectProgressKept ==
  ASSUME live' = live, config' = config, NEW f
  PROVE  ObjectProgress(f)' <=> ObjectProgress(f)
<1>1. PICK v, own, places : /\ v = Deref(f.d.value) /\ own = Own(f)
                            /\ places = KeyPlaces(f.s, own)
  OBVIOUS
<1>2. Deref(f.d.value)' = v /\ Own(f)' = own
  BY <1>1, DerefKept DEF Own
<1>3. KeyPlaces(f.s, Own(f))' = places
  BY <1>1, <1>2
<1>4. PICK after : after = VisitedBy(f, places)
  OBVIOUS
<1>5. VisitedBy(f, places)' = after
  BY <1>4, VisitedByKept
<1>6. GotTo(f, after[f.awaited])' <=> GotTo(f, after[f.awaited])
  BY GotToKept
<1>7. QED  BY <1>1, <1>2, <1>3, <1>4, <1>5, <1>6 DEF ObjectProgress

LEMMA ArrayProgressKept ==
  ASSUME live' = live, config' = config, NEW f
  PROVE  ArrayProgress(f)' <=> ArrayProgress(f)
<1>1. PICK v, items, places : /\ v = Deref(f.d.value) /\ items = Elements(f)
                              /\ places = ArrayPlaces(f.s, items)
  OBVIOUS
<1>2. Deref(f.d.value)' = v /\ Elements(f)' = items
  BY <1>1, DerefKept DEF Elements
<1>3. ArrayPlaces(f.s, Elements(f))' = places
  BY <1>1, <1>2
<1>4. PICK after : after = VisitedBy(f, places)
  OBVIOUS
<1>5. VisitedBy(f, places)' = after
  BY <1>4, VisitedByKept
<1>6. GotTo(f, after[f.awaited])' <=> GotTo(f, after[f.awaited])
  BY GotToKept
<1>7. QED  BY <1>1, <1>2, <1>3, <1>4, <1>5, <1>6 DEF ArrayProgress

LEMMA RecordProgressKept ==
  ASSUME live' = live, config' = config, NEW f
  PROVE  RecordProgress(f)' <=> RecordProgress(f)
<1>1. PICK v, own, after : /\ v = Deref(f.d.value) /\ own = Own(f)
                           /\ after = RecordVisits(Enter(Resolved(f.d)), f.s, own, config)
  OBVIOUS
<1>2. Deref(f.d.value)' = v /\ Own(f)' = own
  BY <1>1, DerefKept DEF Own
<1>3. Resolved(f.d)' = Resolved(f.d)
  BY ResolvedKept
<1>4. RecordVisits(Enter(Resolved(f.d)), f.s, Own(f), config)' = after
  BY <1>1, <1>2, <1>3
<1>5. \A loop : GotTo(f, loop)' <=> GotTo(f, loop)
  BY GotToKept
<1>6. QED  BY <1>1, <1>2, <1>4, <1>5 DEF RecordProgress

LEMMA UnionProgressKept ==
  ASSUME live' = live, config' = config, NEW f
  PROVE  UnionProgress(f)' <=> UnionProgress(f)
<1>1. Deref(f.d.value)' = Deref(f.d.value)
  BY DerefKept
<1>2. Returns(f.s, f.d, f.loop.data)' <=> Returns(f.s, f.d, f.loop.data)
  BY ReturnsKept
<1>3. QED  BY <1>1, <1>2 DEF UnionProgress

LEMMA HoldsKept ==
  ASSUME live' = live, NEW f, NEW d
  PROVE  Holds(f, d)' <=> Holds(f, d)
<1>1. Resolved(f.loop.data)' = Resolved(f.loop.data)
  BY ResolvedKept
<1>2. QED  BY <1>1 DEF Holds

LEMMA PipeProgressKept ==
  ASSUME live' = live, config' = config, NEW f
  PROVE  PipeProgress(f)' <=> PipeProgress(f)
<1>1. PICK d, after : /\ d = Resolved(f.d)
                      /\ after = ActsInTurn(Run(f.s.wrapped, d, config), f.s.ops, config)
  OBVIOUS
<1>2. Resolved(f.d)' = d
  BY <1>1, ResolvedKept
<1>3. Holds(f, after[f.awaited - 1])' <=> Holds(f, after[f.awaited - 1])
  BY HoldsKept
<1>4. QED  BY <1>1, <1>2, <1>3 DEF PipeProgress

LEMMA PreprocessProgressKept ==
  ASSUME live' = live, config' = config, NEW f
  PROVE  PreprocessProgress(f)' <=> PreprocessProgress(f)
<1>1. PICK d, e : d = Resolved(f.d) /\ e = Preprocessed(f.s, d)
  OBVIOUS
<1>2. Resolved(f.d)' = d
  BY <1>1, ResolvedKept
<1>3. Holds(f, e)' <=> Holds(f, e)
  BY HoldsKept
<1>4. Returns(f.s, f.d, f.loop.data)' <=> Returns(f.s, f.d, f.loop.data)
  BY ReturnsKept
<1>5. QED  BY <1>1, <1>2, <1>3, <1>4 DEF PreprocessProgress

LEMMA IsFrameKept ==
  ASSUME live' = live, config' = config, NEW f
  PROVE  IsFrame(f)' <=> IsFrame(f)
<1>1. /\ IsCall(f.s, f.d)' <=> IsCall(f.s, f.d)
      /\ Returns(f.s, f.d, f.loop.data)' <=> Returns(f.s, f.d, f.loop.data)
  BY ReturnsKept
<1>2. DiscriminatedProgress(f)' <=> DiscriminatedProgress(f)
  BY <1>1 DEF DiscriminatedProgress
<1>3. /\ ObjectProgress(f)' <=> ObjectProgress(f)
      /\ ArrayProgress(f)' <=> ArrayProgress(f)
      /\ RecordProgress(f)' <=> RecordProgress(f)
      /\ UnionProgress(f)' <=> UnionProgress(f)
      /\ PipeProgress(f)' <=> PipeProgress(f)
      /\ PreprocessProgress(f)' <=> PreprocessProgress(f)
  BY ObjectProgressKept, ArrayProgressKept, RecordProgressKept, UnionProgressKept,
     PipeProgressKept, PreprocessProgressKept
<1>4. QED  BY <1>1, <1>2, <1>3 DEF IsFrame

LEMMA GoesOnKept ==
  ASSUME live' = live, config' = config, NEW f
  PROVE  GoesOn(f)' = GoesOn(f)
<1>1. /\ Deref(f.d.value)' = Deref(f.d.value)
      /\ Own(f)' = Own(f) /\ Elements(f)' = Elements(f)
  BY DerefKept DEF Own, Elements
<1>2. ObjectGoesOn(f)' = ObjectGoesOn(f)
  BY <1>1 DEF ObjectGoesOn
<1>3. ArrayGoesOn(f)' = ArrayGoesOn(f)
  BY <1>1 DEF ArrayGoesOn
<1>4. RecordGoesOn(f)' = RecordGoesOn(f)
  BY <1>1 DEF RecordGoesOn
<1>5. UnionGoesOn(f)' = UnionGoesOn(f)
  BY DEF UnionGoesOn
<1>6. DiscriminatedGoesOn(f)' = DiscriminatedGoesOn(f)
  BY <1>1 DEF DiscriminatedGoesOn
<1>7. PipeGoesOn(f)' = PipeGoesOn(f)
  BY DEF PipeGoesOn
<1>8. PreprocessGoesOn(f)' = PreprocessGoesOn(f)
  BY DEF PreprocessGoesOn
<1>9. QED  BY <1>2, <1>3, <1>4, <1>5, <1>6, <1>7, <1>8 DEF GoesOn

-----------------------------------------------------------------------------
(* The stack: every frame runs the call that the frame below it awaits.    *)

Asked(q, k) == IF k = 0 THEN Await(schema, Fresh(Reference(input))) ELSE GoesOn(q[k])
IsStack(q) ==
  /\ IsList(q)
  /\ \A k \in DOMAIN q : IsFrame(q[k]) /\ Asked(q, k - 1) = Await(q[k].s, q[k].d)
Consistent(q, n) ==
  /\ IsStack(q)
  /\ \/ n.step = "call" /\ q = <<>>
     \/ n.step \in {"run", "act"} /\ n = Asked(q, Len(q))
     \/ n.step = "return" /\ Resumed(Asked(q, Len(q)), n.d)
     \/ n.step = "rest" /\ n.d = Run(schema, Fresh(input), config)

LEMMA ConsistentKept ==
  ASSUME UNCHANGED <<schema, input, config, live>>, NEW q, NEW n
  PROVE  Consistent(q, n)' <=> Consistent(q, n)
<1>1. ASSUME NEW k
      PROVE  Asked(q, k)' = Asked(q, k)
  <2>1. GoesOn(q[k])' = GoesOn(q[k])
    BY GoesOnKept
  <2>2. QED  BY <2>1 DEF Asked
<1>2. ASSUME NEW k
      PROVE  IsFrame(q[k])' <=> IsFrame(q[k])
  BY IsFrameKept
<1>3. IsStack(q)' <=> IsStack(q)
  BY <1>1, <1>2 DEF IsStack
<1>4. PICK g : g = Asked(q, Len(q))
  OBVIOUS
<1>5. Asked(q, Len(q))' = g
  BY <1>1, <1>4
<1>6. Returns(g.s, g.d, n.d)' <=> Returns(g.s, g.d, n.d)
  BY ReturnsKept
<1>7. Acted(g.s, g.d)' = Acted(g.s, g.d)
  <2>1. CheckAsync(g.s, g.d)' = CheckAsync(g.s, g.d)
    BY DerefKept DEF CheckAsync
  <2>2. QED  BY <2>1 DEF Acted
<1>8. Resumed(g, n.d)' <=> Resumed(g, n.d)
  BY <1>6, <1>7 DEF Resumed
<1>9. QED  BY <1>3, <1>4, <1>5, <1>8 DEF Consistent

LEMMA FramePushed ==
  ASSUME NEW q, IsList(q), NEW f
  PROVE  /\ IsList(Append(q, f)) /\ Len(Append(q, f)) = Len(q) + 1
         /\ DOMAIN Append(q, f) = 1 .. Len(q) + 1 /\ Len(q) \in Nat
         /\ \A i \in 1 .. Len(q) : Append(q, f)[i] = q[i]
         /\ Append(q, f)[Len(q) + 1] = f
<1>1. PICK S : q \in Seq(S)
  BY DEF IsList
<1>2. PICK U : U = S \cup {f}
  OBVIOUS
<1>3. q \in Seq(U) /\ f \in U
  BY <1>1, <1>2
<1>4. PICK t : t = Append(q, f)
  OBVIOUS
<1>5. /\ t \in Seq(U) /\ Len(t) = Len(q) + 1 /\ Len(q) \in Nat
      /\ \A i \in 1 .. Len(q) : t[i] = q[i]
      /\ t[Len(q) + 1] = f
  BY <1>3, <1>4, AppendProperties
<1>6. DOMAIN t = 1 .. Len(q) + 1
  BY <1>5
<1>7. t \in Seq(Range(t))
  BY <1>5 DEF Range
<1>8. QED  BY <1>4, <1>5, <1>6, <1>7 DEF IsList

LEMMA FramePopped ==
  ASSUME NEW q, IsList(q), q # <<>>
  PROVE  /\ IsList(Front(q)) /\ Len(q) \in Nat /\ Len(q) > 0
         /\ Len(Front(q)) = Len(q) - 1 /\ DOMAIN Front(q) = 1 .. Len(q) - 1
         /\ \A i \in 1 .. Len(q) - 1 : Front(q)[i] = q[i]
         /\ Last(q) = q[Len(q)] /\ Len(q) \in DOMAIN q
<1>1. q \in Seq(Range(q))
  BY DEF IsList
<1>2. Len(q) \in Nat /\ Len(q) > 0 /\ DOMAIN q = 1 .. Len(q)
  BY <1>1
<1>3. PICK t : t = Front(q)
  OBVIOUS
<1>4. t = [i \in 1 .. Len(q) - 1 |-> q[i]]
  BY <1>1, <1>2, <1>3 DEF Front
<1>5. t \in Seq(Range(q))
  BY <1>1, <1>2, <1>4
<1>6. Len(t) = Len(q) - 1 /\ DOMAIN t = 1 .. Len(q) - 1 /\ \A i \in 1 .. Len(q) - 1 : t[i] = q[i]
  BY <1>2, <1>4, <1>5
<1>7. t \in Seq(Range(t))
  BY <1>5 DEF Range
<1>8. QED  BY <1>2, <1>3, <1>6, <1>7 DEF IsList, Last

(* The call of the caller, on the reference to his value                    *)
LEMMA CallerCall ==
  ASSUME CInv, live = input
  PROVE  LET d == Fresh(Reference(input))
         IN  IsCall(schema, d) /\ Resolved(d) = Fresh(input)
<1>1. PICK v, d : v = Reference(input) /\ d = Fresh(v)
  OBVIOUS
<1>2. PICK x : x = <<schema, Fresh(input)>>
  OBVIOUS
<1>3. schema \in Schemas /\ input \in Inputs
  BY DEF CInv
<1>4. x \in Calls
  BY <1>2, <1>3, CallersAssumption
<1>5. x[2] = Fresh(input) /\ Fresh(input).value = input
  BY <1>2, FreshSeen
<1>6. input # Root
  BY <1>4, <1>5, RootAssumption DEF IsPlain
<1>7. Deref(v) = input
  BY <1>1, <1>6 DEF Deref, Reference
<1>8. IsDataset(d) /\ Resolved(d) = Fresh(input)
  BY <1>1, <1>7, FreshSeen
<1>9. QED  BY <1>1, <1>2, <1>4, <1>8 DEF IsCall

(* What is run is a call the runtime takes.                                *)
LEMMA AskedCall ==
  ASSUME CInv, live = input, NEW q, IsStack(q), NEW g, g = Asked(q, Len(q)), g.step = "run"
  PROVE  g = Await(g.s, g.d) /\ IsCall(g.s, g.d)
<1>1. Len(q) \in Nat /\ DOMAIN q = 1 .. Len(q)
  BY ListDomain DEF IsStack
<1>2. schema \in Schemas /\ input \in Inputs /\ config \in Configs
  BY DEF CInv
<1>3. CASE Len(q) = 0
  <2>1. PICK d : d = Fresh(Reference(input))
    OBVIOUS
  <2>2. g = Await(schema, d)
    BY <1>3, <2>1 DEF Asked
  <2>3. g.s = schema /\ g.d = d
    BY <2>2 DEF Await
  <2>4. IsCall(schema, d)
    BY <1>2, <2>1, CallerCall
  <2>5. QED  BY <2>2, <2>3, <2>4
<1>4. CASE Len(q) # 0
  <2>1. PICK f : f = q[Len(q)]
    OBVIOUS
  <2>2. IsFrame(f)
    BY <1>1, <1>4, <2>1 DEF IsStack
  <2>3. g = GoesOn(f)
    BY <1>4, <2>1 DEF Asked
  <2>4. Moves(f, g)
    BY <1>2, <2>2, <2>3, FrameGoes
  <2>5. QED  BY <2>4 DEF Moves
<1>5. QED  BY <1>3, <1>4

-----------------------------------------------------------------------------
(* The steps of an async call                                              *)

LEMMA FrameContinues ==
  ASSUME CInv, NEW q, IsStack(q), NEW f, IsFrame(f), Asked(q, Len(q)) = Await(f.s, f.d)
  PROVE  Consistent(IF GoesOn(f).step = "return" THEN q ELSE Append(q, f), GoesOn(f))
<1>1. PICK n : n = GoesOn(f)
  OBVIOUS
<1>2. Moves(f, n)
  BY <1>1, FrameGoes DEF CInv
<1>3. CASE n.step = "return"
  <2>1. Returns(f.s, f.d, n.d)
    BY <1>2, <1>3 DEF Moves
  <2>2. PICK g : g = Asked(q, Len(q))
    OBVIOUS
  <2>3. g.step = "run" /\ g.s = f.s /\ g.d = f.d
    BY <2>2 DEF Await
  <2>4. Resumed(g, n.d)
    BY <2>1, <2>3 DEF Resumed
  <2>5. Consistent(q, n)
    BY <1>3, <2>2, <2>4 DEF Consistent
  <2>6. QED  BY <1>1, <1>3, <2>5
<1>4. CASE n.step # "return"
  <2>1. PICK t, m : t = Append(q, f) /\ m = Len(q) + 1
    OBVIOUS
  <2>2. /\ IsList(t) /\ Len(t) = m /\ DOMAIN t = 1 .. m /\ Len(q) \in Nat /\ DOMAIN q = 1 .. Len(q)
        /\ \A i \in 1 .. Len(q) : t[i] = q[i]
        /\ t[m] = f
    BY <2>1, FramePushed, ListDomain DEF IsStack
  <2>3. \A k \in 0 .. Len(q) : Asked(t, k) = Asked(q, k)
    BY <2>2 DEF Asked
  <2>4. ASSUME NEW k \in DOMAIN t
        PROVE  IsFrame(t[k]) /\ Asked(t, k - 1) = Await(t[k].s, t[k].d)
    <3>1. CASE k = m
      <4>1. k - 1 = Len(q) /\ Len(q) \in 0 .. Len(q)
        BY <2>1, <2>2, <3>1
      <4>2. QED  BY <2>2, <2>3, <3>1, <4>1
    <3>2. CASE k # m
      <4>1. k \in 1 .. Len(q) /\ k - 1 \in 0 .. Len(q)
        BY <2>1, <2>2, <3>2
      <4>2. k \in DOMAIN q /\ t[k] = q[k] /\ Asked(t, k - 1) = Asked(q, k - 1)
        BY <2>2, <2>3, <4>1
      <4>3. QED  BY <4>2 DEF IsStack
    <3>3. QED  BY <3>1, <3>2
  <2>5. IsStack(t)
    BY <2>2, <2>4 DEF IsStack
  <2>6. Asked(t, Len(t)) = n
    BY <1>1, <2>1, <2>2 DEF Asked
  <2>7. n.step \in {"run", "act"}
    BY <1>2, <1>4 DEF Moves
  <2>8. Consistent(t, n)
    BY <2>5, <2>6, <2>7 DEF Consistent
  <2>9. QED  BY <1>1, <1>4, <2>1, <2>8
<1>5. QED  BY <1>3, <1>4

LEMMA StackPopped ==
  ASSUME NEW q, IsStack(q), q # <<>>
  PROVE  /\ IsStack(Front(q)) /\ IsFrame(Last(q)) /\ Asked(q, Len(q)) = GoesOn(Last(q))
         /\ Asked(Front(q), Len(Front(q))) = Await(Last(q).s, Last(q).d)
<1>1. PICK t, f, m : t = Front(q) /\ f = Last(q) /\ m = Len(q) - 1
  OBVIOUS
<1>2. /\ IsList(t) /\ Len(q) \in Nat /\ Len(q) > 0 /\ Len(t) = m /\ DOMAIN t = 1 .. m
      /\ \A i \in 1 .. m : t[i] = q[i]
      /\ f = q[Len(q)] /\ Len(q) \in DOMAIN q /\ DOMAIN q = 1 .. Len(q)
  BY <1>1, FramePopped, ListDomain DEF IsStack
<1>3. \A k \in 0 .. m : Asked(t, k) = Asked(q, k)
  BY <1>1, <1>2 DEF Asked
<1>4. ASSUME NEW k \in DOMAIN t
      PROVE  IsFrame(t[k]) /\ Asked(t, k - 1) = Await(t[k].s, t[k].d)
  <2>1. k \in DOMAIN q /\ k - 1 \in 0 .. m /\ t[k] = q[k]
    BY <1>1, <1>2
  <2>2. QED  BY <1>3, <2>1 DEF IsStack
<1>5. IsStack(t)
  BY <1>2, <1>4 DEF IsStack
<1>6. IsFrame(f) /\ Asked(q, m) = Await(f.s, f.d)
  BY <1>1, <1>2 DEF IsStack
<1>7. Asked(q, Len(q)) = GoesOn(f)
  BY <1>2 DEF Asked
<1>8. Asked(t, m) = Asked(q, m)
  <2>1. m \in 0 .. m
    BY <1>1, <1>2
  <2>2. QED  BY <1>3, <2>1
<1>9. QED  BY <1>1, <1>2, <1>5, <1>6, <1>7, <1>8

LEMMA StepKeeps ==
  ASSUME CInv, live = input, NEW q, NEW n, Consistent(q, n)
  PROVE  /\ n.step = "call" => Consistent(q, Await(schema, Fresh(Reference(input))))
         /\ n.step = "run" /\ n.s.type \notin AsyncTypes =>
              Consistent(q, Return(RanSync(n.s, n.d)))
         /\ n.step = "run" /\ n.s.type \in AsyncTypes =>
              LET f == Frame(n.s, n.d)
              IN  Consistent(IF GoesOn(f).step = "return" THEN q ELSE Append(q, f), GoesOn(f))
         /\ n.step = "act" => Consistent(q, Return(Acted(n.s, n.d)))
         /\ n.step = "return" /\ q # <<>> =>
              LET f == Takes(Last(q), n.d)
              IN  Consistent(IF GoesOn(f).step = "return" THEN Front(q) ELSE Append(Front(q), f),
                             GoesOn(f))
         /\ n.step = "return" /\ q = <<>> =>
              Consistent(q, [step |-> "rest", d |-> Resolved(n.d)])
<1>1. IsStack(q) /\ config \in Configs
  BY DEF Consistent, CInv
<1>2. PICK g : g = Asked(q, Len(q))
  OBVIOUS
<1>3. CASE n.step = "call"
  <2>1. PICK d : d = Fresh(Reference(input))
    OBVIOUS
  <2>2. q = <<>>
    BY <1>3 DEF Consistent
  <2>3. Asked(q, Len(q)) = Await(schema, d) /\ Await(schema, d).step = "run"
    BY <2>1, <2>2 DEF Asked, Await
  <2>4. Consistent(q, Await(schema, d))
    BY <1>1, <2>3 DEF Consistent
  <2>5. QED  BY <1>3, <2>1, <2>4
<1>4. CASE n.step = "run"
  <2>1. n = g
    BY <1>2, <1>4 DEF Consistent
  <2>2. g = Await(n.s, n.d) /\ IsCall(n.s, n.d)
    BY <1>1, <1>2, <1>4, <2>1, AskedCall
  <2>3. CASE n.s.type \notin AsyncTypes
    <3>1. PICK r, e : r = RanSync(n.s, n.d) /\ e = Return(r)
      OBVIOUS
    <3>2. Returns(n.s, n.d, r)
      BY <1>1, <2>2, <3>1, RanSyncReturns
    <3>3. e.step = "return" /\ e.d = r
      BY <3>1 DEF Return
    <3>4. Resumed(g, e.d)
      BY <1>4, <2>1, <3>2, <3>3 DEF Resumed
    <3>5. Consistent(q, e)
      BY <1>1, <1>2, <3>3, <3>4 DEF Consistent
    <3>6. QED  BY <1>4, <2>3, <3>1, <3>5
  <2>4. CASE n.s.type \in AsyncTypes
    <3>1. PICK f : f = Frame(n.s, n.d)
      OBVIOUS
    <3>2. Keeps([s |-> n.s, d |-> n.d], f)
      BY <1>1, <2>2, <2>4, <3>1, FrameBegins
    <3>3. IsFrame(f) /\ f.s = n.s /\ f.d = n.d
      BY <3>2 DEF Keeps
    <3>4. Consistent(IF GoesOn(f).step = "return" THEN q ELSE Append(q, f), GoesOn(f))
      BY <1>1, <1>2, <2>2, <3>3, FrameContinues
    <3>5. QED  BY <1>4, <2>4, <3>1, <3>4
  <2>5. QED  BY <2>3, <2>4
<1>5. CASE n.step = "act"
  <2>1. PICK r, e : r = Acted(n.s, n.d) /\ e = Return(r)
    OBVIOUS
  <2>2. n = g
    BY <1>2, <1>5 DEF Consistent
  <2>3. e.step = "return" /\ e.d = r
    BY <2>1 DEF Return
  <2>4. Resumed(g, e.d)
    BY <1>5, <2>1, <2>2, <2>3 DEF Resumed
  <2>5. Consistent(q, e)
    BY <1>1, <1>2, <2>3, <2>4 DEF Consistent
  <2>6. QED  BY <1>5, <2>1, <2>5
<1>6. CASE n.step = "return" /\ q # <<>>
  <2>1. PICK l, below : l = Last(q) /\ below = Front(q)
    OBVIOUS
  <2>2. /\ IsStack(below) /\ IsFrame(l) /\ g = GoesOn(l)
        /\ Asked(below, Len(below)) = Await(l.s, l.d)
    BY <1>1, <1>2, <1>6, <2>1, StackPopped
  <2>3. Resumed(g, n.d)
    BY <1>2, <1>6 DEF Consistent
  <2>4. PICK f : f = Takes(l, n.d)
    OBVIOUS
  <2>5. Keeps(l, f)
    BY <1>1, <2>2, <2>3, <2>4, FrameTakes
  <2>6. IsFrame(f) /\ Asked(below, Len(below)) = Await(f.s, f.d)
    BY <2>2, <2>5 DEF Keeps
  <2>7. Consistent(IF GoesOn(f).step = "return" THEN below ELSE Append(below, f), GoesOn(f))
    BY <2>2, <2>6, FrameContinues
  <2>8. QED  BY <1>6, <2>1, <2>4, <2>7
<1>7. CASE n.step = "return" /\ q = <<>>
  <2>1. PICK d, e : d = Fresh(Reference(input)) /\ e = [step |-> "rest", d |-> Resolved(n.d)]
    OBVIOUS
  <2>2. g = Await(schema, d)
    BY <1>2, <1>7, <2>1 DEF Asked
  <2>3. g.step = "run" /\ g.s = schema /\ g.d = d
    BY <2>2 DEF Await
  <2>4. Resumed(g, n.d)
    BY <1>2, <1>7 DEF Consistent
  <2>5. Resolved(n.d) = Run(schema, Resolved(d), config)
    BY <2>3, <2>4 DEF Resumed, Returns
  <2>6. Resolved(d) = Fresh(input)
    BY <2>1, CallerCall
  <2>7. e.step = "rest" /\ e.d = Run(schema, Fresh(input), config)
    BY <2>1, <2>5, <2>6
  <2>8. Consistent(q, e)
    BY <1>1, <2>7 DEF Consistent
  <2>9. QED  BY <1>7, <2>1, <2>8
<1>8. QED  BY <1>3, <1>4, <1>5, <1>6, <1>7

(* As long as the caller has not changed his value, the stack and the next *)
(* step are those of the synchronous run.                                  *)
AInv ==
  /\ CInv /\ changes \in Nat
  /\ changes = 0 => /\ live = input
                    /\ \E q, n : q = stack /\ n = now /\ Consistent(q, n)

LEMMA AsyncStarts == AsyncInit => AInv
<1> SUFFICES ASSUME AsyncInit PROVE AInv
  OBVIOUS
<1>1. CInv /\ live = input /\ changes = 0 /\ stack = <<>> /\ now = [step |-> "call"]
  BY CallerInit DEF AsyncInit
<1>2. PICK q, n : q = stack /\ n = now
  OBVIOUS
<1>3. IsList(q) /\ DOMAIN q = {} /\ n.step = "call"
  <2>1. q = <<>> /\ n.step = "call"
    BY <1>1, <1>2
  <2>2. q \in Seq(Range(q)) /\ DOMAIN q = {}
    BY <2>1
  <2>3. QED  BY <2>1, <2>2 DEF IsList
<1>4. IsStack(q)
  BY <1>3 DEF IsStack
<1>5. Consistent(q, n)
  BY <1>1, <1>2, <1>3, <1>4 DEF Consistent
<1>6. QED  BY <1>1, <1>2, <1>5 DEF AInv

LEMMA AsyncSteps == AInv /\ [AsyncNext]_asyncVars => AInv'
<1> SUFFICES ASSUME AInv, [AsyncNext]_asyncVars PROVE AInv'
  OBVIOUS
<1>1. CInv /\ changes \in Nat /\ (changes = 0 => live = input)
  BY DEF AInv
<1>2. PICK q2, n2 : q2 = stack' /\ n2 = now'
  OBVIOUS
<1>3. ASSUME UNCHANGED <<vars, live, changes>>,
             \A q, n : changes = 0 /\ q = stack /\ n = now /\ Consistent(q, n) => Consistent(q2, n2)
      PROVE  AInv'
  <2>1. UNCHANGED <<schema, input, config, interpreted, compiled>>
    BY <1>3 DEF vars, call
  <2>2. CInv'
    BY <1>1, <1>3, CallerNext
  <2>3. changes = 0 => Consistent(q2, n2)
    BY <1>3 DEF AInv
  <2>4. changes = 0 => Consistent(q2, n2)'
    BY <1>3, <2>1, <2>3, ConsistentKept
  <2>5. QED  BY <1>1, <1>2, <1>3, <2>1, <2>2, <2>4 DEF AInv
<1>4. ASSUME NEW q, NEW n, changes = 0, q = stack, n = now, Consistent(q, n)
      PROVE  CInv /\ live = input /\ Consistent(q, n)
  BY <1>1, <1>4
<1>5. CASE SafeParseAsync
  <2>1. UNCHANGED <<vars, live, changes>> /\ q2 = stack
        /\ now.step = "call" /\ n2 = Await(schema, Fresh(Reference(input)))
    BY <1>2, <1>5 DEF SafeParseAsync
  <2>2. QED  BY <1>3, <1>4, <2>1, StepKeeps
<1>6. CASE RunSync
  <2>1. UNCHANGED <<vars, live, changes>> /\ q2 = stack
        /\ now.step = "run" /\ now.s.type \notin AsyncTypes /\ n2 = Return(RanSync(now.s, now.d))
    BY <1>2, <1>6 DEF RunSync
  <2>2. QED  BY <1>3, <1>4, <2>1, StepKeeps
<1>7. CASE RunAsync
  <2>1. PICK f : f = Frame(now.s, now.d)
    OBVIOUS
  <2>2. UNCHANGED <<vars, live, changes>> /\ now.step = "run" /\ now.s.type \in AsyncTypes
        /\ n2 = GoesOn(f) /\ q2 = IF GoesOn(f).step = "return" THEN stack ELSE Append(stack, f)
    BY <1>2, <1>7, <2>1 DEF RunAsync, Continue
  <2>3. QED  BY <1>3, <1>4, <2>1, <2>2, StepKeeps
<1>8. CASE Act
  <2>1. UNCHANGED <<vars, live, changes>> /\ q2 = stack
        /\ now.step = "act" /\ n2 = Return(Acted(now.s, now.d))
    BY <1>2, <1>8 DEF Act
  <2>2. QED  BY <1>3, <1>4, <2>1, StepKeeps
<1>9. CASE Resume
  <2>1. PICK below, f : below = Front(stack) /\ f = Takes(Last(stack), now.d)
    OBVIOUS
  <2>2. UNCHANGED <<vars, live, changes>> /\ now.step = "return" /\ stack # <<>>
        /\ n2 = GoesOn(f) /\ q2 = IF GoesOn(f).step = "return" THEN below ELSE Append(below, f)
    BY <1>2, <1>9, <2>1 DEF Resume, Continue
  <2>3. QED  BY <1>3, <1>4, <2>1, <2>2, StepKeeps
<1>10. CASE Settle
  <2>1. UNCHANGED <<vars, live, changes>> /\ q2 = stack
        /\ now.step = "return" /\ stack = <<>> /\ n2 = [step |-> "rest", d |-> Resolved(now.d)]
    BY <1>2, <1>10 DEF Settle
  <2>2. QED  BY <1>3, <1>4, <2>1, StepKeeps
<1>11. CASE Change
  <2>1. UNCHANGED vars /\ changes' = changes + 1
    BY <1>11 DEF Change
  <2>2. CInv'
    BY <1>1, <2>1, CallerNext
  <2>3. changes' \in Nat /\ changes' # 0
    BY <1>1, <2>1
  <2>4. QED  BY <2>2, <2>3 DEF AInv
<1>12. CASE (Next /\ UNCHANGED async) \/ UNCHANGED asyncVars
  <2>1. UNCHANGED <<live, changes, stack, now>> /\ [Next]_vars
    BY <1>12 DEF async, asyncVars
  <2>2. UNCHANGED <<schema, input, config>>
    BY <2>1 DEF Next, SafeParse, SafeParseCompiled, vars, call
  <2>3. CInv'
    BY <1>1, <2>1, CallerNext
  <2>4. changes = 0 => Consistent(q2, n2)
    BY <1>2, <2>1 DEF AInv
  <2>5. changes = 0 => Consistent(q2, n2)'
    BY <2>1, <2>2, <2>4, ConsistentKept
  <2>6. QED  BY <1>1, <1>2, <2>1, <2>2, <2>3, <2>5 DEF AInv
<1>13. QED  BY <1>5, <1>6, <1>7, <1>8, <1>9, <1>10, <1>11, <1>12 DEF AsyncNext

(* An async call beside them leaves safeParse and safeParseCompiled alone: *)
(* what holds of the two callers of Compiled holds of those of Async.      *)
THEOREM AsyncRefinesCallers == AsyncSpec => Spec
<1>1. AsyncInit => Init
  BY DEF AsyncInit
<1>2. [AsyncNext]_asyncVars => [Next]_vars
  BY DEF AsyncNext, SafeParseAsync, RunSync, RunAsync, Act, Resume, Settle, Change, asyncVars
<1>3. QED  BY <1>1, <1>2, PTL DEF AsyncSpec, Spec

(* The README's "Async counterpart", and `~run` of the async schemas of    *)
(* packages/tskm/src: whatever is awaited, and however deep, over a value  *)
(* that nobody changes safeParseAsync returns what safeParse returns.      *)
THEOREM AsyncFollowsSync == AsyncSpec => []AsyncAgrees
<1>1. AsyncSpec => []AInv
  BY AsyncStarts, AsyncSteps, PTL DEF AsyncSpec
<1>2. AInv => AsyncAgrees
  <2> SUFFICES ASSUME AInv, now.step = "rest", changes = 0, NEW d \in interpreted
               PROVE  Result(now.d) = Result(d)
    BY DEF AsyncAgrees
  <2>1. PICK q, n : q = stack /\ n = now /\ Consistent(q, n)
    BY DEF AInv
  <2>2. now.d = Run(schema, Fresh(input), config)
    BY <2>1 DEF Consistent
  <2>3. d = Run(schema, Fresh(input), config)
    BY CInvParts DEF AInv, Returned
  <2>4. QED  BY <2>2, <2>3
<1>3. QED  BY <1>1, <1>2, PTL
=============================================================================
