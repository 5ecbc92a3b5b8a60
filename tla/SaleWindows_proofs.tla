------------------------- MODULE SaleWindows_proofs -------------------------
(***************************************************************************)
(* The stored sale windows: each is stored once, stays inside a window     *)
(* that detection finds, and is over when it is stored; and the examples   *)
(* made of them are split in order.  For any offers, prices, thresholds,   *)
(* fractions and workers.                                                  *)
(***************************************************************************)
EXTENDS SalePrediction, FiniteSetTheorems, TLAPS

InferredSource == "observed_price_inference"

-----------------------------------------------------------------------------
(* Least and greatest numbers.                                             *)

LEMMA BelowIsWellFounded == IsWellFoundedOn(OpToRel(<, Nat), Nat)
BY NatLessThanWellFounded

LEMMA MinimalNumber ==
    ASSUME NEW R, IsWellFoundedOn(R, Nat), NEW S \in SUBSET Nat, S # {}
    PROVE  \E m \in S : \A n \in S : ~(<<n, m>> \in R)
BY WFMin

LEMMA BelowIsRelated ==
    ASSUME NEW x \in Nat, NEW y \in Nat, y < x
    PROVE  <<y, x>> \in OpToRel(<, Nat)
BY Zenon DEF OpToRel

\* A set of naturals has a least one.
LEMMA LeastNumber ==
    ASSUME NEW S \in SUBSET Nat, S # {}
    PROVE  \E m \in S : \A n \in S : m <= n
<1>1. PICK m \in S : \A n \in S : ~(<<n, m>> \in OpToRel(<, Nat))
  BY BelowIsWellFounded, MinimalNumber
<1>2. \A n \in S : ~(n < m)
  BY <1>1, BelowIsRelated
<1>3. m \in Nat /\ \A n \in S : n \in Nat
  OBVIOUS
<1> QED  BY <1>2, <1>3

\* A bounded one has a greatest.
LEMMA GreatestNumber ==
    ASSUME NEW n \in Nat, NEW S \in SUBSET (0..n), S # {}
    PROVE  \E m \in S : \A x \in S : x <= m
<1> DEFINE T == {n - x : x \in S}
<1>1. T \in SUBSET Nat /\ T # {}
  <2>1. \A x \in S : x \in 0..n /\ n - x \in Nat
    OBVIOUS
  <2> QED  BY <2>1
<1>2. PICK d \in T : \A y \in T : d <= y
  BY <1>1, LeastNumber
<1>3. PICK m \in S : d = n - m
  OBVIOUS
<1>4. \A x \in S : n - x \in T /\ x \in 0..n
  OBVIOUS
<1>5. \A x \in S : n - m <= n - x
  BY <1>2, <1>3, <1>4
<1> QED  BY <1>3, <1>4, <1>5

\* Two numbers are determined by the position in a table of rows of one length.
LEMMA SamePosition ==
    ASSUME NEW m \in Nat, NEW a \in Nat, NEW b \in Nat, NEW x \in 0..m, NEW y \in 0..m,
           (m + 1) * a + x = (m + 1) * b + y
    PROVE  a = b /\ x = y
<1>1. ASSUME NEW c \in Nat, NEW d \in Nat, NEW u \in 0..m, NEW v \in 0..m, c < d
      PROVE  (m + 1) * c + u < (m + 1) * d + v
  <2>1. PICK k \in Nat : d = c + 1 + k
    <3>1. d - c - 1 \in Nat /\ d = c + 1 + (d - c - 1)
      BY <1>1
    <3> QED  BY <3>1
  <2>2. (m + 1) * d = (m + 1) * c + (m + 1) + (m + 1) * k
    BY <2>1
  <2>3. (m + 1) * k \in Nat /\ (m + 1) * c \in Nat
    OBVIOUS
  <2> QED  BY <2>2, <2>3
<1>2. ~(a < b) /\ ~(b < a)
  BY <1>1
<1> QED  BY <1>2

-----------------------------------------------------------------------------
(* Points and their order.                                                 *)

\* Points whose identifiers tell them apart, observed until then.
Points(S, then) ==
    \A p \in S : /\ p.observedAt \in 0..then /\ p.createdAt \in Nat /\ p.id \in Nat
                 /\ \A q \in S : p.id = q.id => p = q

\* Earlier is a strict order on them, total, and follows the observation times.
LEMMA EarlierOrders ==
    ASSUME NEW then \in Nat, NEW S, Points(S, then)
    PROVE  /\ \A p \in S : ~Earlier(p, p)
           /\ \A p, q \in S : p = q \/ Earlier(p, q) \/ Earlier(q, p)
           /\ \A p, q \in S : Earlier(p, q) => p.observedAt <= q.observedAt
           /\ \A p, q, r \in S : Earlier(p, q) /\ Earlier(q, r) => Earlier(p, r)
<1>1. \A p \in S : p.observedAt \in Nat /\ p.createdAt \in Nat /\ p.id \in Nat
  BY DEF Points
<1>2. \A p, q \in S : p.id = q.id => p = q
  BY DEF Points
<1> QED  BY <1>1, <1>2 DEF Earlier

\* Some points have a first one.
LEMMA FirstPoint ==
    ASSUME NEW then \in Nat, NEW S, Points(S, then), S # {}
    PROVE  \E p \in S : \A q \in S : ~Earlier(q, p)
<1>1. \A p \in S : p.observedAt \in Nat /\ p.createdAt \in Nat /\ p.id \in Nat
  BY DEF Points
<1>2. PICK p \in S : \A q \in S : p.observedAt <= q.observedAt
  <2> DEFINE T == {q.observedAt : q \in S}
  <2>1. T \in SUBSET Nat /\ T # {}
    BY <1>1
  <2>2. PICK m \in T : \A n \in T : m <= n
    BY <2>1, LeastNumber
  <2> QED  BY <2>2
<1> DEFINE Same == {q \in S : q.observedAt = p.observedAt}
<1>3. PICK r \in Same : \A q \in Same : r.createdAt <= q.createdAt
  <2> DEFINE T == {q.createdAt : q \in Same}
  <2>1. T \in SUBSET Nat /\ T # {}
    BY <1>1
  <2>2. PICK m \in T : \A n \in T : m <= n
    BY <2>1, LeastNumber
  <2> QED  BY <2>2
<1> DEFINE Both == {q \in Same : q.createdAt = r.createdAt}
<1>4. PICK f \in Both : \A q \in Both : f.id <= q.id
  <2> DEFINE T == {q.id : q \in Both}
  <2>1. T \in SUBSET Nat /\ T # {}
    BY <1>1
  <2>2. PICK m \in T : \A n \in T : m <= n
    BY <2>1, LeastNumber
  <2> QED  BY <2>2
<1>5. f \in S
  OBVIOUS
<1>6. ASSUME NEW q \in S, Earlier(q, f) PROVE FALSE
  <2>1. f.observedAt <= q.observedAt /\ q.observedAt \in Nat /\ f.observedAt \in Nat
    BY <1>1, <1>2, <1>5
  <2>2. q \in Same
    BY <2>1, <1>6 DEF Earlier
  <2>3. f.createdAt <= q.createdAt /\ q.createdAt \in Nat /\ f.createdAt \in Nat
    BY <1>1, <1>3, <1>5, <2>2
  <2>4. q \in Both
    BY <2>1, <2>2, <2>3, <1>6 DEF Earlier
  <2>5. f.id <= q.id /\ q.id \in Nat /\ f.id \in Nat
    BY <1>1, <1>4, <1>5, <2>4
  <2> QED  BY <2>1, <2>3, <2>5, <1>6 DEF Earlier
<1> QED  BY <1>5, <1>6

-----------------------------------------------------------------------------
(* The runs of a set of points.                                            *)

Begins(p, S) == ~\E q \in S : Earlier(q, p) /\ p.observedAt - q.observedAt <= MaxGap

Starts(S) == {p \in S : Begins(p, S)}

RunOf(s, S) == {q \in S : /\ ~Earlier(q, s)
                          /\ ~\E t \in Starts(S) : Earlier(s, t) /\ ~Earlier(q, t)}

LEMMA RunsOfStarts ==
    ASSUME NEW S
    PROVE  Runs(S) = {RunOf(s, S) : s \in Starts(S)}
BY DEF Runs, RunOf, Starts, Begins

\* A run holds its start, which is its earliest point.
LEMMA StartOfRun ==
    ASSUME NEW then \in Nat, NEW S, Points(S, then), NEW s \in Starts(S)
    PROVE  /\ s \in RunOf(s, S)
           /\ RunOf(s, S) \subseteq S
           /\ \A q \in RunOf(s, S) : s.observedAt <= q.observedAt
<1>1. s \in S
  BY DEF Starts
<1>2. s \in RunOf(s, S)
  BY <1>1, EarlierOrders DEF RunOf
<1>3. ASSUME NEW q \in RunOf(s, S) PROVE s.observedAt <= q.observedAt
  <2>1. q \in S /\ ~Earlier(q, s)
    BY DEF RunOf
  <2>2. q = s \/ Earlier(s, q)
    BY <1>1, <2>1, EarlierOrders
  <2>3. s.observedAt \in Nat
    BY <1>1 DEF Points
  <2> QED  BY <1>1, <2>1, <2>2, <2>3, EarlierOrders
<1> QED  BY <1>2, <1>3 DEF RunOf

\* Runs of one set that start at one time are the same run.
LEMMA StartsApart ==
    ASSUME NEW then \in Nat, NEW S, Points(S, then), NEW s \in Starts(S), NEW t \in Starts(S),
           s.observedAt = t.observedAt
    PROVE  s = t
<1>1. ASSUME NEW p \in Starts(S), NEW q \in Starts(S), p.observedAt = q.observedAt,
             Earlier(q, p)
      PROVE  FALSE
  <2>1. p \in S /\ q \in S /\ Begins(p, S)
    BY DEF Starts
  <2>2. p.observedAt - q.observedAt = 0
    BY <1>1, <2>1 DEF Points
  <2> QED  BY <1>1, <2>1, <2>2, SalesAssumption DEF Begins
<1>2. s \in S /\ t \in S
  BY DEF Starts
<1> QED  BY <1>1, <1>2, EarlierOrders

\* At or before each point some run starts; the last of them is determined by
\* its time.
LEMMA LastStart ==
    ASSUME NEW then \in Nat, NEW S, Points(S, then), NEW s \in S
    PROVE  \E t \in Starts(S) : /\ ~Earlier(s, t)
                                /\ \A u \in Starts(S) : ~Earlier(s, u) => ~Earlier(t, u)
<1> DEFINE Until == {q \in S : ~Earlier(s, q)}
           T == {t \in Starts(S) : ~Earlier(s, t)}
           Times == {t.observedAt : t \in T}
<1>1. s \in Until /\ Points(Until, then)
  BY EarlierOrders DEF Points
<1>2. PICK f \in Until : \A q \in Until : ~Earlier(q, f)
  BY <1>1, FirstPoint
<1>3. f \in T
  <2>1. ASSUME NEW q \in S, Earlier(q, f) PROVE FALSE
    <3>1. ~Earlier(s, q)
      <4>1. f \in S /\ ~Earlier(s, f)
        OBVIOUS
      <4> QED  BY <2>1, <4>1, EarlierOrders
    <3> QED  BY <1>2, <2>1, <3>1
  <2> QED  BY <2>1 DEF Starts, Begins
<1>4. \A t \in T : t \in S /\ t.observedAt \in 0..then
  BY DEF Starts, Points
<1>5. PICK m \in Times : \A x \in Times : x <= m
  <2>1. Times \in SUBSET (0..then) /\ Times # {}
    BY <1>3, <1>4
  <2> QED  BY <2>1, GreatestNumber
<1>6. PICK t \in T : m = t.observedAt
  OBVIOUS
<1>7. ASSUME NEW u \in Starts(S), ~Earlier(s, u), Earlier(t, u) PROVE FALSE
  <2>1. u \in T /\ u \in S /\ t \in S /\ t \in Starts(S)
    BY <1>7 DEF Starts
  <2>2. u.observedAt <= t.observedAt
    BY <1>5, <1>6, <2>1
  <2>3. t.observedAt <= u.observedAt
    BY <1>7, <2>1, EarlierOrders
  <2>4. u = t
    <3>1. u.observedAt = t.observedAt
      BY <1>4, <2>1, <2>2, <2>3
    <3> QED  BY <2>1, <3>1, StartsApart
  <2> QED  BY <1>7, <2>1, <2>4, EarlierOrders
<1> QED  BY <1>6, <1>7

\* More points make longer runs: what splits a run of the larger set splits the
\* points of the smaller one as well.
LEMMA RunsGrow ==
    ASSUME NEW then \in Nat, NEW A, NEW B, A \subseteq B, Points(B, then), NEW s \in Starts(A)
    PROVE  \E t \in Starts(B) : /\ t.observedAt <= s.observedAt
                                /\ RunOf(s, A) \subseteq RunOf(t, B)
<1>1. s \in A /\ s \in B /\ Points(A, then)
  BY DEF Starts, Points
<1>2. PICK t \in Starts(B) : /\ ~Earlier(s, t)
                             /\ \A u \in Starts(B) : ~Earlier(s, u) => ~Earlier(t, u)
  BY <1>1, LastStart
<1>3. t \in B
  BY DEF Starts
<1>4. t.observedAt <= s.observedAt
  <2>1. t = s \/ Earlier(t, s)
    BY <1>1, <1>2, <1>3, EarlierOrders
  <2>2. t.observedAt \in Nat
    BY <1>3 DEF Points
  <2> QED  BY <1>1, <1>3, <2>1, <2>2, EarlierOrders
<1>5. ASSUME NEW q \in RunOf(s, A) PROVE q \in RunOf(t, B)
  <2>1. q \in A /\ q \in B /\ ~Earlier(q, s)
    BY DEF RunOf
  <2>2. ~Earlier(q, t)
    BY <1>1, <1>2, <1>3, <2>1, EarlierOrders
  <2>3. ASSUME NEW u \in Starts(B), Earlier(t, u), ~Earlier(q, u) PROVE FALSE
    <3>1. u \in B /\ Begins(u, B)
      BY DEF Starts
    <3>2. Earlier(s, u)
      BY <1>2, <2>3
    <3> DEFINE After == {p \in A : ~Earlier(p, u)}
    <3>3. q \in After /\ Points(After, then)
      BY <1>1, <2>1, <2>3 DEF Points
    <3>4. PICK v \in After : \A p \in After : ~Earlier(p, v)
      BY <3>3, FirstPoint
    <3>5. v \in A /\ v \in B /\ ~Earlier(v, u)
      OBVIOUS
    <3>6. u.observedAt <= v.observedAt /\ (u = v \/ Earlier(u, v))
      <4>1. u.observedAt \in Nat
        BY <3>1 DEF Points
      <4> QED  BY <3>1, <3>5, <4>1, EarlierOrders
    <3>7. ASSUME NEW p \in A, Earlier(p, v), v.observedAt - p.observedAt <= MaxGap
          PROVE  FALSE
      <4>1. Earlier(p, u)
        BY <3>4, <3>7
      <4>2. p \in B
        OBVIOUS
      <4>3. u.observedAt - p.observedAt <= MaxGap
        <5>1. u.observedAt \in Nat /\ v.observedAt \in Nat /\ p.observedAt \in Nat
          BY <3>1, <3>5, <4>2 DEF Points
        <5> QED  BY <3>6, <3>7, <5>1, SalesAssumption
      <4> QED  BY <3>1, <4>1, <4>2, <4>3 DEF Begins
    <3>8. v \in Starts(A)
      BY <3>5, <3>7 DEF Starts, Begins
    <3>9. Earlier(s, v)
      BY <1>1, <3>1, <3>2, <3>5, <3>6, EarlierOrders
    <3>10. ~Earlier(q, v)
      BY <3>3, <3>4
    <3> QED  BY <3>8, <3>9, <3>10 DEF RunOf
  <2> QED  BY <2>1, <2>2, <2>3 DEF RunOf
<1> QED  BY <1>4, <1>5

-----------------------------------------------------------------------------
(* The windows of a set of discounted points.                              *)

OfTarget(D, scope, t) == {p \in D : p[scope] = t}

Listings(run) == {<<p.listing, p.sellerId>> : p \in run}

Field(f, scope, t) == IF f = scope THEN t ELSE None

Window(scope, t, run) ==
    [retailer |-> Field("retailer", scope, t), category |-> Field("category", scope, t),
     brand |-> Field("brand", scope, t),
     start |-> Min({p.observedAt : p \in run}), end |-> WindowEnd(run),
     source |-> InferredSource,
     confidence |-> DetectionConfidence(Cardinality(Listings(run)))]

\* A window is made of a run of the points of one target, with enough listings.
LEMMA WindowsOfRuns ==
    ASSUME NEW D, NEW scope, NEW win
    PROVE  win \in WindowsOf(D, scope) <=>
             \E t \in {p[scope] : p \in D} \ {None} :
               \E s \in Starts(OfTarget(D, scope, t)) :
                 /\ Cardinality(Listings(RunOf(s, OfTarget(D, scope, t)))) >= MinListings
                 /\ win = Window(scope, t, RunOf(s, OfTarget(D, scope, t)))
<1>1. WindowsOf(D, scope) =
        UNION {{Window(scope, t, run) :
                  run \in {r \in Runs(OfTarget(D, scope, t)) :
                             Cardinality(Listings(r)) >= MinListings}}
               : t \in {p[scope] : p \in D} \ {None}}
  BY DEF WindowsOf, Window, OfTarget, Listings, Field, InferredSource
<1> QED  BY <1>1, RunsOfStarts

\* A run begins and ends with its window.
LEMMA WindowBounds ==
    ASSUME NEW then \in Nat, NEW S, Points(S, then), NEW s \in Starts(S)
    PROVE  /\ Min({p.observedAt : p \in RunOf(s, S)}) = s.observedAt
           /\ WindowEnd(RunOf(s, S)) \in 0..then
           /\ \A p \in RunOf(s, S) : p.observedAt <= WindowEnd(RunOf(s, S))
           /\ \E p \in RunOf(s, S) : p.observedAt = WindowEnd(RunOf(s, S))
<1> DEFINE Times == {p.observedAt : p \in RunOf(s, S)}
<1>1. s \in RunOf(s, S) /\ \A p \in RunOf(s, S) : /\ s.observedAt <= p.observedAt
                                                  /\ p.observedAt \in 0..then
  BY StartOfRun DEF Points
<1>2. Times \in SUBSET (0..then) /\ Times # {}
  BY <1>1
<1>3. Min(Times) = s.observedAt
  <2>1. s.observedAt \in Times /\ \A x \in Times : s.observedAt <= x
    BY <1>1
  <2>2. \A y \in Times : (\A x \in Times : y <= x) => y = s.observedAt
    <3>1. ASSUME NEW y \in Times, \A x \in Times : y <= x PROVE y = s.observedAt
      <4>1. y <= s.observedAt /\ s.observedAt <= y /\ y \in Nat /\ s.observedAt \in Nat
        BY <1>2, <2>1, <3>1
      <4> QED  BY <4>1
    <3> QED  BY <3>1
  <2>3. Min(Times) = CHOOSE y \in Times : \A x \in Times : y <= x
    BY DEF Min
  <2> QED  BY <2>1, <2>2, <2>3
<1>4. PICK m \in Times : \A x \in Times : x <= m
  BY <1>2, GreatestNumber
<1>5. Max(Times) \in Times /\ \A x \in Times : x <= Max(Times)
  <2>1. Max(Times) = CHOOSE y \in Times : \A x \in Times : y >= x
    BY DEF Max
  <2>2. \A x \in Times : m >= x
    BY <1>2, <1>4
  <2>3. Max(Times) \in Times /\ \A x \in Times : Max(Times) >= x
    BY <1>4, <2>1, <2>2
  <2> QED  BY <1>2, <2>3
<1> HIDE DEF Times
<1>6. Max(Times) \in 0..then
  BY <1>2, <1>5
<1> USE DEF Times
<1>7. WindowEnd(RunOf(s, S)) = Max(Times)
  BY DEF WindowEnd
<1> QED  BY <1>3, <1>5, <1>6, <1>7

\* The points of one target are points.
LEMMA TargetPoints ==
    ASSUME NEW then, NEW D, Points(D, then), NEW scope, NEW t
    PROVE  Points(OfTarget(D, scope, t), then)
BY DEF Points, OfTarget

\* A window is inferred, does not end before it starts and is over.
LEMMA WindowIsOver ==
    ASSUME NEW then \in Nat, NEW D, Points(D, then), NEW scope, NEW win \in WindowsOf(D, scope)
    PROVE  /\ win.source = InferredSource
           /\ win.start \in Int /\ win.end \in Int
           /\ win.start <= win.end /\ win.end <= then
<1> PICK t \in {p[scope] : p \in D} \ {None} :
        \E s \in Starts(OfTarget(D, scope, t)) :
          win = Window(scope, t, RunOf(s, OfTarget(D, scope, t)))
  BY WindowsOfRuns
<1>1. PICK s \in Starts(OfTarget(D, scope, t)) :
        win = Window(scope, t, RunOf(s, OfTarget(D, scope, t)))
  OBVIOUS
<1> DEFINE S == OfTarget(D, scope, t)
<1>2. Points(S, then)
  BY TargetPoints
<1>3. s \in S /\ s.observedAt \in 0..then /\ s \in RunOf(s, S)
  BY <1>2, StartOfRun DEF Starts, Points
<1>4. /\ win.source = InferredSource
      /\ win.start = Min({p.observedAt : p \in RunOf(s, S)})
      /\ win.end = WindowEnd(RunOf(s, S))
  BY <1>1 DEF Window
<1> QED  BY <1>2, <1>3, <1>4, WindowBounds

\* Scope and start determine a window.
LEMMA WindowOfScopeAndStart ==
    ASSUME NEW then \in Nat, NEW D, Points(D, then),
           NEW f \in {"retailer", "category", "brand"},
           NEW g \in {"retailer", "category", "brand"},
           NEW win \in WindowsOf(D, f), NEW other \in WindowsOf(D, g),
           Scope(win) = Scope(other), win.start = other.start
    PROVE  win = other
<1> PICK t \in {p[f] : p \in D} \ {None} :
        \E s \in Starts(OfTarget(D, f, t)) :
          win = Window(f, t, RunOf(s, OfTarget(D, f, t)))
  BY WindowsOfRuns
<1>1. PICK s \in Starts(OfTarget(D, f, t)) :
        win = Window(f, t, RunOf(s, OfTarget(D, f, t)))
  OBVIOUS
<1> PICK u \in {p[g] : p \in D} \ {None} :
        \E r \in Starts(OfTarget(D, g, u)) :
          other = Window(g, u, RunOf(r, OfTarget(D, g, u)))
  BY WindowsOfRuns
<1>2. PICK r \in Starts(OfTarget(D, g, u)) :
        other = Window(g, u, RunOf(r, OfTarget(D, g, u)))
  OBVIOUS
<1>3. f = g /\ t = u
  <2>1. /\ Field("retailer", f, t) = Field("retailer", g, u)
        /\ Field("category", f, t) = Field("category", g, u)
        /\ Field("brand", f, t) = Field("brand", g, u)
    BY <1>1, <1>2 DEF Window, Scope
  <2> QED  BY <2>1 DEF Field
<1> DEFINE S == OfTarget(D, f, t)
<1>4. Points(S, then)
  BY TargetPoints
<1>5. s.observedAt = r.observedAt
  <2>1. win.start = Min({p.observedAt : p \in RunOf(s, S)})
    BY <1>1 DEF Window
  <2>2. other.start = Min({p.observedAt : p \in RunOf(r, S)})
    BY <1>2, <1>3 DEF Window
  <2> QED  BY <1>3, <1>4, <2>1, <2>2, WindowBounds
<1>6. s = r
  BY <1>3, <1>4, <1>5, StartsApart
<1> QED  BY <1>1, <1>2, <1>3, <1>6

\* With more points, the windows of a scope have not become shorter.
LEMMA WindowsGrow ==
    ASSUME NEW then \in Nat, NEW A, NEW B, A \subseteq B, Points(B, then), IsFiniteSet(B),
           NEW scope, NEW win \in WindowsOf(A, scope)
    PROVE  \E wider \in WindowsOf(B, scope) : Covers(wider, win)
<1> PICK t \in {p[scope] : p \in A} \ {None} :
        \E s \in Starts(OfTarget(A, scope, t)) :
          /\ Cardinality(Listings(RunOf(s, OfTarget(A, scope, t)))) >= MinListings
          /\ win = Window(scope, t, RunOf(s, OfTarget(A, scope, t)))
  BY WindowsOfRuns
<1>1. PICK s \in Starts(OfTarget(A, scope, t)) :
        /\ Cardinality(Listings(RunOf(s, OfTarget(A, scope, t)))) >= MinListings
        /\ win = Window(scope, t, RunOf(s, OfTarget(A, scope, t)))
  OBVIOUS
<1> DEFINE SA == OfTarget(A, scope, t)
           SB == OfTarget(B, scope, t)
<1>2. SA \subseteq SB /\ Points(SB, then) /\ Points(SA, then) /\ IsFiniteSet(SB)
  <2>1. SA \subseteq SB /\ SB \in SUBSET B
    BY DEF OfTarget
  <2>2. Points(A, then)
    BY DEF Points
  <2> QED  BY <2>1, <2>2, TargetPoints, FS_Subset
<1>3. PICK r \in Starts(SB) : /\ r.observedAt <= s.observedAt
                              /\ RunOf(s, SA) \subseteq RunOf(r, SB)
  BY <1>2, RunsGrow
<1> DEFINE wider == Window(scope, t, RunOf(r, SB))
<1>4. Cardinality(Listings(RunOf(r, SB))) >= MinListings
  <2> DEFINE run == RunOf(r, SB)
             pair == [p \in run |-> <<p.listing, p.sellerId>>]
  <2>1. IsFiniteSet(run)
    BY <1>2, StartOfRun, FS_Subset
  <2>2. IsFiniteSet(Listings(run))
    <3>1. pair \in Surjection(run, Listings(run))
      BY DEF Surjection, Listings
    <3> QED  BY <2>1, <3>1, FS_Surjection
  <2>3. Listings(RunOf(s, SA)) \in SUBSET Listings(run)
    BY <1>3 DEF Listings
  <2>4. Cardinality(Listings(RunOf(s, SA))) <= Cardinality(Listings(run))
    BY <2>2, <2>3, FS_Subset
  <2>5. Cardinality(Listings(RunOf(s, SA))) \in Nat /\ Cardinality(Listings(run)) \in Nat
    BY <2>2, <2>3, FS_Subset, FS_CardinalityType
  <2> QED  BY <1>1, <2>4, <2>5, SalesAssumption
<1>5. wider \in WindowsOf(B, scope)
  <2>1. t \in {p[scope] : p \in B} \ {None}
    OBVIOUS
  <2> QED  BY <1>4, <2>1, WindowsOfRuns
<1>6. Covers(wider, win)
  <2>1. Scope(wider) = Scope(win)
    BY <1>1 DEF Scope, Window
  <2>2. wider.start = r.observedAt /\ win.start = s.observedAt
    BY <1>1, <1>2, WindowBounds DEF Window
  <2>3. wider.end = WindowEnd(RunOf(r, SB)) /\ win.end = WindowEnd(RunOf(s, SA))
    BY <1>1 DEF Window
  <2>4. WindowEnd(RunOf(s, SA)) <= WindowEnd(RunOf(r, SB))
    <3>1. PICK p \in RunOf(s, SA) : p.observedAt = WindowEnd(RunOf(s, SA))
      BY <1>2, WindowBounds
    <3>2. p \in RunOf(r, SB)
      BY <1>3
    <3> QED  BY ZenonT(30), <1>2, <3>1, <3>2, WindowBounds
  <2> QED  BY <1>3, <2>1, <2>2, <2>3, <2>4 DEF Covers
<1> QED  BY <1>5, <1>6

-----------------------------------------------------------------------------
(* Detection.                                                              *)

\* What is discounted among points stays so when every new point is later than
\* those of its series.
LEMMA DiscountedGrows ==
    ASSUME NEW A, NEW B, A \subseteq B,
           \A p \in A, q \in B : SameSeries(p, q) /\ Earlier(q, p) => q \in A
    PROVE  Discounted(A) \subseteq Discounted(B)
<1> DEFINE qa == {p \in A : QualifiesForCalculations(p)}
           qb == {p \in B : QualifiesForCalculations(p)}
<1>1. \A p \in qa : p \in qb /\ Prior(p, qa) = Prior(p, qb)
  BY DEF Prior
<1>2. Discounted(A) = {p \in qa : /\ Prior(p, qa) # {}
                                  /\ DoubledMedian(Prior(p, qa)) > 0
                                  /\ 100 * (DoubledMedian(Prior(p, qa)) - 2 * AnalysisPrice(p))
                                        >= DropPercent * DoubledMedian(Prior(p, qa))}
  BY DEF Discounted
<1>3. Discounted(B) = {p \in qb : /\ Prior(p, qb) # {}
                                  /\ DoubledMedian(Prior(p, qb)) > 0
                                  /\ 100 * (DoubledMedian(Prior(p, qb)) - 2 * AnalysisPrice(p))
                                        >= DropPercent * DoubledMedian(Prior(p, qb))}
  BY DEF Discounted
<1> HIDE DEF qa, qb
<1> QED  BY <1>1, <1>2, <1>3

LEMMA DiscountedPoints ==
    ASSUME NEW then, NEW S, Points(S, then)
    PROVE  Discounted(S) \in SUBSET S /\ Points(Discounted(S), then)
<1>1. Discounted(S) \in SUBSET S
  BY DEF Discounted
<1> QED  BY <1>1 DEF Points

LEMMA DetectedScopes ==
    ASSUME NEW S, NEW win
    PROVE  win \in Detect(S) <=>
             \E scope \in {"retailer", "category", "brand"} : win \in WindowsOf(Discounted(S), scope)
BY DEF Detect

\* Windows are inferred, over, and determined by scope and start.
LEMMA DetectedWindows ==
    ASSUME NEW then \in Nat, NEW S, Points(S, then)
    PROVE  /\ \A win \in Detect(S) : /\ win.source = InferredSource
                                     /\ win.start \in Int /\ win.end \in Int
                                     /\ win.start <= win.end /\ win.end <= then
           /\ \A win, other \in Detect(S) :
                 Scope(win) = Scope(other) /\ win.start = other.start => win = other
BY DetectedScopes, DiscountedPoints, WindowIsOver, WindowOfScopeAndStart

\* Windows stay justified when the series grow at their ends.
LEMMA DetectionGrows ==
    ASSUME NEW then \in Nat, NEW A, NEW B, A \subseteq B, Points(B, then), IsFiniteSet(B),
           \A p \in A, q \in B : SameSeries(p, q) /\ Earlier(q, p) => q \in A,
           NEW win \in Detect(A)
    PROVE  \E wider \in Detect(B) : Covers(wider, win)
<1>1. PICK scope \in {"retailer", "category", "brand"} : win \in WindowsOf(Discounted(A), scope)
  BY DetectedScopes
<1>2. Discounted(A) \subseteq Discounted(B)
  BY DiscountedGrows
<1>3. Points(Discounted(B), then) /\ IsFiniteSet(Discounted(B))
  BY DiscountedPoints, FS_Subset
<1>4. PICK wider \in WindowsOf(Discounted(B), scope) : Covers(wider, win)
  BY <1>1, <1>2, <1>3, WindowsGrow
<1> QED  BY <1>4, DetectedScopes

-----------------------------------------------------------------------------
(* The inductive invariant.                                                *)

\* Rows that are stored or about to be.
RowsOf(w) == IF pending[w] = None THEN {} ELSE pending[w]
Rows == events \cup UNION {RowsOf(w) : w \in Workers}

IsInferred(e) == e.source = InferredSource

\* Observations lie in the past, and their identifiers tell them apart.
PointsInv ==
    /\ now \in 0..MaxTime
    /\ IsFiniteSet(snapshots)
    /\ Points(snapshots, now)
    /\ \A p \in snapshots : \E o \in Offers : /\ p.id = SnapshotId(o, p.observedAt)
                                              /\ p.listing = o.listing /\ p.sellerId = o.sellerId

\* No row ends before it starts, and no inferred row is still to end.
TimeInv ==
    /\ pending = [w \in Workers |-> pending[w]]
    /\ \A e \in Rows : /\ e.start \in Int /\ e.end \in Int /\ e.start <= e.end
                       /\ IsInferred(e) => e.end <= now

SameWindow(e, f) == Scope(e) = Scope(f) /\ e.start = f.start /\ e.end = f.end

\* WindowsAreStoredOnce, of uncommitted rows too.
OnceInv ==
    ~overlapped => \A e, f \in Rows : IsInferred(e) /\ IsInferred(f) /\ SameWindow(e, f) => e = f

Justified(e) ==
    \E r \in {o.retailer : o \in Offers} : \E win \in Detect(PointsOfRetailer(r)) : Covers(win, e)

\* WindowsStayJustified, of uncommitted rows too.
JustifiedInv == ~late => \A e \in Rows : IsInferred(e) => Justified(e)

IInv == PointsInv /\ TimeInv /\ OnceInv /\ JustifiedInv

LEMMA RowBounds ==
    ASSUME IInv, NEW e \in Rows
    PROVE  /\ e.start \in Int /\ e.end \in Int /\ e.start <= e.end
           /\ IsInferred(e) => e.end <= now
BY DEF IInv, TimeInv

LEMMA InitInv == ASSUME Init PROVE IInv
<1>1. snapshots = {} /\ now = 0 /\ events = Curated /\ pending = [w \in Workers |-> None]
  BY DEF Init
<1>2. Rows = Curated
  BY <1>1 DEF Rows, RowsOf
<1>3. \A e \in Rows : e.start \in Int /\ e.end \in Int /\ e.start <= e.end /\ ~IsInferred(e)
  BY <1>2, SalesAssumption DEF IsInferred, InferredSource
<1>4. PointsInv
  BY <1>1, FS_EmptySet, SalesAssumption DEF PointsInv, Points
<1> QED  BY <1>1, <1>3, <1>4 DEF IInv, TimeInv, OnceInv, JustifiedInv

\* Steps that add no row and no observation.
LEMMA FewerRows ==
    ASSUME IInv, UNCHANGED <<snapshots, now, late, overlapped>>, Rows' \subseteq Rows,
           pending' = [w \in Workers |-> pending'[w]]
    PROVE  IInv'
<1>1. PointsInv'
  BY DEF IInv, PointsInv, Points
<1>2. TimeInv'
  BY DEF IInv, TimeInv
<1>3. OnceInv'
  BY DEF IInv, OnceInv
<1>4. JustifiedInv'
  BY DEF IInv, JustifiedInv, Justified, PointsOfRetailer
<1> QED  BY <1>1, <1>2, <1>3, <1>4 DEF IInv

LEMMA CommitKeeps == ASSUME IInv, NEW w \in Workers, Commit(w) PROVE IInv'
<1>1. /\ pending[w] # None /\ pending = [v \in Workers |-> pending[v]]
      /\ events' = events \cup pending[w]
      /\ pending' = [pending EXCEPT ![w] = None]
      /\ UNCHANGED <<snapshots, now, late, overlapped>>
  BY DEF Commit, IInv, TimeInv
<1>2. /\ pending' = [v \in Workers |-> pending'[v]]
      /\ pending'[w] = None /\ \A v \in Workers \ {w} : pending'[v] = pending[v]
  BY <1>1
<1>3. Rows' \subseteq Rows
  BY <1>1, <1>2 DEF Rows, RowsOf
<1> QED  BY <1>1, <1>2, <1>3, FewerRows

LEMMA AbortKeeps == ASSUME IInv, NEW w \in Workers, Abort(w) PROVE IInv'
<1>1. /\ pending = [v \in Workers |-> pending[v]]
      /\ pending' = [pending EXCEPT ![w] = None]
      /\ UNCHANGED <<snapshots, events, now, late, overlapped>>
  BY DEF Abort, IInv, TimeInv
<1>2. /\ pending' = [v \in Workers |-> pending'[v]]
      /\ pending'[w] = None /\ \A v \in Workers \ {w} : pending'[v] = pending[v]
  BY <1>1
<1>3. Rows' \subseteq Rows
  BY <1>1, <1>2 DEF Rows, RowsOf
<1> QED  BY <1>1, <1>2, <1>3, FewerRows

\* A curated row is not inferred.
LEMMA CurateKeeps == ASSUME IInv, NEW e \in Announced, Curate(e) PROVE IInv'
<1>1. /\ events' = events \cup {e}
      /\ UNCHANGED <<snapshots, pending, now, late, overlapped>>
  BY DEF Curate
<1>2. e.start \in Int /\ e.end \in Int /\ e.start <= e.end /\ ~IsInferred(e)
  BY SalesAssumption DEF IsInferred, InferredSource
<1>3. Rows' = Rows \cup {e}
  BY <1>1 DEF Rows, RowsOf
<1>4. PointsInv'
  BY <1>1 DEF IInv, PointsInv, Points
<1>5. TimeInv'
  BY <1>1, <1>2, <1>3 DEF IInv, TimeInv
<1>6. OnceInv'
  BY <1>1, <1>2, <1>3 DEF IInv, OnceInv
<1>7. JustifiedInv'
  BY <1>1, <1>2, <1>3 DEF IInv, JustifiedInv, Justified, PointsOfRetailer
<1> QED  BY <1>4, <1>5, <1>6, <1>7 DEF IInv

LEMMA TickKeeps == ASSUME IInv, Tick PROVE IInv'
<1>1. /\ now' = now + 1 /\ now' \in 0..MaxTime /\ now \in Nat
      /\ UNCHANGED <<snapshots, events, pending, late, overlapped>>
  BY SalesAssumption DEF Tick, IInv, PointsInv
<1>2. Rows' = Rows
  BY <1>1 DEF Rows, RowsOf
<1>3. PointsInv'
  BY <1>1 DEF IInv, PointsInv, Points
<1>4. TimeInv'
  BY <1>1, <1>2 DEF IInv, TimeInv
<1>5. OnceInv'
  BY <1>1, <1>2 DEF IInv, OnceInv
<1>6. JustifiedInv'
  BY <1>1, <1>2 DEF IInv, JustifiedInv, Justified, PointsOfRetailer
<1> QED  BY <1>3, <1>4, <1>5, <1>6 DEF IInv

LEMMA ObserveKeeps ==
    ASSUME IInv, NEW offer \in Offers, NEW price, NEW confidence, NEW timing \in Timings,
           Observe(offer, price, confidence, now - timing[1], now - timing[2])
    PROVE  IInv'
<1> DEFINE at == now - timing[1]
           began == now - timing[2]
           seen == PointOf(offer, price, confidence, at, began)
<1>1. /\ now \in 0..MaxTime /\ at \in 0..now /\ began \in Nat
  BY SalesAssumption DEF Observe, IInv, PointsInv
<1>2. /\ ~\E s \in snapshots : SameSeries(s, seen) /\ s.observedAt = at
      /\ snapshots' = snapshots \cup {seen}
      /\ late' = (late \/ \E s \in snapshots : SameSeries(s, seen) /\ s.observedAt > at)
      /\ UNCHANGED <<events, pending, now, overlapped>>
  BY DEF Observe
<1> HIDE DEF at, began
<1>3. /\ seen.observedAt = at /\ seen.createdAt = began /\ seen.id = SnapshotId(offer, at)
      /\ seen.listing = offer.listing /\ seen.sellerId = offer.sellerId
  BY DEF PointOf
<1> HIDE DEF seen
<1>4. seen.id \in Nat
  BY <1>1, <1>3, SalesAssumption DEF SnapshotId
<1>5. \A s \in snapshots : s.id # seen.id
  <2>1. ASSUME NEW s \in snapshots, s.id = seen.id PROVE FALSE
    <3>1. PICK o \in Offers : /\ s.id = SnapshotId(o, s.observedAt)
                              /\ s.listing = o.listing /\ s.sellerId = o.sellerId
      BY DEF IInv, PointsInv
    <3>2. s.observedAt \in 0..now
      BY DEF IInv, PointsInv, Points
    <3>3. o.id = offer.id /\ s.observedAt = at
      <4>1. (MaxTime + 1) * o.id + s.observedAt = (MaxTime + 1) * offer.id + at
        BY <1>3, <2>1, <3>1 DEF SnapshotId
      <4>2. s.observedAt \in 0..MaxTime /\ at \in 0..MaxTime
        BY <1>1, <3>2, SalesAssumption
      <4>3. MaxTime \in Nat /\ o.id \in Nat /\ offer.id \in Nat
        BY SalesAssumption
      <4> QED  BY ZenonT(30), <4>1, <4>2, <4>3, SamePosition
    <3>4. o = offer
      BY <3>3, SalesAssumption
    <3> QED  BY <1>2, <1>3, <3>1, <3>3, <3>4 DEF SameSeries
  <2> QED  BY <2>1
<1>6. PointsInv'
  <2>1. IsFiniteSet(snapshots')
    BY <1>2, FS_AddElement DEF IInv, PointsInv
  <2>2. Points(snapshots', now)
    BY <1>1, <1>2, <1>3, <1>4, <1>5 DEF IInv, PointsInv, Points
  <2>3. \A p \in snapshots' : \E o \in Offers : /\ p.id = SnapshotId(o, p.observedAt)
                                                /\ p.listing = o.listing /\ p.sellerId = o.sellerId
    BY <1>2, <1>3 DEF IInv, PointsInv
  <2> QED  BY <1>1, <1>2, <2>1, <2>2, <2>3 DEF PointsInv
<1>7. Rows' = Rows
  BY <1>2 DEF Rows, RowsOf
<1>8. TimeInv'
  BY <1>2, <1>7 DEF IInv, TimeInv
<1>9. OnceInv'
  BY <1>2, <1>7 DEF IInv, OnceInv
<1>10. ASSUME ~late', NEW e \in Rows, IsInferred(e) PROVE Justified(e)'
  <2>1. ~late /\ \A s \in snapshots : SameSeries(s, seen) => ~(s.observedAt > at)
    BY <1>2, <1>10
  <2>2. PICK r \in {o.retailer : o \in Offers} : \E win \in Detect(PointsOfRetailer(r)) : Covers(win, e)
    BY <1>10, <2>1 DEF IInv, JustifiedInv, Justified
  <2>3. PICK win \in Detect(PointsOfRetailer(r)) : Covers(win, e)
    BY <2>2
  <2> DEFINE A == PointsOfRetailer(r)
             B == {p \in snapshots' : p.retailer = r}
  <2>4. A \subseteq B /\ B \subseteq snapshots' /\ A = {p \in snapshots : p.retailer = r}
    BY <1>2 DEF PointsOfRetailer
  <2>5. Points(B, now) /\ IsFiniteSet(B)
    BY <1>2, <1>6, <2>4, FS_Subset DEF PointsInv, Points
  <2>6. ASSUME NEW p \in A, NEW q \in B, SameSeries(p, q), Earlier(q, p) PROVE q \in A
    <3>1. CASE q \in snapshots
      BY <2>4, <3>1
    <3>2. CASE q = seen
      <4>1. p \in snapshots /\ p.observedAt \in Nat
        BY <2>4 DEF IInv, PointsInv, Points
      <4>2. p.observedAt < seen.observedAt
        BY <1>1, <1>2, <1>3, <2>1, <2>6, <3>2, <4>1
      <4> QED  BY <1>1, <1>3, <2>6, <3>2, <4>1, <4>2 DEF Earlier
    <3> QED  BY <1>2, <2>4, <3>1, <3>2
  <2>7. PICK wider \in Detect(B) : Covers(wider, win)
    <3>1. now \in Nat /\ win \in Detect(A) /\ A \subseteq B
      BY <1>1, <2>4
    <3>2. \A p \in A, q \in B : SameSeries(p, q) /\ Earlier(q, p) => q \in A
      BY <2>6
    <3> HIDE DEF A, B
    <3> QED  BY <2>5, <3>1, <3>2, DetectionGrows
  <2>8. Covers(wider, e)
    <3>1. Points(A, now) /\ now \in Nat
      BY <1>1, <2>4, <2>5 DEF Points
    <3>2. win \in Detect(A)
      OBVIOUS
    <3> HIDE DEF A, B
    <3>3. /\ win.start \in Int /\ win.end \in Int
          /\ wider.start \in Int /\ wider.end \in Int
      BY <2>5, <3>1, <3>2, DetectedWindows
    <3>4. e.start \in Int /\ e.end \in Int
      BY <1>10, RowBounds
    <3> QED  BY <2>3, <2>7, <3>3, <3>4 DEF Covers
  <2> QED  BY <2>7, <2>8 DEF Justified, PointsOfRetailer
<1>11. JustifiedInv'
  BY <1>7, <1>10 DEF JustifiedInv
<1> QED  BY <1>6, <1>8, <1>9, <1>11 DEF IInv

\* What a refresh inserts has the bounds of a window that it detected.
LEMMA RefreshKeeps ==
    ASSUME IInv, NEW w \in Workers, NEW r \in {o.retailer : o \in Offers}, Refresh(w, r)
    PROVE  IInv'
<1> DEFINE found == Detect(PointsOfRetailer(r))
           fresh == {win \in found : ~\E e \in events : Equivalent(e, win)}
           new   == {RowOf(win, w) : win \in fresh}
<1>1. /\ pending[w] = None /\ pending = [v \in Workers |-> pending[v]]
      /\ pending' = [pending EXCEPT ![w] = new]
      /\ overlapped' = (overlapped \/ /\ fresh # {}
                                      /\ \E v \in Workers : pending[v] \notin {None, {}})
      /\ UNCHANGED <<snapshots, events, now, late>>
  BY DEF Refresh, IInv, TimeInv
<1>2. now \in Nat /\ Points(PointsOfRetailer(r), now)
  BY DEF IInv, PointsInv, PointsOfRetailer, Points
<1> HIDE DEF found
<1>3. /\ \A win \in found : /\ win.source = InferredSource
                            /\ win.start \in Int /\ win.end \in Int
                            /\ win.start <= win.end /\ win.end <= now
      /\ \A win, other \in found :
            Scope(win) = Scope(other) /\ win.start = other.start => win = other
  BY <1>2, DetectedWindows DEF found
<1>4. \A win \in found :
        /\ SameWindow(RowOf(win, w), win) /\ SameWindow(win, RowOf(win, w))
        /\ RowOf(win, w).source = win.source
        /\ RowOf(win, w).start = win.start /\ RowOf(win, w).end = win.end
        /\ Scope(RowOf(win, w)) = Scope(win)
  BY DEF RowOf, SameWindow, Scope
<1>5. /\ pending' = [v \in Workers |-> pending'[v]]
      /\ pending'[w] = new /\ \A v \in Workers \ {w} : pending'[v] = pending[v]
  BY <1>1
<1>6. \A e \in Rows' : e \in Rows \/ e \in new
  BY <1>1, <1>5 DEF Rows, RowsOf
<1>7. PointsInv'
  BY <1>1 DEF IInv, PointsInv, Points
<1>8. TimeInv'
  <2>1. \A e \in new : e.start \in Int /\ e.end \in Int /\ e.start <= e.end /\ e.end <= now
    BY <1>3, <1>4
  <2> QED  BY <1>1, <1>5, <1>6, <2>1 DEF IInv, TimeInv
<1>9. OnceInv'
  <2>1. SUFFICES ASSUME ~overlapped', NEW e \in Rows', NEW f \in Rows',
                        IsInferred(e), IsInferred(f), SameWindow(e, f)
                 PROVE  e = f
    BY DEF OnceInv
  <2>2. ~overlapped /\ (fresh = {} \/ \A v \in Workers : RowsOf(v) = {})
    BY <1>1, <2>1 DEF RowsOf
  <2>3. CASE e \in Rows /\ f \in Rows
    BY <2>1, <2>2, <2>3 DEF IInv, OnceInv
  <2>4. ASSUME NEW g \in Rows, NEW h \in new, IsInferred(g), SameWindow(g, h) \/ SameWindow(h, g)
        PROVE  FALSE
    <3>1. PICK win \in fresh : h = RowOf(win, w)
      OBVIOUS
    <3>2. g \in events
      BY <2>2, <3>1 DEF Rows
    <3>3. Equivalent(g, win)
      BY <1>3, <1>4, <2>4, <3>1 DEF SameWindow, Equivalent, IsInferred
    <3> QED  BY <3>1, <3>2, <3>3
  <2>5. CASE e \in new /\ f \in new
    <3>1. PICK win \in fresh : e = RowOf(win, w)
      BY <2>5
    <3>2. PICK other \in fresh : f = RowOf(other, w)
      BY <2>5
    <3>3. Scope(win) = Scope(other) /\ win.start = other.start
      BY <1>4, <2>1, <3>1, <3>2 DEF SameWindow
    <3> QED  BY <1>3, <3>1, <3>2, <3>3
  <2> QED  BY <1>6, <2>1, <2>3, <2>4, <2>5
<1>10. JustifiedInv'
  <2>1. SUFFICES ASSUME ~late, NEW e \in Rows', IsInferred(e) PROVE Justified(e)
    BY <1>1 DEF JustifiedInv, Justified, PointsOfRetailer
  <2>2. CASE e \in Rows
    BY <2>1, <2>2 DEF IInv, JustifiedInv
  <2>3. CASE e \in new
    <3>1. PICK win \in found : e = RowOf(win, w)
      BY <2>3
    <3>2. Covers(win, e)
      BY <1>3, <1>4, <3>1 DEF Covers
    <3> QED  BY <3>2 DEF Justified, found
  <2> QED  BY <1>6, <2>2, <2>3
<1> QED  BY <1>7, <1>8, <1>9, <1>10 DEF IInv

\* Nothing changes but the variables, so nothing does.
LEMMA StutterKeeps == ASSUME IInv, UNCHANGED vars PROVE IInv'
<1>1. UNCHANGED <<snapshots, events, pending, now, late, overlapped>>
  BY DEF vars
<1>2. Rows' = Rows
  BY <1>1 DEF Rows, RowsOf
<1>3. pending' = [w \in Workers |-> pending'[w]]
  BY <1>1 DEF IInv, TimeInv
<1> QED  BY <1>1, <1>2, <1>3, FewerRows

(* Observations are points of the past, rows are inferred from windows that
   are over, a window has one row unless refreshes overlapped, and one that
   covers it is still found unless an observation came late; uncommitted rows
   included. *)
THEOREM InductiveInvariant == Spec => []IInv
<1>1. Init => IInv
  BY InitInv
<1>2. IInv /\ [Next]_vars => IInv'
  <2> SUFFICES ASSUME IInv, [Next]_vars PROVE IInv'
    OBVIOUS
  <2>1. CASE \E offer \in Offers, price \in Prices, confidence \in Confidences,
                timing \in Timings :
                   Observe(offer, price, confidence, now - timing[1], now - timing[2])
    BY <2>1, ObserveKeeps
  <2>2. CASE \E w \in Workers, r \in {o.retailer : o \in Offers} : Refresh(w, r)
    BY <2>2, RefreshKeeps
  <2>3. CASE \E w \in Workers : Commit(w)
    BY <2>3, CommitKeeps
  <2>4. CASE \E w \in Workers : Abort(w)
    BY <2>4, AbortKeeps
  <2>5. CASE Tick
    BY <2>5, TickKeeps
  <2>6. CASE \E e \in Announced : Curate(e)
    BY <2>6, CurateKeeps
  <2>7. CASE UNCHANGED vars
    BY <2>7, StutterKeeps
  <2> QED  BY <2>1, <2>2, <2>3, <2>4, <2>5, <2>6, <2>7 DEF Next
<1> QED  BY <1>1, <1>2, PTL DEF Spec

(* A window is stored once unless two refreshes overlapped: the look-up by
   scope, bounds and source recognises the row of an earlier refresh, whatever
   its confidence (get_equivalent_inferred_window, ingest_detected_windows). *)
THEOREM StoredOnce == Spec => []WindowsAreStoredOnce
<1>1. IInv => WindowsAreStoredOnce
  BY DEF IInv, OnceInv, WindowsAreStoredOnce, Rows, Inferred, IsInferred, InferredSource, SameWindow
<1> QED  BY <1>1, InductiveInvariant, PTL

(* As long as every series is observed in order, each inferred row lies inside a
   window that detection finds again, although detection starts from nothing
   every time (detect). *)
THEOREM StayJustified == Spec => []WindowsStayJustified
<1>1. IInv => WindowsStayJustified
  BY DEF IInv, JustifiedInv, Justified, WindowsStayJustified, Rows, Inferred, IsInferred,
         InferredSource
<1> QED  BY <1>1, InductiveInvariant, PTL

\* The status of a filter selects what is labelled with it.
LEMMA LabelsAgree ==
    ASSUME NEW e, NEW at \in Int, e.start \in Int, e.end \in Int, e.start <= e.end,
           NEW status \in {"before_event", "during_event", "after_event"}
    PROVE  HasStatus(e, status, at) <=> EventStatus(e, at) = status
BY DEF HasStatus, EventStatus

(* A detected sale is over when it is stored: no list of upcoming sales shows it,
   a list shows it as running only at the instant of its last observed drop, and
   each status filter selects the rows that are labelled with that status
   (list_events, list_upcoming). *)
THEOREM DetectedAreOver == Spec => []DetectedSalesAreOver
<1>1. ASSUME IInv PROVE DetectedSalesAreOver
  <2>1. SUFFICES ASSUME NEW filters \in Filters
        PROVE LET shown == ListEvents(filters, now).items IN
        /\ \A v \in ListUpcoming(filters, now).items : v.event \notin Inferred
        /\ \A status \in {"before_event", "during_event", "after_event"} :
              ListEvents([filters EXCEPT !.status = status], now).items =
                {v \in shown : v.status = status}
        /\ \A v \in shown :
              (v.event \in Inferred /\ v.status = "during_event") => v.event.end = now
    BY DEF DetectedSalesAreOver
  <2> DEFINE shown == ListEvents(filters, now).items
  <2>2. now \in Int
    BY <1>1 DEF IInv, PointsInv
  <2>3. \A e \in events : /\ e.start \in Int /\ e.end \in Int /\ e.start <= e.end
                          /\ e \in Inferred => e.end <= now
    <3>1. \A e \in events : e \in Rows /\ (e \in Inferred => IsInferred(e))
      BY DEF Rows, Inferred, IsInferred, InferredSource
    <3> QED  BY <1>1, <3>1, RowBounds
  <2>4. /\ filters \in [{"retailer", "category", "brand", "source", "status"} ->
                         {filters[f] : f \in {"retailer", "category", "brand", "source", "status"}}]
        /\ filters.status = None
    BY <2>1 DEF Filters, NoFilter
  <2> DEFINE With(status) == [filters EXCEPT !.status = status]
             Selected == {e \in events :
                            \A f \in {"retailer", "category", "brand", "source"} :
                               filters[f] \in {None, e[f]}}
  <2>5. \A status : /\ With(status).status = status
                    /\ \A f \in {"retailer", "category", "brand", "source"} :
                          With(status)[f] = filters[f]
    BY <2>4
  <2>6. shown = {View(e, now) : e \in Selected}
    BY <2>4 DEF ListEvents, FilteredRows, Selects
  <2>7. \A status \in {"before_event", "during_event", "after_event"} :
          ListEvents(With(status), now).items =
            {View(e, now) : e \in {x \in Selected : HasStatus(x, status, now)}}
    <3> SUFFICES ASSUME NEW status \in {"before_event", "during_event", "after_event"}
                 PROVE  ListEvents(With(status), now).items =
                          {View(e, now) : e \in {x \in Selected : HasStatus(x, status, now)}}
      OBVIOUS
    <3>1. status # None
      BY SalesAssumption
    <3>2. FilteredRows(With(status), now) = {x \in Selected : HasStatus(x, status, now)}
      <4> HIDE DEF With
      <4> QED  BY <2>5, <3>1 DEF FilteredRows, Selects
    <3> QED  BY <3>2 DEF ListEvents
  <2>8. \A e \in Selected : \A status \in {"before_event", "during_event", "after_event"} :
          HasStatus(e, status, now) <=> View(e, now).status = status
    <3> SUFFICES ASSUME NEW e \in Selected,
                        NEW status \in {"before_event", "during_event", "after_event"}
                 PROVE  HasStatus(e, status, now) <=> View(e, now).status = status
      OBVIOUS
    <3>1. e \in events
      OBVIOUS
    <3>2. HasStatus(e, status, now) <=> EventStatus(e, now) = status
      BY <2>2, <2>3, <3>1, LabelsAgree
    <3> QED  BY <3>2 DEF View
  <2>9. \A v \in ListUpcoming(filters, now).items : v.event \notin Inferred
    <3>1. ListUpcoming(filters, now) = ListEvents(With("before_event"), now)
      BY DEF ListUpcoming, Upcoming
    <3>2. SUFFICES ASSUME NEW e \in Selected, HasStatus(e, "before_event", now), e \in Inferred
                   PROVE  FALSE
      BY <2>7, <3>1 DEF View
    <3>3. e \in events
      OBVIOUS
    <3>4. e.start \in Int /\ e.end \in Int /\ e.start <= e.end /\ e.end <= now
      BY <2>3, <3>2, <3>3
    <3>5. e.start > now
      BY <3>2 DEF HasStatus
    <3> QED  BY <2>2, <3>4, <3>5
  <2>10. \A status \in {"before_event", "during_event", "after_event"} :
           ListEvents(With(status), now).items = {v \in shown : v.status = status}
    BY <2>6, <2>7, <2>8
  <2>11. \A v \in shown : (v.event \in Inferred /\ v.status = "during_event") => v.event.end = now
    <3> SUFFICES ASSUME NEW e \in Selected, e \in Inferred, EventStatus(e, now) = "during_event"
                 PROVE  e.end = now
      BY <2>6 DEF View
    <3>1. e \in events
      OBVIOUS
    <3>2. e.end \in Int /\ e.end <= now
      BY <2>3, <3>1
    <3>3. ~(now > e.end)
      BY DEF EventStatus
    <3> QED  BY <2>2, <3>2, <3>3
  <2> QED  BY <2>9, <2>10, <2>11
<1> QED  BY <1>1, InductiveInvariant, PTL

-----------------------------------------------------------------------------
(* The rows are finitely many.                                             *)

LEMMA ImageIsFinite ==
    ASSUME NEW S, IsFiniteSet(S), NEW f
    PROVE  IsFiniteSet({f[x] : x \in S})
<1> DEFINE T == {f[x] : x \in S}
           g == [x \in S |-> f[x]]
<1>1. g \in Surjection(S, T)
  BY DEF Surjection
<1> QED  BY <1>1, FS_Surjection

LEMMA RunsAreFinite == ASSUME NEW S, IsFiniteSet(S) PROVE IsFiniteSet(Runs(S))
<1> DEFINE starts == {p \in S : ~\E q \in S : /\ Earlier(q, p)
                                              /\ p.observedAt - q.observedAt <= MaxGap}
           runOf(s) == {q \in S : /\ ~Earlier(q, s)
                                  /\ ~\E t \in starts : Earlier(s, t) /\ ~Earlier(q, t)}
           f == [s \in starts |-> runOf(s)]
<1>1. Runs(S) = {runOf(s) : s \in starts}
  BY Zenon DEF Runs
<1>2. IsFiniteSet(starts)
  BY FS_Subset
<1> HIDE DEF starts
<1>3. {runOf(s) : s \in starts} = {f[s] : s \in starts}
  OBVIOUS
<1> HIDE DEF f
<1>4. IsFiniteSet({f[s] : s \in starts})
  BY <1>2, ImageIsFinite
<1> QED  BY <1>1, <1>3, <1>4

LEMMA WindowsAreFinite ==
    ASSUME NEW S, IsFiniteSet(S), NEW scope
    PROVE  IsFiniteSet(WindowsOf(S, scope))
<1> DEFINE stated == {p[scope] : p \in S}
           targets == stated \ {None}
           ofTarget(t) == {p \in S : p[scope] = t}
           listings(run) == Cardinality({<<p.listing, p.sellerId>> : p \in run})
           field(x, t) == IF x = scope THEN t ELSE None
           window(t, run) ==
              [retailer |-> field("retailer", t), category |-> field("category", t),
               brand |-> field("brand", t),
               start |-> Min({p.observedAt : p \in run}), end |-> WindowEnd(run),
               source |-> "observed_price_inference",
               confidence |-> DetectionConfidence(listings(run))]
           kept(t) == {r \in Runs(ofTarget(t)) : listings(r) >= MinListings}
           windows(t) == {window(t, run) : run \in kept(t)}
<1>1. WindowsOf(S, scope) = UNION {windows(t) : t \in targets}
  BY Zenon DEF WindowsOf
<1>2. IsFiniteSet(targets)
  <2> DEFINE f == [p \in S |-> p[scope]]
  <2>1. stated = {f[p] : p \in S}
    OBVIOUS
  <2> HIDE DEF f, stated
  <2>2. IsFiniteSet(stated)
    BY <2>1, ImageIsFinite
  <2> QED  BY <2>2, FS_Subset
<1>3. ASSUME NEW t PROVE IsFiniteSet(windows(t))
  <2>1. IsFiniteSet(ofTarget(t))
    BY FS_Subset
  <2>2. IsFiniteSet(kept(t))
    <3> HIDE DEF ofTarget, listings
    <3>1. IsFiniteSet(Runs(ofTarget(t)))
      BY <2>1, RunsAreFinite
    <3> QED  BY <3>1, FS_Subset
  <2> DEFINE f == [run \in kept(t) |-> window(t, run)]
  <2> HIDE DEF kept, window
  <2>3. windows(t) = {f[run] : run \in kept(t)}
    OBVIOUS
  <2> HIDE DEF f
  <2>4. IsFiniteSet({f[run] : run \in kept(t)})
    BY <2>2, ImageIsFinite
  <2> QED  BY <2>3, <2>4
<1> HIDE DEF windows, targets
<1>4. IsFiniteSet({windows(t) : t \in targets})
  <2> DEFINE f == [t \in targets |-> windows(t)]
  <2>1. {windows(t) : t \in targets} = {f[t] : t \in targets}
    OBVIOUS
  <2> HIDE DEF f
  <2> QED  BY <1>2, <2>1, ImageIsFinite
<1>5. \A T \in {windows(t) : t \in targets} : IsFiniteSet(T)
  BY <1>3
<1> QED  BY <1>1, <1>4, <1>5, FS_UNION

LEMMA DetectedAreFinite == ASSUME NEW S, IsFiniteSet(S) PROVE IsFiniteSet(Detect(S))
<1>1. IsFiniteSet(Discounted(S))
  <2>1. Discounted(S) \in SUBSET S
    BY DEF Discounted
  <2> QED  BY <2>1, FS_Subset
<1> DEFINE w(scope) == WindowsOf(Discounted(S), scope)
<1>2. Detect(S) = w("retailer") \cup w("category") \cup w("brand")
  BY DEF Detect
<1>3. IsFiniteSet(w("retailer")) /\ IsFiniteSet(w("category")) /\ IsFiniteSet(w("brand"))
  BY <1>1, WindowsAreFinite
<1> HIDE DEF w
<1>4. IsFiniteSet(w("retailer") \cup w("category"))
  BY <1>3, FS_Union
<1> QED  BY <1>2, <1>3, <1>4, FS_Union

FiniteInv == /\ IsFiniteSet(events)
             /\ \A w \in Workers : pending[w] # None => IsFiniteSet(pending[w])

\* There are finitely many rows of each kind.
THEOREM RowsAreFinite == Spec => []FiniteInv
<1>1. Init => FiniteInv
  BY SalesAssumption DEF Init, FiniteInv
<1>2. IInv /\ FiniteInv /\ [Next]_vars => FiniteInv'
  <2> SUFFICES ASSUME IInv, FiniteInv, [Next]_vars PROVE FiniteInv'
    OBVIOUS
  <2>0. pending = [w \in Workers |-> pending[w]]
    BY DEF IInv, TimeInv
  <2>1. CASE UNCHANGED <<events, pending>>
    BY <2>1 DEF FiniteInv
  <2>2. ASSUME NEW w \in Workers, NEW r \in {o.retailer : o \in Offers}, Refresh(w, r)
        PROVE  FiniteInv'
    <3> DEFINE fresh == {win \in Detect(PointsOfRetailer(r)) :
                            ~\E e \in events : Equivalent(e, win)}
               rows == {RowOf(win, w) : win \in fresh}
    <3>1. events' = events /\ pending' = [pending EXCEPT ![w] = rows]
      BY <2>2 DEF Refresh
    <3>2. IsFiniteSet(fresh)
      <4>1. PointsOfRetailer(r) \in SUBSET snapshots
        BY DEF PointsOfRetailer
      <4>2. IsFiniteSet(Detect(PointsOfRetailer(r)))
        BY <4>1, FS_Subset, DetectedAreFinite DEF IInv, PointsInv
      <4> QED  BY <4>2, FS_Subset
    <3> HIDE DEF fresh
    <3>3. IsFiniteSet(rows)
      <4> DEFINE f == [win \in fresh |-> RowOf(win, w)]
      <4>1. rows = {f[win] : win \in fresh}
        OBVIOUS
      <4> HIDE DEF f, rows
      <4> QED  BY <3>2, <4>1, ImageIsFinite
    <3> HIDE DEF rows
    <3>4. pending'[w] = rows /\ \A v \in Workers \ {w} : pending'[v] = pending[v]
      BY <2>0, <3>1
    <3> QED  BY <3>1, <3>3, <3>4 DEF FiniteInv
  <2>3. ASSUME NEW w \in Workers, Commit(w) PROVE FiniteInv'
    <3>1. /\ pending[w] # None /\ events' = events \cup pending[w]
          /\ pending' = [pending EXCEPT ![w] = None]
      BY <2>3 DEF Commit
    <3>2. pending'[w] = None /\ \A v \in Workers \ {w} : pending'[v] = pending[v]
      BY <2>0, <3>1
    <3>3. IsFiniteSet(events \cup pending[w])
      BY <3>1, FS_Union DEF FiniteInv
    <3> QED  BY <3>1, <3>2, <3>3 DEF FiniteInv
  <2>4. ASSUME NEW w \in Workers, Abort(w) PROVE FiniteInv'
    <3>1. events' = events /\ pending' = [pending EXCEPT ![w] = None]
      BY <2>4 DEF Abort
    <3>2. pending'[w] = None /\ \A v \in Workers \ {w} : pending'[v] = pending[v]
      BY <2>0, <3>1
    <3> QED  BY <3>1, <3>2 DEF FiniteInv
  <2>5. ASSUME NEW e \in Announced, Curate(e) PROVE FiniteInv'
    <3>1. events' = events \cup {e} /\ pending' = pending
      BY <2>5 DEF Curate
    <3>2. IsFiniteSet(events \cup {e})
      BY FS_AddElement DEF FiniteInv
    <3> QED  BY <3>1, <3>2 DEF FiniteInv
  <2> QED  BY <2>1, <2>2, <2>3, <2>4, <2>5 DEF Next, Observe, Tick, vars
<1> QED  BY <1>1, <1>2, InductiveInvariant, PTL DEF Spec

-----------------------------------------------------------------------------
(* The split of the examples.                                              *)

Rank(T, t) == Cardinality({u \in T : u <= t})

LEMMA RankGrows ==
    ASSUME NEW T \in SUBSET Int, IsFiniteSet(T), NEW s \in T, NEW t \in T
    PROVE  /\ Rank(T, t) \in 1..Cardinality(T)
           /\ s < t => Rank(T, s) < Rank(T, t)
<1> DEFINE upTo(x) == {u \in T : u <= x}
<1>1. \A x \in T : upTo(x) \in SUBSET T /\ x \in upTo(x)
  OBVIOUS
<1>2. \A x \in T : IsFiniteSet(upTo(x)) /\ Cardinality(upTo(x)) <= Cardinality(T)
  <2> TAKE x \in T
  <2> DEFINE U == upTo(x)
  <2>1. U \in SUBSET T
    BY <1>1
  <2> HIDE DEF U
  <2>2. IsFiniteSet(U) /\ Cardinality(U) <= Cardinality(T)
    BY <2>1, FS_Subset
  <2> QED  BY <2>2 DEF U
<1>3. \A x \in T : Cardinality(upTo(x)) \in Nat /\ Cardinality(upTo(x)) # 0
  <2> TAKE x \in T
  <2> DEFINE U == upTo(x)
  <2>1. U # {} /\ IsFiniteSet(U)
    BY <1>1, <1>2
  <2> HIDE DEF U
  <2>2. Cardinality(U) \in Nat /\ Cardinality(U) # 0
    BY <2>1, FS_CardinalityType, FS_EmptySet
  <2> QED  BY <2>2 DEF U
<1>4. s < t => upTo(s) \in SUBSET upTo(t) /\ upTo(s) # upTo(t)
  <2> SUFFICES ASSUME s < t PROVE upTo(s) \in SUBSET upTo(t) /\ upTo(s) # upTo(t)
    OBVIOUS
  <2>1. t \in upTo(t) /\ t \notin upTo(s)
    OBVIOUS
  <2>2. \A u \in upTo(s) : u \in upTo(t)
    OBVIOUS
  <2> QED  BY <2>1, <2>2
<1>5. Cardinality(T) \in Nat
  BY FS_CardinalityType
<1>6. /\ Rank(T, t) = Cardinality(upTo(t)) /\ Rank(T, s) = Cardinality(upTo(s))
  BY DEF Rank
<1> HIDE DEF upTo
<1>7. s < t => Cardinality(upTo(s)) <= Cardinality(upTo(t))
                 /\ Cardinality(upTo(s)) # Cardinality(upTo(t))
  BY <1>2, <1>4, FS_Subset
<1> QED  BY <1>2, <1>3, <1>5, <1>6, <1>7

\* There is a k-th instant, and later ones are later.
LEMMA InstantIsThere ==
    ASSUME NEW T \in SUBSET Int, IsFiniteSet(T), NEW k \in 1..Cardinality(T)
    PROVE  Instant(T, k) \in T /\ Rank(T, Instant(T, k)) = k
<1> DEFINE n == Cardinality(T)
           f == [t \in T |-> Rank(T, t)]
<1>1. n \in Nat
  BY FS_CardinalityType
<1>2. f \in [T -> 1..n] /\ \A s, t \in T : f[s] = f[t] => s = t
  <2>1. f \in [T -> 1..n]
    BY RankGrows
  <2>2. ASSUME NEW s \in T, NEW t \in T, f[s] = f[t] PROVE s = t
    <3>1. Rank(T, s) \in Int /\ Rank(T, t) \in Int
      BY RankGrows
    <3>2. ~(s < t) /\ ~(t < s)
      BY <2>2, <3>1, RankGrows
    <3> QED  BY <3>2
  <2> QED  BY <2>1, <2>2
<1>3. f \in Injection(T, 1..n)
  BY <1>2 DEF Injection, IsInjective
<1>4. IsFiniteSet(1..n) /\ Cardinality(1..n) = n
  BY <1>1, FS_Interval
<1> HIDE DEF f
<1>5. f \in Surjection(T, 1..n)
  BY <1>3, <1>4, FS_Injection
<1>6. \E t \in T : f[t] = k
  BY <1>5 DEF Surjection
<1>7. \E t \in T : Rank(T, t) = k
  BY <1>6 DEF f
<1> QED  BY <1>7, Zenon DEF Instant, Rank

LEMMA InstantsAreOrdered ==
    ASSUME NEW T \in SUBSET Int, IsFiniteSet(T),
           NEW j \in 1..Cardinality(T), NEW k \in 1..Cardinality(T), j < k
    PROVE  Instant(T, j) < Instant(T, k)
<1> DEFINE s == Instant(T, j)
           t == Instant(T, k)
<1>1. s \in T /\ Rank(T, s) = j /\ t \in T /\ Rank(T, t) = k
  BY InstantIsThere
<1> HIDE DEF s, t
<1>2. ~(t < s) /\ t # s
  <2>1. j \in Int /\ k \in Int
    BY FS_CardinalityType
  <2> QED  BY <1>1, <2>1, RankGrows
<1>3. s < t
  BY <1>1, <1>2
<1> QED  BY <1>3 DEF s, t

LEMMA OfTwo ==
    ASSUME NEW x \in Int, NEW y \in Int
    PROVE  /\ Max({x, y}) = IF x >= y THEN x ELSE y
           /\ Min({x, y}) = IF x <= y THEN x ELSE y
BY DEF Max, Min

\* Three instants fill three folds, fewer do not.
LEMMA FoldEndsAre ==
    ASSUME NEW n \in Nat \ {0}, NEW a \in Int, NEW b \in Int
    PROVE  LET first  == Max({1, FoldEnds(n, a, b)[1]})
               second == Max({1, FoldEnds(n, a, b)[2]})
           IN  /\ n >= 3 => first \in 1..n /\ second \in 1..n /\ first < second /\ second < n
               /\ n < 3 => first = 1 /\ second = 1
<1> DEFINE q1 == (n * a) \div 100
           q2 == (n * (a + b)) \div 100
           share1 == Max({1, q1})
           share2 == Max({share1 + 1, q2})
           end2 == Min({share2, n - 1})
           end1 == IF share1 >= end2 THEN Max({1, end2 - 1}) ELSE share1
<1>1. FoldEnds(n, a, b) = <<end1, end2>>
  BY Zenon DEF FoldEnds
<1>2. q1 \in Int /\ q2 \in Int
  OBVIOUS
<1> HIDE DEF q1, q2
<1>3. share1 \in Int /\ share1 >= 1
  BY <1>2, OfTwo
<1> HIDE DEF share1
<1>4. share2 \in Int /\ share2 >= share1 + 1
  BY <1>2, <1>3, OfTwo
<1> HIDE DEF share2
<1>5. end2 = IF share2 <= n - 1 THEN share2 ELSE n - 1
  BY <1>4, OfTwo
<1> HIDE DEF end2
<1>6. end2 \in Int /\ end2 <= n - 1 /\ (n >= 3 => end2 >= 2) /\ (n < 3 => end2 <= 1)
  BY <1>3, <1>4, <1>5
<1>7. Max({1, end2 - 1}) = IF 1 >= end2 - 1 THEN 1 ELSE end2 - 1
  BY <1>6, OfTwo
<1>8. /\ end1 \in Int
      /\ n >= 3 => 1 <= end1 /\ end1 < end2
      /\ n < 3 => end1 <= 1
  <2>1. CASE share1 >= end2
    BY <1>3, <1>6, <1>7, <2>1
  <2>2. CASE ~(share1 >= end2)
    BY <1>3, <1>6, <2>2
  <2> QED  BY <2>1, <2>2
<1> HIDE DEF end1
<1>9. /\ Max({1, end1}) = IF 1 >= end1 THEN 1 ELSE end1
      /\ Max({1, end2}) = IF 1 >= end2 THEN 1 ELSE end2
  BY <1>6, <1>8, OfTwo
<1>10. FoldEnds(n, a, b)[1] = end1 /\ FoldEnds(n, a, b)[2] = end2
  BY <1>1
<1> QED  BY <1>6, <1>8, <1>9, <1>10

\* An example is of the instant at which its sale began.
LEMMA BuiltAt ==
    ASSUME NEW points, NEW rows, NEW at, NEW target, ObservationsAvailableAt(points, at) # {}
    PROVE  Build(points, rows, at, target).asOf = at
BY DEF Build

LEMMA ExamplesAreDated ==
    ASSUME IInv, FiniteInv
    PROVE  LET examples == LabeledExamples(snapshots, events) IN
           IsFiniteSet(examples) /\ \A x \in examples : AsOf(x) \in Int
<1> DEFINE sales == {s \in Offers \X events : IsExample(snapshots, events, s[1], s[2])}
           f == [s \in sales |-> Example(snapshots, events, s[1], s[2])]
<1>1. LabeledExamples(snapshots, events) = {f[s] : s \in sales}
  BY DEF LabeledExamples
<1>2. IsFiniteSet(sales)
  <2>1. IsFiniteSet(Offers \X events)
    BY SalesAssumption, FS_Product DEF FiniteInv
  <2> QED  BY <2>1, FS_Subset
<1>3. ASSUME NEW s \in sales PROVE AsOf(f[s]) \in Int
  <2>1. s[2] \in events /\ IsExample(snapshots, events, s[1], s[2])
    OBVIOUS
  <2>2. s[2].start \in Int
    BY <2>1 DEF IInv, TimeInv, Rows
  <2>3. AsOf(Example(snapshots, events, s[1], s[2])) = s[2].start
    BY <2>1, BuiltAt DEF IsExample, Example, AsOf
  <2> QED  BY <2>2, <2>3
<1> HIDE DEF f, sales
<1>4. IsFiniteSet({f[s] : s \in sales})
  BY <1>2, ImageIsFinite
<1> QED  BY <1>1, <1>3, <1>4

\* The folds of any examples, at any fractions.
LEMMA SplitIs ==
    ASSUME NEW E, IsFiniteSet(E), \A x \in E : AsOf(x) \in Int,
           NEW a \in Int, NEW b \in Int
    PROVE  LET split == ChronologicalSplit(E, a, b)
               before(xs, ys) == \A x \in xs, y \in ys : AsOf(x) < AsOf(y)
           IN  /\ split.status = "TRAINED" =>
                     /\ split.train \cup split.validation \cup split.test = E
                     /\ before(split.train, split.validation)
                     /\ before(split.train \cup split.validation, split.test)
               /\ {MinTrainRows, MinValidationRows, MinTestRows} = {1} =>
                     (split.status = "TRAINED" <=> Cardinality({AsOf(x) : x \in E}) >= 3)
<1> DEFINE T == {AsOf(x) : x \in E}
           n == Cardinality(T)
           j == Max({1, FoldEnds(n, a, b)[1]})
           k == Max({1, FoldEnds(n, a, b)[2]})
           c == Instant(T, j)
           d == Instant(T, k)
           train == {x \in E : AsOf(x) <= c}
           validation == {x \in E : c < AsOf(x) /\ AsOf(x) <= d}
           test == {x \in E : AsOf(x) > d}
           split == ChronologicalSplit(E, a, b)
           trained == [status |-> "TRAINED", code |-> None,
                       train |-> train, validation |-> validation, test |-> test]
           few(S, m) == Cardinality(S) < m
<1>1. split = IF E = {} THEN InsufficientData("no_labeled_examples")
              ELSE IF few(train, MinTrainRows) THEN InsufficientData("below_minimum_train_rows")
              ELSE IF few(validation, MinValidationRows)
                   THEN InsufficientData("below_minimum_validation_rows")
              ELSE IF few(test, MinTestRows) THEN InsufficientData("below_minimum_test_rows")
              ELSE trained
  BY Zenon DEF ChronologicalSplit
<1>2. /\ T \in SUBSET Int /\ IsFiniteSet(T) /\ n \in Nat
      /\ n = 0 <=> E = {}
  <2> DEFINE f == [x \in E |-> AsOf(x)]
  <2>1. T = {f[x] : x \in E}
    OBVIOUS
  <2>2. T \in SUBSET Int /\ (T = {} <=> E = {})
    OBVIOUS
  <2> HIDE DEF f, T
  <2>3. IsFiniteSet(T)
    BY <2>1, ImageIsFinite
  <2> QED  BY <2>2, <2>3, FS_CardinalityType, FS_EmptySet
<1>3. \A t \in T : \E x \in E : AsOf(x) = t
  OBVIOUS
<1>4. IsFiniteSet(train) /\ IsFiniteSet(validation) /\ IsFiniteSet(test)
  BY FS_Subset
<1>5. \A x \in E : AsOf(x) \in T
  OBVIOUS
<1> HIDE DEF T, n
<1>6. n # 0 => /\ n >= 3 => j \in 1..n /\ k \in 1..n /\ j < k /\ k < n
               /\ n < 3 => j = 1 /\ k = 1
  BY <1>2, FoldEndsAre
<1> HIDE DEF j, k
<1>7. n # 0 => j \in 1..n /\ k \in 1..n
  BY <1>2, <1>6
<1>8. n # 0 => c \in T /\ d \in T /\ c \in Int /\ d \in Int
  BY <1>2, <1>7, InstantIsThere DEF n
<1>9. n # 0 => c <= d /\ (n >= 3 => c < d) /\ (n < 3 => c = d)
  <2>1. n >= 3 => c < d
    BY <1>2, <1>6, InstantsAreOrdered DEF n
  <2> QED  BY <1>2, <1>6, <1>8, <2>1
<1>10. n >= 3 => Instant(T, n) \in T /\ d < Instant(T, n)
  <2> SUFFICES ASSUME n >= 3 PROVE Instant(T, n) \in T /\ d < Instant(T, n)
    OBVIOUS
  <2>1. n \in 1..n /\ k \in 1..n /\ k < n
    BY <1>2, <1>6
  <2> QED  BY <1>2, <2>1, InstantIsThere, InstantsAreOrdered DEF n
<1> HIDE DEF c, d
<1>11. n # 0 =>
         /\ train \cup validation \cup test = E
         /\ \A x \in train, y \in validation : AsOf(x) < AsOf(y)
         /\ \A x \in train \cup validation, y \in test : AsOf(x) < AsOf(y)
  BY <1>8, <1>9
<1>12. n # 0 => /\ train # {}
                /\ n >= 3 => validation # {} /\ test # {}
                /\ n < 3 => validation = {}
  <2> SUFFICES ASSUME n # 0
               PROVE  /\ train # {}
                      /\ n >= 3 => validation # {} /\ test # {}
                      /\ n < 3 => validation = {}
    OBVIOUS
  <2>1. train # {}
    <3>1. PICK x \in E : AsOf(x) = c
      BY <1>3, <1>8
    <3> QED  BY <1>8, <3>1
  <2>2. ASSUME n >= 3 PROVE validation # {} /\ test # {}
    <3>1. PICK x \in E : AsOf(x) = d
      BY <1>3, <1>8
    <3>2. PICK y \in E : AsOf(y) = Instant(T, n)
      BY <1>3, <1>10, <2>2
    <3> QED  BY <1>8, <1>9, <1>10, <2>2, <3>1, <3>2
  <2>3. ASSUME n < 3 PROVE validation = {}
    BY <1>8, <1>9, <2>3
  <2> QED  BY <2>1, <2>2, <2>3
<1> HIDE DEF train, validation, test, split
<1>13. \A code : InsufficientData(code).status # "TRAINED"
  BY DEF InsufficientData
<1>14. split.status = "TRAINED" => n # 0 /\ split = trained
  BY <1>1, <1>2, <1>13
<1>15. split.status = "TRAINED" =>
         /\ split.train \cup split.validation \cup split.test = E
         /\ \A x \in split.train, y \in split.validation : AsOf(x) < AsOf(y)
         /\ \A x \in split.train \cup split.validation, y \in split.test : AsOf(x) < AsOf(y)
  BY <1>11, <1>14
<1>16. ASSUME {MinTrainRows, MinValidationRows, MinTestRows} = {1}
       PROVE  split.status = "TRAINED" <=> n >= 3
  <2>1. MinTrainRows = 1 /\ MinValidationRows = 1 /\ MinTestRows = 1
    BY <1>16
  <2>2. /\ few(train, 1) <=> train = {}
        /\ few(validation, 1) <=> validation = {}
        /\ few(test, 1) <=> test = {}
    BY <1>4, FS_EmptySet, FS_CardinalityType
  <2> HIDE DEF few
  <2>3. CASE n = 0
    BY <1>2, <1>14, <2>3
  <2>4. CASE n # 0 /\ n < 3
    BY <1>1, <1>2, <1>12, <1>13, <2>1, <2>2, <2>4
  <2>5. CASE n >= 3
    BY <1>1, <1>2, <1>12, <2>1, <2>2, <2>5
  <2> QED  BY <1>2, <2>3, <2>4, <2>5
<1> QED  BY <1>15, <1>16 DEF T, n, split

(* Whatever the fractions, no fold overlaps the next in time, every labelled
   example is in one, rows of one instant stay together, and three instants are
   exactly what three folds need (chronological_split, build_labeled_examples). *)
THEOREM SplitsAreChronological == Spec => []SplitIsChronological
<1>1. ASSUME IInv, FiniteInv PROVE SplitIsChronological
  <2> DEFINE E == LabeledExamples(snapshots, events)
             goal(a, b) ==
               LET split == ChronologicalSplit(E, a, b)
                   before(xs, ys) == \A x \in xs, y \in ys : AsOf(x) < AsOf(y)
               IN  /\ split.status = "TRAINED" =>
                         /\ split.train \cup split.validation \cup split.test = E
                         /\ before(split.train, split.validation)
                         /\ before(split.train \cup split.validation, split.test)
                   /\ {MinTrainRows, MinValidationRows, MinTestRows} = {1} =>
                         (split.status = "TRAINED" <=> Cardinality({AsOf(x) : x \in E}) >= 3)
  <2>1. IsFiniteSet(E) /\ \A x \in E : AsOf(x) \in Int
    BY <1>1, ExamplesAreDated
  <2> HIDE DEF E
  <2>2. \A a, b \in Int : goal(a, b)
    BY <2>1, SplitIs
  <2>3. /\ {1, 34, 50, TrainPercent, 99} \subseteq Int
        /\ {1, ValidationPercent, 50, 99} \subseteq Int
    BY SplitAssumption
  <2> HIDE DEF goal
  <2>4. \A a \in {1, 34, 50, TrainPercent, 99}, b \in {1, ValidationPercent, 50, 99} : goal(a, b)
    BY <2>2, <2>3
  <2> QED  BY <2>4, Zenon DEF SplitIsChronological, goal, E
<1> QED  BY <1>1, InductiveInvariant, RowsAreFinite, PTL

-----------------------------------------------------------------------------
(* What was known at an instant.                                           *)

PendingInv == \A w \in Workers : \A e \in RowsOf(w) : IsInferred(e)

\* What a refresh inserts is inferred.
THEOREM InsertedAreInferred == Spec => []PendingInv
<1>1. Init => PendingInv
  BY DEF Init, PendingInv, RowsOf
<1>2. ASSUME IInv, PendingInv, [Next]_vars PROVE PendingInv'
  <2>1. ASSUME NEW v \in Workers, NEW r \in {o.retailer : o \in Offers}, Refresh(v, r)
        PROVE  PendingInv'
    <3> DEFINE found == Detect(PointsOfRetailer(r))
               fresh == {win \in found : ~\E e \in events : Equivalent(e, win)}
               new   == {RowOf(win, v) : win \in fresh}
    <3>1. pending' = [pending EXCEPT ![v] = new] /\ pending = [w \in Workers |-> pending[w]]
      BY <1>2, <2>1 DEF Refresh, IInv, TimeInv
    <3>2. \A win \in found : win.source = InferredSource
      <4>1. now \in Nat /\ Points(PointsOfRetailer(r), now)
        BY <1>2 DEF IInv, PointsInv, PointsOfRetailer, Points
      <4> QED  BY <4>1, DetectedWindows
    <3> HIDE DEF found
    <3>3. \A e \in new : IsInferred(e)
      BY <3>2 DEF RowOf, IsInferred
    <3> HIDE DEF new
    <3>4. pending'[v] = new /\ \A w \in Workers \ {v} : pending'[w] = pending[w]
      BY <3>1
    <3> QED  BY <1>2, <3>3, <3>4 DEF PendingInv, RowsOf
  <2>2. ASSUME NEW v \in Workers, pending' = [pending EXCEPT ![v] = None] PROVE PendingInv'
    <3>1. pending = [w \in Workers |-> pending[w]]
      BY <1>2 DEF IInv, TimeInv
    <3>2. pending'[v] = None /\ \A w \in Workers \ {v} : pending'[w] = pending[w]
      BY <2>2, <3>1
    <3> QED  BY <1>2, <3>2 DEF PendingInv, RowsOf
  <2>3. ASSUME pending' = pending PROVE PendingInv'
    BY <1>2, <2>3 DEF PendingInv, RowsOf
  <2> QED  BY <1>2, <2>1, <2>2, <2>3 DEF Next, Observe, Commit, Abort, Curate, Tick, vars
<1>3. IInv /\ PendingInv /\ [Next]_vars => PendingInv'
  BY <1>2
<1> QED  BY <1>1, <1>3, InductiveInvariant, PTL DEF Spec

\* What FeatureEngineer.build makes of what was available.
Made(available, asOf, known, previous) ==
    IF available = {} THEN None
    ELSE [asOf       |-> asOf,
          price      |-> AnalysisPrice(Latest(available)),
          seller     |-> Latest(available).sellerId,
          avgWeek    |-> WindowAverage(available, asOf, Week).value,
          avgMonth   |-> WindowAverage(available, asOf, Month).value,
          avgQuarter |-> WindowAverage(available, asOf, Quarter).value,
          low        |-> HistoricalLow(available).value,
          high       |-> HistoricalHigh(available).value,
          volatility |-> Variance(available).value,
          previous   |-> previous,
          event      |-> known,
          daysUntil  |-> IF known = None THEN None ELSE Max({0, known.start - asOf})]

LEMMA BuiltFromAvailable ==
    ASSUME NEW points, NEW rows, NEW asOf
    PROVE  LET available  == ObservationsAvailableAt(points, asOf)
               applicable == Applicable(rows, Latest(available)) IN
           Build(points, rows, asOf, None) =
             Made(available, asOf, KnownEvent(applicable, asOf, None),
                  PreviousSales(CompletedEventsBefore(applicable, asOf), available))
BY DEF Build, Made

\* The features but those of sales do not depend on these.
LEMMA OnlySalesDiffer ==
    ASSUME NEW available, NEW asOf, NEW k, NEW l, NEW p, NEW q, available # {}
    PROVE  LET was == Made(available, asOf, k, p)
               is  == Made(available, asOf, l, q) IN
           /\ ButForSales(is) = ButForSales(was)
           /\ was.previous = p /\ is.previous = q
           /\ k = l => was.event = is.event /\ was.daysUntil = is.daysUntil
<1> DEFINE days(e) == IF e = None THEN None ELSE Max({0, e.start - asOf})
           M(e, d, x) ==
             [asOf       |-> asOf,
              price      |-> AnalysisPrice(Latest(available)),
              seller     |-> Latest(available).sellerId,
              avgWeek    |-> WindowAverage(available, asOf, Week).value,
              avgMonth   |-> WindowAverage(available, asOf, Month).value,
              avgQuarter |-> WindowAverage(available, asOf, Quarter).value,
              low        |-> HistoricalLow(available).value,
              high       |-> HistoricalHigh(available).value,
              volatility |-> Variance(available).value,
              previous   |-> x,
              event      |-> e,
              daysUntil  |-> d]
<1>1. \A e, x : Made(available, asOf, e, x) = M(e, days(e), x)
  BY DEF Made
<1> HIDE DEF days
<1>2. ASSUME NEW e, NEW d, NEW x
      PROVE  ButForSales(M(e, d, x)) = M(None, None, None)
  <2>1. [M(e, d, x) EXCEPT !.previous = None] = M(e, d, None)
    OBVIOUS
  <2>2. [M(e, d, None) EXCEPT !.event = None] = M(None, d, None)
    OBVIOUS
  <2>3. [M(None, d, None) EXCEPT !.daysUntil = None] = M(None, None, None)
    OBVIOUS
  <2> HIDE DEF M
  <2>4. ButForSales(M(e, d, x)) =
          [[[M(e, d, x) EXCEPT !.previous = None] EXCEPT !.event = None]
             EXCEPT !.daysUntil = None]
    BY Zenon DEF ButForSales
  <2> QED  BY <2>1, <2>2, <2>3, <2>4
<1>3. ASSUME NEW e, NEW d, NEW x
      PROVE  M(e, d, x).previous = x /\ M(e, d, x).event = e /\ M(e, d, x).daysUntil = d
  OBVIOUS
<1> HIDE DEF M
<1> QED  BY <1>1, <1>2, <1>3

\* Rows that were inferred, or that were over, do not change the sale to come.
LEMMA KnownEventStays ==
    ASSUME NEW old, NEW rows, NEW asOf \in Int, old \subseteq rows,
           \A e \in rows : e.end \in Int,
           \A e \in rows \ old : IsInferred(e) \/ ~(e.end >= asOf)
    PROVE  KnownEvent(old, asOf, None) = KnownEvent(rows, asOf, None)
<1> DEFINE usable(S) == {e \in S : EventScheduleKnownAt(e, asOf) /\ e.end >= asOf}
<1>1. usable(old) = usable(rows)
  BY DEF EventScheduleKnownAt, IsInferred, InferredSource
<1>2. \A S : KnownEvent(S, asOf, None) =
             IF usable(S) = {} THEN None
             ELSE CHOOSE e \in usable(S) : \A f \in usable(S) : Before(e, f)
  BY DEF KnownEvent
<1> QED  BY <1>1, <1>2

\* Two readings of the features agree, but for the previous sales when a row of
\* one was added in between, and the sale to come when a row of one was curated.
Agree(was, is, old, rows, asOf) ==
    /\ ButForSales(is) = ButForSales(was)
    /\ is.previous # was.previous => \E e \in rows \ old : e.end < asOf
    /\ <<is.event, is.daysUntil>> # <<was.event, was.daysUntil>> =>
         \E e \in (rows \ old) \cap Announced : e.end >= asOf

LEMMA FeaturesStay ==
    ASSUME NEW P, NEW Q, NEW old, NEW rows, NEW asOf \in Int, NEW o \in Offers,
           P \subseteq Q, old \subseteq rows,
           \A e \in rows : e.end \in Int,
           \A e \in rows \ old : IsInferred(e) \/ e \in Announced,
           ~\E s \in Q \ P : s.createdAt < asOf
    PROVE  \/ FeaturesAt(o, Q, rows, asOf) = FeaturesAt(o, P, old, asOf)
           \/ /\ ObservationsAvailableAt(Group(P, o), asOf) # {}
              /\ Agree(FeaturesAt(o, P, old, asOf), FeaturesAt(o, Q, rows, asOf), old, rows, asOf)
<1> DEFINE available == ObservationsAvailableAt(Group(P, o), asOf)
           current   == Latest(available)
           before(R) == PreviousSales(CompletedEventsBefore(Applicable(R, current), asOf),
                                      available)
           next(R)   == KnownEvent(Applicable(R, current), asOf, None)
<1>1. ObservationsAvailableAt(Group(Q, o), asOf) = available
  BY DEF ObservationsAvailableAt, QualifyingObservations, ObservationAvailableAt, Group
<1>2. ~(\E e \in (rows \ old) \cap Announced : e.end >= asOf) => next(old) = next(rows)
  <2> SUFFICES ASSUME ~\E e \in (rows \ old) \cap Announced : e.end >= asOf
      PROVE  next(old) = next(rows)
    OBVIOUS
  <2> DEFINE A == Applicable(old, current)
             B == Applicable(rows, current)
  <2>1. /\ A \subseteq B
        /\ \A e \in B : e.end \in Int
        /\ \A e \in B \ A : IsInferred(e) \/ ~(e.end >= asOf)
    BY DEF Applicable
  <2> HIDE DEF A, B
  <2>2. KnownEvent(A, asOf, None) = KnownEvent(B, asOf, None)
    BY <2>1, KnownEventStays
  <2> QED  BY <2>2 DEF A, B
<1>3. ~(\E e \in rows \ old : e.end < asOf) => before(old) = before(rows)
  <2> SUFFICES ASSUME ~\E e \in rows \ old : e.end < asOf
      PROVE  before(old) = before(rows)
    OBVIOUS
  <2>1. CompletedEventsBefore(Applicable(rows, current), asOf) =
          CompletedEventsBefore(Applicable(old, current), asOf)
    BY DEF CompletedEventsBefore, Applicable
  <2> QED  BY <2>1
<1>4. FeaturesAt(o, P, old, asOf) = Made(available, asOf, next(old), before(old))
  BY BuiltFromAvailable DEF FeaturesAt
<1>5. FeaturesAt(o, Q, rows, asOf) = Made(available, asOf, next(rows), before(rows))
  BY <1>1, BuiltFromAvailable DEF FeaturesAt
<1>6. CASE available = {}
  BY <1>4, <1>5, <1>6 DEF Made
<1>7. CASE available # {}
  <2> DEFINE was == FeaturesAt(o, P, old, asOf)
             is  == FeaturesAt(o, Q, rows, asOf)
  <2> HIDE DEF available, next, before
  <2>1. /\ ButForSales(is) = ButForSales(was)
        /\ was.previous = before(old) /\ is.previous = before(rows)
        /\ next(old) = next(rows) => was.event = is.event /\ was.daysUntil = is.daysUntil
    BY <1>4, <1>5, <1>7, OnlySalesDiffer
  <2> HIDE DEF was, is
  <2>2. Agree(was, is, old, rows, asOf)
    BY <1>2, <1>3, <2>1 DEF Agree
  <2> QED  BY <1>7, <2>2 DEF was, is, available
<1> QED  BY <1>6, <1>7

\* Rows are only added; a refresh adds inferred ones, and others are curated.
LEMMA StoreGrows ==
    ASSUME PendingInv, [Next]_vars
    PROVE  /\ snapshots \subseteq snapshots' /\ events \subseteq events'
           /\ \A e \in events' \ events : IsInferred(e) \/ e \in Announced
<1>1. ASSUME NEW w \in Workers, Commit(w)
      PROVE  /\ snapshots \subseteq snapshots' /\ events \subseteq events'
             /\ \A e \in events' \ events : IsInferred(e)
  BY <1>1 DEF Commit, PendingInv, RowsOf
<1>2. ASSUME NEW e \in Announced, Curate(e)
      PROVE  /\ snapshots \subseteq snapshots' /\ events \subseteq events'
             /\ \A f \in events' \ events : f \in Announced
  BY <1>2 DEF Curate
<1> QED  BY <1>1, <1>2 DEF Next, Observe, Refresh, Abort, Tick, vars

(* Of the past only the sales change: the features of an instant, computed again
   later, are those computed then, unless a row comes whose transaction had begun
   by then; but a sale over by that instant, inferred or curated since, changes
   what they say of the previous sales, and one that was not over, curated since,
   the sale to come (FeatureEngineer.build, known_active_or_upcoming_event,
   observation_available_at). *)
THEOREM FrozenFeatures == Spec => FeaturesAreFrozen
<1> DEFINE Frozen ==
      \A points \in {snapshots'}, rows \in {events'}, asOf \in 1..now, o \in Offers :
          \A was \in {FeaturesAt(o, snapshots, events, asOf)},
             is \in {FeaturesAt(o, points, rows, asOf)} :
                \/ is = was
                \/ \E s \in points \ snapshots : s.createdAt < asOf
                \/ /\ ObservationsAvailableAt(Group(snapshots, o), asOf) # {}
                   /\ ButForSales(is) = ButForSales(was)
                   /\ is.previous # was.previous =>
                        \E e \in rows \ events : e.end < asOf
                   /\ <<is.event, is.daysUntil>> # <<was.event, was.daysUntil>> =>
                        \E e \in (rows \ events) \cap Announced : e.end >= asOf
<1>1. ASSUME IInv, IInv', PendingInv, [Next]_vars PROVE Frozen
  <2>1. /\ snapshots \subseteq snapshots' /\ events \subseteq events'
        /\ \A e \in events' \ events : IsInferred(e) \/ e \in Announced
    BY <1>1, StoreGrows
  <2>2. \A e \in events' : e.end \in Int
    BY <1>1 DEF IInv, TimeInv, Rows
  <2>3. \A asOf \in 1..now : asOf \in Int
    OBVIOUS
  <2>4. ASSUME NEW asOf \in 1..now, NEW o \in Offers,
               ~\E s \in snapshots' \ snapshots : s.createdAt < asOf
        PROVE  \/ FeaturesAt(o, snapshots', events', asOf) = FeaturesAt(o, snapshots, events, asOf)
               \/ /\ ObservationsAvailableAt(Group(snapshots, o), asOf) # {}
                  /\ Agree(FeaturesAt(o, snapshots, events, asOf),
                           FeaturesAt(o, snapshots', events', asOf), events, events', asOf)
    BY <2>1, <2>2, <2>3, <2>4, FeaturesStay
  <2> QED  BY <2>4 DEF Agree
<1>2. IInv /\ IInv' /\ PendingInv /\ [Next]_vars => [Frozen]_<<snapshots, events>>
  BY <1>1
<1> QED  BY <1>2, InductiveInvariant, InsertedAreInferred, PTL DEF Spec, FeaturesAreFrozen

-----------------------------------------------------------------------------
(* The statistics over all sales.                                          *)

PricesInv == \A p \in snapshots : AnalysisPrice(p) \in Nat

\* Prices are natural numbers.
THEOREM PricesAreNatural == Spec => []PricesInv
<1>1. Init => PricesInv
  BY DEF Init, PricesInv
<1>2. ASSUME NEW offer \in Offers, NEW price \in Prices, NEW confidence, NEW at, NEW began
      PROVE  AnalysisPrice(PointOf(offer, price, confidence, at, began)) \in Nat
  BY SalesAssumption DEF AnalysisPrice, PointOf
<1>3. PricesInv /\ [Next]_vars => PricesInv'
  BY <1>2 DEF PricesInv, Next, Observe, Refresh, Commit, Abort, Curate, Tick, vars
<1> QED  BY <1>1, <1>3, PTL DEF Spec

\* The least of some natural numbers.
LEMMA MinIs ==
    ASSUME NEW S \in SUBSET Nat, NEW m \in S, \A x \in S : m <= x
    PROVE  Min(S) = m
<1>1. Min(S) \in S /\ \A x \in S : Min(S) <= x
  BY DEF Min
<1>2. Min(S) <= m /\ m <= Min(S) /\ Min(S) \in Nat /\ m \in Nat
  BY <1>1
<1> QED  BY <1>2

LEMMA MinIsMember ==
    ASSUME NEW S \in SUBSET Nat, S # {}
    PROVE  Min(S) \in S /\ \A x \in S : Min(S) <= x
BY LeastNumber, MinIs

Typed(rows) == \A e \in rows : e.start \in Int /\ e.end \in Int

LEMMA CoversOrders ==
    ASSUME NEW rows, Typed(rows)
    PROVE  /\ \A e \in rows : Covers(e, e)
           /\ \A e, f, g \in rows : Covers(e, f) /\ Covers(f, g) => Covers(e, g)
BY DEF Typed, Covers

Outermost(rows) == {e \in rows : ~\E f \in rows : /\ Covers(f, e)
                                                 /\ \/ ~Covers(e, f)
                                                    \/ f.by = None /\ e.by # None}

CoveredBy(f, rows) == {g \in rows : Covers(f, g)}

\* Covering more, or the same and being curated, weighs more.
Weight(f, rows) == 2 * Cardinality(CoveredBy(f, rows)) + (IF f.by = None THEN 1 ELSE 0)

LEMMA CoveringWeighs ==
    ASSUME NEW rows, Typed(rows), IsFiniteSet(rows), NEW f \in rows, NEW g \in rows, Covers(g, f)
    PROVE  /\ Weight(f, rows) \in 0..(2 * Cardinality(rows) + 1)
           /\ Weight(g, rows) \in 0..(2 * Cardinality(rows) + 1)
           /\ ~Covers(f, g) => Weight(f, rows) < Weight(g, rows)
           /\ g.by = None /\ f.by # None => Weight(f, rows) < Weight(g, rows)
<1> DEFINE F == CoveredBy(f, rows)
           G == CoveredBy(g, rows)
<1>1. F \in SUBSET G /\ G \in SUBSET rows /\ F \in SUBSET rows
  BY CoversOrders DEF CoveredBy
<1>2. g \in G /\ (~Covers(f, g) => g \notin F)
  BY CoversOrders DEF CoveredBy
<1> HIDE DEF F, G
<1>3. IsFiniteSet(F) /\ IsFiniteSet(G)
  BY <1>1, FS_Subset
<1>4. Cardinality(F) \in Nat /\ Cardinality(G) \in Nat /\ Cardinality(rows) \in Nat
  BY <1>3, FS_CardinalityType
<1>5. /\ Cardinality(F) <= Cardinality(G) /\ Cardinality(G) <= Cardinality(rows)
      /\ Cardinality(F) <= Cardinality(rows)
      /\ Cardinality(G) = Cardinality(F) => G = F
  BY <1>1, <1>3, FS_Subset
<1>6. ~Covers(f, g) => Cardinality(F) < Cardinality(G)
  BY <1>2, <1>4, <1>5
<1> DEFINE x == IF f.by = None THEN 1 ELSE 0
           y == IF g.by = None THEN 1 ELSE 0
<1>7. /\ x \in 0..1 /\ y \in 0..1
      /\ g.by = None /\ f.by # None => x = 0 /\ y = 1
  OBVIOUS
<1>8. Weight(f, rows) = 2 * Cardinality(F) + x /\ Weight(g, rows) = 2 * Cardinality(G) + y
  BY DEF Weight, F, G
<1> HIDE DEF x, y
<1> QED  BY <1>4, <1>5, <1>6, <1>7, <1>8

\* Every row is inside an outermost one.
LEMMA OutermostCovers ==
    ASSUME NEW rows, Typed(rows), IsFiniteSet(rows), NEW e \in rows
    PROVE  \E f \in Outermost(rows) : Covers(f, e)
<1> DEFINE n == 2 * Cardinality(rows) + 1
           W == {Weight(g, rows) : g \in {h \in rows : Covers(h, e)}}
<1>1. Covers(e, e) /\ n \in Nat
  BY CoversOrders, FS_CardinalityType
<1>2. W \in SUBSET (0..n) /\ W # {}
  BY <1>1, CoveringWeighs
<1> HIDE DEF n
<1>3. PICK m \in W : \A w \in W : w <= m
  BY <1>1, <1>2, GreatestNumber
<1>4. PICK f \in rows : Covers(f, e) /\ m = Weight(f, rows)
  OBVIOUS
<1>5. ASSUME NEW g \in rows, Covers(g, f), ~Covers(f, g) \/ (g.by = None /\ f.by # None)
      PROVE  FALSE
  <2>1. Covers(g, e)
    BY <1>4, <1>5, CoversOrders
  <2>2. Weight(g, rows) <= Weight(f, rows)
    BY <1>3, <1>4, <2>1
  <2>3. Weight(f, rows) < Weight(g, rows)
    BY <1>5, CoveringWeighs
  <2>4. Weight(f, rows) \in Nat /\ Weight(g, rows) \in Nat
    <3>1. Weight(f, rows) \in W /\ Weight(g, rows) \in W
      BY <1>4, <2>1
    <3> QED  BY <1>1, <1>2, <3>1
  <2> QED  BY <2>2, <2>3, <2>4
<1>6. f \in Outermost(rows)
  BY <1>5 DEF Outermost
<1> QED  BY <1>4, <1>6

Equal(e, rows) == {f \in Outermost(rows) : Covers(e, f) /\ Covers(f, e)}

One(rows) == {CHOOSE f \in Equal(e, rows) : TRUE : e \in Outermost(rows)}

LEMMA OneCovers ==
    ASSUME NEW rows, Typed(rows), IsFiniteSet(rows)
    PROVE  One(rows) \subseteq rows /\ \A e \in rows : \E f \in One(rows) : Covers(f, e)
<1>1. ASSUME NEW e \in Outermost(rows)
      PROVE  (CHOOSE f \in Equal(e, rows) : TRUE) \in Equal(e, rows)
  <2>1. e \in Equal(e, rows)
    BY CoversOrders DEF Equal, Outermost
  <2> QED  BY <2>1
<1>2. \A e : Equal(e, rows) \subseteq rows /\ Outermost(rows) \subseteq rows
  BY DEF Equal, Outermost
<1>3. One(rows) \subseteq rows
  BY <1>1, <1>2 DEF One
<1>4. ASSUME NEW e \in rows PROVE \E f \in One(rows) : Covers(f, e)
  <2>1. PICK g \in Outermost(rows) : Covers(g, e)
    BY OutermostCovers
  <2> DEFINE f == CHOOSE h \in Equal(g, rows) : TRUE
  <2>2. f \in Equal(g, rows) /\ f \in One(rows)
    BY <1>1 DEF One
  <2> HIDE DEF f
  <2>3. Covers(f, g) /\ f \in rows /\ g \in rows
    BY <1>2, <2>2 DEF Equal
  <2>4. Covers(f, e)
    BY <2>1, <2>3, CoversOrders
  <2> QED  BY <2>2, <2>4
<1> QED  BY <1>3, <1>4

\* A window has what the windows inside it have.
LEMMA CoveringHasMore ==
    ASSUME NEW rows, Typed(rows), NEW e \in rows, NEW f \in rows, Covers(f, e),
           NEW Q, \A p \in Q : p.observedAt \in Int
    PROVE  During(e, Q) \subseteq During(f, Q)
<1>1. e.brand = f.brand /\ e.category = f.category /\ e.retailer = f.retailer
  BY DEF Covers, Scope
<1>2. f.start <= e.start /\ e.end <= f.end
  BY DEF Covers
<1> QED  BY <1>1, <1>2 DEF During, AppliesTo, Typed

LEMMA SameInside ==
    ASSUME NEW rows, Typed(rows), IsFiniteSet(rows), NEW Q, \A p \in Q : p.observedAt \in Int
    PROVE  InAnyEvent(rows, Q) = InAnyEvent(One(rows), Q)
<1>1. One(rows) \subseteq rows /\ \A e \in rows : \E f \in One(rows) : Covers(f, e)
  BY OneCovers
<1>2. \A e \in rows : \E f \in One(rows) : During(e, Q) \subseteq During(f, Q)
  BY <1>1, CoveringHasMore
<1>3. UNION {During(e, Q) : e \in rows} = UNION {During(e, Q) : e \in One(rows)}
  BY <1>1, <1>2
<1> QED  BY <1>3 DEF InAnyEvent

\* A product without a brand, or a category, has the events of none.
LEMMA FiltersAgree ==
    ASSUME NEW brand, NEW category
    PROVE  ListApplicable(brand, category) = {e \in events : AppliesTo(e, brand, category)}
BY DEF ListApplicable, AppliesTo

LEMMA OnceIsFinite ==
    ASSUME NEW S, IsFiniteSet(S)
    PROVE  /\ IsFiniteSet(Once(S))
           /\ Cardinality(Once(S)) \in Nat
           /\ Cardinality(Once(S)) = 0 <=> S = {}
<1> DEFINE f == [x \in S |-> <<x, 1>>]
<1>1. Once(S) = {f[x] : x \in S}
  <2>1. Once(S) = {<<x, 1>> : x \in S}
    BY DEF Once
  <2> QED  BY <2>1
<1> HIDE DEF f
<1>2. IsFiniteSet(Once(S))
  BY <1>1, ImageIsFinite
<1>3. Once(S) = {} <=> S = {}
  BY <1>1
<1> QED  BY <1>2, <1>3, FS_CardinalityType, FS_EmptySet

PricesOf(S) == {AnalysisPrice(p) : p \in S}

\* The low of some observations, when one is enough for a statistic.
LEMMA LowIs ==
    ASSUME NEW S, IsFiniteSet(S), MinSaleStats = 1
    PROVE  SaleStats(Once(S)).low = IF S = {} THEN Insufficient("no_observations_during_event")
                                    ELSE Available(Min(PricesOf(S)))
<1>1. /\ Cardinality(Once(S)) \in Nat
      /\ Cardinality(Once(S)) = 0 <=> S = {}
  BY OnceIsFinite
<1>2. {AnalysisPrice(x[1]) : x \in Once(S)} = PricesOf(S)
  <2>1. \A p \in S : <<p, 1>> \in Once(S) /\ <<p, 1>>[1] = p
    BY DEF Once
  <2>2. \A x \in Once(S) : x[1] \in S
    BY DEF Once
  <2> QED  BY <2>1, <2>2 DEF PricesOf
<1> DEFINE n == Cardinality(Once(S))
<1>3. n < MinSaleStats <=> S = {}
  BY <1>1
<1>4. S = {} => n = 0
  BY <1>1
<1>5. SaleStats(Once(S)).low =
        IF n < MinSaleStats
        THEN Insufficient(IF n = 0 THEN "no_observations_during_event"
                          ELSE "below_minimum_observation_count")
        ELSE Available(Min(PricesOf(S)))
  BY <1>2 DEF SaleStats
<1> HIDE DEF n
<1> QED  BY <1>3, <1>4, <1>5

\* The least of some sets' least numbers is the least of their union.
LEMMA MinOfMins ==
    ASSUME NEW rows, NEW Q, PricesOf(Q) \in SUBSET Nat,
           UNION {During(e, Q) : e \in rows} # {}
    PROVE  Min(PricesOf(UNION {During(e, Q) : e \in rows})) =
             Min({Min(PricesOf(During(e, Q))) : e \in {f \in rows : During(f, Q) # {}}})
<1> DEFINE U == UNION {During(e, Q) : e \in rows}
           full == {f \in rows : During(f, Q) # {}}
           mins == {Min(PricesOf(During(e, Q))) : e \in full}
           m == Min(PricesOf(U))
<1>0. \A e : PricesOf(During(e, Q)) \in SUBSET Nat
  BY DEF PricesOf, During
<1>1. \A e \in full : /\ Min(PricesOf(During(e, Q))) \in PricesOf(During(e, Q))
                      /\ \A x \in PricesOf(During(e, Q)) : Min(PricesOf(During(e, Q))) <= x
  <2>1. \A e \in full : PricesOf(During(e, Q)) # {}
    BY DEF PricesOf
  <2> QED  BY <1>0, <2>1, MinIsMember
<1>2. /\ PricesOf(U) \in SUBSET Nat /\ PricesOf(U) # {}
      /\ \A e \in rows : PricesOf(During(e, Q)) \subseteq PricesOf(U)
  BY <1>0 DEF PricesOf
<1>3. m \in PricesOf(U) /\ \A x \in PricesOf(U) : m <= x
  BY <1>2, MinIsMember
<1>4. PICK e \in full : m \in PricesOf(During(e, Q))
  BY <1>3 DEF PricesOf
<1>5. mins \in SUBSET Nat
  BY <1>0, <1>1
<1>6. Min(PricesOf(During(e, Q))) = m
  <2> DEFINE k == Min(PricesOf(During(e, Q)))
  <2>1. k <= m /\ k \in PricesOf(U)
    BY <1>1, <1>2, <1>4
  <2>2. m <= k
    BY <1>3, <2>1
  <2>3. m \in Nat /\ k \in Nat
    BY <1>2, <1>3, <2>1
  <2> HIDE DEF k, m
  <2>4. k = m
    BY <2>1, <2>2, <2>3
  <2> QED  BY <2>4 DEF k
<1>7. m \in mins
  BY <1>4, <1>6
<1>8. \A x \in mins : m <= x
  BY <1>1, <1>2, <1>3
<1> HIDE DEF mins, m
<1>9. Min(mins) = m
  BY <1>5, <1>7, <1>8, MinIs
<1> QED  BY <1>9 DEF mins, m, full

\* The statistics of a product whose rows are one per window at least.
LEMMA RepeatsAre ==
    ASSUME NEW rows, Typed(rows), IsFiniteSet(rows), NEW points, IsFiniteSet(points),
           \A p \in points : p.observedAt \in Int, PricesOf(points) \in SUBSET Nat
    PROVE  LET all  == VariantSaleHistory(points, rows)
               less == VariantSaleHistory(points, One(rows))
               lows == {all.windows[e].stats.low.value : e \in rows} \ {None}
           IN  /\ all.overall = less.overall
               /\ all.baseline = less.baseline
               /\ all.overall.low.status = "available" /\ MinSaleStats = 1
                    => all.overall.low.value = Min(lows)
<1> DEFINE Q == QualifyingObservations(points)
           all  == VariantSaleHistory(points, rows)
           U == UNION {During(e, Q) : e \in rows}
<1>1. Q \subseteq points
  BY DEF QualifyingObservations
<1>2. /\ \A p \in Q : p.observedAt \in Int
      /\ IsFiniteSet(Q)
      /\ PricesOf(Q) \in SUBSET Nat
  BY <1>1, FS_Subset DEF PricesOf
<1>3. InAnyEvent(rows, Q) = InAnyEvent(One(rows), Q)
  BY <1>2, SameInside
<1>4. One(rows) = {} <=> rows = {}
  BY OneCovers
<1>5. all.overall = VariantSaleHistory(points, One(rows)).overall
  BY <1>3, <1>4 DEF VariantSaleHistory
<1>6. all.baseline = VariantSaleHistory(points, One(rows)).baseline
  BY <1>3 DEF VariantSaleHistory
<1>7. ASSUME MinSaleStats = 1, all.overall.low.status = "available"
      PROVE  all.overall.low.value = Min({all.windows[e].stats.low.value : e \in rows} \ {None})
  <2>1. rows # {} /\ all.overall = SaleStats(Once(U))
    <3>1. all.overall = IF rows = {} THEN [average |-> Insufficient("no_applicable_events"),
                                           low |-> Insufficient("no_applicable_events"),
                                           high |-> Insufficient("no_applicable_events")]
                        ELSE SaleStats(Once(U))
      BY DEF VariantSaleHistory, InAnyEvent
    <3> QED  BY <1>7, <3>1 DEF Insufficient
  <2>2. IsFiniteSet(U) /\ \A e \in rows : IsFiniteSet(During(e, Q))
    <3>1. U \subseteq Q /\ \A e \in rows : During(e, Q) \subseteq Q
      BY DEF During
    <3> QED  BY <1>2, <3>1, FS_Subset
  <2>3. U # {} /\ all.overall.low = Available(Min(PricesOf(U)))
    <3>1. all.overall.low = IF U = {} THEN Insufficient("no_observations_during_event")
                            ELSE Available(Min(PricesOf(U)))
      BY <1>7, <2>1, <2>2, LowIs
    <3> QED  BY <1>7, <3>1 DEF Insufficient
  <2>4. all.overall.low.value = Min({Min(PricesOf(During(e, Q))) :
                                        e \in {f \in rows : During(f, Q) # {}}})
    <3>1. all.overall.low.value = Min(PricesOf(U))
      BY <2>3 DEF Available
    <3> QED  BY <1>2, <2>3, <3>1, MinOfMins
  <2>5. ASSUME NEW e \in rows
        PROVE  all.windows[e].stats.low.value =
                 IF During(e, Q) = {} THEN None ELSE Min(PricesOf(During(e, Q)))
    <3>1. all.windows[e].stats = SaleStats(Once(During(e, Q)))
      BY DEF VariantSaleHistory, EventWindow
    <3>2. SaleStats(Once(During(e, Q))).low =
            IF During(e, Q) = {} THEN Insufficient("no_observations_during_event")
            ELSE Available(Min(PricesOf(During(e, Q))))
      BY <1>7, <2>2, LowIs
    <3> QED  BY <3>1, <3>2 DEF Available, Insufficient
  <2>6. \A e \in rows : During(e, Q) # {} => Min(PricesOf(During(e, Q))) # None
    <3>1. \A e \in rows : PricesOf(During(e, Q)) \in SUBSET Nat
      BY <1>2 DEF PricesOf, During
    <3>2. \A e \in rows : During(e, Q) # {} => PricesOf(During(e, Q)) # {}
      BY DEF PricesOf
    <3> QED  BY <3>1, <3>2, MinIsMember, SalesAssumption
  <2> HIDE DEF all, Q
  <2>7. {all.windows[e].stats.low.value : e \in rows} \ {None} =
          {Min(PricesOf(During(e, Q))) : e \in {f \in rows : During(f, Q) # {}}}
    BY <2>5, <2>6
  <2> QED  BY <2>4, <2>7
<1> HIDE DEF Q
<1> QED  BY <1>5, <1>6, <1>7 DEF all

(* Rows stored twice, or inside another of the same scope, do not show in the
   statistics over all sales of a product: these are those of the outermost
   rows, each once, and their low is the lowest of the windows
   (get_product_sale_history, compute_variant and its seen set). *)
THEOREM RepeatsDoNotShow == Spec => []SaleStatsIgnoreRepeats
<1>1. ASSUME IInv, FiniteInv, PricesInv PROVE SaleStatsIgnoreRepeats
  <2> SUFFICES ASSUME NEW scope \in {<<o.brand, o.category>> : o \in Offers}
      PROVE  LET rows == ListApplicable(scope[1], scope[2])
                 points == {p \in snapshots : <<p.brand, p.category>> = scope}
                 all  == GetProductSaleHistory(scope[1], scope[2], now).variant
                 less == VariantSaleHistory(points, One(rows))
                 lows == {all.windows[e].stats.low.value : e \in rows} \ {None}
             IN  /\ rows = {e \in events : AppliesTo(e, scope[1], scope[2])}
                 /\ all.overall = less.overall
                 /\ all.baseline = less.baseline
                 /\ all.overall.low.status = "available" /\ MinSaleStats = 1
                      => all.overall.low.value = Min(lows)
    BY DEF SaleStatsIgnoreRepeats, One, Equal, Outermost
  <2> DEFINE rows == ListApplicable(scope[1], scope[2])
             points == {p \in snapshots : <<p.brand, p.category>> = scope}
  <2>1. rows = {e \in events : AppliesTo(e, scope[1], scope[2])}
    BY FiltersAgree
  <2>2. Typed(rows) /\ IsFiniteSet(rows)
    <3>1. rows \subseteq events /\ \A e \in events : e.start \in Int /\ e.end \in Int
      BY <1>1, <2>1 DEF IInv, TimeInv, Rows
    <3> QED  BY <1>1, <3>1, FS_Subset DEF Typed, FiniteInv
  <2>3. /\ IsFiniteSet(points) /\ \A p \in points : p.observedAt \in Int
        /\ PricesOf(points) \in SUBSET Nat
    <3>1. points \subseteq snapshots
      OBVIOUS
    <3>2. IsFiniteSet(points)
      BY <1>1, <3>1, FS_Subset DEF IInv, PointsInv
    <3>3. \A p \in points : p.observedAt \in Int
      BY <1>1, <3>1 DEF IInv, PointsInv, Points
    <3>4. PricesOf(points) \in SUBSET Nat
      BY <1>1, <3>1 DEF PricesInv, PricesOf
    <3> QED  BY <3>2, <3>3, <3>4
  <2>4. GetProductSaleHistory(scope[1], scope[2], now).variant = VariantSaleHistory(points, rows)
    <3>1. points = {p \in snapshots : p.brand = scope[1] /\ p.category = scope[2]}
      OBVIOUS
    <3>2. {e \in rows : AppliesTo(e, scope[1], scope[2])} = rows
      BY <2>1
    <3> HIDE DEF rows, points
    <3>3. GetProductSaleHistory(scope[1], scope[2], now) =
            ProductSaleHistory(points, rows, scope[1], scope[2], now)
      BY <3>1 DEF GetProductSaleHistory, rows
    <3> QED  BY <3>2, <3>3 DEF ProductSaleHistory
  <2> HIDE DEF rows, points
  <2>5. LET all  == VariantSaleHistory(points, rows)
            less == VariantSaleHistory(points, One(rows))
            lows == {all.windows[e].stats.low.value : e \in rows} \ {None}
        IN  /\ all.overall = less.overall
            /\ all.baseline = less.baseline
            /\ all.overall.low.status = "available" /\ MinSaleStats = 1
                 => all.overall.low.value = Min(lows)
    BY <2>2, <2>3, RepeatsAre
  <2> QED  BY <2>1, <2>4, <2>5 DEF rows, points
<1> QED  BY <1>1, InductiveInvariant, RowsAreFinite, PricesAreNatural, PTL
=============================================================================
