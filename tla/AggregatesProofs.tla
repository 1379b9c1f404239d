-------------------------- MODULE AggregatesProofs --------------------------
(***************************************************************************)
(* Proofs about the interval and the profile, for every value of the       *)
(* constants and whatever else the registers do: nothing that is folded is *)
(* lost, and what is merged is counted.                                    *)
(***************************************************************************)
EXTENDS RegistersProofs

USE DEF aggregateVars, profileVars, coarseVars, referenceVars, signalVars, requestVars

-----------------------------------------------------------------------------
(* Totals by row                                                           *)

\* What a row said before it was there is of no endpoint.
StoodFor(present, row) == IF row \in present THEN StandsFor(present, row) ELSE {}

\* One endpoint has n more: the row it is counted in has, and no other.
TotalsMoved(f, g, present, P, row, n) ==
  /\ \A r \in present \ {row} :
       SumFunctionOnSet(g, StandsFor(P, r)) = SumFunctionOnSet(f, StandsFor(present, r))
  /\ SumFunctionOnSet(g, StandsFor(P, row))
       = SumFunctionOnSet(f, StoodFor(present, row)) + n

\* A row stands for endpoints, finitely many.
LEMMA StandsForSome ==
  ASSUME NEW P \in SUBSET Label, NEW row \in Label
  PROVE  IsFiniteSet(StandsFor(P, row)) /\ StandsFor(P, row) \subseteq Label
<1>1. StandsFor(P, row) \subseteq Label
  BY DEF StandsFor
<1> QED
  BY <1>1, FewLabels, FS_Subset

\* What is counted by endpoint and told by row moves by row: the row an endpoint falls to takes
\* what it adds, and no other.
LEMMA TotalsMove ==
  ASSUME NEW present \in SUBSET Label, NEW P, NEW room, NEW told, NEW label \in Label, NEW row,
         P = present \cup {row}, OneRowMore(present, P, room, told, label, row),
         NEW f \in [Label -> Nat], NEW g \in [Label -> Nat], NEW n \in Nat,
         \A l \in Label \ told : f[l] = 0,
         g[label] = f[label] + n, \A l \in Label \ {label} : g[l] = f[l]
  PROVE  TotalsMoved(f, g, present, P, row, n)
<1>1. /\ row \in Label /\ label \in StandsFor(P, row)
      /\ \A r \in P \ {row} : label \notin StandsFor(P, r)
      /\ \A r \in present : StandsFor(P, r) \cap told = StandsFor(present, r) \cap told
      /\ row \notin present => StandsFor(P, row) \cap told = {}
  BY DEF OneRowMore
<1>2. P \in SUBSET Label
  BY <1>1
<1>3. ASSUME NEW r \in present
      PROVE  SumFunctionOnSet(f, StandsFor(P, r)) = SumFunctionOnSet(f, StandsFor(present, r))
  <2>1. PICK A : A = StandsFor(P, r)
    OBVIOUS
  <2>2. PICK B : B = StandsFor(present, r)
    OBVIOUS
  <2>3. IsFiniteSet(A) /\ IsFiniteSet(B) /\ A \subseteq Label /\ B \subseteq Label
    BY <1>2, <2>1, <2>2, StandsForSome
  <2>4. A \cap told = B \cap told
    BY <1>1, <2>1, <2>2
  <2>5. /\ SumFunctionOnSet(f, A) = SumFunctionOnSet(f, A \cap told)
        /\ SumFunctionOnSet(f, B) = SumFunctionOnSet(f, B \cap told)
    <3>1. /\ \A x \in A : f[x] \in Nat
          /\ \A x \in B : f[x] \in Nat
          /\ \A x \in A \ told : f[x] = 0
          /\ \A x \in B \ told : f[x] = 0
      BY <2>3
    <3>2. SumFunctionOnSet(f, A) = SumFunctionOnSet(f, A \cap told)
      BY <2>3, <3>1, SumWithin
    <3>3. SumFunctionOnSet(f, B) = SumFunctionOnSet(f, B \cap told)
      BY <2>3, <3>1, SumWithin
    <3> QED
      BY <3>2, <3>3
  <2> QED
    BY <2>1, <2>2, <2>4, <2>5
<1>4. ASSUME NEW r \in present \ {row}
      PROVE  SumFunctionOnSet(g, StandsFor(P, r)) = SumFunctionOnSet(f, StandsFor(present, r))
  <2>1. PICK A : A = StandsFor(P, r)
    OBVIOUS
  <2>2. IsFiniteSet(A) /\ A \subseteq Label /\ label \notin A
    BY <1>1, <1>2, <1>4, <2>1, StandsForSome
  <2>3. \A x \in A : g[x] = f[x]
    BY <2>2
  <2>4. SumFunctionOnSet(g, A) = SumFunctionOnSet(f, A)
    BY <2>2, <2>3, SumSame
  <2> QED
    BY <1>3, <2>1, <2>4
<1>5. SumFunctionOnSet(g, StandsFor(P, row))
        = SumFunctionOnSet(f, StandsFor(P, row)) + n
  <2>1. PICK A : A = StandsFor(P, row)
    OBVIOUS
  <2>2. IsFiniteSet(A) /\ A \subseteq Label /\ label \in A
    BY <1>1, <1>2, <2>1, StandsForSome
  <2>3. \A x \in A : f[x] \in Nat /\ g[x] \in Nat
    BY <2>2
  <2>4. \A x \in A \ {label} : g[x] = f[x]
    BY <2>2
  <2>5. SumFunctionOnSet(g, A) = SumFunctionOnSet(f, A) - f[label] + g[label]
    BY <2>2, <2>3, <2>4, SumChange
  <2>6. SumFunctionOnSet(f, A) \in Nat /\ f[label] \in Nat
    BY <2>2, <2>3, SumType
  <2> QED
    BY <2>1, <2>5, <2>6
<1>6. SumFunctionOnSet(f, StandsFor(P, row)) = SumFunctionOnSet(f, StoodFor(present, row))
  <2>1. CASE row \in present
    BY <1>3, <2>1 DEF StoodFor
  <2>2. CASE row \notin present
    <3>1. PICK A : A = StandsFor(P, row)
      OBVIOUS
    <3>2. IsFiniteSet(A) /\ A \subseteq Label /\ A \cap told = {}
      BY <1>1, <1>2, <2>2, <3>1, StandsForSome
    <3>3. \A x \in A : f[x] = 0
      BY <3>2
    <3>4. SumFunctionOnSet(f, A) = 0
      BY <3>2, <3>3, SumZero
    <3> QED
      BY <2>2, <3>1, <3>4, SumEmpty DEF StoodFor
  <2> QED
    BY <2>1, <2>2
<1> QED
  BY <1>4, <1>5, <1>6 DEF TotalsMoved

-----------------------------------------------------------------------------
(* What a request's work becomes                                           *)

WorkType == [requests : Nat, ms : Nat, wait : Nat]

OfKind(k)   == {d \in DependencyRow : d.kind = k}
TimeOf(deps) == [d \in DependencyRow |-> deps[d].ms]
WorkIn(work) == [d \in DOMAIN work |-> work[d].ms]
WorkOf(work, k) == {d \in DOMAIN work : d.kind = k}

\* All the time of each kind is in a row of it, a request counts once in a row, and no more
\* rows are named than may be.
WorkIsFolded(deps, new, work) ==
  /\ new \in [DependencyRow -> WorkType]
  /\ \A d \in DependencyRow : new[d].requests <= deps[d].requests + 1
  /\ Cardinality(Named(deps)) <= MaxKept => Cardinality(Named(new)) <= MaxKept
  /\ \A k \in Kind :
       SumFunctionOnSet(TimeOf(new), OfKind(k))
         = SumFunctionOnSet(TimeOf(deps), OfKind(k))
             + SumFunctionOnSet(WorkIn(work), WorkOf(work, k))

\* The rows a destination may have are finitely many.
LEMMA FewRows == IsFiniteSet(DependencyRow)
<1> DEFINE pairs == Kind \X (Name \cup {OtherName})
           row   == [p \in pairs |-> [kind |-> p[1], name |-> p[2]]]
<1>1. IsFiniteSet(Kind) /\ IsFiniteSet(Name)
  BY ObservedAssumption
<1>2. IsFiniteSet(Name \cup {OtherName})
  BY <1>1, FS_AddElement
<1>3. IsFiniteSet(pairs)
  BY <1>1, <1>2, FS_Product
<1>4. row \in Surjection(pairs, DependencyRow)
  <2>1. \A p \in pairs : row[p] \in DependencyRow
    BY DEF DependencyRow
  <2>2. ASSUME NEW d \in DependencyRow PROVE \E p \in pairs : row[p] = d
    <3>1. <<d.kind, d.name>> \in pairs /\ row[<<d.kind, d.name>>] = d
      BY DEF DependencyRow
    <3> QED
      BY <3>1
  <2> QED
    BY <2>1, <2>2 DEF Surjection
<1> QED
  BY <1>3, <1>4, FS_Surjection

\* What a request may have done: finitely many destinations, none of them the rest's.
LEMMA WorkTypes ==
  ASSUME NEW body \in Bodies, NEW work, work = body.work
  PROVE  /\ DOMAIN work \subseteq DependencyRow /\ IsFiniteSet(DOMAIN work)
         /\ \A d \in DOMAIN work : d.name # OtherName /\ d.kind \in Kind
                                   /\ work[d].ms \in Nat /\ work[d].wait \in Nat
<1>1. /\ DOMAIN work \subseteq Destination /\ OtherName \notin Name
      /\ \A d \in DOMAIN work : work[d] \in [ms : Nat, wait : Nat]
  BY ObservedAssumption
<1>2. DOMAIN work \subseteq DependencyRow
  BY <1>1 DEF Destination, DependencyRow
<1> QED
  BY <1>1, <1>2, FewRows, FS_Subset DEF Destination

\* A sum of the times or the waits of some of a request's work.
LEMMA WorkSum ==
  ASSUME NEW body \in Bodies, NEW work, work = body.work, NEW S, S \subseteq DOMAIN work
  PROVE  /\ SumOver(S, LAMBDA d : work[d].ms) \in Nat
         /\ SumOver(S, LAMBDA d : work[d].wait) \in Nat
         /\ SumOver(S, LAMBDA d : work[d].ms) = SumFunctionOnSet(WorkIn(work), S)
<1>1. IsFiniteSet(S) /\ \A d \in S : work[d].ms \in Nat /\ work[d].wait \in Nat
  BY WorkTypes, FS_Subset
<1>2. PICK f : f = [d \in S |-> work[d].ms]
  OBVIOUS
<1>3. PICK g : g = [d \in S |-> work[d].wait]
  OBVIOUS
<1>4. SumFunctionOnSet(f, S) \in Nat /\ SumFunctionOnSet(g, S) \in Nat
  <2>1. \A d \in S : f[d] \in Nat /\ g[d] \in Nat
    BY <1>1, <1>2, <1>3
  <2> QED
    BY <1>1, <2>1, SumType
<1>5. PICK all : all = WorkIn(work)
  OBVIOUS
<1>6. SumFunctionOnSet(f, S) = SumFunctionOnSet(all, S)
  <2>1. \A d \in S : f[d] = all[d]
    BY <1>2, <1>5 DEF WorkIn
  <2> QED
    BY <1>1, <2>1, SumSame
<1> QED
  BY <1>2, <1>3, <1>4, <1>5, <1>6 DEF SumOver

\* What a request adds to each row of the dependencies.
RowIsFolded(deps, new, work, own, d, rest) ==
  /\ new[d] \in WorkType
  /\ new[d].requests \in {deps[d].requests, deps[d].requests + 1}
  /\ new[d].requests # deps[d].requests =>
       d.name = OtherName \/ (d \in DOMAIN work /\ d \in own)
  /\ new[d].ms = deps[d].ms +
       IF d \in DOMAIN work /\ d \in own THEN work[d].ms
       ELSE IF d.name = OtherName /\ rest # {} THEN SumFunctionOnSet(WorkIn(work), rest)
       ELSE 0

\* What folding a request's work makes of one row, spelt out.
LEMMA RowFolded ==
  ASSUME NEW deps \in [DependencyRow -> WorkType], NEW body \in Bodies,
         NEW work, work = body.work, NEW keep \in SUBSET DOMAIN work,
         NEW own, own = Rows(deps) \cup keep,
         NEW new, new = FoldWork(deps, work, keep), NEW d \in DependencyRow,
         NEW rest, rest = {e \in DOMAIN work \ own : e.kind = d.kind}
  PROVE  RowIsFolded(deps, new, work, own, d, rest)
<1>1. PICK was : was = deps[d]
  OBVIOUS
<1>2. was \in WorkType /\ was.requests \in Nat /\ was.ms \in Nat /\ was.wait \in Nat
  BY <1>1 DEF WorkType
<1>3. PICK ms : ms = SumOver(rest, LAMBDA e : work[e].ms)
  OBVIOUS
<1>4. PICK wait : wait = SumOver(rest, LAMBDA e : work[e].wait)
  OBVIOUS
<1>5. ms \in Nat /\ wait \in Nat /\ ms = SumFunctionOnSet(WorkIn(work), rest)
  <2>1. rest \subseteq DOMAIN work
    OBVIOUS
  <2> QED
    BY <1>3, <1>4, <2>1, WorkSum DEF SumOver
<1>6. new[d] = IF d \in DOMAIN work /\ d \in own
               THEN AddWork(was, work[d].ms, work[d].wait)
               ELSE IF d.name = OtherName /\ rest # {}
               THEN AddWork(was, ms, wait)
               ELSE was
  BY <1>1, <1>3, <1>4 DEF FoldWork
<1>7. \A m \in Nat, w \in Nat :
        /\ AddWork(was, m, w) \in WorkType
        /\ AddWork(was, m, w).requests = was.requests + 1
        /\ AddWork(was, m, w).ms = was.ms + m
  BY <1>2 DEF AddWork, WorkType
<1>8. CASE d \in DOMAIN work /\ d \in own
  <2>1. work[d].ms \in Nat /\ work[d].wait \in Nat
    BY <1>8, WorkTypes
  <2> QED
    BY <1>1, <1>6, <1>7, <1>8, <2>1 DEF RowIsFolded
<1>9. CASE ~(d \in DOMAIN work /\ d \in own) /\ d.name = OtherName /\ rest # {}
  BY <1>1, <1>5, <1>6, <1>7, <1>9 DEF RowIsFolded
<1>10. CASE ~(d \in DOMAIN work /\ d \in own) /\ ~(d.name = OtherName /\ rest # {})
  BY <1>1, <1>2, <1>6, <1>10 DEF RowIsFolded
<1> QED
  BY <1>8, <1>9, <1>10 DEF RowIsFolded

\* Whatever is folded, no time is lost: the rows of a kind take all that was spent on it.
LEMMA TimesFolded ==
  ASSUME NEW deps \in [DependencyRow -> WorkType], NEW body \in Bodies,
         NEW work, work = body.work, NEW keep \in SUBSET DOMAIN work,
         NEW new, new = FoldWork(deps, work, keep), NEW k \in Kind
  PROVE  SumFunctionOnSet(TimeOf(new), OfKind(k))
           = SumFunctionOnSet(TimeOf(deps), OfKind(k))
               + SumFunctionOnSet(WorkIn(work), WorkOf(work, k))
<1>1. PICK own : own = Rows(deps) \cup keep
  OBVIOUS
<1>2. PICK A : A = OfKind(k)
  OBVIOUS
<1>3. PICK O : O = {d \in DOMAIN work : d \in own /\ d.kind = k}
  OBVIOUS
<1>4. PICK R : R = {d \in DOMAIN work \ own : d.kind = k}
  OBVIOUS
<1>5. PICK o : o = [kind |-> k, name |-> OtherName]
  OBVIOUS
<1>6. PICK t : t = WorkIn(work)
  OBVIOUS
<1>7. PICK f : f = TimeOf(deps)
  OBVIOUS
<1>8. PICK h : h = TimeOf(new)
  OBVIOUS
<1>9. PICK merged : merged = SumFunctionOnSet(t, R)
  OBVIOUS
<1>10. PICK add : add = [d \in A |-> IF d \in O THEN t[d] ELSE IF d = o THEN merged ELSE 0]
  OBVIOUS
<1>11. /\ DOMAIN work \subseteq DependencyRow /\ IsFiniteSet(DOMAIN work)
       /\ \A d \in DOMAIN work : d.name # OtherName /\ t[d] = work[d].ms /\ t[d] \in Nat
  BY <1>6, WorkTypes DEF WorkIn
<1>12. /\ IsFiniteSet(A) /\ IsFiniteSet(O) /\ IsFiniteSet(R)
       /\ O \subseteq A /\ O \subseteq DOMAIN work /\ R \subseteq DOMAIN work
       /\ O \cap R = {} /\ O \cup R = WorkOf(work, k)
  <2>1. A \subseteq DependencyRow
    BY <1>2 DEF OfKind
  <2> QED
    BY <1>2, <1>3, <1>4, <1>11, <2>1, FewRows, FS_Subset DEF OfKind, WorkOf
<1>13. o \in A /\ o \notin O /\ \A d \in A : d.name = OtherName => d = o
  BY <1>2, <1>3, <1>5, <1>11 DEF OfKind, DependencyRow
<1>14. merged \in Nat /\ (R = {} => merged = 0)
  <2>1. \A d \in R : t[d] \in Nat
    BY <1>11, <1>12
  <2> QED
    BY <1>9, <1>12, <2>1, SumType, SumEmpty
<1>15. \A d \in A : add[d] \in Nat
  BY <1>10, <1>11, <1>12, <1>14
<1>16. \A d \in A : f[d] = deps[d].ms /\ f[d] \in Nat /\ h[d] = new[d].ms /\ d \in DependencyRow
  BY <1>2, <1>7, <1>8 DEF TimeOf, OfKind, WorkType
<1>17. ASSUME NEW d \in A PROVE h[d] = f[d] + add[d]
  <2>1. d \in DependencyRow /\ d.kind = k
    BY <1>2 DEF OfKind
  <2>2. new[d].ms = deps[d].ms +
              IF d \in DOMAIN work /\ d \in own THEN work[d].ms
              ELSE IF d.name = OtherName /\ R # {} THEN merged
              ELSE 0
    <3>1. RowIsFolded(deps, new, work, own, d, R)
      BY <1>1, <1>4, <2>1, RowFolded
    <3> QED
      BY <1>6, <1>9, <3>1 DEF RowIsFolded
  <2>3. d \in DOMAIN work /\ d \in own <=> d \in O
    BY <1>3, <2>1
  <2>4. d.name = OtherName <=> d = o
    BY <1>5, <1>13
  <2>5. CASE d \in O
    BY <1>10, <1>11, <1>12, <1>16, <2>2, <2>3, <2>5
  <2>6. CASE d \notin O /\ d = o
    BY <1>10, <1>14, <1>16, <2>2, <2>3, <2>4, <2>6
  <2>7. CASE d \notin O /\ d # o
    BY <1>10, <1>16, <2>2, <2>3, <2>4, <2>7
  <2> QED
    BY <2>5, <2>6, <2>7
<1>18. SumFunctionOnSet(h, A) = SumFunctionOnSet(f, A) + SumFunctionOnSet(add, A)
  BY <1>12, <1>15, <1>16, <1>17, SumPlus
<1>19. SumFunctionOnSet(add, A) = SumFunctionOnSet(add, O \cup {o})
  <2>1. PICK T : T = O \cup {o}
    OBVIOUS
  <2>2. \A d \in A \ T : add[d] = 0
    BY <1>10, <2>1
  <2>3. SumFunctionOnSet(add, A) = SumFunctionOnSet(add, A \cap T)
    BY <1>12, <1>15, <2>2, SumWithin
  <2>4. A \cap T = T
    BY <1>12, <1>13, <2>1
  <2> QED
    BY <2>1, <2>3, <2>4
<1>20. SumFunctionOnSet(add, O \cup {o}) = SumFunctionOnSet(add, O) + add[o]
  <2>1. \A d \in O \cup {o} : add[d] \in Nat
    BY <1>12, <1>13, <1>15
  <2> QED
    BY <1>12, <1>13, <2>1, SumAdd
<1>21. add[o] = merged
  BY <1>10, <1>13
<1>22. SumFunctionOnSet(add, O) = SumFunctionOnSet(t, O)
  <2>1. \A d \in O : add[d] = t[d]
    BY <1>10, <1>12
  <2> QED
    BY <1>12, <2>1, SumSame
<1>23. SumFunctionOnSet(t, O \cup R) = SumFunctionOnSet(t, O) + merged
  <2>1. \A d \in O \cup R : t[d] \in Nat
    BY <1>11, <1>12
  <2> QED
    BY <1>9, <1>12, <2>1, SumUnion
<1>24. SumFunctionOnSet(add, A) = SumFunctionOnSet(t, WorkOf(work, k))
  BY <1>12, <1>19, <1>20, <1>21, <1>22, <1>23
<1> QED
  BY <1>2, <1>6, <1>7, <1>8, <1>18, <1>24

\* A request gives no more rows of their own than there is room for.
LEMMA NamesFolded ==
  ASSUME NEW deps \in [DependencyRow -> WorkType], NEW body \in Bodies,
         NEW work, work = body.work, NEW keep \in MayKeep(deps, work),
         NEW new, new = FoldWork(deps, work, keep), Cardinality(Named(deps)) <= MaxKept
  PROVE  Cardinality(Named(new)) <= MaxKept
<1>1. PICK fresh : fresh = DOMAIN work \ Rows(deps)
  OBVIOUS
<1>2. PICK named : named = Cardinality(Named(deps))
  OBVIOUS
<1>3. PICK room : room = Max({0, MaxKept - named})
  OBVIOUS
<1>4. Named(deps) \subseteq DependencyRow /\ IsFiniteSet(Named(deps)) /\ named \in Nat
  <2>1. Named(deps) \subseteq DependencyRow
    BY DEF Named, Rows
  <2>2. IsFiniteSet(Named(deps))
    BY <2>1, FewRows, FS_Subset
  <2> QED
    BY <1>2, <2>1, <2>2, FS_CardinalityType
<1>5. IsFiniteSet(fresh) /\ Cardinality(fresh) \in Nat
  <2>1. IsFiniteSet(fresh)
    BY <1>1, WorkTypes, FS_Subset
  <2> QED
    BY <2>1, FS_CardinalityType
<1>6. MaxKept \in Nat /\ named <= MaxKept
  BY <1>2, AggregatesAssumption
<1>7. room = MaxKept - named
  <2>1. /\ room \in {0, MaxKept - named} /\ room >= 0 /\ room >= MaxKept - named
    <3>1. PICK left \in Int : left = MaxKept - named
      BY <1>4, <1>6
    <3>2. PICK none \in Int : none = 0
      OBVIOUS
    <3>3. /\ Max({none, left}) \in {none, left}
          /\ Max({none, left}) >= none /\ Max({none, left}) >= left
      BY MaxOfTwo
    <3> QED
      BY <1>3, <3>1, <3>2, <3>3
  <2> QED
    BY <1>4, <1>6, <2>1
<1>8. keep \in SUBSET fresh /\ Cardinality(keep) = Min({room, Cardinality(fresh)})
  BY <1>1, <1>2, <1>3 DEF MayKeep
<1>9. Cardinality(keep) <= room
  BY <1>4, <1>5, <1>6, <1>7, <1>8, MinOfTwo
<1>10. IsFiniteSet(keep) /\ Cardinality(keep) \in Nat
  <2>1. IsFiniteSet(keep)
    BY <1>5, <1>8, FS_Subset
  <2> QED
    BY <2>1, FS_CardinalityType
<1>11. Named(new) \subseteq Named(deps) \cup keep
  <2> SUFFICES ASSUME NEW d \in Named(new), d \notin keep PROVE d \in Named(deps)
    OBVIOUS
  <2>1. d \in DependencyRow /\ new[d].requests > 0 /\ d.name # OtherName
    BY DEF Named, Rows
  <2>2. keep \in SUBSET DOMAIN work
    BY <1>1, <1>8
  <2>3. /\ new[d].requests \in {deps[d].requests, deps[d].requests + 1}
        /\ new[d].requests # deps[d].requests =>
             d.name = OtherName \/ (d \in DOMAIN work /\ d \in Rows(deps) \cup keep)
    <3>1. PICK own : own = Rows(deps) \cup keep
      OBVIOUS
    <3>2. PICK rest : rest = {e \in DOMAIN work \ own : e.kind = d.kind}
      OBVIOUS
    <3>3. RowIsFolded(deps, new, work, own, d, rest)
      BY <2>1, <2>2, <3>1, <3>2, RowFolded
    <3> QED
      BY <3>1, <3>3 DEF RowIsFolded
  <2>4. deps[d].requests > 0
    BY <2>1, <2>3 DEF Rows
  <2> QED
    BY <2>1, <2>4 DEF Named, Rows
<1>12. IsFiniteSet(Named(deps) \cup keep)
       /\ Cardinality(Named(deps) \cup keep) <= named + Cardinality(keep)
  <2>1. PICK both : both = Cardinality(Named(deps) \cap keep)
    OBVIOUS
  <2>2. both \in Nat
    <3>1. IsFiniteSet(Named(deps) \cap keep)
      BY <1>4, FS_Subset
    <3> QED
      BY <2>1, <3>1, FS_CardinalityType
  <2>3. /\ IsFiniteSet(Named(deps) \cup keep)
        /\ Cardinality(Named(deps) \cup keep) = named + Cardinality(keep) - both
    BY <1>2, <1>4, <1>10, <2>1, FS_Union
  <2> QED
    BY <1>4, <1>10, <2>2, <2>3
<1>13. /\ Cardinality(Named(new)) <= Cardinality(Named(deps) \cup keep)
       /\ Cardinality(Named(new)) \in Nat /\ Cardinality(Named(deps) \cup keep) \in Nat
  BY <1>11, <1>12, FS_Subset, FS_CardinalityType
<1> QED
  BY <1>4, <1>6, <1>7, <1>9, <1>10, <1>12, <1>13

\* What folding a request's work keeps, and adds.
LEMMA WorkFolded ==
  ASSUME NEW deps \in [DependencyRow -> WorkType], NEW body \in Bodies,
         NEW work, work = body.work, NEW keep \in MayKeep(deps, work),
         NEW new, new = FoldWork(deps, work, keep)
  PROVE  WorkIsFolded(deps, new, work)
<1>1. keep \in SUBSET DOMAIN work
  BY DEF MayKeep
<1>2. ASSUME NEW d \in DependencyRow
      PROVE  new[d] \in WorkType /\ new[d].requests <= deps[d].requests + 1
  <2>1. /\ new[d] \in WorkType
        /\ new[d].requests \in {deps[d].requests, deps[d].requests + 1}
    <3>1. PICK own : own = Rows(deps) \cup keep
      OBVIOUS
    <3>2. PICK rest : rest = {e \in DOMAIN work \ own : e.kind = d.kind}
      OBVIOUS
    <3>3. RowIsFolded(deps, new, work, own, d, rest)
      BY <1>1, <3>1, <3>2, RowFolded
    <3> QED
      BY <3>3 DEF RowIsFolded
  <2>2. deps[d].requests \in Nat
    BY DEF WorkType
  <2> QED
    BY <2>1, <2>2
<1>3. new \in [DependencyRow -> WorkType]
  <2>1. new = [d \in DependencyRow |-> new[d]]
    BY DEF FoldWork
  <2> QED
    BY <1>2, <2>1
<1>4. \A k \in Kind :
        SumFunctionOnSet(TimeOf(new), OfKind(k))
          = SumFunctionOnSet(TimeOf(deps), OfKind(k))
              + SumFunctionOnSet(WorkIn(work), WorkOf(work, k))
  BY <1>1, TimesFolded
<1> QED
  BY <1>2, <1>3, <1>4, NamesFolded DEF WorkIsFolded

-----------------------------------------------------------------------------
(* The interval                                                            *)

RequestType == [count : Nat, errors : Nat, deps : [DependencyRow -> WorkType]]
ServedType  == [count : Nat, errors : Nat, ms : [Kind -> Nat]]

CountsIn(S)   == [l \in Label |-> S[l].count]
ErrorsIn(S)   == [l \in Label |-> S[l].errors]
TimesIn(S, k) == [l \in Label |-> S[l].ms[k]]
AskedIn(S)    == {l \in Label : S[l].count > 0}

\* A row says what the endpoints it stands for were served.
RowTold(acc, for, S) ==
  /\ acc.count = SumFunctionOnSet(CountsIn(S), for)
  /\ acc.errors = SumFunctionOnSet(ErrorsIn(S), for)
  /\ \A k \in Kind : SumFunctionOnSet(TimeOf(acc.deps), OfKind(k))
                       = SumFunctionOnSet(TimesIn(S, k), for)
  /\ acc.errors <= acc.count
  /\ \A d \in DependencyRow : acc.deps[d].requests <= acc.count
  /\ Cardinality(Named(acc.deps)) <= MaxKept

IntervalOK(E, S) ==
  /\ E \in [Label -> RequestType] /\ S \in [Label -> ServedType]
  /\ AskedIn(S) \subseteq Endpoint
  /\ \A l \in Label \ AskedIn(S) : S[l].errors = 0 /\ \A k \in Kind : S[l].ms[k] = 0
  /\ Folded(Routes(E), MaxRoutes, AskedIn(S))
  /\ \A row \in Label : RowTold(E[row], StoodFor(Routes(E), row), S)

\* The row of an endpoint once more is told of it, and the endpoint's history.
RequestTold(was, acc, body, keep) ==
  acc = [count  |-> was.count + 1,
         errors |-> was.errors + FailOf(body),
         deps   |-> FoldWork(was.deps, body.work, keep)]

ServedMore(before, after, body) ==
  after = [count  |-> before.count + 1,
           errors |-> before.errors + FailOf(body),
           ms     |-> [k \in Kind |-> before.ms[k]
                         + SumFunctionOnSet(WorkIn(body.work), WorkOf(body.work, k))]]

\* What a request spent on a kind is a number.
LEMMA WorkTime ==
  ASSUME NEW body \in Bodies, NEW k
  PROVE  SumFunctionOnSet(WorkIn(body.work), WorkOf(body.work, k)) \in Nat
<1>1. PICK work : work = body.work
  OBVIOUS
<1>2. PICK S : S = WorkOf(work, k)
  OBVIOUS
<1>3. PICK t : t = WorkIn(work)
  OBVIOUS
<1>4. S \subseteq DOMAIN work /\ IsFiniteSet(DOMAIN work)
      /\ \A d \in DOMAIN work : t[d] \in Nat
  BY <1>1, <1>2, <1>3, WorkTypes DEF WorkOf, WorkIn
<1>5. SumFunctionOnSet(t, S) \in Nat
  <2>1. IsFiniteSet(S) /\ \A d \in S : t[d] \in Nat
    BY <1>4, FS_Subset
  <2> QED
    BY <2>1, SumType
<1> QED
  BY <1>1, <1>2, <1>3, <1>5

\* What one more request makes of a row, of the totals it has to say, and of the history.
IntervalMoved(E, S, E2, S2, label, row, body) ==
  \E acc \in RequestType, after \in ServedType, keep \in MayKeep(E[row].deps, body.work) :
    /\ RequestTold(E[row], acc, body, keep) /\ ServedMore(S[label], after, body)
    /\ E2 = [E EXCEPT ![row] = acc] /\ S2 = [S EXCEPT ![label] = after]

\* Of each row, once the request is told of, `after` and `keep` being what became of it.
RowsTold(E, S, S2, label, body, present, row, P, acc, after, keep) ==
  /\ AskedIn(S2) = AskedIn(S) \cup {label}
  /\ Folded(P, MaxRoutes, AskedIn(S2))
  /\ RowTold(acc, StandsFor(P, row), S2)
  /\ \A r \in present \ {row} : RowTold(E[r], StandsFor(P, r), S2)

\* A request is told to one row, and every other row says what it said.
LEMMA RowToldMore ==
  ASSUME NEW E, NEW S, IntervalOK(E, S), NEW label \in Endpoint, NEW body \in Bodies,
         NEW present, present = Routes(E),
         NEW row \in Label, row = RowOf(present, MaxRoutes, label),
         NEW acc \in RequestType, NEW after \in ServedType,
         NEW keep \in MayKeep(E[row].deps, body.work),
         RequestTold(E[row], acc, body, keep), ServedMore(S[label], after, body),
         NEW S2, S2 = [S EXCEPT ![label] = after],
         NEW P, P = present \cup {row}
  PROVE  RowsTold(E, S, S2, label, body, present, row, P, acc, after, keep)
<1>0. /\ E \in [Label -> RequestType] /\ S \in [Label -> ServedType]
      /\ AskedIn(S) \subseteq Endpoint
      /\ \A l \in Label \ AskedIn(S) : S[l].errors = 0 /\ \A k \in Kind : S[l].ms[k] = 0
      /\ Folded(present, MaxRoutes, AskedIn(S))
      /\ \A r \in Label : RowTold(E[r], StoodFor(present, r), S)
  BY DEF IntervalOK
<1>1. label \in Label /\ present \in SUBSET Label /\ MaxRoutes \in Nat
  BY Labels, AggregatesAssumption DEF Routes
<1>2. PICK told : told = AskedIn(S)
  OBVIOUS
<1>3. PICK was \in RequestType : was = E[row]
  BY <1>0
<1>4. PICK before \in ServedType : before = S[label]
  BY <1>0, <1>1
<1>5. OneRowMore(present, P, MaxRoutes, told, label, row)
  <2>1. told \in SUBSET Endpoint /\ Folded(present, MaxRoutes, told)
    BY <1>0, <1>2
  <2> QED
    BY <1>1, <2>1, RowStands
<1>6. /\ acc.count = was.count + 1 /\ acc.errors = was.errors + FailOf(body)
      /\ acc.deps = FoldWork(was.deps, body.work, keep)
  BY <1>3 DEF RequestTold
<1>7. /\ after.count = before.count + 1 /\ after.errors = before.errors + FailOf(body)
      /\ \A k \in Kind : after.ms[k] = before.ms[k]
           + SumFunctionOnSet(WorkIn(body.work), WorkOf(body.work, k))
  BY <1>4 DEF ServedMore
<1>8. /\ S2 \in [Label -> ServedType] /\ S2[label] = after
      /\ \A l \in Label \ {label} : S2[l] = S[l]
  BY <1>0, <1>1
<1>9. /\ was.count \in Nat /\ was.errors \in Nat /\ was.deps \in [DependencyRow -> WorkType]
      /\ before.count \in Nat /\ before.errors \in Nat /\ FailOf(body) \in {0, 1}
  BY DEF RequestType, ServedType, FailOf
<1>10. AskedIn(S2) = told \cup {label}
  <2>1. after.count > 0
    BY <1>7, <1>9
  <2> QED
    BY <1>1, <1>2, <1>8, <2>1 DEF AskedIn
<1>11. Folded(P, MaxRoutes, told \cup {label})
  BY <1>5 DEF OneRowMore
<1>12. RowTold(was, StoodFor(present, row), S)
  BY <1>0, <1>3
<1>13. \A l \in Label \ told : S[l].count = 0
  BY <1>0, <1>2 DEF AskedIn, ServedType
<1>14. TotalsMoved(CountsIn(S), CountsIn(S2), present, P, row, 1)
  <2>1. PICK f : f = CountsIn(S)
    OBVIOUS
  <2>2. PICK g : g = CountsIn(S2)
    OBVIOUS
  <2>3. /\ f \in [Label -> Nat] /\ g \in [Label -> Nat]
        /\ \A l \in Label : f[l] = S[l].count /\ g[l] = S2[l].count
    BY <1>0, <1>8, <2>1, <2>2 DEF CountsIn, ServedType
  <2>4. g[label] = f[label] + 1
    BY <1>1, <1>4, <1>7, <1>8, <2>3
  <2>5. /\ \A l \in Label \ told : f[l] = 0
        /\ \A l \in Label \ {label} : g[l] = f[l]
    BY <1>8, <1>13, <2>3
  <2>6. TotalsMoved(f, g, present, P, row, 1)
    BY <1>1, <1>5, <2>3, <2>4, <2>5, TotalsMove
  <2> QED
    BY <2>1, <2>2, <2>6
<1>15. TotalsMoved(ErrorsIn(S), ErrorsIn(S2), present, P, row, FailOf(body))
  <2>1. PICK f : f = ErrorsIn(S)
    OBVIOUS
  <2>2. PICK g : g = ErrorsIn(S2)
    OBVIOUS
  <2>3. /\ f \in [Label -> Nat] /\ g \in [Label -> Nat]
        /\ \A l \in Label : f[l] = S[l].errors /\ g[l] = S2[l].errors
    BY <1>0, <1>8, <2>1, <2>2 DEF ErrorsIn, ServedType
  <2>4. PICK n \in Nat : n = FailOf(body)
    BY <1>9
  <2>5. g[label] = f[label] + n
    BY <1>1, <1>4, <1>7, <1>8, <2>3, <2>4
  <2>6. /\ \A l \in Label \ told : f[l] = 0
        /\ \A l \in Label \ {label} : g[l] = f[l]
    BY <1>0, <1>2, <1>8, <2>3
  <2>7. TotalsMoved(f, g, present, P, row, n)
    BY <1>1, <1>5, <2>3, <2>5, <2>6, TotalsMove
  <2> QED
    BY <2>1, <2>2, <2>4, <2>7
<1>16. ASSUME NEW k \in Kind
       PROVE  TotalsMoved(TimesIn(S, k), TimesIn(S2, k), present, P, row,
                          SumFunctionOnSet(WorkIn(body.work), WorkOf(body.work, k)))
  <2>1. PICK f : f = TimesIn(S, k)
    OBVIOUS
  <2>2. PICK g : g = TimesIn(S2, k)
    OBVIOUS
  <2>3. /\ f \in [Label -> Nat] /\ g \in [Label -> Nat]
        /\ \A l \in Label : f[l] = S[l].ms[k] /\ g[l] = S2[l].ms[k]
    BY <1>0, <1>8, <2>1, <2>2 DEF TimesIn, ServedType
  <2>4. PICK n \in Nat : n = SumFunctionOnSet(WorkIn(body.work), WorkOf(body.work, k))
    BY WorkTime
  <2>5. g[label] = f[label] + n
    BY <1>1, <1>4, <1>7, <1>8, <2>3, <2>4
  <2>6. /\ \A l \in Label \ told : f[l] = 0
        /\ \A l \in Label \ {label} : g[l] = f[l]
    BY <1>0, <1>2, <1>8, <2>3
  <2>7. TotalsMoved(f, g, present, P, row, n)
    BY <1>1, <1>5, <2>3, <2>5, <2>6, TotalsMove
  <2> QED
    BY <2>1, <2>2, <2>4, <2>7
\* The rows that are not written to.
<1>17. ASSUME NEW r \in present \ {row} PROVE RowTold(E[r], StandsFor(P, r), S2)
  <2>1. RowTold(E[r], StandsFor(present, r), S)
    BY <1>0, <1>1 DEF StoodFor
  <2>2. /\ E[r].count = SumFunctionOnSet(CountsIn(S2), StandsFor(P, r))
        /\ E[r].errors = SumFunctionOnSet(ErrorsIn(S2), StandsFor(P, r))
    BY <1>14, <1>15, <2>1 DEF RowTold, TotalsMoved
  <2>3. ASSUME NEW k \in Kind
        PROVE  SumFunctionOnSet(TimeOf(E[r].deps), OfKind(k))
                 = SumFunctionOnSet(TimesIn(S2, k), StandsFor(P, r))
    <3>1. SumFunctionOnSet(TimesIn(S2, k), StandsFor(P, r))
            = SumFunctionOnSet(TimesIn(S, k), StandsFor(present, r))
      BY <1>16 DEF TotalsMoved
    <3> QED
      BY <2>1, <3>1 DEF RowTold
  <2> QED
    BY <2>1, <2>2, <2>3 DEF RowTold
\* The row that is.
<1>18. RowTold(acc, StandsFor(P, row), S2)
  <2>1. WorkIsFolded(was.deps, acc.deps, body.work)
    BY <1>3, <1>6, <1>9, WorkFolded
  <2>2. acc.count = SumFunctionOnSet(CountsIn(S2), StandsFor(P, row))
    BY <1>6, <1>12, <1>14 DEF RowTold, TotalsMoved
  <2>3. acc.errors = SumFunctionOnSet(ErrorsIn(S2), StandsFor(P, row))
    BY <1>6, <1>12, <1>15 DEF RowTold, TotalsMoved
  <2>4. ASSUME NEW k \in Kind
        PROVE  SumFunctionOnSet(TimeOf(acc.deps), OfKind(k))
                 = SumFunctionOnSet(TimesIn(S2, k), StandsFor(P, row))
    <3>1. SumFunctionOnSet(TimesIn(S2, k), StandsFor(P, row))
            = SumFunctionOnSet(TimesIn(S, k), StoodFor(present, row))
                + SumFunctionOnSet(WorkIn(body.work), WorkOf(body.work, k))
      BY <1>16 DEF TotalsMoved
    <3>2. SumFunctionOnSet(TimeOf(was.deps), OfKind(k))
            = SumFunctionOnSet(TimesIn(S, k), StoodFor(present, row))
      BY <1>12 DEF RowTold
    <3>3. SumFunctionOnSet(TimeOf(acc.deps), OfKind(k))
            = SumFunctionOnSet(TimeOf(was.deps), OfKind(k))
                + SumFunctionOnSet(WorkIn(body.work), WorkOf(body.work, k))
      BY <2>1 DEF WorkIsFolded
    <3> QED
      BY <3>1, <3>2, <3>3
  <2>5. acc.errors <= acc.count
    BY <1>6, <1>9, <1>12 DEF RowTold
  <2>6. ASSUME NEW d \in DependencyRow PROVE acc.deps[d].requests <= acc.count
    <3>1. /\ acc.deps[d].requests <= was.deps[d].requests + 1
          /\ was.deps[d].requests <= was.count
      BY <1>12, <2>1 DEF RowTold, WorkIsFolded
    <3>2. acc.deps[d].requests \in Nat /\ was.deps[d].requests \in Nat
      BY <1>9 DEF RequestType, WorkType
    <3> QED
      BY <1>6, <1>9, <3>1, <3>2
  <2>7. Cardinality(Named(acc.deps)) <= MaxKept
    BY <1>12, <2>1 DEF RowTold, WorkIsFolded
  <2> QED
    BY <2>2, <2>3, <2>4, <2>5, <2>6, <2>7 DEF RowTold
<1> QED
  BY <1>2, <1>10, <1>11, <1>17, <1>18 DEF RowsTold

\* A request recorded keeps the interval.
LEMMA IntervalSteps ==
  ASSUME NEW E, NEW S, IntervalOK(E, S), NEW label \in Endpoint, NEW body \in Bodies,
         NEW row, row = RowOf(Routes(E), MaxRoutes, label),
         NEW E2, NEW S2, IntervalMoved(E, S, E2, S2, label, row, body)
  PROVE  IntervalOK(E2, S2)
<1>0. /\ E \in [Label -> RequestType] /\ S \in [Label -> ServedType]
      /\ AskedIn(S) \subseteq Endpoint
      /\ \A l \in Label \ AskedIn(S) : S[l].errors = 0 /\ \A k \in Kind : S[l].ms[k] = 0
      /\ \A r \in Label : RowTold(E[r], StoodFor(Routes(E), r), S)
  BY DEF IntervalOK
<1>1. PICK present : present = Routes(E)
  OBVIOUS
<1>2. present \in SUBSET Label /\ MaxRoutes \in Nat /\ label \in Label
  BY <1>1, Labels, AggregatesAssumption DEF Routes
<1>3. row \in Label /\ row = RowOf(present, MaxRoutes, label)
  BY <1>1, <1>2, RowIs
<1>4. PICK acc \in RequestType, after \in ServedType, keep \in MayKeep(E[row].deps, body.work) :
        /\ RequestTold(E[row], acc, body, keep) /\ ServedMore(S[label], after, body)
        /\ E2 = [E EXCEPT ![row] = acc] /\ S2 = [S EXCEPT ![label] = after]
  BY DEF IntervalMoved
<1>5. PICK P : P = present \cup {row}
  OBVIOUS
<1>6. /\ AskedIn(S2) = AskedIn(S) \cup {label}
      /\ Folded(P, MaxRoutes, AskedIn(S2))
      /\ RowTold(acc, StandsFor(P, row), S2)
      /\ \A r \in present \ {row} : RowTold(E[r], StandsFor(P, r), S2)
  <2>1. RowsTold(E, S, S2, label, body, present, row, P, acc, after, keep)
    BY <1>1, <1>3, <1>4, <1>5, RowToldMore
  <2> QED
    BY <2>1 DEF RowsTold
<1>7. /\ E2 \in [Label -> RequestType] /\ E2[row] = acc
      /\ \A r \in Label \ {row} : E2[r] = E[r]
      /\ S2 \in [Label -> ServedType] /\ \A l \in Label \ {label} : S2[l] = S[l]
  BY <1>0, <1>2, <1>3, <1>4
<1>8. acc.count > 0
  <2>1. E[row].count \in Nat /\ acc.count = E[row].count + 1
    BY <1>0, <1>3, <1>4 DEF RequestTold, RequestType
  <2> QED
    BY <2>1
<1>9. Routes(E2) = P
  BY <1>1, <1>3, <1>5, <1>7, <1>8 DEF Routes
<1>10. ASSUME NEW r \in Label PROVE RowTold(E2[r], StoodFor(P, r), S2)
  <2>1. CASE r = row
    BY <1>5, <1>6, <1>7, <2>1 DEF StoodFor
  <2>2. CASE r # row /\ r \in present
    BY <1>5, <1>6, <1>7, <2>2 DEF StoodFor
  <2>3. CASE r # row /\ r \notin present
    <3>1. StoodFor(P, r) = {} /\ StoodFor(present, r) = {} /\ E2[r] = E[r]
      BY <1>5, <1>7, <2>3 DEF StoodFor
    <3>2. RowTold(E[r], {}, S)
      BY <1>0, <1>1, <3>1
    <3>3. RowTold(E[r], {}, S2)
      BY <3>2, SumEmpty DEF RowTold
    <3> QED
      BY <3>1, <3>3
  <2> QED
    BY <2>1, <2>2, <2>3
<1>11. \A l \in Label \ AskedIn(S2) : S2[l].errors = 0 /\ \A k \in Kind : S2[l].ms[k] = 0
  BY <1>0, <1>6, <1>7
<1> QED
  BY <1>0, <1>6, <1>7, <1>9, <1>10, <1>11 DEF IntervalOK

\* An interval that begins says nothing, of nothing.
LEMMA NothingTold == IntervalOK(NoEndpoints, NothingServed)
<1>1. PICK none : none = [d \in DependencyRow |-> NoWork]
  OBVIOUS
<1>2. /\ none \in [DependencyRow -> WorkType]
      /\ \A d \in DependencyRow : none[d].requests = 0 /\ none[d].ms = 0
  BY <1>1 DEF NoWork, WorkType
<1>3. PICK acc \in RequestType : acc = NoRequests
  BY <1>1, <1>2 DEF NoRequests, RequestType
<1>4. acc.count = 0 /\ acc.errors = 0 /\ acc.deps = none
  BY <1>1, <1>3 DEF NoRequests
<1>5. /\ NoEndpoints \in [Label -> RequestType]
      /\ \A l \in Label : NoEndpoints[l] = acc
  BY <1>3 DEF NoEndpoints
<1>6. /\ NothingServed \in [Label -> ServedType]
      /\ \A l \in Label : NothingServed[l].count = 0 /\ NothingServed[l].errors = 0
                          /\ \A k \in Kind : NothingServed[l].ms[k] = 0
  BY DEF NothingServed, ServedType
<1>7. Routes(NoEndpoints) = {} /\ AskedIn(NothingServed) = {}
  BY <1>4, <1>5, <1>6 DEF Routes, AskedIn
<1>8. RowTold(acc, {}, NothingServed)
  <2>1. ASSUME NEW k \in Kind PROVE SumFunctionOnSet(TimeOf(none), OfKind(k)) = 0
    <3>1. PICK f : f = TimeOf(none)
      OBVIOUS
    <3>2. PICK A : A = OfKind(k)
      OBVIOUS
    <3>3. IsFiniteSet(A) /\ \A d \in A : f[d] = 0
      BY <1>2, <3>1, <3>2, FewRows, FS_Subset DEF OfKind, TimeOf
    <3> QED
      BY <3>1, <3>2, <3>3, SumZero
  <2>2. Named(none) = {}
    BY <1>2 DEF Named, Rows
  <2> QED
    BY <1>2, <1>4, <2>1, <2>2, SumEmpty, FS_EmptySet, AggregatesAssumption DEF RowTold
<1>9. ASSUME NEW r \in Label
      PROVE  RowTold(NoEndpoints[r], StoodFor({}, r), NothingServed)
  BY <1>5, <1>8 DEF StoodFor
<1> QED
  BY <1>5, <1>6, <1>7, <1>9 DEF IntervalOK, Folded

IntervalInv == IntervalOK(endpoints, served)

\* What any step makes of the interval: a request is counted in it, or it is closed, or
\* stands still.
IntervalStep ==
  \/ \E label \in Endpoint, body \in Bodies :
       \E keep \in MayKeep(endpoints[RowOf(Routes(endpoints), MaxRoutes, label)].deps, body.work) :
         endpoints' = Recorded(label, body, keep) /\ served' = ServedToo(label, body)
  \/ endpoints' = NoEndpoints /\ served' = NothingServed
  \/ UNCHANGED <<endpoints, served>>

\* No step makes anything else of the interval.
LEMMA StepOfTheInterval == [Next]_vars => IntervalStep
<1> SUFFICES ASSUME [Next]_vars PROVE IntervalStep
  OBVIOUS
<1>1. CASE RequestStarted
  BY <1>1 DEF RequestStarted, IntervalStep
<1>2. ASSUME NEW r \in Begun, NEW label \in Endpoint, NEW body \in Bodies,
             ResponseEnding(r, label, body) \/ ResponseFinished(r, label, body)
      PROVE  IntervalStep
  <2>1. RecordFinished(r, label, body)
    BY <1>2 DEF ResponseEnding, ResponseFinished
  <2>2. CASE label.route \in Excluded
    BY <2>1, <2>2 DEF RecordFinished, IntervalStep
  <2>3. CASE label.route \notin Excluded
    <3>1. Record(r, label, body)
      BY <2>1, <2>3 DEF RecordFinished
    <3>2. CASE WritesNow(Left)
      <4>1. endpoints' = NoEndpoints /\ served' = NothingServed
        BY <3>1, <3>2 DEF Record, EnqueueHeld, RotateInterval
      <4> QED
        BY <4>1 DEF IntervalStep
    <3>3. CASE ~WritesNow(Left)
      BY <3>1, <3>3 DEF Record, IntervalStep
    <3> QED
      BY <3>2, <3>3
  <2> QED
    BY <2>2, <2>3
<1>3. ASSUME NEW r \in Begun, ResponseFinishedLate(r) PROVE IntervalStep
  BY <1>3 DEF ResponseFinishedLate, IntervalStep
<1>4. ASSUME NEW r \in Begun, ClientGone(r) PROVE IntervalStep
  BY <1>4 DEF ClientGone, IntervalStep
<1>5. ASSUME NEW leaving \in BOOLEAN, NEW health \in Health, Rotate(leaving, health)
      PROVE  IntervalStep
  BY <1>5 DEF Rotate, EnqueueHeld, RotateInterval, IntervalStep
<1>6. ASSUME NEW delay \in 1 .. MaxDelay, SampleLoop(delay) PROVE IntervalStep
  BY <1>6 DEF SampleLoop, IntervalStep
<1>7. ASSUME NEW live \in BOOLEAN, Renew(live) PROVE IntervalStep
  BY <1>7 DEF Renew, IntervalStep
<1>8. CASE MeterMoves
  BY <1>8 DEF MeterMoves, IntervalStep
<1>9. CASE Tick
  BY <1>9 DEF Tick, IntervalStep
<1>10. CASE UNCHANGED vars
  BY <1>10 DEF vars, IntervalStep
<1> QED
  BY <1>1, <1>2, <1>3, <1>4, <1>5, <1>6, <1>7, <1>8, <1>9, <1>10 DEF Next

\* What IntervalAggregator.record does, in the terms of the lemmas above.
LEMMA Recording ==
  ASSUME IntervalInv, NEW label \in Endpoint, NEW body \in Bodies,
         NEW row, row = RowOf(Routes(endpoints), MaxRoutes, label),
         NEW keep \in MayKeep(endpoints[row].deps, body.work),
         NEW E2, E2 = Recorded(label, body, keep), NEW S2, S2 = ServedToo(label, body)
  PROVE  IntervalMoved(endpoints, served, E2, S2, label, row, body)
<1>0. endpoints \in [Label -> RequestType] /\ served \in [Label -> ServedType]
  BY DEF IntervalInv, IntervalOK
<1>1. row \in Label /\ label \in Label
  <2>1. PICK present : present = Routes(endpoints)
    OBVIOUS
  <2>2. present \in SUBSET Label /\ MaxRoutes \in Nat
    BY <2>1, AggregatesAssumption DEF Routes
  <2> QED
    BY <2>1, <2>2, RowIs, Labels
<1>2. PICK was \in RequestType : was = endpoints[row]
  BY <1>0, <1>1
<1>3. PICK before \in ServedType : before = served[label]
  BY <1>0, <1>1
<1>4. /\ was.count \in Nat /\ was.errors \in Nat /\ was.deps \in [DependencyRow -> WorkType]
      /\ before.count \in Nat /\ before.errors \in Nat /\ before.ms \in [Kind -> Nat]
      /\ FailOf(body) \in Nat
  BY DEF RequestType, ServedType, FailOf
<1>5. PICK acc : acc = [count  |-> was.count + 1,
                        errors |-> was.errors + FailOf(body),
                        deps   |-> FoldWork(was.deps, body.work, keep)]
  OBVIOUS
<1>6. FoldWork(was.deps, body.work, keep) \in [DependencyRow -> WorkType]
  BY <1>2, <1>4, WorkFolded DEF WorkIsFolded
<1>7. acc \in RequestType
  BY <1>4, <1>5, <1>6 DEF RequestType
<1>8. PICK times : times = [k \in Kind |-> before.ms[k]
                              + SumFunctionOnSet(WorkIn(body.work), WorkOf(body.work, k))]
  OBVIOUS
<1>9. times \in [Kind -> Nat]
  <2> SUFFICES ASSUME NEW k \in Kind
               PROVE  before.ms[k]
                        + SumFunctionOnSet(WorkIn(body.work), WorkOf(body.work, k)) \in Nat
    BY <1>8
  <2>1. SumFunctionOnSet(WorkIn(body.work), WorkOf(body.work, k)) \in Nat
    BY WorkTime
  <2> QED
    BY <1>4, <2>1
<1>10. PICK after : after = [count |-> before.count + 1,
                             errors |-> before.errors + FailOf(body), ms |-> times]
  OBVIOUS
<1>11. after \in ServedType
  BY <1>4, <1>9, <1>10 DEF ServedType
<1>12. E2 = [endpoints EXCEPT ![row] = acc]
  BY <1>2, <1>5 DEF Recorded, FailOf
<1>13. \A k \in Kind :
         SumOver({d \in DOMAIN body.work : d.kind = k}, LAMBDA d : body.work[d].ms)
           = SumFunctionOnSet(WorkIn(body.work), WorkOf(body.work, k))
  <2> SUFFICES ASSUME NEW k \in Kind
               PROVE  SumOver({d \in DOMAIN body.work : d.kind = k},
                              LAMBDA d : body.work[d].ms)
                        = SumFunctionOnSet(WorkIn(body.work), WorkOf(body.work, k))
    OBVIOUS
  <2>1. PICK work : work = body.work
    OBVIOUS
  <2>2. PICK some : some = WorkOf(work, k)
    OBVIOUS
  <2>3. some \subseteq DOMAIN work
    BY <2>2 DEF WorkOf
  <2>4. SumOver(some, LAMBDA d : work[d].ms) = SumFunctionOnSet(WorkIn(work), some)
    BY <2>1, <2>3, WorkSum DEF SumOver
  <2> QED
    BY <2>1, <2>2, <2>4 DEF WorkOf
<1>14. times = [k \in Kind |-> before.ms[k] +
                 SumOver({d \in DOMAIN body.work : d.kind = k}, LAMBDA d : body.work[d].ms)]
  BY <1>8, <1>13
<1>15. S2 = [served EXCEPT ![label] = after]
  BY <1>3, <1>10, <1>14 DEF ServedToo, FailOf
<1>16. RequestTold(was, acc, body, keep) /\ ServedMore(before, after, body)
  BY <1>5, <1>8, <1>10 DEF RequestTold, ServedMore
<1> QED
  BY <1>2, <1>3, <1>7, <1>11, <1>12, <1>15, <1>16 DEF IntervalMoved

\* What a row of the interval says is what its endpoints were served.
LEMMA IntervalKept == Spec => []IntervalInv
<1>1. Init => IntervalInv
  BY NothingTold DEF Init, AggregatesInit, IntervalInv
<1>2. IntervalInv /\ [Next]_vars => IntervalInv'
  <2> SUFFICES ASSUME IntervalInv, [Next]_vars PROVE IntervalInv'
    OBVIOUS
  <2>1. ASSUME NEW label \in Endpoint, NEW body \in Bodies,
               NEW keep \in MayKeep(endpoints[RowOf(Routes(endpoints), MaxRoutes, label)].deps,
                                    body.work),
               endpoints' = Recorded(label, body, keep), served' = ServedToo(label, body)
        PROVE  IntervalInv'
    <3>1. PICK row : row = RowOf(Routes(endpoints), MaxRoutes, label)
      OBVIOUS
    <3>2. IntervalMoved(endpoints, served, endpoints', served', label, row, body)
      BY <2>1, <3>1, Recording
    <3>3. IntervalOK(endpoints', served')
      BY <3>1, <3>2, IntervalSteps DEF IntervalInv
    <3> QED
      BY <3>3 DEF IntervalInv
  <2>2. CASE endpoints' = NoEndpoints /\ served' = NothingServed
    <3>1. IntervalOK(endpoints', served')
      BY <2>2, NothingTold
    <3> QED
      BY <3>1 DEF IntervalInv
  <2>3. CASE UNCHANGED <<endpoints, served>>
    <3>1. IntervalOK(endpoints', served')
      BY <2>3 DEF IntervalInv
    <3> QED
      BY <3>1 DEF IntervalInv
  <2> QED
    BY <2>1, <2>2, <2>3, StepOfTheInterval DEF IntervalStep
<1> QED
  BY <1>1, <1>2, PTL DEF Spec

\* A request that names more destinations than are kept costs a row of its kind at most.
LEMMA FewDependencies ==
  ASSUME NEW deps, Cardinality(Named(deps)) <= MaxKept
  PROVE  Cardinality(Rows(deps)) <= MaxKept + Cardinality(Kind)
<1>1. PICK merged : merged = {d \in Rows(deps) : d.name = OtherName}
  OBVIOUS
<1>2. PICK of : of = [k \in Kind |-> [kind |-> k, name |-> OtherName]]
  OBVIOUS
<1>3. PICK all : all = {of[k] : k \in Kind}
  OBVIOUS
<1>4. IsFiniteSet(Kind) /\ Cardinality(Kind) \in Nat /\ MaxKept \in Nat
  BY ObservedAssumption, AggregatesAssumption, FS_CardinalityType
<1>5. of \in Surjection(Kind, all)
  BY <1>2, <1>3 DEF Surjection
<1>6. IsFiniteSet(all) /\ Cardinality(all) <= Cardinality(Kind)
  BY <1>4, <1>5, FS_Surjection
<1>7. merged \subseteq all
  <2> SUFFICES ASSUME NEW d \in merged PROVE d \in all
    OBVIOUS
  <2>1. d \in DependencyRow /\ d.name = OtherName
    BY <1>1 DEF Rows
  <2>2. d.kind \in Kind /\ d = [kind |-> d.kind, name |-> OtherName]
    BY <2>1 DEF DependencyRow
  <2>3. d = of[d.kind]
    BY <1>2, <2>2
  <2> QED
    BY <1>3, <2>2, <2>3
<1>8. IsFiniteSet(merged) /\ Cardinality(merged) <= Cardinality(all)
  BY <1>6, <1>7, FS_Subset
<1>9. IsFiniteSet(Named(deps))
  <2>1. Named(deps) \subseteq DependencyRow
    BY DEF Named, Rows
  <2> QED
    BY <2>1, FewRows, FS_Subset
<1>10. Rows(deps) = Named(deps) \cup merged /\ Named(deps) \cap merged = {}
  BY <1>1 DEF Named
<1>11. Cardinality(Rows(deps)) = Cardinality(Named(deps)) + Cardinality(merged)
  <2>1. Cardinality(Named(deps) \cup merged)
          = Cardinality(Named(deps)) + Cardinality(merged) - Cardinality({})
    BY <1>8, <1>9, <1>10, FS_Union
  <2>2. Cardinality(Named(deps)) \in Nat /\ Cardinality(merged) \in Nat
    BY <1>8, <1>9, FS_CardinalityType
  <2> QED
    BY <1>10, <2>1, <2>2, FS_EmptySet
<1>12. /\ Cardinality(Named(deps)) \in Nat /\ Cardinality(merged) \in Nat
       /\ Cardinality(all) \in Nat
  BY <1>6, <1>8, <1>9, FS_CardinalityType
<1> QED
  BY <1>4, <1>6, <1>8, <1>11, <1>12

\* A row of the interval says what the endpoints it stands for were served, in all and by kind
\* of dependency, and a request counts once in a row however many of its destinations fell
\* there (aggregator.ts 98-170).
THEOREM NothingFoldedIsLost == Spec => []EveryRequestTold
<1>1. IntervalInv => EveryRequestTold
  <2> SUFFICES ASSUME IntervalInv, NEW row \in Routes(endpoints)
               PROVE  LET for == StandsFor(Routes(endpoints), row)
                          acc == endpoints[row]
                      IN /\ acc.count = SumOver(for, LAMBDA l : served[l].count)
                         /\ acc.errors = SumOver(for, LAMBDA l : served[l].errors)
                         /\ \A k \in Kind :
                              SumOver({d \in DependencyRow : d.kind = k},
                                      LAMBDA d : acc.deps[d].ms)
                                = SumOver(for, LAMBDA l : served[l].ms[k])
                         /\ \A d \in DependencyRow : acc.deps[d].requests <= acc.count
                         /\ Cardinality(Rows(acc.deps)) <= MaxKept + Cardinality(Kind)
    BY DEF EveryRequestTold
  <2>1. PICK for : for = StandsFor(Routes(endpoints), row)
    OBVIOUS
  <2>2. PICK acc : acc = endpoints[row]
    OBVIOUS
  <2>3. row \in Label /\ Routes(endpoints) \in SUBSET Label
    BY DEF Routes
  <2>4. IsFiniteSet(for) /\ for \subseteq Label
    BY <2>1, <2>3, StandsForSome
  <2>5. RowTold(acc, for, served)
    BY <2>1, <2>2, <2>3 DEF IntervalInv, IntervalOK, StoodFor
  <2>6. SumOver(for, LAMBDA l : served[l].count) = SumFunctionOnSet(CountsIn(served), for)
    <3>1. PICK f : f = [l \in for |-> served[l].count]
      OBVIOUS
    <3>2. PICK g : g = CountsIn(served)
      OBVIOUS
    <3>3. \A l \in for : f[l] = g[l]
      BY <2>4, <3>1, <3>2 DEF CountsIn
    <3>4. SumFunctionOnSet(f, for) = SumFunctionOnSet(g, for)
      BY <2>4, <3>3, SumSame
    <3> QED
      BY <3>1, <3>2, <3>4 DEF SumOver
  <2>7. SumOver(for, LAMBDA l : served[l].errors) = SumFunctionOnSet(ErrorsIn(served), for)
    <3>1. PICK f : f = [l \in for |-> served[l].errors]
      OBVIOUS
    <3>2. PICK g : g = ErrorsIn(served)
      OBVIOUS
    <3>3. \A l \in for : f[l] = g[l]
      BY <2>4, <3>1, <3>2 DEF ErrorsIn
    <3>4. SumFunctionOnSet(f, for) = SumFunctionOnSet(g, for)
      BY <2>4, <3>3, SumSame
    <3> QED
      BY <3>1, <3>2, <3>4 DEF SumOver
  <2>8. ASSUME NEW k \in Kind
        PROVE  SumOver({d \in DependencyRow : d.kind = k}, LAMBDA d : acc.deps[d].ms)
                 = SumOver(for, LAMBDA l : served[l].ms[k])
    <3>1. PICK f : f = [l \in for |-> served[l].ms[k]]
      OBVIOUS
    <3>2. PICK g : g = TimesIn(served, k)
      OBVIOUS
    <3>3. \A l \in for : f[l] = g[l]
      BY <2>4, <3>1, <3>2 DEF TimesIn
    <3>4. SumFunctionOnSet(f, for) = SumFunctionOnSet(g, for)
      BY <2>4, <3>3, SumSame
    <3>5. PICK A : A = OfKind(k)
      OBVIOUS
    <3>6. PICK h : h = [d \in A |-> acc.deps[d].ms]
      OBVIOUS
    <3>7. PICK t : t = TimeOf(acc.deps)
      OBVIOUS
    <3>8. A \subseteq DependencyRow /\ IsFiniteSet(A)
      <4>1. A \subseteq DependencyRow
        BY <3>5 DEF OfKind
      <4> QED
        BY <4>1, FewRows, FS_Subset
    <3>9. \A d \in A : h[d] = t[d]
      BY <3>6, <3>7, <3>8 DEF TimeOf
    <3>10. SumFunctionOnSet(h, A) = SumFunctionOnSet(t, A)
      BY <3>8, <3>9, SumSame
    <3>11. SumFunctionOnSet(t, A) = SumFunctionOnSet(g, for)
      BY <2>5, <3>2, <3>5, <3>7 DEF RowTold
    <3>12. SumOver(A, LAMBDA d : acc.deps[d].ms) = SumOver(for, LAMBDA l : served[l].ms[k])
      BY <3>1, <3>4, <3>6, <3>10, <3>11 DEF SumOver
    <3> QED
      BY <3>5, <3>12 DEF OfKind
  <2>9. Cardinality(Rows(acc.deps)) <= MaxKept + Cardinality(Kind)
    BY <2>5, FewDependencies DEF RowTold
  <2> QED
    BY <2>1, <2>2, <2>5, <2>6, <2>7, <2>8, <2>9 DEF RowTold, SumOver
<1> QED
  BY <1>1, IntervalKept, PTL

-----------------------------------------------------------------------------
(* The profile                                                             *)

OperationType == [count : Nat, ms : Nat]
ProfileType   == [Operation -> OperationType]

CountsOf(acc) == [op \in Operation |-> acc[op].count]
RanIn(R)      == {l \in Label : R[l] > 0}

ProfileOK(O, R) ==
  /\ O \in [Label -> ProfileType] /\ R \in [Label -> Nat]
  /\ RanIn(R) \subseteq Endpoint
  /\ Folded(Profiled(O), MaxRoutes, RanIn(R))
  /\ \A row \in Label :
       SumFunctionOnSet(CountsOf(O[row]), Operation)
         = SumFunctionOnSet(R, StoodFor(Profiled(O), row))

\* The row of an endpoint once it is told what one more request ran.
OperationsTold(was, acc, done) ==
  acc = [op \in Operation |->
           IF op \in DOMAIN done
           THEN [count |-> was[op].count + 1, ms |-> was[op].ms + done[op]]
           ELSE was[op]]

\* What one more request ran is counted, each operation once.
LEMMA OperationsFolded ==
  ASSUME NEW was \in ProfileType, NEW body \in Bodies, NEW done, done = body.operations,
         NEW acc, OperationsTold(was, acc, done), DOMAIN done # {}
  PROVE  /\ acc \in ProfileType /\ Ran(acc) # {} /\ IsFiniteSet(DOMAIN done)
         /\ Cardinality(DOMAIN done) \in Nat \ {0}
         /\ SumFunctionOnSet(CountsOf(acc), Operation)
              = SumFunctionOnSet(CountsOf(was), Operation) + Cardinality(DOMAIN done)
<1>1. PICK D : D = DOMAIN done
  OBVIOUS
<1>2. D \subseteq Operation /\ IsFiniteSet(Operation) /\ \A op \in D : done[op] \in Nat
  BY <1>1, ObservedAssumption
<1>3. IsFiniteSet(D) /\ Cardinality(D) \in Nat \ {0}
  <2>1. IsFiniteSet(D)
    BY <1>2, FS_Subset
  <2> QED
    BY <1>1, <2>1, FS_CardinalityType, FS_EmptySet
<1>4. PICK f : f = CountsOf(was)
  OBVIOUS
<1>5. PICK h : h = CountsOf(acc)
  OBVIOUS
<1>6. PICK add : add = [op \in Operation |-> IF op \in D THEN 1 ELSE 0]
  OBVIOUS
<1>7. ASSUME NEW op \in Operation
      PROVE  /\ acc[op] \in OperationType /\ f[op] \in Nat /\ add[op] \in Nat
             /\ h[op] = f[op] + add[op]
  <2>1. PICK one : one = was[op]
    OBVIOUS
  <2>2. one.count \in Nat /\ one.ms \in Nat /\ one \in OperationType
    BY <2>1 DEF ProfileType, OperationType
  <2>3. f[op] = one.count /\ h[op] = acc[op].count
    BY <1>4, <1>5, <2>1 DEF CountsOf
  <2>4. CASE op \in D
    <3>1. acc[op] = [count |-> one.count + 1, ms |-> one.ms + done[op]]
      BY <1>1, <2>1, <2>4 DEF OperationsTold
    <3>2. add[op] = 1 /\ done[op] \in Nat
      BY <1>2, <1>6, <2>4
    <3> QED
      BY <2>2, <2>3, <3>1, <3>2 DEF OperationType
  <2>5. CASE op \notin D
    <3>1. acc[op] = one /\ add[op] = 0
      BY <1>1, <1>6, <2>1, <2>5 DEF OperationsTold
    <3> QED
      BY <2>2, <2>3, <3>1
  <2> QED
    BY <2>4, <2>5
<1>8. acc \in ProfileType
  BY <1>7 DEF OperationsTold, ProfileType
<1>9. Ran(acc) # {}
  <2>1. PICK op \in D : TRUE
    BY <1>1
  <2>2. acc[op].count > 0
    <3>1. h[op] = f[op] + 1 /\ f[op] \in Nat /\ op \in Operation
      BY <1>2, <1>6, <1>7
    <3>2. h[op] = acc[op].count
      BY <1>5, <3>1 DEF CountsOf
    <3> QED
      BY <3>1, <3>2
  <2> QED
    BY <1>2, <2>2 DEF Ran
<1>10. SumFunctionOnSet(h, Operation)
         = SumFunctionOnSet(f, Operation) + SumFunctionOnSet(add, Operation)
  BY <1>2, <1>7, SumPlus
<1>11. SumFunctionOnSet(add, Operation) = Cardinality(D)
  <2>1. \A op \in Operation : add[op] \in Nat
    BY <1>7
  <2>2. \A op \in Operation \ D : add[op] = 0
    BY <1>6
  <2>3. IsFiniteSet(Operation)
    BY <1>2
  <2>4. SumFunctionOnSet(add, Operation) = SumFunctionOnSet(add, Operation \cap D)
    BY <2>1, <2>2, <2>3, SumWithin
  <2>5. Operation \cap D = D /\ \A op \in D : add[op] = 1
    BY <1>2, <1>6
  <2>6. SumFunctionOnSet(add, D) = Cardinality(D)
    BY <1>3, <2>5, SumOnes
  <2> QED
    BY <2>4, <2>5, <2>6
<1> QED
  BY <1>1, <1>3, <1>4, <1>5, <1>8, <1>9, <1>10, <1>11

ProfileMoved(O, R, O2, R2, label, row, acc, done) ==
  /\ row = RowOf(Profiled(O), MaxRoutes, label)
  /\ OperationsTold(O[row], acc, done)
  /\ O2 = [O EXCEPT ![row] = acc]
  /\ R2 = [R EXCEPT ![label] = R[label] + Cardinality(DOMAIN done)]

\* A request profiled keeps the profile.
LEMMA ProfileSteps ==
  ASSUME NEW O, NEW R, ProfileOK(O, R), NEW label \in Endpoint, NEW body \in Bodies,
         NEW row, NEW acc, NEW O2, NEW R2,
         ProfileMoved(O, R, O2, R2, label, row, acc, body.operations),
         DOMAIN body.operations # {}
  PROVE  ProfileOK(O2, R2)
<1>a. /\ row = RowOf(Profiled(O), MaxRoutes, label)
      /\ OperationsTold(O[row], acc, body.operations)
      /\ O2 = [O EXCEPT ![row] = acc]
      /\ R2 = [R EXCEPT ![label] = R[label] + Cardinality(DOMAIN body.operations)]
  BY DEF ProfileMoved
<1>0. /\ O \in [Label -> ProfileType] /\ R \in [Label -> Nat]
      /\ RanIn(R) \subseteq Endpoint
      /\ Folded(Profiled(O), MaxRoutes, RanIn(R))
      /\ \A r \in Label :
           SumFunctionOnSet(CountsOf(O[r]), Operation)
             = SumFunctionOnSet(R, StoodFor(Profiled(O), r))
  BY DEF ProfileOK
<1>1. PICK present : present = Profiled(O)
  OBVIOUS
<1>2. present \in SUBSET Label /\ MaxRoutes \in Nat /\ label \in Label
  BY <1>1, Labels, AggregatesAssumption DEF Profiled
<1>3. row \in Label /\ row = RowOf(present, MaxRoutes, label)
  BY <1>a, <1>1, <1>2, RowIs
<1>4. PICK told : told = RanIn(R)
  OBVIOUS
<1>5. PICK P : P = present \cup {row}
  OBVIOUS
<1>6. OneRowMore(present, P, MaxRoutes, told, label, row)
  <2>1. told \in SUBSET Endpoint /\ Folded(present, MaxRoutes, told)
    BY <1>0, <1>1, <1>4
  <2> QED
    BY <1>2, <1>3, <1>5, <2>1, RowStands
<1>7. PICK was \in ProfileType : was = O[row]
  BY <1>0, <1>3
<1>8. PICK done : done = body.operations
  OBVIOUS
<1>9. PICK n : n = Cardinality(DOMAIN done)
  OBVIOUS
<1>10. /\ acc \in ProfileType /\ Ran(acc) # {} /\ n \in Nat \ {0}
       /\ SumFunctionOnSet(CountsOf(acc), Operation)
            = SumFunctionOnSet(CountsOf(was), Operation) + n
  BY <1>a, <1>7, <1>8, <1>9, OperationsFolded
<1>11. /\ O2 \in [Label -> ProfileType] /\ O2[row] = acc
       /\ \A r \in Label \ {row} : O2[r] = O[r]
  BY <1>a, <1>0, <1>3, <1>10
<1>12. /\ R2 \in [Label -> Nat] /\ R2[label] = R[label] + n
       /\ \A l \in Label \ {label} : R2[l] = R[l]
  BY <1>a, <1>0, <1>2, <1>8, <1>9, <1>10
<1>13. Profiled(O2) = P
  <2>1. \A l \in Label \ {row} : Ran(O2[l]) = Ran(O[l])
    BY <1>11
  <2>2. Ran(O2[row]) # {}
    BY <1>10, <1>11
  <2> QED
    BY <1>1, <1>3, <1>5, <2>1, <2>2 DEF Profiled
<1>14. RanIn(R2) = told \cup {label}
  <2>1. R[label] \in Nat /\ R2[label] > 0
    BY <1>0, <1>2, <1>10, <1>12
  <2> QED
    BY <1>2, <1>4, <1>12, <2>1 DEF RanIn
<1>15. TotalsMoved(R, R2, present, P, row, n)
  <2>1. PICK f : f = R
    OBVIOUS
  <2>2. PICK g : g = R2
    OBVIOUS
  <2>3. PICK many \in Nat : many = n
    BY <1>10
  <2>4. f \in [Label -> Nat] /\ g \in [Label -> Nat]
    BY <1>0, <1>12, <2>1, <2>2
  <2>5. g[label] = f[label] + many /\ \A l \in Label \ {label} : g[l] = f[l]
    BY <1>12, <2>1, <2>2, <2>3
  <2>6. \A l \in Label \ told : f[l] = 0
    BY <1>0, <1>4, <2>1 DEF RanIn
  <2>7. TotalsMoved(f, g, present, P, row, many)
    BY <1>2, <1>5, <1>6, <2>4, <2>5, <2>6, TotalsMove
  <2> QED
    BY <2>1, <2>2, <2>3, <2>7
<1>16. ASSUME NEW r \in Label
       PROVE  SumFunctionOnSet(CountsOf(O2[r]), Operation)
                = SumFunctionOnSet(R2, StoodFor(P, r))
  <2>1. CASE r = row
    <3>1. SumFunctionOnSet(CountsOf(was), Operation)
            = SumFunctionOnSet(R, StoodFor(present, row))
      BY <1>0, <1>1, <1>3, <1>7
    <3>2. SumFunctionOnSet(R2, StandsFor(P, row))
            = SumFunctionOnSet(R, StoodFor(present, row)) + n
      BY <1>15 DEF TotalsMoved
    <3>3. StoodFor(P, r) = StandsFor(P, row) /\ O2[r] = acc
      BY <1>5, <1>11, <2>1 DEF StoodFor
    <3> QED
      BY <1>10, <3>1, <3>2, <3>3
  <2>2. CASE r # row /\ r \in present
    <3>1. StoodFor(P, r) = StandsFor(P, r) /\ StoodFor(present, r) = StandsFor(present, r)
          /\ O2[r] = O[r]
      BY <1>5, <1>11, <2>2 DEF StoodFor
    <3>2. SumFunctionOnSet(R2, StandsFor(P, r)) = SumFunctionOnSet(R, StandsFor(present, r))
      BY <1>15, <2>2 DEF TotalsMoved
    <3> QED
      BY <1>0, <1>1, <3>1, <3>2
  <2>3. CASE r # row /\ r \notin present
    <3>1. StoodFor(P, r) = {} /\ StoodFor(present, r) = {} /\ O2[r] = O[r]
      BY <1>5, <1>11, <2>3 DEF StoodFor
    <3>2. SumFunctionOnSet(R2, {}) = 0 /\ SumFunctionOnSet(R, {}) = 0
      BY SumEmpty
    <3>3. SumFunctionOnSet(CountsOf(O[r]), Operation) = SumFunctionOnSet(R, {})
      BY <1>0, <1>1, <3>1
    <3> QED
      BY <3>1, <3>2, <3>3
  <2> QED
    BY <2>1, <2>2, <2>3
<1>17. Folded(P, MaxRoutes, RanIn(R2)) /\ RanIn(R2) \subseteq Endpoint
  BY <1>0, <1>4, <1>6, <1>14 DEF OneRowMore
<1> QED
  BY <1>11, <1>12, <1>13, <1>16, <1>17 DEF ProfileOK

\* A window that begins says nothing, of nothing.
LEMMA NothingProfiled == ProfileOK(NoOperations, NothingRan)
<1>1. PICK acc : acc = [op \in Operation |-> [count |-> 0, ms |-> 0]]
  OBVIOUS
<1>2. acc \in ProfileType /\ Ran(acc) = {} /\ \A op \in Operation : acc[op].count = 0
  BY <1>1 DEF ProfileType, OperationType, Ran
<1>3. /\ NoOperations \in [Label -> ProfileType] /\ NothingRan \in [Label -> Nat]
      /\ \A l \in Label : NoOperations[l] = acc /\ NothingRan[l] = 0
  BY <1>1, <1>2 DEF NoOperations, NothingRan
<1>4. Profiled(NoOperations) = {} /\ RanIn(NothingRan) = {}
  BY <1>2, <1>3 DEF Profiled, RanIn
<1>5. SumFunctionOnSet(CountsOf(acc), Operation) = 0
  <2>1. PICK f : f = CountsOf(acc)
    OBVIOUS
  <2>2. IsFiniteSet(Operation) /\ \A op \in Operation : f[op] = 0
    BY <1>2, <2>1, ObservedAssumption DEF CountsOf
  <2> QED
    BY <2>1, <2>2, SumZero
<1>6. \A l \in Label : SumFunctionOnSet(CountsOf(NoOperations[l]), Operation)
                         = SumFunctionOnSet(NothingRan, StoodFor({}, l))
  BY <1>3, <1>5, SumEmpty DEF StoodFor
<1> QED
  BY <1>3, <1>4, <1>6 DEF ProfileOK, Folded

ProfileInv == ProfileOK(operations, ran)

\* What any step makes of the profile: what a request ran is counted in it, or it is closed,
\* or stands still.
ProfileStep ==
  \/ \E label \in Endpoint, body \in Bodies :
       operations' = Profile(label, body) /\ ran' = RanToo(label, body)
  \/ operations' = NoOperations /\ ran' = NothingRan
  \/ UNCHANGED <<operations, ran>>

\* No step makes anything else of the profile.
LEMMA StepOfTheProfile == [Next]_vars => ProfileStep
<1> SUFFICES ASSUME [Next]_vars PROVE ProfileStep
  OBVIOUS
<1>1. CASE RequestStarted
  BY <1>1 DEF RequestStarted, ProfileStep
<1>2. ASSUME NEW r \in Begun, NEW label \in Endpoint, NEW body \in Bodies,
             ResponseEnding(r, label, body) \/ ResponseFinished(r, label, body)
      PROVE  ProfileStep
  <2>1. RecordFinished(r, label, body)
    BY <1>2 DEF ResponseEnding, ResponseFinished
  <2>2. CASE label.route \in Excluded
    BY <2>1, <2>2 DEF RecordFinished, ProfileStep
  <2>3. CASE label.route \notin Excluded
    <3>1. Record(r, label, body)
      BY <2>1, <2>3 DEF RecordFinished
    <3>2. CASE WritesNow(Left)
      <4>1. operations' = NoOperations /\ ran' = NothingRan
        BY <3>1, <3>2 DEF Record, EnqueueHeld, CloseProfile
      <4> QED
        BY <4>1 DEF ProfileStep
    <3>3. CASE ~WritesNow(Left)
      <4>1. /\ operations' = IF KeepsProfile THEN Profile(label, body) ELSE operations
            /\ ran' = IF KeepsProfile THEN RanToo(label, body) ELSE ran
        BY <3>1, <3>3 DEF Record
      <4> QED
        BY <4>1 DEF ProfileStep
    <3> QED
      BY <3>2, <3>3
  <2> QED
    BY <2>2, <2>3
<1>3. ASSUME NEW r \in Begun, ResponseFinishedLate(r) PROVE ProfileStep
  BY <1>3 DEF ResponseFinishedLate, ProfileStep
<1>4. ASSUME NEW r \in Begun, ClientGone(r) PROVE ProfileStep
  BY <1>4 DEF ClientGone, ProfileStep
<1>5. ASSUME NEW leaving \in BOOLEAN, NEW health \in Health, Rotate(leaving, health)
      PROVE  ProfileStep
  <2>1. CASE leaving \/ now - windowStart >= WindowMs
    <3>1. operations' = NoOperations /\ ran' = NothingRan
      BY <1>5, <2>1 DEF Rotate, EnqueueHeld, CloseProfile
    <3> QED
      BY <3>1 DEF ProfileStep
  <2>2. CASE ~(leaving \/ now - windowStart >= WindowMs)
    <3>1. operations' = operations /\ ran' = ran
      BY <1>5, <2>2 DEF Rotate, EnqueueHeld, CloseProfile
    <3> QED
      BY <3>1 DEF ProfileStep
  <2> QED
    BY <2>1, <2>2
<1>6. ASSUME NEW delay \in 1 .. MaxDelay, SampleLoop(delay) PROVE ProfileStep
  BY <1>6 DEF SampleLoop, ProfileStep
<1>7. ASSUME NEW live \in BOOLEAN, Renew(live) PROVE ProfileStep
  BY <1>7 DEF Renew, ProfileStep
<1>8. CASE MeterMoves
  BY <1>8 DEF MeterMoves, ProfileStep
<1>9. CASE Tick
  BY <1>9 DEF Tick, ProfileStep
<1>10. CASE UNCHANGED vars
  BY <1>10 DEF vars, ProfileStep
<1> QED
  BY <1>1, <1>2, <1>3, <1>4, <1>5, <1>6, <1>7, <1>8, <1>9, <1>10 DEF Next

\* What ProfileAggregator.record does, of a request that ran something or nothing.
LEMMA Profiling ==
  ASSUME ProfileInv, NEW label \in Endpoint, NEW body \in Bodies,
         NEW O2, O2 = Profile(label, body), NEW R2, R2 = RanToo(label, body)
  PROVE  ProfileOK(O2, R2)
<1>1. CASE DOMAIN body.operations = {}
  <2>1. O2 = operations
    BY <1>1 DEF Profile
  <2>2. Cardinality(DOMAIN body.operations) = 0
    BY <1>1, FS_EmptySet
  <2>3. ran \in [Label -> Nat] /\ label \in Label
    BY Labels DEF ProfileInv, ProfileOK
  <2>4. R2 = ran
    BY <2>2, <2>3 DEF RanToo
  <2> QED
    BY <2>1, <2>4 DEF ProfileInv
<1>2. CASE DOMAIN body.operations # {}
  <2>1. PICK row : row = RowOf(Profiled(operations), MaxRoutes, label)
    OBVIOUS
  <2>2. PICK done : done = body.operations
    OBVIOUS
  <2>3. PICK was : was = operations[row]
    OBVIOUS
  <2>4. PICK acc : acc = [op \in Operation |->
                            IF op \in DOMAIN done
                            THEN [count |-> was[op].count + 1, ms |-> was[op].ms + done[op]]
                            ELSE was[op]]
    OBVIOUS
  <2>5. OperationsTold(was, acc, done)
    BY <2>4 DEF OperationsTold
  <2>6. O2 = [operations EXCEPT ![row] = acc]
    BY <1>2, <2>1, <2>2, <2>3, <2>4 DEF Profile
  <2>7. R2 = [ran EXCEPT ![label] = ran[label] + Cardinality(DOMAIN body.operations)]
    BY DEF RanToo
  <2>8. OperationsTold(operations[row], acc, body.operations)
    BY <2>2, <2>3, <2>5
  <2>9. ProfileMoved(operations, ran, O2, R2, label, row, acc, body.operations)
    BY <2>1, <2>6, <2>7, <2>8 DEF ProfileMoved
  <2>10. ProfileOK(operations, ran)
    BY DEF ProfileInv
  <2> QED
    BY <1>2, <2>9, <2>10, ProfileSteps
<1> QED
  BY <1>1, <1>2

\* What a row of the profile counts is what its endpoints ran.
LEMMA ProfileKept == Spec => []ProfileInv
<1>1. Init => ProfileInv
  BY NothingProfiled DEF Init, AggregatesInit, ProfileInv
<1>2. ProfileInv /\ [Next]_vars => ProfileInv'
  <2> SUFFICES ASSUME ProfileInv, [Next]_vars PROVE ProfileInv'
    OBVIOUS
  <2>1. ASSUME NEW label \in Endpoint, NEW body \in Bodies,
               operations' = Profile(label, body), ran' = RanToo(label, body)
        PROVE  ProfileInv'
    <3>1. ProfileOK(operations', ran')
      BY <2>1, Profiling
    <3> QED
      BY <3>1 DEF ProfileInv
  <2>2. CASE operations' = NoOperations /\ ran' = NothingRan
    <3>1. ProfileOK(operations', ran')
      BY <2>2, NothingProfiled
    <3> QED
      BY <3>1 DEF ProfileInv
  <2>3. CASE UNCHANGED <<operations, ran>>
    <3>1. ProfileOK(operations', ran')
      BY <2>3 DEF ProfileInv
    <3> QED
      BY <3>1 DEF ProfileInv
  <2> QED
    BY <2>1, <2>2, <2>3, StepOfTheProfile DEF ProfileStep
<1> QED
  BY <1>1, <1>2, PTL DEF Spec

\* What comes before what is an order: errors, then time, then the digest, which no two share.
LEMMA InOrder ==
  ASSUME NEW acc \in ProfileType
  PROVE  /\ \A a \in Operation : ~Before(acc, a, a)
         /\ \A a, b \in Operation : a # b => Before(acc, a, b) \/ Before(acc, b, a)
         /\ \A a, b, c \in Operation :
              Before(acc, a, b) /\ Before(acc, b, c) => Before(acc, a, c)
<1>1. PICK ms : ms = [op \in Operation |-> acc[op].ms]
  OBVIOUS
<1>2. PICK rank : rank = [op \in Operation |-> Rank(op)]
  OBVIOUS
<1>3. PICK hash : hash = [op \in Operation |-> op.hash]
  OBVIOUS
<1>4. ASSUME NEW a \in Operation
      PROVE  /\ ms[a] \in Nat /\ rank[a] \in Nat /\ hash[a] \in Int
             /\ \A b \in Operation : hash[a] = hash[b] => a = b
  <2>1. ms[a] \in Nat
    BY <1>1 DEF ProfileType, OperationType
  <2>2. rank[a] \in Nat
    BY <1>2 DEF Rank
  <2>3. hash[a] \in Int /\ \A b \in Operation : hash[a] = hash[b] => a = b
    BY <1>3, ObservedAssumption
  <2> QED
    BY <2>1, <2>2, <2>3
<1>5. ASSUME NEW a \in Operation, NEW b \in Operation
      PROVE  Before(acc, a, b)
               <=> \/ rank[a] > rank[b]
                   \/ rank[a] = rank[b] /\ ms[a] > ms[b]
                   \/ rank[a] = rank[b] /\ ms[a] = ms[b] /\ hash[a] < hash[b]
  BY <1>1, <1>2, <1>3 DEF Before
<1>6. ASSUME NEW a \in Operation PROVE ~Before(acc, a, a)
  BY <1>4, <1>5
<1>7. ASSUME NEW a \in Operation, NEW b \in Operation, a # b
      PROVE  Before(acc, a, b) \/ Before(acc, b, a)
  <2>1. /\ ms[a] \in Nat /\ rank[a] \in Nat /\ hash[a] \in Int
        /\ ms[b] \in Nat /\ rank[b] \in Nat /\ hash[b] \in Int /\ hash[a] # hash[b]
    BY <1>4, <1>7
  <2> QED
    BY <1>5, <2>1
<1>8. ASSUME NEW a \in Operation, NEW b \in Operation, NEW c \in Operation,
             Before(acc, a, b), Before(acc, b, c)
      PROVE  Before(acc, a, c)
  <2>1. /\ ms[a] \in Nat /\ rank[a] \in Nat /\ hash[a] \in Int
        /\ ms[b] \in Nat /\ rank[b] \in Nat /\ hash[b] \in Int
        /\ ms[c] \in Nat /\ rank[c] \in Nat /\ hash[c] \in Int
    BY <1>4
  <2>2. /\ \/ rank[a] > rank[b]
           \/ rank[a] = rank[b] /\ ms[a] > ms[b]
           \/ rank[a] = rank[b] /\ ms[a] = ms[b] /\ hash[a] < hash[b]
        /\ \/ rank[b] > rank[c]
           \/ rank[b] = rank[c] /\ ms[b] > ms[c]
           \/ rank[b] = rank[c] /\ ms[b] = ms[c] /\ hash[b] < hash[c]
    BY <1>5, <1>8
  <2> QED
    BY <1>5, <2>1, <2>2
<1> QED
  BY <1>6, <1>7, <1>8

\* The first n of what was ran are n at most.
LEMMA FirstFew ==
  ASSUME NEW acc \in ProfileType, NEW n \in Nat
  PROVE  /\ First(acc, n) \subseteq Ran(acc) /\ IsFiniteSet(First(acc, n))
         /\ Cardinality(First(acc, n)) \in Nat
         /\ Cardinality(First(acc, n)) <= n
<1> DEFINE Pred(op) == {b \in Ran(acc) : Before(acc, b, op)}
<1>1. PICK F : F = First(acc, n)
  OBVIOUS
<1>2. Ran(acc) \subseteq Operation /\ IsFiniteSet(Ran(acc))
  <2>1. Ran(acc) \subseteq Operation
    BY DEF Ran
  <2> QED
    BY <2>1, ObservedAssumption, FS_Subset
<1>3. F \subseteq Ran(acc) /\ \A op \in F : Cardinality(Pred(op)) < n
  BY <1>1 DEF First
<1>4. IsFiniteSet(F) /\ Cardinality(F) \in Nat
  BY <1>2, <1>3, FS_Subset, FS_CardinalityType
<1>5. ASSUME NEW op \in Operation
      PROVE  IsFiniteSet(Pred(op)) /\ Cardinality(Pred(op)) \in Nat /\ op \notin Pred(op)
  <2>1. PICK P : P = Pred(op)
    OBVIOUS
  <2>2. P \subseteq Ran(acc)
    BY <2>1
  <2>3. IsFiniteSet(P) /\ Cardinality(P) \in Nat
    BY <1>2, <2>2, FS_Subset, FS_CardinalityType
  <2>4. op \notin P
    BY <2>1, InOrder
  <2> QED
    BY <2>1, <2>3, <2>4
<1>6. CASE F = {}
  <2>1. Cardinality(F) = 0
    BY <1>6, FS_EmptySet
  <2> QED
    BY <1>1, <1>3, <1>4, <2>1
<1>7. CASE F # {}
  <2>1. PICK after : after = {Cardinality(Pred(op)) : op \in F}
    OBVIOUS
  <2>2. after \in SUBSET Nat /\ after # {} /\ \A m \in after : m <= n
    <3>1. ASSUME NEW op \in F PROVE Cardinality(Pred(op)) \in Nat /\ Cardinality(Pred(op)) <= n
      <4>1. op \in Operation /\ Cardinality(Pred(op)) < n
        BY <1>2, <1>3
      <4>2. Cardinality(Pred(op)) \in Nat
        BY <4>1, <1>5
      <4> HIDE DEF Pred
      <4> QED
        BY <4>1, <4>2
    <3> QED
      BY <1>7, <2>1, <3>1
  <2>3. PICK most \in after : \A m \in after : m <= most
    BY <2>2, GreatestOf
  <2>4. PICK last \in F : most = Cardinality(Pred(last))
    BY <2>1
  <2>5. last \in Operation /\ last \in Ran(acc) /\ most < n /\ most \in Nat
    BY <1>2, <1>3, <2>2, <2>4
  <2>6. PICK P : P = Pred(last)
    OBVIOUS
  <2>7. IsFiniteSet(P) /\ last \notin P /\ Cardinality(P) = most
    BY <1>5, <2>4, <2>5, <2>6
  <2>8. ASSUME NEW x \in F, x # last PROVE x \in P
    <3>1. x \in Operation /\ x \in Ran(acc)
      BY <1>2, <1>3
    <3>2. CASE Before(acc, x, last)
      BY <2>6, <3>1, <3>2
    <3>3. CASE Before(acc, last, x)
      <4>1. PICK Q : Q = Pred(x)
        OBVIOUS
      <4>2. P \cup {last} \subseteq Q
        <5> SUFFICES ASSUME NEW y \in P PROVE y \in Q
          BY <2>5, <3>3, <4>1
        <5>1. y \in Operation /\ y \in Ran(acc) /\ Before(acc, y, last)
          BY <1>2, <2>6
        <5>2. Before(acc, y, x)
          BY <2>5, <3>1, <3>3, <5>1, InOrder
        <5> QED
          BY <4>1, <5>1, <5>2
      <4>3. IsFiniteSet(Q) /\ Cardinality(Q) \in Nat /\ Cardinality(Q) \in after
        BY <1>5, <2>1, <3>1, <4>1
      <4>4. IsFiniteSet(P \cup {last}) /\ Cardinality(P \cup {last}) = most + 1
        BY <2>7, FS_AddElement
      <4>5. most + 1 <= Cardinality(Q)
        BY <4>2, <4>3, <4>4, FS_Subset
      <4> QED
        BY <2>3, <2>5, <4>3, <4>5
    <3> QED
      BY <2>5, <2>8, <3>1, <3>2, <3>3, InOrder
  <2>9. F \subseteq P \cup {last}
    BY <2>8
  <2>10. IsFiniteSet(P \cup {last}) /\ Cardinality(P \cup {last}) = most + 1
    BY <2>7, FS_AddElement
  <2>11. Cardinality(F) <= most + 1
    BY <2>9, <2>10, FS_Subset
  <2> QED
    BY <1>1, <1>3, <1>4, <2>5, <2>11
<1> QED
  BY <1>6, <1>7

\* What is kept by name leaves a place for a bucket of each kind that is merged: even nothing
\* kept does, because the schema has a place for each kind.
LEMMA KeepFits ==
  ASSUME NEW acc \in ProfileType
  PROVE  /\ Keep(acc) \in Nat
         /\ IsFiniteSet(KindsAfter(acc, Keep(acc)))
         /\ Cardinality(KindsAfter(acc, Keep(acc))) \in Nat
         /\ Keep(acc) + Cardinality(KindsAfter(acc, Keep(acc))) <= MaxOperations + 1
<1>1. PICK kinds : kinds = {op.kind : op \in Operation}
  OBVIOUS
<1>2. MaxOperations \in Nat /\ Cardinality(kinds) <= MaxOperations + 1
  BY <1>1, AggregatesAssumption
<1>3. IsFiniteSet(kinds) /\ Cardinality(kinds) \in Nat
  <2>1. PICK f : f = [op \in Operation |-> op.kind]
    OBVIOUS
  <2>2. f \in Surjection(Operation, kinds)
    BY <1>1, <2>1 DEF Surjection
  <2>3. IsFiniteSet(Operation)
    BY ObservedAssumption
  <2>4. IsFiniteSet(kinds)
    BY <2>2, <2>3, FS_Surjection
  <2> QED
    BY <2>4, FS_CardinalityType
<1>4. ASSUME NEW n
      PROVE  /\ IsFiniteSet(KindsAfter(acc, n)) /\ Cardinality(KindsAfter(acc, n)) \in Nat
             /\ Cardinality(KindsAfter(acc, n)) <= Cardinality(kinds)
  <2>1. PICK after : after = KindsAfter(acc, n)
    OBVIOUS
  <2>2. after \subseteq kinds
    BY <1>1, <2>1 DEF KindsAfter, Ran
  <2>3. IsFiniteSet(after) /\ Cardinality(after) <= Cardinality(kinds)
    BY <1>3, <2>2, FS_Subset
  <2> QED
    BY <2>1, <2>3, FS_CardinalityType
<1>5. PICK most : most = Min({Cardinality(Ran(acc)), MaxOperations})
  OBVIOUS
<1>6. most \in Nat
  <2>1. PICK ran1 : ran1 = Ran(acc)
    OBVIOUS
  <2>2. ran1 \subseteq Operation /\ IsFiniteSet(Operation)
    BY <2>1, ObservedAssumption DEF Ran
  <2>3. IsFiniteSet(ran1)
    BY <2>2, FS_Subset
  <2>4. PICK c \in Nat : c = Cardinality(ran1)
    BY <2>3, FS_CardinalityType
  <2>5. Min({c, MaxOperations}) = IF c <= MaxOperations THEN c ELSE MaxOperations
    BY <1>2, MinOfTwo
  <2> QED
    BY <1>2, <1>5, <2>1, <2>4, <2>5
<1>7. PICK fit : fit = {n \in 0 .. most :
                          n + Cardinality(KindsAfter(acc, n)) <= MaxOperations + 1}
  OBVIOUS
<1>8. PICK all : all = {0} \cup fit
  OBVIOUS
<1>9. all \in SUBSET Nat /\ all # {} /\ \A n \in all : n <= most
  BY <1>6, <1>7, <1>8
<1>10. PICK k \in all : \A n \in all : n <= k
  BY <1>6, <1>9, GreatestOf
<1>11. \E x \in all : \A y \in all : x >= y
  BY <1>9, <1>10
<1>12. Keep(acc) \in all
  <2>1. Max(all) \in all
    BY <1>11 DEF Max
  <2> QED
    BY <1>5, <1>7, <1>8, <2>1 DEF Keep
<1>13. PICK keep : keep = Keep(acc)
  OBVIOUS
<1>14. PICK c \in Nat : c = Cardinality(KindsAfter(acc, keep))
  BY <1>4
<1>15. keep \in Nat /\ c <= Cardinality(kinds)
  BY <1>4, <1>9, <1>12, <1>13, <1>14
<1>16. keep + c <= MaxOperations + 1
  <2>1. CASE keep = 0
    BY <1>2, <1>3, <1>14, <1>15, <2>1
  <2>2. CASE keep \in fit
    BY <1>7, <1>14, <2>2
  <2> QED
    BY <1>8, <1>12, <1>13, <2>1, <2>2
<1> QED
  BY <1>4, <1>13, <1>14, <1>15, <1>16

OfRest(rest, k) == {op \in rest : op.kind = k}

ToldByKind(acc, kept, K, times, many) ==
  /\ kept \in SUBSET Ran(acc)
  /\ K = {op.kind : op \in Ran(acc) \ kept}
  /\ \A k \in K : /\ times[k] = SumFunctionOnSet(CountsOf(acc), OfRest(Ran(acc) \ kept, k))
                  /\ many[k] = Cardinality(OfRest(Ran(acc) \ kept, k))

\* What is not kept is told by kind: how often it was run, and how much of it there was.
LEMMA NothingUntold ==
  ASSUME NEW acc \in ProfileType, NEW kept, NEW K, NEW times, NEW many,
         ToldByKind(acc, kept, K, times, many)
  PROVE  /\ SumFunctionOnSet(CountsOf(acc), kept) + SumFunctionOnSet(times, K)
              = SumFunctionOnSet(CountsOf(acc), Operation)
         /\ Cardinality(kept) + SumFunctionOnSet(many, K) = Cardinality(Ran(acc))
<1>a. /\ kept \in SUBSET Ran(acc)
      /\ K = {op.kind : op \in Ran(acc) \ kept}
      /\ \A k \in K : /\ times[k] = SumFunctionOnSet(CountsOf(acc), OfRest(Ran(acc) \ kept, k))
                      /\ many[k] = Cardinality(OfRest(Ran(acc) \ kept, k))
  BY DEF ToldByKind
<1>1. PICK all : all = Ran(acc)
  OBVIOUS
<1>2. PICK rest : rest = all \ kept
  OBVIOUS
<1>3. all \subseteq Operation /\ IsFiniteSet(Operation)
  BY <1>1, ObservedAssumption DEF Ran
<1>4. IsFiniteSet(all)
  BY <1>3, FS_Subset
<1>5. IsFiniteSet(kept) /\ IsFiniteSet(rest) /\ kept \cap rest = {} /\ all = kept \cup rest
      /\ rest \subseteq Operation
  BY <1>a, <1>1, <1>2, <1>3, <1>4, FS_Subset
<1>6. PICK c : c = [op \in rest |-> op.kind]
  OBVIOUS
<1>7. IsFiniteSet(K) /\ \A op \in rest : c[op] \in K /\ c[op] = op.kind
  <2>1. c \in Surjection(rest, K)
    BY <1>a, <1>1, <1>2, <1>6 DEF Surjection
  <2>2. IsFiniteSet(K)
    BY <1>5, <2>1, FS_Surjection
  <2> QED
    BY <1>a, <1>1, <1>2, <1>6, <2>2
<1>8. ASSUME NEW k \in K
      PROVE  OfRest(Ran(acc) \ kept, k) = Fibre(rest, c, k)
  BY <1>1, <1>2, <1>7 DEF OfRest, Fibre
<1>9. PICK f : f = CountsOf(acc)
  OBVIOUS
<1>10. \A op \in Operation : f[op] \in Nat
  BY <1>9 DEF CountsOf, ProfileType, OperationType
<1>11. SumFunctionOnSet(times, K) = SumFunctionOnSet(f, rest)
  <2>1. \A k \in K : times[k] = SumFunctionOnSet(f, Fibre(rest, c, k))
    BY <1>a, <1>8, <1>9
  <2>2. \A op \in rest : f[op] \in Nat
    BY <1>5, <1>10
  <2>3. IsFiniteSet(rest) /\ IsFiniteSet(K) /\ \A op \in rest : c[op] \in K
    BY <1>5, <1>7
  <2> QED
    BY <2>1, <2>2, <2>3, SumParts
<1>12. SumFunctionOnSet(f, all) = SumFunctionOnSet(f, kept) + SumFunctionOnSet(f, rest)
  <2>1. \A op \in kept \cup rest : f[op] \in Nat
    BY <1>3, <1>5, <1>10
  <2>2. SumFunctionOnSet(f, kept \cup rest)
          = SumFunctionOnSet(f, kept) + SumFunctionOnSet(f, rest)
    BY <1>5, <2>1, SumUnion
  <2> QED
    BY <1>5, <2>2
<1>13. SumFunctionOnSet(f, Operation) = SumFunctionOnSet(f, all)
  <2>1. \A op \in Operation \ all : f[op] = 0
    <3> SUFFICES ASSUME NEW op \in Operation \ all PROVE f[op] = 0
      OBVIOUS
    <3>1. f[op] = acc[op].count /\ ~(acc[op].count > 0)
      BY <1>1, <1>9 DEF CountsOf, Ran
    <3> QED
      BY <1>10, <3>1
  <2>2. SumFunctionOnSet(f, Operation) = SumFunctionOnSet(f, Operation \cap all)
    BY <1>3, <1>10, <2>1, SumWithin
  <2>3. Operation \cap all = all
    BY <1>3
  <2> QED
    BY <2>2, <2>3
<1>14. PICK one : one = [op \in rest |-> 1]
  OBVIOUS
<1>15. SumFunctionOnSet(many, K) = Cardinality(rest)
  <2>1. ASSUME NEW k \in K
        PROVE  many[k] = SumFunctionOnSet(one, Fibre(rest, c, k))
    <3>1. PICK part : part = Fibre(rest, c, k)
      OBVIOUS
    <3>2. part \subseteq rest
      BY <3>1 DEF Fibre
    <3>3. IsFiniteSet(part) /\ \A op \in part : one[op] = 1
      BY <1>5, <1>14, <3>2, FS_Subset
    <3>4. SumFunctionOnSet(one, part) = Cardinality(part)
      BY <3>3, SumOnes
    <3>5. many[k] = Cardinality(part)
      BY <1>a, <1>8, <3>1
    <3> QED
      BY <3>1, <3>4, <3>5
  <2>2. \A op \in rest : one[op] \in Nat /\ one[op] = 1
    BY <1>14
  <2>3. SumFunctionOnSet(many, K) = SumFunctionOnSet(one, rest)
    <3>1. IsFiniteSet(rest) /\ IsFiniteSet(K) /\ \A op \in rest : c[op] \in K
      BY <1>5, <1>7
    <3> QED
      BY <2>1, <2>2, <3>1, SumParts
  <2>4. SumFunctionOnSet(one, rest) = Cardinality(rest)
    BY <1>5, <2>2, SumOnes
  <2> QED
    BY <2>3, <2>4
<1>16. Cardinality(all) = Cardinality(kept) + Cardinality(rest)
  <2>1. Cardinality(kept \cup rest)
          = Cardinality(kept) + Cardinality(rest) - Cardinality(kept \cap rest)
    BY <1>5, FS_Union
  <2>2. Cardinality(kept \cap rest) = 0
    BY <1>5, FS_EmptySet
  <2>3. Cardinality(kept) \in Nat /\ Cardinality(rest) \in Nat
    BY <1>5, FS_CardinalityType
  <2> QED
    BY <1>5, <2>1, <2>2, <2>3
<1> QED
  BY <1>1, <1>9, <1>11, <1>12, <1>13, <1>15, <1>16

\* A profile takes no more places than the schema gives it, and what it merges is counted and
\* how much it merges is said (profile.ts 196-206).
THEOREM NothingMergedIsLost == Spec => []EveryOperationTold
<1>1. ProfileInv => EveryOperationTold
  <2> SUFFICES ASSUME ProfileInv, NEW row \in Profiled(operations)
               PROVE  LET said == EndpointOf(operations[row])
                          buckets == DOMAIN said.buckets
                      IN /\ Cardinality(said.named) + Cardinality(buckets) <= MaxOperations + 1
                         /\ SumOver(said.named, LAMBDA op : operations[row][op].count)
                              + SumOver(buckets, LAMBDA k : said.buckets[k].count)
                              = SumOver(StandsFor(Profiled(operations), row), LAMBDA l : ran[l])
                         /\ Cardinality(said.named)
                              + SumOver(buckets, LAMBDA k : said.buckets[k].distinct)
                              = Cardinality(Ran(operations[row]))
    BY DEF EveryOperationTold
  <2>1. PICK O : O = operations
    OBVIOUS
  <2>2. row \in Label /\ Profiled(operations) \in SUBSET Label
    BY DEF Profiled
  <2>3. PICK acc \in ProfileType : acc = operations[row]
    BY <2>2 DEF ProfileInv, ProfileOK
  <2>4. PICK said : said = EndpointOf(acc)
    OBVIOUS
  <2>5. PICK kept : kept = First(acc, Keep(acc))
    OBVIOUS
  <2>6. PICK K : K = KindsAfter(acc, Keep(acc))
    OBVIOUS
  <2>7. PICK rest : rest = [k \in K |-> {op \in Ran(acc) \ kept : op.kind = k}]
    OBVIOUS
  <2>8. /\ said.named = kept /\ DOMAIN said.buckets = K
        /\ \A k \in K : /\ said.buckets[k].count = SumOver(rest[k], LAMBDA op : acc[op].count)
                        /\ said.buckets[k].distinct = Cardinality(rest[k])
    BY <2>4, <2>5, <2>6, <2>7 DEF EndpointOf
  <2>9. /\ kept \in SUBSET Ran(acc) /\ IsFiniteSet(kept)
        /\ Cardinality(kept) \in Nat /\ Cardinality(kept) <= Keep(acc)
    BY <2>5, FirstFew, KeepFits
  <2>10. Cardinality(kept) + Cardinality(K) <= MaxOperations + 1
    <3>1. /\ Keep(acc) \in Nat /\ Cardinality(K) \in Nat
          /\ Keep(acc) + Cardinality(K) <= MaxOperations + 1
      BY <2>6, KeepFits
    <3>2. MaxOperations \in Nat
      BY AggregatesAssumption
    <3> QED
      BY <2>9, <3>1, <3>2
  <2>11. PICK f : f = CountsOf(acc)
    OBVIOUS
  <2>12. Ran(acc) \subseteq Operation /\ IsFiniteSet(Operation)
    BY ObservedAssumption DEF Ran
  <2>13. ASSUME NEW A \in SUBSET Operation
         PROVE  SumOver(A, LAMBDA op : acc[op].count) = SumFunctionOnSet(f, A)
    <3>1. PICK g : g = [op \in A |-> acc[op].count]
      OBVIOUS
    <3>2. IsFiniteSet(A) /\ \A op \in A : g[op] = f[op]
      BY <2>11, <2>12, <3>1, FS_Subset DEF CountsOf
    <3>3. SumFunctionOnSet(g, A) = SumFunctionOnSet(f, A)
      BY <3>2, SumSame
    <3> QED
      BY <3>1, <3>3 DEF SumOver
  <2>14. PICK times : times = [k \in K |-> said.buckets[k].count]
    OBVIOUS
  <2>15. PICK many : many = [k \in K |-> said.buckets[k].distinct]
    OBVIOUS
  <2>16. ASSUME NEW k \in K
         PROVE  /\ times[k] = SumFunctionOnSet(f, OfRest(Ran(acc) \ kept, k))
                /\ many[k] = Cardinality(OfRest(Ran(acc) \ kept, k))
    <3>1. PICK A \in SUBSET Operation : A = OfRest(Ran(acc) \ kept, k)
      BY <2>12 DEF OfRest
    <3>2. rest[k] = A
      BY <2>7, <3>1 DEF OfRest
    <3>3. SumOver(A, LAMBDA op : acc[op].count) = SumFunctionOnSet(f, A)
      BY <2>13
    <3>4. said.buckets[k].count = SumOver(A, LAMBDA op : acc[op].count)
      BY <2>8, <3>2 DEF SumOver
    <3>5. said.buckets[k].distinct = Cardinality(A)
      BY <2>8, <3>2
    <3> QED
      BY <2>14, <2>15, <3>1, <3>3, <3>4, <3>5
  <2>17. K = {op.kind : op \in Ran(acc) \ kept}
    BY <2>5, <2>6 DEF KindsAfter
  <2>18. /\ SumFunctionOnSet(f, kept) + SumFunctionOnSet(times, K)
              = SumFunctionOnSet(f, Operation)
         /\ Cardinality(kept) + SumFunctionOnSet(many, K) = Cardinality(Ran(acc))
    <3>1. ToldByKind(acc, kept, K, times, many)
      BY <2>9, <2>11, <2>16, <2>17 DEF ToldByKind
    <3> QED
      BY <2>11, <3>1, NothingUntold
  <2>19. PICK for : for = StandsFor(Profiled(operations), row)
    OBVIOUS
  <2>20. SumFunctionOnSet(f, Operation) = SumFunctionOnSet(ran, for)
    BY <2>2, <2>3, <2>11, <2>19 DEF ProfileInv, ProfileOK, StoodFor
  <2>21. SumOver(for, LAMBDA l : ran[l]) = SumFunctionOnSet(ran, for)
    <3>1. PICK g : g = [l \in for |-> ran[l]]
      OBVIOUS
    <3>2. IsFiniteSet(for) /\ \A l \in for : g[l] = ran[l]
      BY <2>2, <2>19, <3>1, StandsForSome
    <3>3. SumFunctionOnSet(g, for) = SumFunctionOnSet(ran, for)
      BY <3>2, SumSame
    <3> QED
      BY <3>1, <3>3 DEF SumOver
  <2>22. SumOver(kept, LAMBDA op : acc[op].count) = SumFunctionOnSet(f, kept)
    BY <2>9, <2>12, <2>13
  <2>23. /\ SumOver(K, LAMBDA k : said.buckets[k].count) = SumFunctionOnSet(times, K)
         /\ SumOver(K, LAMBDA k : said.buckets[k].distinct) = SumFunctionOnSet(many, K)
    BY <2>14, <2>15 DEF SumOver
  <2>24. /\ SumOver(kept, LAMBDA op : acc[op].count)
              + SumOver(K, LAMBDA k : said.buckets[k].count)
              = SumOver(for, LAMBDA l : ran[l])
         /\ Cardinality(kept) + SumOver(K, LAMBDA k : said.buckets[k].distinct)
              = Cardinality(Ran(acc))
    BY <2>18, <2>20, <2>21, <2>22, <2>23
  <2> QED
    BY <2>3, <2>4, <2>8, <2>10, <2>19, <2>24 DEF SumOver
<1> QED
  BY <1>1, ProfileKept, PTL

-----------------------------------------------------------------------------
(* The registers together                                                  *)

\* The numbers no register keeps.
CountsInv ==
  /\ checking \in BOOLEAN /\ level \in Levels
  /\ {inFlight, inFlightMax, rotations} \subseteq Nat

\* What any step makes of them: the most requests in flight is one of the numbers there have
\* been, before the step or in it.
CountsStep ==
  /\ checking' = checking
  /\ level' \in {level} \cup Levels
  /\ rotations' \in {rotations, rotations + 1}
  /\ inFlight' \in {inFlight, inFlight + 1, Left}
  /\ inFlightMax' \in {inFlightMax, inFlight, inFlight + 1, Left}

\* No step makes anything else of them.
LEMMA StepOfTheCounts == CountsInv /\ [Next]_vars => CountsStep
<1> SUFFICES ASSUME CountsInv, [Next]_vars PROVE CountsStep
  OBVIOUS
<1>1. CASE RequestStarted
  <2>1. inFlightMax \in Int /\ inFlight + 1 \in Int
    BY DEF CountsInv
  <2>2. Max({inFlightMax, inFlight + 1}) \in {inFlightMax, inFlight + 1}
    BY <2>1, MaxOfTwo
  <2> QED
    BY <1>1, <2>2 DEF RequestStarted, CountsStep
<1>2. ASSUME NEW r \in Begun, NEW label \in Endpoint, NEW body \in Bodies,
             ResponseEnding(r, label, body) \/ ResponseFinished(r, label, body)
      PROVE  CountsStep
  <2>1. RecordFinished(r, label, body)
    BY <1>2 DEF ResponseEnding, ResponseFinished
  <2>2. inFlight' = Left /\ UNCHANGED <<checking, level, rotations>>
    BY <2>1 DEF RecordFinished
  <2>3. inFlightMax' \in {inFlightMax, Left}
    <3>1. CASE label.route \in Excluded
      BY <2>1, <3>1 DEF RecordFinished
    <3>2. CASE label.route \notin Excluded
      <4>1. Record(r, label, body)
        BY <2>1, <3>2 DEF RecordFinished
      <4>2. CASE WritesNow(Left)
        BY <4>1, <4>2 DEF Record, EnqueueHeld
      <4>3. CASE ~WritesNow(Left)
        BY <4>1, <4>3 DEF Record
      <4> QED
        BY <4>2, <4>3
    <3> QED
      BY <3>1, <3>2
  <2> QED
    BY <2>2, <2>3 DEF CountsStep
<1>3. ASSUME NEW r \in Begun, ResponseFinishedLate(r) PROVE CountsStep
  BY <1>3 DEF ResponseFinishedLate, CountsStep
<1>4. ASSUME NEW r \in Begun, ClientGone(r) PROVE CountsStep
  BY <1>4 DEF ClientGone, CountsStep
<1>5. ASSUME NEW leaving \in BOOLEAN, NEW health \in Health, Rotate(leaving, health)
      PROVE  CountsStep
  <2>1. inFlightMax' \in {inFlightMax, inFlight}
    BY <1>5 DEF Rotate, EnqueueHeld
  <2> QED
    BY <1>5, <2>1 DEF Rotate, CountsStep
<1>6. ASSUME NEW delay \in 1 .. MaxDelay, SampleLoop(delay) PROVE CountsStep
  BY <1>6 DEF SampleLoop, CountsStep
<1>7. ASSUME NEW live \in BOOLEAN, Renew(live) PROVE CountsStep
  BY <1>7 DEF Renew, CountsStep
<1>8. CASE MeterMoves
  <2>1. level' \in Levels
    BY <1>8 DEF MeterMoves, CountsInv, Levels
  <2> QED
    BY <1>8, <2>1 DEF MeterMoves, CountsStep
<1>9. CASE Tick
  BY <1>9 DEF Tick, CountsStep
<1>10. CASE UNCHANGED vars
  BY <1>10 DEF vars, CountsStep
<1> QED
  BY <1>1, <1>2, <1>3, <1>4, <1>5, <1>6, <1>7, <1>8, <1>9, <1>10 DEF Next

\* They are numbers, whatever happens.
LEMMA CountsKept == Spec => []CountsInv
<1>1. Init => CountsInv
  BY DEF Init, CountsInv, Levels
<1>2. CountsInv /\ [Next]_vars => CountsInv'
  <2> SUFFICES ASSUME CountsInv, CountsStep PROVE CountsInv'
    BY StepOfTheCounts
  <2>1. Left \in Nat
    BY DEF Left, CountsInv
  <2> QED
    BY <2>1 DEF CountsInv, CountsStep
<1> QED
  BY <1>1, <1>2, PTL DEF Spec

\* What every step keeps of the registers: their types, the cap of each, and that no two
\* intervals or windows start at one instant.
THEOREM RegistersKept == Spec => []RegistersInv
<1>1. IntervalInv /\ ProfileInv /\ ClockInv => AggregatesTypeOK
  <2> SUFFICES ASSUME IntervalInv, ProfileInv, ClockInv PROVE AggregatesTypeOK
    OBVIOUS
  <2>1. ASSUME NEW l \in Label
        PROVE  /\ endpoints[l].count \in Nat /\ endpoints[l].errors \in 0 .. endpoints[l].count
               /\ \A d \in DependencyRow :
                    endpoints[l].deps[d] \in [requests : Nat, ms : Nat, wait : Nat]
               /\ operations[l] \in [Operation -> [count : Nat, ms : Nat]]
    <3>1. PICK acc \in RequestType : acc = endpoints[l]
      BY DEF IntervalInv, IntervalOK
    <3>2. acc.count \in Nat /\ acc.errors \in Nat /\ acc.deps \in [DependencyRow -> WorkType]
      BY DEF RequestType
    <3>3. acc.errors <= acc.count
      BY <3>1 DEF IntervalInv, IntervalOK, RowTold
    <3>4. operations[l] \in ProfileType
      BY DEF ProfileInv, ProfileOK
    <3> QED
      BY <3>1, <3>2, <3>3, <3>4 DEF WorkType, ProfileType, OperationType
  <2> QED
    BY <2>1 DEF ClockInv, AggregatesTypeOK
<1>2. CoarseInv => CoarseTypeOK
  <2> SUFFICES ASSUME CoarseInv PROVE CoarseTypeOK
    OBVIOUS
  <2>1. rows \in [Label -> RowType] /\ loop \in [Slot -> LoopType]
    BY DEF CoarseInv, RowsInv, LoopInv, LoopTells
  <2>2. dropped \subseteq Label /\ Cardinality(dropped) <= MaxDropped
    <3>1. dropped \subseteq Told /\ Cardinality(dropped) <= MaxDropped
      BY DEF CoarseInv, RowsInv, DroppedOK
    <3>2. Told \subseteq Label
      BY Labels DEF CoarseInv, RowsInv, HitsOK, HitType, Told
    <3> QED
      BY <3>1, <3>2
  <2>3. ASSUME NEW l \in Label
        PROVE  /\ rows[l].since \in Int
               /\ \A s \in Slot :
                    rows[l].ring[s] \in [second : Int, requests : Nat, errors : Nat]
    <3>1. PICK row \in RowType : row = rows[l]
      BY <2>1
    <3>2. row.since \in Int /\ row.ring \in [Slot -> SlotType]
      BY DEF RowType
    <3> QED
      BY <3>1, <3>2 DEF SlotType
  <2> QED
    BY <2>1, <2>2, <2>3 DEF CoarseTypeOK, LoopType
<1>3. SignalInv => SignalsTypeOK
  BY DEF SignalInv, SignalsTypeOK
<1>4. IdleInv => /\ state \in [1 .. Len(state) -> {"open", "ended", "finished", "gone"}]
                 /\ recorded \in Nat
  <2> SUFFICES ASSUME IdleInv
               PROVE  /\ state \in [1 .. Len(state) -> {"open", "ended", "finished", "gone"}]
                      /\ recorded \in Nat
    OBVIOUS
  <2>1. state \in Seq(Statuses)
    BY DEF IdleInv
  <2>2. state \in [1 .. Len(state) -> Statuses]
    BY <2>1, LenProperties
  <2> QED
    BY <2>2 DEF IdleInv, Statuses
<1>5. /\ IntervalInv /\ ProfileInv /\ ClockInv /\ CoarseInv /\ ReferenceTypeOK /\ SignalInv
      /\ IdleInv /\ CountsInv
      => RegistersInv
  BY <1>1, <1>2, <1>3, <1>4 DEF RegistersInv, RegistersTypeOK, ClockInv, CountsInv
<1> QED
  BY <1>5, IntervalKept, ProfileKept, ClockKept, CoarseKept, ReferenceWithinItsCaps,
     SignalsKept, RequestsCounted, CountsKept, PTL
=============================================================================
