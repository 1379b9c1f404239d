---------------------------- MODULE DetailProofs ----------------------------
(***************************************************************************)
(* Proofs about what holds the detail of requests, for every value of the  *)
(* constants: the fine register, the reserve of the armed routes beside it *)
(* (BlackBox), and the overhead meter that gives the detail up.            *)
(*                                                                         *)
(* Of the fine register: whatever the rings' sizes and however the         *)
(* requests overlap, no row reads what was written over its own            *)
(* operations, none passes for smaller than its request, and a runaway     *)
(* request takes no more than its share.  A ring of n slots is told apart  *)
(* by its cursors: two that are less than n apart and fall in one slot are *)
(* one.  So what a cursor wrote stays until the ring comes round to it,    *)
(* which is when a row is lost.                                            *)
(*                                                                         *)
(* Of the reserve: it keeps the last an armed route was given, and takes   *)
(* the place of no row it does not have, however many routes are armed and *)
(* requests overlap.  An arm that lives is the first of its route's: what  *)
(* ended before it was begun freed its slot, and the order took the first  *)
(* that was free.  So whatever finishes while it lives goes to it.         *)
(*                                                                         *)
(* Of the meter: its reading of shed time is exact, and what it gives up   *)
(* always has a reason.                                                    *)
(***************************************************************************)
EXTENDS BlackBox, OverheadMeter, Lemmas

(***************************************************************************)
(* The fine register                                                       *)
(***************************************************************************)

USE DEF ringVars, writeVars

-----------------------------------------------------------------------------
\* Least numbers.

\* The least of a set is less than none of it.
LEMMA MinOfIs ==
  ASSUME NEW S, NEW m \in S, \A n \in S : n \in Int /\ m <= n
  PROVE  MinOf(S) = m
<1>1. \A k \in S : (\A n \in S : k <= n) => k = m
  OBVIOUS
<1> QED BY <1>1, Zenon DEF MinOf

\* The least of two.
LEMMA MinOfTwo ==
  ASSUME NEW a \in Int, NEW b \in Int
  PROVE  MinOf({a, b}) = IF a <= b THEN a ELSE b
<1>1. CASE a <= b
  BY <1>1, MinOfIs
<1>2. CASE ~(a <= b)
  BY <1>2, MinOfIs
<1> QED BY <1>1, <1>2

\* The least of three.
LEMMA MinOfThree ==
  ASSUME NEW a \in Int, NEW b \in Int, NEW c \in Int
  PROVE  /\ MinOf({a, b, c}) = a \/ MinOf({a, b, c}) = b \/ MinOf({a, b, c}) = c
         /\ MinOf({a, b, c}) <= a /\ MinOf({a, b, c}) <= b /\ MinOf({a, b, c}) <= c
<1>1. CASE a <= b /\ a <= c
  BY <1>1, MinOfIs
<1>2. CASE b <= a /\ b <= c
  BY <1>2, MinOfIs
<1>3. CASE c <= a /\ c <= b
  BY <1>3, MinOfIs
<1> QED BY <1>1, <1>2, <1>3

-----------------------------------------------------------------------------
\* The inductive invariant.

Context == [fine : BOOLEAN, from : Nat, ops : Nat, open : BOOLEAN, beside : SUBSET Request]

FineTypeOK == TypeOK /\ ctx \in Seq(Context)

\* The rows a snapshot reads, by their cursors.
LiveAt(c) == requestCursor - Capacity <= c /\ c < requestCursor
RowAt(c)  == requests[c % Capacity]

\* The slot of a cursor the ring has not come round to still has what was written there.
InPlace ==
  \A c \in Nat : operationCursor - OpCapacity <= c /\ c < operationCursor =>
    operations[c % OpCapacity].at = c

\* A context counts what its request ran, from where the operations were when it opened.
Counted ==
  /\ \A r \in Started :
       /\ ctx[r].from <= operationCursor
       /\ ~ctx[r].fine => ctx[r].ops = 0
       /\ ctx[r].open /\ ctx[r].fine => ctx[r].ops = ran[r]
  /\ \A r \in Request \ Started : ran[r] = 0

SlotsOf(r) == {slot \in DOMAIN operations : operations[slot].owner = r}

\* A request has as many slots as it wrote operations, and writes no more than its share.
Shares ==
  /\ \A slot \in DOMAIN operations : operations[slot].owner \in Started \cup {0}
  /\ \A r \in Started : /\ Cardinality(SlotsOf(r)) <= ctx[r].ops
                        /\ Cardinality(SlotsOf(r)) <= PerRequest

\* A row is of a request that has finished, and says how much that request ran.
RowIsRight(row) ==
  /\ row.request \in Started /\ ~ctx[row.request].open
  /\ row.from + row.count <= operationCursor
  /\ ctx[row.request].fine /\ ~row.truncated => row.count = ran[row.request]

RowsRight == \A c \in Nat : LiveAt(c) => RowIsRight(RowAt(c))

\* Its labels are those its request touched, in their order.
LabelsAreItsOwn(row) ==
  /\ \A i \in 1 .. row.depCount :
       \/ DependencyOf(row, i) = touched[row.request][i]
       \/ DependencyOf(row, i) = Other /\ labelsFolded > 0
  /\ row.depTruncated \/ row.depCount = Len(touched[row.request])

\* Each later row moved the labels' cursor by no more than a row may hold.
LabelsInPlace ==
  \A c \in Nat : LiveAt(c) =>
    /\ RowAt(c).depFrom + RowAt(c).depCount <= dependencyCursor
    /\ dependencyCursor - RowAt(c).depFrom <= (requestCursor - c) * DepsPerRequest
    /\ LabelsAreItsOwn(RowAt(c))

\* What was written since a request opened is its own or of those beside it, wherever the ring
\* has come round to; it wrote what it ran, up to its share, and no more than that was written
\* if nobody was beside it.
OpenInItsTime ==
  \A r \in Started : ctx[r].open /\ ctx[r].fine =>
    /\ \/ ctx[r].ops <= operationCursor - ctx[r].from
       \/ PerRequest <= operationCursor - ctx[r].from
    /\ ctx[r].beside = {} =>
         /\ operationCursor - ctx[r].from <= ctx[r].ops
         /\ operationCursor - ctx[r].from <= PerRequest
    /\ \A c \in Nat : ctx[r].from <= c /\ c < operationCursor =>
         operations[c % OpCapacity].owner \in OfItsTime(r)

RowInItsTime(row) ==
  ~Lost(row) => \A i \in 1 .. row.count : OperationOf(row, i).owner \in OfItsTime(row.request)

ClosedInItsTime == \A c \in Nat : LiveAt(c) => RowInItsTime(RowAt(c))

SampleInItsTime ==
  \A i \in DOMAIN sample :
    /\ sample[i].of \in Started /\ ~ctx[sample[i].of].open
    /\ sample[i].read.owner \in OfItsTime(sample[i].of)
    /\ ctx[sample[i].of].beside = {} => sample[i].read.at = sample[i].expected

FineIInv ==
  /\ FineTypeOK /\ InPlace /\ Counted /\ Shares
  /\ RowsRight /\ LabelsInPlace /\ OpenInItsTime /\ ClosedInItsTime /\ SampleInItsTime

-----------------------------------------------------------------------------
\* What the steps do to the contexts.

\* What the assumptions say of the register's sizes.
LEMMA Constants ==
  /\ Capacity \in Nat \ {0} /\ OpCapacity \in Nat \ {0} /\ PerRequest \in Nat \ {0}
  /\ DepsPerRequest \in Nat \ {0} /\ DepLabels \in Nat \ {0} /\ MaxOpen \in Nat \ {0}
  /\ MaxRequests \in Nat /\ MaxOps \in Nat /\ PerRequest <= OpCapacity
  /\ IsFiniteSet(Dep) /\ Other \notin Dep
  /\ DepSlots \in Nat \ {0} /\ DepsPerRequest <= DepSlots
<1>1. /\ Capacity \in Nat \ {0} /\ OpCapacity \in Nat \ {0} /\ PerRequest \in Nat \ {0}
      /\ DepsPerRequest \in Nat \ {0} /\ DepLabels \in Nat \ {0} /\ MaxOpen \in Nat \ {0}
      /\ MaxRequests \in Nat /\ MaxOps \in Nat /\ PerRequest <= OpCapacity
      /\ IsFiniteSet(Dep) /\ Other \notin Dep
  BY FineAssumption DEF FineAssumption
<1>2. DepSlots \in Nat /\ 1 * DepsPerRequest <= Capacity * DepsPerRequest
  BY <1>1 DEF DepSlots
<1> QED BY <1>1, <1>2 DEF DepSlots

\* What is known of the requests there are.
LEMMA ContextTypes ==
  ASSUME FineTypeOK
  PROVE  /\ ctx \in Seq(Context) /\ Len(ctx) \in Nat
         /\ Started = 1 .. Len(ctx) /\ Cardinality(Started) = Len(ctx)
         /\ IsFiniteSet(Started) /\ Len(ctx) <= MaxRequests
         /\ \A r \in Started :
              /\ r \in Request /\ ctx[r] \in Context
              /\ ctx[r].fine \in BOOLEAN /\ ctx[r].open \in BOOLEAN /\ ctx[r].beside \subseteq Request
              /\ ctx[r].from \in Nat /\ ctx[r].ops \in Nat
<1>1. ctx \in Seq(Context) /\ Len(ctx) \in Nat /\ Started = 1 .. Len(ctx)
  <2>1. ctx \in Seq(Context)
    BY DEF FineTypeOK
  <2> QED BY <2>1 DEF Started
<1>2. Cardinality(Started) = Len(ctx) /\ IsFiniteSet(Started)
  <2>1. /\ IsFiniteSet(1 .. Len(ctx))
        /\ Cardinality(1 .. Len(ctx)) = IF 1 > Len(ctx) THEN 0 ELSE Len(ctx) - 1 + 1
    BY <1>1, FS_Interval
  <2> QED BY <1>1, <2>1
<1>3. \A r \in Started : ctx[r] \in Context
  BY <1>1
<1>4. Started \subseteq Request
  BY DEF FineTypeOK, TypeOK
<1>5. Len(ctx) <= MaxRequests
  BY <1>1, <1>4, Constants DEF Request
<1> QED BY <1>1, <1>2, <1>3, <1>4, <1>5 DEF Context

\* What a start does to the requests.
LEMMA StartStep ==
  ASSUME FineTypeOK, RequestStarted, NEW r, r = Len(ctx) + 1
  PROVE  /\ ctx' \in Seq(Context) /\ r \in Request /\ r \notin Started
         /\ Started' = Started \cup {r}
         /\ \A q \in Started : ctx'[q] = ctx[q]
         /\ ctx'[r].fine = keeping /\ ctx'[r].open /\ ctx'[r].ops = 0
         /\ ctx'[r].from = IF keeping THEN operationCursor ELSE 0
         /\ ctx'[r].beside = {}
<1> DEFINE new == [fine |-> keeping, open |-> TRUE, ops |-> 0, beside |-> {},
                   from |-> IF keeping THEN operationCursor ELSE 0]
<1>1. new \in Context
  BY DEF Context, FineTypeOK, TypeOK
<1>2. /\ new.fine = keeping /\ new.open /\ new.ops = 0 /\ new.beside = {}
      /\ new.from = IF keeping THEN operationCursor ELSE 0
  OBVIOUS
<1>3. ctx' = Append(ctx, new) /\ r \in Request
  BY ContextTypes DEF RequestStarted
<1> HIDE DEF new
<1>4. /\ ctx' \in Seq(Context) /\ Len(ctx') = Len(ctx) + 1
      /\ \A q \in 1 .. Len(ctx) : ctx'[q] = ctx[q]
      /\ ctx'[r] = new
  BY <1>1, <1>3, ContextTypes
<1>5. Started' = 1 .. Len(ctx) + 1
  BY <1>4 DEF Started
<1> QED BY <1>2, <1>3, <1>4, <1>5, ContextTypes

\* An operation of request r changes its count, and says to those open who wrote beside them.
LEMMA OperationStep ==
  ASSUME FineTypeOK, NEW r \in Started, RecordOperation(r)
  PROVE  /\ ctx' \in Seq(Context) /\ Started' = Started
         /\ \A q \in Started :
              /\ ctx'[q].fine = ctx[q].fine /\ ctx'[q].open = ctx[q].open
              /\ ctx'[q].from = ctx[q].from
              /\ q # r => ctx'[q].ops = ctx[q].ops
              /\ q # r => ctx'[q].beside =
                            IF ctx[q].open /\ Writes(r) THEN ctx[q].beside \cup {r}
                            ELSE ctx[q].beside
         /\ ctx'[r].beside = ctx[r].beside
         /\ ctx'[r].ops = IF ctx[r].fine THEN ctx[r].ops + 1 ELSE ctx[r].ops
<1> DEFINE own   == [ctx[r] EXCEPT !.ops = IF ctx[r].fine THEN @ + 1 ELSE @]
           of(q) == [ctx[q] EXCEPT !.beside = IF ctx[q].open /\ Writes(r) THEN @ \cup {r} ELSE @]
<1>1. /\ own \in Context
      /\ own.fine = ctx[r].fine /\ own.open = ctx[r].open /\ own.from = ctx[r].from
      /\ own.beside = ctx[r].beside
      /\ own.ops = IF ctx[r].fine THEN ctx[r].ops + 1 ELSE ctx[r].ops
  <2> DEFINE n == IF ctx[r].fine THEN ctx[r].ops + 1 ELSE ctx[r].ops
  <2>1. ctx[r] \in Context /\ n \in Nat /\ own = [ctx[r] EXCEPT !.ops = n]
    BY ContextTypes
  <2> HIDE DEF n, own
  <2>2. own \in Context /\ own.ops = n
    BY <2>1 DEF Context
  <2>3. /\ own.fine = ctx[r].fine /\ own.open = ctx[r].open /\ own.from = ctx[r].from
        /\ own.beside = ctx[r].beside
    BY <2>1 DEF Context
  <2> QED BY <2>2, <2>3 DEF n
<1>2. r \in Request
  BY ContextTypes
<1>3. ASSUME NEW q \in Started
      PROVE  /\ of(q) \in Context
             /\ of(q).fine = ctx[q].fine /\ of(q).open = ctx[q].open
             /\ of(q).from = ctx[q].from /\ of(q).ops = ctx[q].ops
             /\ of(q).beside = IF ctx[q].open /\ Writes(r) THEN ctx[q].beside \cup {r}
                               ELSE ctx[q].beside
  <2> DEFINE b == IF ctx[q].open /\ Writes(r) THEN ctx[q].beside \cup {r} ELSE ctx[q].beside
  <2>1. ctx[q] \in Context /\ b \in SUBSET Request /\ of(q) = [ctx[q] EXCEPT !.beside = b]
    BY <1>2, <1>3, ContextTypes
  <2> HIDE DEF b, of
  <2>2. of(q) \in Context /\ of(q).beside = b
    BY <2>1 DEF Context
  <2>3. /\ of(q).fine = ctx[q].fine /\ of(q).open = ctx[q].open
        /\ of(q).from = ctx[q].from /\ of(q).ops = ctx[q].ops
    BY <2>1 DEF Context
  <2> QED BY <2>2, <2>3 DEF b
<1>4. ctx' = [q \in Started |-> IF q = r THEN own ELSE of(q)]
  BY DEF RecordOperation
<1> HIDE DEF own, of
<1>5. ctx' \in [1 .. Len(ctx) -> Context]
  BY <1>1, <1>3, <1>4, ContextTypes
<1>6. ctx' \in Seq(Context) /\ DOMAIN ctx' = Started
  BY <1>4, <1>5, ContextTypes
<1>7. Started' = Started
  BY <1>6 DEF Started
<1> QED BY <1>1, <1>3, <1>4, <1>6, <1>7

\* What a finish does to the requests.
LEMMA FinishStep ==
  ASSUME FineTypeOK, NEW r \in Started, NEW labels, RecordFinished(r, labels)
  PROVE  /\ ctx' \in Seq(Context) /\ Started' = Started
         /\ \A q \in Started : q # r => ctx'[q] = ctx[q]
         /\ \A q \in Started :
              /\ ctx'[q].fine = ctx[q].fine /\ ctx'[q].beside = ctx[q].beside
              /\ ctx'[q].from = ctx[q].from /\ ctx'[q].ops = ctx[q].ops
         /\ ~ctx'[r].open
<1> DEFINE own == [ctx[r] EXCEPT !.open = FALSE]
<1>1. /\ own \in Context
      /\ own.fine = ctx[r].fine /\ ~own.open /\ own.from = ctx[r].from
      /\ own.beside = ctx[r].beside /\ own.ops = ctx[r].ops
  BY ContextTypes DEF Context
<1>2. ctx' = [ctx EXCEPT ![r] = own]
  BY DEF RecordFinished
<1> HIDE DEF own
<1>3. ctx' \in Seq(Context) /\ DOMAIN ctx' = DOMAIN ctx /\ ctx'[r] = own
      /\ \A q \in Started : q # r => ctx'[q] = ctx[q]
  BY <1>1, <1>2, ContextTypes
<1>4. Started' = Started
  BY <1>3 DEF Started
<1> QED BY <1>1, <1>3, <1>4

-----------------------------------------------------------------------------
\* What the end of a request writes.

RowType ==
  [request : 0 .. MaxRequests, from : Nat, count : 0 .. PerRequest, truncated : BOOLEAN,
   depFrom : Nat, depCount : 0 .. DepsPerRequest, depTruncated : BOOLEAN]

Deps(labels)      == MinOf({Len(labels), DepsPerRequest})
NamedOnes(labels) == {i \in 1 .. Deps(labels) : Named(labels, i) # Other}
LabelSlot(i)      == (dependencyCursor + i - 1) % DepSlots

NewRow(r, labels) ==
  [request |-> r, from |-> ctx[r].from, count |-> Kept(r),
   truncated |-> Truncated(ctx[r].ops, Kept(r)),
   depFrom |-> dependencyCursor, depCount |-> Deps(labels),
   depTruncated |-> Len(labels) > Deps(labels)]

\* What writing a row does to the rings.
LEMMA WriteRowIs ==
  ASSUME NEW r, NEW labels, WriteRow(r, labels)
  PROVE  /\ requests' = [requests EXCEPT ![requestCursor % Capacity] = NewRow(r, labels)]
         /\ requestCursor' = requestCursor + 1
         /\ dependencies' = [s \in 0 .. DepSlots - 1 |->
              IF \E i \in 1 .. Deps(labels) : LabelSlot(i) = s
              THEN Named(labels, CHOOSE i \in 1 .. Deps(labels) : LabelSlot(i) = s)
              ELSE dependencies[s]]
         /\ dependencyCursor' = dependencyCursor + Deps(labels)
         /\ known' = known \cup {labels[i] : i \in NamedOnes(labels)}
         /\ labelsFolded' = labelsFolded + (Deps(labels) - Cardinality(NamedOnes(labels)))
BY DEF WriteRow, Deps, NamedOnes, LabelSlot, NewRow

\* What is known of the rings.
LEMMA RingTypes ==
  ASSUME FineTypeOK
  PROVE  /\ requests \in [0 .. Capacity - 1 -> RowType]
         /\ operations \in [0 .. OpCapacity - 1 -> [owner : 0 .. MaxRequests, at : Nat \cup {-1}]]
         /\ dependencies \in [0 .. DepSlots - 1 -> Dep \cup {Other}]
         /\ requestCursor \in Nat /\ operationCursor \in Nat
         /\ dependencyCursor \in Nat /\ labelsFolded \in Nat
         /\ known \subseteq Dep /\ IsFiniteSet(known) /\ Cardinality(known) <= DepLabels
         /\ keeping \in BOOLEAN
         /\ ran \in [Request -> 0 .. MaxOps] /\ touched \in [Request -> DependencyLists]
<1>1. IsFiniteSet(known)
  BY Constants, FS_Subset DEF FineTypeOK, TypeOK
<1> QED BY <1>1 DEF FineTypeOK, TypeOK, RowType

\* What is known of a request's dependencies.
LEMMA LabelTypes ==
  ASSUME NEW labels \in DependencyLists
  PROVE  /\ labels \in Seq(Dep) /\ Len(labels) \in Nat
         /\ Deps(labels) \in 0 .. DepsPerRequest /\ Deps(labels) <= Len(labels)
         /\ Deps(labels) = Len(labels) \/ Len(labels) > Deps(labels)
         /\ \A i \in 1 .. Deps(labels) : labels[i] \in Dep
<1>1. Cardinality(Dep) \in Nat
  BY Constants, FS_CardinalityType
<1>2. PICK n \in 0 .. Cardinality(Dep) : labels \in [1 .. n -> Dep]
  BY DEF DependencyLists
<1>3. labels \in Seq(Dep) /\ Len(labels) \in Nat
  BY <1>1, <1>2
<1>4. Deps(labels) = IF Len(labels) <= DepsPerRequest THEN Len(labels) ELSE DepsPerRequest
  BY <1>3, MinOfTwo, Constants DEF Deps
<1>5. \A i \in 1 .. Len(labels) : labels[i] \in Dep
  BY <1>3
<1> QED BY <1>3, <1>4, <1>5, Constants

\* A row keeps no more of its request than was run, may be kept, and was written.
LEMMA KeptIs ==
  ASSUME FineTypeOK, Counted, NEW r \in Started
  PROVE  /\ Kept(r) \in 0 .. PerRequest /\ Kept(r) <= ctx[r].ops
         /\ ctx[r].from + Kept(r) <= operationCursor
         /\ Kept(r) \in {ctx[r].ops, PerRequest, operationCursor - ctx[r].from}
<1>1. /\ ctx[r].ops \in Nat /\ operationCursor - ctx[r].from \in Nat /\ PerRequest \in Nat
      /\ ctx[r].from \in Nat /\ operationCursor \in Nat
  <2>1. ctx[r].ops \in Nat /\ ctx[r].from \in Nat
    BY ContextTypes
  <2>2. operationCursor \in Nat /\ PerRequest \in Nat
    BY RingTypes, Constants
  <2>3. operationCursor - ctx[r].from \in Nat
    BY <2>1, <2>2 DEF Counted
  <2> QED BY <2>1, <2>2, <2>3
<1> DEFINE n       == ctx[r].ops
           written == operationCursor - ctx[r].from
<1>2. Kept(r) = MinOf({n, PerRequest, written})
  BY DEF Kept
<1>3. /\ n \in Int /\ PerRequest \in Int /\ written \in Int /\ written >= 0
      /\ ctx[r].from + written = operationCursor
  BY <1>1
<1> HIDE DEF n, written
<1>4. /\ Kept(r) = n \/ Kept(r) = PerRequest \/ Kept(r) = written
      /\ Kept(r) <= n /\ Kept(r) <= PerRequest /\ Kept(r) <= written
  <2>1. LET m == MinOf({n, PerRequest, written})
        IN (m = n \/ m = PerRequest \/ m = written) /\ m <= n /\ m <= PerRequest /\ m <= written
    BY <1>3, MinOfThree, Zenon
  <2> QED BY <1>2, <2>1, Zenon
<1>5. Kept(r) \in 0 .. PerRequest /\ ctx[r].from + Kept(r) <= operationCursor
  BY <1>1, <1>3, <1>4 DEF n
<1> QED BY <1>4, <1>5 DEF n, written

\* The row a finished request is given.
LEMMA NewRowIs ==
  ASSUME FineTypeOK, Counted, NEW r \in Started, NEW labels \in DependencyLists
  PROVE  /\ NewRow(r, labels) \in RowType
         /\ NewRow(r, labels).request = r /\ NewRow(r, labels).from = ctx[r].from
         /\ NewRow(r, labels).count = Kept(r)
         /\ NewRow(r, labels).truncated = (ctx[r].ops > Kept(r))
         /\ NewRow(r, labels).depFrom = dependencyCursor
         /\ NewRow(r, labels).depCount = Deps(labels)
         /\ NewRow(r, labels).depTruncated = (Len(labels) > Deps(labels))
<1>1. /\ r \in 0 .. MaxRequests /\ ctx[r].from \in Nat /\ dependencyCursor \in Nat
      /\ Kept(r) \in 0 .. PerRequest /\ Deps(labels) \in 0 .. DepsPerRequest
  BY ContextTypes, RingTypes, LabelTypes, KeptIs DEF Request
<1> DEFINE cut   == ctx[r].ops > Kept(r)
           short == Len(labels) > Deps(labels)
<1>2. cut \in BOOLEAN /\ short \in BOOLEAN
  OBVIOUS
<1>3. NewRow(r, labels) =
        [request |-> r, from |-> ctx[r].from, count |-> Kept(r), truncated |-> cut,
         depFrom |-> dependencyCursor, depCount |-> Deps(labels), depTruncated |-> short]
  BY DEF NewRow, Truncated
<1> HIDE DEF cut, short
<1>4. NewRow(r, labels) \in RowType
  BY <1>1, <1>2, <1>3 DEF RowType
<1>5. NewRow(r, labels).truncated = cut /\ NewRow(r, labels).depTruncated = short
  BY <1>3
<1> QED BY <1>3, <1>4, <1>5 DEF cut, short

\* A dependency is named, or is one of the rest.
LEMMA NamedIs ==
  ASSUME NEW labels \in DependencyLists, NEW i \in 1 .. Deps(labels)
  PROVE  /\ Named(labels, i) \in Dep \cup {Other}
         /\ i \in NamedOnes(labels) => Named(labels, i) = labels[i]
         /\ i \notin NamedOnes(labels) => Named(labels, i) = Other
BY LabelTypes DEF Named, NamedOnes

\* The labels that are not kept by name are counted.
LEMMA FoldedCounted ==
  ASSUME FineTypeOK, NEW labels \in DependencyLists
  PROVE  /\ Deps(labels) - Cardinality(NamedOnes(labels)) \in Nat
         /\ (\E i \in 1 .. Deps(labels) : i \notin NamedOnes(labels)) =>
              Deps(labels) - Cardinality(NamedOnes(labels)) > 0
<1> DEFINE all == 1 .. Deps(labels)
<1>1. Deps(labels) \in Nat
  BY LabelTypes
<1>2. IsFiniteSet(all) /\ Cardinality(all) = Deps(labels)
  BY <1>1, FS_Interval
<1>3. NamedOnes(labels) \subseteq all
  BY DEF NamedOnes
<1> HIDE DEF all
<1>4. /\ IsFiniteSet(NamedOnes(labels))
      /\ Cardinality(NamedOnes(labels)) <= Cardinality(all)
      /\ Cardinality(all) = Cardinality(NamedOnes(labels)) => all = NamedOnes(labels)
  BY <1>2, <1>3, FS_Subset
<1>5. Cardinality(NamedOnes(labels)) \in Nat
  BY <1>4, FS_CardinalityType
<1>6. ASSUME NEW i \in 1 .. Deps(labels), i \notin NamedOnes(labels)
      PROVE  Cardinality(all) # Cardinality(NamedOnes(labels))
  BY <1>4, <1>6 DEF all
<1> QED BY <1>1, <1>2, <1>4, <1>5, <1>6

\* The table of labels never outgrows its room: the last label it took found some.
LEMMA TableHasRoom ==
  ASSUME FineTypeOK, NEW labels \in DependencyLists
  PROVE  LET after == known \cup {labels[i] : i \in NamedOnes(labels)}
         IN after \subseteq Dep /\ Cardinality(after) <= DepLabels
<1> DEFINE after == known \cup {labels[i] : i \in NamedOnes(labels)}
           fresh == {i \in NamedOnes(labels) : labels[i] \notin known}
<1>1. after \subseteq Dep
  BY LabelTypes, RingTypes DEF NamedOnes
<1>2. CASE fresh = {}
  <2>1. after = known
    BY <1>2
  <2> QED BY <1>1, <2>1, RingTypes
<1>3. CASE fresh # {}
  <2>1. fresh \in SUBSET Nat /\ \A i \in fresh : i <= Deps(labels)
    BY LabelTypes DEF NamedOnes
  <2>2. Deps(labels) \in Nat
    BY LabelTypes
  <2>3. PICK m \in fresh : \A i \in fresh : i <= m
    <3> HIDE DEF fresh
    <3> QED BY <1>3, <2>1, <2>2, GreatestOf
  <2> DEFINE before == known \cup {labels[j] : j \in 1 .. m - 1}
  <2>4. Cardinality(before) < DepLabels
    BY <2>3, LabelTypes, Constants DEF NamedOnes, Named
  <2>5. before \subseteq Dep
    BY <2>3, LabelTypes, RingTypes DEF NamedOnes
  <2>6. after \subseteq before \cup {labels[m]}
    <3> SUFFICES ASSUME NEW i \in NamedOnes(labels), labels[i] \notin known, i # m
                 PROVE  i \in 1 .. m - 1
      OBVIOUS
    <3> QED BY <2>1, <2>2, <2>3 DEF NamedOnes
  <2> HIDE DEF before, after
  <2>7. IsFiniteSet(before)
    BY <2>5, Constants, FS_Subset
  <2>8. /\ IsFiniteSet(before \cup {labels[m]})
        /\ Cardinality(before \cup {labels[m]}) <= Cardinality(before) + 1
        /\ Cardinality(before) \in Nat
    <3>1. Cardinality(before) \in Nat
      BY <2>7, FS_CardinalityType
    <3>2. /\ IsFiniteSet(before \cup {labels[m]})
          /\ Cardinality(before \cup {labels[m]}) =
               IF labels[m] \in before THEN Cardinality(before) ELSE Cardinality(before) + 1
      BY <2>7, FS_AddElement
    <3> QED BY <3>1, <3>2
  <2>9. IsFiniteSet(after) /\ Cardinality(after) <= Cardinality(before \cup {labels[m]})
    BY <2>6, <2>8, FS_Subset
  <2>10. Cardinality(after) \in Nat /\ Cardinality(before \cup {labels[m]}) \in Nat
    BY <2>8, <2>9, FS_CardinalityType
  <2> QED BY <1>1, <2>4, <2>8, <2>9, <2>10, Constants DEF after
<1> QED BY <1>2, <1>3

\* A row's dependencies are in its places of the ring, and those before, as far as the ring
\* reaches, are where they were.
LEMMA LabelsWritten ==
  ASSUME FineTypeOK, NEW r, NEW labels \in DependencyLists, WriteRow(r, labels)
  PROVE  /\ dependencies' \in [0 .. DepSlots - 1 -> Dep \cup {Other}]
         /\ labelsFolded' \in Nat /\ labelsFolded' >= labelsFolded
         /\ \A i \in 1 .. Deps(labels) :
              \/ dependencies'[LabelSlot(i)] = labels[i]
              \/ dependencies'[LabelSlot(i)] = Other /\ labelsFolded' > 0
         /\ \A c \in Nat :
              c < dependencyCursor /\ dependencyCursor + Deps(labels) - c <= DepSlots =>
              dependencies'[c % DepSlots] = dependencies[c % DepSlots]
<1> DEFINE mine(s) == {i \in 1 .. Deps(labels) : LabelSlot(i) = s}
           at(s)   == CHOOSE i \in 1 .. Deps(labels) : LabelSlot(i) = s
<1>1. /\ Deps(labels) \in Nat /\ Deps(labels) <= DepSlots /\ DepSlots \in Nat \ {0}
      /\ dependencyCursor \in Nat /\ labelsFolded \in Nat
  BY LabelTypes, RingTypes, Constants
<1>2. \A s : (\E i \in 1 .. Deps(labels) : LabelSlot(i) = s) =>
        at(s) \in 1 .. Deps(labels) /\ LabelSlot(at(s)) = s
  BY Zenon
<1>3. /\ dependencies' = [s \in 0 .. DepSlots - 1 |->
           IF \E i \in 1 .. Deps(labels) : LabelSlot(i) = s
           THEN Named(labels, at(s)) ELSE dependencies[s]]
      /\ labelsFolded' = labelsFolded + (Deps(labels) - Cardinality(NamedOnes(labels)))
  <2>1. labelsFolded' = labelsFolded + (Deps(labels) - Cardinality(NamedOnes(labels)))
    BY WriteRowIs
  <2>2. dependencies' = [s \in 0 .. DepSlots - 1 |->
           IF \E i \in 1 .. Deps(labels) : LabelSlot(i) = s
           THEN Named(labels, at(s)) ELSE dependencies[s]]
    BY WriteRowIs
  <2> QED BY <2>1, <2>2
<1> HIDE DEF at
<1>4. dependencies' \in [0 .. DepSlots - 1 -> Dep \cup {Other}]
  <2>1. dependencies \in [0 .. DepSlots - 1 -> Dep \cup {Other}]
    BY RingTypes
  <2>2. \A i \in 1 .. Deps(labels) : Named(labels, i) \in Dep \cup {Other}
    BY NamedIs
  <2> QED BY <1>2, <1>3, <2>1, <2>2
<1>5. labelsFolded' \in Nat /\ labelsFolded' >= labelsFolded
  <2>1. PICK d \in Nat : d = Deps(labels) - Cardinality(NamedOnes(labels))
    BY FoldedCounted
  <2> QED BY <1>1, <1>3, <2>1
\* No two of them fall in one slot.
<1>6. ASSUME NEW i \in 1 .. Deps(labels), NEW j \in 1 .. Deps(labels), LabelSlot(i) = LabelSlot(j)
      PROVE  i = j
  <2> DEFINE a == dependencyCursor + i - 1
             b == dependencyCursor + j - 1
  <2>1. a \in Int /\ b \in Int /\ a - b < DepSlots /\ b - a < DepSlots
    BY <1>1
  <2>2. a % DepSlots = b % DepSlots
    BY <1>6 DEF LabelSlot
  <2>3. a = b
    <3> HIDE DEF a, b
    <3> QED BY <1>1, <2>1, <2>2, ModApart
  <2> QED BY <1>1, <2>3
<1>7. ASSUME NEW i \in 1 .. Deps(labels)
      PROVE  \/ dependencies'[LabelSlot(i)] = labels[i]
             \/ dependencies'[LabelSlot(i)] = Other /\ labelsFolded' > 0
  <2>1. LabelSlot(i) \in 0 .. DepSlots - 1
    BY <1>1, ModRange DEF LabelSlot
  <2>2. at(LabelSlot(i)) = i
    BY <1>2, <1>6
  <2>3. dependencies'[LabelSlot(i)] = Named(labels, i)
    BY <1>3, <2>1, <2>2
  <2>4. CASE i \in NamedOnes(labels)
    BY <2>3, <2>4, NamedIs
  <2>5. CASE i \notin NamedOnes(labels)
    <3>1. Deps(labels) - Cardinality(NamedOnes(labels)) > 0
      BY <2>5, FoldedCounted
    <3>2. Deps(labels) - Cardinality(NamedOnes(labels)) \in Nat
      BY FoldedCounted
    <3>3. labelsFolded' > 0
      BY <1>1, <1>3, <3>1, <3>2
    <3> QED BY <2>3, <2>5, <3>3, NamedIs
  <2> QED BY <2>4, <2>5
<1>8. ASSUME NEW c \in Nat, c < dependencyCursor,
             dependencyCursor + Deps(labels) - c <= DepSlots
      PROVE  dependencies'[c % DepSlots] = dependencies[c % DepSlots]
  <2>1. ASSUME NEW i \in 1 .. Deps(labels), LabelSlot(i) = c % DepSlots
        PROVE  FALSE
    <3> DEFINE a == dependencyCursor + i - 1
    <3>1. a \in Int /\ c \in Int /\ a - c < DepSlots /\ c - a < DepSlots /\ a # c
      BY <1>1, <1>8
    <3>2. a % DepSlots = c % DepSlots
      BY <2>1 DEF LabelSlot
    <3> HIDE DEF a
    <3> QED BY <1>1, <3>1, <3>2, ModApart
  <2>2. c % DepSlots \in 0 .. DepSlots - 1
    BY <1>1, ModRange
  <2> QED BY <1>3, <2>1, <2>2
<1> QED BY <1>4, <1>5, <1>7, <1>8

\* The row is where the cursor was; the rows that still live are as they were.
LEMMA RowWritten ==
  ASSUME FineTypeOK, NEW r, NEW labels, WriteRow(r, labels)
  PROVE  /\ requestCursor' = requestCursor + 1
         /\ requests'[requestCursor % Capacity] = NewRow(r, labels)
         /\ LastRow' = NewRow(r, labels)
         /\ \A c \in Nat : LiveAt(c)' =>
              \/ c = requestCursor
              \/ LiveAt(c) /\ RowAt(c)' = RowAt(c)
<1>1. /\ requests \in [0 .. Capacity - 1 -> RowType] /\ requestCursor \in Nat
      /\ Capacity \in Nat \ {0}
  BY RingTypes, Constants
<1>2. /\ requests' = [requests EXCEPT ![requestCursor % Capacity] = NewRow(r, labels)]
      /\ requestCursor' = requestCursor + 1
  BY WriteRowIs
<1> DEFINE new == NewRow(r, labels)
<1> HIDE DEF new
<1>3. requests' = [requests EXCEPT ![requestCursor % Capacity] = new]
  BY <1>2 DEF new
<1>4. requests'[requestCursor % Capacity] = new
  BY <1>1, <1>3, ModRange
<1>5. ASSUME NEW c \in Nat, LiveAt(c)'
      PROVE  c = requestCursor \/ (LiveAt(c) /\ RowAt(c)' = RowAt(c))
  <2>0. requestCursor' - Capacity <= c /\ c < requestCursor'
    BY <1>5 DEF LiveAt
  <2>1. requestCursor + 1 - Capacity <= c /\ c < requestCursor + 1
    BY <1>1, <1>2, <2>0
  <2>2. CASE c # requestCursor
    <3>1. requestCursor - Capacity <= c /\ c < requestCursor /\ c - requestCursor < Capacity
      BY <1>1, <2>1, <2>2
    <3>2. requestCursor - c < Capacity
      BY <1>1, <2>1
    <3>3. requestCursor % Capacity # c % Capacity /\ c % Capacity \in 0 .. Capacity - 1
      BY <1>1, <2>2, <3>1, <3>2, RingApart
    <3>4. requests'[c % Capacity] = requests[c % Capacity]
      BY <1>1, <1>3, <3>3
    <3> QED BY <3>1, <3>4 DEF LiveAt, RowAt
  <2> QED BY <2>2
<1>6. requestCursor' - 1 = requestCursor
  BY <1>1, <1>2
<1>7. requests'[requestCursor % Capacity] = NewRow(r, labels)
  BY <1>4 DEF new
<1> QED BY <1>2, <1>5, <1>6, <1>7 DEF LastRow

\* The operation is where the cursor was; those less than a ring away are as they were.
LEMMA OperationWritten ==
  ASSUME FineTypeOK, NEW r \in Started, RecordOperation(r), Writes(r)
  PROVE  /\ operationCursor' = operationCursor + 1
         /\ operations' \in [0 .. OpCapacity - 1 -> [owner : 0 .. MaxRequests, at : Nat \cup {-1}]]
         /\ DOMAIN operations' = DOMAIN operations
         /\ operationCursor % OpCapacity \in DOMAIN operations
         /\ operations'[operationCursor % OpCapacity] = [owner |-> r, at |-> operationCursor]
         /\ \A s \in DOMAIN operations :
              s # operationCursor % OpCapacity => operations'[s] = operations[s]
         /\ \A c \in Nat : c < operationCursor /\ operationCursor - c < OpCapacity =>
              operations'[c % OpCapacity] = operations[c % OpCapacity]
<1> DEFINE new  == [owner |-> r, at |-> operationCursor]
           Item == [owner : 0 .. MaxRequests, at : Nat \cup {-1}]
<1>1. /\ operations \in [0 .. OpCapacity - 1 -> Item] /\ operationCursor \in Nat
      /\ OpCapacity \in Nat \ {0}
  BY RingTypes, Constants
<1>2. /\ operations' = [operations EXCEPT ![operationCursor % OpCapacity] = new]
      /\ operationCursor' = operationCursor + 1
  BY DEF RecordOperation
<1>3. new \in Item
  BY <1>1, ContextTypes, Constants DEF Request
<1> HIDE DEF new, Item
<1>4. operationCursor % OpCapacity \in 0 .. OpCapacity - 1
  BY <1>1, ModRange
<1>5. /\ operations' \in [0 .. OpCapacity - 1 -> Item] /\ DOMAIN operations' = DOMAIN operations
      /\ operations'[operationCursor % OpCapacity] = new
      /\ \A s \in DOMAIN operations :
           s # operationCursor % OpCapacity => operations'[s] = operations[s]
  BY <1>1, <1>2, <1>3, <1>4
<1>6. ASSUME NEW c \in Nat, c < operationCursor, operationCursor - c < OpCapacity
      PROVE  operations'[c % OpCapacity] = operations[c % OpCapacity]
  <2>1. c # operationCursor /\ c - operationCursor < OpCapacity
    BY <1>1, <1>6
  <2>2. c % OpCapacity # operationCursor % OpCapacity /\ c % OpCapacity \in 0 .. OpCapacity - 1
    BY <1>1, <1>6, <2>1, RingApart
  <2> QED BY <1>1, <1>5, <2>2
<1> QED BY <1>1, <1>2, <1>4, <1>5, <1>6 DEF new, Item

\* What a finish does to the rings, with a row or without.
LEMMA FinishWrites ==
  ASSUME NEW r, NEW labels, RecordFinished(r, labels)
  PROVE  /\ UNCHANGED <<operations, operationCursor, keeping, ran>>
         /\ touched' = [touched EXCEPT ![r] = labels]
         /\ ctx[r].open
         /\ \/ /\ WriteRow(r, labels)
               /\ sample' = LastOperations(LastRow') \/ sample' = sample
            \/ UNCHANGED <<requests, requestCursor, dependencies, dependencyCursor, known,
                           labelsFolded, sample>>
BY DEF RecordFinished

\* No step opens one more than there is room for.
LEMMA OpenBounded ==
  ASSUME FineTypeOK, ctx' \in Seq(Context), NEW S, IsFiniteSet(S), Cardinality(S) <= MaxOpen,
         Open' \subseteq S
  PROVE  Cardinality(Open') <= MaxOpen
<1>1. IsFiniteSet(Open') /\ Cardinality(Open') <= Cardinality(S)
  BY FS_Subset
<1>2. Cardinality(Open') \in Nat /\ Cardinality(S) \in Nat
  BY <1>1, FS_CardinalityType
<1> QED BY <1>1, <1>2, Constants

\* The open requests are as many as the model has.
LEMMA OpenFinite ==
  ASSUME FineTypeOK
  PROVE  IsFiniteSet(Open) /\ Cardinality(Open) \in Nat /\ Cardinality(Open) <= MaxOpen
<1>1. Open \subseteq Started
  BY DEF Open
<1>2. IsFiniteSet(Open)
  BY <1>1, ContextTypes, FS_Subset
<1> QED BY <1>2, FS_CardinalityType DEF FineTypeOK, TypeOK

\* A start keeps the types.
LEMMA StartTypes ==
  ASSUME FineTypeOK, RequestStarted
  PROVE  FineTypeOK'
<1> DEFINE r == Len(ctx) + 1
<1>1. /\ ctx' \in Seq(Context) /\ r \in Request /\ Started' = Started \cup {r}
      /\ \A q \in Started : ctx'[q] = ctx[q]
  BY StartStep
<1>2. Started' = 1 .. Len(ctx) + 1 /\ Len(ctx) \in Nat
  BY <1>1, ContextTypes
<1>3. Cardinality(Started') = Len(ctx) + 1
  BY <1>2, FS_Interval
<1>4. Started' = 1 .. Cardinality(Started') /\ Started' \subseteq Request
  BY <1>1, <1>2, <1>3, ContextTypes
<1>5. ctx' \in Seq(Context) /\ \A q \in Started' : ctx'[q] \in Context
  <2>1. PICK c : c = ctx'
    OBVIOUS
  <2>2. c \in Seq(Context)
    BY <1>1, <2>1
  <2>3. \A q \in DOMAIN c : c[q] \in Context
    BY <2>2
  <2> QED BY <2>1, <2>2, <2>3 DEF Started
<1>6. Cardinality(Open') <= MaxOpen
  <2>1. Open' \subseteq Open \cup {r}
    BY <1>1 DEF Open
  <2>2. Cardinality(Open) < MaxOpen
    BY DEF RequestStarted
  <2>3. /\ IsFiniteSet(Open \cup {r})
        /\ Cardinality(Open \cup {r}) =
             IF r \in Open THEN Cardinality(Open) ELSE Cardinality(Open) + 1
    BY OpenFinite, FS_AddElement
  <2>4. Cardinality(Open \cup {r}) <= MaxOpen
    BY <2>2, <2>3, OpenFinite, Constants
  <2> QED BY <1>1, <2>1, <2>3, <2>4, OpenBounded
<1>7. UNCHANGED <<requests, requestCursor, dependencies, dependencyCursor, known, labelsFolded,
                  operations, operationCursor, keeping, sample, ran, touched>>
  BY DEF RequestStarted
<1> HIDE DEF r
<1> QED BY <1>4, <1>5, <1>6, <1>7 DEF FineTypeOK, TypeOK, Context

\* An operation keeps the types.
LEMMA OperationTypes ==
  ASSUME FineTypeOK, NEW r \in Started, RecordOperation(r)
  PROVE  FineTypeOK'
<1>1. /\ ctx' \in Seq(Context) /\ Started' = Started
      /\ \A q \in Started : ctx'[q].open = ctx[q].open
  BY OperationStep
<1>2. \A q \in Started' : ctx'[q] \in Context
  BY <1>1 DEF Started
<1>3. Started' = 1 .. Cardinality(Started') /\ Started' \subseteq Request
  BY <1>1 DEF FineTypeOK, TypeOK
<1>4. Cardinality(Open') <= MaxOpen
  <2>1. Open' = Open
    BY <1>1 DEF Open
  <2> QED BY <2>1, OpenFinite
<1>5. /\ operations' \in [0 .. OpCapacity - 1 -> [owner : 0 .. MaxRequests, at : Nat \cup {-1}]]
      /\ operationCursor' \in Nat
  <2>1. CASE Writes(r)
    <3>1. operationCursor' = operationCursor + 1
      BY <2>1, OperationWritten
    <3>2. operations' \in [0 .. OpCapacity - 1 -> [owner : 0 .. MaxRequests, at : Nat \cup {-1}]]
      BY <2>1, OperationWritten
    <3>3. operationCursor \in Nat
      BY RingTypes
    <3> QED BY <3>1, <3>2, <3>3
  <2>2. CASE ~Writes(r)
    BY <2>2, RingTypes DEF RecordOperation
  <2> QED BY <2>1, <2>2
<1>6. ran' \in [Request -> 0 .. MaxOps]
  <2>1. /\ ran[r] < MaxOps /\ ran' = [ran EXCEPT ![r] = IF ctx[r].open THEN @ + 1 ELSE @]
    BY DEF RecordOperation
  <2>2. ran \in [Request -> 0 .. MaxOps] /\ r \in Request
    BY RingTypes, ContextTypes
  <2> QED BY <2>1, <2>2, Constants
<1>7. UNCHANGED <<requests, requestCursor, dependencies, dependencyCursor, known, labelsFolded,
                  keeping, sample, touched>>
  BY DEF RecordOperation
<1> QED BY <1>1, <1>2, <1>3, <1>4, <1>5, <1>6, <1>7 DEF FineTypeOK, TypeOK, Context

\* A finish keeps the types.
LEMMA FinishTypes ==
  ASSUME FineTypeOK, Counted, NEW r \in Started, NEW labels \in DependencyLists,
         RecordFinished(r, labels)
  PROVE  FineTypeOK'
<1>1. /\ ctx' \in Seq(Context) /\ Started' = Started
      /\ \A q \in Started : q # r => ctx'[q] = ctx[q]
      /\ ~ctx'[r].open
  BY FinishStep
<1>2. \A q \in Started' : ctx'[q] \in Context
  BY <1>1 DEF Started
<1>3. Started' = 1 .. Cardinality(Started') /\ Started' \subseteq Request
  BY <1>1 DEF FineTypeOK, TypeOK
<1>4. Cardinality(Open') <= MaxOpen
  <2>1. Open' \subseteq Open
    BY <1>1 DEF Open
  <2> QED BY <1>1, <2>1, OpenFinite, OpenBounded
<1>5. /\ UNCHANGED <<operations, operationCursor, keeping, ran>>
      /\ touched' \in [Request -> DependencyLists]
  <2>1. touched \in [Request -> DependencyLists] /\ r \in Request
    BY RingTypes, ContextTypes
  <2> QED BY <2>1, FinishWrites
<1>6. CASE WriteRow(r, labels) /\ (sample' = LastOperations(LastRow') \/ sample' = sample)
  <2> DEFINE row == NewRow(r, labels)
  <2>1. row \in RowType /\ row.from = ctx[r].from /\ row.count = Kept(r)
    BY NewRowIs
  <2>2. requests' \in [0 .. Capacity - 1 -> RowType] /\ requestCursor' \in Nat
    <3>1. /\ requests' = [requests EXCEPT ![requestCursor % Capacity] = row]
          /\ requestCursor' = requestCursor + 1
      BY <1>6, WriteRowIs
    <3>2. /\ requests \in [0 .. Capacity - 1 -> RowType] /\ requestCursor \in Nat
          /\ Capacity \in Nat \ {0}
      BY RingTypes, Constants
    <3>3. requestCursor % Capacity \in 0 .. Capacity - 1
      BY <3>2, ModRange
    <3> HIDE DEF row
    <3> QED BY <2>1, <3>1, <3>2, <3>3
  <2>3. dependencies' \in [0 .. DepSlots - 1 -> Dep \cup {Other}] /\ labelsFolded' \in Nat
    BY <1>6, LabelsWritten
  <2>4. dependencyCursor' \in Nat
    <3>1. dependencyCursor \in Nat
      BY RingTypes
    <3>2. Deps(labels) \in Nat
      BY LabelTypes
    <3>3. dependencyCursor' = dependencyCursor + Deps(labels)
      BY <1>6, WriteRowIs
    <3> HIDE DEF row
    <3> QED BY <3>1, <3>2, <3>3
  <2>5. known' \subseteq Dep /\ Cardinality(known') <= DepLabels
    <3> DEFINE grown == known \cup {labels[i] : i \in NamedOnes(labels)}
    <3>1. grown \subseteq Dep /\ Cardinality(grown) <= DepLabels
      BY TableHasRoom
    <3>2. known' = grown
      BY <1>6, WriteRowIs
    <3> HIDE DEF row, grown
    <3> QED BY <3>1, <3>2
  <2>6. \A i \in DOMAIN sample' : sample'[i].expected \in Nat
    <3>1. CASE sample' = sample
      BY <3>1 DEF FineTypeOK, TypeOK
    <3>2. CASE sample' = LastOperations(LastRow')
      <4>1. sample' = LastOperations(row)
        BY <1>6, <3>2, RowWritten
      <4>2. row.from \in Nat /\ row.count \in Nat
        BY <2>1, ContextTypes, KeptIs
      <4> HIDE DEF row
      <4> QED BY <4>1, <4>2 DEF LastOperations
    <3> QED BY <1>6, <3>1, <3>2
  <2> HIDE DEF row
  <2> QED BY <1>1, <1>2, <1>3, <1>4, <1>5, <2>2, <2>3, <2>4, <2>5, <2>6
      DEF FineTypeOK, TypeOK, Context, RowType
<1>7. CASE UNCHANGED <<requests, requestCursor, dependencies, dependencyCursor, known,
                       labelsFolded, sample>>
  BY <1>1, <1>2, <1>3, <1>4, <1>5, <1>7 DEF FineTypeOK, TypeOK, Context
<1> QED BY <1>6, <1>7, FinishWrites

-----------------------------------------------------------------------------
\* Every step keeps the invariant.

\* The facts about a live row that the steps below start from.
LEMMA LiveRow ==
  ASSUME FineIInv, NEW c \in Nat, LiveAt(c)
  PROVE  /\ RowAt(c) \in RowType /\ RowAt(c).request \in Started
         /\ RowAt(c).from \in Nat /\ RowAt(c).count \in Nat /\ RowAt(c).count <= PerRequest
         /\ RowAt(c).depFrom \in Nat /\ RowAt(c).depCount \in Nat
         /\ ~ctx[RowAt(c).request].open
<1>1. c % Capacity \in 0 .. Capacity - 1
  BY ModRange, Constants
<1>2. RowAt(c) \in RowType
  BY <1>1, RingTypes DEF FineIInv, RowAt
<1>3. RowAt(c).request \in Started /\ ~ctx[RowAt(c).request].open
  BY DEF FineIInv, RowsRight, RowIsRight
<1>4. \A row \in RowType :
        /\ row.from \in Nat /\ row.count \in Nat /\ row.count <= PerRequest
        /\ row.depFrom \in Nat /\ row.depCount \in Nat
  BY Constants DEF RowType
<1> QED BY <1>2, <1>3, <1>4

\* A start keeps the invariant.
LEMMA StartKeeps ==
  ASSUME FineIInv, RequestStarted
  PROVE  FineIInv'
<1> PICK r : r = Len(ctx) + 1
  OBVIOUS
<1>1. FineTypeOK
  BY DEF FineIInv
<1>2. /\ r \in Request /\ r \notin Started /\ Started' = Started \cup {r}
      /\ \A q \in Started : ctx'[q] = ctx[q]
      /\ ctx'[r].fine = keeping /\ ctx'[r].open /\ ctx'[r].ops = 0
      /\ ctx'[r].from = IF keeping THEN operationCursor ELSE 0
      /\ ctx'[r].beside = {}
  BY <1>1, StartStep
<1>3. UNCHANGED <<requests, requestCursor, dependencies, dependencyCursor, known, labelsFolded,
                  operations, operationCursor, keeping, sample, ran, touched>>
  BY DEF RequestStarted
<1>4. r \in Nat \ {0} /\ operationCursor \in Nat /\ keeping \in BOOLEAN
  BY <1>1, ContextTypes, RingTypes
<1>5. FineTypeOK'
  BY <1>1, StartTypes
<1>6. InPlace'
  BY <1>3 DEF FineIInv, InPlace
<1>7. Counted'
  <2>1. \A q \in Started :
          /\ ctx'[q].from <= operationCursor'
          /\ ~ctx'[q].fine => ctx'[q].ops = 0
          /\ ctx'[q].open /\ ctx'[q].fine => ctx'[q].ops = ran'[q]
    BY <1>2, <1>3 DEF FineIInv, Counted
  <2>2. ran[r] = 0
    BY <1>2 DEF FineIInv, Counted
  <2>3. /\ ctx'[r].from <= operationCursor'
        /\ ~ctx'[r].fine => ctx'[r].ops = 0
        /\ ctx'[r].open /\ ctx'[r].fine => ctx'[r].ops = ran'[r]
    BY <1>2, <1>3, <1>4, <2>2
  <2>4. \A q \in Request \ Started' : ran'[q] = 0
    BY <1>2, <1>3 DEF FineIInv, Counted
  <2> QED BY <1>2, <2>1, <2>3, <2>4 DEF Counted
<1>8. Shares'
  <2>1. \A q : SlotsOf(q)' = SlotsOf(q)
    BY <1>3 DEF SlotsOf
  <2>2. SlotsOf(r) = {}
    BY <1>2, <1>4 DEF FineIInv, Shares, SlotsOf
  <2>3. Cardinality(SlotsOf(r)') = 0
    BY <2>1, <2>2, FS_EmptySet
  <2>4. \A q \in Started : /\ Cardinality(SlotsOf(q)') <= ctx'[q].ops
                           /\ Cardinality(SlotsOf(q)') <= PerRequest
    BY <1>2, <2>1 DEF FineIInv, Shares
  <2>5. \A slot \in DOMAIN operations' : operations'[slot].owner \in Started' \cup {0}
    BY <1>2, <1>3 DEF FineIInv, Shares
  <2> QED BY <1>2, <2>1, <2>3, <2>4, <2>5, Constants DEF Shares
<1>9. ASSUME NEW c \in Nat, LiveAt(c)'
      PROVE  /\ LiveAt(c) /\ RowAt(c)' = RowAt(c)
             /\ RowAt(c).request \in Started
             /\ ctx'[RowAt(c).request] = ctx[RowAt(c).request]
  <2>1. LiveAt(c) /\ RowAt(c)' = RowAt(c)
    BY <1>3, <1>9 DEF LiveAt, RowAt
  <2> QED BY <1>2, <2>1, LiveRow
<1>10. RowsRight'
  BY <1>2, <1>3, <1>9 DEF FineIInv, RowsRight, RowIsRight
<1>11. LabelsInPlace'
  BY <1>3, <1>9 DEF FineIInv, LabelsInPlace, LabelsAreItsOwn, DependencyOf
<1>12. OpenInItsTime'
  <2>1. \A q \in Started : OfItsTime(q)' = OfItsTime(q)
    BY <1>2 DEF OfItsTime
  <2>2. ASSUME NEW q \in Started, ctx'[q].open /\ ctx'[q].fine
        PROVE  /\ \/ ctx'[q].ops <= operationCursor' - ctx'[q].from
                  \/ PerRequest <= operationCursor' - ctx'[q].from
               /\ ctx'[q].beside = {} =>
                    /\ operationCursor' - ctx'[q].from <= ctx'[q].ops
                    /\ operationCursor' - ctx'[q].from <= PerRequest
               /\ \A c \in Nat : ctx'[q].from <= c /\ c < operationCursor' =>
                    operations'[c % OpCapacity].owner \in OfItsTime(q)'
    BY <1>2, <1>3, <2>1, <2>2 DEF FineIInv, OpenInItsTime
  <2>3. ctx'[r].open /\ ctx'[r].fine =>
          /\ operationCursor' - ctx'[r].from = 0 /\ ctx'[r].ops = 0
          /\ \A c \in Nat : ~(ctx'[r].from <= c /\ c < operationCursor')
    BY <1>2, <1>3, <1>4
  <2> QED BY <1>2, <2>2, <2>3, Constants DEF OpenInItsTime
<1>13. ClosedInItsTime'
  BY <1>3, <1>9 DEF FineIInv, ClosedInItsTime, RowInItsTime, OfItsTime, Lost, OperationOf
<1>14. SampleInItsTime'
  BY <1>2, <1>3 DEF FineIInv, SampleInItsTime, OfItsTime
<1> QED BY <1>5, <1>6, <1>7, <1>8, <1>10, <1>11, <1>12, <1>13, <1>14 DEF FineIInv

\* The slots of a request are finitely many.
LEMMA SlotsFinite ==
  ASSUME FineTypeOK, NEW r
  PROVE  IsFiniteSet(SlotsOf(r)) /\ Cardinality(SlotsOf(r)) \in Nat
<1>1. DOMAIN operations = 0 .. OpCapacity - 1 /\ OpCapacity - 1 \in Int
  BY RingTypes, Constants
<1>2. IsFiniteSet(0 .. OpCapacity - 1)
  BY <1>1, FS_Interval
<1>3. SlotsOf(r) \subseteq 0 .. OpCapacity - 1
  BY <1>1 DEF SlotsOf
<1>4. IsFiniteSet(SlotsOf(r))
  BY <1>2, <1>3, FS_Subset
<1> QED BY <1>4, FS_CardinalityType

\* A write takes a slot for its request, and takes at most one from each of the others.
LEMMA SharesMove ==
  ASSUME FineTypeOK, NEW r \in Started, RecordOperation(r), Writes(r)
  PROVE  /\ Cardinality(SlotsOf(r)') <= Cardinality(SlotsOf(r)) + 1
         /\ \A q \in Started : q # r => Cardinality(SlotsOf(q)') <= Cardinality(SlotsOf(q))
<1> DEFINE slot == operationCursor % OpCapacity
<1>1. /\ DOMAIN operations' = DOMAIN operations
      /\ slot \in DOMAIN operations /\ operations'[slot].owner = r
      /\ \A s \in DOMAIN operations : s # slot => operations'[s] = operations[s]
  <2>1. /\ DOMAIN operations' = DOMAIN operations /\ slot \in DOMAIN operations
        /\ operations'[slot] = [owner |-> r, at |-> operationCursor]
        /\ \A s \in DOMAIN operations : s # slot => operations'[s] = operations[s]
    BY OperationWritten, Zenon
  <2> HIDE DEF slot
  <2> QED BY <2>1
<1> HIDE DEF slot
<1>2. SlotsOf(r)' \subseteq SlotsOf(r) \cup {slot}
  BY <1>1 DEF SlotsOf
<1>3. /\ IsFiniteSet(SlotsOf(r) \cup {slot})
      /\ Cardinality(SlotsOf(r) \cup {slot}) =
           IF slot \in SlotsOf(r) THEN Cardinality(SlotsOf(r)) ELSE Cardinality(SlotsOf(r)) + 1
  BY SlotsFinite, FS_AddElement
<1>4. Cardinality(SlotsOf(r)') <= Cardinality(SlotsOf(r) \cup {slot})
  BY <1>2, <1>3, FS_Subset
<1>5. FineTypeOK'
  BY OperationTypes
<1>6. Cardinality(SlotsOf(r)) \in Nat /\ Cardinality(SlotsOf(r)') \in Nat
  <2>1. IsFiniteSet(SlotsOf(r)')
    BY <1>2, <1>3, FS_Subset
  <2> QED BY <2>1, SlotsFinite, FS_CardinalityType
<1>7. ASSUME NEW q \in Started, q # r
      PROVE  Cardinality(SlotsOf(q)') <= Cardinality(SlotsOf(q))
  <2>1. SlotsOf(q)' \subseteq SlotsOf(q)
    BY <1>1, <1>7 DEF SlotsOf
  <2> QED BY <2>1, SlotsFinite, FS_Subset
<1> QED BY <1>3, <1>4, <1>6, <1>7

\* An operation keeps the invariant: it takes one slot, its own request's.
LEMMA OperationKeeps ==
  ASSUME FineIInv, NEW r \in Started, RecordOperation(r)
  PROVE  FineIInv'
<1>1. FineTypeOK
  BY DEF FineIInv
<1>2. /\ Started' = Started
      /\ \A q \in Started :
           /\ ctx'[q].fine = ctx[q].fine /\ ctx'[q].open = ctx[q].open
           /\ ctx'[q].from = ctx[q].from
           /\ q # r => ctx'[q].ops = ctx[q].ops
      /\ ctx'[r].ops = IF ctx[r].fine THEN ctx[r].ops + 1 ELSE ctx[r].ops
  BY <1>1, OperationStep
<1>20. /\ ctx'[r].beside = ctx[r].beside
       /\ \A q \in Started \ {r} :
            ctx'[q].beside = IF ctx[q].open /\ Writes(r) THEN ctx[q].beside \cup {r}
                             ELSE ctx[q].beside
  BY <1>1, OperationStep
<1>3. UNCHANGED <<requests, requestCursor, dependencies, dependencyCursor, known, labelsFolded,
                  keeping, sample, touched>>
  BY DEF RecordOperation
<1>4. /\ ran' = [ran EXCEPT ![r] = IF ctx[r].open THEN @ + 1 ELSE @]
      /\ ran \in [Request -> 0 .. MaxOps] /\ r \in Request
  BY <1>1, RingTypes, ContextTypes DEF RecordOperation
<1>5. /\ \A q \in Request : q # r => ran'[q] = ran[q]
      /\ ran'[r] = IF ctx[r].open THEN ran[r] + 1 ELSE ran[r]
  BY <1>4
<1>6. /\ operationCursor \in Nat /\ OpCapacity \in Nat \ {0} /\ PerRequest \in Nat \ {0}
      /\ PerRequest <= OpCapacity
      /\ \A q \in Started : ctx[q].ops \in Nat /\ ctx[q].from \in Nat /\ q \in Request
  BY <1>1, RingTypes, ContextTypes, Constants
<1>7. \/ /\ Writes(r) /\ operationCursor' = operationCursor + 1
         /\ ctx[r].fine /\ ctx[r].ops < PerRequest
      \/ /\ ~Writes(r) /\ UNCHANGED <<operations, operationCursor>>
         /\ ctx[r].fine => ctx[r].ops >= PerRequest
  BY <1>6 DEF RecordOperation, Writes
<1>8. Writes(r) =>
        /\ DOMAIN operations' = DOMAIN operations
        /\ operationCursor % OpCapacity \in DOMAIN operations
        /\ operations'[operationCursor % OpCapacity] = [owner |-> r, at |-> operationCursor]
        /\ \A s \in DOMAIN operations :
             s # operationCursor % OpCapacity => operations'[s] = operations[s]
        /\ \A c \in Nat : c < operationCursor /\ operationCursor - c < OpCapacity =>
             operations'[c % OpCapacity] = operations[c % OpCapacity]
  BY <1>1, OperationWritten
<1>9. FineTypeOK'
  BY <1>1, OperationTypes
<1>10. InPlace'
  <2> SUFFICES ASSUME NEW c \in Nat, operationCursor' - OpCapacity <= c, c < operationCursor'
               PROVE  operations'[c % OpCapacity].at = c
    BY DEF InPlace
  <2>1. CASE Writes(r) /\ c = operationCursor
    BY <1>8, <2>1
  <2>2. CASE Writes(r) /\ c # operationCursor
    <3>1. c < operationCursor /\ operationCursor - c < OpCapacity
          /\ operationCursor - OpCapacity <= c
      BY <1>6, <1>7, <2>2
    <3> QED BY <1>8, <2>2, <3>1 DEF FineIInv, InPlace
  <2>3. CASE ~Writes(r)
    BY <1>7, <2>3 DEF FineIInv, InPlace
  <2> QED BY <2>1, <2>2, <2>3
<1>11. Counted'
  <2>1. ASSUME NEW q \in Started
        PROVE  /\ ctx'[q].from <= operationCursor'
               /\ ~ctx'[q].fine => ctx'[q].ops = 0
               /\ ctx'[q].open /\ ctx'[q].fine => ctx'[q].ops = ran'[q]
    <3>1. /\ ctx[q].from <= operationCursor
          /\ ~ctx[q].fine => ctx[q].ops = 0
          /\ ctx[q].open /\ ctx[q].fine => ctx[q].ops = ran[q]
      BY DEF FineIInv, Counted
    <3>2. ctx'[q].from <= operationCursor'
      BY <1>2, <1>6, <1>7, <3>1
    <3>3. CASE q = r
      BY <1>2, <1>5, <3>1, <3>2, <3>3
    <3>4. CASE q # r
      BY <1>2, <1>5, <1>6, <3>1, <3>2, <3>4
    <3> QED BY <3>3, <3>4
  <2>2. \A q \in Request \ Started' : ran'[q] = 0
    BY <1>2, <1>5 DEF FineIInv, Counted
  <2> QED BY <1>2, <2>1, <2>2 DEF Counted
<1>12. Shares'
  <2>1. /\ \A slot \in DOMAIN operations : operations[slot].owner \in Started \cup {0}
        /\ \A q \in Started : /\ Cardinality(SlotsOf(q)) <= ctx[q].ops
                              /\ Cardinality(SlotsOf(q)) <= PerRequest
    BY DEF FineIInv, Shares
  <2>2. \A q : Cardinality(SlotsOf(q)) \in Nat /\ Cardinality(SlotsOf(q)') \in Nat
    <3>1. \A q : Cardinality(SlotsOf(q)) \in Nat
      BY <1>1, SlotsFinite
    <3>2. \A q : Cardinality(SlotsOf(q)') \in Nat
      <4>1. DOMAIN operations' = 0 .. OpCapacity - 1
        BY <1>9 DEF FineTypeOK, TypeOK
      <4>2. IsFiniteSet(DOMAIN operations')
        BY <1>6, <4>1, FS_Interval
      <4>3. \A q : SlotsOf(q)' \subseteq DOMAIN operations'
        BY DEF SlotsOf
      <4> QED BY <4>2, <4>3, FS_Subset, FS_CardinalityType
    <3> QED BY <3>1, <3>2
  <2>3. CASE Writes(r)
    <3>1. /\ Cardinality(SlotsOf(r)') <= Cardinality(SlotsOf(r)) + 1
          /\ \A q \in Started : q # r => Cardinality(SlotsOf(q)') <= Cardinality(SlotsOf(q))
      BY <1>1, <2>3, SharesMove
    <3>2. /\ Cardinality(SlotsOf(r)') <= ctx'[r].ops
          /\ Cardinality(SlotsOf(r)') <= PerRequest
      BY <1>2, <1>6, <1>7, <2>1, <2>2, <2>3, <3>1
    <3>3. \A q \in Started : q # r => /\ Cardinality(SlotsOf(q)') <= ctx'[q].ops
                                      /\ Cardinality(SlotsOf(q)') <= PerRequest
      BY <1>2, <1>6, <2>1, <2>2, <3>1
    <3>4. \A slot \in DOMAIN operations' : operations'[slot].owner \in Started' \cup {0}
      BY <1>2, <1>8, <2>1, <2>3
    <3> QED BY <1>2, <3>2, <3>3, <3>4 DEF Shares
  <2>4. CASE ~Writes(r)
    <3>1. \A q : SlotsOf(q)' = SlotsOf(q)
      BY <1>7, <2>4 DEF SlotsOf
    <3>2. \A q \in Started : ctx[q].ops <= ctx'[q].ops /\ ctx'[q].ops \in Nat
      BY <1>2, <1>6
    <3>3. \A q \in Started : /\ Cardinality(SlotsOf(q)') <= ctx'[q].ops
                             /\ Cardinality(SlotsOf(q)') <= PerRequest
      BY <1>6, <2>1, <2>2, <3>1, <3>2
    <3>4. \A slot \in DOMAIN operations' : operations'[slot].owner \in Started' \cup {0}
      BY <1>2, <1>7, <2>1, <2>4
    <3> QED BY <1>2, <3>3, <3>4 DEF Shares
  <2> QED BY <2>3, <2>4
\* A row that lives is of a request that has finished: what the step changes is not its own.
<1>13. ASSUME NEW c \in Nat, LiveAt(c)'
       PROVE  /\ LiveAt(c) /\ RowAt(c)' = RowAt(c)
              /\ RowAt(c).request \in Started /\ ~ctx[RowAt(c).request].open
              /\ OfItsTime(RowAt(c).request)' = OfItsTime(RowAt(c).request)
              /\ ran'[RowAt(c).request] = ran[RowAt(c).request]
              /\ RowAt(c).from + RowAt(c).count <= operationCursor
              /\ RowAt(c).from \in Nat /\ RowAt(c).count \in Nat
  <2>1. LiveAt(c) /\ RowAt(c)' = RowAt(c)
    BY <1>3, <1>13 DEF LiveAt, RowAt
  <2>2. /\ RowAt(c).request \in Started /\ ~ctx[RowAt(c).request].open
        /\ RowAt(c).from \in Nat /\ RowAt(c).count \in Nat
    BY <2>1, LiveRow
  <2>4. OfItsTime(RowAt(c).request)' = OfItsTime(RowAt(c).request)
    BY <1>2, <1>3, <1>20, <2>1, <2>2 DEF OfItsTime
  <2>5. ran'[RowAt(c).request] = ran[RowAt(c).request]
    BY <1>5, <1>6, <2>2
  <2>6. RowAt(c).from + RowAt(c).count <= operationCursor
    BY <2>1 DEF FineIInv, RowsRight, RowIsRight
  <2> QED BY <2>1, <2>2, <2>4, <2>5, <2>6
<1>14. RowsRight'
  <2> SUFFICES ASSUME NEW c \in Nat, LiveAt(c)'
               PROVE  RowIsRight(RowAt(c))'
    BY DEF RowsRight
  <2>1. LiveAt(c) /\ RowAt(c)' = RowAt(c)
    BY <1>13
  <2>2. RowIsRight(RowAt(c))
    BY <2>1 DEF FineIInv, RowsRight
  <2>3. RowAt(c).from + RowAt(c).count <= operationCursor'
    BY <1>6, <1>7, <1>13
  <2> QED BY <1>2, <1>13, <2>1, <2>2, <2>3 DEF RowIsRight
<1>15. LabelsInPlace'
  BY <1>3, <1>13 DEF FineIInv, LabelsInPlace, LabelsAreItsOwn, DependencyOf
<1>16. OpenInItsTime'
  <2> SUFFICES ASSUME NEW q \in Started, ctx'[q].open, ctx'[q].fine
               PROVE  /\ \/ ctx'[q].ops <= operationCursor' - ctx'[q].from
                         \/ PerRequest <= operationCursor' - ctx'[q].from
                      /\ ctx'[q].beside = {} =>
                           /\ operationCursor' - ctx'[q].from <= ctx'[q].ops
                           /\ operationCursor' - ctx'[q].from <= PerRequest
                      /\ \A c \in Nat : ctx'[q].from <= c /\ c < operationCursor' =>
                           operations'[c % OpCapacity].owner \in OfItsTime(q)'
    BY <1>2 DEF OpenInItsTime
  <2>1. ctx[q].open /\ ctx[q].fine /\ ctx'[q].from = ctx[q].from
    BY <1>2
  <2>2. /\ \/ ctx[q].ops <= operationCursor - ctx[q].from
           \/ PerRequest <= operationCursor - ctx[q].from
        /\ ctx[q].beside = {} =>
             /\ operationCursor - ctx[q].from <= ctx[q].ops
             /\ operationCursor - ctx[q].from <= PerRequest
        /\ \A c \in Nat : ctx[q].from <= c /\ c < operationCursor =>
             operations[c % OpCapacity].owner \in OfItsTime(q)
    BY <2>1 DEF FineIInv, OpenInItsTime
  <2>3. OfItsTime(q) \subseteq OfItsTime(q)' /\ (Writes(r) => r \in OfItsTime(q)')
    BY <1>2, <1>20, <2>1 DEF OfItsTime
  <2>4. CASE ~Writes(r)
    <3>1. q = r => ctx[r].ops >= PerRequest /\ ctx'[r].ops = ctx[r].ops + 1
      BY <1>2, <1>7, <2>1, <2>4
    <3>2. ctx'[q].beside = ctx[q].beside
      BY <1>2, <1>20, <2>4
    <3> QED BY <1>2, <1>6, <1>7, <2>1, <2>2, <2>3, <2>4, <3>1, <3>2
  <2>5. CASE Writes(r)
    <3>1. /\ ctx[r].ops < PerRequest /\ ctx'[r].ops = ctx[r].ops + 1
          /\ operationCursor' = operationCursor + 1
      BY <1>2, <1>7, <2>5
    <3>2. q # r => ctx'[q].beside # {} /\ ctx'[q].ops = ctx[q].ops
      BY <1>2, <1>20, <2>1, <2>5
    <3>3. /\ \/ ctx'[q].ops <= operationCursor' - ctx'[q].from
             \/ PerRequest <= operationCursor' - ctx'[q].from
          /\ ctx'[q].beside = {} =>
               /\ operationCursor' - ctx'[q].from <= ctx'[q].ops
               /\ operationCursor' - ctx'[q].from <= PerRequest
      <4>1. /\ \/ ctx[q].ops <= operationCursor - ctx[q].from
               \/ PerRequest <= operationCursor - ctx[q].from
            /\ ctx[q].beside = {} =>
                 /\ operationCursor - ctx[q].from <= ctx[q].ops
                 /\ operationCursor - ctx[q].from <= PerRequest
        BY <2>2
      <4>2. /\ ctx[q].ops \in Nat /\ ctx[q].from \in Nat /\ operationCursor \in Nat
            /\ PerRequest \in Nat
        BY <1>6
      <4>3. CASE q = r
        <5>1. ctx'[q].beside = {} => operationCursor - ctx[q].from <= ctx[q].ops
          BY <1>20, <4>1, <4>3
        <5> QED BY <2>1, <3>1, <4>1, <4>2, <4>3, <5>1
      <4>4. CASE q # r
        BY <2>1, <3>1, <3>2, <4>1, <4>2, <4>4
      <4> QED BY <4>3, <4>4
    <3>4. ASSUME NEW c \in Nat, ctx'[q].from <= c, c < operationCursor'
          PROVE  operations'[c % OpCapacity].owner \in OfItsTime(q)'
      <4>1. CASE c % OpCapacity = operationCursor % OpCapacity
        BY <1>8, <2>3, <2>5, <4>1
      <4>2. CASE c % OpCapacity # operationCursor % OpCapacity
        <5>1. ctx[q].from <= c /\ c < operationCursor
          BY <1>6, <2>1, <3>1, <3>4, <4>2
        <5>2. c % OpCapacity \in DOMAIN operations
          BY <1>1, <1>6, ModRange, RingTypes
        <5>3. operations'[c % OpCapacity] = operations[c % OpCapacity]
          BY <1>8, <2>5, <4>2, <5>2
        <5> QED BY <2>2, <2>3, <5>1, <5>3
      <4> QED BY <4>1, <4>2
    <3> QED BY <3>3, <3>4
  <2> QED BY <2>4, <2>5
<1>17. ClosedInItsTime'
  <2> SUFFICES ASSUME NEW c \in Nat, LiveAt(c)',
                      ~Lost(RowAt(c))', NEW i \in 1 .. RowAt(c).count
               PROVE  OperationOf(RowAt(c), i)'.owner \in OfItsTime(RowAt(c).request)
    BY <1>13 DEF ClosedInItsTime, RowInItsTime, OfItsTime
  <2> DEFINE k == RowAt(c).from + i - 1
  <2>1. LiveAt(c) /\ RowAt(c)' = RowAt(c)
        /\ RowAt(c).from \in Nat /\ RowAt(c).count \in Nat
        /\ RowAt(c).from + RowAt(c).count <= operationCursor
    BY <1>13
  <2>2. RowAt(c).count > 0 /\ operationCursor' - RowAt(c).from <= OpCapacity
    <3>1. RowAt(c).count > 0
      BY <2>1
    <3>2. ~(operationCursor' - RowAt(c).from > OpCapacity)
      BY <2>1, <3>1 DEF Lost
    <3>3. operationCursor' \in Nat
      BY <1>6, <1>7
    <3> QED BY <1>6, <2>1, <3>1, <3>2, <3>3
  <2>3. ~Lost(RowAt(c))
    BY <1>6, <1>7, <2>1, <2>2 DEF Lost
  <2>4. OperationOf(RowAt(c), i).owner \in OfItsTime(RowAt(c).request)
    BY <2>1, <2>3 DEF FineIInv, ClosedInItsTime, RowInItsTime
  <2>5. k \in Nat /\ k < operationCursor /\ (Writes(r) => operationCursor - k < OpCapacity)
    BY <1>6, <1>7, <2>1, <2>2
  <2>6. operations'[k % OpCapacity] = operations[k % OpCapacity]
    <3> HIDE DEF k
    <3> QED BY <1>7, <1>8, <2>5
  <2> QED BY <2>1, <2>4, <2>6 DEF OperationOf
<1>18. SampleInItsTime'
  <2>1. ASSUME NEW i \in DOMAIN sample
        PROVE  /\ sample[i].of \in Started' /\ ~ctx'[sample[i].of].open
               /\ sample[i].read.owner \in OfItsTime(sample[i].of)'
               /\ ctx'[sample[i].of].beside = {} => sample[i].read.at = sample[i].expected
    <3>1. /\ sample[i].of \in Started /\ ~ctx[sample[i].of].open
          /\ sample[i].read.owner \in OfItsTime(sample[i].of)
          /\ ctx[sample[i].of].beside = {} => sample[i].read.at = sample[i].expected
      BY DEF FineIInv, SampleInItsTime
    <3>2. ctx'[sample[i].of].beside = ctx[sample[i].of].beside
      BY <1>2, <1>20, <3>1
    <3> QED BY <1>2, <1>3, <3>1, <3>2 DEF OfItsTime
  <2> QED BY <1>3, <2>1 DEF SampleInItsTime, OfItsTime
<1> QED BY <1>9, <1>10, <1>11, <1>12, <1>14, <1>15, <1>16, <1>17, <1>18 DEF FineIInv

\* What the row of a request reads, when it is written.
LEMMA InItsTimeAtItsEnd ==
  ASSUME FineIInv, NEW r \in Started, ctx[r].open, NEW i \in 1 .. Kept(r)
  PROVE  /\ operations[(ctx[r].from + i - 1) % OpCapacity].owner \in OfItsTime(r)
         /\ ctx[r].beside = {} =>
              operations[(ctx[r].from + i - 1) % OpCapacity].at = ctx[r].from + i - 1
<1> DEFINE k == ctx[r].from + i - 1
<1>1. FineTypeOK /\ Counted
  BY DEF FineIInv
<1>2. /\ Kept(r) \in 0 .. PerRequest /\ Kept(r) <= ctx[r].ops
      /\ ctx[r].from + Kept(r) <= operationCursor
      /\ ctx[r].from \in Nat /\ ctx[r].ops \in Nat /\ operationCursor \in Nat
      /\ OpCapacity \in Nat \ {0} /\ PerRequest \in Nat /\ PerRequest <= OpCapacity
  BY <1>1, KeptIs, ContextTypes, RingTypes, Constants
<1>3. ctx[r].fine
  BY <1>2 DEF FineIInv, Counted
<1>4. /\ ctx[r].beside = {} => operationCursor - ctx[r].from <= PerRequest
      /\ \A c \in Nat : ctx[r].from <= c /\ c < operationCursor =>
           operations[c % OpCapacity].owner \in OfItsTime(r)
  BY <1>3 DEF FineIInv, OpenInItsTime
<1>5. /\ k \in Nat /\ ctx[r].from <= k /\ k < operationCursor
      /\ ctx[r].beside = {} => operationCursor - OpCapacity <= k
  BY <1>2, <1>4
<1> HIDE DEF k
<1>6. /\ operations[k % OpCapacity].owner \in OfItsTime(r)
      /\ ctx[r].beside = {} => operations[k % OpCapacity].at = k
  BY <1>4, <1>5 DEF FineIInv, InPlace
<1> QED BY <1>6 DEF k

\* The rows that live as a row is written: the new one, and the others, whose labels the
\* ring of labels does not come round to.
LEMMA LabelsKeep ==
  ASSUME FineIInv, NEW r \in Started, NEW labels \in DependencyLists,
         RecordFinished(r, labels), WriteRow(r, labels)
  PROVE  LabelsInPlace'
<1>1. FineTypeOK /\ Counted
  BY DEF FineIInv
<1>2. /\ requestCursor' = requestCursor + 1
      /\ requests'[requestCursor % Capacity] = NewRow(r, labels)
      /\ \A c \in Nat : LiveAt(c)' => c = requestCursor \/ (LiveAt(c) /\ RowAt(c)' = RowAt(c))
  BY <1>1, RowWritten
<1>3. /\ dependencyCursor' = dependencyCursor + Deps(labels)
      /\ Deps(labels) \in Nat /\ Deps(labels) <= DepsPerRequest
      /\ dependencyCursor \in Nat /\ requestCursor \in Nat /\ labelsFolded \in Nat
      /\ DepsPerRequest \in Nat /\ Capacity \in Nat
  BY <1>1, WriteRowIs, LabelTypes, RingTypes, Constants
<1>4. /\ labelsFolded' \in Nat /\ labelsFolded' >= labelsFolded
      /\ \A i \in 1 .. Deps(labels) :
           \/ dependencies'[LabelSlot(i)] = labels[i]
           \/ dependencies'[LabelSlot(i)] = Other /\ labelsFolded' > 0
      /\ \A c \in Nat : c < dependencyCursor /\ dependencyCursor + Deps(labels) - c <= DepSlots =>
           dependencies'[c % DepSlots] = dependencies[c % DepSlots]
  BY <1>1, LabelsWritten
<1>5. /\ touched'[r] = labels
      /\ \A q \in Started : q # r => touched'[q] = touched[q]
  BY <1>1, FinishWrites, RingTypes, ContextTypes
<1> SUFFICES ASSUME NEW c \in Nat, LiveAt(c)'
             PROVE  /\ (RowAt(c).depFrom + RowAt(c).depCount <= dependencyCursor)'
                    /\ (dependencyCursor - RowAt(c).depFrom
                          <= (requestCursor - c) * DepsPerRequest)'
                    /\ LabelsAreItsOwn(RowAt(c))'
  BY DEF LabelsInPlace
<1>6. CASE c = requestCursor
  <2>1. RowAt(c)' = NewRow(r, labels)
    BY <1>2, <1>6 DEF RowAt
  <2>2. /\ RowAt(c)'.request = r /\ RowAt(c)'.depFrom = dependencyCursor
        /\ RowAt(c)'.depCount = Deps(labels)
        /\ RowAt(c)'.depTruncated = (Len(labels) > Deps(labels))
    BY <1>1, <2>1, NewRowIs
  <2>3. RowAt(c)'.depFrom + RowAt(c)'.depCount <= dependencyCursor'
    BY <1>3, <2>2
  <2>4. dependencyCursor' - RowAt(c)'.depFrom <= (requestCursor' - c) * DepsPerRequest
    <3>1. requestCursor' - c = 1
      BY <1>2, <1>3, <1>6
    <3>2. dependencyCursor' - RowAt(c)'.depFrom = Deps(labels)
      BY <1>3, <2>2
    <3> QED BY <1>3, <3>1, <3>2
  <2>5. ASSUME NEW i \in 1 .. RowAt(c)'.depCount
        PROVE  \/ DependencyOf(RowAt(c), i)' = touched'[RowAt(c)'.request][i]
               \/ DependencyOf(RowAt(c), i)' = Other /\ labelsFolded' > 0
    <3>1. DependencyOf(RowAt(c), i)' = dependencies'[LabelSlot(i)]
      BY <2>2 DEF DependencyOf, LabelSlot
    <3> QED BY <1>4, <1>5, <2>2, <3>1
  <2>6. RowAt(c)'.depTruncated \/ RowAt(c)'.depCount = Len(touched'[RowAt(c)'.request])
    BY <1>5, <2>2, LabelTypes
  <2> QED BY <2>3, <2>4, <2>5, <2>6 DEF LabelsAreItsOwn
<1>7. CASE c # requestCursor
  <2> DEFINE row == RowAt(c)
  <2>1. /\ LiveAt(c) /\ RowAt(c)' = row /\ row.request \in Started
        /\ row.depFrom \in Nat /\ row.depCount \in Nat /\ row.request # r
    <3>1. LiveAt(c) /\ RowAt(c)' = row
      BY <1>2, <1>7
    <3>2. ctx[r].open
      BY FinishWrites
    <3> QED BY <3>1, <3>2, LiveRow
  <2>2. /\ row.depFrom + row.depCount <= dependencyCursor
        /\ dependencyCursor - row.depFrom <= (requestCursor - c) * DepsPerRequest
        /\ LabelsAreItsOwn(row)
    BY <2>1 DEF FineIInv, LabelsInPlace
  <2>3. row.depFrom + row.depCount <= dependencyCursor'
    BY <1>3, <2>1, <2>2
  <2>4. (requestCursor' - c) * DepsPerRequest
          = (requestCursor - c) * DepsPerRequest + DepsPerRequest
    BY <1>2, <1>3
  <2>5. dependencyCursor' - row.depFrom <= (requestCursor' - c) * DepsPerRequest
    <3>1. (requestCursor - c) * DepsPerRequest \in Int
      BY <1>3
    <3> QED BY <1>3, <2>1, <2>2, <2>4, <3>1
  <2>6. dependencyCursor + Deps(labels) - row.depFrom <= DepSlots
    <3>1. requestCursor' - c \in Int /\ requestCursor' - c <= Capacity
      BY <1>2, <1>3 DEF LiveAt
    <3>2. (requestCursor' - c) * DepsPerRequest <= Capacity * DepsPerRequest
      BY <1>3, <3>1
    <3>3. (requestCursor' - c) * DepsPerRequest \in Int /\ Capacity * DepsPerRequest \in Int
      BY <1>3, <3>1
    <3> QED BY <1>3, <2>1, <2>5, <3>2, <3>3 DEF DepSlots
  <2>7. ASSUME NEW i \in 1 .. row.depCount
        PROVE  \/ DependencyOf(RowAt(c), i)' = touched'[row.request][i]
               \/ DependencyOf(RowAt(c), i)' = Other /\ labelsFolded' > 0
    <3> DEFINE k == row.depFrom + i - 1
    <3>1. k \in Nat /\ k < dependencyCursor /\ dependencyCursor + Deps(labels) - k <= DepSlots
      BY <1>3, <2>1, <2>2, <2>6, Constants
    <3>2. dependencies'[k % DepSlots] = dependencies[k % DepSlots]
      <4> HIDE DEF k
      <4> QED BY <1>4, <3>1
    <3>3. DependencyOf(RowAt(c), i)' = DependencyOf(row, i)
      BY <2>1, <3>2 DEF DependencyOf
    <3>4. \/ DependencyOf(row, i) = touched[row.request][i]
          \/ DependencyOf(row, i) = Other /\ labelsFolded > 0
      BY <2>2 DEF LabelsAreItsOwn
    <3>5. touched'[row.request] = touched[row.request]
      BY <1>5, <2>1
    <3> QED BY <1>3, <1>4, <3>3, <3>4, <3>5
  <2>8. row.depTruncated \/ row.depCount = Len(touched'[row.request])
    BY <1>5, <2>1, <2>2 DEF LabelsAreItsOwn
  <2> QED BY <2>1, <2>3, <2>5, <2>7, <2>8 DEF LabelsAreItsOwn
<1> QED BY <1>6, <1>7

\* A finish keeps the invariant: its row holds what it ran, as far as its slots reach.
LEMMA FinishKeeps ==
  ASSUME FineIInv, NEW r \in Started, NEW labels \in DependencyLists, RecordFinished(r, labels)
  PROVE  FineIInv'
<1>1. FineTypeOK /\ Counted
  BY DEF FineIInv
<1>2. /\ Started' = Started
      /\ \A q \in Started : q # r => ctx'[q] = ctx[q]
      /\ \A q \in Started :
           /\ ctx'[q].fine = ctx[q].fine /\ ctx'[q].beside = ctx[q].beside
           /\ ctx'[q].from = ctx[q].from /\ ctx'[q].ops = ctx[q].ops
      /\ ~ctx'[r].open
  BY <1>1, FinishStep
<1>3. /\ UNCHANGED <<operations, operationCursor, keeping, ran>>
      /\ touched' = [touched EXCEPT ![r] = labels]
      /\ ctx[r].open
  BY FinishWrites
<1>4. \A q \in Started : ctx'[q].open => q # r /\ ctx[q].open
  BY <1>2
<1>5. FineTypeOK'
  BY <1>1, FinishTypes
<1>6. InPlace'
  BY <1>3 DEF FineIInv, InPlace
<1>7. Counted'
  BY <1>2, <1>3, <1>4 DEF FineIInv, Counted
<1>8. Shares'
  <2>1. \A q : SlotsOf(q)' = SlotsOf(q)
    BY <1>3 DEF SlotsOf
  <2> QED BY <1>2, <1>3, <2>1 DEF FineIInv, Shares
<1>9. OpenInItsTime'
  BY <1>2, <1>3, <1>4 DEF FineIInv, OpenInItsTime, OfItsTime
\* What lived before the step is as it was.
<1>10. ASSUME NEW c \in Nat, LiveAt(c), RowAt(c)' = RowAt(c)
       PROVE  RowIsRight(RowAt(c))' /\ RowInItsTime(RowAt(c))'
  <2>1. RowAt(c).request \in Started /\ ~ctx[RowAt(c).request].open
    BY <1>10, LiveRow
  <2>2. ctx'[RowAt(c).request] = ctx[RowAt(c).request]
    BY <1>2, <1>3, <2>1
  <2>3. RowIsRight(RowAt(c)) /\ RowInItsTime(RowAt(c))
    BY <1>10 DEF FineIInv, RowsRight, ClosedInItsTime
  <2>4. RowIsRight(RowAt(c))'
    BY <1>2, <1>3, <1>10, <2>2, <2>3 DEF RowIsRight
  <2>5. RowInItsTime(RowAt(c))'
    BY <1>3, <1>10, <2>2, <2>3 DEF RowInItsTime, OfItsTime, Lost, OperationOf
  <2> QED BY <2>4, <2>5
<1>11. CASE WriteRow(r, labels) /\ (sample' = LastOperations(LastRow') \/ sample' = sample)
  <2> DEFINE row == NewRow(r, labels)
  <2>1. /\ requests'[requestCursor % Capacity] = row /\ LastRow' = row
        /\ \A c \in Nat : LiveAt(c)' =>
             c = requestCursor \/ (LiveAt(c) /\ RowAt(c)' = RowAt(c))
    BY <1>1, <1>11, RowWritten
  <2>2. /\ row.request = r /\ row.from = ctx[r].from /\ row.count = Kept(r)
        /\ row.truncated = (ctx[r].ops > Kept(r))
    BY <1>1, NewRowIs
  <2>3. /\ Kept(r) \in 0 .. PerRequest /\ Kept(r) <= ctx[r].ops
        /\ ctx[r].from + Kept(r) <= operationCursor /\ ctx[r].ops \in Nat
    BY <1>1, KeptIs, ContextTypes
  <2> HIDE DEF row
  <2>4. ASSUME NEW c \in Nat, LiveAt(c)', c = requestCursor
        PROVE  RowIsRight(RowAt(c))' /\ RowInItsTime(RowAt(c))'
    <3>1. RowAt(c)' = row
      BY <2>1, <2>4 DEF RowAt
    <3>2. ctx'[r].fine /\ ~row.truncated => row.count = ran'[r]
      <4>1. ctx[r].fine => ctx[r].ops = ran[r]
        BY <1>3 DEF FineIInv, Counted
      <4>2. ~row.truncated => Kept(r) = ctx[r].ops
        <5>1. ~row.truncated => ~(ctx[r].ops > Kept(r))
          BY <2>2, Zenon
        <5> QED BY <2>3, <5>1, Constants
      <4> QED BY <1>2, <1>3, <2>2, <4>1, <4>2
    <3>3. RowIsRight(RowAt(c))'
      BY <1>2, <1>3, <2>2, <2>3, <3>1, <3>2 DEF RowIsRight
    <3>4. \A i \in 1 .. row.count :
            operations[(row.from + i - 1) % OpCapacity].owner \in OfItsTime(r)
      BY <1>3, <2>2, InItsTimeAtItsEnd
    <3>5. RowInItsTime(RowAt(c))'
      BY <1>2, <1>3, <2>2, <3>1, <3>4 DEF RowInItsTime, OperationOf, OfItsTime
    <3> QED BY <3>3, <3>5
  <2>5. RowsRight' /\ ClosedInItsTime'
    BY <1>10, <2>1, <2>4 DEF RowsRight, ClosedInItsTime
  <2>6. LabelsInPlace'
    BY <1>11, LabelsKeep
  <2>7. SampleInItsTime'
    <3>1. CASE sample' = sample
      BY <1>2, <1>4, <3>1 DEF FineIInv, SampleInItsTime, OfItsTime
    <3>2. CASE sample' = LastOperations(LastRow')
      <4>1. sample' = [i \in 1 .. row.count |->
               [read |-> operations[(row.from + i - 1) % OpCapacity],
                expected |-> row.from + i - 1, of |-> r]]
        BY <2>1, <2>2, <3>2 DEF LastOperations, OperationOf
      <4>2. ASSUME NEW i \in DOMAIN sample'
            PROVE  /\ sample'[i].of = r
                   /\ sample'[i].read.owner \in OfItsTime(r)
                   /\ ctx[r].beside = {} => sample'[i].read.at = sample'[i].expected
        <5>1. i \in 1 .. Kept(r)
          BY <2>2, <4>1
        <5>2. /\ sample'[i].of = r
              /\ sample'[i].read = operations[(ctx[r].from + i - 1) % OpCapacity]
              /\ sample'[i].expected = ctx[r].from + i - 1
          BY <2>2, <4>1
        <5> QED BY <1>3, <5>1, <5>2, InItsTimeAtItsEnd
      <4> QED BY <1>2, <4>2 DEF SampleInItsTime, OfItsTime
    <3> QED BY <1>11, <3>1, <3>2
  <2> QED BY <1>5, <1>6, <1>7, <1>8, <1>9, <2>5, <2>6, <2>7 DEF FineIInv
<1>12. CASE UNCHANGED <<requests, requestCursor, dependencies, dependencyCursor, known,
                        labelsFolded, sample>>
  <2>1. \A c \in Nat : LiveAt(c)' => LiveAt(c) /\ RowAt(c)' = RowAt(c)
    BY <1>12 DEF LiveAt, RowAt
  <2>2. RowsRight' /\ ClosedInItsTime'
    BY <1>10, <2>1 DEF RowsRight, ClosedInItsTime
  <2>3. LabelsInPlace'
    <3>1. \A q \in Started : q # r => touched'[q] = touched[q]
      BY <1>1, <1>3, RingTypes, ContextTypes
    <3>2. ASSUME NEW c \in Nat, LiveAt(c)'
          PROVE  /\ (RowAt(c).depFrom + RowAt(c).depCount <= dependencyCursor)'
                 /\ (dependencyCursor - RowAt(c).depFrom
                       <= (requestCursor - c) * DepsPerRequest)'
                 /\ LabelsAreItsOwn(RowAt(c))'
      <4>1. LiveAt(c) /\ RowAt(c)' = RowAt(c)
        BY <2>1, <3>2
      <4>2. touched'[RowAt(c).request] = touched[RowAt(c).request]
        BY <1>3, <3>1, <4>1, LiveRow
      <4>3. /\ RowAt(c).depFrom + RowAt(c).depCount <= dependencyCursor
            /\ dependencyCursor - RowAt(c).depFrom <= (requestCursor - c) * DepsPerRequest
            /\ LabelsAreItsOwn(RowAt(c))
        BY <4>1 DEF FineIInv, LabelsInPlace
      <4> QED BY <1>12, <4>1, <4>2, <4>3 DEF LabelsAreItsOwn, DependencyOf
    <3> QED BY <3>2 DEF LabelsInPlace
  <2>4. SampleInItsTime'
    BY <1>2, <1>4, <1>12 DEF FineIInv, SampleInItsTime, OfItsTime
  <2> QED BY <1>5, <1>6, <1>7, <1>8, <1>9, <2>2, <2>3, <2>4 DEF FineIInv
<1> QED BY <1>11, <1>12, FinishWrites

\* The invariant holds at first.
LEMMA FineInitially ==
  ASSUME Init
  PROVE  FineIInv
<1>1. ctx = <<>> /\ Started = {} /\ Open = {} /\ ctx \in Seq(Context)
  BY DEF Init, Started, Open
<1>2. /\ requests = [slot \in 0 .. Capacity - 1 |-> BlankRow]
      /\ operations = [slot \in 0 .. OpCapacity - 1 |-> Blank]
      /\ dependencies = [slot \in 0 .. DepSlots - 1 |-> Other]
      /\ requestCursor = 0 /\ operationCursor = 0 /\ dependencyCursor = 0
      /\ known = {} /\ labelsFolded = 0 /\ keeping = TRUE /\ sample = <<>>
      /\ ran = [r \in Request |-> 0] /\ touched = [r \in Request |-> <<>>]
  BY DEF Init
<1>3. Cardinality(Started) = 0 /\ Cardinality(Open) = 0 /\ Cardinality(known) = 0
  BY <1>1, <1>2, FS_EmptySet
<1>4. BlankRow \in RowType
  BY Constants DEF BlankRow, RowType
<1>5. Blank \in [owner : 0 .. MaxRequests, at : Nat \cup {-1}] /\ Blank.owner = 0
  BY Constants DEF Blank
<1>6. <<>> \in DependencyLists
  <2>1. Cardinality(Dep) \in Nat
    BY Constants, FS_CardinalityType
  <2>2. <<>> \in [1 .. 0 -> Dep] /\ 0 \in 0 .. Cardinality(Dep)
    BY <2>1
  <2>3. <<>> \in UNION {[1 .. n -> Dep] : n \in 0 .. Cardinality(Dep)}
    BY <2>2
  <2> QED BY <2>3 DEF DependencyLists
<1>7. TypeOK
  <2>1. Started = 1 .. Cardinality(Started) /\ Started \subseteq Request
    BY <1>1, <1>3
  <2>2. DOMAIN sample = {}
    BY <1>2
  <2>3. requests \in [0 .. Capacity - 1 -> RowType]
    BY <1>2, <1>4
  <2>4. operations \in [0 .. OpCapacity - 1 -> [owner : 0 .. MaxRequests, at : Nat \cup {-1}]]
    BY <1>2, <1>5
  <2>5. /\ dependencies \in [0 .. DepSlots - 1 -> Dep \cup {Other}]
        /\ ran \in [Request -> 0 .. MaxOps] /\ touched \in [Request -> DependencyLists]
    BY <1>2, <1>6, Constants
  <2>6. Cardinality(Open) <= MaxOpen /\ Cardinality(known) <= DepLabels
    BY <1>3, Constants
  <2>7. /\ {requestCursor, operationCursor, dependencyCursor, labelsFolded} \subseteq Nat
        /\ known \subseteq Dep /\ keeping \in BOOLEAN
    BY <1>2
  <2>8. \A r \in Started : ctx[r] \in [fine : BOOLEAN, from : Nat, ops : Nat, open : BOOLEAN,
                                    beside : SUBSET Request]
    BY <1>1
  <2> QED BY <2>1, <2>2, <2>3, <2>4, <2>5, <2>6, <2>7, <2>8 DEF TypeOK, RowType
<1>8. InPlace /\ Counted /\ OpenInItsTime /\ SampleInItsTime
  BY <1>1, <1>2, Constants DEF InPlace, Counted, OpenInItsTime, SampleInItsTime
<1>9. Shares
  BY <1>1, <1>2, <1>5 DEF Shares
<1>10. \A c \in Nat : ~LiveAt(c)
  BY <1>2 DEF LiveAt
<1> QED BY <1>1, <1>7, <1>8, <1>9, <1>10
    DEF FineIInv, FineTypeOK, RowsRight, LabelsInPlace, ClosedInItsTime

\* What the meter gives up, or takes back, keeps the invariant.
LEMMA ShedKeeps ==
  ASSUME FineIInv, UNCHANGED <<ctx, ringVars, writeVars, sample, ran, touched>>,
         keeping' \in BOOLEAN
  PROVE  FineIInv'
<1>1. Started' = Started /\ Open' = Open /\ FineTypeOK
  BY DEF Started, Open, FineIInv
<1>2. \A q : SlotsOf(q)' = SlotsOf(q)
  BY DEF SlotsOf
<1>3. \A c \in Nat : LiveAt(c)' = LiveAt(c) /\ RowAt(c)' = RowAt(c)
  BY DEF LiveAt, RowAt
<1>4. FineTypeOK'
  BY <1>1 DEF FineTypeOK, TypeOK
<1>5. InPlace' /\ Counted' /\ Shares' /\ OpenInItsTime' /\ SampleInItsTime'
  BY <1>1, <1>2 DEF FineIInv, InPlace, Counted, Shares, OpenInItsTime, SampleInItsTime,
                      OfItsTime
<1>6. RowsRight'
  BY <1>1, <1>3 DEF FineIInv, RowsRight, RowIsRight
<1>7. LabelsInPlace'
  BY <1>1, <1>3 DEF FineIInv, LabelsInPlace, LabelsAreItsOwn, DependencyOf
<1>8. ClosedInItsTime'
  BY <1>1, <1>3 DEF FineIInv, ClosedInItsTime, RowInItsTime, OfItsTime, Lost, OperationOf
<1> QED BY <1>4, <1>5, <1>6, <1>7, <1>8 DEF FineIInv

\* Every step keeps the invariant.
LEMMA FineStep ==
  ASSUME FineIInv, [Next]_vars
  PROVE  FineIInv'
<1>1. CASE RequestStarted
  BY <1>1, StartKeeps
<1>2. CASE \E r \in Started : RecordOperation(r)
  BY <1>2, OperationKeeps
<1>3. CASE \E r \in Started, labels \in DependencyLists : RecordFinished(r, labels)
  BY <1>3, FinishKeeps
<1>4. CASE ShedOrRecover
  <2>1. keeping' = ~keeping /\ UNCHANGED <<ctx, ringVars, writeVars, sample, ran, touched>>
    BY <1>4 DEF ShedOrRecover
  <2>2. keeping' \in BOOLEAN
    BY <2>1
  <2> QED BY <2>1, <2>2, ShedKeeps
<1>5. CASE UNCHANGED vars
  <2>1. keeping \in BOOLEAN
    BY RingTypes DEF FineIInv
  <2> QED BY <1>5, <2>1, ShedKeeps DEF vars
<1> QED BY <1>1, <1>2, <1>3, <1>4, <1>5 DEF Next

\* The rings' cursors tell every slot's last writer, and a row says what its request ran as
\* long as no cursor went a ring past it (register.ts).
THEOREM FineInvariant == Spec => []FineIInv
BY FineInitially, FineStep, PTL DEF Spec

-----------------------------------------------------------------------------
\* What the invariant says.

\* A live row is the row of a number the cursor has not passed by a ring.
LEMMA LiveRowsAre ==
  ASSUME FineTypeOK, NEW row \in LiveRows
  PROVE  \E c \in Nat : LiveAt(c) /\ row = RowAt(c)
<1>1. requestCursor \in Nat /\ Capacity \in Nat \ {0}
  BY RingTypes, Constants
<1>2. MinOf({requestCursor, Capacity}) =
        IF requestCursor <= Capacity THEN requestCursor ELSE Capacity
  BY <1>1, MinOfTwo
<1>3. PICK c \in LiveCursors : row = requests[c % Capacity]
  BY DEF LiveRows
<1>4. /\ c \in (requestCursor - MinOf({requestCursor, Capacity})) .. (requestCursor - 1)
  BY <1>3 DEF LiveCursors
<1>5. c \in Nat /\ requestCursor - Capacity <= c /\ c < requestCursor
  BY <1>1, <1>2, <1>4
<1> QED BY <1>3, <1>5 DEF LiveAt, RowAt

\* What was overwritten is never read as another's.
LEMMA OverwrittenIsLost ==
  ASSUME FineIInv
  PROVE  NothingOverwrittenIsRead
<1> SUFFICES ASSUME NEW row \in LiveRows, ~Lost(row), NEW i \in 1 .. row.count
             PROVE  OperationOf(row, i).at = row.from + i - 1
  BY DEF NothingOverwrittenIsRead
<1> DEFINE k == row.from + i - 1
<1>1. FineTypeOK
  BY DEF FineIInv
<1>2. PICK c \in Nat : LiveAt(c) /\ row = RowAt(c)
  BY <1>1, LiveRowsAre
<1>3. /\ row.from \in Nat /\ row.count \in Nat /\ row.from + row.count <= operationCursor
      /\ operationCursor \in Nat /\ OpCapacity \in Nat
  BY <1>1, <1>2, LiveRow, RingTypes, Constants DEF FineIInv, RowsRight, RowIsRight
<1>4. operationCursor - row.from <= OpCapacity
  BY <1>3 DEF Lost
<1>5. k \in Nat /\ operationCursor - OpCapacity <= k /\ k < operationCursor
  BY <1>3, <1>4
<1> HIDE DEF k
<1>6. operations[k % OpCapacity].at = k
  BY <1>5 DEF FineIInv, InPlace
<1> QED BY <1>6 DEF k, OperationOf

\* A row says what it cut, and whose it is.
LEMMA RowsSayWhatTheyCut ==
  ASSUME FineIInv
  PROVE  NeverPassesForSmall /\ DependenciesAreItsOwn /\ RowsOfTheirTime
<1> SUFFICES ASSUME NEW row \in LiveRows
             PROVE  /\ ctx[row.request].fine /\ ~row.truncated => row.count = ran[row.request]
                    /\ LabelsAreItsOwn(row) /\ RowInItsTime(row)
  BY DEF NeverPassesForSmall, DependenciesAreItsOwn, RowsOfTheirTime, LabelsAreItsOwn,
         RowInItsTime
<1>1. PICK c \in Nat : LiveAt(c) /\ row = RowAt(c)
  BY LiveRowsAre DEF FineIInv
<1> QED BY <1>1 DEF FineIInv, RowsRight, RowIsRight, LabelsInPlace, ClosedInItsTime

\* No request takes more slots than its share.
LEMMA NobodyTakesMore ==
  ASSUME FineIInv
  PROVE  \A r \in Request : Cardinality(SlotsOf(r)) <= PerRequest
<1>1. ASSUME NEW r \in Request, r \notin Started
      PROVE  Cardinality(SlotsOf(r)) <= PerRequest
  <2>1. r # 0
    BY Constants DEF Request
  <2>2. SlotsOf(r) = {}
    BY <1>1, <2>1 DEF FineIInv, Shares, SlotsOf
  <2> QED BY <2>2, FS_EmptySet, Constants
<1> QED BY <1>1 DEF FineIInv, Shares

\* The sample of a request is of its time.
LEMMA SamplesInTheirTime ==
  ASSUME FineIInv
  PROVE  SamplesOfTheirTime
BY DEF FineIInv, SampleInItsTime, SamplesOfTheirTime

\* A row that is not said to be lost reads every operation of its range as it was written,
\* whatever the ring's size and however many requests wrote since (fine.ts 389-394).
THEOREM OverwrittenIsSaid == Spec => []NothingOverwrittenIsRead
BY FineInvariant, OverwrittenIsLost, PTL

\* A request looked at from its start that ran more than its row keeps is cut, and its row
\* says so (fine.ts 282-286).
THEOREM CutIsSaid == Spec => []NeverPassesForSmall
BY FineInvariant, RowsSayWhatTheyCut, PTL

\* Of the ring, a request has at most its share, and of the labels' ring a row reads its own
\* (fine.ts 198-201, ADR 0068).
THEOREM RunawayIsAlone == Spec => []RunawayCostsItself
<1>1. FineIInv => RunawayCostsItself
  BY RowsSayWhatTheyCut, NobodyTakesMore DEF RunawayCostsItself, SlotsOf
<1> QED BY <1>1, FineInvariant, PTL

\* However the requests overlap and the rings wrap, a live row, and the sample copied of it,
\* read what was written while its request was open, by it or by one that wrote beside it
\* (fine.ts 282-286, 338-344).
THEOREM ReadInItsTime == Spec => [](RowsOfTheirTime /\ SamplesOfTheirTime)
BY FineInvariant, RowsSayWhatTheyCut, SamplesInTheirTime, PTL

(***************************************************************************)
(* The reserve of the armed routes                                         *)
(***************************************************************************)

USE DEF reserveVars

-----------------------------------------------------------------------------
\* The inductive invariant.

ArmType  == [route : Route \cup {"none"}, armedAt : Int, until : Int, written : Nat,
             seen : Seq(Request)]
KeptType == [request : 0 .. MaxRequests, route : Route \cup {"none"}, from : Nat,
             count : 0 .. PoolCapacity]
PoolType == [owner : 0 .. MaxRequests, at : Nat \cup {-1}]

BoxTypes ==
  /\ now \in Time
  /\ served \in Seq([route : Route, startedAt : Time]) /\ Len(served) = Len(ctx)
  /\ arms \in [ArmSlots -> ArmType]
  /\ \A s \in ArmSlots : /\ arms[s].armedAt <= arms[s].until
                         /\ arms[s].written = Len(arms[s].seen)
                         /\ liveUntil >= arms[s].until
  /\ reserve \in [ReserveSlots -> KeptType]
  /\ pool \in [0 .. PoolCapacity - 1 -> PoolType]
  /\ \A p \in 0 .. PoolCapacity - 1 : pool[p].at < poolCursor
  /\ poolCursor \in Nat /\ liveUntil \in Int

\* Nothing was armed, and no request started, later than now.
Past ==
  /\ \A s \in ArmSlots : arms[s].armedAt <= now
  /\ \A r \in Started : served[r].startedAt <= now

\* An arm that lives is the first of its route's.
LiveIsFirst ==
  \A s, t \in ArmSlots : arms[s].until > now /\ arms[t].route = arms[s].route => s <= t

\* What an arm was given has finished, and is of its route.
SeenAreItsOwn ==
  \A s \in ArmSlots : \A n \in 1 .. Len(arms[s].seen) :
    /\ arms[s].seen[n] \in Started /\ ~ctx[arms[s].seen[n]].open
    /\ served[arms[s].seen[n]].route = arms[s].route

\* The n-th row given to slot s is one of its last.
IsLast(s, n)   == n < arms[s].written /\ arms[s].written - RowsPerArm <= n
GivenRow(s, n) == reserve[RowIndex(s, n)]

GivenInPlace ==
  \A s \in ArmSlots, n \in Nat : IsLast(s, n) =>
    /\ GivenRow(s, n).request = arms[s].seen[n + 1]
    /\ GivenRow(s, n).route = arms[s].route
    /\ GivenRow(s, n).from + GivenRow(s, n).count <= poolCursor

\* An arm that lives was given whatever started since it was begun, and lives in the ring.
SeenCoverTheRing ==
  \A c \in Nat : LiveAt(c) =>
    \A s \in ArmSlots :
      /\ arms[s].until > now
      /\ arms[s].route = served[RowAt(c).request].route
      /\ arms[s].armedAt <= served[RowAt(c).request].startedAt
      => \E n \in 1 .. Len(arms[s].seen) : arms[s].seen[n] = RowAt(c).request

\* The pool is one ring that every arm writes: the slot of a cursor it has not come round to
\* still has what was written there, and no slot has what it has come round to.
PoolInPlace ==
  /\ \A k \in Nat : poolCursor - PoolCapacity <= k /\ k < poolCursor =>
       pool[k % PoolCapacity].at = k
  /\ \A p \in 0 .. PoolCapacity - 1 : pool[p].at # -1 =>
       pool[p].at % PoolCapacity = p /\ poolCursor - PoolCapacity <= pool[p].at

\* What the pool still has of a row, up to the cap per request, is of its request's time.
KeptOfItsTime(row) ==
  \A i \in 1 .. row.count : i <= PerRequest /\ StillKept(row, i) =>
    PoolOf(row, i).owner \in OfItsTime(row.request)

KeptInItsTime == \A s \in ArmSlots, n \in Nat : IsLast(s, n) => KeptOfItsTime(GivenRow(s, n))

BoxIInv ==
  /\ FineIInv /\ BoxTypes /\ Past /\ LiveIsFirst /\ SeenAreItsOwn /\ GivenInPlace
  /\ SeenCoverTheRing /\ PoolInPlace /\ KeptInItsTime

-----------------------------------------------------------------------------
\* The operators of the reserve.

\* What the assumptions say of the reserve's sizes.
LEMMA ReserveConstants ==
  /\ Arms \in Nat \ {0} /\ RowsPerArm \in Nat \ {0} /\ PoolCapacity \in Nat \ {0}
  /\ ArmFor \in Nat \ {0} /\ MaxTime \in Nat
  /\ ArmSlots = 0 .. Arms - 1 /\ ArmSlots \subseteq Nat
BY ReserveAssumption DEF ReserveAssumption, ArmSlots

\* The rows of the slots do not overlap, and each slot's are a ring.
LEMMA RowIndexIs ==
  ASSUME NEW s \in ArmSlots, NEW n \in Nat
  PROVE  RowIndex(s, n) \in ReserveSlots
<1>1. s \in Nat /\ s + 1 <= Arms /\ RowsPerArm \in Nat \ {0} /\ Arms \in Nat
  BY ReserveConstants
<1>2. n % RowsPerArm \in 0 .. RowsPerArm - 1
  BY <1>1, ModRange
<1>3. (s + 1) * RowsPerArm <= Arms * RowsPerArm
  BY <1>1
<1>4. (s + 1) * RowsPerArm = s * RowsPerArm + RowsPerArm
  BY <1>1
<1>5. s * RowsPerArm \in Nat /\ Arms * RowsPerArm \in Nat
  BY <1>1
<1> QED BY <1>1, <1>2, <1>3, <1>4, <1>5 DEF RowIndex, ReserveSlots

\* Two rows of the reserve share a place only if they are of one arm, a round apart.
LEMMA RowIndexApart ==
  ASSUME NEW s \in ArmSlots, NEW n \in Nat, NEW t \in ArmSlots, NEW k \in Nat,
         RowIndex(s, n) = RowIndex(t, k)
  PROVE  s = t /\ n % RowsPerArm = k % RowsPerArm
<1> DEFINE a == n % RowsPerArm
           b == k % RowsPerArm
<1>1. s \in Nat /\ t \in Nat /\ RowsPerArm \in Nat \ {0}
  BY ReserveConstants
<1>2. a \in 0 .. RowsPerArm - 1 /\ b \in 0 .. RowsPerArm - 1
  BY <1>1, ModRange
<1>3. s * RowsPerArm + a = t * RowsPerArm + b
  BY DEF RowIndex
<1> HIDE DEF a, b
<1>4. RowsPerArm * (s - t) = b - a
  <2>1. RowsPerArm * (s - t) = s * RowsPerArm - t * RowsPerArm
    BY <1>1
  <2>2. s * RowsPerArm \in Int /\ t * RowsPerArm \in Int
    BY <1>1
  <2> QED BY <1>2, <1>3, <2>1, <2>2
<1>5. s - t = 0
  <2>1. s - t \in Int /\ -RowsPerArm < RowsPerArm * (s - t) /\ RowsPerArm * (s - t) < RowsPerArm
    BY <1>1, <1>2, <1>4
  <2> HIDE DEF RowIndex
  <2> QED BY <1>1, <2>1, NoSmallMultiple
<1>6. s = t
  BY <1>1, <1>5
<1>7. a = b
  BY <1>1, <1>2, <1>3, <1>6
<1> QED BY <1>6, <1>7 DEF a, b

\* The least of a set is in it.
LEMMA MinIsLeast ==
  ASSUME NEW S \in SUBSET Nat, S # {}
  PROVE  MinOf(S) \in S /\ \A n \in S : MinOf(S) <= n
<1>1. PICK m \in S : \A n \in S : m <= n
  BY LeastOf
<1>2. \A n \in S : n \in Int /\ m <= n
  BY <1>1
<1>3. MinOf(S) = m
  BY <1>2, MinOfIs, Zenon
<1> QED BY <1>1, <1>3

\* What is known of the arms and the requests.
LEMMA BoxFacts ==
  ASSUME BoxIInv
  PROVE  /\ FineTypeOK /\ BoxTypes /\ Len(served) = Len(ctx) /\ Started = 1 .. Len(ctx)
         /\ now \in Nat /\ liveUntil \in Int /\ poolCursor \in Nat
         /\ \A r \in Started :
              /\ served[r].route \in Route /\ served[r].startedAt \in Nat
              /\ served[r].startedAt <= now
         /\ \A s \in ArmSlots :
              /\ arms[s] \in ArmType /\ arms[s].route \in Route \cup {"none"}
              /\ arms[s].armedAt \in Int /\ arms[s].until \in Int /\ arms[s].armedAt <= now
              /\ arms[s].armedAt <= arms[s].until /\ arms[s].until <= liveUntil
              /\ arms[s].seen \in Seq(Request)
              /\ arms[s].written = Len(arms[s].seen) /\ arms[s].written \in Nat
<1>1. FineTypeOK /\ BoxTypes /\ Past
  BY DEF BoxIInv, FineIInv
<1>2. Started = 1 .. Len(ctx) /\ Len(served) = Len(ctx) /\ Len(ctx) \in Nat
  BY <1>1, ContextTypes DEF BoxTypes
<1>3. now \in Nat /\ \A x \in Time : x \in Nat
  BY <1>1, ReserveConstants DEF BoxTypes, Time
<1>4. \A r \in Started : served[r] \in [route : Route, startedAt : Time]
  <2> DEFINE T == [route : Route, startedAt : Time]
  <2>1. served \in Seq(T) /\ Started = 1 .. Len(served)
    BY <1>1, <1>2 DEF BoxTypes
  <2> HIDE DEF T
  <2>2. \A r \in Started : served[r] \in T
    BY <2>1
  <2> QED BY <2>2 DEF T
<1>5. \A r \in Started : served[r].route \in Route /\ served[r].startedAt \in Nat
  BY <1>3, <1>4
<1>6. \A s \in ArmSlots : arms[s] \in ArmType
  BY <1>1 DEF BoxTypes
<1>7. \A x \in ArmType :
        /\ x.route \in Route \cup {"none"} /\ x.armedAt \in Int /\ x.until \in Int
        /\ x.seen \in Seq(Request) /\ x.written \in Nat
  BY DEF ArmType
<1> QED BY <1>1, <1>2, <1>3, <1>5, <1>6, <1>7 DEF BoxTypes, Past

\* The live slots of a route are slots.
LEMMA LiveSlotsAre ==
  ASSUME NEW route, NEW at \in Int
  PROVE  LiveSlots(route, at) \subseteq ArmSlots /\ LiveSlots(route, at) \in SUBSET Nat
BY ReserveConstants DEF LiveSlots

\* A request that finishes while an arm of its route lives is given to that arm.
LEMMA GivenToTheLive ==
  ASSUME BoxIInv, NEW r \in Started, NEW s \in ArmSlots,
         arms[s].until > now, arms[s].route = served[r].route
  PROVE  /\ s \in LiveSlots(served[r].route, served[r].startedAt)
         /\ MinOf(LiveSlots(served[r].route, served[r].startedAt)) = s
         /\ served[r].startedAt < liveUntil
<1> DEFINE live == LiveSlots(served[r].route, served[r].startedAt)
<1>1. /\ served[r].startedAt \in Nat /\ served[r].startedAt <= now /\ now \in Nat
      /\ arms[s].until \in Int /\ arms[s].until <= liveUntil /\ liveUntil \in Int
  BY BoxFacts
<1>2. s \in live /\ served[r].startedAt < liveUntil
  BY <1>1 DEF LiveSlots
<1>3. live \in SUBSET Nat /\ \A t \in live : t \in ArmSlots /\ arms[t].route = arms[s].route
  BY ReserveConstants DEF LiveSlots
<1> HIDE DEF live
<1>4. MinOf(live) \in live /\ MinOf(live) <= s
  BY <1>2, <1>3, MinIsLeast
<1>5. s <= MinOf(live)
  BY <1>3, <1>4 DEF BoxIInv, LiveIsFirst
<1>6. MinOf(live) = s
  <2>1. PICK m : m = MinOf(live)
    OBVIOUS
  <2>2. m \in Nat /\ s \in Nat /\ m <= s /\ s <= m
    BY <1>3, <1>4, <1>5, <2>1, ReserveConstants
  <2> QED BY <2>1, <2>2
<1> QED BY <1>2, <1>6 DEF live

-----------------------------------------------------------------------------
\* What the reserve is given.

Count(r) == MinOf({Len(HandedOver(r)), PoolCapacity})

KeptRow(r) == [request |-> r, route |-> served[r].route, from |-> poolCursor, count |-> Count(r)]

\* What is copied of a request, operation by operation.
LEMMA HandedOverIs ==
  ASSUME FineTypeOK, NEW r \in Started
  PROVE  /\ Count(r) \in Nat /\ Count(r) <= PoolCapacity /\ Count(r) <= ctx[r].ops
         /\ \A i \in 1 .. Count(r) :
              /\ HandedOver(r)[i] = operations[(ctx[r].from + i - 1) % OpCapacity]
              /\ HandedOver(r)[i].owner \in 0 .. MaxRequests
<1>1. /\ ctx[r].ops \in Nat /\ ctx[r].from \in Nat /\ OpCapacity \in Nat \ {0}
      /\ PoolCapacity \in Nat
      /\ operations \in [0 .. OpCapacity - 1 -> [owner : 0 .. MaxRequests, at : Nat \cup {-1}]]
  BY ContextTypes, RingTypes, Constants, ReserveConstants
<1>2. \/ HandedOver(r) = <<>>
      \/ HandedOver(r) = [i \in 1 .. ctx[r].ops |-> operations[(ctx[r].from + i - 1) % OpCapacity]]
  BY DEF HandedOver
<1>3. /\ Len(HandedOver(r)) \in Nat /\ Len(HandedOver(r)) <= ctx[r].ops
      /\ \A i \in 1 .. Len(HandedOver(r)) :
           HandedOver(r)[i] = operations[(ctx[r].from + i - 1) % OpCapacity]
  <2>1. CASE HandedOver(r) = <<>>
    BY <1>1, <2>1
  <2>2. CASE HandedOver(r) =
               [i \in 1 .. ctx[r].ops |-> operations[(ctx[r].from + i - 1) % OpCapacity]]
    BY <1>1, <2>2
  <2> QED BY <1>2, <2>1, <2>2
<1>4. Count(r) = IF Len(HandedOver(r)) <= PoolCapacity THEN Len(HandedOver(r)) ELSE PoolCapacity
  BY <1>1, <1>3, MinOfTwo DEF Count
<1>5. \A i \in 1 .. Len(HandedOver(r)) :
        operations[(ctx[r].from + i - 1) % OpCapacity].owner \in 0 .. MaxRequests
  <2>1. \A k \in Nat : operations[k % OpCapacity].owner \in 0 .. MaxRequests
    BY <1>1, ModRange
  <2> TAKE i \in 1 .. Len(HandedOver(r))
  <2>2. ctx[r].from + i - 1 \in Nat
    BY <1>1, <1>3
  <2> QED BY <2>1, <2>2
<1>6. Count(r) \in Nat /\ Count(r) <= Len(HandedOver(r)) /\ Count(r) <= PoolCapacity
  BY <1>1, <1>3, <1>4
<1>7. \A i \in 1 .. Count(r) : i \in 1 .. Len(HandedOver(r))
  BY <1>3, <1>6
<1>8. \A i \in 1 .. Count(r) :
        /\ HandedOver(r)[i] = operations[(ctx[r].from + i - 1) % OpCapacity]
        /\ HandedOver(r)[i].owner \in 0 .. MaxRequests
  BY <1>3, <1>5, <1>7
<1> QED BY <1>1, <1>3, <1>6, <1>8

\* What keeping a row does to the reserve.
LEMMA KeepRowIs ==
  ASSUME NEW r, NEW slot, KeepRow(r, slot)
  PROVE  /\ reserve' = [reserve EXCEPT ![RowIndex(slot, arms[slot].written)] = KeptRow(r)]
         /\ pool' = [p \in DOMAIN pool |->
              IF {i \in 1 .. Count(r) : (poolCursor + i - 1) % PoolCapacity = p} = {}
              THEN pool[p]
              ELSE LET i == CHOOSE i \in {i \in 1 .. Count(r) :
                                            (poolCursor + i - 1) % PoolCapacity = p} : TRUE
                   IN [owner |-> HandedOver(r)[i].owner, at |-> poolCursor + i - 1]]
         /\ poolCursor' = poolCursor + Count(r)
         /\ arms' = [arms EXCEPT ![slot] = Filled(@, r)]
         /\ liveUntil' = liveUntil
BY DEF KeepRow, Count, KeptRow, KeptFrom

\* The operations are where the pool's cursor was, and those less than a pool away are as
\* they were.
LEMMA PoolWritten ==
  ASSUME BoxIInv, NEW r \in Started, NEW slot, KeepRow(r, slot)
  PROVE  /\ pool' \in [0 .. PoolCapacity - 1 -> PoolType]
         /\ \A p \in 0 .. PoolCapacity - 1 :
              \/ pool'[p] = pool[p]
              \/ /\ poolCursor <= pool'[p].at /\ pool'[p].at < poolCursor'
                 /\ pool'[p].at % PoolCapacity = p
         /\ \A i \in 1 .. Count(r) :
              pool'[(poolCursor + i - 1) % PoolCapacity] =
                [owner |-> operations[(ctx[r].from + i - 1) % OpCapacity].owner,
                 at |-> poolCursor + i - 1]
         /\ \A k \in Nat : k < poolCursor /\ poolCursor + Count(r) - k <= PoolCapacity =>
              pool'[k % PoolCapacity] = pool[k % PoolCapacity]
<1> DEFINE placed(p) == {i \in 1 .. Count(r) : (poolCursor + i - 1) % PoolCapacity = p}
           at(p)     == CHOOSE i \in placed(p) : TRUE
           item(i)   == [owner |-> HandedOver(r)[i].owner, at |-> poolCursor + i - 1]
<1>1. /\ Count(r) \in Nat /\ Count(r) <= PoolCapacity
      /\ PoolCapacity \in Nat \ {0} /\ poolCursor \in Nat
      /\ pool \in [0 .. PoolCapacity - 1 -> PoolType]
      /\ \A i \in 1 .. Count(r) :
           /\ HandedOver(r)[i] = operations[(ctx[r].from + i - 1) % OpCapacity]
           /\ HandedOver(r)[i].owner \in 0 .. MaxRequests
  BY BoxFacts, HandedOverIs, ReserveConstants DEF BoxTypes
<1>2. pool' = [p \in 0 .. PoolCapacity - 1 |->
                 IF placed(p) = {} THEN pool[p] ELSE item(at(p))]
  <2>1. DOMAIN pool = 0 .. PoolCapacity - 1
    BY <1>1
  <2> QED BY <2>1, KeepRowIs, Zenon
<1>3. poolCursor' = poolCursor + Count(r)
  BY KeepRowIs
<1>4. \A p : placed(p) # {} => at(p) \in placed(p)
  BY Zenon
<1>5. \A p, i : i \in placed(p) <=> i \in 1 .. Count(r) /\ (poolCursor + i - 1) % PoolCapacity = p
  OBVIOUS
<1>6. \A i \in 1 .. Count(r) : item(i) \in PoolType
  BY <1>1 DEF PoolType
<1>7. \A i \in 1 .. Count(r) : /\ poolCursor <= item(i).at /\ item(i).at < poolCursor'
                             /\ item(i).at = poolCursor + i - 1
  BY <1>1, <1>3
<1> HIDE DEF placed, at, item
<1>8. pool' \in [0 .. PoolCapacity - 1 -> PoolType]
  BY <1>1, <1>2, <1>4, <1>5, <1>6
<1>9. ASSUME NEW p \in 0 .. PoolCapacity - 1
      PROVE  \/ pool'[p] = pool[p]
             \/ /\ poolCursor <= pool'[p].at /\ pool'[p].at < poolCursor'
                /\ pool'[p].at % PoolCapacity = p
  <2>1. CASE placed(p) = {}
    BY <1>2, <2>1
  <2>2. CASE placed(p) # {}
    <3> PICK i : i = at(p)
      OBVIOUS
    <3>1. pool'[p] = item(i) /\ i \in 1 .. Count(r) /\ (poolCursor + i - 1) % PoolCapacity = p
      BY <1>2, <1>4, <1>5, <2>2
    <3> QED BY <1>7, <3>1
  <2> QED BY <2>1, <2>2
<1>10. ASSUME NEW i \in 1 .. Count(r)
       PROVE  pool'[(poolCursor + i - 1) % PoolCapacity] = item(i)
  <2> DEFINE p == (poolCursor + i - 1) % PoolCapacity
  <2>1. i \in placed(p) /\ p \in 0 .. PoolCapacity - 1
    <3>1. poolCursor + i - 1 \in Int
      BY <1>1
    <3>2. p \in 0 .. PoolCapacity - 1
      BY <1>1, <3>1, ModRange
    <3>3. i \in placed(p)
      BY <1>5, Zenon
    <3> QED BY <3>2, <3>3
  <2>2. ASSUME NEW j \in placed(p)
        PROVE  j = i
    <3> DEFINE a == poolCursor + i - 1
               b == poolCursor + j - 1
    <3>1. j \in 1 .. Count(r) /\ a % PoolCapacity = b % PoolCapacity
      BY <1>5, <2>2
    <3>2. a \in Int /\ b \in Int /\ a - b < PoolCapacity /\ b - a < PoolCapacity
      BY <1>1, <3>1
    <3>3. a = b
      <4> HIDE DEF a, b
      <4> QED BY <1>1, <3>1, <3>2, ModApart
    <3> QED BY <1>1, <3>1, <3>3
  <2>3. at(p) = i
    BY <1>4, <2>1, <2>2
  <2> HIDE DEF p
  <2>4. pool'[p] = item(i)
    BY <1>2, <2>1, <2>3
  <2> QED BY <2>4 DEF p
<1>11. ASSUME NEW k \in Nat, k < poolCursor, poolCursor + Count(r) - k <= PoolCapacity
       PROVE  pool'[k % PoolCapacity] = pool[k % PoolCapacity]
  <2>1. ASSUME NEW i \in placed(k % PoolCapacity)
        PROVE  FALSE
    <3> DEFINE a == poolCursor + i - 1
    <3>1. i \in 1 .. Count(r) /\ a % PoolCapacity = k % PoolCapacity
      BY <1>5, <2>1
    <3>2. a \in Int /\ k \in Int /\ a - k < PoolCapacity /\ k - a < PoolCapacity /\ a # k
      BY <1>1, <1>11, <3>1
    <3> HIDE DEF a
    <3> QED BY <1>1, <3>1, <3>2, ModApart
  <2> DEFINE p == k % PoolCapacity
  <2>2. p \in 0 .. PoolCapacity - 1
    <3>1. k \in Int
      OBVIOUS
    <3> QED BY <1>1, <3>1, ModRange
  <2>3. placed(p) = {}
    <3>1. \A i \in placed(p) : FALSE
      BY <2>1
    <3> HIDE DEF p
    <3> QED BY <3>1 DEF placed
  <2> HIDE DEF p
  <2>4. pool'[p] = pool[p]
    BY <1>2, <2>2, <2>3
  <2> QED BY <2>4 DEF p
<1>12. \A i \in 1 .. Count(r) :
         pool'[(poolCursor + i - 1) % PoolCapacity] =
           [owner |-> operations[(ctx[r].from + i - 1) % OpCapacity].owner,
            at |-> poolCursor + i - 1]
  BY <1>1, <1>10 DEF item
<1> QED BY <1>8, <1>9, <1>11, <1>12

\* The row is where the slot's count was, and the others of its last are as they were.
LEMMA ReserveWritten ==
  ASSUME BoxIInv, NEW r \in Started, NEW slot \in ArmSlots, KeepRow(r, slot)
  PROVE  /\ reserve' \in [ReserveSlots -> KeptType]
         /\ reserve'[RowIndex(slot, arms[slot].written)] = KeptRow(r)
         /\ arms' \in [ArmSlots -> ArmType]
         /\ \A s \in ArmSlots : s # slot => arms'[s] = arms[s]
         /\ arms'[slot].seen = Append(arms[slot].seen, r)
         /\ arms'[slot].written = arms[slot].written + 1
         /\ arms'[slot].route = arms[slot].route /\ arms'[slot].until = arms[slot].until
         /\ arms'[slot].armedAt = arms[slot].armedAt
         /\ \A s \in ArmSlots, n \in Nat : IsLast(s, n)' =>
              \/ s = slot /\ n = arms[slot].written
              \/ IsLast(s, n) /\ GivenRow(s, n)' = GivenRow(s, n)
<1>1. /\ arms \in [ArmSlots -> ArmType] /\ reserve \in [ReserveSlots -> KeptType]
      /\ arms[slot] \in ArmType /\ arms[slot].written \in Nat
      /\ arms[slot].seen \in Seq(Request) /\ r \in Request
      /\ RowsPerArm \in Nat \ {0}
      /\ \A s \in ArmSlots : arms[s].written \in Nat
  BY BoxFacts, ContextTypes, ReserveConstants DEF BoxTypes
<1>2. KeptRow(r) \in KeptType
  <2>1. /\ r \in 0 .. MaxRequests /\ served[r].route \in Route \cup {"none"}
        /\ poolCursor \in Nat /\ Count(r) \in 0 .. PoolCapacity
    BY <1>1, BoxFacts, HandedOverIs, ReserveConstants, Constants DEF Request
  <2> QED BY <2>1 DEF KeptRow, KeptType
<1> DEFINE w   == arms[slot].written
           at  == RowIndex(slot, w)
           new == KeptRow(r)
           arm == Filled(arms[slot], r)
<1>3. at \in ReserveSlots
  BY <1>1, RowIndexIs
<1>4. /\ arm \in ArmType /\ arm.seen = Append(arms[slot].seen, r) /\ arm.written = w + 1
      /\ arm.route = arms[slot].route /\ arm.until = arms[slot].until
      /\ arm.armedAt = arms[slot].armedAt
  <2> DEFINE fuller == [arms[slot] EXCEPT !.seen = Append(arms[slot].seen, r)]
  <2>1. Append(arms[slot].seen, r) \in Seq(Request)
    BY <1>1
  <2>2. /\ fuller \in ArmType /\ fuller.seen = Append(arms[slot].seen, r)
        /\ fuller.written = w /\ fuller.route = arms[slot].route
        /\ fuller.until = arms[slot].until /\ fuller.armedAt = arms[slot].armedAt
    BY <1>1, <2>1 DEF ArmType
  <2>3. arm = [fuller EXCEPT !.written = w + 1] /\ w + 1 \in Nat
    BY <1>1 DEF Filled, ArmType
  <2> DEFINE more == w + 1
  <2> HIDE DEF fuller, arm, more
  <2>4. arm = [fuller EXCEPT !.written = more] /\ more \in Nat
    BY <2>3 DEF more
  <2>5. arm \in ArmType /\ arm.written = more
    BY <2>2, <2>4 DEF ArmType
  <2>6. /\ arm.seen = fuller.seen /\ arm.route = fuller.route /\ arm.until = fuller.until
        /\ arm.armedAt = fuller.armedAt
    BY <2>2, <2>4 DEF ArmType
  <2> QED BY <2>2, <2>5, <2>6 DEF more
<1>5. reserve' = [reserve EXCEPT ![at] = new] /\ arms' = [arms EXCEPT ![slot] = arm]
  BY KeepRowIs
<1> HIDE DEF at, new, arm
<1>6. /\ reserve' \in [ReserveSlots -> KeptType] /\ reserve'[at] = new
      /\ \A k \in ReserveSlots : k # at => reserve'[k] = reserve[k]
      /\ arms' \in [ArmSlots -> ArmType] /\ arms'[slot] = arm
      /\ \A s \in ArmSlots : s # slot => arms'[s] = arms[s]
  BY <1>1, <1>2, <1>3, <1>4, <1>5 DEF new
<1>7. ASSUME NEW s \in ArmSlots, NEW n \in Nat, IsLast(s, n)', ~(s = slot /\ n = w)
      PROVE  IsLast(s, n) /\ GivenRow(s, n)' = GivenRow(s, n)
  <2>1. n < arms'[s].written /\ arms'[s].written - RowsPerArm <= n
    BY <1>7 DEF IsLast
  <2>2. IsLast(s, n) /\ (s = slot => n < w /\ w - n < RowsPerArm)
    BY <1>1, <1>4, <1>6, <1>7, <2>1 DEF IsLast
  <2>3. RowIndex(s, n) # at
    <3> SUFFICES ASSUME RowIndex(s, n) = RowIndex(slot, w)
                 PROVE  FALSE
      BY DEF at
    <3>1. s = slot /\ n % RowsPerArm = w % RowsPerArm
      BY <1>1, RowIndexApart
    <3>2. n \in Int /\ w \in Int /\ n - w < RowsPerArm /\ w - n < RowsPerArm /\ n # w
      BY <1>1, <2>2, <3>1
    <3> HIDE DEF w
    <3> QED BY <1>1, <3>1, <3>2, ModApart
  <2>4. reserve'[RowIndex(s, n)] = reserve[RowIndex(s, n)]
    BY <1>6, <2>3, RowIndexIs
  <2> QED BY <2>2, <2>4 DEF GivenRow, RowIndex
<1> QED BY <1>4, <1>6, <1>7 DEF at, new

-----------------------------------------------------------------------------
\* Every step keeps the invariant.

\* What the steps that leave the reserve alone do to the rest.
LEMMA ReserveStays ==
  ASSUME BoxIInv, FineIInv', UNCHANGED reserveVars,
         now' \in Time, now <= now',
         served' \in Seq([route : Route, startedAt : Time]), Len(served') = Len(ctx'),
         Started \subseteq Started',
         \A r \in Started :
           /\ served'[r] = served[r] /\ ctx[r].ops <= ctx'[r].ops
           /\ ctx'[r].open => ctx[r].open
           /\ ctx[r].beside \subseteq ctx'[r].beside,
         \A r \in Started' \ Started : served'[r].startedAt <= now',
         \A c \in Nat : LiveAt(c)' =>
           \/ LiveAt(c) /\ RowAt(c)' = RowAt(c)
           \/ /\ RowAt(c)'.request \in Started
              /\ ~ \E s \in ArmSlots : /\ arms[s].until > now
                                       /\ arms[s].route = served[RowAt(c)'.request].route
  PROVE  BoxIInv'
<1>1. /\ \A s \in ArmSlots : arms[s].until \in Int /\ arms[s].armedAt \in Int
      /\ now \in Nat /\ now' \in Nat /\ FineTypeOK /\ FineTypeOK'
  BY BoxFacts, ReserveConstants DEF Time, FineIInv
<1>2. \A s \in ArmSlots : arms[s].until > now' => arms[s].until > now
  BY <1>1
<1>3. BoxTypes'
  BY DEF BoxIInv, BoxTypes
<1>4. Past'
  <2>1. \A r \in Started : served[r].startedAt <= now'
    BY <1>1, BoxFacts
  <2>2. \A r \in Started' : served'[r].startedAt <= now'
    BY <2>1
  <2>3. \A s \in ArmSlots : arms[s].armedAt <= now'
    BY <1>1, BoxFacts
  <2> QED BY <2>2, <2>3 DEF Past
<1>5. LiveIsFirst'
  BY <1>2 DEF BoxIInv, LiveIsFirst
<1>6. SeenAreItsOwn'
  <2> SUFFICES ASSUME NEW s \in ArmSlots
               PROVE  \A n \in 1 .. Len(arms[s].seen)' :
                        /\ arms'[s].seen[n] \in Started' /\ ~ctx'[arms'[s].seen[n]].open
                        /\ served'[arms'[s].seen[n]].route = arms'[s].route
    BY DEF SeenAreItsOwn
  <2>1. PICK seen : seen = arms[s].seen
    OBVIOUS
  <2>2. ASSUME NEW n \in 1 .. Len(seen)
        PROVE  /\ seen[n] \in Started /\ ~ctx[seen[n]].open
               /\ served[seen[n]].route = arms[s].route
    BY <2>1, <2>2 DEF BoxIInv, SeenAreItsOwn
  <2>3. \A r \in Started : r \in Started' /\ served'[r] = served[r] /\ (ctx'[r].open => ctx[r].open)
    OBVIOUS
  <2>4. arms'[s].seen = seen /\ arms'[s].route = arms[s].route
    BY <2>1
  <2> QED BY <2>2, <2>3, <2>4
<1>7. GivenInPlace'
  BY DEF BoxIInv, GivenInPlace, IsLast, GivenRow
<1>8. SeenCoverTheRing'
  <2> SUFFICES ASSUME NEW c \in Nat, LiveAt(c)', NEW s \in ArmSlots,
                      arms[s].until > now',
                      arms[s].route = served'[RowAt(c)'.request].route,
                      arms[s].armedAt <= served'[RowAt(c)'.request].startedAt
               PROVE  \E n \in 1 .. Len(arms[s].seen) : arms[s].seen[n] = RowAt(c)'.request
    BY DEF SeenCoverTheRing
  <2>1. CASE LiveAt(c) /\ RowAt(c)' = RowAt(c)
    <3>1. RowAt(c).request \in Started
      BY <2>1, LiveRow DEF BoxIInv
    <3> QED BY <1>2, <2>1, <3>1 DEF BoxIInv, SeenCoverTheRing
  <2> QED BY <1>2, <2>1
<1>9. PoolInPlace'
  BY DEF BoxIInv, PoolInPlace
<1>10. KeptInItsTime'
  <2> SUFFICES ASSUME NEW s \in ArmSlots, NEW n \in Nat, IsLast(s, n)'
               PROVE  KeptOfItsTime(GivenRow(s, n))'
    BY DEF KeptInItsTime
  <2>1. IsLast(s, n) /\ GivenRow(s, n)' = GivenRow(s, n)
    BY DEF IsLast, GivenRow
  <2>2. GivenRow(s, n).request \in Started
    <3>1. n < arms[s].written /\ arms[s].written = Len(arms[s].seen) /\ arms[s].written \in Nat
      BY <2>1, BoxFacts DEF IsLast
    <3>2. n + 1 \in 1 .. Len(arms[s].seen)
      BY <3>1
    <3> QED BY <2>1, <3>2 DEF BoxIInv, GivenInPlace, SeenAreItsOwn
  <2>3. KeptOfItsTime(GivenRow(s, n))
    BY <2>1 DEF BoxIInv, KeptInItsTime
  <2>4. PICK row : row = GivenRow(s, n)
    OBVIOUS
  <2>5. OfItsTime(row.request) \subseteq OfItsTime(row.request)'
    BY <2>2, <2>4 DEF OfItsTime
  <2>6. KeptOfItsTime(row)'
    BY <2>3, <2>4, <2>5 DEF KeptOfItsTime, StillKept, PoolOf
  <2> QED BY <2>1, <2>4, <2>6 DEF KeptOfItsTime, StillKept, PoolOf, OfItsTime
<1> QED BY <1>3, <1>4, <1>5, <1>6, <1>7, <1>8, <1>9, <1>10 DEF BoxIInv

\* Each step of the box is an instant.
LEMMA InstantIs ==
  ASSUME BoxIInv, Instant
  PROVE  now' \in Time /\ now' = now + 1 /\ now < now' /\ now \in Nat /\ now' \in Nat
BY BoxFacts, ReserveConstants DEF Instant, Time

\* The rows of the ring, when nothing is written there.
LEMMA RowsStay ==
  ASSUME UNCHANGED <<requests, requestCursor>>
  PROVE  \A c \in Nat : LiveAt(c)' => LiveAt(c) /\ RowAt(c)' = RowAt(c)
BY DEF LiveAt, RowAt

\* A start keeps the invariant.
LEMMA StartsKeeps ==
  ASSUME BoxIInv, NEW route \in Route, Starts(route)
  PROVE  BoxIInv'
<1> DEFINE T   == [route : Route, startedAt : Time]
           new == [route |-> route, startedAt |-> now']
           r   == Len(ctx) + 1
<1>1. FineIInv /\ FineTypeOK /\ RequestStarted /\ Instant /\ UNCHANGED reserveVars
  BY DEF BoxIInv, FineIInv, Starts
<1>2. FineIInv'
  BY <1>1, StartKeeps
<1>3. now' \in Time /\ now' \in Nat /\ now < now' /\ now \in Nat
  BY <1>1, InstantIs
<1>4. /\ served \in Seq(T) /\ Len(served) = Len(ctx) /\ Started = 1 .. Len(ctx)
      /\ Len(ctx) \in Nat
  BY <1>1, BoxFacts, ContextTypes DEF BoxTypes
<1>5. served' = Append(served, new) /\ new \in T /\ new.startedAt = now'
  BY <1>3 DEF Starts
<1> HIDE DEF new, T
<1>6. /\ served' \in Seq(T) /\ Len(served') = r /\ served'[r] = new
      /\ \A q \in Started : served'[q] = served[q]
  BY <1>4, <1>5
<1>7. /\ ctx' \in Seq(Context) /\ Started' = Started \cup {r}
      /\ \A q \in Started : ctx'[q] = ctx[q]
  BY <1>1, StartStep
<1>8. Len(ctx') = r
  <2>1. ctx' = Append(ctx, ctx'[r])
    BY <1>1, <1>4, ContextTypes DEF RequestStarted
  <2> QED BY <1>1, <2>1, ContextTypes
<1>9. \A q \in Started : /\ served'[q] = served[q] /\ ctx[q].ops <= ctx'[q].ops
                         /\ ctx'[q].open => ctx[q].open
                         /\ ctx[q].beside \subseteq ctx'[q].beside
  BY <1>1, <1>6, <1>7, ContextTypes
<1>10. \A q \in Started' \ Started : served'[q].startedAt <= now'
  BY <1>3, <1>5, <1>6, <1>7
<1>11. \A c \in Nat : LiveAt(c)' => LiveAt(c) /\ RowAt(c)' = RowAt(c)
  BY <1>1, RowsStay DEF RequestStarted
<1> QED BY <1>1, <1>2, <1>3, <1>6, <1>7, <1>8, <1>9, <1>10, <1>11, ReserveStays DEF T

\* An operation keeps the invariant.
LEMMA RunsKeeps ==
  ASSUME BoxIInv, NEW r \in Started, Runs(r)
  PROVE  BoxIInv'
<1>1. FineIInv /\ FineTypeOK /\ RecordOperation(r) /\ UNCHANGED <<now, served, reserveVars>>
  BY DEF BoxIInv, FineIInv, Runs
<1>2. FineIInv'
  BY <1>1, OperationKeeps
<1>3. /\ served \in Seq([route : Route, startedAt : Time]) /\ Len(served) = Len(ctx)
      /\ now \in Time /\ now <= now
  BY BoxFacts DEF BoxTypes
<1>4. ctx' \in Seq(Context) /\ Started' = Started
  BY <1>1, OperationStep
<1>5. Len(ctx') = Len(ctx)
  BY <1>1, <1>4, ContextTypes DEF Started
<1>6. ASSUME NEW q \in Started
      PROVE  /\ ctx[q].ops <= ctx'[q].ops
             /\ ctx'[q].open => ctx[q].open
             /\ ctx[q].beside \subseteq ctx'[q].beside
  <2>1. /\ ctx'[q].open = ctx[q].open
        /\ q # r => ctx'[q].ops = ctx[q].ops
        /\ ctx'[r].ops = IF ctx[r].fine THEN ctx[r].ops + 1 ELSE ctx[r].ops
    BY <1>1, OperationStep
  <2>2. /\ ctx'[r].beside = ctx[r].beside
        /\ q # r => ctx'[q].beside = IF ctx[q].open /\ Writes(r) THEN ctx[q].beside \cup {r}
                                     ELSE ctx[q].beside
    BY <1>1, OperationStep
  <2>3. ctx[q].ops \in Nat
    BY <1>1, ContextTypes
  <2>4. ctx[q].ops <= ctx'[q].ops
    BY <2>1, <2>3
  <2>5. ctx[q].beside \subseteq ctx'[q].beside
    BY <2>2
  <2> QED BY <2>1, <2>4, <2>5
<1>7. \A c \in Nat : LiveAt(c)' => LiveAt(c) /\ RowAt(c)' = RowAt(c)
  BY <1>1, RowsStay DEF RecordOperation
<1> QED BY <1>1, <1>2, <1>3, <1>4, <1>5, <1>6, <1>7, ReserveStays

\* The clock, the meter, and what leaves every variable as it was.
LEMMA RestKeeps ==
  ASSUME BoxIInv,
         UNCHANGED <<ctx, ringVars, writeVars, sample, ran, touched, served, reserveVars>>,
         keeping' \in BOOLEAN, now' \in Time, now <= now'
  PROVE  BoxIInv'
<1>1. FineIInv' /\ FineTypeOK
  BY ShedKeeps DEF BoxIInv, FineIInv
<1>2. /\ served \in Seq([route : Route, startedAt : Time]) /\ Len(served) = Len(ctx)
      /\ Started' = Started
  BY BoxFacts DEF BoxTypes, Started
<1>3. \A q \in Started : ctx[q].ops <= ctx'[q].ops
  BY <1>1, ContextTypes
<1>4. \A c \in Nat : LiveAt(c)' => LiveAt(c) /\ RowAt(c)' = RowAt(c)
  BY RowsStay
<1> QED BY <1>1, <1>2, <1>3, <1>4, ReserveStays

\* What the end of a request does, whatever the reserve makes of it.
LEMMA FinishFacts ==
  ASSUME BoxIInv, NEW r \in Started, NEW labels \in DependencyLists, Finishes(r, labels)
  PROVE  /\ FineIInv' /\ FineTypeOK /\ FineTypeOK'
         /\ RecordFinished(r, labels) /\ UNCHANGED <<now, served>>
         /\ now \in Time /\ now <= now
         /\ served \in Seq([route : Route, startedAt : Time]) /\ Len(served) = Len(ctx')
         /\ Started' = Started
         /\ \A q \in Started : /\ ctx'[q].ops = ctx[q].ops /\ ctx'[q].ops \in Nat
                               /\ ctx'[q].open => ctx[q].open
                               /\ ctx'[q].beside = ctx[q].beside
         /\ ctx[r].open /\ ~ctx'[r].open
<1>1. FineIInv /\ FineTypeOK /\ RecordFinished(r, labels) /\ UNCHANGED <<now, served>>
  BY DEF BoxIInv, FineIInv, Finishes
<1>2. FineIInv'
  BY <1>1, FinishKeeps
<1>3. /\ served \in Seq([route : Route, startedAt : Time]) /\ Len(served) = Len(ctx)
      /\ now \in Time /\ now <= now
  BY BoxFacts DEF BoxTypes
<1>4. ctx' \in Seq(Context) /\ Started' = Started
  BY <1>1, FinishStep
<1>5. Len(ctx') = Len(ctx)
  BY <1>1, <1>4, ContextTypes DEF Started
<1>6. \A q \in Started : /\ ctx'[q].ops = ctx[q].ops /\ ctx'[q].ops \in Nat
                         /\ ctx'[q].open => ctx[q].open
                         /\ ctx'[q].beside = ctx[q].beside
  BY <1>1, FinishStep, ContextTypes
<1>7. ctx[r].open /\ ~ctx'[r].open
  BY <1>1, FinishWrites, FinishStep
<1> QED BY <1>1, <1>2, <1>3, <1>4, <1>5, <1>6, <1>7 DEF FineIInv

\* The rows of the ring after a row of request r was written.
LEMMA RowsAfter ==
  ASSUME BoxIInv, NEW r \in Started, NEW labels \in DependencyLists, WriteRow(r, labels)
  PROVE  \A c \in Nat : LiveAt(c)' =>
           \/ LiveAt(c) /\ RowAt(c)' = RowAt(c)
           \/ RowAt(c)'.request = r
<1>1. FineTypeOK /\ Counted
  BY DEF BoxIInv, FineIInv
<1>2. NewRow(r, labels).request = r
  BY <1>1, NewRowIs
<1>3. ASSUME NEW c \in Nat, LiveAt(c)', c = requestCursor
      PROVE  RowAt(c)'.request = r
  <2>1. requests'[c % Capacity] = NewRow(r, labels)
    BY <1>1, <1>3, RowWritten
  <2> QED BY <1>2, <2>1 DEF RowAt
<1> QED BY <1>1, <1>3, RowWritten

\* The reserve is offered the row, and none that lives is of its route.
LEMMA UnkeptKeeps ==
  ASSUME BoxIInv, NEW r \in Started, NEW labels \in DependencyLists, Finishes(r, labels),
         UNCHANGED reserveVars
  PROVE  BoxIInv'
<1>1. /\ FineIInv' /\ RecordFinished(r, labels) /\ UNCHANGED <<now, served>>
      /\ Started' = Started /\ now \in Time /\ now <= now
      /\ served \in Seq([route : Route, startedAt : Time]) /\ Len(served) = Len(ctx')
  BY FinishFacts
<1>2. \A q \in Started : /\ ctx[q].ops <= ctx'[q].ops
                         /\ ctx'[q].open => ctx[q].open
                         /\ ctx[q].beside \subseteq ctx'[q].beside
  BY FinishFacts
<1>3. requestCursor \in Nat
  BY RingTypes DEF BoxIInv, FineIInv
<1>4. ASSUME NEW c \in Nat, LiveAt(c)'
      PROVE  \/ LiveAt(c) /\ RowAt(c)' = RowAt(c)
             \/ /\ RowAt(c)'.request \in Started
                /\ ~ \E s \in ArmSlots : /\ arms[s].until > now
                                         /\ arms[s].route = served[RowAt(c)'.request].route
  <2>1. CASE WriteRow(r, labels)
    <3>1. requestCursor' # requestCursor
      BY <1>3, <2>1, WriteRowIs
    <3>2. Observe(r)
      BY <3>1 DEF Finishes
    <3>3. ASSUME NEW s \in ArmSlots, arms[s].until > now, arms[s].route = served[r].route
          PROVE  FALSE
      <4>1. /\ LiveSlots(served[r].route, served[r].startedAt) # {}
            /\ served[r].startedAt < liveUntil
            /\ MinOf(LiveSlots(served[r].route, served[r].startedAt)) = s
        BY <3>3, GivenToTheLive
      <4>2. KeepRow(r, s)
        BY <3>2, <4>1 DEF Observe
      <4>3. arms'[s].written = arms[s].written + 1 /\ arms[s].written \in Nat
        BY <4>2, ReserveWritten, BoxFacts
      <4> QED BY <4>3
    <3> QED BY <1>4, <2>1, <3>3, RowsAfter
  <2>2. CASE UNCHANGED <<requests, requestCursor>>
    BY <1>4, <2>2, RowsStay
  <2> QED BY <1>1, <2>1, <2>2, FinishWrites
<1> QED BY <1>1, <1>2, <1>4, ReserveStays

\* What is handed over of a request, up to the cap, is of its time.
LEMMA HandedOverInItsTime ==
  ASSUME FineIInv, NEW r \in Started, ctx[r].open, NEW i \in 1 .. Count(r), i <= PerRequest
  PROVE  operations[(ctx[r].from + i - 1) % OpCapacity].owner \in OfItsTime(r)
<1> DEFINE k == ctx[r].from + i - 1
<1>1. FineTypeOK /\ Counted
  BY DEF FineIInv
<1>2. /\ Count(r) \in Nat /\ Count(r) <= ctx[r].ops /\ ctx[r].ops \in Nat
      /\ ctx[r].from \in Nat /\ operationCursor \in Nat /\ PerRequest \in Nat
  BY <1>1, HandedOverIs, ContextTypes, RingTypes, Constants
<1>3. ctx[r].fine
  BY <1>1, <1>2 DEF Counted
<1>4. /\ \/ ctx[r].ops <= operationCursor - ctx[r].from
         \/ PerRequest <= operationCursor - ctx[r].from
      /\ \A c \in Nat : ctx[r].from <= c /\ c < operationCursor =>
           operations[c % OpCapacity].owner \in OfItsTime(r)
  BY <1>3 DEF FineIInv, OpenInItsTime
<1>5. k \in Nat /\ ctx[r].from <= k /\ k < operationCursor
  BY <1>2, <1>4
<1> HIDE DEF k
<1>6. operations[k % OpCapacity].owner \in OfItsTime(r)
  BY <1>4, <1>5
<1> QED BY <1>6 DEF k

\* A row of the reserve that is one of its slot's last.
LEMMA GivenRowIs ==
  ASSUME BoxIInv, NEW s \in ArmSlots, NEW n \in Nat, IsLast(s, n)
  PROVE  /\ GivenRow(s, n) \in KeptType /\ GivenRow(s, n).from \in Nat
         /\ GivenRow(s, n).count \in Nat /\ GivenRow(s, n).count <= PoolCapacity
         /\ n + 1 \in 1 .. Len(arms[s].seen)
         /\ GivenRow(s, n).request = arms[s].seen[n + 1]
         /\ GivenRow(s, n).request \in Started
         /\ GivenRow(s, n).route = served[GivenRow(s, n).request].route
         /\ GivenRow(s, n).route = arms[s].route
         /\ GivenRow(s, n).from + GivenRow(s, n).count <= poolCursor
<1>1. n < arms[s].written /\ arms[s].written = Len(arms[s].seen) /\ arms[s].written \in Nat
  BY BoxFacts DEF IsLast
<1>2. n + 1 \in 1 .. Len(arms[s].seen)
  BY <1>1
<1>3. /\ GivenRow(s, n).request = arms[s].seen[n + 1] /\ GivenRow(s, n).route = arms[s].route
      /\ GivenRow(s, n).from + GivenRow(s, n).count <= poolCursor
  BY DEF BoxIInv, GivenInPlace
<1>4. /\ arms[s].seen[n + 1] \in Started
      /\ served[arms[s].seen[n + 1]].route = arms[s].route
  BY <1>2 DEF BoxIInv, SeenAreItsOwn
<1>5. GivenRow(s, n) \in KeptType
  BY RowIndexIs, BoxFacts DEF BoxTypes, GivenRow
<1>6. \A row \in KeptType : row.from \in Nat /\ row.count \in Nat /\ row.count <= PoolCapacity
  BY ReserveConstants DEF KeptType
<1> QED BY <1>2, <1>3, <1>4, <1>5, <1>6

\* What a row of the reserve is written into.
LEMMA KeptSlot ==
  ASSUME BoxIInv, NEW r \in Started, NEW slot,
         LiveSlots(served[r].route, served[r].startedAt) # {},
         slot = MinOf(LiveSlots(served[r].route, served[r].startedAt))
  PROVE  slot \in ArmSlots /\ arms[slot].route = served[r].route
<1> DEFINE live == LiveSlots(served[r].route, served[r].startedAt)
<1>1. live \in SUBSET Nat /\ \A t \in live : t \in ArmSlots /\ arms[t].route = served[r].route
  BY ReserveConstants DEF LiveSlots
<1> HIDE DEF live
<1>2. MinOf(live) \in live
  BY <1>1, MinIsLeast DEF live
<1> QED BY <1>1, <1>2 DEF live

\* What an append does.
LEMMA AppendIs ==
  ASSUME NEW S, NEW q \in Seq(S), NEW x \in S
  PROVE  /\ Len(Append(q, x)) = Len(q) + 1 /\ Append(q, x)[Len(q) + 1] = x
         /\ \A n \in 1 .. Len(q) : Append(q, x)[n] = q[n]
         /\ Len(q) \in Nat
OBVIOUS

\* What was given stays, in its order, and the row is the last of the slot's.
LEMMA SeenGrows ==
  ASSUME BoxIInv, NEW r \in Started, NEW slot \in ArmSlots, KeepRow(r, slot)
  PROVE  /\ arms'[slot].seen[arms[slot].written + 1] = r
         /\ arms'[slot].written = arms[slot].written + 1
         /\ Len(arms'[slot].seen) = arms[slot].written + 1
         /\ \A s \in ArmSlots : s # slot => arms'[s] = arms[s]
         /\ \A s \in ArmSlots : \A n \in 1 .. Len(arms[s].seen) :
              n \in 1 .. Len(arms'[s].seen) /\ arms'[s].seen[n] = arms[s].seen[n]
         /\ \A s \in ArmSlots : arms'[s].written = Len(arms'[s].seen)
         /\ \A s \in ArmSlots : /\ arms'[s].route = arms[s].route
                                /\ arms'[s].until = arms[s].until
                                /\ arms'[s].armedAt = arms[s].armedAt
<1> PICK old : old = arms[slot].seen
  OBVIOUS
<1>1. /\ arms'[slot].seen = Append(old, r) /\ arms'[slot].written = arms[slot].written + 1
      /\ \A s \in ArmSlots : s # slot => arms'[s] = arms[s]
      /\ \A s \in ArmSlots : /\ arms'[s].route = arms[s].route /\ arms'[s].until = arms[s].until
                             /\ arms'[s].armedAt = arms[s].armedAt
  BY ReserveWritten
<1>2. /\ old \in Seq(Request) /\ r \in Request /\ arms[slot].written = Len(old)
      /\ \A s \in ArmSlots : arms[s].written = Len(arms[s].seen)
  BY BoxFacts, ContextTypes
<1>3. PICK new : new = Append(old, r)
  OBVIOUS
<1>4. /\ Len(new) = Len(old) + 1 /\ new[Len(old) + 1] = r /\ Len(old) \in Nat
      /\ \A n \in 1 .. Len(old) : new[n] = old[n]
  BY <1>2, <1>3, AppendIs
<1>5. \A n \in 1 .. Len(old) : n \in 1 .. Len(new)
  BY <1>4
<1>6. ASSUME NEW s \in ArmSlots, NEW n \in 1 .. Len(arms[s].seen)
      PROVE  n \in 1 .. Len(arms'[s].seen) /\ arms'[s].seen[n] = arms[s].seen[n]
  <2>1. CASE s = slot
    BY <1>1, <1>3, <1>4, <1>5, <1>6, <2>1
  <2>2. CASE s # slot
    BY <1>1, <1>6, <2>2
  <2> QED BY <2>1, <2>2
<1>7. \A s \in ArmSlots : arms'[s].written = Len(arms'[s].seen)
  BY <1>1, <1>2, <1>3, <1>4
<1> QED BY <1>1, <1>2, <1>3, <1>4, <1>6, <1>7

\* A row kept is its arm's last.
LEMMA KeptKeepsSeen ==
  ASSUME BoxIInv, NEW r \in Started, NEW labels \in DependencyLists, Finishes(r, labels),
         NEW slot \in ArmSlots, arms[slot].route = served[r].route,
         slot = MinOf(LiveSlots(served[r].route, served[r].startedAt)),
         KeepRow(r, slot), WriteRow(r, labels)
  PROVE  SeenAreItsOwn' /\ GivenInPlace' /\ SeenCoverTheRing'
<1> DEFINE w == arms[slot].written
<1>1. /\ arms'[slot].written = w + 1 /\ Len(arms'[slot].seen) = w + 1
      /\ arms'[slot].seen[w + 1] = r
      /\ \A s \in ArmSlots : s # slot => arms'[s] = arms[s]
      /\ \A s \in ArmSlots : /\ arms'[s].route = arms[s].route /\ arms'[s].until = arms[s].until
                             /\ arms'[s].armedAt = arms[s].armedAt
  BY SeenGrows
<1>2. w \in Nat /\ w = Len(arms[slot].seen)
  BY BoxFacts
<1> HIDE DEF w
<1>3. \A s \in ArmSlots : \A n \in 1 .. Len(arms[s].seen) :
        n \in 1 .. Len(arms'[s].seen) /\ arms'[s].seen[n] = arms[s].seen[n]
  BY SeenGrows
<1>4. \A s \in ArmSlots : \A n \in 1 .. Len(arms'[s].seen) :
        n \in 1 .. Len(arms[s].seen) \/ (s = slot /\ n = w + 1)
  BY <1>1, <1>2
<1>5. /\ UNCHANGED <<now, served>> /\ Started' = Started /\ ~ctx'[r].open
      /\ \A q \in Started : ctx'[q].open => ctx[q].open
  BY FinishFacts
<1>6. SeenAreItsOwn'
  <2> SUFFICES ASSUME NEW s \in ArmSlots, NEW n \in 1 .. Len(arms'[s].seen)
               PROVE  /\ arms'[s].seen[n] \in Started' /\ ~ctx'[arms'[s].seen[n]].open
                      /\ served'[arms'[s].seen[n]].route = arms'[s].route
    BY DEF SeenAreItsOwn
  <2>1. CASE n \in 1 .. Len(arms[s].seen)
    <3>1. /\ arms[s].seen[n] \in Started /\ ~ctx[arms[s].seen[n]].open
          /\ served[arms[s].seen[n]].route = arms[s].route
      BY <2>1 DEF BoxIInv, SeenAreItsOwn
    <3> QED BY <1>1, <1>3, <1>5, <2>1, <3>1
  <2>2. CASE s = slot /\ n = w + 1
    BY <1>1, <1>5, <2>2
  <2> QED BY <1>4, <2>1, <2>2
<1>7. GivenInPlace'
  <2>1. /\ poolCursor' = poolCursor + Count(r) /\ poolCursor \in Nat /\ Count(r) \in Nat
        /\ \A s \in ArmSlots, n \in Nat : IsLast(s, n)' =>
             \/ s = slot /\ n = w
             \/ IsLast(s, n) /\ GivenRow(s, n)' = GivenRow(s, n)
        /\ reserve'[RowIndex(slot, w)] = KeptRow(r)
    BY KeepRowIs, ReserveWritten, HandedOverIs, BoxFacts DEF w
  <2>2. ASSUME NEW s \in ArmSlots, NEW n \in Nat, s = slot, n = w
        PROVE  GivenRow(s, n)' = KeptRow(r)
    BY <2>1, <2>2 DEF GivenRow, RowIndex
  <2> SUFFICES ASSUME NEW s \in ArmSlots, NEW n \in Nat, IsLast(s, n)'
               PROVE  /\ GivenRow(s, n)'.request = arms'[s].seen[n + 1]
                      /\ GivenRow(s, n)'.route = arms'[s].route
                      /\ GivenRow(s, n)'.from + GivenRow(s, n)'.count <= poolCursor'
    BY DEF GivenInPlace
  <2>3. CASE s = slot /\ n = w
    <3>1. /\ KeptRow(r).request = r /\ KeptRow(r).route = served[r].route
          /\ KeptRow(r).from = poolCursor /\ KeptRow(r).count = Count(r)
      BY DEF KeptRow
    <3>2. PICK row : row = KeptRow(r)
      OBVIOUS
    <3> QED BY <1>1, <2>1, <2>2, <2>3, <3>1, <3>2
  <2>4. CASE IsLast(s, n) /\ GivenRow(s, n)' = GivenRow(s, n)
    <3>1. PICK row : row = GivenRow(s, n)
      OBVIOUS
    <3>2. /\ n + 1 \in 1 .. Len(arms[s].seen) /\ row.request = arms[s].seen[n + 1]
          /\ row.route = arms[s].route /\ row.from + row.count <= poolCursor
          /\ row.from \in Nat /\ row.count \in Nat
      BY <2>4, <3>1, GivenRowIs
    <3> QED BY <1>1, <1>3, <2>1, <2>4, <3>1, <3>2
  <2> QED BY <2>1, <2>3, <2>4
<1>8. SeenCoverTheRing'
  <2> SUFFICES ASSUME NEW c \in Nat, LiveAt(c)', NEW s \in ArmSlots,
                      arms'[s].until > now',
                      arms'[s].route = served'[RowAt(c)'.request].route,
                      arms'[s].armedAt <= served'[RowAt(c)'.request].startedAt
               PROVE  \E n \in 1 .. Len(arms'[s].seen) : arms'[s].seen[n] = RowAt(c)'.request
    BY DEF SeenCoverTheRing
  <2>1. CASE LiveAt(c) /\ RowAt(c)' = RowAt(c)
    <3>1. PICK n \in 1 .. Len(arms[s].seen) : arms[s].seen[n] = RowAt(c).request
      BY <1>1, <1>5, <2>1 DEF BoxIInv, SeenCoverTheRing
    <3>2. n \in 1 .. Len(arms'[s].seen) /\ arms'[s].seen[n] = arms[s].seen[n]
      BY <1>3
    <3>3. arms'[s].seen[n] = RowAt(c)'.request
      BY <2>1, <3>1, <3>2
    <3> QED BY <3>2, <3>3, Zenon
  <2>2. CASE RowAt(c)'.request = r
    <3>1. s = slot
      BY <1>1, <1>5, <2>2, GivenToTheLive
    <3>2. w + 1 \in 1 .. Len(arms'[s].seen)
      <4>1. Len(arms'[slot].seen) = w + 1
        BY <1>1
      <4>2. w + 1 \in 1 .. w + 1
        BY <1>2
      <4> QED BY <3>1, <4>1, <4>2, Zenon
    <3>3. arms'[s].seen[w + 1] = RowAt(c)'.request
      <4>1. arms'[slot].seen[w + 1] = r
        BY <1>1
      <4> QED BY <2>2, <3>1, <4>1, Zenon
    <3> HIDE DEF w
    <3> QED BY <3>2, <3>3
  <2> QED BY <2>1, <2>2, RowsAfter
<1> QED BY <1>6, <1>7, <1>8

\* A row kept keeps the types, and the arms as they are.
LEMMA KeptKeepsTypes ==
  ASSUME BoxIInv, NEW r \in Started, NEW labels \in DependencyLists, Finishes(r, labels),
         NEW slot \in ArmSlots, KeepRow(r, slot)
  PROVE  BoxTypes' /\ Past' /\ LiveIsFirst'
<1>1. /\ UNCHANGED <<now, served>> /\ Started' = Started /\ now \in Time
      /\ served \in Seq([route : Route, startedAt : Time]) /\ Len(served) = Len(ctx')
  BY FinishFacts
<1>2. /\ arms' \in [ArmSlots -> ArmType] /\ reserve' \in [ReserveSlots -> KeptType]
      /\ pool' \in [0 .. PoolCapacity - 1 -> PoolType]
      /\ \A p \in 0 .. PoolCapacity - 1 :
           \/ pool'[p] = pool[p]
           \/ poolCursor <= pool'[p].at /\ pool'[p].at < poolCursor'
  BY ReserveWritten, PoolWritten
<1>3. /\ poolCursor' = poolCursor + Count(r) /\ poolCursor \in Nat /\ Count(r) \in Nat
      /\ liveUntil' = liveUntil /\ liveUntil \in Int
  BY KeepRowIs, HandedOverIs, BoxFacts
<1>4. \A s \in ArmSlots : /\ arms'[s].route = arms[s].route /\ arms'[s].until = arms[s].until
                          /\ arms'[s].armedAt = arms[s].armedAt
                          /\ arms'[s].written = Len(arms'[s].seen)
  BY SeenGrows
<1>5. \A p \in 0 .. PoolCapacity - 1 : pool'[p].at < poolCursor'
  <2>1. \A p \in 0 .. PoolCapacity - 1 : pool[p].at < poolCursor /\ pool[p].at \in Int
    <3>1. pool \in [0 .. PoolCapacity - 1 -> PoolType] /\ \A x \in PoolType : x.at \in Int
      BY BoxFacts DEF BoxTypes, PoolType
    <3> QED BY <3>1, BoxFacts DEF BoxTypes
  <2> QED BY <1>2, <1>3, <2>1
<1>6. \A s \in ArmSlots : arms[s].armedAt <= arms[s].until /\ liveUntil >= arms[s].until
  BY BoxFacts
<1>7. BoxTypes'
  BY <1>1, <1>2, <1>3, <1>4, <1>5, <1>6 DEF BoxTypes
<1>8. Past' /\ LiveIsFirst'
  BY <1>1, <1>4 DEF BoxIInv, Past, LiveIsFirst
<1> QED BY <1>7, <1>8

\* A row kept of a request is of its time.
LEMMA KeptKeepsTime ==
  ASSUME BoxIInv, NEW r \in Started, NEW labels \in DependencyLists, Finishes(r, labels),
         NEW slot \in ArmSlots, KeepRow(r, slot)
  PROVE  KeptInItsTime'
<1>1. /\ \A q \in Started : ctx'[q].beside = ctx[q].beside
      /\ ctx[r].open /\ FineIInv
  BY FinishFacts DEF BoxIInv
<1>2. /\ poolCursor' = poolCursor + Count(r) /\ poolCursor \in Nat /\ Count(r) \in Nat
      /\ PoolCapacity \in Nat \ {0}
      /\ \A s \in ArmSlots, n \in Nat : IsLast(s, n)' =>
           \/ s = slot /\ n = arms[slot].written
           \/ IsLast(s, n) /\ GivenRow(s, n)' = GivenRow(s, n)
      /\ reserve'[RowIndex(slot, arms[slot].written)] = KeptRow(r)
  BY KeepRowIs, ReserveWritten, HandedOverIs, BoxFacts, ReserveConstants, FinishFacts
<1> SUFFICES ASSUME NEW s \in ArmSlots, NEW n \in Nat, IsLast(s, n)'
             PROVE  KeptOfItsTime(GivenRow(s, n))'
  BY DEF KeptInItsTime
<1>3. CASE s = slot /\ n = arms[slot].written
  <2>1. GivenRow(s, n)' = KeptRow(r)
    BY <1>2, <1>3 DEF GivenRow, RowIndex
  <2> PICK row : row = KeptRow(r)
    OBVIOUS
  <2>2. row.request = r /\ row.from = poolCursor /\ row.count = Count(r)
    BY DEF KeptRow
  <2>3. ASSUME NEW i \in 1 .. Count(r), i <= PerRequest
        PROVE  pool'[(poolCursor + i - 1) % PoolCapacity].owner \in OfItsTime(r)'
    <3>1. operations[(ctx[r].from + i - 1) % OpCapacity].owner \in OfItsTime(r)
      BY <1>1, <2>3, HandedOverInItsTime
    <3>2. pool'[(poolCursor + i - 1) % PoolCapacity] =
            [owner |-> operations[(ctx[r].from + i - 1) % OpCapacity].owner,
             at |-> poolCursor + i - 1]
      BY PoolWritten
    <3>3. OfItsTime(r)' = OfItsTime(r)
      BY <1>1 DEF OfItsTime
    <3> QED BY <3>1, <3>2, <3>3
  <2>4. KeptOfItsTime(row)'
    BY <2>2, <2>3 DEF KeptOfItsTime, StillKept, PoolOf
  <2> QED BY <2>1, <2>4 DEF KeptOfItsTime, StillKept, PoolOf, OfItsTime
<1>4. CASE IsLast(s, n) /\ GivenRow(s, n)' = GivenRow(s, n)
  <2> PICK row : row = GivenRow(s, n)
    OBVIOUS
  <2>1. /\ row.request \in Started /\ row.from \in Nat /\ row.count \in Nat
        /\ row.from + row.count <= poolCursor
    BY <1>4, GivenRowIs
  <2>2. KeptOfItsTime(row) /\ OfItsTime(row.request)' = OfItsTime(row.request)
    BY <1>1, <1>4, <2>1 DEF BoxIInv, KeptInItsTime, OfItsTime
  <2>3. ASSUME NEW i \in 1 .. row.count,
               pool'[(row.from + i - 1) % PoolCapacity].at = row.from + i - 1
        PROVE  pool'[(row.from + i - 1) % PoolCapacity] = pool[(row.from + i - 1) % PoolCapacity]
    <3> DEFINE k == row.from + i - 1
               p == k % PoolCapacity
    <3>1. k \in Nat /\ k \in Int /\ k < poolCursor
      BY <1>2, <2>1
    <3>2. p \in 0 .. PoolCapacity - 1
      <4> HIDE DEF k
      <4> QED BY <1>2, <3>1, ModRange
    <3>3. pool'[p].at = k
      BY <2>3
    <3> HIDE DEF p, k
    <3>4. pool'[p] = pool[p]
      BY <1>2, <3>1, <3>2, <3>3, PoolWritten
    <3> QED BY <3>4 DEF p, k
  <2>4. KeptOfItsTime(row)'
    BY <2>2, <2>3 DEF KeptOfItsTime, StillKept, PoolOf
  <2> QED BY <1>4, <2>4 DEF KeptOfItsTime, StillKept, PoolOf, OfItsTime
<1> QED BY <1>2, <1>3, <1>4

\* A row kept moves the pool's cursor past what it writes, and no further.
LEMMA KeptKeepsPool ==
  ASSUME BoxIInv, NEW r \in Started, NEW slot \in ArmSlots, KeepRow(r, slot)
  PROVE  PoolInPlace'
<1>1. /\ poolCursor' = poolCursor + Count(r) /\ poolCursor \in Nat
      /\ Count(r) \in Nat /\ Count(r) <= PoolCapacity /\ PoolCapacity \in Nat \ {0}
  BY KeepRowIs, HandedOverIs, BoxFacts, ReserveConstants
<1>2. /\ \A i \in 1 .. Count(r) :
           pool'[(poolCursor + i - 1) % PoolCapacity].at = poolCursor + i - 1
      /\ \A k \in Nat : k < poolCursor /\ poolCursor + Count(r) - k <= PoolCapacity =>
           pool'[k % PoolCapacity] = pool[k % PoolCapacity]
      /\ \A p \in 0 .. PoolCapacity - 1 :
           \/ pool'[p] = pool[p]
           \/ poolCursor <= pool'[p].at /\ pool'[p].at % PoolCapacity = p
  <2>1. \A i \in 1 .. Count(r) :
           pool'[(poolCursor + i - 1) % PoolCapacity] =
             [owner |-> operations[(ctx[r].from + i - 1) % OpCapacity].owner,
              at |-> poolCursor + i - 1]
    BY PoolWritten
  <2>2. ASSUME NEW i \in 1 .. Count(r)
        PROVE  pool'[(poolCursor + i - 1) % PoolCapacity].at = poolCursor + i - 1
    <3>1. pool'[(poolCursor + i - 1) % PoolCapacity] =
            [owner |-> operations[(ctx[r].from + i - 1) % OpCapacity].owner,
             at |-> poolCursor + i - 1]
      BY <2>1, Zenon
    <3> QED BY <3>1
  <2>3. \A k \in Nat : k < poolCursor /\ poolCursor + Count(r) - k <= PoolCapacity =>
           pool'[k % PoolCapacity] = pool[k % PoolCapacity]
    BY PoolWritten
  <2>4. \A p \in 0 .. PoolCapacity - 1 :
           \/ pool'[p] = pool[p]
           \/ poolCursor <= pool'[p].at /\ pool'[p].at % PoolCapacity = p
    BY PoolWritten
  <2> QED BY <2>2, <2>3, <2>4
<1>3. /\ \A k \in Nat : poolCursor - PoolCapacity <= k /\ k < poolCursor =>
           pool[k % PoolCapacity].at = k
      /\ \A p \in 0 .. PoolCapacity - 1 : pool[p].at # -1 =>
           pool[p].at % PoolCapacity = p /\ poolCursor - PoolCapacity <= pool[p].at
      /\ \A p \in 0 .. PoolCapacity - 1 : pool[p].at \in Nat \cup {-1} /\ pool[p].at < poolCursor
  <2>1. /\ pool \in [0 .. PoolCapacity - 1 -> PoolType]
        /\ \A x \in PoolType : x.at \in Nat \cup {-1}
    BY DEF BoxIInv, BoxTypes, PoolType
  <2> QED BY <2>1 DEF BoxIInv, BoxTypes, PoolInPlace
<1>4. ASSUME NEW k \in Nat, poolCursor' - PoolCapacity <= k, k < poolCursor'
      PROVE  pool'[k % PoolCapacity].at = k
  <2>1. CASE k >= poolCursor
    <3>1. PICK i : i = k - poolCursor + 1
      OBVIOUS
    <3>2. i \in 1 .. Count(r) /\ poolCursor + i - 1 = k
      BY <1>1, <1>4, <2>1, <3>1
    <3> QED BY <1>2, <3>2
  <2>2. CASE k < poolCursor
    <3>1. poolCursor + Count(r) - k <= PoolCapacity /\ poolCursor - PoolCapacity <= k
      BY <1>1, <1>4, <2>2
    <3> QED BY <1>2, <1>3, <2>2, <3>1
  <2> QED BY <1>1, <2>1, <2>2
<1>5. ASSUME NEW p \in 0 .. PoolCapacity - 1, pool'[p].at # -1
      PROVE  pool'[p].at % PoolCapacity = p /\ poolCursor' - PoolCapacity <= pool'[p].at
  <2>1. CASE pool'[p] = pool[p]
    <3> PICK a : a = pool[p].at
      OBVIOUS
    <3>1. /\ a \in Nat /\ a % PoolCapacity = p /\ poolCursor - PoolCapacity <= a
          /\ a < poolCursor /\ pool'[p].at = a
      BY <1>3, <1>5, <2>1
    <3>2. ASSUME a < poolCursor' - PoolCapacity
          PROVE  FALSE
      <4>1. PICK k : k = a + PoolCapacity
        OBVIOUS
      <4>2. k \in Nat /\ poolCursor' - PoolCapacity <= k /\ k < poolCursor' /\ k # a
        BY <1>1, <3>1, <3>2, <4>1
      <4>3. k % PoolCapacity = p
        <5>1. (a + PoolCapacity) % PoolCapacity = a % PoolCapacity
          <6>1. a \in Int /\ PoolCapacity \in Nat \ {0}
            BY <1>1, <3>1
          <6> QED BY <6>1, ModRound, Zenon
        <5> QED BY <3>1, <4>1, <5>1
      <4>4. pool'[p].at = k
        BY <1>4, <4>2, <4>3
      <4> QED BY <3>1, <4>2, <4>4
    <3> QED BY <1>1, <3>1, <3>2
  <2>2. CASE poolCursor <= pool'[p].at /\ pool'[p].at % PoolCapacity = p
    <3> PICK a : a = pool'[p].at
      OBVIOUS
    <3>1. a \in Int
      <4>1. /\ pool' \in [0 .. PoolCapacity - 1 -> PoolType]
            /\ \A x \in PoolType : x.at \in Int
        BY PoolWritten DEF PoolType
      <4> QED BY <4>1
    <3>2. poolCursor' - PoolCapacity <= a
      BY <1>1, <2>2, <3>1
    <3> QED BY <2>2, <3>2
  <2> QED BY <1>2, <2>1, <2>2
<1> QED BY <1>4, <1>5 DEF PoolInPlace

\* An order to arm prolongs the route's arm, or begins one in the first slot that is free.
LEMMA ArmStep ==
  ASSUME BoxIInv, NEW route \in Route, Arm(route)
  PROVE  \E m \in ArmSlots :
           /\ \A s \in ArmSlots : s # m => arms'[s] = arms[s]
           /\ arms' \in [ArmSlots -> ArmType] /\ arms'[m].until = now' + ArmFor
           /\ \/ /\ arms[m].until > now'
                 /\ arms'[m].route = arms[m].route /\ arms'[m].armedAt = arms[m].armedAt
                 /\ arms'[m].written = arms[m].written /\ arms'[m].seen = arms[m].seen
              \/ /\ arms'[m].route = route /\ arms'[m].armedAt = now'
                 /\ arms'[m].written = 0 /\ arms'[m].seen = <<>>
                 /\ \A t \in ArmSlots :
                      /\ arms[t].route = route => arms[t].until <= now'
                      /\ arms[t].until <= now' => m <= t
<1> DEFINE live == LiveSlots(route, now')
           free == FreeSlots(now')
           until == now' + ArmFor
           slots == Armable(route, now')
           m == MinOf(slots)
           longer == [arms[m] EXCEPT !.until = until]
           fresh == [route |-> route, armedAt |-> now', until |-> until, written |-> 0,
                     seen |-> <<>>]
<1>1. /\ Instant /\ slots # {}
      /\ arms' = [arms EXCEPT ![m] = IF m \in live THEN longer ELSE fresh]
  BY DEF Arm
<1>2. /\ now' \in Nat /\ until \in Int /\ ArmFor \in Nat
  BY <1>1, InstantIs, ReserveConstants
<1>3. /\ arms \in [ArmSlots -> ArmType] /\ \A s \in ArmSlots : arms[s].until \in Int
  BY BoxFacts DEF BoxTypes
<1>4. /\ slots \in SUBSET Nat /\ slots \subseteq ArmSlots
      /\ slots = IF live # {} THEN live ELSE free
  BY ReserveConstants DEF Armable, LiveSlots, FreeSlots
<1>5. m \in slots /\ \A t \in slots : m <= t
  <2> HIDE DEF slots
  <2> QED BY <1>1, <1>4, MinIsLeast
<1>6. m \in ArmSlots
  BY <1>4, <1>5
<1>7. \A s : s \in live <=> s \in ArmSlots /\ arms[s].route = route /\ arms[s].until > now'
  BY DEF LiveSlots
<1>8. \A s : s \in free <=> s \in ArmSlots /\ arms[s].until <= now'
  BY DEF FreeSlots
<1>9. fresh \in ArmType
  BY <1>2 DEF ArmType
<1>10. /\ longer \in ArmType /\ longer.until = until
       /\ longer.route = arms[m].route /\ longer.armedAt = arms[m].armedAt
       /\ longer.written = arms[m].written /\ longer.seen = arms[m].seen
  <2> PICK u : u = until
    OBVIOUS
  <2> PICK arm : arm = arms[m]
    OBVIOUS
  <2>1. arm \in ArmType /\ u \in Int
    BY <1>2, <1>3, <1>6
  <2>2. longer = [arm EXCEPT !.until = u]
    OBVIOUS
  <2> HIDE DEF longer
  <2>3. longer \in ArmType /\ longer.until = u
    BY <2>1, <2>2 DEF ArmType
  <2>4. /\ longer.route = arm.route /\ longer.armedAt = arm.armedAt
        /\ longer.written = arm.written /\ longer.seen = arm.seen
    BY <2>1, <2>2 DEF ArmType
  <2> QED BY <2>3, <2>4
<1>11. /\ fresh.route = route /\ fresh.armedAt = now' /\ fresh.until = until
       /\ fresh.written = 0 /\ fresh.seen = <<>>
  OBVIOUS
<1> HIDE DEF live, free, slots, m, longer, fresh, until
<1>12. CASE live # {}
  <2>1. m \in live
    BY <1>4, <1>5, <1>12
  <2>2. arms' = [arms EXCEPT ![m] = longer] /\ arms[m].until > now'
    BY <1>1, <1>7, <2>1
  <2>3. /\ \A s \in ArmSlots : s # m => arms'[s] = arms[s]
        /\ arms' \in [ArmSlots -> ArmType] /\ arms'[m] = longer
    BY <1>3, <1>6, <1>10, <2>2
  <2> QED BY <1>6, <1>10, <2>2, <2>3 DEF until
<1>13. CASE live = {}
  <2>1. arms' = [arms EXCEPT ![m] = fresh]
    BY <1>1, <1>13
  <2>2. /\ \A s \in ArmSlots : s # m => arms'[s] = arms[s]
        /\ arms' \in [ArmSlots -> ArmType] /\ arms'[m] = fresh
    BY <1>3, <1>6, <1>9, <2>1
  <2>3. ASSUME NEW t \in ArmSlots
        PROVE  /\ arms[t].route = route => arms[t].until <= now'
               /\ arms[t].until <= now' => m <= t
    <3>1. arms[t].route = route => arms[t].until <= now'
      BY <1>2, <1>3, <1>7, <1>13
    <3>2. arms[t].until <= now' => m <= t
      BY <1>4, <1>5, <1>8, <1>13
    <3> QED BY <3>1, <3>2
  <2> QED BY <1>6, <1>11, <2>2, <2>3 DEF until
<1> QED BY <1>12, <1>13

\* An arm, new or renewed, keeps the invariant.
LEMMA ArmKeeps ==
  ASSUME BoxIInv, NEW route \in Route, Arm(route)
  PROVE  BoxIInv'
<1>1. /\ Instant /\ UNCHANGED <<vars, served, reserve, pool, poolCursor>>
      /\ liveUntil' = IF now' + ArmFor > liveUntil THEN now' + ArmFor ELSE liveUntil
  BY DEF Arm
<1>2. /\ now' \in Time /\ now' \in Nat /\ now \in Nat /\ now < now' /\ ArmFor \in Nat
      /\ liveUntil \in Int /\ FineTypeOK
  BY <1>1, InstantIs, ReserveConstants, BoxFacts
<1>3. FineIInv' /\ Started' = Started /\ UNCHANGED <<ctx, requests, requestCursor>>
  BY <1>1, FineStep DEF BoxIInv, vars, Started
<1> PICK m \in ArmSlots :
      /\ \A s \in ArmSlots : s # m => arms'[s] = arms[s]
      /\ arms' \in [ArmSlots -> ArmType] /\ arms'[m].until = now' + ArmFor
      /\ \/ /\ arms[m].until > now'
            /\ arms'[m].route = arms[m].route /\ arms'[m].armedAt = arms[m].armedAt
            /\ arms'[m].written = arms[m].written /\ arms'[m].seen = arms[m].seen
         \/ /\ arms'[m].route = route /\ arms'[m].armedAt = now'
            /\ arms'[m].written = 0 /\ arms'[m].seen = <<>>
            /\ \A t \in ArmSlots :
                 /\ arms[t].route = route => arms[t].until <= now'
                 /\ arms[t].until <= now' => m <= t
  BY ArmStep
<1> DEFINE Same(s) == /\ arms'[s].route = arms[s].route /\ arms'[s].armedAt = arms[s].armedAt
                      /\ arms'[s].written = arms[s].written /\ arms'[s].seen = arms[s].seen
<1>4. \A s \in ArmSlots : /\ arms[s].until \in Int /\ arms[s].until <= liveUntil
                          /\ arms[s].armedAt <= arms[s].until /\ arms[s].armedAt <= now
                          /\ arms[s].armedAt \in Int
                          /\ arms[s].written = Len(arms[s].seen) /\ arms[s].written \in Nat
  BY BoxFacts
<1>5. \A s \in ArmSlots : s # m => Same(s) /\ arms'[s].until = arms[s].until
  OBVIOUS
<1>6. \/ arms[m].until > now' /\ Same(m)
      \/ arms'[m].armedAt = now' /\ arms'[m].written = 0 /\ arms'[m].seen = <<>>
  OBVIOUS
\* What lives and has rows had them before, and lived.
<1>7. \A s \in ArmSlots :
        \/ Same(s) /\ (arms'[s].until > now' => arms[s].until > now)
        \/ arms'[s].armedAt = now' /\ arms'[s].written = 0 /\ arms'[s].seen = <<>>
  <2> TAKE s \in ArmSlots
  <2>1. arms[s].until > now' => arms[s].until > now
    BY <1>2, <1>4
  <2>2. CASE s # m
    BY <1>5, <2>1, <2>2
  <2>3. CASE s = m
    BY <1>6, <2>1, <2>3
  <2> HIDE DEF Same
  <2> QED BY <2>2, <2>3
<1>8. BoxTypes'
  <2>1. \A s \in ArmSlots : /\ arms'[s].armedAt <= arms'[s].until
                            /\ arms'[s].written = Len(arms'[s].seen)
                            /\ liveUntil' >= arms'[s].until
    <3>1. \A s \in ArmSlots : s # m =>
             /\ arms'[s].armedAt <= arms'[s].until /\ arms'[s].written = Len(arms'[s].seen)
             /\ liveUntil' >= arms'[s].until
      BY <1>1, <1>2, <1>4, <1>5
    <3>2. arms'[m].written = Len(arms'[m].seen)
      BY <1>4, <1>6
    <3>3. arms'[m].armedAt <= arms'[m].until /\ liveUntil' >= arms'[m].until
      BY <1>1, <1>2, <1>4, <1>6
    <3> QED BY <3>1, <3>2, <3>3
  <2>2. liveUntil' \in Int
    <3>1. now' + ArmFor \in Int
      BY <1>2
    <3>2. liveUntil' = now' + ArmFor \/ liveUntil' = liveUntil
      BY <1>1, Zenon
    <3> QED BY <1>2, <3>1, <3>2
  <2> QED BY <1>1, <1>2, <1>3, <2>1, <2>2 DEF BoxIInv, BoxTypes
<1>9. Past'
  <2>1. \A s \in ArmSlots : arms'[s].armedAt <= now'
    BY <1>2, <1>4, <1>7
  <2>2. \A r \in Started : served[r].startedAt <= now'
    BY <1>2, BoxFacts
  <2> QED BY <1>1, <1>3, <2>1, <2>2 DEF Past
<1>10. LiveIsFirst'
  <2> SUFFICES ASSUME NEW s \in ArmSlots, NEW t \in ArmSlots,
                      arms'[s].until > now', arms'[t].route = arms'[s].route
               PROVE  s <= t
    BY DEF LiveIsFirst
  <2>1. CASE arms[m].until > now' /\ Same(m)
    <3>1. arms[t].route = arms[s].route
      BY <1>5, <2>1
    <3>2. arms[s].until > now'
      BY <1>5, <2>1
    <3>3. arms[s].until > now
      BY <1>2, <1>4, <3>2
    <3> QED BY <3>1, <3>3 DEF BoxIInv, LiveIsFirst
  <2>2. CASE /\ arms'[m].route = route
             /\ \A x \in ArmSlots : /\ arms[x].route = route => arms[x].until <= now'
                                    /\ arms[x].until <= now' => m <= x
    <3>1. CASE s # m /\ t # m
      <4>1. arms[s].until > now /\ arms[t].route = arms[s].route
        BY <1>2, <1>4, <1>5, <3>1
      <4> QED BY <4>1 DEF BoxIInv, LiveIsFirst
    <3>2. CASE s = m /\ t # m
      <4>1. arms[t].route = route
        BY <1>5, <2>2, <3>2
      <4> QED BY <2>2, <3>2, <4>1
    <3>3. CASE s # m /\ t = m
      <4>1. arms[s].route = route /\ arms[s].until > now'
        BY <1>5, <2>2, <3>3
      <4> QED BY <1>2, <1>4, <2>2, <4>1
    <3>4. CASE s = m /\ t = m
      BY <3>4, ReserveConstants
    <3> QED BY <3>1, <3>2, <3>3, <3>4
  <2> QED BY <2>1, <2>2
<1>11. SeenAreItsOwn'
  BY <1>1, <1>3, <1>7 DEF BoxIInv, SeenAreItsOwn
<1>12. \A s \in ArmSlots, n \in Nat : IsLast(s, n)' =>
         /\ IsLast(s, n) /\ GivenRow(s, n)' = GivenRow(s, n) /\ Same(s)
         /\ arms'[s].until > now' => arms[s].until > now
  BY <1>1, <1>7 DEF IsLast, GivenRow, RowIndex
<1>13. GivenInPlace'
  BY <1>1, <1>12 DEF BoxIInv, GivenInPlace
<1>14. SeenCoverTheRing'
  <2> SUFFICES ASSUME NEW c \in Nat, LiveAt(c)', NEW s \in ArmSlots,
                      arms'[s].until > now',
                      arms'[s].route = served'[RowAt(c)'.request].route,
                      arms'[s].armedAt <= served'[RowAt(c)'.request].startedAt
               PROVE  \E n \in 1 .. Len(arms'[s].seen) : arms'[s].seen[n] = RowAt(c)'.request
    BY DEF SeenCoverTheRing
  <2>1. LiveAt(c) /\ RowAt(c)' = RowAt(c)
    BY <1>3 DEF LiveAt, RowAt
  <2>2. RowAt(c).request \in Started
    BY <2>1, LiveRow DEF BoxIInv
  <2>3. served[RowAt(c).request].startedAt \in Nat /\ served[RowAt(c).request].startedAt <= now
    BY <2>2, BoxFacts
  <2>4. Same(s) /\ (arms'[s].until > now' => arms[s].until > now)
    BY <1>1, <1>2, <1>7, <2>1, <2>3
  <2> QED BY <1>1, <2>1, <2>4 DEF BoxIInv, SeenCoverTheRing
<1>15. PoolInPlace'
  BY <1>1 DEF BoxIInv, PoolInPlace
<1>16. KeptInItsTime'
  BY <1>1, <1>3, <1>12 DEF BoxIInv, KeptInItsTime, KeptOfItsTime, StillKept, PoolOf, OfItsTime
<1> QED BY <1>3, <1>8, <1>9, <1>10, <1>11, <1>13, <1>14, <1>15, <1>16 DEF BoxIInv

\* A finish, kept in the reserve or not, keeps the invariant.
LEMMA FinishesKeeps ==
  ASSUME BoxIInv, NEW r \in Started, NEW labels \in DependencyLists, Finishes(r, labels)
  PROVE  BoxIInv'
<1>1. CASE UNCHANGED reserveVars
  BY <1>1, UnkeptKeeps
<1>2. CASE ~ UNCHANGED reserveVars
  <2> DEFINE live == LiveSlots(served[r].route, served[r].startedAt)
  <2>1. /\ requestCursor' # requestCursor /\ live # {} /\ KeepRow(r, MinOf(live))
    BY <1>2 DEF Finishes, Observe
  <2>2. WriteRow(r, labels)
    BY <2>1, FinishFacts, FinishWrites
  <2> PICK slot : slot = MinOf(live)
    OBVIOUS
  <2>3. slot \in ArmSlots /\ arms[slot].route = served[r].route
    BY <2>1, KeptSlot
  <2>4. BoxTypes' /\ Past' /\ LiveIsFirst' /\ KeptInItsTime'
    BY <2>1, <2>3, KeptKeepsTypes, KeptKeepsTime
  <2>5. SeenAreItsOwn' /\ GivenInPlace' /\ SeenCoverTheRing'
    BY <2>1, <2>2, <2>3, KeptKeepsSeen
  <2>6. PoolInPlace'
    BY <2>1, <2>3, KeptKeepsPool
  <2>7. FineIInv'
    BY FinishFacts
  <2> QED BY <2>4, <2>5, <2>6, <2>7 DEF BoxIInv
<1> QED BY <1>1, <1>2

\* The invariant holds at first.
LEMMA BoxInitially ==
  ASSUME BoxInit
  PROVE  BoxIInv
<1>1. /\ Init /\ now = 0 /\ served = <<>>
      /\ arms = [s \in ArmSlots |-> NeverArmed]
      /\ reserve = [k \in ReserveSlots |-> BlankKept]
      /\ pool = [p \in 0 .. PoolCapacity - 1 |-> Blank]
      /\ poolCursor = 0 /\ liveUntil = -1
  BY DEF BoxInit
<1>2. FineIInv /\ ctx = <<>> /\ Started = {}
  BY <1>1, FineInitially DEF Init, Started
<1>3. /\ NeverArmed \in ArmType /\ NeverArmed.armedAt = -1 /\ NeverArmed.until = -1
      /\ NeverArmed.written = 0 /\ NeverArmed.seen = <<>> /\ Len(NeverArmed.seen) = 0
  BY DEF NeverArmed, ArmType
<1>4. BlankKept \in KeptType
  BY Constants, ReserveConstants DEF BlankKept, KeptType
<1>5. Blank \in PoolType /\ Blank.at = -1
  BY Constants DEF Blank, PoolType
<1>6. BoxTypes
  <2>1. /\ arms \in [ArmSlots -> ArmType] /\ reserve \in [ReserveSlots -> KeptType]
        /\ pool \in [0 .. PoolCapacity - 1 -> PoolType]
    BY <1>1, <1>3, <1>4, <1>5
  <2>2. \A s \in ArmSlots : /\ arms[s].armedAt <= arms[s].until
                            /\ arms[s].written = Len(arms[s].seen)
                            /\ liveUntil >= arms[s].until
    BY <1>1, <1>3
  <2>3. \A p \in 0 .. PoolCapacity - 1 : pool[p].at < poolCursor
    BY <1>1, <1>5
  <2>4. now \in Time /\ poolCursor \in Nat /\ liveUntil \in Int
    BY <1>1, ReserveConstants DEF Time
  <2>5. served \in Seq([route : Route, startedAt : Time]) /\ Len(served) = Len(ctx)
    BY <1>1, <1>2
  <2> QED BY <2>1, <2>2, <2>3, <2>4, <2>5 DEF BoxTypes
<1>7. \A s \in ArmSlots : ~(arms[s].until > now) /\ arms[s].armedAt <= now
  BY <1>1, <1>3
<1>8. \A s \in ArmSlots, n \in Nat : ~IsLast(s, n)
  BY <1>1, <1>3 DEF IsLast
<1>9. Past /\ LiveIsFirst
  BY <1>2, <1>7 DEF Past, LiveIsFirst
<1>10. SeenAreItsOwn
  BY <1>1, <1>3 DEF SeenAreItsOwn
<1>11. GivenInPlace /\ SeenCoverTheRing /\ KeptInItsTime
  BY <1>7, <1>8 DEF GivenInPlace, SeenCoverTheRing, KeptInItsTime
<1>12. PoolInPlace
  BY <1>1, <1>5, ReserveConstants DEF PoolInPlace
<1> QED BY <1>2, <1>6, <1>9, <1>10, <1>11, <1>12 DEF BoxIInv

\* Every step keeps the invariant.
LEMMA BoxStep ==
  ASSUME BoxIInv, [BoxNext]_boxVars
  PROVE  BoxIInv'
<1>1. ASSUME NEW route \in Route, Starts(route) \/ Arm(route)
      PROVE  BoxIInv'
  BY <1>1, StartsKeeps, ArmKeeps
<1>2. ASSUME NEW r \in Started, Runs(r)
      PROVE  BoxIInv'
  BY <1>2, RunsKeeps
<1>3. ASSUME NEW r \in Started, NEW labels \in DependencyLists, Finishes(r, labels)
      PROVE  BoxIInv'
  BY <1>3, FinishesKeeps
<1>4. keeping \in BOOLEAN /\ now \in Time /\ now <= now
  BY BoxFacts, RingTypes DEF BoxTypes
<1>5. CASE Tick
  <2>1. now' \in Time /\ now <= now'
    BY <1>5, InstantIs DEF Tick
  <2>2. UNCHANGED <<vars, served, reserveVars>>
    BY <1>5 DEF Tick
  <2>3. UNCHANGED <<ctx, ringVars, writeVars, sample, ran, touched, served, reserveVars>>
    BY <2>2 DEF vars
  <2>4. keeping' \in BOOLEAN
    BY <1>4, <2>2 DEF vars
  <2> QED BY <2>1, <2>3, <2>4, RestKeeps
<1>6. CASE Meter
  <2>1. /\ UNCHANGED <<ctx, ringVars, writeVars, sample, ran, touched, served, reserveVars>>
        /\ keeping' = ~keeping /\ now' = now
    BY <1>6 DEF Meter, ShedOrRecover
  <2>2. keeping' \in BOOLEAN
    BY <2>1
  <2> QED BY <1>4, <2>1, <2>2, RestKeeps
<1>7. CASE UNCHANGED boxVars
  BY <1>4, <1>7, RestKeeps DEF boxVars, vars
<1> QED BY <1>1, <1>2, <1>3, <1>5, <1>6, <1>7 DEF BoxNext

\* The two registers beside each other keep their rings, and the reserve's last rows, in
\* place for every size of them (fine.ts 195-310, prearm.ts 214-362).
THEOREM BoxInvariant == BoxSpec => []BoxIInv
BY BoxInitially, BoxStep, PTL DEF BoxSpec

-----------------------------------------------------------------------------
\* What the invariant says.

\* Two arms that live are not of one route.
LEMMA OneLives ==
  ASSUME BoxIInv, NEW route
  PROVE  /\ \A s, t \in LiveSlots(route, now) : s = t
         /\ \A s \in LiveSlots(route, now) : MinOf(LiveSlots(route, now)) = s
         /\ Armed(route) => /\ MinOf(LiveSlots(route, now)) \in ArmSlots
                            /\ arms[MinOf(LiveSlots(route, now))].until > now
                            /\ arms[MinOf(LiveSlots(route, now))].route = route
<1> DEFINE live == LiveSlots(route, now)
<1>1. /\ live \in SUBSET Nat
      /\ \A s \in live : s \in ArmSlots /\ arms[s].route = route /\ arms[s].until > now
  BY ReserveConstants DEF LiveSlots
<1>2. \A s, t \in live : s <= t /\ s \in Nat /\ t \in Nat
  BY <1>1 DEF BoxIInv, LiveIsFirst
<1>3. \A s, t \in live : s = t
  BY <1>2
<1> HIDE DEF live
<1>4. live # {} => MinOf(live) \in live
  BY <1>1, MinIsLeast
<1>5. \A s \in live : MinOf(live) = s
  BY <1>3, <1>4
<1> QED BY <1>1, <1>3, <1>4, <1>5 DEF live, Armed

\* The invariant gives a route one live arm.
LEMMA OneArm ==
  ASSUME BoxIInv
  PROVE  OneArmPerRoute
<1> SUFFICES ASSUME NEW route \in Route
             PROVE  Cardinality(LiveSlots(route, now)) <= 1
  BY DEF OneArmPerRoute
<1> DEFINE live == LiveSlots(route, now)
<1>1. \A s, t \in live : s = t
  BY OneLives
<1> HIDE DEF live
<1>2. CASE live = {}
  BY <1>2, FS_EmptySet DEF live
<1>3. CASE live # {}
  <2> PICK s : s \in live
    BY <1>3
  <2>1. live = {s}
    BY <1>1
  <2>2. Cardinality(live) = 1
    BY <2>1, FS_Singleton
  <2> QED BY <2>2 DEF live
<1> QED BY <1>2, <1>3

\* The rows a capture reads of a route are its arm's last.
LEMMA RowsForAre ==
  ASSUME BoxIInv, NEW route, NEW m, m = MinOf(LiveSlots(route, now)), NEW row
  PROVE  row \in RowsFor(route) <=>
           /\ Armed(route) /\ m \in ArmSlots
           /\ \E n \in Nat : IsLast(m, n) /\ row = GivenRow(m, n)
<1>1. CASE ~Armed(route)
  BY <1>1 DEF RowsFor
<1>2. CASE Armed(route)
  <2>1. m \in ArmSlots /\ arms[m].route = route
    BY <1>2, OneLives
  <2>2. arms[m].written \in Nat /\ RowsPerArm \in Nat
    BY <2>1, BoxFacts, ReserveConstants
  <2> DEFINE w == arms[m].written
             held == Held(arms[m])
  <2>3. held = IF w <= RowsPerArm THEN w ELSE RowsPerArm
    BY <2>2, MinOfTwo DEF Held
  <2>4. w \in Nat
    BY <2>2
  <2>5. SlotRows(m) = {reserve[RowIndex(m, n)] : n \in w - held .. w - 1}
    BY DEF SlotRows
  <2> HIDE DEF w, held
  <2>6. \A n : n \in w - held .. w - 1 <=> n \in Nat /\ n < w /\ w - RowsPerArm <= n
    BY <2>2, <2>3, <2>4
  <2>7. \A n \in Nat : IsLast(m, n) <=> n \in w - held .. w - 1
    BY <2>6 DEF IsLast, w
  <2>8. row \in SlotRows(m) <=> \E n \in Nat : IsLast(m, n) /\ row = GivenRow(m, n)
    BY <2>5, <2>6, <2>7 DEF GivenRow
  <2>9. ASSUME NEW n \in Nat, IsLast(m, n), row = GivenRow(m, n)
        PROVE  row.route = route
    BY <2>1, <2>9, GivenRowIs
  <2>10. RowsFor(route) = {x \in SlotRows(m) : x.route = route}
    BY <1>2 DEF RowsFor
  <2> QED BY <1>2, <2>1, <2>8, <2>9, <2>10
<1> QED BY <1>1, <1>2

\* A row of the ring that the reserve takes the place of is in the reserve, while it fits.
LEMMA TakenIsKept ==
  ASSUME BoxIInv
  PROVE  CoversWhileItFits
<1> SUFFICES ASSUME \A s \in ArmSlots : arms[s].written <= RowsPerArm, NEW route \in Route,
                    NEW row \in RingRows(route)
             PROVE  row.request \in FromRing(route) \cup FromReserve(route)
  BY DEF CoversWhileItFits, ReserveCoversTheRing
<1> PICK m : m = MinOf(LiveSlots(route, now))
  OBVIOUS
<1>1. row \in LiveRows /\ served[row.request].route = route
  BY DEF RingRows
<1>2. CASE ~TakenByReserve(row)
  BY <1>2 DEF FromRing
<1>3. CASE TakenByReserve(row)
  <2>1. Armed(route) /\ served[row.request].startedAt >= arms[m].armedAt
    BY <1>1, <1>3 DEF TakenByReserve
  <2>2. m \in ArmSlots /\ arms[m].until > now /\ arms[m].route = route
    BY <2>1, OneLives
  <2>3. PICK c \in Nat : LiveAt(c) /\ row = RowAt(c)
    BY <1>1, LiveRowsAre DEF BoxIInv, FineIInv
  <2>4. row.request \in Started
    BY <2>3, LiveRow DEF BoxIInv
  <2>5. arms[m].armedAt <= served[row.request].startedAt
    BY <2>1, <2>2, <2>4, BoxFacts
  <2>6. PICK k \in 1 .. Len(arms[m].seen) : arms[m].seen[k] = row.request
    BY <1>1, <2>2, <2>3, <2>5 DEF BoxIInv, SeenCoverTheRing
  <2>7. PICK n : n = k - 1
    OBVIOUS
  <2>8. arms[m].written = Len(arms[m].seen) /\ arms[m].written \in Nat /\ RowsPerArm \in Nat
    BY <2>2, BoxFacts, ReserveConstants
  <2>9. arms[m].written - RowsPerArm <= 0
    BY <2>2, <2>8
  <2>10. n \in Nat /\ n + 1 = k /\ IsLast(m, n)
    BY <2>6, <2>7, <2>8, <2>9 DEF IsLast
  <2>11. GivenRow(m, n) \in RowsFor(route)
    BY <2>1, <2>2, <2>10, RowsForAre
  <2>12. GivenRow(m, n).request = row.request
    BY <2>2, <2>6, <2>10, GivenRowIs
  <2> QED BY <2>11, <2>12 DEF FromReserve
<1> QED BY <1>2, <1>3

\* What an armed route keeps is the last it was given.
LEMMA LastAreKept ==
  ASSUME BoxIInv, NEW route \in Route, Armed(route)
  PROVE  LET arm == arms[MinOf(LiveSlots(route, now))]
         IN FromReserve(route) =
              {arm.seen[n] : n \in {n \in DOMAIN arm.seen : n > Len(arm.seen) - RowsPerArm}}
<1> PICK m : m = MinOf(LiveSlots(route, now))
  OBVIOUS
<1> PICK seen : seen = arms[m].seen
  OBVIOUS
<1>1. m \in ArmSlots
  BY OneLives
<1>2. /\ seen \in Seq(Request) /\ arms[m].written = Len(seen) /\ Len(seen) \in Nat
      /\ RowsPerArm \in Nat /\ DOMAIN seen = 1 .. Len(seen)
  BY <1>1, BoxFacts, ReserveConstants
<1>3. ASSUME NEW q \in FromReserve(route)
      PROVE  \E n \in DOMAIN seen : n > Len(seen) - RowsPerArm /\ q = seen[n]
  <2>1. PICK row \in RowsFor(route) : q = row.request
    BY <1>3 DEF FromReserve
  <2>2. PICK n \in Nat : IsLast(m, n) /\ row = GivenRow(m, n)
    BY <2>1, RowsForAre
  <2>3. n + 1 \in 1 .. Len(seen) /\ q = seen[n + 1]
    BY <1>1, <2>1, <2>2, GivenRowIs
  <2>4. n + 1 > Len(seen) - RowsPerArm
    BY <1>2, <2>2 DEF IsLast
  <2> QED BY <1>2, <2>3, <2>4
<1>4. ASSUME NEW k \in DOMAIN seen, k > Len(seen) - RowsPerArm
      PROVE  seen[k] \in FromReserve(route)
  <2> PICK n : n = k - 1
    OBVIOUS
  <2>1. n \in Nat /\ n + 1 = k /\ IsLast(m, n)
    BY <1>2, <1>4 DEF IsLast
  <2>2. GivenRow(m, n) \in RowsFor(route)
    BY <1>1, <2>1, RowsForAre
  <2>3. GivenRow(m, n).request = seen[k]
    BY <1>1, <2>1, GivenRowIs
  <2> QED BY <2>2, <2>3 DEF FromReserve
<1>5. FromReserve(route) =
        {seen[n] : n \in {n \in DOMAIN seen : n > Len(seen) - RowsPerArm}}
  BY <1>3, <1>4
<1> QED BY <1>5

\* The invariant tells which rows the pool still has whole.
LEMMA PoolHolds ==
  ASSUME BoxIInv, NEW route \in Route, NEW row \in RowsFor(route)
  PROVE  RowLive(row) <=> row.count = 0 \/ poolCursor - row.from <= PoolCapacity
<1> PICK m : m = MinOf(LiveSlots(route, now))
  OBVIOUS
<1>1. PICK n \in Nat : m \in ArmSlots /\ IsLast(m, n) /\ row = GivenRow(m, n)
  BY RowsForAre
<1>2. /\ row.from \in Nat /\ row.count \in Nat /\ row.from + row.count <= poolCursor
      /\ poolCursor \in Nat /\ PoolCapacity \in Nat \ {0}
  BY <1>1, GivenRowIs, BoxFacts, ReserveConstants
<1>3. CASE row.count = 0
  BY <1>3 DEF RowLive
<1>4. ASSUME row.count # 0, RowLive(row)
      PROVE  poolCursor - row.from <= PoolCapacity
  <2> PICK p : p = row.from % PoolCapacity
    OBVIOUS
  <2>1. StillKept(row, 1)
    BY <1>2, <1>4 DEF RowLive
  <2>2. row.from + 1 - 1 = row.from
    BY <1>2
  <2>3. pool[p].at = row.from
    BY <2>1, <2>2 DEF StillKept, PoolOf
  <2>4. p \in 0 .. PoolCapacity - 1
    BY <1>2, ModRange
  <2>5. row.from # -1
    BY <1>2
  <2>6. poolCursor - PoolCapacity <= row.from
    BY <2>3, <2>4, <2>5 DEF BoxIInv, PoolInPlace
  <2> QED BY <1>2, <2>6
<1>5. ASSUME poolCursor - row.from <= PoolCapacity, NEW i \in 1 .. row.count
      PROVE  StillKept(row, i)
  <2> PICK k : k = row.from + i - 1
    OBVIOUS
  <2>1. k \in Nat /\ poolCursor - PoolCapacity <= k /\ k < poolCursor
    BY <1>2, <1>5
  <2>2. pool[k % PoolCapacity].at = k
    BY <2>1 DEF BoxIInv, PoolInPlace
  <2> QED BY <2>2 DEF StillKept, PoolOf
<1> QED BY <1>3, <1>4, <1>5 DEF RowLive

\* The invariant has no row of the reserve read what is not of its time.
LEMMA KeptIsOfItsTime ==
  ASSUME BoxIInv
  PROVE  ReserveOfItsTime
<1> SUFFICES ASSUME NEW route \in Route, NEW row \in RowsFor(route),
                    NEW i \in 1 .. MinOf({row.count, PerRequest}), StillKept(row, i)
             PROVE  PoolOf(row, i).owner \in OfItsTime(row.request)
  BY DEF ReserveOfItsTime
<1> PICK m : m = MinOf(LiveSlots(route, now))
  OBVIOUS
<1>1. PICK n \in Nat : m \in ArmSlots /\ IsLast(m, n) /\ row = GivenRow(m, n)
  BY RowsForAre
<1>2. row.count \in Nat /\ PerRequest \in Nat
  BY <1>1, GivenRowIs, Constants
<1>3. MinOf({row.count, PerRequest}) = IF row.count <= PerRequest THEN row.count ELSE PerRequest
  BY <1>2, MinOfTwo
<1>4. i \in 1 .. row.count /\ i <= PerRequest
  BY <1>2, <1>3
<1>5. KeptOfItsTime(row)
  BY <1>1 DEF BoxIInv, KeptInItsTime
<1> QED BY <1>4, <1>5 DEF KeptOfItsTime

\* The invariant implies the types.
LEMMA BoxTyped ==
  ASSUME BoxIInv
  PROVE  BoxTypeOK
<1>1. TypeOK /\ now \in Time
  BY DEF BoxIInv, FineIInv, FineTypeOK, BoxTypes
<1>2. served \in Seq([route : Route, startedAt : Time]) /\ Len(served) = Len(ctx)
  BY DEF BoxIInv, BoxTypes
<1>3. \A s \in ArmSlots :
        /\ arms[s].route \in Route \cup {"none"}
        /\ arms[s].armedAt <= arms[s].until /\ arms[s].written = Len(arms[s].seen)
        /\ liveUntil >= arms[s].until
  BY BoxFacts DEF BoxIInv, BoxTypes
<1>4. \A k \in ReserveSlots :
        reserve[k].request \in 0 .. MaxRequests /\ reserve[k].count \in 0 .. PoolCapacity
  BY DEF BoxIInv, BoxTypes, KeptType
<1>5. \A p \in 0 .. PoolCapacity - 1 :
        pool[p].at < poolCursor /\ pool[p].owner \in 0 .. MaxRequests
  BY DEF BoxIInv, BoxTypes, PoolType
<1> QED BY <1>1, <1>2, <1>3, <1>4, <1>5 DEF BoxTypeOK

\* What every step keeps of the two registers together: a route is armed in one slot at most,
\* so arming again prolongs (prearm.ts 214-262).
THEOREM OneReserveARoute == BoxSpec => []BoxInv
<1>1. BoxIInv => BoxInv
  BY BoxTyped, OneArm DEF BoxInv
<1> QED BY <1>1, BoxInvariant, PTL

\* An armed route keeps the last it was given, whatever else is armed, ends or starts
\* meanwhile; their operations are whole exactly as long as all the arms together have written
\* no more than the pool since the row's first (ADR 0122, prearm.ts 327-330).
THEOREM ReserveKeeps == BoxSpec => []ReserveKeepsItsLast
<1>1. BoxIInv => ReserveKeepsItsLast
  BY LastAreKept, PoolHolds DEF ReserveKeepsItsLast
<1> QED BY <1>1, BoxInvariant, PTL

\* The reserve takes the place of no row of the ring that it does not have, while no arm was
\* given more than its rows (captures.ts 200-202).
THEOREM ReserveCovers == BoxSpec => []CoversWhileItFits
BY BoxInvariant, TakenIsKept, PTL

\* However the requests overlap, whatever they run and however the rings and the pool wrap,
\* what is read of a request, from the ring, from the samples and up to the cap from the
\* reserve, was written in its time, by it or by one that wrote beside it (agent.ts 1654-1657).
THEOREM ReadInItsTimeEverywhere == BoxSpec => []ReadsItsOwnTime
<1>1. BoxIInv => ReadsItsOwnTime
  BY RowsSayWhatTheyCut, SamplesInTheirTime, KeptIsOfItsTime DEF ReadsItsOwnTime, BoxIInv
<1> QED BY <1>1, BoxInvariant, PTL

\* The reserve beside it changes nothing the fine register does: what is proved of the one
\* holds of the two together.
THEOREM BoxIsFine == BoxSpec => Spec
<1>1. BoxInit => Init
  BY DEF BoxInit
<1>2. [BoxNext]_boxVars => [Next]_vars
  <2> SUFFICES ASSUME [BoxNext]_boxVars
               PROVE  [Next]_vars
    OBVIOUS
  <2>1. ASSUME NEW route \in Route, Starts(route)
        PROVE  Next
    BY <2>1 DEF Starts, Next
  <2>2. ASSUME NEW route \in Route, Arm(route)
        PROVE  UNCHANGED vars
    BY <2>2 DEF Arm
  <2>3. ASSUME NEW r \in Started, Runs(r)
        PROVE  Next
    BY <2>3 DEF Runs, Next
  <2>4. ASSUME NEW r \in Started, NEW labels \in DependencyLists, Finishes(r, labels)
        PROVE  Next
    BY <2>4 DEF Finishes, Next
  <2>5. CASE Tick \/ UNCHANGED boxVars
    BY <2>5 DEF Tick, boxVars
  <2>6. CASE Meter
    BY <2>6 DEF Meter, Next
  <2> QED BY <2>1, <2>2, <2>3, <2>4, <2>5, <2>6 DEF BoxNext
<1> QED BY <1>1, <1>2, PTL DEF BoxSpec, Spec

\* So beside the reserve too nothing that was written over is read, no row passes for small,
\* and a runaway costs only itself.
THEOREM FineBesideTheReserve ==
  BoxSpec => [](NothingOverwrittenIsRead /\ NeverPassesForSmall /\ RunawayCostsItself)
BY BoxIsFine, OverwrittenIsSaid, CutIsSaid, RunawayIsAlone, PTL

(***************************************************************************)
(* The overhead meter                                                      *)
(***************************************************************************)

\* A state of the meter alone: an episode is open exactly while the fine detail is shed by
\* the meter's own decision, and has a reason.
MeterOK(m) ==
  /\ m \in MeterType
  /\ m.level >= Floor
  /\ m.level > Floor <=> m.why # "none"
  /\ IF Floor < Fine
     THEN /\ m.level >= Fine <=> m.openSince # Closed
          /\ m.openSince # Closed => m.openSince <= clock /\ m.last # "none"
          /\ m.accum > 0 => m.last # "none"
     ELSE m.accum = 0 /\ m.openSince = Closed

Reading(m) == m.accum + IF m.openSince = Closed THEN 0 ELSE clock - m.openSince

\* The strengthening: the properties follow from the meter's own coherence.
MeterInv == MeterTypeOK /\ MeterOK(meter) /\ ShedTimeExact

-----------------------------------------------------------------------------
\* A change of level and reason, settled, keeps the coherence and does not touch the reading.
LEMMA Change ==
  ASSUME NEW STATE m, MeterOK(m), clock \in Nat,
         NEW STATE l, l \in 0 .. 2, NEW STATE y, y \in Reason \cup {"none"},
         l >= Floor, l > Floor <=> y # "none"
  PROVE  /\ MeterOK(Moved(m, l, y))
         /\ Reading(Moved(m, l, y)) = Reading(m)
<1> DEFINE c == [m EXCEPT !.level = l, !.why = y]
<1>1. /\ m.accum \in Nat /\ m.openSince \in Nat \cup {Closed} /\ m.last \in Reason \cup {"none"}
      /\ Floor \in 0 .. 2
      /\ m = [level |-> m.level, why |-> m.why, accum |-> m.accum,
              openSince |-> m.openSince, last |-> m.last]
  BY MeterAssumption DEF MeterOK, MeterType
<1>2. c = [level |-> l, why |-> y, accum |-> m.accum, openSince |-> m.openSince, last |-> m.last]
  <2> DEFINE at == [m EXCEPT !.level = l]
  <2>1. at = [level |-> l, why |-> m.why, accum |-> m.accum, openSince |-> m.openSince,
              last |-> m.last]
    BY <1>1
  <2>2. c = [at EXCEPT !.why = y]
    OBVIOUS
  <2> HIDE DEF at, c
  <2> QED
    BY <2>1, <2>2
<1>3. Moved(m, l, y) = Settled(c)
  BY DEF Moved
<1> HIDE DEF c
<1>4. CASE Floor >= Fine
  <2>1. Settled(c) = c
    BY <1>4 DEF Settled
  <2> QED
    BY <1>1, <1>2, <1>3, <1>4, <2>1 DEF MeterOK, MeterType, Reading, Fine
<1>5. CASE Floor < Fine /\ l >= Fine
  <2>1. y # "none"
    BY <1>1, <1>5 DEF Fine
  <2>2. Settled(c) = [c EXCEPT !.openSince = IF c.openSince = Closed THEN clock ELSE c.openSince,
                               !.last = y]
    BY <1>1, <1>2, <1>5, <2>1 DEF Settled, Fine
  <2>3. Settled(c) = [level |-> l, why |-> y, accum |-> m.accum,
                      openSince |-> IF m.openSince = Closed THEN clock ELSE m.openSince,
                      last |-> y]
    BY <1>2, <2>2
  <2> QED
    BY <1>1, <1>3, <1>5, <2>1, <2>3 DEF MeterOK, MeterType, Reading, Fine, Closed
<1>6. CASE Floor < Fine /\ l < Fine /\ m.openSince # Closed
  <2>1. Settled(c) = [c EXCEPT !.accum = c.accum + (clock - c.openSince), !.openSince = Closed]
    BY <1>1, <1>2, <1>6 DEF Settled, Fine
  <2>2. Settled(c) = [level |-> l, why |-> y, accum |-> m.accum + (clock - m.openSince),
                      openSince |-> Closed, last |-> m.last]
    BY <1>2, <2>1
  <2>3. m.openSince \in Nat /\ m.openSince <= clock /\ m.last # "none" /\ l = Floor
        /\ y = "none"
    BY <1>1, <1>6 DEF MeterOK, Fine
  <2> QED
    BY <1>1, <1>3, <1>6, <2>2, <2>3 DEF MeterOK, MeterType, Reading, Fine, Closed
<1>7. CASE Floor < Fine /\ l < Fine /\ m.openSince = Closed
  <2>1. Settled(c) = c
    BY <1>1, <1>2, <1>7 DEF Settled, Fine
  <2> QED
    BY <1>1, <1>2, <1>3, <1>7, <2>1 DEF MeterOK, MeterType, Reading, Fine, Closed
<1> QED
  BY <1>1, <1>4, <1>5, <1>6, <1>7 DEF Fine

\* What a window decides.
LEMMA Decision ==
  ASSUME NEW STATE m, MeterOK(m), clock \in Nat, NEW STATE w
  PROVE  MeterOK(Decided(m, w)) /\ Reading(Decided(m, w)) = Reading(m)
<1>1. m.level \in 0 .. 2 /\ m.why \in Reason \cup {"none"} /\ Floor \in 0 .. 2 /\ m.level >= Floor
      /\ (m.level > Floor <=> m.why # "none")
  BY MeterAssumption DEF MeterOK, MeterType
<1>2. CASE Heavy(w) /\ m.level < Profile
  <2>1. Decided(m, w) = Moved(m, m.level + 1, "latency")
    BY <1>2 DEF Decided
  <2> QED
    BY <1>1, <1>2, <2>1, Change DEF Profile, Reason
<1>3. CASE ~Heavy(w) /\ Light(w) /\ m.level > Floor
  <2> DEFINE y == IF m.level - 1 = Floor THEN "none" ELSE m.why
  <2>1. Decided(m, w) = Moved(m, m.level - 1, y)
    BY <1>3 DEF Decided
  <2>2. m.level - 1 \in 0 .. 2 /\ y \in Reason \cup {"none"} /\ m.level - 1 >= Floor
        /\ (m.level - 1 > Floor <=> y # "none")
    BY <1>1, <1>3
  <2> QED
    BY <2>1, <2>2, Change
<1>4. CASE ~(Heavy(w) /\ m.level < Profile) /\ ~(~Heavy(w) /\ Light(w) /\ m.level > Floor)
  BY <1>4 DEF Decided
<1> QED
  BY <1>2, <1>3, <1>4

\* What the memory decides.
LEMMA Memory ==
  ASSUME NEW STATE m, MeterOK(m), clock \in Nat
  PROVE  MeterOK(ShedForMemory(m)) /\ Reading(ShedForMemory(m)) = Reading(m)
<1>1. m.level \in 0 .. 2 /\ Floor \in 0 .. 2 /\ m.level >= Floor
  BY MeterAssumption DEF MeterOK, MeterType
<1>2. CASE m.level < Fine
  BY <1>1, <1>2, Change DEF ShedForMemory, Fine, Reason
<1>3. CASE ~(m.level < Fine)
  BY <1>3 DEF ShedForMemory
<1> QED
  BY <1>2, <1>3

\* Time that passes is counted where the reading counts it.
LEMMA Passing ==
  ASSUME MeterInv, NEW STATE m, MeterOK(m), Reading(m) = Reading(meter), meter' = m,
         NEW time \in Nat, Passes(time, m)
  PROVE  MeterOK(meter)' /\ ShedTimeExact' /\ clock' \in Nat /\ shedTrue' \in Nat
<1>1. clock \in Nat /\ clock' = clock + time /\ shedTrue \in Nat /\ Floor \in 0 .. 2
      /\ shedTrue' = shedTrue + IF m.level >= Fine THEN time ELSE 0
  BY MeterAssumption DEF Passes, MeterInv, MeterTypeOK
<1>2. /\ m.level \in 0 .. 2 /\ m.accum \in Nat /\ m.openSince \in Nat \cup {Closed}
      /\ m \in MeterType
  BY DEF MeterOK, MeterType
<1>3. Reading(m) = IF Floor < Fine THEN shedTrue ELSE 0
  BY DEF MeterInv, ShedTimeExact, ShedMs, Reading
<1>4. MeterOK(meter)'
  BY <1>1, <1>2 DEF MeterOK, Closed
<1>5. ShedTimeExact'
  BY <1>1, <1>2, <1>3 DEF MeterOK, Reading, ShedTimeExact, ShedMs, Closed, Fine
<1> QED
  BY <1>1, <1>4, <1>5 DEF Fine

\* Counting a hook keeps the types of the window.
LEMMA Counting ==
  ASSUME MeterTypeOK, NEW STATE w,
         w \in [measured : Nat, sampled : BOOLEAN, requests : Nat],
         NEW cost \in Nat
  PROVE  /\ Measured(w, cost) \in [measured : Nat, sampled : BOOLEAN, requests : Nat]
         /\ (hooks + 1) % Every \in 0 .. Every - 1
<1>1. (hooks + 1) % Every \in 0 .. Every - 1
  BY MeterAssumption, Z3 DEF MeterTypeOK
<1>2. w.measured \in Nat /\ w.requests \in Nat /\ w.sampled \in BOOLEAN
  OBVIOUS
<1>3. CASE Timed
  <2>1. Measured(w, cost)
          = [measured |-> w.measured + cost, sampled |-> TRUE, requests |-> w.requests]
    BY <1>3 DEF Measured
  <2> QED
    BY <1>1, <1>2, <2>1
<1>4. CASE ~Timed
  BY <1>1, <1>4 DEF Measured
<1> QED
  BY <1>3, <1>4

\* A cost is a number.
LEMMA CostIsNat == \A cost \in Cost : cost \in Nat
BY MeterAssumption DEF Cost

-----------------------------------------------------------------------------
\* The invariant holds at first.
LEMMA MeterInitInv == MeterInit => MeterInv
<1> SUFFICES ASSUME MeterInit PROVE MeterInv
  OBVIOUS
<1>1. Floor \in 0 .. 2 /\ Every \in Nat /\ Every > 0
  BY MeterAssumption
<1>2. /\ meter = [level |-> Floor, why |-> "none", accum |-> 0, openSince |-> Closed,
                  last |-> "none"]
      /\ clock = 0 /\ shedTrue = 0
  BY DEF MeterInit
<1>3. MeterOK(meter)
  BY <1>1, <1>2 DEF MeterOK, MeterType, Closed, Fine
<1>4. MeterTypeOK
  <2>1. 0 \in 0 .. Every - 1
    BY <1>1
  <2>2. calm \in BOOLEAN /\ window \in [measured : Nat, sampled : BOOLEAN, requests : Nat]
    <3>1. FALSE \in BOOLEAN
      OBVIOUS
    <3>2. EmptyWindow \in [measured : Nat, sampled : BOOLEAN, requests : Nat]
      BY DEF EmptyWindow
    <3> QED
      BY <3>1, <3>2, Zenon DEF MeterInit
  <2>3. hooks = 0 /\ clock \in Nat /\ shedTrue \in Nat
    BY DEF MeterInit
  <2> QED
    BY <1>3, <2>1, <2>2, <2>3 DEF MeterTypeOK, MeterOK
<1>5. ShedTimeExact
  <2>1. meter.accum = 0 /\ meter.openSince = Closed
    BY <1>2
  <2> QED
    BY <1>2, <2>1 DEF ShedTimeExact, ShedMs
<1> QED
  BY <1>3, <1>4, <1>5 DEF MeterInv

\* Every step keeps the invariant.
LEMMA MeterStepInv == MeterInv /\ [MeterNext]_meterVars => MeterInv'
<1> SUFFICES ASSUME MeterInv, [MeterNext]_meterVars PROVE MeterInv'
  OBVIOUS
<1>0. MeterTypeOK /\ MeterOK(meter) /\ clock \in Nat
  BY DEF MeterInv, MeterTypeOK
<1>1. ASSUME NEW cost \in Cost, Hook(cost) PROVE MeterInv'
  <2>1. meter' = meter /\ Passes(cost, meter) /\ cost \in Nat
    BY <1>1, CostIsNat DEF Hook
  <2>2. MeterOK(meter)' /\ ShedTimeExact' /\ clock' \in Nat /\ shedTrue' \in Nat
    BY <1>0, <2>1, Passing
  <2>3. MeterTypeOK'
    BY <1>0, <1>1, <2>1, <2>2, Counting DEF Hook, MeterTypeOK, MeterOK
  <2> QED
    BY <2>2, <2>3 DEF MeterInv
<1>2. ASSUME NEW cost \in Cost, NEW over \in BOOLEAN, Finish(cost, over) PROVE MeterInv'
  <2> DEFINE w     == [window EXCEPT !.requests = @ + 1]
             after == IF WindowEnds(w) THEN Decided(meter, w) ELSE meter
             m     == IF over THEN ShedForMemory(after) ELSE after
  <2>1. MeterOK(after) /\ Reading(after) = Reading(meter)
    BY <1>0, Decision
  <2> HIDE DEF after
  <2>2. MeterOK(m) /\ Reading(m) = Reading(meter)
    BY <1>0, <2>1, Memory
  <2>3. meter' = m /\ Passes(cost, m) /\ cost \in Nat
    BY <1>2, CostIsNat DEF Finish, after
  <2> HIDE DEF m
  <2>4. MeterOK(meter)' /\ ShedTimeExact' /\ clock' \in Nat /\ shedTrue' \in Nat
    BY <2>2, <2>3, Passing
  <2>5. w \in [measured : Nat, sampled : BOOLEAN, requests : Nat]
    BY <1>0 DEF MeterTypeOK
  <2>6. EmptyWindow \in [measured : Nat, sampled : BOOLEAN, requests : Nat]
    BY DEF EmptyWindow
  <2>7. MeterTypeOK'
    BY <1>0, <1>2, <2>3, <2>4, <2>5, <2>6, Counting DEF Finish, MeterTypeOK, MeterOK
  <2> QED
    BY <2>4, <2>7 DEF MeterInv
<1>3. CASE Idle
  <2>1. meter' = meter /\ Passes(1, meter)
    BY <1>3 DEF Idle
  <2>2. MeterOK(meter)' /\ ShedTimeExact' /\ clock' \in Nat /\ shedTrue' \in Nat
    BY <1>0, <2>1, Passing
  <2> QED
    BY <1>0, <1>3, <2>2 DEF MeterInv, Idle, MeterTypeOK
<1>4. CASE Calm
  BY <1>0, <1>4 DEF MeterInv, Calm, MeterTypeOK, MeterOK, ShedTimeExact, ShedMs
<1>5. CASE UNCHANGED meterVars
  BY <1>0, <1>5 DEF MeterInv, meterVars, MeterTypeOK, MeterOK, ShedTimeExact, ShedMs
<1> QED
  BY <1>1, <1>2, <1>3, <1>4, <1>5 DEF MeterNext

-----------------------------------------------------------------------------
\* At every moment the reading of shed time is the time really shed (overhead.ts 227-251).
THEOREM ShedTime == MeterSpec => []ShedTimeExact
<1>1. MeterInv => ShedTimeExact
  BY DEF MeterInv
<1> QED
  BY <1>1, MeterInitInv, MeterStepInv, PTL DEF MeterSpec

\* At every moment what is given up has a reason, and nothing else has (overhead.ts 66-70).
THEOREM ShedReasons == MeterSpec => []ShedHasReason
<1>1. MeterInv => ShedHasReason
  BY MeterAssumption
  DEF MeterInv, MeterOK, MeterType, ShedHasReason, ShedMs, ShedTimeExact, Closed, Fine
<1> QED
  BY <1>1, MeterInitInv, MeterStepInv, PTL DEF MeterSpec
=============================================================================
