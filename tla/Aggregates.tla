----------------------------- MODULE Aggregates ------------------------------
(***************************************************************************)
(* One interval's counters (packages/agent/src/aggregator.ts) and one      *)
(* window's profile (profile.ts).                                          *)
(*                                                                         *)
(* A row that was never written is a row of zeros, which is how a map      *)
(* without the key reads.  Latencies, buckets and texts are left out.  The *)
(* dependencies that get a row of their own are the first of the request's *)
(* map, whose order is the order of the calls: any choice of as many.      *)
(***************************************************************************)
EXTENDS Observed

CONSTANTS
  MaxRoutes,      \* rows for routes, in both
  MaxKept,        \* dependencies with a row of their own, per endpoint
  MaxOperations,  \* operations a profile keeps by name, per endpoint
  WindowMs        \* a profile's window, in ticks of the clock

ASSUME AggregatesAssumption ==
  /\ {MaxRoutes, MaxKept, MaxOperations, WindowMs} \subseteq Nat \ {0}
  \* The schema's places are shared by what is kept and one bucket per kind.
  /\ Cardinality({op.kind : op \in Operation}) <= MaxOperations + 1

VARIABLES
  endpoints, intervalStart,    \* IntervalAggregator
  operations, windowStart,     \* ProfileAggregator
  lastInterval, lastWindow,    \* the start said last, in milliseconds
  served, ran                  \* history: what was recorded since, by endpoint

aggregateVars == <<endpoints, intervalStart, lastInterval, served>>
profileVars   == <<operations, windowStart, lastWindow, ran>>

DependencyRow == [kind : Kind, name : Name \cup {OtherName}]
NoWork        == [requests |-> 0, ms |-> 0, wait |-> 0]
NoRequests    == [count |-> 0, errors |-> 0, deps |-> [d \in DependencyRow |-> NoWork]]
NoEndpoints   == [l \in Label |-> NoRequests]
NoOperations  == [l \in Label |-> [op \in Operation |-> [count |-> 0, ms |-> 0]]]
NothingServed == [l \in Label |-> [count |-> 0, errors |-> 0, ms |-> [k \in Kind |-> 0]]]
NothingRan    == [l \in Label |-> 0]

AggregatesInit ==
  /\ endpoints = NoEndpoints /\ operations = NoOperations
  /\ intervalStart = now /\ windowStart = now
  /\ lastInterval = -1 /\ lastWindow = -1
  /\ served = NothingServed /\ ran = NothingRan

Routes(eps)   == {l \in Label : eps[l].count > 0}
Rows(deps)    == {d \in DependencyRow : deps[d].requests > 0}
Named(deps)   == {d \in Rows(deps) : d.name # OtherName}
Ran(acc)      == {op \in Operation : acc[op].count > 0}
Profiled(ops) == {l \in Label : Ran(ops[l]) # {}}

-----------------------------------------------------------------------------
\* IntervalAggregator.record

AddWork(row, ms, wait) ==
  [requests |-> row.requests + 1, ms |-> row.ms + ms, wait |-> row.wait + wait]

\* The rows of their own that the request's new destinations may take.
MayKeep(deps, work) ==
  LET new  == DOMAIN work \ Rows(deps)
      room == Max({0, MaxKept - Cardinality(Named(deps))})
  IN {K \in SUBSET new : Cardinality(K) = Min({room, Cardinality(new)})}

FoldWorkOnePerTarget(deps, work, keep) ==
  LET own    == Rows(deps) \cup keep
      rest(k) == {d \in DOMAIN work \ own : d.kind = k}
  IN [row \in DependencyRow |->
        IF row \in DOMAIN work /\ row \in own
        THEN AddWork(deps[row], work[row].ms, work[row].wait)
        ELSE IF row.name = OtherName /\ rest(row.kind) # {}
        THEN [deps[row] EXCEPT !.requests = @ + Cardinality(rest(row.kind)),
                               !.ms = @ + SumOver(rest(row.kind), LAMBDA d : work[d].ms),
                               !.wait = @ + SumOver(rest(row.kind), LAMBDA d : work[d].wait)]
        ELSE deps[row]]

\* What has no row falls into its kind's, and is one request there however many fell.
FoldWork(deps, work, keep) ==
  LET own     == Rows(deps) \cup keep
      rest(k) == {d \in DOMAIN work \ own : d.kind = k}
  IN [row \in DependencyRow |->
        IF row \in DOMAIN work /\ row \in own
        THEN AddWork(deps[row], work[row].ms, work[row].wait)
        ELSE IF row.name = OtherName /\ rest(row.kind) # {}
        THEN AddWork(deps[row], SumOver(rest(row.kind), LAMBDA d : work[d].ms),
                                SumOver(rest(row.kind), LAMBDA d : work[d].wait))
        ELSE deps[row]]

Recorded(label, body, keep) ==
  LET row == RowOf(Routes(endpoints), MaxRoutes, label)
  IN [endpoints EXCEPT ![row] =
        [count  |-> @.count + 1,
         errors |-> @.errors + IF body.failed THEN 1 ELSE 0,
         deps   |-> FoldWork(@.deps, body.work, keep)]]

ServedToo(label, body) ==
  [served EXCEPT ![label] =
     [count  |-> @.count + 1,
      errors |-> @.errors + IF body.failed THEN 1 ELSE 0,
      ms     |-> [k \in Kind |-> @.ms[k] +
                    SumOver({d \in DOMAIN body.work : d.kind = k}, LAMBDA d : body.work[d].ms)]]]

\* ProfileAggregator.record: what the request ran, unless it ran nothing.
Profile(label, body) ==
  LET row == RowOf(Profiled(operations), MaxRoutes, label)
  IN IF DOMAIN body.operations = {} THEN operations
     ELSE [operations EXCEPT ![row] =
             [op \in Operation |->
                IF op \in DOMAIN body.operations
                THEN [count |-> @[op].count + 1, ms |-> @[op].ms + body.operations[op]]
                ELSE @[op]]]

RanToo(label, body) ==
  [ran EXCEPT ![label] = @ + Cardinality(DOMAIN body.operations)]

-----------------------------------------------------------------------------
\* ProfileAggregator.endpointOf: what is kept by name, and what is merged, kind by kind.

Rank(op) == IF op.kind \in ErrorKind THEN 1 ELSE 0

\* Errors first, then what took longest, then by hash.
Before(acc, a, b) ==
  \/ Rank(a) > Rank(b)
  \/ Rank(a) = Rank(b) /\ acc[a].ms > acc[b].ms
  \/ Rank(a) = Rank(b) /\ acc[a].ms = acc[b].ms /\ a.hash < b.hash

First(acc, n) ==
  {op \in Ran(acc) : Cardinality({b \in Ran(acc) : Before(acc, b, op)}) < n}

KindsAfter(acc, n) == {op.kind : op \in Ran(acc) \ First(acc, n)}

KeepAtTheCap(acc) == Min({Cardinality(Ran(acc)), MaxOperations})

\* As many as leave a place for a bucket of each kind among the rest.
Keep(acc) ==
  Max({0} \cup {n \in 0 .. Min({Cardinality(Ran(acc)), MaxOperations}) :
                  n + Cardinality(KindsAfter(acc, n)) <= MaxOperations + 1})

EndpointOf(acc) ==
  LET kept == First(acc, Keep(acc))
      rest(k) == {op \in Ran(acc) \ kept : op.kind = k}
  IN [named   |-> kept,
      buckets |-> [k \in KindsAfter(acc, Keep(acc)) |->
                     [count    |-> SumOver(rest(k), LAMBDA op : acc[op].count),
                      distinct |-> Cardinality(rest(k))]]]

-----------------------------------------------------------------------------
\* Closing.  `eps` and `ops` are what there is when the registers are emptied.

\* IntervalAggregator.rotate; nothing is said of an interval without requests.
RotateInterval(eps) ==
  /\ endpoints' = NoEndpoints /\ served' = NothingServed
  /\ intervalStart' = NextStart(intervalStart)
  /\ lastInterval' = IF Routes(eps) = {} THEN lastInterval ELSE Floor(intervalStart)

\* ProfileAggregator.close, by rotate when the window has passed and by drain whatever it is.
CloseProfile(ops, leaving) ==
  IF leaving \/ now - windowStart >= WindowMs
  THEN /\ operations' = NoOperations /\ ran' = NothingRan
       /\ windowStart' = NextStart(windowStart)
       /\ lastWindow' = IF Profiled(ops) = {} THEN lastWindow ELSE Floor(windowStart)
  ELSE operations' = ops /\ UNCHANGED <<windowStart, lastWindow>>

-----------------------------------------------------------------------------
AggregatesTypeOK ==
  /\ \A l \in Label :
       /\ endpoints[l].count \in Nat /\ endpoints[l].errors \in 0 .. endpoints[l].count
       /\ \A d \in DependencyRow : endpoints[l].deps[d] \in [requests : Nat, ms : Nat, wait : Nat]
       /\ operations[l] \in [Operation -> [count : Nat, ms : Nat]]
  /\ {intervalStart, windowStart} \subseteq Nat

\* Whatever is folded, nothing is lost: a row says what its endpoints were served, its
\* dependencies' rows say all that was spent on each kind, and a request counts once in a row
\* however many of its targets fell there (aggregator.ts 154-156).
EveryRequestTold ==
  \A row \in Routes(endpoints) :
    LET for == StandsFor(Routes(endpoints), row)
        acc == endpoints[row]
    IN /\ acc.count = SumOver(for, LAMBDA l : served[l].count)
       /\ acc.errors = SumOver(for, LAMBDA l : served[l].errors)
       /\ \A k \in Kind :
            SumOver({d \in DependencyRow : d.kind = k}, LAMBDA d : acc.deps[d].ms)
              = SumOver(for, LAMBDA l : served[l].ms[k])
       /\ \A d \in DependencyRow : acc.deps[d].requests <= acc.count
       /\ Cardinality(Rows(acc.deps)) <= MaxKept + Cardinality(Kind)

\* A profile takes no more places than the schema gives it, and the cap is no lie by
\* omission: what it merges is counted, and how much it merges is said (profile.ts 196-206).
EveryOperationTold ==
  \A row \in Profiled(operations) :
    LET said == EndpointOf(operations[row])
        buckets == DOMAIN said.buckets
    IN /\ Cardinality(said.named) + Cardinality(buckets) <= MaxOperations + 1
       /\ SumOver(said.named, LAMBDA op : operations[row][op].count)
            + SumOver(buckets, LAMBDA k : said.buckets[k].count)
            = SumOver(StandsFor(Profiled(operations), row), LAMBDA l : ran[l])
       /\ Cardinality(said.named) + SumOver(buckets, LAMBDA k : said.buckets[k].distinct)
            = Cardinality(Ran(operations[row]))

\* Two windows of one process never say the same start, even if both are closed within one
\* millisecond (aggregator.ts 278-283, ADR 0145).
WindowsDistinct ==
  /\ lastInterval < Floor(intervalStart)
  /\ lastWindow < Floor(windowStart)
=============================================================================
