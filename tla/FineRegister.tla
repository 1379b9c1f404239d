---------------------------- MODULE FineRegister ----------------------------
(***************************************************************************)
(* The black box's fine detail (packages/agent/src/fine.ts), with the      *)
(* request contexts that write it (context.ts) and the agent's two ends of *)
(* a request (agent.ts, requestStarted and recordFinished).                *)
(*                                                                         *)
(* Three rings with absolute cursors: a finished request's row names a     *)
(* range of the operations' ring and a range of the dependencies' ring.    *)
(* Requests overlap: an operation is written where it finishes, into the   *)
(* one ring, and possibly after its own request has finished.              *)
(*                                                                         *)
(* Requests are numbered as they start.  An entry of the operations' ring  *)
(* is the request that wrote it and the cursor it was written at; hashes,  *)
(* kinds and times are left out.  The labels of the dependencies go        *)
(* through a table with a cap, whose rows read "(other)" once it is full.  *)
(***************************************************************************)
EXTENDS Integers, FiniteSets, Sequences

CONSTANTS
  Dep,            \* labels of dependencies
  Other,          \* the sentinel of the table
  Capacity,       \* rows
  OpCapacity,     \* operations in the ring
  PerRequest,     \* operations one request may write
  DepsPerRequest, \* labels one row may hold
  DepLabels,      \* room of the table of labels
  \* What the environment may do, and how much of it:
  MaxRequests, MaxOps,
  MaxOpen,        \* requests served at once
  Trailing,       \* an operation may finish after its request
  Sheds,          \* the overhead meter may give up the fine detail
  Samples         \* the reference samples are being renewed

ASSUME FineAssumption ==
  /\ {Capacity, OpCapacity, PerRequest, DepsPerRequest, DepLabels, MaxOpen}
       \subseteq Nat \ {0}
  /\ {MaxRequests, MaxOps} \subseteq Nat
  /\ {Trailing, Sheds, Samples} \subseteq BOOLEAN
  /\ IsFiniteSet(Dep) /\ Other \notin Dep
  \* The defaults: 256 of 32 768 (fine.ts 38-41).
  /\ PerRequest <= OpCapacity

VARIABLES
  ctx,          \* RequestContext of each request started; `beside` is history: the others
                \* that wrote an operation while it was open
  requests, requestCursor,
  operations, operationCursor,
  dependencies, dependencyCursor,
  known,        \* the labels the table holds
  labelsFolded,
  keeping,      \* OverheadMeter.keeping(Sheddable.Fine)
  sample,       \* the operations the reference register copied last
  ran, touched  \* history: operations run and labels touched, at the finish

ringVars  == <<requests, requestCursor, dependencies, dependencyCursor, known, labelsFolded>>
writeVars == <<operations, operationCursor>>
vars      == <<ctx, ringVars, writeVars, keeping, sample, ran, touched>>

Request == 1 .. MaxRequests
Started == DOMAIN ctx
Open    == {r \in Started : ctx[r].open}

\* Room for the labels of every live row.
DepSlots == Capacity * DepsPerRequest

\* A slot nobody wrote, and the row of nobody.
Blank    == [owner |-> 0, at |-> -1]
BlankRow == [request |-> 0, from |-> 0, count |-> 0, truncated |-> FALSE,
             depFrom |-> 0, depCount |-> 0, depTruncated |-> FALSE]

\* The keys of a request's work: distinct labels in the order they were first used.
DependencyLists ==
  {l \in UNION {[1 .. n -> Dep] : n \in 0 .. Cardinality(Dep)} :
     \A i, j \in DOMAIN l : l[i] = l[j] => i = j}

MinOf(S) == CHOOSE n \in S : \A m \in S : n <= m

TypeOK ==
  /\ Started = 1 .. Cardinality(Started) /\ Started \subseteq Request
  /\ \A r \in Started : ctx[r] \in [fine : BOOLEAN, from : Nat, ops : Nat, open : BOOLEAN,
                                  beside : SUBSET Request]
  /\ Cardinality(Open) <= MaxOpen
  /\ requests \in [0 .. Capacity - 1 ->
                     [request : 0 .. MaxRequests, from : Nat, count : 0 .. PerRequest,
                      truncated : BOOLEAN, depFrom : Nat, depCount : 0 .. DepsPerRequest,
                      depTruncated : BOOLEAN]]
  /\ operations \in [0 .. OpCapacity - 1 -> [owner : 0 .. MaxRequests, at : Nat \cup {-1}]]
  /\ dependencies \in [0 .. DepSlots - 1 -> Dep \cup {Other}]
  /\ {requestCursor, operationCursor, dependencyCursor, labelsFolded} \subseteq Nat
  /\ known \subseteq Dep /\ Cardinality(known) <= DepLabels
  /\ keeping \in BOOLEAN
  /\ \A i \in DOMAIN sample : sample[i].expected \in Nat
  /\ ran \in [Request -> 0 .. MaxOps] /\ touched \in [Request -> DependencyLists]

Init ==
  /\ ctx = <<>>
  /\ requests = [slot \in 0 .. Capacity - 1 |-> BlankRow] /\ requestCursor = 0
  /\ operations = [slot \in 0 .. OpCapacity - 1 |-> Blank] /\ operationCursor = 0
  /\ dependencies = [slot \in 0 .. DepSlots - 1 |-> Other] /\ dependencyCursor = 0
  /\ known = {} /\ labelsFolded = 0
  /\ keeping = TRUE /\ sample = <<>>
  /\ ran = [r \in Request |-> 0] /\ touched = [r \in Request |-> <<>>]

-----------------------------------------------------------------------------
\* Reading.  Nothing here changes the register.

LostNewest(row) == row.count > 0 /\ operationCursor - (row.from + row.count - 1) > OpCapacity

\* The oldest operation of the row was lapped.
Lost(row) == row.count > 0 /\ operationCursor - row.from > OpCapacity

\* What operationOf reads, for the i-th operation of a row.
OperationOf(row, i) == operations[(row.from + i - 1) % OpCapacity]

DependencyOf(row, i) == dependencies[(row.depFrom + i - 1) % DepSlots]

\* The cursors of the rows a snapshot reads.
LiveCursors == (requestCursor - MinOf({requestCursor, Capacity})) .. (requestCursor - 1)
LiveRows    == {requests[cursor % Capacity] : cursor \in LiveCursors}

LastRow == requests[(requestCursor - 1) % Capacity]

\* lastOperations, with whose they are and the cursor each was written at.
LastOperations(row) ==
  [i \in 1 .. row.count |-> [read |-> OperationOf(row, i), expected |-> row.from + i - 1,
                           of |-> row.request]]

-----------------------------------------------------------------------------
\* A request starts: its context is opened where the operations are now.
RequestStarted ==
  LET r == Cardinality(Started) + 1
  IN
  /\ r \in Request
  /\ Cardinality(Open) < MaxOpen
  /\ ctx' = Append(ctx, [fine |-> keeping, open |-> TRUE, ops |-> 0, beside |-> {},
                         from |-> IF keeping THEN operationCursor ELSE 0])
  /\ UNCHANGED <<ringVars, writeVars, keeping, sample, ran, touched>>

\* Counted past the cap, and written only up to it.
WritesAll(r) == ctx[r].fine
Writes(r)    == ctx[r].fine /\ ctx[r].ops < PerRequest

\* An operation finishes, in the context it started in.
RecordOperation(r) ==
  /\ ctx[r].open \/ Trailing
  /\ ctx[r].ops < MaxOps /\ ran[r] < MaxOps
  /\ ctx' = [q \in Started |->
       IF q = r THEN [ctx[q] EXCEPT !.ops = IF ctx[q].fine THEN @ + 1 ELSE @]
       ELSE [ctx[q] EXCEPT !.beside = IF ctx[q].open /\ Writes(r) THEN @ \cup {r} ELSE @]]
  /\ ran' = [ran EXCEPT ![r] = IF ctx[r].open THEN @ + 1 ELSE @]
  /\ IF Writes(r)
     THEN /\ operations' = [operations EXCEPT ![operationCursor % OpCapacity] =
                              [owner |-> r, at |-> operationCursor]]
          /\ operationCursor' = operationCursor + 1
     ELSE UNCHANGED writeVars
  /\ UNCHANGED <<ringVars, keeping, sample, touched>>

\* What the label table makes of the i-th label of a list.
Named(labels, i) ==
  IF \/ labels[i] \in known
     \/ Cardinality(known \cup {labels[j] : j \in 1 .. i - 1}) < DepLabels
  THEN labels[i] ELSE Other

\* Bounded three ways: what it ran, what it may keep, what was written.
KeptAll(r) == ctx[r].ops
Kept(r)    == MinOf({ctx[r].ops, PerRequest, operationCursor - ctx[r].from})

TruncatedPastCap(attempted, kept) == kept > PerRequest
Truncated(attempted, kept)        == attempted > kept

\* FineRegister.request: the row, and its labels from the dependency cursor on.
WriteRow(r, labels) ==
  LET deps  == MinOf({Len(labels), DepsPerRequest})
      named == {i \in 1 .. deps : Named(labels, i) # Other}
      slot(i) == (dependencyCursor + i - 1) % DepSlots
  IN /\ requests' = [requests EXCEPT ![requestCursor % Capacity] =
           [request |-> r, from |-> ctx[r].from, count |-> Kept(r),
            truncated |-> Truncated(ctx[r].ops, Kept(r)),
            depFrom |-> dependencyCursor, depCount |-> deps,
            depTruncated |-> Len(labels) > deps]]
     /\ requestCursor' = requestCursor + 1
     /\ dependencies' = [s \in 0 .. DepSlots - 1 |->
           IF \E i \in 1 .. deps : slot(i) = s
           THEN Named(labels, CHOOSE i \in 1 .. deps : slot(i) = s)
           ELSE dependencies[s]]
     /\ dependencyCursor' = dependencyCursor + deps
     /\ known' = known \cup {labels[i] : i \in named}
     /\ labelsFolded' = labelsFolded + (deps - Cardinality(named))

\* The response finishes.  An excluded route is not recorded, and nothing is while the
\* detail is shed; the context outlives it, in the callbacks that hold it.
RecordFinished(r, labels) ==
  /\ ctx[r].open
  /\ ctx' = [ctx EXCEPT ![r].open = FALSE]
  /\ touched' = [touched EXCEPT ![r] = labels]
  /\ \/ /\ keeping
        /\ WriteRow(r, labels)
        /\ \/ Samples /\ sample' = LastOperations(LastRow')
           \/ UNCHANGED sample
     \/ UNCHANGED <<ringVars, sample>>   \* excluded, or shed
  /\ UNCHANGED <<writeVars, keeping, ran>>

\* The meter gives the detail up, or takes it back.
ShedOrRecover ==
  /\ Sheds
  /\ keeping' = ~keeping
  /\ UNCHANGED <<ctx, ringVars, writeVars, sample, ran, touched>>

Next ==
  \/ RequestStarted
  \/ \E r \in Started : RecordOperation(r)
  \/ \E r \in Started, labels \in DependencyLists : RecordFinished(r, labels)
  \/ ShedOrRecover

Spec == Init /\ [][Next]_vars

-----------------------------------------------------------------------------
\* Properties.

\* Whatever was lapped is said to be lost: no row reads an operation written over one
\* that its own range named (fine.ts 195-201, 389-394).
NothingOverwrittenIsRead ==
  \A row \in LiveRows : ~Lost(row) =>
    \A i \in 1 .. row.count : OperationOf(row, i).at = row.from + i - 1

\* A live row's labels are its own request's, in their order, and live: the labels' ring
\* laps no row.  A name is only lost to a full table, and that is counted.
DependenciesAreItsOwn ==
  \A row \in LiveRows :
    /\ \A i \in 1 .. row.depCount :
         \/ DependencyOf(row, i) = touched[row.request][i]
         \/ DependencyOf(row, i) = Other /\ labelsFolded > 0
    /\ row.depTruncated \/ row.depCount = Len(touched[row.request])

\* A request that ran more than its row keeps says so, if it was being looked at from its
\* start (fine.ts 282-286).
NeverPassesForSmall ==
  \A row \in LiveRows :
    ctx[row.request].fine /\ ~row.truncated => row.count = ran[row.request]

\* A runaway request costs only itself: the rest of the ring is for the others (ADR 0068), and
\* so is the ring of labels.
RunawayCostsItself ==
  /\ \A r \in Request :
       Cardinality({slot \in DOMAIN operations : operations[slot].owner = r}) <= PerRequest
  /\ DependenciesAreItsOwn

\* Those whose operations may be found among a request's: its own, and those of the requests
\* that wrote while it was open.
OfItsTime(r) == {r} \cup ctx[r].beside

\* What a live row reads was written while its request was open, by it or by a request beside
\* it: nothing from before it, nothing from after (fine.ts 282-286, 399-406).
RowsOfTheirTime ==
  \A row \in LiveRows : ~Lost(row) =>
    \A i \in 1 .. row.count : OperationOf(row, i).owner \in OfItsTime(row.request)

\* The samples copy the operations of the request just written without asking whether they
\* are live (fine.ts 338-344): they are of its time all the same, and each is the one it was
\* taken for if nobody wrote beside it.
SamplesOfTheirTime ==
  \A i \in DOMAIN sample :
    /\ sample[i].read.owner \in OfItsTime(sample[i].of)
    /\ ctx[sample[i].of].beside = {} => sample[i].read.at = sample[i].expected

\* No request ever reads somebody else's operations (fine.ts 198-201, in those words).
\* It does not hold of requests that overlap: ReadsItsOwnTime of BlackBox is what does.
OwnOperationsOnly ==
  \A row \in LiveRows : ~Lost(row) =>
    \A i \in 1 .. row.count : OperationOf(row, i).owner = row.request

\* A row with no operations that says neither truncated nor lost is a request that ran none
\* (fine.ts 154-158, invariant 14).  It does not hold when the detail is shed at the
\* request's start and kept at its end; NeverPassesForSmall is what does.
EmptyMeansRanNothing ==
  \A row \in LiveRows :
    row.count = 0 /\ ~row.truncated /\ ~Lost(row) => ran[row.request] = 0
=============================================================================
