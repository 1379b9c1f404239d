------------------------------ MODULE BlackBox ------------------------------
(***************************************************************************)
(* The reserve of a prearmed route (packages/agent/src/prearm.ts) beside   *)
(* the fine register it protects a route from, and the slice of both that  *)
(* a capture freezes (captures.ts, sliceFor).                              *)
(*                                                                         *)
(* A request that finishes is written in the ring and then, when its route *)
(* is armed, in the reserve, with the operations read back from the ring.  *)
(* The clock is as fine as the code's, which has decimals: no two requests *)
(* start, and no route is armed, at one instant.  A label is its route;    *)
(* minimal mode's renaming is left out.                                    *)
(***************************************************************************)
EXTENDS FineRegister

CONSTANTS
  Route,
  Arms,           \* routes armed at once
  RowsPerArm,     \* requests kept per armed route
  PoolCapacity,   \* operations the reserve holds, shared by the arms
  ArmFor,         \* how long an arm lasts
  MaxTime

ASSUME ReserveAssumption ==
  /\ {Arms, RowsPerArm, PoolCapacity, ArmFor} \subseteq Nat \ {0}
  /\ MaxTime \in Nat

VARIABLES
  now,
  served,      \* route and start of each request
  arms,        \* by slot: the route armed there, since and until when, rows written
  reserve,     \* rows, RowsPerArm to a slot
  pool, poolCursor,
  liveUntil

reserveVars == <<arms, reserve, pool, poolCursor, liveUntil>>
boxVars     == <<vars, now, served, reserveVars>>

Time == 0 .. MaxTime

\* A slot never armed is one whose arm ended before the clock began.  `seen` is history: the requests
\* the arm was given, in order.
NeverArmed == [route |-> "none", armedAt |-> -1, until |-> -1, written |-> 0, seen |-> <<>>]

BlankKept == [request |-> 0, route |-> "none", from |-> 0, count |-> 0]

ArmSlots     == 0 .. Arms - 1
ReserveSlots == 0 .. Arms * RowsPerArm - 1

BoxTypeOK ==
  /\ TypeOK
  /\ now \in Time
  /\ served \in Seq([route : Route, startedAt : Time]) /\ Len(served) = Len(ctx)
  /\ \A s \in ArmSlots :
       /\ arms[s].route \in Route \cup {"none"}
       /\ arms[s].armedAt <= arms[s].until /\ arms[s].written = Len(arms[s].seen)
       /\ liveUntil >= arms[s].until
  /\ \A k \in ReserveSlots :
       reserve[k].request \in 0 .. MaxRequests /\ reserve[k].count \in 0 .. PoolCapacity
  /\ \A slot \in 0 .. PoolCapacity - 1 :
       pool[slot].at < poolCursor /\ pool[slot].owner \in 0 .. MaxRequests

BoxInit ==
  /\ Init
  /\ now = 0
  /\ served = <<>>
  /\ arms = [s \in ArmSlots |-> NeverArmed]
  /\ reserve = [k \in ReserveSlots |-> BlankKept]
  /\ pool = [slot \in 0 .. PoolCapacity - 1 |-> Blank] /\ poolCursor = 0
  /\ liveUntil = -1

-----------------------------------------------------------------------------
\* An instant of its own.
Instant == now < MaxTime /\ now' = now + 1

\* The slots where the route is armed at `at`; the code takes the first.
LiveSlots(route, at) == {s \in ArmSlots : arms[s].route = route /\ arms[s].until > at}

FreeSlots(at) == {s \in ArmSlots : arms[s].until <= at}

\* The slots an order to arm may take.
ArmableFreeFirst(route, at) ==
  IF FreeSlots(at) # {} THEN FreeSlots(at) ELSE LiveSlots(route, at)
Armable(route, at) ==
  IF LiveSlots(route, at) # {} THEN LiveSlots(route, at) ELSE FreeSlots(at)

\* arm: an arm that lives is prolonged, an ended one is begun again and empty, and with every slot
\* taken nothing is armed.
Arm(route) ==
  LET slots == Armable(route, now')
      until == now' + ArmFor
  IN
  /\ Instant
  /\ slots # {}
  /\ arms' = [arms EXCEPT ![MinOf(slots)] =
        IF MinOf(slots) \in LiveSlots(route, now') THEN [@ EXCEPT !.until = until]
        ELSE [route |-> route, armedAt |-> now', until |-> until, written |-> 0, seen |-> <<>>]]
  /\ liveUntil' = IF until > liveUntil THEN until ELSE liveUntil
  /\ UNCHANGED <<vars, served, reserve, pool, poolCursor>>

HandedOverFromZero(r) == [i \in 1 .. ctx[r].ops |-> operations[(i - 1) % OpCapacity]]

\* What the agent hands over: operationsAt the request's own start, as many as it ran.
HandedOver(r) ==
  LET n == ctx[r].ops
  IN IF n > 0 /\ operationCursor - ctx[r].from > OpCapacity THEN <<>>
     ELSE [i \in 1 .. n |-> operations[(ctx[r].from + i - 1) % OpCapacity]]

\* The n-th row given to a slot: its last RowsPerArm stay.
RowIndexOfAll(slot, n) == n % (Arms * RowsPerArm)
RowIndex(slot, n)      == slot * RowsPerArm + (n % RowsPerArm)

\* Where the row's operations begin: read before they are written.
KeptFrom(count) == poolCursor

Filled(arm, r) == [arm EXCEPT !.seen = Append(@, r), !.written = @ + 1]

\* observe: the row and its operations, if the route was armed when the request started.
KeepRow(r, slot) ==
  LET given == HandedOver(r)
      count == MinOf({Len(given), PoolCapacity})
      placed(p) == {i \in 1 .. count : (poolCursor + i - 1) % PoolCapacity = p}
  IN
  /\ reserve' = [reserve EXCEPT ![RowIndex(slot, arms[slot].written)] =
        [request |-> r, route |-> served[r].route, from |-> KeptFrom(count), count |-> count]]
  /\ pool' = [p \in DOMAIN pool |->
        IF placed(p) = {} THEN pool[p]
        ELSE LET i == CHOOSE i \in placed(p) : TRUE
             IN [owner |-> given[i].owner, at |-> poolCursor + i - 1]]
  /\ poolCursor' = poolCursor + count
  /\ arms' = [arms EXCEPT ![slot] = Filled(@, r)]
  /\ UNCHANGED liveUntil

Observe(r) ==
  LET live == LiveSlots(served[r].route, served[r].startedAt)
  IN IF served[r].startedAt < liveUntil /\ live # {}
     THEN KeepRow(r, MinOf(live))
     ELSE UNCHANGED reserveVars

-----------------------------------------------------------------------------
Starts(route) ==
  /\ RequestStarted
  /\ Instant
  /\ served' = Append(served, [route |-> route, startedAt |-> now'])
  /\ UNCHANGED reserveVars

Runs(r) ==
  /\ RecordOperation(r)
  /\ UNCHANGED <<now, served, reserveVars>>

\* What is written in the ring is then offered to the reserve.
Finishes(r, labels) ==
  /\ RecordFinished(r, labels)
  /\ IF requestCursor' # requestCursor THEN Observe(r) ELSE UNCHANGED reserveVars
  /\ UNCHANGED <<now, served>>

Tick ==
  /\ Instant
  /\ UNCHANGED <<vars, served, reserveVars>>

Meter == ShedOrRecover /\ UNCHANGED <<now, served, reserveVars>>

BoxNext ==
  \/ \E route \in Route : Starts(route) \/ Arm(route)
  \/ \E r \in Started : Runs(r)
  \/ \E r \in Started, labels \in DependencyLists : Finishes(r, labels)
  \/ Tick
  \/ Meter

BoxSpec == BoxInit /\ [][BoxNext]_boxVars

-----------------------------------------------------------------------------
\* What a capture of a route reads.

Armed(route) == LiveSlots(route, now) # {}

Held(arm) == MinOf({arm.written, RowsPerArm})

\* requestsFor: the last rows of the slot, oldest first, if they are the route's.
SlotRows(slot) ==
  LET arm == arms[slot]
  IN {reserve[RowIndex(slot, n)] : n \in arm.written - Held(arm) .. arm.written - 1}

RowsFor(route) ==
  IF Armed(route)
  THEN {row \in SlotRows(MinOf(LiveSlots(route, now))) : row.route = route}
  ELSE {}

\* The rows of the ring the reserve takes the place of: from the arm's beginning on.
TakenByReserveWhole(row) == Armed(served[row.request].route)
TakenByReserve(row) ==
  LET request == served[row.request]
  IN /\ Armed(request.route)
     /\ request.startedAt >= arms[MinOf(LiveSlots(request.route, now))].armedAt

RingRows(route) == {row \in LiveRows : served[row.request].route = route}

\* sliceFor, by the requests each register contributes.
FromRing(route)    == {row.request : row \in {x \in RingRows(route) : ~TakenByReserve(x)}}
FromReserve(route) == {row.request : row \in RowsFor(route)}

-----------------------------------------------------------------------------
\* Properties.

\* A route is armed in one slot at most, so arming again prolongs and never starts a second
\* reserve that would split its rows (prearm.ts 214-262).
OneArmPerRoute == \A route \in Route : Cardinality(LiveSlots(route, now)) <= 1

\* What every step keeps of the two registers together: their types, and one reserve a route.
BoxInv == BoxTypeOK /\ OneArmPerRoute

\* The boundary per route is enough: no request comes from both registers (captures.ts
\* 203-206).  It holds when no request is under way as its route is armed.
SaidOnce == \A route \in Route : FromRing(route) \cap FromReserve(route) = {}

\* A reserve never takes the place of a row it does not have (captures.ts 200-202).  It holds
\* while no arm has been given more than its rows.
ReserveCoversTheRing ==
  \A route \in Route :
    {row.request : row \in RingRows(route)} \subseteq FromRing(route) \cup FromReserve(route)

CoversWhileItFits ==
  (\A s \in ArmSlots : arms[s].written <= RowsPerArm) => ReserveCoversTheRing

\* Where the i-th operation of a row of the reserve was put, and whether it is still there.
PoolOf(row, i)    == pool[(row.from + i - 1) % PoolCapacity]
StillKept(row, i) == PoolOf(row, i).at = row.from + i - 1

\* They all are.
RowLive(row) == \A i \in 1 .. row.count : StillKept(row, i)

\* Nobody writes over what an arm keeps (prearm.ts 328-329: "nobody else writes over it").
\* It does not hold of two routes: ReserveKeepsItsLast says of which rows it does.
PoolRowsLive == \A route \in Route : \A row \in RowsFor(route) : RowLive(row)

\* What an armed route keeps is the last it was given, in spite of every other route, of the
\* slot's former tenants and of requests that started under another arm (ADR 0122).  Their
\* operations are in a pool that all the arms write: they are whole exactly as long as no
\* more than the pool holds have been written since the row's first, by any arm, and the row
\* does not say which (prearm.ts 327-330).
ReserveKeepsItsLast ==
  \A route \in Route : Armed(route) =>
    LET arm == arms[MinOf(LiveSlots(route, now))]
    IN /\ FromReserve(route) =
            {arm.seen[n] : n \in {n \in DOMAIN arm.seen : n > Len(arm.seen) - RowsPerArm}}
       /\ \A row \in RowsFor(route) :
            RowLive(row) <=> row.count = 0 \/ poolCursor - row.from <= PoolCapacity

\* What a reserve copied, up to the cap per request, was written while the request was open, by
\* it or by a request beside it; past the cap it is whatever the ring held (agent.ts 1654).
ReserveOfItsTime ==
  \A route \in Route : \A row \in RowsFor(route) :
    \A i \in 1 .. MinOf({row.count, PerRequest}) :
      StillKept(row, i) => PoolOf(row, i).owner \in OfItsTime(row.request)

\* What is read of a request is of its time wherever it is read: the ring, the samples taken
\* from its last row, and the reserve up to the cap.
ReadsItsOwnTime == RowsOfTheirTime /\ SamplesOfTheirTime /\ ReserveOfItsTime

\* The reserve reads the range its request wrote (agent.ts 1654, in those words), even when
\* nobody writes beside it.  It does not hold past the cap.
ReserveReadsItsRange ==
  \A route \in Route : \A row \in RowsFor(route) :
    ctx[row.request].beside = {} /\ RowLive(row) =>
      \A i \in 1 .. row.count : PoolOf(row, i).owner = row.request
=============================================================================
