---------------------------- MODULE CoarseSummary ----------------------------
(***************************************************************************)
(* The coarse half of the black box (packages/agent/src/coarse.ts): the    *)
(* last seconds of each endpoint and of the event loop, in rings whose     *)
(* slots say which second they hold.                                       *)
(*                                                                         *)
(* Of what a second holds, the requests and the errors are kept; sums and  *)
(* maxima of times are left out, and of the event loop the worst reading.  *)
(***************************************************************************)
EXTENDS Observed

CONSTANTS
  Seconds,       \* the window
  SecondTicks,   \* a second, in ticks of the clock
  MaxRows,       \* rows for routes
  MaxDropped,    \* dropped routes it remembers
  MaxDelay       \* readings of the event loop: 1 .. MaxDelay (a bound)

ASSUME CoarseAssumption ==
  {Seconds, SecondTicks, MaxRows, MaxDropped, MaxDelay} \subseteq Nat \ {0}

VARIABLES
  rows,      \* by endpoint: the second it was first seen at, and its ring
  dropped,   \* the routes that had no row, as far as they are remembered
  loop,      \* the event loop's ring
  hits,      \* history: requests and errors of each endpoint, by second
  sampled    \* history: the readings of the event loop, by second

coarseVars == <<rows, dropped, loop, hits, sampled>>

Slot     == 0 .. Seconds - 1
NoSecond == -1
NoSlot   == [second |-> NoSecond, requests |-> 0, errors |-> 0]
NoRow    == [since |-> NoSecond, ring |-> [s \in Slot |-> NoSlot]]

SlotOf(second) == second % Seconds
ThisSecond     == now \div SecondTicks
Oldest         == ThisSecond - Seconds + 1
Window         == Max({0, Oldest}) .. ThisSecond

CoarseInit ==
  /\ rows = [l \in Label |-> NoRow]
  /\ dropped = {}
  /\ loop = [s \in Slot |-> [second |-> NoSecond, delay |-> 0]]
  /\ hits = {} /\ sampled = {}

Seen == {l \in Label : rows[l].since # NoSecond}

RoutesDropped == Cardinality(dropped)

KeepAnySecond(slot, second) == slot

\* A slot that holds another second belongs to a window ago, and is cleared by the write.
KeepSecond(slot, second) ==
  IF slot.second = second THEN slot ELSE [NoSlot EXCEPT !.second = second]

\* CoarseRegister.record, with the row that rowFor finds or makes.
RecordCoarse(label, body) ==
  LET row  == RowOf(Seen, MaxRows, label)
      slot == KeepSecond(rows[row].ring[SlotOf(ThisSecond)], ThisSecond)
      fail == IF body.failed THEN 1 ELSE 0
  IN /\ rows' = [rows EXCEPT ![row] =
           [since |-> IF @.since = NoSecond THEN ThisSecond ELSE @.since,
            ring  |-> [@.ring EXCEPT ![SlotOf(ThisSecond)] =
                         [slot EXCEPT !.requests = @ + 1, !.errors = @ + fail]]]]
     /\ dropped' = IF row # label /\ Cardinality(dropped) < MaxDropped
                   THEN dropped \cup {label} ELSE dropped
     /\ hits' = LET at == {h \in hits : h.label = label /\ h.second = ThisSecond}
                    had == CHOOSE h \in at : TRUE
                IN (hits \ at) \cup
                   {[label |-> label, second |-> ThisSecond,
                     requests |-> 1 + IF at = {} THEN 0 ELSE had.requests,
                     errors |-> fail + IF at = {} THEN 0 ELSE had.errors]}
     /\ UNCHANGED <<loop, sampled>>

\* The agent's loopTick, once a second: a second without a reading is not written.
LoopTick(delay) ==
  LET slot == loop[SlotOf(ThisSecond)]
      kept == IF slot.second = ThisSecond THEN slot.delay ELSE 0
  IN /\ loop' = [loop EXCEPT ![SlotOf(ThisSecond)] =
                   [second |-> ThisSecond, delay |-> Max({kept, delay})]]
     /\ sampled' = sampled \cup {[second |-> ThisSecond, delay |-> delay]}
     /\ UNCHANGED <<rows, dropped, hits>>

-----------------------------------------------------------------------------
\* CoarseRegister.snapshot

\* A second with no traffic reads zeros, and one nobody watched is absent.
SaidSeconds(row) == {s \in Window : s >= rows[row].since}
Said(row, second) ==
  LET slot == rows[row].ring[SlotOf(second)]
  IN IF slot.second = second THEN slot ELSE [NoSlot EXCEPT !.second = second]

SaidLoop == {slot \in {loop[s] : s \in Slot} : slot.second # NoSecond /\ slot.second >= Oldest}

-----------------------------------------------------------------------------
CoarseTypeOK ==
  /\ \A l \in Label :
       /\ rows[l].since \in Int
       /\ \A s \in Slot : rows[l].ring[s] \in [second : Int, requests : Nat, errors : Nat]
  /\ dropped \subseteq Label /\ Cardinality(dropped) <= MaxDropped
  /\ \A s \in Slot : loop[s] \in [second : Int, delay : 0 .. MaxDelay]

\* What a row says of a second is what its endpoints were served in it: no second is read as
\* another's, none is said before the row was there, and no zero is invented for one that was
\* busy.  The event loop is said for the seconds somebody sampled, at its worst.  What is
\* dropped is a lower bound of the routes without a row (coarse.ts 57-63, 90-97, 241-242).
SecondsTell ==
  /\ \A row \in Seen, second \in Window :
       LET of == {h \in hits : h.label \in StandsFor(Seen, row) /\ h.second = second}
       IN IF second \in SaidSeconds(row)
          THEN /\ Said(row, second).requests = SumOver(of, LAMBDA h : h.requests)
               /\ Said(row, second).errors = SumOver(of, LAMBDA h : h.errors)
          ELSE of = {}
  /\ \A second \in Window :
       {slot.delay : slot \in {s \in SaidLoop : s.second = second}}
         = LET read == {r.delay : r \in {q \in sampled : q.second = second}}
           IN IF read = {} THEN {} ELSE {Max(read)}
  /\ RoutesDropped <= Cardinality({h.label : h \in hits} \ Seen)
=============================================================================
