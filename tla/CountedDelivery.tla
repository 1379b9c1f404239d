--------------------------- MODULE CountedDelivery ---------------------------
(***************************************************************************)
(* What the agent promises about the exceptions a process throws outside a *)
(* request (protocol schema, CountedException.total and droppedExceptions):*)
(* every occurrence is counted by the cloud at most once, or is counted as *)
(* lost, and never both.                                                   *)
(***************************************************************************)
EXTENDS Integers

CONSTANT Sig

VARIABLES happened, counted, lost

vars == <<happened, counted, lost>>

Occurrences == [Sig -> Nat]
Zero        == [s \in Sig |-> 0]

\* More of something, never less, and never more than what is left to account for.
Grows(before, after) ==
  after \in Occurrences /\ \A s \in Sig : before[s] <= after[s]

Accounted(h, c, l) == \A s \in Sig : c[s] + l[s] <= h[s]

Init == happened = Zero /\ counted = Zero /\ lost = Zero

\* A process throws, once; what its register's window does not admit is lost there.
Throw(s) ==
  /\ happened' = [happened EXCEPT ![s] = @ + 1]
  /\ UNCHANGED counted
  /\ lost' = lost \/ lost' = [lost EXCEPT ![s] = @ + 1]

Lose ==
  /\ UNCHANGED <<happened, counted>>
  /\ Grows(lost, lost')
  /\ Accounted(happened, counted, lost')

Count ==
  /\ UNCHANGED <<happened, lost>>
  /\ Grows(counted, counted')
  /\ Accounted(happened, counted', lost)

Next == (\E s \in Sig : Throw(s)) \/ Lose \/ Count

Spec == Init /\ [][Next]_vars
=============================================================================
