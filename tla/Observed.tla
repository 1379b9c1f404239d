------------------------------ MODULE Observed -------------------------------
(***************************************************************************)
(* What the registers of the agent share: the labels of endpoints, the     *)
(* body of a finished request as they see it, the agent's clock, and how   *)
(* a full register names an endpoint.                                      *)
(*                                                                         *)
(* The clock counts half milliseconds, because the agent's has decimals    *)
(* and what leaves the process has none.                                   *)
(***************************************************************************)
EXTENDS Integers, FiniteSets, FiniteSetsExt, Functions

CONSTANTS
  Endpoint,     \* the application's endpoints: [method, route]
  OtherRoute,   \* the route of what a full register folds
  Kind,         \* kinds of dependencies
  Name,         \* their targets
  OtherName,    \* the target of what a full row folds
  Operation,    \* what a request runs: [kind, hash]
  ErrorKind,    \* the kinds that are errors
  Bodies        \* what a request may have done: [failed, work, operations]

Label       == Endpoint \cup {[e EXCEPT !.route = OtherRoute] : e \in Endpoint}
Destination == [kind : Kind, name : Name]

ASSUME ObservedAssumption ==
  /\ \A S \in {Endpoint, Kind, Name, Operation} : IsFiniteSet(S)
  /\ \A e \in Endpoint : e = [method |-> e.method, route |-> e.route] /\ e.route # OtherRoute
  /\ OtherName \notin Name
  \* A digest is of one operation, and is a number here: all that is made of it is an order.
  /\ \A a \in Operation : a.hash \in Int
  /\ \A a, b \in Operation : a.hash = b.hash => a = b
  /\ \A body \in Bodies :
       /\ body.failed \in BOOLEAN
       /\ DOMAIN body.work \subseteq Destination
       /\ \A d \in DOMAIN body.work : body.work[d] \in [ms : Nat, wait : Nat]
       /\ DOMAIN body.operations \subseteq Operation
       /\ \A op \in DOMAIN body.operations : body.operations[op] \in Nat

VARIABLE now

\* An instant as the batch carries it: whole milliseconds.
Floor(instant) == instant \div 2

NextStartNow(start) == now

\* A window never starts in the millisecond the one before it started in.
NextStart(start) == Max({now, 2 * (Floor(start) + 1)})

SumOver(S, f(_)) == SumFunctionOnSet([x \in S |-> f(x)], S)

RowOfAny(present, room, label) ==
  IF label \in present \/ Cardinality(present) < room THEN label
  ELSE [label EXCEPT !.route = OtherRoute]

\* The row an endpoint is counted in: its own, or that of its method's rest once the
\* register has given out all the rows it has for routes.
RowOf(present, room, label) ==
  LET routes == {l \in present : l.route # OtherRoute}
  IN IF label \in present \/ label.route = OtherRoute \/ Cardinality(routes) < room
     THEN label
     ELSE [label EXCEPT !.route = OtherRoute]

\* The endpoints a row stands for, among those of its method.
StandsFor(present, row) ==
  IF row.route # OtherRoute THEN {row}
  ELSE {l \in Label : l.method = row.method /\ (l = row \/ l \notin present)}
=============================================================================
