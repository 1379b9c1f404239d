------------------------------- MODULE MCDrain -------------------------------
(***************************************************************************)
(* Drain for TLC, within the bounds of one of several workloads: which     *)
(* doors there are, how many captures the cloud orders, and whether the    *)
(* version is searched for.                                                *)
(***************************************************************************)
EXTENDS Drain, TLC

\* No action tells one capture from another, and no workload names one.
Captures == Permutations(Capture)

Workloads ==
  { [doors |-> {"stop", "disable", "signal"}, captures |-> 1, orders |-> 1, searched |-> FALSE],
    [doors |-> {"stop", "signal"}, captures |-> 2, orders |-> 2, searched |-> FALSE],
    [doors |-> {"stop", "idle"}, captures |-> 1, orders |-> 1, searched |-> TRUE] }

Bounds(load) ==
  /\ \A f \in Began : flushes[f].kind \in {"timer"} \cup load.doors
  /\ Cardinality({c \in Capture : accepted[c] > 0}) <= load.captures
  /\ \A c \in Capture : accepted[c] <= load.orders
  /\ version # "digest" => load.searched

WithinDrain == \E load \in Workloads : Bounds(load)
=============================================================================
