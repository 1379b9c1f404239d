----------------------------- MODULE MCBlackBox -----------------------------
(***************************************************************************)
(* BlackBox for TLC, within the bounds of one of several workloads: how    *)
(* many routes and requests there are, how many are served at once, what   *)
(* they do, and whether routes are armed.                                  *)
(***************************************************************************)
EXTENDS BlackBox, TLC

\* No action tells one route from another, and no workload names one.
Routes == Permutations(Route)

Plain ==
  [routes |-> 1, arms |-> FALSE, requests |-> 3, open |-> 2, ops |-> 0,
   labels |-> FALSE, trailing |-> FALSE, sheds |-> FALSE, samples |-> FALSE,
   from |-> 1, time |-> 3]

Workloads ==
  { [Plain EXCEPT !.ops = 2, !.sheds = TRUE],
    [Plain EXCEPT !.ops = 3, !.trailing = TRUE, !.sheds = TRUE, !.requests = 2],
    [Plain EXCEPT !.ops = 1, !.trailing = TRUE],
    [Plain EXCEPT !.labels = TRUE, !.open = 1],
    [Plain EXCEPT !.ops = 2, !.samples = TRUE, !.open = 1],
    [Plain EXCEPT !.arms = TRUE, !.routes = 3, !.requests = 2, !.time = 6],
    [Plain EXCEPT !.arms = TRUE, !.ops = 2, !.open = 1, !.from = 2, !.time = 5],
    [Plain EXCEPT !.arms = TRUE, !.ops = 2, !.requests = 2, !.from = 2],
    [Plain EXCEPT !.arms = TRUE, !.ops = 3, !.open = 1, !.requests = 2, !.from = 2, !.time = 4] }

\* What has happened so far, bounded by one of the workloads.
Within ==
  LET labels   == \E r \in Started : touched[r] # <<>>
      \* What finishes after its request counts in the one and not in the other.
      trailing == \E r \in Started : ctx[r].fine /\ ctx[r].ops # ran[r]
      sheds    == ~keeping \/ \E r \in Started : ~ctx[r].fine
      arming   == liveUntil >= 0 \/ now # Len(ctx)
      ops      == {ctx[r].ops : r \in Started} \cup {ran[r] : r \in Started}
      routes   == {served[r].route : r \in Started}
                    \cup ({arms[s].route : s \in ArmSlots} \ {"none"})
  IN \E load \in Workloads :
       /\ labels => load.labels
       /\ arming => load.arms
       /\ sheds => load.sheds
       /\ trailing => load.trailing
       /\ sample # <<>> => load.samples
       /\ served # <<>> => served[1].startedAt >= load.from
       /\ now <= load.time /\ Len(ctx) <= load.requests
       /\ Cardinality(Open) <= load.open /\ \A n \in ops : n <= load.ops
       /\ Cardinality(routes) <= load.routes
=============================================================================
