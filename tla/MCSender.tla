------------------------------ MODULE MCSender ------------------------------
(***************************************************************************)
(* Sender for TLC, within the bounds of one of several workloads: what the *)
(* process may throw, close, ask and declare, and how often the cloud may  *)
(* fail it.                                                                *)
(***************************************************************************)
EXTENDS SenderProofs

Quiet ==
  [throws |-> 0, intervals |-> 0, profiles |-> 0, asks |-> 0, reports |-> FALSE,
   endings |-> FALSE, failures |-> 2, late |-> 1]

Workloads ==
  { [Quiet EXCEPT !.throws = 2, !.failures = 1],
    [Quiet EXCEPT !.throws = 1, !.late = 2],
    [Quiet EXCEPT !.intervals = 4, !.profiles = 1, !.late = 0],
    [Quiet EXCEPT !.intervals = 1, !.profiles = 3, !.late = 0],
    [Quiet EXCEPT !.asks = 2, !.failures = 1, !.late = 0],
    [Quiet EXCEPT !.asks = 1, !.reports = TRUE, !.failures = 1],
    [Quiet EXCEPT !.intervals = 2, !.endings = TRUE],
    [Quiet EXCEPT !.throws = 1, !.intervals = 1, !.failures = 1] }

\* What has happened so far, bounded by one of the workloads.
Within ==
  LET reports == captureReports \cup batch.reports \cup cloud.reported
      asked   == \E g \in Signal : hist.asked[g] > 0
      left    == ending # NoEnding \/ hist.exited
      failed  == stats["failed"] + IF answer \in {"refused", "wait"} THEN 1 ELSE 0
  IN \E load \in Workloads :
       /\ hist.made <= load.intervals /\ hist.profiles <= load.profiles
       /\ asked => \A g \in Signal : hist.asked[g] <= load.asks
       /\ reports # {} => load.reports
       /\ left => load.endings
       /\ \A s \in Sig : thrown[s] <= load.throws
       /\ failed <= load.failures /\ Cardinality(late) <= load.late
=============================================================================
