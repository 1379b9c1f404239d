------------------------------- MODULE MCEnds -------------------------------
(***************************************************************************)
(* What must happen in the end, for TLC: the sender sends, and the meter   *)
(* gives the detail back.  They share no state, so one of the two goes on, *)
(* under its own fairness, and the other stays where it starts.            *)
(***************************************************************************)
EXTENDS Sender, OverheadMeter

VARIABLE runs

Sending  == runs = "sender"
Metering == runs = "meter"

EndsInit == Init /\ MeterInit /\ runs \in {"sender", "meter"}

EndsNext ==
  /\ UNCHANGED runs
  /\ \/ Sending /\ Next /\ UNCHANGED meterVars
     \/ Metering /\ MeterNext /\ UNCHANGED vars

\* The fairness of FairSpec and of FairMeterSpec, each for the one that goes on.
EndsSpec ==
  /\ EndsInit /\ [][EndsNext]_<<runs, vars, meterVars>>
  /\ WF_vars(Sending /\ EnqueueExceptions) /\ WF_vars(Sending /\ Flush)
  /\ WF_vars(Sending /\ Answer) /\ WF_vars(Sending /\ CloudAccepts)
  /\ WF_meterVars(Metering /\ \E cost \in Cost, over \in BOOLEAN : Finish(cost, over))
=============================================================================
