------------------------------- MODULE MCLife -------------------------------
(***************************************************************************)
(* An agent's life for TLC: what it attaches to, and how it leaves.  The   *)
(* instrumentation and the flushes share no state, so their behaviours are *)
(* checked side by side and never multiplied: one of the two goes on, and  *)
(* the other stays where one of its behaviours starts.                     *)
(***************************************************************************)
EXTENDS MCInstrumentation, MCDrain

VARIABLE runs

LifeInit ==
  /\ runs \in {"instrumentation", "flushes"}
  /\ MCInit /\ DrainInit
  /\ runs = "flushes" => workload = "alone" /\ chosen = {"mssql"} /\ early /\ announces
  /\ runs = "instrumentation" => version = "digest"

LifeNext ==
  /\ UNCHANGED runs
  /\ \/ runs = "instrumentation" /\ MCNext /\ UNCHANGED drainVars
     \/ runs = "flushes" /\ DrainNext /\ UNCHANGED <<vars, workload>>

LifeSpec == LifeInit /\ [][LifeNext]_<<runs, vars, workload, drainVars>>

WithinLife == Within /\ WithinDrain
=============================================================================
