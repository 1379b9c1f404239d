---------------------------- MODULE LocalSignals -----------------------------
(***************************************************************************)
(* The local signals (packages/agent/src/trigger.ts): what a process sees  *)
(* in one interval after another, and asks the cloud for detail, or arms a *)
(* route's reserve.                                                        *)
(***************************************************************************)
EXTENDS Observed, Sequences

CONSTANTS
  Sustained,     \* intervals a signal must stay
  Cooldown,      \* between two asks, in ticks of the clock
  WaitThreshold, \* what a request may wait for a connection, on average
  MinToArm       \* requests an interval needs to say anything of an endpoint

ASSUME SignalsAssumption ==
  {Sustained, Cooldown, WaitThreshold, MinToArm} \subseteq Nat \ {0}

VARIABLES
  over, askedAt,  \* of the event loop
  queueing,       \* the run of each endpoint
  armed,          \* what the last interval armed
  verdicts,       \* history: the endpoints that queued, interval by interval with traffic
  asks            \* history: when the cloud was asked, and how many intervals in a row

signalVars == <<over, askedAt, queueing, armed, verdicts, asks>>

Never == -1

SignalsInit ==
  /\ over = 0 /\ askedAt = Never
  /\ queueing = [l \in Label |-> 0]
  /\ armed = {} /\ verdicts = <<>> /\ asks = {}

\* A reading of the event loop: nobody samples it, it is fine, or it is late.
Health == {"unknown", "fine", "late"}

CooledDownWhenAsked == TRUE
CooledDown == askedAt = Never \/ now - askedAt >= Cooldown

\* LocalTriggers.interval
Ask(health) ==
  LET run   == IF health = "late" THEN over + 1 ELSE 0
      asked == run >= Sustained /\ CooledDown
  IN /\ over' = run
     /\ askedAt' = IF asked THEN now ELSE askedAt
     /\ asks' = IF asked THEN asks \cup {[at |-> now, run |-> run]} ELSE asks

\* An interval's endpoint: enough requests, that waited too long for a connection.
Queues(count, wait) == count >= MinToArm /\ wait > WaitThreshold * count

RunsForget(queued, shown) ==
  [l \in Label |-> IF l \in queued THEN queueing[l] + 1
                   ELSE IF l \in shown THEN 0 ELSE queueing[l]]

\* A good interval breaks the run, and so does one the endpoint is not in.
Runs(queued, shown) == [l \in Label |-> IF l \in queued THEN queueing[l] + 1 ELSE 0]

\* LocalTriggers.endpoints, and the arms the agent renews by it.
Arm(queued, shown) ==
  /\ queueing' = Runs(queued, shown)
  /\ armed' = {l \in shown : queueing'[l] >= Sustained}
  /\ verdicts' = Append(verdicts, queued)

-----------------------------------------------------------------------------
SignalsTypeOK ==
  /\ over \in Nat /\ askedAt \in Int
  /\ queueing \in [Label -> Nat] /\ armed \subseteq Label

\* What is armed queued in each of the last intervals that had traffic, and not in some of
\* them: a spike between two quiet intervals is not a signal that stays.  And the cloud is
\* asked no sooner than the cooldown says (trigger.ts 119-131, 147-155).
ArmedMeansSustained ==
  /\ \A l \in armed : \A i \in Len(verdicts) - Sustained + 1 .. Len(verdicts) :
       i \in DOMAIN verdicts /\ l \in verdicts[i]
  /\ \A a \in asks :
       /\ a.run >= Sustained
       /\ \A b \in asks : a # b => a.at - b.at >= Cooldown \/ b.at - a.at >= Cooldown
=============================================================================
