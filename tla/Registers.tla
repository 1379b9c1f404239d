------------------------------ MODULE Registers ------------------------------
(***************************************************************************)
(* The agent's registers together, as its handlers feed and empty them     *)
(* (packages/agent/src/agent.ts: requestStarted, responseEnding,           *)
(* responseFinished, recordFinished, enqueueHeld, loopTick), with the      *)
(* requests in flight that runtime.ts counts.                              *)
(*                                                                         *)
(* A request is numbered as it starts.  What the fine register and the     *)
(* reserve make of it is in BlackBox, what the meter decides in            *)
(* OverheadMeter, and what becomes of what a flush takes in Drain and      *)
(* Sender.                                                                 *)
(***************************************************************************)
EXTENDS Aggregates, CoarseSummary, ReferenceSamples, LocalSignals

CONSTANTS
  Excluded,     \* the routes the operator excluded
  \* Bounds of the model:
  MaxRequests, MaxOpen, MaxNow, MaxRotations

ASSUME RegistersAssumption ==
  /\ Excluded \subseteq {e.route : e \in Endpoint}
  /\ {MaxRequests, MaxOpen, MaxNow, MaxRotations} \subseteq Nat

VARIABLES
  checking,    \* under `check`: a file and no cloud, and a response is recorded as it is ended
  state,       \* of each request: open, ended before its bytes left, finished, or gone
  inFlight, inFlightMax,
  recorded,    \* requests recorded
  level,       \* what the meter gave up: nothing, fine, profile
  rotations    \* bound: intervals closed

requestVars == <<checking, state, inFlight, inFlightMax, recorded>>
vars == <<now, aggregateVars, profileVars, coarseVars, referenceVars, signalVars,
          requestVars, level, rotations>>

Levels == {"nothing", "fine", "profile"}
KeepsFine    == level = "nothing"
KeepsProfile == level # "profile"

Begun == DOMAIN state
Open  == {r \in Begun : state[r] = "open"}

\* No request is in flight, as the agent counts them.
Idle == inFlight = 0

Init ==
  /\ now = 0
  /\ AggregatesInit /\ CoarseInit /\ ReferenceInit /\ SignalsInit
  /\ checking \in BOOLEAN
  /\ state = <<>> /\ inFlight = 0 /\ inFlightMax = 0 /\ recorded = 0
  /\ level = "nothing" /\ rotations = 0

-----------------------------------------------------------------------------
\* requestStarted, and RuntimeSampler.requestStarted.
RequestStarted ==
  /\ Cardinality(Begun) < MaxRequests /\ Cardinality(Open) < MaxOpen
  /\ state' = Append(state, "open")
  /\ inFlight' = inFlight + 1
  /\ inFlightMax' = Max({inFlightMax, inFlight + 1})
  /\ UNCHANGED <<now, aggregateVars, profileVars, coarseVars, referenceVars, signalVars,
                 checking, recorded, level, rotations>>

Left == IF inFlight > 0 THEN inFlight - 1 ELSE inFlight

\* enqueueHeld, of what the registers hold: eps and ops.  Only traffic makes an interval, and
\* only an interval is read by the local signals; the peak in flight starts again from there.
EnqueueHeld(eps, ops, leaving, health, flying) ==
  /\ CloseProfile(ops, leaving)
  /\ RotateInterval(eps)
  /\ IF Routes(eps) = {}
     THEN UNCHANGED <<signalVars, inFlightMax>>
     ELSE /\ inFlightMax' = IF health = "unknown" THEN inFlightMax ELSE flying
          /\ Ask(health)
          /\ Arm({l \in Routes(eps) :
                    Queues(eps[l].count, SumOver(DependencyRow, LAMBDA d : eps[l].deps[d].wait))},
                 Routes(eps))

\* Under check, the last answer of a process may be the last thing it does: it writes what it
\* holds each time no request is in flight.
WritesNow(flying) == checking /\ flying = 0

\* recordFinished, of a request that starts or ends outside this process's exclusions: each
\* register in the code's order, and the file under check.
Record(r, label, body) ==
  \E keep \in MayKeep(endpoints[RowOf(Routes(endpoints), MaxRoutes, label)].deps, body.work) :
    LET eps == Recorded(label, body, keep)
        ops == IF KeepsProfile THEN Profile(label, body) ELSE operations
    IN /\ recorded' = recorded + 1
       /\ RecordCoarse(label, body)
       /\ IF KeepsFine THEN Consider(label, r) ELSE UNCHANGED referenceVars
       /\ IF WritesNow(Left)
          THEN \E health \in Health : EnqueueHeld(eps, ops, TRUE, health, Left)
          ELSE /\ endpoints' = eps /\ served' = ServedToo(label, body)
               /\ operations' = ops
               /\ ran' = IF KeepsProfile THEN RanToo(label, body) ELSE ran
               /\ UNCHANGED <<intervalStart, lastInterval, windowStart, lastWindow,
                              signalVars, inFlightMax>>

RecordFinished(r, label, body) ==
  /\ inFlight' = Left
  /\ IF label.route \in Excluded
     THEN UNCHANGED <<aggregateVars, profileVars, coarseVars, referenceVars, signalVars,
                      inFlightMax, recorded>>
     ELSE Record(r, label, body)
  /\ UNCHANGED <<now, checking, level, rotations>>

\* responseEnding: under check, before the last bytes leave, and once.
ResponseEnding(r, label, body) ==
  /\ checking /\ state[r] = "open"
  /\ state' = [state EXCEPT ![r] = "ended"]
  /\ RecordFinished(r, label, body)

\* responseFinished: Node publishes it when the last bytes are on the socket.
ResponseFinished(r, label, body) ==
  /\ state[r] = "open"
  /\ ~checking      \* a response that finishes has been ended
  /\ state' = [state EXCEPT ![r] = "finished"]
  /\ RecordFinished(r, label, body)

EndedAnyhow(r) == FALSE

\* A response that was recorded as it ended is not recorded again.
EndedEarly(r) == state[r] = "ended"

ResponseFinishedLate(r) ==
  /\ state[r] = "ended"
  /\ state' = [state EXCEPT ![r] = "finished"]
  /\ IF EndedEarly(r)
     THEN UNCHANGED <<inFlight, recorded>>
     ELSE inFlight' = Left /\ recorded' = recorded + 1
  /\ UNCHANGED <<now, aggregateVars, profileVars, coarseVars, referenceVars, signalVars,
                 checking, inFlightMax, level, rotations>>

\* External: the client went away first, and Node publishes no finish.
ClientGone(r) ==
  /\ state[r] \in {"open", "ended"}
  /\ state' = [state EXCEPT ![r] = "gone"]
  /\ UNCHANGED <<now, aggregateVars, profileVars, coarseVars, referenceVars, signalVars,
                 checking, inFlight, inFlightMax, recorded, level, rotations>>

\* A flush begins: the timer's, or one on the way out.
Rotate(leaving, health) ==
  /\ rotations < MaxRotations /\ rotations' = rotations + 1
  /\ EnqueueHeld(endpoints, operations, leaving, health, inFlight)
  /\ IF leaving \/ now - windowStart >= WindowMs THEN TRUE ELSE UNCHANGED ran
  /\ UNCHANGED <<now, coarseVars, referenceVars, checking, state, inFlight, recorded, level>>

SampleLoop(delay) ==
  /\ LoopTick(delay)
  /\ UNCHANGED <<now, aggregateVars, profileVars, referenceVars, signalVars, requestVars,
                 level, rotations>>

\* Captures begin and end (Drain), and the renewal follows.
Renew(live) ==
  /\ paused # live /\ RenewReference(live)
  /\ UNCHANGED <<now, aggregateVars, profileVars, coarseVars, signalVars, requestVars,
                 level, rotations>>

\* The meter gives up, or takes back, one thing at a time (OverheadMeter).
MeterMoves ==
  /\ level' \in CASE level = "nothing" -> {"fine"}
                  [] level = "fine"    -> {"nothing", "profile"}
                  [] level = "profile" -> {"fine"}
  /\ UNCHANGED <<now, aggregateVars, profileVars, coarseVars, referenceVars, signalVars,
                 requestVars, rotations>>

Tick ==
  /\ now < MaxNow /\ now' = now + 1
  /\ UNCHANGED <<aggregateVars, profileVars, coarseVars, referenceVars, signalVars,
                 requestVars, level, rotations>>

Next ==
  \/ RequestStarted
  \/ \E r \in Begun :
       \/ \E label \in Endpoint, body \in Bodies :
            ResponseEnding(r, label, body) \/ ResponseFinished(r, label, body)
       \/ ResponseFinishedLate(r)
       \/ ClientGone(r)
  \/ \E leaving \in BOOLEAN, health \in Health : Rotate(leaving, health)
  \/ \E delay \in 1 .. MaxDelay : SampleLoop(delay)
  \/ \E live \in BOOLEAN : Renew(live)
  \/ MeterMoves
  \/ Tick

Spec == Init /\ [][Next]_vars

-----------------------------------------------------------------------------
RegistersTypeOK ==
  /\ AggregatesTypeOK /\ CoarseTypeOK /\ ReferenceTypeOK /\ SignalsTypeOK
  /\ now \in Nat
  /\ state \in [1 .. Len(state) -> {"open", "ended", "finished", "gone"}]
  /\ checking \in BOOLEAN
  /\ {inFlight, inFlightMax, recorded, rotations} \subseteq Nat
  /\ level \in Levels

\* What every step keeps of the four registers: their types, the cap of each, and that no two
\* intervals or windows start at one instant.
RegistersInv == RegistersTypeOK /\ WindowsDistinct

\* A process that takes itself to be idle is: what it writes then misses no request that was
\* being served.  And no request is recorded twice, ended early or not (agent.ts 1574-1587,
\* runtime.ts 85-88).
IdleMeansIdle ==
  /\ Idle => Open = {}
  /\ recorded <= Cardinality(Begun \ Open)

\* The requests counted in flight are the requests in flight (runtime.ts 13-16, 90-93).  It does
\* not hold: one whose client went away is counted for good.
InFlightIsTrue == inFlight = Cardinality(Open)
=============================================================================
