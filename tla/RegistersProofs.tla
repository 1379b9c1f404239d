--------------------------- MODULE RegistersProofs ---------------------------
(***************************************************************************)
(* Proofs about Registers for every value of its constants: a process that *)
(* takes itself to be idle is, no two windows start at one instant, what   *)
(* is armed queued for as long as it must, a reference sample says what it *)
(* was taken from, and the coarse summary tells the seconds apart.         *)
(*                                                                         *)
(* Each part moves by a few kinds of step, whatever the others do: a lemma *)
(* StepOf... reads them off Next once, and what follows is about them.     *)
(***************************************************************************)
EXTENDS Registers, SequenceTheorems, Lemmas

USE DEF aggregateVars, profileVars, coarseVars, referenceVars, signalVars, requestVars

-----------------------------------------------------------------------------
(* The requests                                                            *)

Statuses == {"open", "ended", "finished", "gone"}

Opens ==
  /\ state' = Append(state, "open")
  /\ inFlight' = inFlight + 1 /\ recorded' = recorded

Closes(r) ==
  /\ state[r] = "open"
  /\ \E s \in Statuses \ {"open"} : state' = [state EXCEPT ![r] = s]

\* What any step makes of a request, and of those counted.
RequestStep ==
  \/ Opens
  \/ \E r \in Begun : Closes(r) /\ inFlight' = Left /\ recorded' \in {recorded, recorded + 1}
  \/ \E r \in Begun : Closes(r) /\ UNCHANGED <<inFlight, recorded>>
  \/ \E r \in Begun :
       /\ state[r] = "ended"
       /\ \E s \in Statuses \ {"open"} : state' = [state EXCEPT ![r] = s]
       /\ UNCHANGED <<inFlight, recorded>>
  \/ UNCHANGED <<state, inFlight, recorded>>

\* The requests counted are at least those there are: one whose client went away stays
\* counted, and none is uncounted twice.
IdleInv ==
  /\ state \in Seq(Statuses) /\ inFlight \in Nat /\ recorded \in Nat
  /\ Cardinality(Open) <= inFlight
  /\ recorded <= Cardinality(Begun \ Open)

\* No step makes anything else of the requests.
LEMMA StepOfARequest == [Next]_vars => RequestStep
<1> SUFFICES ASSUME [Next]_vars PROVE RequestStep
  OBVIOUS
<1>1. CASE RequestStarted
  BY <1>1 DEF RequestStarted, RequestStep, Opens
<1>2. ASSUME NEW r \in Begun, NEW label \in Endpoint, NEW body \in Bodies,
             ResponseEnding(r, label, body) \/ ResponseFinished(r, label, body)
      PROVE  RequestStep
  <2>1. Closes(r)
    BY <1>2 DEF ResponseEnding, ResponseFinished, Closes, Statuses
  <2>2. RecordFinished(r, label, body)
    BY <1>2 DEF ResponseEnding, ResponseFinished
  <2>3. inFlight' = Left
    BY <2>2 DEF RecordFinished
  <2>4. recorded' \in {recorded, recorded + 1}
    BY <2>2 DEF RecordFinished, Record
  <2> QED
    BY <2>1, <2>3, <2>4 DEF RequestStep
<1>3. ASSUME NEW r \in Begun, ResponseFinishedLate(r) PROVE RequestStep
  BY <1>3 DEF ResponseFinishedLate, EndedEarly, RequestStep, Statuses
<1>4. ASSUME NEW r \in Begun, ClientGone(r) PROVE RequestStep
  BY <1>4 DEF ClientGone, RequestStep, Closes, Statuses
<1>5. ASSUME NEW leaving \in BOOLEAN, NEW health \in Health, Rotate(leaving, health)
      PROVE  RequestStep
  BY <1>5 DEF Rotate, RequestStep
<1>6. ASSUME NEW delay \in 1 .. MaxDelay, SampleLoop(delay) PROVE RequestStep
  BY <1>6 DEF SampleLoop, RequestStep
<1>7. ASSUME NEW live \in BOOLEAN, Renew(live) PROVE RequestStep
  BY <1>7 DEF Renew, RequestStep
<1>8. CASE MeterMoves
  BY <1>8 DEF MeterMoves, RequestStep
<1>9. CASE Tick
  BY <1>9 DEF Tick, RequestStep
<1>10. CASE UNCHANGED vars
  BY <1>10 DEF vars, RequestStep
<1> QED
  BY <1>1, <1>2, <1>3, <1>4, <1>5, <1>6, <1>7, <1>8, <1>9, <1>10 DEF Next

\* The requests are finitely many, and one that closes leaves the open ones.
LEMMA FewRequests ==
  ASSUME state \in Seq(Statuses)
  PROVE  /\ Begun = 1 .. Len(state) /\ IsFiniteSet(Begun) /\ IsFiniteSet(Open)
         /\ IsFiniteSet(Begun \ Open) /\ Cardinality(Open) \in Nat
         /\ Cardinality(Begun \ Open) \in Nat
<1>1. Begun = 1 .. Len(state) /\ Len(state) \in Nat
  BY LenProperties DEF Begun
<1>2. IsFiniteSet(Begun)
  BY <1>1, FS_Interval
<1>3. IsFiniteSet(Open) /\ IsFiniteSet(Begun \ Open)
  BY <1>2, FS_Subset DEF Open
<1> QED
  BY <1>1, <1>2, <1>3, FS_CardinalityType

\* A request that changes its state leaves the others alone.
LEMMA Moved ==
  ASSUME state \in Seq(Statuses), NEW r \in Begun, NEW s \in Statuses,
         state' = [state EXCEPT ![r] = s]
  PROVE  /\ state' \in Seq(Statuses) /\ Len(state') = Len(state)
         /\ Begun' = Begun
         /\ \A q \in Begun : state'[q] = IF q = r THEN s ELSE state[q]
<1>1. r \in 1 .. Len(state)
  BY FewRequests
<1>2. /\ state' \in Seq(Statuses) /\ Len(state') = Len(state)
      /\ \A j \in 1 .. Len(state) : state'[j] = IF j = r THEN s ELSE state[j]
  BY <1>1, ExceptSeq
<1>3. Begun = 1 .. Len(state) /\ Begun' = 1 .. Len(state')
  BY <1>2, LenProperties DEF Begun
<1> QED
  BY <1>2, <1>3

\* A request that starts is one more, and open.
LEMMA Added ==
  ASSUME state \in Seq(Statuses), state' = Append(state, "open")
  PROVE  /\ state' \in Seq(Statuses) /\ Len(state') = Len(state) + 1
         /\ Begun' = Begun \cup {Len(state) + 1} /\ Len(state) + 1 \notin Begun
         /\ Open' = Open \cup {Len(state) + 1}
         /\ Begun' \ Open' = Begun \ Open
<1>1. /\ state' \in Seq(Statuses) /\ Len(state') = Len(state) + 1
      /\ \A i \in 1 .. Len(state) : state'[i] = state[i]
      /\ state'[Len(state) + 1] = "open"
  BY AppendProperties DEF Statuses
<1>2. Begun = 1 .. Len(state) /\ Begun' = 1 .. Len(state') /\ Len(state) \in Nat
  BY <1>1, LenProperties DEF Begun
<1>3. Begun' = Begun \cup {Len(state) + 1} /\ Len(state) + 1 \notin Begun
  BY <1>1, <1>2
<1>4. Open' = Open \cup {Len(state) + 1}
  BY <1>1, <1>2, <1>3 DEF Open
<1>5. Open \subseteq Begun
  BY DEF Open
<1> QED
  BY <1>1, <1>3, <1>4, <1>5

\* Every step keeps the invariant of the requests.
LEMMA IdleStep == IdleInv /\ RequestStep => IdleInv'
<1> SUFFICES ASSUME IdleInv, RequestStep PROVE IdleInv'
  OBVIOUS
<1> USE DEF IdleInv
<1>0. /\ IsFiniteSet(Open) /\ IsFiniteSet(Begun \ Open) /\ Cardinality(Open) \in Nat
      /\ Cardinality(Begun \ Open) \in Nat /\ Open \subseteq Begun
  BY FewRequests DEF Open
<1>1. CASE Opens
  <2>1. /\ state' \in Seq(Statuses) /\ Open' = Open \cup {Len(state) + 1}
        /\ Begun' \ Open' = Begun \ Open /\ Len(state) + 1 \notin Begun
    BY <1>1, Added DEF Opens
  <2>2. Cardinality(Open \cup {Len(state) + 1}) = Cardinality(Open) + 1
    BY <1>0, <2>1, FS_AddElement
  <2>3. Cardinality(Open') = Cardinality(Open) + 1
    BY <2>1, <2>2
  <2>4. Cardinality(Begun' \ Open') = Cardinality(Begun \ Open)
    BY <2>1
  <2> QED
    BY <1>0, <1>1, <2>1, <2>3, <2>4 DEF Opens
<1>2. ASSUME NEW r \in Begun, Closes(r)
      PROVE  /\ state' \in Seq(Statuses)
             /\ Cardinality(Open') = Cardinality(Open) - 1 /\ Cardinality(Open) >= 1
             /\ Cardinality(Begun' \ Open') = Cardinality(Begun \ Open) + 1
  <2>1. PICK s \in Statuses \ {"open"} : state' = [state EXCEPT ![r] = s]
    BY <1>2 DEF Closes
  <2>2. /\ state' \in Seq(Statuses) /\ Begun' = Begun
        /\ \A q \in Begun : state'[q] = IF q = r THEN s ELSE state[q]
    BY <2>1, Moved
  <2>3. r \in Open /\ Open' = Open \ {r}
    BY <1>2, <2>2 DEF Open, Closes
  <2>4. Begun' \ Open' = (Begun \ Open) \cup {r} /\ r \notin Begun \ Open
    BY <2>2, <2>3
  <2>5. Cardinality(Open \ {r}) = Cardinality(Open) - 1
    BY <1>0, <2>3, FS_RemoveElement
  <2>6. Cardinality((Begun \ Open) \cup {r}) = Cardinality(Begun \ Open) + 1
    BY <1>0, <2>4, FS_AddElement
  <2>7. Cardinality(Open \ {r}) \in Nat
    BY <1>0, FS_RemoveElement, FS_CardinalityType
  <2>8. Cardinality(Open') = Cardinality(Open \ {r})
    BY <2>3
  <2>9. Cardinality(Begun' \ Open') = Cardinality((Begun \ Open) \cup {r})
    BY <2>4
  <2>10. Cardinality(Open) >= 1
    BY <1>0, <2>5, <2>7
  <2> QED
    BY <2>2, <2>5, <2>6, <2>8, <2>9, <2>10
<1>3. ASSUME NEW r \in Begun, Closes(r), inFlight' = Left,
             recorded' \in {recorded, recorded + 1}
      PROVE  IdleInv'
  <2>1. /\ state' \in Seq(Statuses)
        /\ Cardinality(Open') = Cardinality(Open) - 1 /\ Cardinality(Open) >= 1
        /\ Cardinality(Begun' \ Open') = Cardinality(Begun \ Open) + 1
    BY <1>2, <1>3
  <2>2. inFlight' = inFlight - 1 /\ inFlight >= 1
    BY <1>0, <1>3, <2>1 DEF Left
  <2> QED
    BY <1>0, <1>3, <2>1, <2>2
<1>4. ASSUME NEW r \in Begun, Closes(r), UNCHANGED <<inFlight, recorded>> PROVE IdleInv'
  <2>1. /\ state' \in Seq(Statuses)
        /\ Cardinality(Open') = Cardinality(Open) - 1 /\ Cardinality(Open) >= 1
        /\ Cardinality(Begun' \ Open') = Cardinality(Begun \ Open) + 1
    BY <1>2, <1>4
  <2> QED
    BY <1>0, <1>4, <2>1
<1>5. ASSUME NEW r \in Begun, state[r] = "ended", NEW s \in Statuses \ {"open"},
             state' = [state EXCEPT ![r] = s], UNCHANGED <<inFlight, recorded>>
      PROVE  IdleInv'
  <2>1. /\ state' \in Seq(Statuses) /\ Begun' = Begun
        /\ \A q \in Begun : state'[q] = IF q = r THEN s ELSE state[q]
    BY <1>5, Moved
  <2>2. Open' = Open
    BY <1>5, <2>1 DEF Open
  <2> QED
    BY <1>5, <2>1, <2>2
<1>6. CASE UNCHANGED <<state, inFlight, recorded>>
  BY <1>6 DEF Open, Begun
<1> QED
  BY <1>1, <1>3, <1>4, <1>5, <1>6 DEF RequestStep

\* The requests counted in flight are never fewer than those there are, and none is recorded
\* twice (runtime.ts 13-16, agent.ts 1574-1587).
THEOREM RequestsCounted == Spec => []IdleInv
<1>1. Init => IdleInv
  <2> SUFFICES ASSUME Init PROVE IdleInv
    OBVIOUS
  <2>1. state = <<>> /\ inFlight = 0 /\ recorded = 0
    BY DEF Init
  <2>2. state \in Seq(Statuses) /\ Begun = {}
    BY <2>1 DEF Begun
  <2>3. Open = {} /\ Begun \ Open = {}
    BY <2>2 DEF Open
  <2>4. Cardinality(Open) = 0 /\ Cardinality(Begun \ Open) = 0
    BY <2>3, FS_EmptySet
  <2> QED
    BY <2>1, <2>2, <2>4 DEF IdleInv
<1>2. IdleInv /\ [Next]_vars => IdleInv'
  BY IdleStep, StepOfARequest
<1> QED
  BY <1>1, <1>2, PTL DEF Spec

\* A process that takes itself to be idle is, so what it writes then misses no request that
\* was being served; and none is recorded twice (agent.ts 1574-1587, runtime.ts 85-88).
THEOREM IdleIsIdle == Spec => []IdleMeansIdle
<1>1. IdleInv => IdleMeansIdle
  <2> SUFFICES ASSUME IdleInv PROVE IdleMeansIdle
    OBVIOUS
  <2>1. IsFiniteSet(Open) /\ Cardinality(Open) \in Nat
    BY FewRequests DEF IdleInv
  <2>2. Cardinality(Open) = 0 => Open = {}
    BY <2>1, FS_EmptySet
  <2> QED
    BY <2>1, <2>2 DEF IdleInv, IdleMeansIdle, Idle
<1> QED
  BY <1>1, RequestsCounted, PTL

-----------------------------------------------------------------------------
(* The starts of intervals and windows, and the local signals              *)

\* What any step makes of them: a flush, the timer's or that of an idle moment under check,
\* closes what there is; else they stand still, while the clock may go on.
FlushStep ==
  \/ /\ \E eps, ops, leaving, health, flying : EnqueueHeld(eps, ops, leaving, health, flying)
     /\ now' = now
  \/ /\ UNCHANGED <<intervalStart, lastInterval, windowStart, lastWindow, signalVars>>
     /\ now' \in {now, now + 1}

\* No step makes anything else of the starts and the signals.
LEMMA StepOfAFlush == [Next]_vars => FlushStep
<1> SUFFICES ASSUME [Next]_vars PROVE FlushStep
  OBVIOUS
<1>1. CASE RequestStarted
  BY <1>1 DEF RequestStarted, FlushStep
<1>2. ASSUME NEW r \in Begun, NEW label \in Endpoint, NEW body \in Bodies,
             ResponseEnding(r, label, body) \/ ResponseFinished(r, label, body)
      PROVE  FlushStep
  <2>1. RecordFinished(r, label, body)
    BY <1>2 DEF ResponseEnding, ResponseFinished
  <2>2. now' = now
    BY <2>1 DEF RecordFinished
  <2>3. CASE label.route \in Excluded
    BY <2>1, <2>2, <2>3 DEF RecordFinished, FlushStep
  <2>4. CASE label.route \notin Excluded
    <3>1. Record(r, label, body)
      BY <2>1, <2>4 DEF RecordFinished
    <3>2. CASE WritesNow(Left)
      <4>1. \E eps, ops, leaving, health, flying :
               EnqueueHeld(eps, ops, leaving, health, flying)
        BY <3>1, <3>2 DEF Record
      <4> QED
        BY <2>2, <4>1 DEF FlushStep
    <3>3. CASE ~WritesNow(Left)
      BY <2>2, <3>1, <3>3 DEF Record, FlushStep
    <3> QED
      BY <3>2, <3>3
  <2> QED
    BY <2>3, <2>4
<1>3. ASSUME NEW r \in Begun, ResponseFinishedLate(r) PROVE FlushStep
  BY <1>3 DEF ResponseFinishedLate, FlushStep
<1>4. ASSUME NEW r \in Begun, ClientGone(r) PROVE FlushStep
  BY <1>4 DEF ClientGone, FlushStep
<1>5. ASSUME NEW leaving \in BOOLEAN, NEW health \in Health, Rotate(leaving, health)
      PROVE  FlushStep
  BY <1>5 DEF Rotate, FlushStep
<1>6. ASSUME NEW delay \in 1 .. MaxDelay, SampleLoop(delay) PROVE FlushStep
  BY <1>6 DEF SampleLoop, FlushStep
<1>7. ASSUME NEW live \in BOOLEAN, Renew(live) PROVE FlushStep
  BY <1>7 DEF Renew, FlushStep
<1>8. CASE MeterMoves
  BY <1>8 DEF MeterMoves, FlushStep
<1>9. CASE Tick
  BY <1>9 DEF Tick, FlushStep
<1>10. CASE UNCHANGED vars
  BY <1>10 DEF vars, FlushStep
<1> QED
  BY <1>1, <1>2, <1>3, <1>4, <1>5, <1>6, <1>7, <1>8, <1>9, <1>10 DEF Next

\* The greater of two instants.
LEMMA MaxOfTwo ==
  ASSUME NEW m \in Int, NEW n \in Int
  PROVE  Max({m, n}) \in {m, n} /\ Max({m, n}) >= m /\ Max({m, n}) >= n
<1>1. \E x \in {m, n} : \A y \in {m, n} : x >= y
  <2>1. CASE m >= n
    BY <2>1
  <2>2. CASE n >= m
    BY <2>2
  <2> QED
    BY <2>1, <2>2
<1> QED
  BY <1>1 DEF Max

\* A start that follows another says a later millisecond, however soon it follows.
LEMMA StartsLater ==
  ASSUME now \in Nat, NEW start \in Nat
  PROVE  NextStart(start) \in Nat /\ Floor(start) < Floor(NextStart(start))
<1> DEFINE next == 2 * (Floor(start) + 1)
<1>1. Floor(start) \in Nat
  BY DEF Floor
<1>2. next \in Nat
  BY <1>1
<1>3. Max({now, next}) \in {now, next} /\ Max({now, next}) >= next
  BY <1>2, MaxOfTwo
<1>4. PICK later : later = NextStart(start)
  OBVIOUS
<1>5. later \in Nat /\ later >= 2 * (Floor(start) + 1)
  BY <1>2, <1>3, <1>4 DEF NextStart
<1>6. Floor(start) < later \div 2
  BY <1>1, <1>5
<1> QED
  BY <1>4, <1>5, <1>6 DEF Floor

ClockInv ==
  /\ now \in Nat /\ {intervalStart, windowStart} \subseteq Nat
  /\ {lastInterval, lastWindow} \subseteq Int
  /\ WindowsDistinct

\* Each start is after the last one said, however soon a flush follows another.
LEMMA ClockStep == ClockInv /\ FlushStep => ClockInv'
<1> SUFFICES ASSUME ClockInv, FlushStep PROVE ClockInv'
  OBVIOUS
<1>0. /\ now \in Nat /\ intervalStart \in Nat /\ windowStart \in Nat
      /\ lastInterval \in Int /\ lastWindow \in Int
      /\ lastInterval < Floor(intervalStart) /\ lastWindow < Floor(windowStart)
      /\ Floor(intervalStart) \in Nat /\ Floor(windowStart) \in Nat
  BY DEF ClockInv, WindowsDistinct, Floor
<1>1. ASSUME NEW eps, NEW ops, NEW leaving, NEW health, NEW flying,
             EnqueueHeld(eps, ops, leaving, health, flying), now' = now
      PROVE  ClockInv'
  <2>1. /\ intervalStart' = NextStart(intervalStart)
        /\ lastInterval' \in {lastInterval, Floor(intervalStart)}
    BY <1>1 DEF EnqueueHeld, RotateInterval
  <2>2. \/ /\ windowStart' = NextStart(windowStart)
           /\ lastWindow' \in {lastWindow, Floor(windowStart)}
        \/ windowStart' = windowStart /\ lastWindow' = lastWindow
    BY <1>1 DEF EnqueueHeld, CloseProfile
  <2>3. /\ intervalStart' \in Nat /\ Floor(intervalStart) < Floor(NextStart(intervalStart))
        /\ Floor(NextStart(intervalStart)) \in Nat
    BY <1>0, <2>1, StartsLater DEF Floor
  <2>4. /\ NextStart(windowStart) \in Nat /\ Floor(windowStart) < Floor(NextStart(windowStart))
        /\ Floor(NextStart(windowStart)) \in Nat
    BY <1>0, StartsLater DEF Floor
  <2>5. Floor(intervalStart') = Floor(NextStart(intervalStart))
    BY <2>1
  <2>6. lastInterval' \in Int /\ lastInterval' < Floor(intervalStart')
    BY <1>0, <2>1, <2>3, <2>5
  <2>7. windowStart' \in Nat /\ lastWindow' \in Int /\ lastWindow' < Floor(windowStart')
    BY <1>0, <2>2, <2>4
  <2> QED
    BY <1>0, <1>1, <2>3, <2>6, <2>7 DEF ClockInv, WindowsDistinct, Floor
<1>2. CASE /\ UNCHANGED <<intervalStart, lastInterval, windowStart, lastWindow, signalVars>>
           /\ now' \in {now, now + 1}
  BY <1>0, <1>2 DEF ClockInv, WindowsDistinct, Floor
<1> QED
  BY <1>1, <1>2 DEF FlushStep

\* So it is from the start on.
LEMMA ClockKept == Spec => []ClockInv
<1>1. Init => ClockInv
  BY DEF Init, AggregatesInit, ClockInv, WindowsDistinct, Floor
<1>2. ClockInv /\ [Next]_vars => ClockInv'
  BY StepOfAFlush, ClockStep
<1> QED
  BY <1>1, <1>2, PTL DEF Spec

\* Two intervals of one process, or two windows of its profile, never say the same start, even
\* if both are closed within one millisecond: the last said is before the one that is open
\* (aggregator.ts 278-283).
THEOREM NoTwoWindowsAlike == Spec => []WindowsDistinct
<1>1. ClockInv => WindowsDistinct
  BY DEF ClockInv
<1> QED
  BY <1>1, ClockKept, PTL

\* The run of an endpoint is the number of last intervals it queued in, and the last ask is
\* the latest.
SignalInv ==
  /\ now \in Nat /\ over \in Nat /\ askedAt \in Int
  /\ queueing \in [Label -> Nat] /\ verdicts \in Seq(SUBSET Label)
  /\ \A l \in Label :
       /\ queueing[l] <= Len(verdicts)
       /\ \A i \in Len(verdicts) - queueing[l] + 1 .. Len(verdicts) : l \in verdicts[i]
  /\ armed \subseteq Label /\ \A l \in armed : queueing[l] >= Sustained
  /\ \A a \in asks :
       /\ a.at \in Nat /\ a.run \in Nat /\ a.at <= askedAt /\ askedAt <= now
       /\ a.run >= Sustained
  /\ \A a, b \in asks : a # b => a.at - b.at >= Cooldown \/ b.at - a.at >= Cooldown

\* An interval of the event loop: who is asked has cooled down.
LEMMA AskStep ==
  ASSUME SignalInv, NEW health, Ask(health), now' = now
  PROVE  /\ over' \in Nat /\ askedAt' \in Int
         /\ \A a \in asks' :
              /\ a.at \in Nat /\ a.run \in Nat /\ a.at <= askedAt' /\ askedAt' <= now'
              /\ a.run >= Sustained
         /\ \A a, b \in asks' :
              a # b => a.at - b.at >= Cooldown \/ b.at - a.at >= Cooldown
<1> DEFINE run   == IF health = "late" THEN over + 1 ELSE 0
           asked == run >= Sustained /\ CooledDown
<1>0. /\ Sustained \in Nat \ {0} /\ Cooldown \in Nat \ {0} /\ now \in Nat /\ askedAt \in Int
      /\ run \in Nat
  BY SignalsAssumption DEF SignalInv
<1>1. over' = run
  BY DEF Ask
<1>2. CASE asked
  <2>1. askedAt' = now /\ asks' = asks \cup {[at |-> now, run |-> run]}
    BY <1>2 DEF Ask
  <2>2. \A a \in asks : a.at \in Nat /\ a.run \in Nat /\ a.run >= Sustained
                        /\ a.at <= now /\ now - a.at >= Cooldown
    BY <1>0, <1>2 DEF SignalInv, CooledDown, Never
  <2>3. PICK new : new = [at |-> now, run |-> run]
    OBVIOUS
  <2>4. new.at = now /\ new.run \in Nat /\ new.run >= Sustained
    BY <1>0, <1>2, <2>3
  <2>5. asks' = asks \cup {new}
    BY <2>1, <2>3
  <2>6. \A a, b \in asks : a # b => a.at - b.at >= Cooldown \/ b.at - a.at >= Cooldown
    BY DEF SignalInv
  <2> HIDE DEF run, asked
  <2>7. \A a \in asks' : /\ a.at \in Nat /\ a.run \in Nat /\ a.at <= now
                         /\ a.run >= Sustained
    BY <1>0, <2>2, <2>4, <2>5
  <2>8. \A a, b \in asks' : a # b => a.at - b.at >= Cooldown \/ b.at - a.at >= Cooldown
    BY <1>0, <2>2, <2>4, <2>5, <2>6
  <2> QED
    BY <1>0, <1>1, <2>1, <2>7, <2>8
<1>3. CASE ~asked
  BY <1>0, <1>1, <1>3 DEF Ask, SignalInv
<1> QED
  BY <1>2, <1>3

\* An interval with traffic: the run of what queued grows, and that of the rest ends.
LEMMA ArmStep ==
  ASSUME SignalInv, NEW queued \in SUBSET Label, NEW shown \in SUBSET Label,
         Arm(queued, shown)
  PROVE  /\ queueing' \in [Label -> Nat] /\ verdicts' \in Seq(SUBSET Label)
         /\ \A l \in Label :
              /\ queueing'[l] <= Len(verdicts')
              /\ \A i \in Len(verdicts') - queueing'[l] + 1 .. Len(verdicts') :
                   l \in verdicts'[i]
         /\ armed' \subseteq Label /\ \A l \in armed' : queueing'[l] >= Sustained
<1>0. queueing \in [Label -> Nat] /\ verdicts \in Seq(SUBSET Label) /\ Len(verdicts) \in Nat
  BY LenProperties DEF SignalInv
<1>1. \A l \in Label : queueing'[l] = IF l \in queued THEN queueing[l] + 1 ELSE 0
  BY DEF Arm, Runs
<1>2. queueing' \in [Label -> Nat]
  BY <1>0 DEF Arm, Runs
<1>3. /\ verdicts' \in Seq(SUBSET Label) /\ Len(verdicts') = Len(verdicts) + 1
      /\ \A i \in 1 .. Len(verdicts) : verdicts'[i] = verdicts[i]
      /\ verdicts'[Len(verdicts) + 1] = queued
  BY <1>0, AppendProperties DEF Arm
<1>4. ASSUME NEW l \in Label
      PROVE  /\ queueing'[l] <= Len(verdicts')
             /\ \A i \in Len(verdicts') - queueing'[l] + 1 .. Len(verdicts') :
                  l \in verdicts'[i]
  <2>1. /\ queueing[l] \in Nat /\ queueing[l] <= Len(verdicts)
        /\ \A i \in Len(verdicts) - queueing[l] + 1 .. Len(verdicts) : l \in verdicts[i]
    BY <1>0 DEF SignalInv
  <2>2. CASE l \in queued
    <3>1. queueing'[l] = queueing[l] + 1
      BY <1>1, <2>2
    <3>2. ASSUME NEW i \in Len(verdicts') - queueing'[l] + 1 .. Len(verdicts')
          PROVE  l \in verdicts'[i]
      <4>1. CASE i = Len(verdicts) + 1
        BY <1>3, <2>2, <4>1
      <4>2. CASE i # Len(verdicts) + 1
        <5>1. i \in Len(verdicts) - queueing[l] + 1 .. Len(verdicts) /\ i \in 1 .. Len(verdicts)
          BY <1>0, <1>3, <2>1, <3>1, <4>2
        <5> QED
          BY <1>3, <2>1, <5>1
      <4> QED
        BY <4>1, <4>2
    <3> QED
      BY <1>0, <1>3, <2>1, <3>1, <3>2
  <2>3. CASE l \notin queued
    BY <1>0, <1>1, <1>3, <2>3
  <2> QED
    BY <2>2, <2>3
<1>5. armed' \subseteq Label /\ \A l \in armed' : queueing'[l] >= Sustained
  BY DEF Arm
<1> QED
  BY <1>2, <1>3, <1>4, <1>5

\* An interval with traffic moves the runs on, and one without leaves them.
LEMMA SignalStep == SignalInv /\ FlushStep => SignalInv'
<1> SUFFICES ASSUME SignalInv, FlushStep PROVE SignalInv'
  OBVIOUS
<1>1. ASSUME NEW eps, NEW ops, NEW leaving, NEW health, NEW flying,
             EnqueueHeld(eps, ops, leaving, health, flying), now' = now
      PROVE  SignalInv'
  <2>1. CASE Routes(eps) = {}
    BY <1>1, <2>1 DEF EnqueueHeld, SignalInv
  <2>2. CASE Routes(eps) # {}
    <3>1. Routes(eps) \subseteq Label
      BY DEF Routes
    <3>2. PICK queued : /\ queued \subseteq Routes(eps)
                        /\ Ask(health) /\ Arm(queued, Routes(eps))
      BY <1>1, <2>2 DEF EnqueueHeld
    <3>3. queued \in SUBSET Label /\ Routes(eps) \in SUBSET Label
      BY <3>1, <3>2
    <3> QED
      BY <1>1, <3>2, <3>3, AskStep, ArmStep DEF SignalInv
  <2> QED
    BY <2>1, <2>2
<1>2. CASE /\ UNCHANGED <<intervalStart, lastInterval, windowStart, lastWindow, signalVars>>
           /\ now' \in {now, now + 1}
  <2>1. UNCHANGED signalVars
    BY <1>2
  <2>2. now \in Nat /\ now' \in Nat /\ now <= now' /\ askedAt \in Int
    BY <1>2 DEF SignalInv
  <2> QED
    BY <2>1, <2>2 DEF SignalInv
<1> QED
  BY <1>1, <1>2 DEF FlushStep

\* The runs are the last intervals an endpoint queued in.
LEMMA SignalsKept == Spec => []SignalInv
<1>1. Init => SignalInv
  <2> SUFFICES ASSUME Init PROVE SignalInv
    OBVIOUS
  <2>1. verdicts = <<>> /\ verdicts \in Seq(SUBSET Label) /\ Len(verdicts) = 0
    BY EmptySeq DEF Init, SignalsInit
  <2>2. \A l \in Label : queueing[l] = 0
    BY DEF Init, SignalsInit
  <2> QED
    BY <2>1, <2>2 DEF Init, SignalsInit, SignalInv, Never
<1>2. SignalInv /\ [Next]_vars => SignalInv'
  BY StepOfAFlush, SignalStep
<1> QED
  BY <1>1, <1>2, PTL DEF Spec

\* What is armed queued in each of the last intervals that had traffic, and not in some of
\* them; and the cloud is asked of an event loop that was late for as many intervals, and no
\* sooner than the cooldown says (trigger.ts 119-131, 147-155).
THEOREM SustainedBeforeArmed == Spec => []ArmedMeansSustained
<1>1. SignalInv => ArmedMeansSustained
  <2> SUFFICES ASSUME SignalInv PROVE ArmedMeansSustained
    OBVIOUS
  <2>1. ASSUME NEW l \in armed, NEW i \in Len(verdicts) - Sustained + 1 .. Len(verdicts)
        PROVE  i \in DOMAIN verdicts /\ l \in verdicts[i]
    <3>1. /\ queueing[l] \in Nat /\ queueing[l] >= Sustained /\ queueing[l] <= Len(verdicts)
          /\ \A j \in Len(verdicts) - queueing[l] + 1 .. Len(verdicts) : l \in verdicts[j]
      BY <2>1 DEF SignalInv
    <3>2. Sustained \in Nat /\ Len(verdicts) \in Nat /\ DOMAIN verdicts = 1 .. Len(verdicts)
      BY SignalsAssumption, LenProperties DEF SignalInv
    <3>3. i \in 1 .. Len(verdicts) /\ i \in Len(verdicts) - queueing[l] + 1 .. Len(verdicts)
      BY <2>1, <3>1, <3>2
    <3> QED
      BY <3>1, <3>2, <3>3
  <2> QED
    BY <2>1 DEF ArmedMeansSustained, SignalInv
<1> QED
  BY <1>1, SignalsKept, PTL


-----------------------------------------------------------------------------
(* The reference                                                           *)

\* What any step makes of the reservoir: a request that closes is offered, or it stands.
ReferenceStep ==
  \/ \E r \in Begun, label \in Label : Closes(r) /\ Consider(label, r)
  \/ /\ UNCHANGED <<seen, samples, summaries, considered, refused, everPaused>>
     /\ paused' \in {paused} \cup BOOLEAN

\* No step makes anything else of the reservoir.
LEMMA StepOfTheReference == [Next]_vars => ReferenceStep
<1> SUFFICES ASSUME [Next]_vars PROVE ReferenceStep
  OBVIOUS
<1>1. CASE RequestStarted
  BY <1>1 DEF RequestStarted, ReferenceStep
<1>2. ASSUME NEW r \in Begun, NEW label \in Endpoint, NEW body \in Bodies,
             ResponseEnding(r, label, body) \/ ResponseFinished(r, label, body)
      PROVE  ReferenceStep
  <2>1. Closes(r)
    BY <1>2 DEF ResponseEnding, ResponseFinished, Closes, Statuses
  <2>2. RecordFinished(r, label, body)
    BY <1>2 DEF ResponseEnding, ResponseFinished
  <2>3. Consider(label, r) \/ UNCHANGED referenceVars
    BY <2>2 DEF RecordFinished, Record
  <2>4. label \in Label
    BY DEF Label
  <2> QED
    BY <2>1, <2>3, <2>4 DEF ReferenceStep
<1>3. ASSUME NEW r \in Begun, ResponseFinishedLate(r) PROVE ReferenceStep
  BY <1>3 DEF ResponseFinishedLate, ReferenceStep
<1>4. ASSUME NEW r \in Begun, ClientGone(r) PROVE ReferenceStep
  BY <1>4 DEF ClientGone, ReferenceStep
<1>5. ASSUME NEW leaving \in BOOLEAN, NEW health \in Health, Rotate(leaving, health)
      PROVE  ReferenceStep
  BY <1>5 DEF Rotate, ReferenceStep
<1>6. ASSUME NEW delay \in 1 .. MaxDelay, SampleLoop(delay) PROVE ReferenceStep
  BY <1>6 DEF SampleLoop, ReferenceStep
<1>7. ASSUME NEW live \in BOOLEAN, Renew(live) PROVE ReferenceStep
  BY <1>7 DEF Renew, RenewReference, ReferenceStep
<1>8. CASE MeterMoves
  BY <1>8 DEF MeterMoves, ReferenceStep
<1>9. CASE Tick
  BY <1>9 DEF Tick, ReferenceStep
<1>10. CASE UNCHANGED vars
  BY <1>10 DEF vars, ReferenceStep
<1> QED
  BY <1>1, <1>2, <1>3, <1>4, <1>5, <1>6, <1>7, <1>8, <1>9, <1>10 DEF Next

\* A request that closed stays closed, and one that closes was not.
LEMMA ClosedStay ==
  ASSUME state \in Seq(Statuses), RequestStep
  PROVE  Begun \ Open \subseteq Begun' \ Open'
<1>1. CASE Opens
  BY <1>1, Added DEF Opens
<1>2. ASSUME NEW r \in Begun, NEW s \in Statuses \ {"open"},
             state' = [state EXCEPT ![r] = s]
      PROVE  Begun \ Open \subseteq Begun' \ Open'
  <2>1. Begun' = Begun /\ \A q \in Begun : state'[q] = IF q = r THEN s ELSE state[q]
    BY <1>2, Moved
  <2> QED
    BY <2>1 DEF Open
<1>3. CASE UNCHANGED <<state, inFlight, recorded>>
  BY <1>3 DEF Open, Begun
<1> QED
  BY <1>1, <1>2, <1>3 DEF RequestStep, Closes

\* A request that closes was open, and is not any more.
LEMMA ClosedNow ==
  ASSUME state \in Seq(Statuses), NEW r \in Begun, Closes(r)
  PROVE  r \notin Begun \ Open /\ r \in Begun' \ Open' /\ r \in Nat \ {0}
<1>1. PICK s \in Statuses \ {"open"} : state' = [state EXCEPT ![r] = s]
  BY DEF Closes
<1>2. Begun' = Begun /\ \A q \in Begun : state'[q] = IF q = r THEN s ELSE state[q]
  BY <1>1, Moved
<1>3. Begun = 1 .. Len(state) /\ Len(state) \in Nat
  BY FewRequests, LenProperties
<1> QED
  BY <1>2, <1>3 DEF Open, Closes

\* The slots fill in their order, each with a request of its own that was considered and is
\* over; and each summary is of an endpoint that was refused.
FilledFrom(had, n, slots) ==
  /\ IsFiniteSet(had) /\ n = Cardinality(had)
  /\ \A i \in 1 .. PerRoute : slots[i] # NoSample <=> i <= n
  /\ \A i \in 1 .. PerRoute : slots[i] # NoSample => slots[i] \in had
  /\ \A i, j \in 1 .. PerRoute : slots[i] # NoSample /\ slots[i] = slots[j] => i = j

Reservoir(l) ==
  /\ considered[l] \subseteq Begun \ Open
  /\ FilledFrom(considered[l], seen[l], samples[l])

Capped ==
  /\ IsFiniteSet(Sampled) /\ Cardinality(Sampled) <= ReferenceRoutes
  /\ IsFiniteSet(summaries) /\ Cardinality(summaries) <= MaxReferenceDropped
  /\ refused \subseteq Label /\ IsFiniteSet(refused)
  /\ summaries \subseteq {Digest[l] : l \in refused}

ReferenceInv ==
  /\ seen \in [Label -> Nat] /\ samples \in [Label -> [1 .. PerRoute -> Nat]]
  /\ DOMAIN considered = Label
  /\ {paused, everPaused} \subseteq BOOLEAN
  /\ \A l \in Label : Reservoir(l)
  /\ Capped

\* The reservoir of an endpoint that is offered one more.
LEMMA OneMore ==
  ASSUME NEW had, NEW n \in Nat, NEW old \in [1 .. PerRoute -> Nat], NEW r \in Nat \ {0},
         FilledFrom(had, n, old), r \notin had,
         NEW slot \in SlotsFor(n + 1),
         NEW new, new = [i \in 1 .. PerRoute |-> IF i = slot THEN r ELSE old[i]]
  PROVE  new \in [1 .. PerRoute -> Nat] /\ FilledFrom(had \cup {r}, n + 1, new)
<1> USE DEF FilledFrom
<1>0. PerRoute \in Nat \ {0}
  BY ReferenceAssumption
<1>1. IsFiniteSet(had \cup {r}) /\ n + 1 = Cardinality(had \cup {r})
  BY FS_AddElement
<1>2. slot \in 1 .. n + 1 /\ (n + 1 <= PerRoute => slot = n + 1)
  BY <1>0 DEF SlotsFor
<1>3. \A i \in 1 .. PerRoute : new[i] = IF i = slot THEN r ELSE old[i]
  OBVIOUS
<1>4. new \in [1 .. PerRoute -> Nat]
  OBVIOUS
<1>5. \A i \in 1 .. PerRoute : new[i] # NoSample <=> i <= n + 1
  BY <1>0, <1>2, <1>3 DEF NoSample
<1>6. \A i \in 1 .. PerRoute : new[i] # NoSample => new[i] \in had \cup {r}
  BY <1>3
<1>7. \A i, j \in 1 .. PerRoute : new[i] # NoSample /\ new[i] = new[j] => i = j
  <2> TAKE i, j \in 1 .. PerRoute
  <2> HAVE new[i] # NoSample /\ new[i] = new[j]
  <2>1. CASE i = slot
    BY <1>3, <2>1 DEF NoSample
  <2>2. CASE i # slot /\ j = slot
    BY <1>3, <2>2
  <2>3. CASE i # slot /\ j # slot
    BY <1>3, <2>3
  <2> QED
    BY <2>1, <2>2, <2>3
<1> QED
  BY <1>1, <1>4, <1>5, <1>6, <1>7

\* A reservoir holds the first, or a choice, of those that closed.
LEMMA ReservoirStep ==
  ASSUME state \in Seq(Statuses), ReferenceInv, RequestStep, ReferenceStep
  PROVE  /\ seen' \in [Label -> Nat] /\ samples' \in [Label -> [1 .. PerRoute -> Nat]]
         /\ DOMAIN considered' = Label
         /\ \A l \in Label : Reservoir(l)'
<1> DEFINE Typed == /\ seen' \in [Label -> Nat]
                    /\ samples' \in [Label -> [1 .. PerRoute -> Nat]]
                    /\ DOMAIN considered' = Label
<1>0. /\ seen \in [Label -> Nat] /\ samples \in [Label -> [1 .. PerRoute -> Nat]]
      /\ DOMAIN considered = Label /\ \A l \in Label : Reservoir(l)
      /\ Begun \ Open \subseteq Begun' \ Open'
  BY ClosedStay DEF ReferenceInv
\* An endpoint that is offered nothing.
<1>1. ASSUME NEW l \in Label, seen'[l] = seen[l], samples'[l] = samples[l],
             considered'[l] = considered[l]
      PROVE  Reservoir(l)'
  <2>1. Reservoir(l)
    BY <1>0
  <2> QED
    BY <1>0, <1>1, <2>1 DEF Reservoir
<1>2. CASE UNCHANGED <<seen, samples, considered>>
  BY <1>0, <1>1, <1>2
<1>3. ASSUME NEW r \in Begun, NEW label \in Label, Closes(r), Consider(label, r),
             ~UNCHANGED <<seen, samples, considered>>
      PROVE  Typed /\ \A l \in Label : Reservoir(l)'
  <2>1. /\ seen' = [seen EXCEPT ![label] = @ + 1]
        /\ considered' = [considered EXCEPT ![label] = @ \cup {r}]
        /\ \E slot \in SlotsFor(seen[label] + 1) :
             samples' = [samples EXCEPT ![label] =
                           [i \in 1 .. PerRoute |-> IF i = slot THEN r ELSE @[i]]]
    BY <1>3 DEF Consider
  <2>2. PICK slot \in SlotsFor(seen[label] + 1) :
          samples' = [samples EXCEPT ![label] =
                        [i \in 1 .. PerRoute |-> IF i = slot THEN r ELSE @[i]]]
    BY <2>1
  <2>3. PICK new : new = [i \in 1 .. PerRoute |-> IF i = slot THEN r ELSE samples[label][i]]
    OBVIOUS
  <2>4. samples' = [samples EXCEPT ![label] = new]
    BY <2>2, <2>3
  <2>5. r \notin Begun \ Open /\ r \in Begun' \ Open' /\ r \in Nat \ {0}
    BY <1>3, ClosedNow
  <2>6. PICK had : had = considered[label]
    OBVIOUS
  <2>7. PICK n : n = seen[label]
    OBVIOUS
  <2>8. PICK old : old = samples[label]
    OBVIOUS
  <2>9. /\ n \in Nat /\ old \in [1 .. PerRoute -> Nat]
        /\ FilledFrom(had, n, old) /\ had \subseteq Begun \ Open /\ r \notin had
    <3>1. Reservoir(label)
      BY <1>0
    <3> QED
      BY <1>0, <2>5, <2>6, <2>7, <2>8, <3>1 DEF Reservoir
  <2>10. slot \in SlotsFor(n + 1)
         /\ new = [i \in 1 .. PerRoute |-> IF i = slot THEN r ELSE old[i]]
    BY <2>2, <2>3, <2>7, <2>8
  <2>11. new \in [1 .. PerRoute -> Nat] /\ FilledFrom(had \cup {r}, n + 1, new)
    BY <2>5, <2>9, <2>10, OneMore
  <2>12. Typed
    BY <1>0, <2>1, <2>4, <2>11
  <2>13. /\ seen'[label] = n + 1 /\ considered'[label] = had \cup {r}
         /\ samples'[label] = new
    BY <1>0, <2>1, <2>4, <2>6, <2>7
  <2>14. Reservoir(label)'
    <3>1. had \cup {r} \subseteq Begun' \ Open'
      BY <1>0, <2>5, <2>9
    <3> QED
      BY <2>11, <2>13, <3>1 DEF Reservoir
  <2>15. ASSUME NEW l \in Label, l # label PROVE Reservoir(l)'
    <3>1. seen'[l] = seen[l] /\ samples'[l] = samples[l] /\ considered'[l] = considered[l]
      BY <1>0, <2>1, <2>4, <2>15
    <3> QED
      BY <1>1, <3>1
  <2> QED
    BY <2>12, <2>14, <2>15
<1> QED
  BY <1>2, <1>3 DEF ReferenceStep

\* The reference never keeps summaries of more routes than it has room for.
LEMMA CappedStep ==
  ASSUME ReferenceInv, ReferenceStep
  PROVE  Capped'
<1>0. /\ Capped /\ seen \in [Label -> Nat] /\ Digest \in [Label -> Nat]
      /\ ReferenceRoutes \in Nat /\ MaxReferenceDropped \in Nat
  BY ReferenceAssumption DEF ReferenceInv
<1>1. CASE UNCHANGED <<seen, summaries, refused>>
  <2>1. Sampled' = Sampled
    BY <1>1 DEF Sampled
  <2> QED
    BY <1>0, <1>1, <2>1 DEF Capped
<1>2. ASSUME NEW r \in Begun, NEW label \in Label, Consider(label, r)
      PROVE  Capped'
  <2>1. CASE paused
    BY <1>1, <1>2, <2>1 DEF Consider
  <2>2. CASE ~paused /\ label \notin Sampled /\ Cardinality(Sampled) >= ReferenceRoutes
    <3>1. summaries' = Note(label) /\ refused' = refused \cup {label} /\ seen' = seen
      BY <1>2, <2>2 DEF Consider
    <3>2. Sampled' = Sampled
      BY <3>1 DEF Sampled
    <3>3. IsFiniteSet(refused \cup {label})
      BY <1>0, FS_AddElement DEF Capped
    <3>4. CASE Digest[label] = 0 \/ Cardinality(summaries) >= MaxReferenceDropped
      <4>1. summaries' = summaries
        BY <3>1, <3>4 DEF Note
      <4> QED
        BY <1>0, <3>1, <3>2, <3>3, <4>1 DEF Capped
    <3>5. CASE ~(Digest[label] = 0 \/ Cardinality(summaries) >= MaxReferenceDropped)
      <4>1. summaries' = summaries \cup {Digest[label]}
        BY <3>1, <3>5 DEF Note
      <4>2. IsFiniteSet(summaries) /\ Cardinality(summaries) \in Nat
        BY <1>0, FS_CardinalityType DEF Capped
      <4>3. /\ IsFiniteSet(summaries \cup {Digest[label]})
            /\ Cardinality(summaries \cup {Digest[label]}) <= Cardinality(summaries) + 1
        BY <4>2, FS_AddElement
      <4>4. Cardinality(summaries \cup {Digest[label]}) <= MaxReferenceDropped
        <5>1. PICK more : more = Cardinality(summaries \cup {Digest[label]})
          OBVIOUS
        <5>2. more \in Nat /\ more <= Cardinality(summaries) + 1
          BY <4>3, <5>1, FS_CardinalityType
        <5> QED
          BY <1>0, <3>5, <4>2, <5>1, <5>2
      <4>5. summaries \cup {Digest[label]} \subseteq {Digest[l] : l \in refused \cup {label}}
        BY <1>0 DEF Capped
      <4> QED
        BY <1>0, <3>1, <3>2, <3>3, <4>1, <4>3, <4>4, <4>5 DEF Capped
    <3> QED
      BY <3>4, <3>5
  <2>3. CASE ~paused /\ ~(label \notin Sampled /\ Cardinality(Sampled) >= ReferenceRoutes)
    <3>1. seen' = [seen EXCEPT ![label] = @ + 1] /\ summaries' = summaries
          /\ refused' = refused
      BY <1>2, <2>3 DEF Consider
    <3>2. Sampled' = Sampled \cup {label}
      BY <1>0, <3>1 DEF Sampled
    <3>3. IsFiniteSet(Sampled) /\ Cardinality(Sampled) \in Nat
          /\ Cardinality(Sampled) <= ReferenceRoutes
      BY <1>0, FS_CardinalityType DEF Capped
    <3>4. /\ IsFiniteSet(Sampled \cup {label})
          /\ Cardinality(Sampled \cup {label})
               = IF label \in Sampled THEN Cardinality(Sampled) ELSE Cardinality(Sampled) + 1
      BY <3>3, FS_AddElement
    <3>5. Cardinality(Sampled \cup {label}) <= ReferenceRoutes
      BY <1>0, <2>3, <3>3, <3>4
    <3>6. IsFiniteSet(Sampled') /\ Cardinality(Sampled') <= ReferenceRoutes
      BY <3>2, <3>4, <3>5
    <3> QED
      BY <1>0, <3>1, <3>6 DEF Capped
  <2> QED
    BY <2>1, <2>2, <2>3
<1> QED
  BY <1>1, <1>2 DEF ReferenceStep

\* Both together.
LEMMA ReferenceSteps ==
  ASSUME state \in Seq(Statuses), ReferenceInv, RequestStep, ReferenceStep
  PROVE  ReferenceInv'
<1>1. {paused', everPaused'} \subseteq BOOLEAN
  BY DEF ReferenceInv, ReferenceStep, Consider
<1> QED
  BY <1>1, ReservoirStep, CappedStep DEF ReferenceInv

\* The reservoir of a route holds requests of its own that are closed, and no more than it may,
\* while the requests are counted (reference.ts).
THEOREM ReferenceKept == Spec => [](IdleInv /\ ReferenceInv)
<1>1. Init => ReferenceInv
  <2> SUFFICES ASSUME Init PROVE ReferenceInv
    OBVIOUS
  <2>1. /\ seen = [l \in Label |-> 0] /\ summaries = {} /\ refused = {}
        /\ samples = [l \in Label |-> [i \in 1 .. PerRoute |-> NoSample]]
        /\ considered = [l \in Label |-> {}] /\ paused = FALSE /\ everPaused = FALSE
    BY DEF Init, ReferenceInit
  <2>2. IsFiniteSet({}) /\ Cardinality({}) = 0
    BY FS_EmptySet
  <2>3. Sampled = {}
    BY <2>1 DEF Sampled
  <2>4. Capped
    BY <2>1, <2>2, <2>3, ReferenceAssumption DEF Capped
  <2>5. ASSUME NEW l \in Label PROVE Reservoir(l)
    BY <2>1, <2>2 DEF Reservoir, FilledFrom, NoSample
  <2> QED
    BY <2>1, <2>4, <2>5 DEF ReferenceInv, NoSample
<1>2. IdleInv /\ ReferenceInv /\ [Next]_vars => ReferenceInv'
  BY StepOfARequest, StepOfTheReference, ReferenceSteps DEF IdleInv
<1> QED
  BY <1>1, <1>2, RequestsCounted, PTL DEF Spec

\* The reference keeps no more endpoints, samples and summaries than it has room for
\* (reference.ts 84-123, 236-242).
THEOREM ReferenceWithinItsCaps == Spec => []ReferenceTypeOK
<1>1. ReferenceInv => ReferenceTypeOK
  BY DEF ReferenceInv, ReferenceTypeOK, Capped
<1> QED
  BY <1>1, ReferenceKept, PTL

\* The smaller of two.
LEMMA MinOfTwo ==
  ASSUME NEW m \in Int, NEW n \in Int
  PROVE  Min({m, n}) = IF m <= n THEN m ELSE n
<1>1. \E x \in {m, n} : \A y \in {m, n} : x <= y
  <2>1. CASE m <= n
    BY <2>1
  <2>2. CASE n <= m
    BY <2>2
  <2> QED
    BY <2>1, <2>2
<1>2. Min({m, n}) \in {m, n} /\ Min({m, n}) <= m /\ Min({m, n}) <= n
  BY <1>1 DEF Min
<1> QED
  BY <1>2

\* The reservoir of an endpoint is as full as the endpoint was busy, with distinct requests of
\* its own that were served while it was renewed; and the endpoints it says it had no room for
\* are no more than there were (reference.ts 104-123, 236-242).
THEOREM SamplesAreTheirOwn == Spec => []SamplesTell
<1>1. IdleInv /\ ReferenceInv => SamplesTell
  <2> SUFFICES ASSUME IdleInv, ReferenceInv PROVE SamplesTell
    OBVIOUS
  <2>0. PerRoute \in Nat \ {0} /\ seen \in [Label -> Nat]
    BY ReferenceAssumption DEF ReferenceInv
  <2>1. ASSUME NEW l \in Label
        PROVE  /\ Cardinality(Filled(l)) = Min({seen[l], PerRoute})
               /\ seen[l] = Cardinality(considered[l])
               /\ \A i \in Filled(l) : samples[l][i] \in considered[l]
               /\ \A i, j \in Filled(l) : samples[l][i] = samples[l][j] => i = j
    <3>1. Reservoir(l)
      BY DEF ReferenceInv
    <3>2. PICK least : least = IF seen[l] <= PerRoute THEN seen[l] ELSE PerRoute
      OBVIOUS
    <3>3. least \in Nat /\ least <= PerRoute /\ least <= seen[l]
          /\ (least = seen[l] \/ least = PerRoute) /\ seen[l] \in Nat
      BY <2>0, <3>2
    <3>4. Filled(l) = 1 .. least
      BY <2>0, <3>1, <3>3 DEF Reservoir, FilledFrom, Filled
    <3>5. Cardinality(1 .. least) = least
      BY <3>3, FS_Interval
    <3>6. Min({seen[l], PerRoute}) = least
      BY <2>0, <3>2, <3>3, MinOfTwo
    <3> QED
      BY <3>1, <3>4, <3>5, <3>6 DEF Reservoir, FilledFrom, Filled
  <2>2. Cardinality(summaries) <= Cardinality(refused)
    <3> DEFINE noted == {Digest[l] : l \in refused}
               note  == [l \in refused |-> Digest[l]]
    <3>1. note \in Surjection(refused, noted)
      BY DEF Surjection
    <3>2. IsFiniteSet(refused) /\ summaries \subseteq noted
      BY DEF ReferenceInv, Capped
    <3>3. IsFiniteSet(noted) /\ Cardinality(noted) <= Cardinality(refused)
      BY <3>1, <3>2, FS_Surjection
    <3>4. IsFiniteSet(summaries) /\ Cardinality(summaries) <= Cardinality(noted)
      BY <3>2, <3>3, FS_Subset
    <3>5. /\ Cardinality(summaries) \in Nat /\ Cardinality(noted) \in Nat
          /\ Cardinality(refused) \in Nat
      BY <3>2, <3>3, <3>4, FS_CardinalityType
    <3> QED
      BY <3>3, <3>4, <3>5
  <2> QED
    BY <2>1, <2>2 DEF SamplesTell
<1> QED
  BY <1>1, ReferenceKept, PTL


-----------------------------------------------------------------------------
(* Rows                                                                    *)

Rest(label) == [label EXCEPT !.route = OtherRoute]

RoutesOf(present) == {l \in present : l.route # OtherRoute}

\* An endpoint that was told of and has no row of its own is in its method's rest, and there
\* is no room for another.
Folded(present, room, told) ==
  \A l \in told \ present : Rest(l) \in present /\ Cardinality(RoutesOf(present)) >= room

\* Endpoints are labels, and so is the rest of each method, of which there is one.
LEMMA Labels ==
  /\ Endpoint \subseteq Label
  /\ \A e \in Endpoint : Rest(e) \in Label /\ Rest(e).route = OtherRoute
                         /\ Rest(e).method = e.method
  /\ \A r \in Label \ Endpoint : r.route = OtherRoute
  /\ \A r, q \in Label : r.route = OtherRoute /\ q.route = OtherRoute
                         /\ r.method = q.method => r = q
<1>1. \A e \in Endpoint : Rest(e) = [method |-> e.method, route |-> OtherRoute]
  BY ObservedAssumption DEF Rest
<1>2. Label = Endpoint \cup {Rest(e) : e \in Endpoint}
  BY DEF Label, Rest
<1>3. \A e \in Endpoint : e.route # OtherRoute
  BY ObservedAssumption
<1>4. \A r \in Label : r.route = OtherRoute => r = [method |-> r.method, route |-> OtherRoute]
  BY <1>1, <1>2, <1>3
<1> QED
  BY <1>1, <1>2, <1>4

\* Labels are finitely many.
LEMMA FewLabels == IsFiniteSet(Label)
<1> DEFINE rests == {Rest(e) : e \in Endpoint}
           rest  == [e \in Endpoint |-> Rest(e)]
<1>1. IsFiniteSet(Endpoint)
  BY ObservedAssumption
<1>2. rest \in Surjection(Endpoint, rests)
  BY DEF Surjection
<1>3. IsFiniteSet(rests)
  BY <1>1, <1>2, FS_Surjection
<1>4. Label = Endpoint \cup rests
  BY DEF Label, Rest
<1> QED
  BY <1>1, <1>3, <1>4, FS_Union

\* The row of an endpoint is its own, or the rest of its method if no row is left for routes.
LEMMA RowIs ==
  ASSUME NEW present \in SUBSET Label, NEW room \in Nat, NEW label \in Endpoint,
         NEW row, row = RowOf(present, room, label)
  PROVE  /\ row \in Label
         /\ \/ row = label /\ label \in present
            \/ row = label /\ label \notin present /\ Cardinality(RoutesOf(present)) < room
            \/ row = Rest(label) /\ label \notin present
               /\ ~(Cardinality(RoutesOf(present)) < room)
BY Labels, ObservedAssumption DEF RowOf, RoutesOf, Rest

\* What the rows P stand for, among the endpoints told of, once one more is: what they stood
\* for, and its row for it too.
OneRowMore(present, P, room, told, label, row) ==
  /\ row \in Label
  /\ Folded(P, room, told \cup {label})
  /\ label \in StandsFor(P, row)
  /\ \A r \in P \ {row} : label \notin StandsFor(P, r)
  /\ \A r \in present : StandsFor(P, r) \cap told = StandsFor(present, r) \cap told
  /\ row \notin present => StandsFor(P, row) \cap told = {}
  /\ row # label => label \notin P

\* One more endpoint told, by the row a register gives it: nobody else's row changes hands.
LEMMA RowStands ==
  ASSUME NEW present \in SUBSET Label, NEW room \in Nat, NEW label \in Endpoint,
         NEW told \in SUBSET Endpoint, Folded(present, room, told),
         NEW row, row = RowOf(present, room, label),
         NEW P, P = present \cup {row}
  PROVE  OneRowMore(present, P, room, told, label, row)
<1>0. /\ row \in Label
      /\ \/ row = label /\ label \in present
         \/ row = label /\ label \notin present /\ Cardinality(RoutesOf(present)) < room
         \/ row = Rest(label) /\ label \notin present
            /\ ~(Cardinality(RoutesOf(present)) < room)
  BY RowIs
<1>1. /\ \A e \in Endpoint : e \in Label /\ e.route # OtherRoute
      /\ Rest(label) \in Label /\ Rest(label).route = OtherRoute
      /\ Rest(label).method = label.method
  BY Labels, ObservedAssumption
<1>2. /\ IsFiniteSet(RoutesOf(present)) /\ IsFiniteSet(RoutesOf(P))
      /\ RoutesOf(present) \subseteq RoutesOf(P)
  BY <1>0, FewLabels, FS_Subset DEF RoutesOf
<1>3. /\ Cardinality(RoutesOf(present)) <= Cardinality(RoutesOf(P))
      /\ Cardinality(RoutesOf(present)) \in Nat /\ Cardinality(RoutesOf(P)) \in Nat
  BY <1>2, FS_Subset, FS_CardinalityType
<1>4. row # label => label \notin P
  BY <1>0, <1>1
<1>5. Folded(P, room, told \cup {label})
  <2> SUFFICES ASSUME NEW l \in (told \cup {label}) \ P
               PROVE  Rest(l) \in P /\ Cardinality(RoutesOf(P)) >= room
    BY DEF Folded
  <2>1. CASE l = label
    BY <1>0, <1>3, <2>1
  <2>2. CASE l # label
    <3>1. l \in told \ present
      BY <2>2
    <3>2. Rest(l) \in present /\ Cardinality(RoutesOf(present)) >= room
      BY <3>1 DEF Folded
    <3> QED
      BY <1>3, <3>2
  <2> QED
    BY <2>1, <2>2
<1>6. label \in StandsFor(P, row)
  BY <1>0, <1>1, <1>4 DEF StandsFor
<1>7. ASSUME NEW r \in P \ {row} PROVE label \notin StandsFor(P, r)
  <2>1. r \in Label
    BY <1>0
  <2>2. CASE r.route # OtherRoute
    BY <1>0, <1>7, <2>2 DEF StandsFor
  <2>3. CASE r.route = OtherRoute
    <3> SUFFICES ASSUME label \in StandsFor(P, r) PROVE FALSE
      OBVIOUS
    <3>1. r.method = label.method /\ label \notin P
      BY <1>1, <2>3 DEF StandsFor
    <3>2. row = Rest(label)
      BY <1>0, <3>1
    <3>3. r = Rest(label)
      BY <1>1, <2>1, <2>3, <3>1, Labels
    <3> QED
      BY <3>2, <3>3
  <2> QED
    BY <2>2, <2>3
<1>8. row \notin present => row \notin told
  <2> SUFFICES ASSUME row \notin present, row \in told PROVE FALSE
    OBVIOUS
  <2>0. row \notin present
    OBVIOUS
  <2>1. Cardinality(RoutesOf(present)) >= room
    BY DEF Folded
  <2>2. row = label => Cardinality(RoutesOf(present)) < room
    BY <1>0, <1>1, <2>0
  <2> QED
    BY <1>0, <1>1, <1>3, <2>1, <2>2
<1>9. ASSUME NEW r \in present
      PROVE  StandsFor(P, r) \cap told = StandsFor(present, r) \cap told
  BY <1>8 DEF StandsFor
<1>10. ASSUME row \notin present PROVE StandsFor(P, row) \cap told = {}
  <2> SUFFICES ASSUME NEW l \in told, l \in StandsFor(P, row) PROVE FALSE
    OBVIOUS
  <2>1. CASE row.route # OtherRoute
    BY <1>8, <1>10, <2>1 DEF StandsFor
  <2>2. CASE row.route = OtherRoute
    <3>1. l.method = row.method /\ l \notin P
      BY <1>8, <1>10, <2>2 DEF StandsFor
    <3>2. Rest(l) \in present
      BY <3>1 DEF Folded
    <3>3. Rest(l) = row
      BY <1>0, <2>2, <3>1, Labels
    <3> QED
      BY <1>10, <3>2, <3>3
  <2> QED
    BY <2>1, <2>2
<1> QED
  BY <1>0, <1>4, <1>5, <1>6, <1>7, <1>9, <1>10 DEF OneRowMore

-----------------------------------------------------------------------------
(* The coarse summary                                                      *)

\* What any step makes of it: a request is recorded, the event loop is read, or it stands
\* still, while the clock may go on.
CoarseStep ==
  \/ /\ \E label \in Endpoint, body \in Bodies : RecordCoarse(label, body)
     /\ now' = now
  \/ /\ \E delay \in 1 .. MaxDelay : LoopTick(delay)
     /\ now' = now
  \/ UNCHANGED coarseVars /\ now' \in {now, now + 1}

\* No step makes anything else of the coarse summary.
LEMMA StepOfTheCoarse == [Next]_vars => CoarseStep
<1> SUFFICES ASSUME [Next]_vars PROVE CoarseStep
  OBVIOUS
<1>1. CASE RequestStarted
  BY <1>1 DEF RequestStarted, CoarseStep
<1>2. ASSUME NEW r \in Begun, NEW label \in Endpoint, NEW body \in Bodies,
             ResponseEnding(r, label, body) \/ ResponseFinished(r, label, body)
      PROVE  CoarseStep
  <2>1. RecordFinished(r, label, body)
    BY <1>2 DEF ResponseEnding, ResponseFinished
  <2>2. now' = now
    BY <2>1 DEF RecordFinished
  <2>3. RecordCoarse(label, body) \/ UNCHANGED coarseVars
    BY <2>1 DEF RecordFinished, Record
  <2> QED
    BY <2>2, <2>3 DEF CoarseStep
<1>3. ASSUME NEW r \in Begun, ResponseFinishedLate(r) PROVE CoarseStep
  BY <1>3 DEF ResponseFinishedLate, CoarseStep
<1>4. ASSUME NEW r \in Begun, ClientGone(r) PROVE CoarseStep
  BY <1>4 DEF ClientGone, CoarseStep
<1>5. ASSUME NEW leaving \in BOOLEAN, NEW health \in Health, Rotate(leaving, health)
      PROVE  CoarseStep
  BY <1>5 DEF Rotate, CoarseStep
<1>6. ASSUME NEW delay \in 1 .. MaxDelay, SampleLoop(delay) PROVE CoarseStep
  BY <1>6 DEF SampleLoop, CoarseStep
<1>7. ASSUME NEW live \in BOOLEAN, Renew(live) PROVE CoarseStep
  BY <1>7 DEF Renew, CoarseStep
<1>8. CASE MeterMoves
  BY <1>8 DEF MeterMoves, CoarseStep
<1>9. CASE Tick
  BY <1>9 DEF Tick, CoarseStep
<1>10. CASE UNCHANGED vars
  BY <1>10 DEF vars, CoarseStep
<1> QED
  BY <1>1, <1>2, <1>3, <1>4, <1>5, <1>6, <1>7, <1>8, <1>9, <1>10 DEF Next

SlotType == [second : Int, requests : Nat, errors : Nat]
RowType  == [since : Int, ring : [Slot -> SlotType]]
HitType  == [label : Endpoint, second : Nat, requests : Nat, errors : Nat]

Requests(H) == SumOver(H, LAMBDA h : h.requests)
Errors(H)   == SumOver(H, LAMBDA h : h.errors)

Told == {h.label : h \in hits}

\* What was served of the endpoints of a row in a second.
Of(H, present, row, second) ==
  {h \in H : h.label \in StandsFor(present, row) /\ h.second = second}

\* A slot holds a second that fell in it; while it holds one, that is all that was served in
\* it; and while it holds an earlier one, nothing was.
RowTells(it, H, present, row, upTo) ==
  /\ \A s \in Slot :
       \/ it.ring[s] = NoSlot
       \/ it.ring[s].second \in 0 .. upTo /\ SlotOf(it.ring[s].second) = s
  /\ it.since = NoSecond => \A s \in Slot : it.ring[s] = NoSlot
  /\ it.since # NoSecond =>
       /\ it.since \in 0 .. upTo
       /\ \A second \in 0 .. upTo :
            LET slot == it.ring[SlotOf(second)]
                of   == Of(H, present, row, second)
            IN /\ slot.second = second =>
                    slot.requests = Requests(of) /\ slot.errors = Errors(of)
               /\ slot.second < second => of = {}
               /\ of # {} => second >= it.since

RowSays(row) == RowTells(rows[row], hits, Seen, row, ThisSecond)

HitsOK ==
  /\ IsFiniteSet(hits) /\ hits \subseteq HitType
  /\ \A h \in hits : h.second <= ThisSecond
  /\ \A h, k \in hits : h.label = k.label /\ h.second = k.second => h = k

DroppedOK ==
  /\ IsFiniteSet(dropped) /\ Cardinality(dropped) <= MaxDropped
  /\ dropped \subseteq Told \ Seen

RowsInv ==
  /\ rows \in [Label -> RowType]
  /\ HitsOK /\ DroppedOK
  /\ Folded(Seen, MaxRows, Told)
  /\ \A row \in Label : RowSays(row)

\* A second is a number with a slot, and no instant falls in an earlier one.
LEMMA SecondOf ==
  ASSUME now \in Nat, NEW later \in {now, now + 1}
  PROVE  /\ ThisSecond \in Nat /\ SlotOf(ThisSecond) \in Slot
         /\ later \in Nat /\ ThisSecond <= later \div SecondTicks
<1>1. SecondTicks \in Nat \ {0} /\ Seconds \in Nat \ {0}
  BY CoarseAssumption
<1>2. /\ now = SecondTicks * (now \div SecondTicks) + (now % SecondTicks)
      /\ now \div SecondTicks \in Int /\ now % SecondTicks \in 0 .. SecondTicks - 1
  BY <1>1, ModDef, ModRange
<1>3. now \div SecondTicks \in Nat
  BY <1>1
<1>4. (now \div SecondTicks) % Seconds \in 0 .. Seconds - 1
  BY <1>1, <1>3
<1>5. now \div SecondTicks <= (now + 1) \div SecondTicks
  BY <1>1
<1> QED
  BY <1>3, <1>4, <1>5 DEF ThisSecond, SlotOf, Slot

\* How many were served, and how many failed, are numbers.
LEMMA HitsType ==
  ASSUME NEW H, IsFiniteSet(H), H \subseteq HitType
  PROVE  Requests(H) \in Nat /\ Errors(H) \in Nat
<1>1. PICK f : f = [h \in H |-> h.requests]
  OBVIOUS
<1>2. PICK g : g = [h \in H |-> h.errors]
  OBVIOUS
<1>3. \A h \in H : f[h] \in Nat /\ g[h] \in Nat
  BY <1>1, <1>2 DEF HitType
<1>4. SumFunctionOnSet(f, H) \in Nat /\ SumFunctionOnSet(g, H) \in Nat
  BY <1>3, SumType
<1> QED
  BY <1>1, <1>2, <1>4 DEF Requests, Errors, SumOver

\* Nothing served is zero.
LEMMA NoHits == Requests({}) = 0 /\ Errors({}) = 0
BY SumEmpty DEF Requests, Errors, SumOver

Grows(H, K, requests, errors) ==
  Requests(K) = Requests(H) + requests /\ Errors(K) = Errors(H) + errors

\* One more hit adds what it says.
LEMMA HitsAdd ==
  ASSUME NEW H, IsFiniteSet(H), H \subseteq HitType, NEW h \in HitType, h \notin H,
         NEW K, K = H \cup {h}
  PROVE  Grows(H, K, h.requests, h.errors)
<1>0. IsFiniteSet(K) /\ K \subseteq HitType
  BY FS_AddElement
<1>1. PICK f : f = [k \in K |-> k.requests]
  OBVIOUS
<1>2. PICK g : g = [k \in K |-> k.errors]
  OBVIOUS
<1>3. PICK f0 : f0 = [k \in H |-> k.requests]
  OBVIOUS
<1>4. PICK g0 : g0 = [k \in H |-> k.errors]
  OBVIOUS
<1>5. \A k \in H \cup {h} : f[k] \in Nat /\ g[k] \in Nat
  BY <1>0, <1>1, <1>2 DEF HitType
<1>6. /\ SumFunctionOnSet(f, H \cup {h}) = SumFunctionOnSet(f, H) + f[h]
      /\ SumFunctionOnSet(g, H \cup {h}) = SumFunctionOnSet(g, H) + g[h]
  BY <1>5, SumAdd
<1>7. /\ SumFunctionOnSet(f, H) = SumFunctionOnSet(f0, H)
      /\ SumFunctionOnSet(g, H) = SumFunctionOnSet(g0, H)
  <2>1. \A k \in H : f[k] = f0[k] /\ g[k] = g0[k]
    BY <1>1, <1>2, <1>3, <1>4
  <2> QED
    BY <2>1, SumSame
<1>8. f[h] = h.requests /\ g[h] = h.errors
  BY <1>1, <1>2
<1>9. /\ Requests(K) = SumFunctionOnSet(f, K) /\ Errors(K) = SumFunctionOnSet(g, K)
      /\ Requests(H) = SumFunctionOnSet(f0, H) /\ Errors(H) = SumFunctionOnSet(g0, H)
  BY <1>1, <1>2, <1>3, <1>4 DEF Requests, Errors, SumOver
<1> QED
  BY <1>6, <1>7, <1>8, <1>9 DEF Grows

\* One more request in the second of an endpoint: what there was of it is replaced.
LEMMA HitsSwap ==
  ASSUME NEW H, IsFiniteSet(H), H \subseteq HitType, NEW had \in H, NEW new \in HitType,
         new \notin H \ {had}, NEW K, K = (H \ {had}) \cup {new}, NEW fail \in Nat,
         new.requests = 1 + had.requests, new.errors = fail + had.errors
  PROVE  Grows(H, K, 1, fail)
<1>1. PICK rest : rest = H \ {had}
  OBVIOUS
<1>2. IsFiniteSet(rest) /\ rest \subseteq HitType /\ had \notin rest /\ new \notin rest
      /\ H = rest \cup {had} /\ K = rest \cup {new} /\ had \in HitType
  BY <1>1, FS_Subset
<1>3. Requests(H) = Requests(rest) + had.requests /\ Errors(H) = Errors(rest) + had.errors
  <2>1. Grows(rest, H, had.requests, had.errors)
    BY <1>2, HitsAdd
  <2> QED
    BY <2>1 DEF Grows
<1>4. Requests(K) = Requests(rest) + new.requests /\ Errors(K) = Errors(rest) + new.errors
  <2>1. Grows(rest, K, new.requests, new.errors)
    BY <1>2, HitsAdd
  <2> QED
    BY <2>1 DEF Grows
<1>5. Requests(rest) \in Nat /\ Errors(rest) \in Nat
  BY <1>2, HitsType
<1>6. had.requests \in Nat /\ had.errors \in Nat
  BY <1>2 DEF HitType
<1> QED
  BY <1>3, <1>4, <1>5, <1>6 DEF Grows

FailOf(body) == IF body.failed THEN 1 ELSE 0

\* The history of a request recorded.
LEMMA HitRecorded ==
  ASSUME HitsOK, now \in Nat, now' = now, NEW label \in Endpoint, NEW body \in Bodies,
         RecordCoarse(label, body)
  PROVE  \E new \in HitType :
           /\ new.label = label /\ new.second = ThisSecond
           /\ \/ /\ \A h \in hits : ~(h.label = label /\ h.second = ThisSecond)
                 /\ hits' = hits \cup {new}
                 /\ new.requests = 1 /\ new.errors = FailOf(body)
              \/ \E had \in hits :
                   /\ had.label = label /\ had.second = ThisSecond
                   /\ hits' = (hits \ {had}) \cup {new}
                   /\ new.requests = 1 + had.requests
                   /\ new.errors = FailOf(body) + had.errors
<1> DEFINE at  == {h \in hits : h.label = label /\ h.second = ThisSecond}
           one == CHOOSE h \in at : TRUE
<1>0. FailOf(body) \in Nat /\ ThisSecond \in Nat
  BY SecondOf DEF FailOf
<1>1. hits' = (hits \ at) \cup
              {[label |-> label, second |-> ThisSecond,
                requests |-> 1 + IF at = {} THEN 0 ELSE one.requests,
                errors |-> FailOf(body) + IF at = {} THEN 0 ELSE one.errors]}
  BY DEF RecordCoarse, FailOf
<1>2. CASE at = {}
  <2>1. PICK new : new = [label |-> label, second |-> ThisSecond,
                          requests |-> 1, errors |-> FailOf(body)]
    OBVIOUS
  <2>2. hits' = hits \cup {new}
    BY <1>0, <1>1, <1>2, <2>1
  <2>3. /\ new \in HitType /\ new.label = label /\ new.second = ThisSecond
        /\ new.requests = 1 /\ new.errors = FailOf(body)
    BY <1>0, <2>1 DEF HitType
  <2> QED
    BY <1>2, <2>2, <2>3
<1>3. CASE at # {}
  <2>1. PICK had : had = one
    OBVIOUS
  <2>2. had \in at
    BY <1>3, <2>1
  <2>3. at = {had}
    BY <2>2 DEF HitsOK
  <2>4. had.requests \in Nat /\ had.errors \in Nat
    BY <2>2 DEF HitsOK, HitType
  <2>5. PICK new : new = [label |-> label, second |-> ThisSecond,
                          requests |-> 1 + had.requests,
                          errors |-> FailOf(body) + had.errors]
    OBVIOUS
  <2>6. /\ new \in HitType /\ new.label = label /\ new.second = ThisSecond
        /\ new.requests = 1 + had.requests /\ new.errors = FailOf(body) + had.errors
    BY <1>0, <2>4, <2>5 DEF HitType
  <2> HIDE DEF one
  <2>7. hits' = (hits \ at) \cup {new}
    BY <1>1, <1>3, <2>1, <2>5
  <2>8. hits' = (hits \ {had}) \cup {new}
    BY <2>3, <2>7
  <2> QED
    BY <2>2, <2>6, <2>8
<1> QED
  BY <1>2, <1>3

\* A request recorded is a hit of its second, one for each endpoint.
LEMMA HitsKept ==
  ASSUME HitsOK, now \in Nat, now' = now, NEW label \in Endpoint, NEW body \in Bodies,
         RecordCoarse(label, body)
  PROVE  HitsOK' /\ Told' = Told \cup {label}
<1>1. PICK new \in HitType :
           /\ new.label = label /\ new.second = ThisSecond
           /\ \/ /\ \A h \in hits : ~(h.label = label /\ h.second = ThisSecond)
                 /\ hits' = hits \cup {new}
              \/ \E had \in hits :
                   /\ had.label = label /\ had.second = ThisSecond
                   /\ hits' = (hits \ {had}) \cup {new}
  BY HitRecorded, Zenon
<1>2. ThisSecond' = ThisSecond /\ ThisSecond \in Nat
  BY SecondOf DEF ThisSecond
<1>3. /\ IsFiniteSet(hits) /\ hits \subseteq HitType /\ \A h \in hits : h.second <= ThisSecond
      /\ \A h, k \in hits : h.label = k.label /\ h.second = k.second => h = k
  BY DEF HitsOK
<1>4. CASE /\ \A h \in hits : ~(h.label = label /\ h.second = ThisSecond)
           /\ hits' = hits \cup {new}
  <2>1. IsFiniteSet(hits \cup {new})
    BY <1>3, FS_AddElement
  <2>2. HitsOK'
    BY <1>1, <1>2, <1>3, <1>4, <2>1 DEF HitsOK
  <2>3. Told' = Told \cup {label}
    BY <1>1, <1>4 DEF Told
  <2> QED
    BY <2>2, <2>3
<1>5. ASSUME NEW had \in hits, had.label = label, had.second = ThisSecond,
             hits' = (hits \ {had}) \cup {new}
      PROVE  HitsOK' /\ Told' = Told \cup {label}
  <2>1. IsFiniteSet(hits \ {had})
    BY <1>3, FS_RemoveElement
  <2>2. IsFiniteSet((hits \ {had}) \cup {new})
    BY <2>1, FS_AddElement
  <2>3. \A h \in hits \ {had} : ~(h.label = new.label /\ h.second = new.second)
    BY <1>1, <1>3, <1>5
  <2>4. \A h, k \in hits' : h.label = k.label /\ h.second = k.second => h = k
    BY <1>3, <1>5, <2>3
  <2>5. hits' \subseteq HitType /\ \A h \in hits' : h.second <= ThisSecond
    BY <1>1, <1>2, <1>3, <1>5 DEF HitType
  <2>6. HitsOK'
    BY <1>2, <1>5, <2>2, <2>4, <2>5 DEF HitsOK
  <2>7. Told' = Told \cup {label}
    BY <1>1, <1>5 DEF Told
  <2> QED
    BY <2>6, <2>7
<1> QED
  BY <1>1, <1>4, <1>5

\* What a request adds to the rows' shares, as it makes a row or finds one.
SharesMoved(H, K, present, P, row, second, before, after, toldLater, fail) ==
  /\ Folded(P, MaxRows, toldLater)
  /\ \A r \in present, s \in Nat :
       r # row \/ s # second => Of(K, P, r, s) = Of(H, present, r, s)
  /\ row \notin present => \A s \in Nat : s # second => Of(K, P, row, s) = {}
  /\ after # {}
  /\ Requests(after) = Requests(before) + 1
  /\ Errors(after) = Errors(before) + fail

\* What the rows stand for moves with it: the second of one row takes the request, the others
\* stay.
LEMMA SharesMove ==
  ASSUME HitsOK, now \in Nat, now' = now, NEW label \in Endpoint, NEW body \in Bodies,
         RecordCoarse(label, body),
         NEW seenBefore \in SUBSET Label, Folded(seenBefore, MaxRows, Told),
         NEW row, row = RowOf(seenBefore, MaxRows, label),
         NEW P, P = seenBefore \cup {row}, NEW second, second = ThisSecond,
         NEW before,
         before = IF row \in seenBefore THEN Of(hits, seenBefore, row, second) ELSE {},
         NEW after, after = Of(hits', P, row, second)
  PROVE  SharesMoved(hits, hits', seenBefore, P, row, second, before, after, Told',
                     FailOf(body))
<1>2. PICK told : told = Told
  OBVIOUS
<1>3. told \in SUBSET Endpoint /\ MaxRows \in Nat
  BY <1>2, CoarseAssumption DEF HitsOK, HitType, Told
<1>4. /\ row \in Label
      /\ Folded(P, MaxRows, told \cup {label})
      /\ label \in StandsFor(P, row)
      /\ \A r \in P \ {row} : label \notin StandsFor(P, r)
      /\ \A r \in seenBefore : StandsFor(P, r) \cap told = StandsFor(seenBefore, r) \cap told
      /\ row \notin seenBefore => StandsFor(P, row) \cap told = {}
  <2>1. Folded(seenBefore, MaxRows, told)
    BY <1>2
  <2>2. OneRowMore(seenBefore, P, MaxRows, told, label, row)
    BY <1>3, <2>1, RowStands
  <2> QED
    BY <2>2 DEF OneRowMore
<1>5. Told' = told \cup {label}
  BY <1>2, HitsKept
<1>6. Folded(P, MaxRows, Told')
  BY <1>4, <1>5
<1>8. PICK new \in HitType :
           /\ new.label = label /\ new.second = second
           /\ \/ /\ \A h \in hits : ~(h.label = label /\ h.second = second)
                 /\ hits' = hits \cup {new}
                 /\ new.requests = 1 /\ new.errors = FailOf(body)
              \/ \E had \in hits :
                   /\ had.label = label /\ had.second = second
                   /\ hits' = (hits \ {had}) \cup {new}
                   /\ new.requests = 1 + had.requests
                   /\ new.errors = FailOf(body) + had.errors
  BY HitRecorded, ZenonT(40)
<1>9. \A h \in hits : h.label \in told
  BY <1>2 DEF Told
<1>10. \A h : ~(h.label = label /\ h.second = second) => (h \in hits' <=> h \in hits)
  BY <1>8
\* What the history says of another row or another second is what it said.
<1>11. ASSUME NEW r, NEW s, label \notin StandsFor(P, r) \/ s # second
       PROVE  Of(hits', P, r, s) = Of(hits, P, r, s)
  BY <1>10, <1>11 DEF Of
<1>12. ASSUME NEW r \in seenBefore, NEW s
       PROVE  Of(hits, P, r, s) = Of(hits, seenBefore, r, s)
  BY <1>4, <1>9 DEF Of
<1>13. ASSUME NEW r \in seenBefore, NEW s, r # row \/ s # second
       PROVE  Of(hits', P, r, s) = Of(hits, seenBefore, r, s)
  <2>1. label \notin StandsFor(P, r) \/ s # second
    BY <1>4, <1>13
  <2> QED
    BY <1>11, <1>12, <2>1
<1>14. ASSUME row \notin seenBefore, NEW s
       PROVE  Of(hits, P, row, s) = {}
  BY <1>4, <1>9, <1>14 DEF Of
<1>15. ASSUME row \notin seenBefore, NEW s, s # second PROVE Of(hits', P, row, s) = {}
  BY <1>11, <1>14, <1>15
<1>17. before = Of(hits, P, row, second)
  BY <1>12, <1>14
<1>20. IsFiniteSet(before) /\ before \subseteq HitType
  <2>1. before \subseteq hits
    BY <1>17 DEF Of
  <2> QED
    BY <2>1, FS_Subset DEF HitsOK
<1>21. /\ after # {} /\ Requests(after) = Requests(before) + 1
       /\ Errors(after) = Errors(before) + FailOf(body)
  <2>1. CASE /\ \A h \in hits : ~(h.label = label /\ h.second = second)
             /\ hits' = hits \cup {new}
             /\ new.requests = 1 /\ new.errors = FailOf(body)
    <3>1. after = before \cup {new} /\ new \notin before
      BY <1>4, <1>8, <1>17, <2>1 DEF Of
    <3>2. Grows(before, after, new.requests, new.errors)
      BY <1>20, <3>1, HitsAdd
    <3> QED
      BY <2>1, <3>1, <3>2 DEF Grows
  <2>2. ASSUME NEW had \in hits, had.label = label, had.second = second,
               hits' = (hits \ {had}) \cup {new},
               new.requests = 1 + had.requests, new.errors = FailOf(body) + had.errors
        PROVE  /\ after # {} /\ Requests(after) = Requests(before) + 1
               /\ Errors(after) = Errors(before) + FailOf(body)
    <3>1. had \in before
      BY <1>4, <1>17, <2>2 DEF Of
    <3>2. after = (before \ {had}) \cup {new}
      BY <1>4, <1>8, <1>17, <2>2 DEF Of
    <3>3. new \notin before \ {had}
      <4>1. \A h \in before : h \in hits /\ h.second = second
        BY <1>17 DEF Of
      <4>2. \A h \in hits : h.label = new.label /\ h.second = new.second => h = had
        BY <1>8, <2>2 DEF HitsOK
      <4> QED
        BY <4>1, <4>2
    <3>4. FailOf(body) \in Nat
      BY DEF FailOf
    <3>5. Grows(before, after, 1, FailOf(body))
      BY <1>20, <2>2, <3>1, <3>2, <3>3, <3>4, HitsSwap
    <3> QED
      BY <3>2, <3>5 DEF Grows
  <2> QED
    BY <1>8, <2>1, <2>2
<1> QED
  BY <1>6, <1>13, <1>15, <1>21 DEF SharesMoved

\* The ring of a row that one more request is written to.
LEMMA RingWritten ==
  ASSUME rows \in [Label -> RowType], now \in Nat,
         NEW label \in Endpoint, NEW body \in Bodies, RecordCoarse(label, body),
         NEW row \in Label, row = RowOf(Seen, MaxRows, label)
  PROVE  \E it \in RowType :
           /\ rows' = [rows EXCEPT ![row] = it]
           /\ it.since = IF rows[row].since = NoSecond THEN ThisSecond ELSE rows[row].since
           /\ \A s \in Slot : s # SlotOf(ThisSecond) => it.ring[s] = rows[row].ring[s]
           /\ LET old == rows[row].ring[SlotOf(ThisSecond)]
                  slot == it.ring[SlotOf(ThisSecond)]
              IN /\ slot.second = ThisSecond
                 /\ slot.requests = 1 + IF old.second = ThisSecond THEN old.requests ELSE 0
                 /\ slot.errors = FailOf(body)
                                    + IF old.second = ThisSecond THEN old.errors ELSE 0
<1>1. PICK second : second = ThisSecond
  OBVIOUS
<1>2. PICK k : k = SlotOf(second)
  OBVIOUS
<1>3. second \in Nat /\ k \in Slot /\ FailOf(body) \in Nat
  BY <1>1, <1>2, SecondOf DEF FailOf
<1>4. PICK was : was = rows[row]
  OBVIOUS
<1>5. was.since \in Int /\ was.ring \in [Slot -> SlotType] /\ was.ring[k] \in SlotType
  BY <1>3, <1>4 DEF RowType
<1>6. PICK old : old = was.ring[k]
  OBVIOUS
<1>7. PICK kept : kept = KeepSecond(old, second)
  OBVIOUS
<1>8. /\ kept \in SlotType /\ kept.second = second
      /\ kept.requests = IF old.second = second THEN old.requests ELSE 0
      /\ kept.errors = IF old.second = second THEN old.errors ELSE 0
  BY <1>3, <1>5, <1>6, <1>7 DEF KeepSecond, NoSlot, SlotType
<1>9. PICK slot : slot = [kept EXCEPT !.requests = @ + 1, !.errors = @ + FailOf(body)]
  OBVIOUS
<1>10. /\ slot \in SlotType /\ slot.second = second
       /\ slot.requests = 1 + kept.requests /\ slot.errors = FailOf(body) + kept.errors
  <2>1. PICK r : r = kept.requests
    OBVIOUS
  <2>2. PICK e : e = kept.errors
    OBVIOUS
  <2>3. PICK f : f = FailOf(body)
    OBVIOUS
  <2>4. r \in Nat /\ e \in Nat /\ f \in Nat
    BY <1>3, <1>8, <2>1, <2>2, <2>3 DEF SlotType
  <2>5. kept = [second |-> second, requests |-> r, errors |-> e]
    BY <1>8, <2>1, <2>2 DEF SlotType
  <2>6. slot = [second |-> second, requests |-> r + 1, errors |-> e + f]
    BY <1>9, <2>3, <2>5
  <2> QED
    BY <1>3, <2>1, <2>2, <2>3, <2>4, <2>6 DEF SlotType
<1>11. PICK ring : ring = [was.ring EXCEPT ![k] = slot]
  OBVIOUS
<1>12. /\ ring \in [Slot -> SlotType] /\ ring[k] = slot
       /\ \A s \in Slot : s # k => ring[s] = was.ring[s]
  BY <1>3, <1>5, <1>10, <1>11
<1>13. PICK it : it = [since |-> IF was.since = NoSecond THEN second ELSE was.since,
                       ring |-> ring]
  OBVIOUS
<1>14. /\ it \in RowType /\ it.ring = ring
       /\ it.since = IF was.since = NoSecond THEN second ELSE was.since
  BY <1>3, <1>5, <1>12, <1>13 DEF RowType
<1>15. rows' = [rows EXCEPT ![row] = it]
  <2>1. rows' = [rows EXCEPT ![row] =
           [since |-> IF @.since = NoSecond THEN ThisSecond ELSE @.since,
            ring  |-> [@.ring EXCEPT ![SlotOf(ThisSecond)] =
                         [kept EXCEPT !.requests = @ + 1, !.errors = @ + FailOf(body)]]]]
    BY <1>1, <1>2, <1>4, <1>6, <1>7 DEF RecordCoarse, FailOf
  <2>2. [rows EXCEPT ![row] =
           [since |-> IF @.since = NoSecond THEN ThisSecond ELSE @.since,
            ring  |-> [@.ring EXCEPT ![SlotOf(ThisSecond)] =
                         [kept EXCEPT !.requests = @ + 1, !.errors = @ + FailOf(body)]]]]
          = [rows EXCEPT ![row] = it]
    BY <1>1, <1>2, <1>4, <1>9, <1>11, <1>13
  <2> QED
    BY <2>1, <2>2
<1>16. SlotOf(ThisSecond) = k /\ ThisSecond = second /\ rows[row] = was /\ was.ring[k] = old
  BY <1>1, <1>2, <1>4, <1>6
<1>17. /\ it.since = IF rows[row].since = NoSecond THEN ThisSecond ELSE rows[row].since
       /\ \A s \in Slot : s # SlotOf(ThisSecond) => it.ring[s] = rows[row].ring[s]
       /\ it.ring[k] = slot
  BY <1>12, <1>14, <1>16
<1>18. /\ slot.second = ThisSecond
       /\ slot.requests = 1 + IF old.second = ThisSecond THEN old.requests ELSE 0
       /\ slot.errors = FailOf(body) + IF old.second = ThisSecond THEN old.errors ELSE 0
  BY <1>8, <1>10, <1>16
<1> QED
  BY <1>14, <1>15, <1>16, <1>17, <1>18

\* The rows' shares as the seconds pass: nothing was served in a second to come.
LEMMA TellsLater ==
  ASSUME NEW it \in RowType, NEW H, NEW present, NEW row, NEW upTo \in Nat, NEW later \in Nat,
         upTo <= later, \A h \in H : h.second <= upTo, \A h \in H : h.second \in Nat,
         RowTells(it, H, present, row, upTo)
  PROVE  RowTells(it, H, present, row, later)
<1>0. \A second \in 0 .. later : SlotOf(second) \in Slot
  BY CoarseAssumption DEF SlotOf, Slot
<1>1. \A s \in Slot : it.ring[s] \in SlotType
  BY DEF RowType
<1>2. \A s \in Slot : \/ it.ring[s] = NoSlot
                      \/ it.ring[s].second \in 0 .. later /\ SlotOf(it.ring[s].second) = s
  BY DEF RowTells
<1>3. it.since = NoSecond => \A s \in Slot : it.ring[s] = NoSlot
  BY DEF RowTells
<1>4. ASSUME it.since # NoSecond, NEW second \in 0 .. later
      PROVE  LET slot == it.ring[SlotOf(second)]
                 of   == Of(H, present, row, second)
             IN /\ slot.second = second =>
                     slot.requests = Requests(of) /\ slot.errors = Errors(of)
                /\ slot.second < second => of = {}
                /\ of # {} => second >= it.since
  <2>1. CASE second \in 0 .. upTo
    BY <1>4, <2>1 DEF RowTells
  <2>2. CASE second > upTo
    <3>1. Of(H, present, row, second) = {}
      BY <2>2 DEF Of
    <3>2. it.ring[SlotOf(second)].second # second
      <4>1. SlotOf(second) \in Slot
        BY <1>0
      <4>2. \/ it.ring[SlotOf(second)] = NoSlot
            \/ it.ring[SlotOf(second)].second \in 0 .. upTo
        BY <4>1 DEF RowTells
      <4> QED
        BY <2>2, <4>2 DEF NoSlot, NoSecond
    <3> QED
      BY <3>1, <3>2
  <2> QED
    BY <2>1, <2>2
<1>5. it.since # NoSecond => it.since \in 0 .. later
  BY DEF RowTells
<1> QED
  BY <1>2, <1>3, <1>4, <1>5 DEF RowTells

\* A row whose share has not changed.
LEMMA TellsSame ==
  ASSUME NEW it, NEW H, NEW K, NEW present, NEW P, NEW row, NEW upTo \in Nat,
         RowTells(it, H, present, row, upTo),
         it.since # NoSecond =>
           \A s \in Nat : Of(K, P, row, s) = Of(H, present, row, s)
  PROVE  RowTells(it, K, P, row, upTo)
<1>1. \A second \in 0 .. upTo : second \in Nat
  OBVIOUS
<1> QED
  BY <1>1 DEF RowTells

\* What was written of the row that is written to, from what it was to what it is.
Had(was, H, present, row, second) ==
  IF was.since # NoSecond THEN Of(H, present, row, second) ELSE {}

Written(was, it, H, K, present, P, row, second, fail) ==
  /\ was \in RowType /\ it \in RowType /\ RowTells(was, H, present, row, second)
  /\ Grows(Had(was, H, present, row, second), Of(K, P, row, second), 1, fail)
  /\ was.since # NoSecond =>
       \A s \in Nat : s # second => Of(K, P, row, s) = Of(H, present, row, s)
  /\ was.since = NoSecond => \A s \in Nat : s # second => Of(K, P, row, s) = {}
  /\ it.since = IF was.since = NoSecond THEN second ELSE was.since
  /\ \A s \in Slot : s # SlotOf(second) => it.ring[s] = was.ring[s]
  /\ it.ring[SlotOf(second)].second = second
  /\ it.ring[SlotOf(second)].requests =
       1 + IF was.ring[SlotOf(second)].second = second
           THEN was.ring[SlotOf(second)].requests ELSE 0
  /\ it.ring[SlotOf(second)].errors =
       fail + IF was.ring[SlotOf(second)].second = second
              THEN was.ring[SlotOf(second)].errors ELSE 0

\* A row written to still says what it was told.
LEMMA TellsMore ==
  ASSUME NEW was, NEW it, NEW H, NEW K, NEW present, NEW P, NEW row,
         NEW now2 \in Nat, NEW fail \in Nat,
         Requests(Had(was, H, present, row, now2)) \in Nat,
         Errors(Had(was, H, present, row, now2)) \in Nat,
         Written(was, it, H, K, present, P, row, now2, fail)
  PROVE  RowTells(it, K, P, row, now2)
<1> DEFINE before == Had(was, H, present, row, now2)
<1>a. /\ was \in RowType /\ it \in RowType /\ RowTells(was, H, present, row, now2)
      /\ Grows(before, Of(K, P, row, now2), 1, fail)
      /\ was.since # NoSecond =>
           \A s \in Nat : s # now2 => Of(K, P, row, s) = Of(H, present, row, s)
      /\ was.since = NoSecond => \A s \in Nat : s # now2 => Of(K, P, row, s) = {}
      /\ it.since = IF was.since = NoSecond THEN now2 ELSE was.since
      /\ \A s \in Slot : s # SlotOf(now2) => it.ring[s] = was.ring[s]
      /\ it.ring[SlotOf(now2)].second = now2
      /\ it.ring[SlotOf(now2)].requests =
           1 + IF was.ring[SlotOf(now2)].second = now2
               THEN was.ring[SlotOf(now2)].requests ELSE 0
      /\ it.ring[SlotOf(now2)].errors =
           fail + IF was.ring[SlotOf(now2)].second = now2
                  THEN was.ring[SlotOf(now2)].errors ELSE 0
  BY DEF Written
<1>b. /\ before = IF was.since # NoSecond THEN Of(H, present, row, now2) ELSE {}
      /\ Requests(before) \in Nat /\ Errors(before) \in Nat
  BY DEF Had
<1> HIDE DEF before
<1>0. \A second \in 0 .. now2 : SlotOf(second) \in Slot /\ second \in Nat
  BY CoarseAssumption DEF SlotOf, Slot
<1>1. SlotOf(now2) \in Slot
  BY <1>a, <1>b, <1>0
<1>2. \A s \in Slot : \/ it.ring[s] = NoSlot
                      \/ it.ring[s].second \in 0 .. now2 /\ SlotOf(it.ring[s].second) = s
  BY <1>a, <1>b, <1>1 DEF RowTells
<1>3. it.since \in 0 .. now2 /\ it.since # NoSecond
  BY <1>a, <1>b DEF RowTells, NoSecond
\* The slot of this second.
<1>4. LET slot == it.ring[SlotOf(now2)]
          of   == Of(K, P, row, now2)
      IN slot.requests = Requests(of) /\ slot.errors = Errors(of)
  <2>1. /\ Requests(Of(K, P, row, now2)) = Requests(before) + 1
        /\ Errors(Of(K, P, row, now2)) = Errors(before) + fail
    BY <1>a, <1>b DEF Grows
  <2>2. PICK old : old = was.ring[SlotOf(now2)]
    OBVIOUS
  <2>3. old \in SlotType /\ (old = NoSlot \/ old.second \in 0 .. now2)
    BY <1>a, <1>b, <1>1, <2>2 DEF RowType, RowTells
  <2>4. CASE old.second = now2
    <3>1. was.since # NoSecond
      BY <1>a, <1>b, <1>1, <2>2, <2>4 DEF RowTells, NoSlot, NoSecond
    <3>2. old.requests = Requests(before) /\ old.errors = Errors(before)
      BY <1>a, <1>b, <1>0, <2>2, <2>4, <3>1 DEF RowTells
    <3> QED
      BY <1>a, <1>b, <2>1, <2>2, <2>4, <3>2
  <2>5. CASE old.second # now2
    <3>1. old.second < now2
      BY <1>a, <1>b, <2>3, <2>5 DEF NoSlot, NoSecond
    <3>2. before = {}
      BY <1>a, <1>b, <1>0, <2>2, <3>1 DEF RowTells
    <3>3. Requests(before) = 0 /\ Errors(before) = 0
      BY <1>a, <1>b, <3>2, NoHits
    <3>4. it.ring[SlotOf(now2)].requests = 1 /\ it.ring[SlotOf(now2)].errors = fail
      BY <1>a, <1>b, <2>2, <2>5
    <3> QED
      BY <1>a, <1>b, <2>1, <3>3, <3>4
  <2> QED
    BY <1>a, <1>b, <2>4, <2>5
<1>5. ASSUME NEW second \in 0 .. now2, second # now2
      PROVE  LET slot == it.ring[SlotOf(second)]
                 of   == Of(K, P, row, second)
             IN /\ slot.second = second =>
                     slot.requests = Requests(of) /\ slot.errors = Errors(of)
                /\ slot.second < second => of = {}
                /\ of # {} => second >= it.since
  <2>1. PICK slot : slot = it.ring[SlotOf(second)]
    OBVIOUS
  <2>2. PICK old : old = was.ring[SlotOf(second)]
    OBVIOUS
  <2>3. PICK of : of = Of(K, P, row, second)
    OBVIOUS
  <2>4. (slot = old /\ SlotOf(second) # SlotOf(now2)) \/ slot.second = now2
    BY <1>a, <1>b, <1>0, <2>1, <2>2
  <2>5. SlotOf(second) \in Slot /\ second \in Nat /\ second < now2
    BY <1>a, <1>b, <1>0, <1>5
  <2>6. CASE was.since = NoSecond
    <3>1. of = {}
      BY <1>a, <1>b, <2>3, <2>5, <2>6
    <3>2. old = NoSlot
      BY <1>a, <1>b, <2>2, <2>5, <2>6 DEF RowTells
    <3>3. slot.second # second
      BY <1>a, <1>b, <2>4, <2>5, <3>2 DEF NoSlot, NoSecond
    <3> QED
      BY <1>a, <1>b, <2>1, <2>3, <3>1, <3>3
  <2>7. CASE was.since # NoSecond
    <3>1. of = Of(H, present, row, second) /\ it.since = was.since
      BY <1>a, <1>b, <2>3, <2>5, <2>7
    <3>2. /\ old.second = second => old.requests = Requests(of) /\ old.errors = Errors(of)
          /\ old.second < second => of = {}
          /\ of # {} => second >= was.since
      BY <1>a, <1>b, <2>2, <2>7, <3>1 DEF RowTells
    <3>3. slot.second = second \/ slot.second < second => slot = old
      BY <1>a, <1>b, <2>4, <2>5
    <3> QED
      BY <1>a, <1>b, <2>1, <2>3, <3>1, <3>2, <3>3
  <2> QED
    BY <1>a, <1>b, <2>6, <2>7
<1>6. ASSUME NEW second \in 0 .. now2
      PROVE  LET slot == it.ring[SlotOf(second)]
                 of   == Of(K, P, row, second)
             IN /\ slot.second = second =>
                     slot.requests = Requests(of) /\ slot.errors = Errors(of)
                /\ slot.second < second => of = {}
                /\ of # {} => second >= it.since
  <2>1. CASE second = now2
    BY <1>a, <1>b, <1>3, <1>4, <2>1
  <2>2. CASE second # now2
    BY <1>a, <1>b, <1>5, <2>2
  <2> QED
    BY <1>a, <1>b, <2>1, <2>2
<1> QED
  BY <1>a, <1>b, <1>2, <1>3, <1>6 DEF RowTells

\* What is dropped are labels without a row, and no more than are counted.
LEMMA DroppedKept ==
  ASSUME RowsInv, now \in Nat, now' = now, NEW label \in Endpoint, NEW body \in Bodies,
         RecordCoarse(label, body),
         NEW row, row = RowOf(Seen, MaxRows, label), Seen' = Seen \cup {row}
  PROVE  DroppedOK'
<1>1. /\ IsFiniteSet(dropped) /\ Cardinality(dropped) <= MaxDropped
      /\ dropped \subseteq Told \ Seen
  BY DEF RowsInv, DroppedOK
<1>2. dropped' = IF row # label /\ Cardinality(dropped) < MaxDropped
                 THEN dropped \cup {label} ELSE dropped
  BY DEF RecordCoarse
<1>3. Told' = Told \cup {label}
  BY HitsKept DEF RowsInv
<1>4. Told \subseteq Endpoint
  BY DEF RowsInv, HitsOK, HitType, Told
<1>5. Seen \in SUBSET Label /\ MaxRows \in Nat /\ MaxDropped \in Nat
  BY CoarseAssumption DEF Seen
<1>6. OneRowMore(Seen, Seen \cup {row}, MaxRows, Told, label, row)
  <2>1. PICK present : present = Seen
    OBVIOUS
  <2>2. PICK told : told = Told
    OBVIOUS
  <2>3. Folded(present, MaxRows, told)
    BY <2>1, <2>2 DEF RowsInv
  <2>4. OneRowMore(present, present \cup {row}, MaxRows, told, label, row)
    BY <1>4, <1>5, <2>1, <2>2, <2>3, RowStands
  <2> QED
    BY <2>1, <2>2, <2>4
<1>7. row \notin dropped
  <2> SUFFICES ASSUME row \in dropped PROVE FALSE
    OBVIOUS
  <2>1. row \in Told /\ row \notin Seen
    BY <1>1
  <2>2. row.route # OtherRoute
    BY <1>4, <2>1, Labels, ObservedAssumption
  <2>3. row \in StandsFor(Seen \cup {row}, row)
    BY <2>2 DEF StandsFor
  <2> QED
    BY <1>6, <2>1, <2>3 DEF OneRowMore
<1>8. row # label => label \notin Seen'
  BY <1>6 DEF OneRowMore
<1>9. dropped' \subseteq Told' \ Seen'
  BY <1>1, <1>2, <1>3, <1>7, <1>8
<1>10. IsFiniteSet(dropped') /\ Cardinality(dropped') <= MaxDropped
  <2>1. CASE dropped' = dropped
    BY <1>1, <2>1
  <2>2. CASE dropped' = dropped \cup {label} /\ Cardinality(dropped) < MaxDropped
    <3>1. /\ IsFiniteSet(dropped')
          /\ Cardinality(dropped') = Cardinality(dropped)
             \/ Cardinality(dropped') = Cardinality(dropped) + 1
      BY <1>1, <2>2, FS_AddElement
    <3>2. Cardinality(dropped) \in Nat
      BY <1>1, FS_CardinalityType
    <3> QED
      BY <1>5, <2>2, <3>1, <3>2
  <2> QED
    BY <1>2, <2>1, <2>2
<1> QED
  BY <1>9, <1>10 DEF DroppedOK

\* A request recorded keeps the rows.
LEMMA RowsRecorded ==
  ASSUME RowsInv, now \in Nat, now' = now, NEW label \in Endpoint, NEW body \in Bodies,
         RecordCoarse(label, body)
  PROVE  RowsInv'
<1>1. PICK row : row = RowOf(Seen, MaxRows, label)
  OBVIOUS
<1>2. Seen \in SUBSET Label /\ MaxRows \in Nat /\ rows \in [Label -> RowType] /\ HitsOK
  BY CoarseAssumption DEF Seen, RowsInv
<1>3. row \in Label
  <2>1. PICK present : present = Seen
    OBVIOUS
  <2> QED
    BY <1>1, <1>2, <2>1, RowIs
<1>4. ThisSecond' = ThisSecond /\ ThisSecond \in Nat /\ SlotOf(ThisSecond) \in Slot
  BY SecondOf DEF ThisSecond
<1>5. PICK it \in RowType :
           /\ rows' = [rows EXCEPT ![row] = it]
           /\ it.since = IF rows[row].since = NoSecond THEN ThisSecond ELSE rows[row].since
           /\ \A s \in Slot : s # SlotOf(ThisSecond) => it.ring[s] = rows[row].ring[s]
           /\ LET old == rows[row].ring[SlotOf(ThisSecond)]
                  slot == it.ring[SlotOf(ThisSecond)]
              IN /\ slot.second = ThisSecond
                 /\ slot.requests = 1 + IF old.second = ThisSecond THEN old.requests ELSE 0
                 /\ slot.errors = FailOf(body)
                                    + IF old.second = ThisSecond THEN old.errors ELSE 0
  BY <1>1, <1>2, <1>3, RingWritten
<1>6. /\ rows' \in [Label -> RowType] /\ rows'[row] = it
      /\ \A l \in Label : l # row => rows'[l] = rows[l]
  BY <1>2, <1>3, <1>5
<1>7. it.since # NoSecond
  BY <1>4, <1>5 DEF NoSecond
<1>8. Seen' = Seen \cup {row}
  <2>1. Seen' = {l \in Label : rows'[l].since # NoSecond}
    BY DEF Seen
  <2> QED
    BY <1>3, <1>6, <1>7, <2>1 DEF Seen
<1>9. PICK present : present = Seen
  OBVIOUS
<1>10. PICK P : P = present \cup {row}
  OBVIOUS
<1>11. PICK second : second = ThisSecond
  OBVIOUS
<1>12. PICK before :
         before = IF row \in present THEN Of(hits, present, row, second) ELSE {}
  OBVIOUS
<1>13. PICK after : after = Of(hits', P, row, second)
  OBVIOUS
<1>14. /\ Folded(P, MaxRows, Told')
       /\ \A r \in present, s \in Nat :
            r # row \/ s # second => Of(hits', P, r, s) = Of(hits, present, r, s)
       /\ row \notin present => \A s \in Nat : s # second => Of(hits', P, row, s) = {}
       /\ after # {}
       /\ Requests(after) = Requests(before) + 1
       /\ Errors(after) = Errors(before) + FailOf(body)
  <2>1. Folded(present, MaxRows, Told)
    BY <1>9 DEF RowsInv
  <2>2. present \in SUBSET Label /\ row = RowOf(present, MaxRows, label)
    BY <1>1, <1>2, <1>9
  <2>3. SharesMoved(hits, hits', present, P, row, second, before, after, Told', FailOf(body))
    BY <1>2, <1>10, <1>11, <1>12, <1>13, <2>1, <2>2, SharesMove
  <2> QED
    BY <2>3 DEF SharesMoved
<1>15. HitsOK'
  BY <1>2, HitsKept
<1>16. DroppedOK'
  BY <1>1, <1>8, DroppedKept
<1>17. ASSUME NEW r \in Label, r # row
       PROVE  RowTells(rows'[r], hits', P, r, second)
  <2>1. PICK was : was = rows[r]
    OBVIOUS
  <2>2. RowTells(was, hits, present, r, second)
    BY <1>9, <1>11, <2>1 DEF RowsInv, RowSays
  <2>3. was.since # NoSecond => r \in present
    BY <1>9, <2>1 DEF Seen
  <2>4. was.since # NoSecond => \A s \in Nat : Of(hits', P, r, s) = Of(hits, present, r, s)
    BY <1>14, <1>17, <2>3
  <2>5. RowTells(was, hits', P, r, second)
    BY <1>4, <1>11, <2>2, <2>4, TellsSame
  <2> QED
    BY <1>6, <1>17, <2>1, <2>5
<1>18. RowTells(it, hits', P, row, second)
  <2>1. PICK was \in RowType : was = rows[row]
    BY <1>2, <1>3
  <2>2. RowTells(was, hits, present, row, second)
    BY <1>3, <1>9, <1>11, <2>1 DEF RowsInv, RowSays
  <2>3. was.since # NoSecond <=> row \in present
    BY <1>3, <1>9, <2>1 DEF Seen
  <2>4. before = Had(was, hits, present, row, second)
    BY <1>12, <2>3 DEF Had
  <2>5. IsFiniteSet(before) /\ before \subseteq HitType
    <3>1. before \subseteq hits
      BY <1>12 DEF Of
    <3> QED
      BY <1>2, <3>1, FS_Subset DEF HitsOK
  <2>6. Requests(before) \in Nat /\ Errors(before) \in Nat
    BY <2>5, HitsType
  <2>7. PICK fail \in Nat : fail = FailOf(body)
    BY DEF FailOf
  <2>8. Grows(before, Of(hits', P, row, second), 1, fail)
    BY <1>13, <1>14, <2>7 DEF Grows
  <2>9. /\ was.since # NoSecond =>
             \A s \in Nat : s # second => Of(hits', P, row, s) = Of(hits, present, row, s)
        /\ was.since = NoSecond => \A s \in Nat : s # second => Of(hits', P, row, s) = {}
    BY <1>14, <2>3
  <2>10. /\ it.since = IF was.since = NoSecond THEN second ELSE was.since
         /\ \A s \in Slot : s # SlotOf(second) => it.ring[s] = was.ring[s]
         /\ it.ring[SlotOf(second)].second = second
         /\ it.ring[SlotOf(second)].requests =
              1 + IF was.ring[SlotOf(second)].second = second
                  THEN was.ring[SlotOf(second)].requests ELSE 0
         /\ it.ring[SlotOf(second)].errors =
              fail + IF was.ring[SlotOf(second)].second = second
                     THEN was.ring[SlotOf(second)].errors ELSE 0
    BY <1>5, <1>11, <2>1, <2>7
  <2>11. second \in Nat
    BY <1>4, <1>11
  <2>12. Written(was, it, hits, hits', present, P, row, second, fail)
    BY <2>2, <2>4, <2>8, <2>9, <2>10 DEF Written
  <2> QED
    BY <2>4, <2>6, <2>11, <2>12, TellsMore
<1>19. Seen' = P /\ ThisSecond' = second
  BY <1>4, <1>8, <1>9, <1>10, <1>11
<1>20. ASSUME NEW r \in Label PROVE RowTells(rows'[r], hits', Seen', r, ThisSecond')
  BY <1>6, <1>17, <1>18, <1>19
<1>21. \A r \in Label : RowSays(r)'
  BY <1>20 DEF RowSays
<1>22. Folded(Seen, MaxRows, Told)'
  <2>1. Folded(Seen', MaxRows, Told')
    BY <1>14, <1>19
  <2> QED
    BY <2>1 DEF Folded
<1> QED
  BY <1>6, <1>15, <1>16, <1>21, <1>22 DEF RowsInv

\* So does time that passes.
LEMMA RowsLater ==
  ASSUME RowsInv, now \in Nat, now' \in {now, now + 1}, UNCHANGED <<rows, dropped, hits>>
  PROVE  RowsInv'
<1>1. PICK upTo : upTo = ThisSecond
  OBVIOUS
<1>2. PICK later : later = ThisSecond'
  OBVIOUS
<1>3. upTo \in Nat /\ later \in Nat /\ upTo <= later
  <2>1. ThisSecond' = now' \div SecondTicks
    BY DEF ThisSecond
  <2>2. upTo \in Nat /\ upTo <= later
    BY <1>1, <1>2, <2>1, SecondOf
  <2>3. now' \in Nat /\ SecondTicks \in Nat \ {0}
    BY CoarseAssumption
  <2>4. later \in Int
    BY <1>2, <2>1, <2>3, ModDef
  <2> QED
    BY <2>2, <2>4
<1>4. /\ IsFiniteSet(hits) /\ hits \subseteq HitType
      /\ \A h \in hits : h.second <= upTo /\ h.second \in Nat
      /\ \A h, k \in hits : h.label = k.label /\ h.second = k.second => h = k
  BY <1>1 DEF RowsInv, HitsOK, HitType
<1>5. HitsOK'
  BY <1>2, <1>3, <1>4 DEF HitsOK
<1>6. Seen' = Seen /\ Told' = Told
  BY DEF Seen, Told
<1>7. ASSUME NEW row \in Label PROVE RowSays(row)'
  <2>1. PICK it \in RowType : it = rows[row]
    BY DEF RowsInv
  <2>2. PICK present : present = Seen
    OBVIOUS
  <2>3. RowTells(it, hits, present, row, upTo)
    BY <1>1, <2>1, <2>2 DEF RowsInv, RowSays
  <2>4. RowTells(it, hits, present, row, later)
    <3> HIDE DEF RowTells
    <3>1. \A h \in hits : h.second <= upTo
      BY <1>4
    <3>2. \A h \in hits : h.second \in Nat
      BY <1>4
    <3> QED
      BY <1>3, <2>3, <3>1, <3>2, TellsLater
  <2> QED
    BY <1>2, <1>6, <2>1, <2>2, <2>4 DEF RowSays
<1>8. DroppedOK'
  BY <1>6 DEF RowsInv, DroppedOK
<1>9. Folded(Seen, MaxRows, Told)'
  BY <1>6 DEF RowsInv, Folded
<1> QED
  BY <1>5, <1>7, <1>8, <1>9 DEF RowsInv

LoopType == [second : Int, delay : 0 .. MaxDelay]

ReadIn(S, second) == {r.delay : r \in {q \in S : q.second = second}}

\* A slot of the event loop's ring holds the worst reading of the second it holds, and while
\* it holds an earlier one there was no reading.
LoopTells(ring, S, upTo) ==
  /\ ring \in [Slot -> LoopType]
  /\ \A r \in S : r.second \in 0 .. upTo /\ r.delay \in 1 .. MaxDelay
  /\ \A s \in Slot :
       \/ ring[s].second = NoSecond
       \/ ring[s].second \in 0 .. upTo /\ SlotOf(ring[s].second) = s
  /\ \A second \in 0 .. upTo :
       LET slot == ring[SlotOf(second)]
       IN /\ slot.second = second =>
               /\ slot.delay \in ReadIn(S, second)
               /\ \A d \in ReadIn(S, second) : d <= slot.delay
          /\ slot.second < second => ReadIn(S, second) = {}

LoopInv == LoopTells(loop, sampled, ThisSecond)

\* Time that passes keeps the event loop's ring.
LEMMA LoopLater ==
  ASSUME NEW ring, NEW S, NEW upTo \in Nat, NEW later \in Nat, upTo <= later,
         LoopTells(ring, S, upTo)
  PROVE  LoopTells(ring, S, later)
<1>1. \A second \in 0 .. later : SlotOf(second) \in Slot
  BY CoarseAssumption DEF SlotOf, Slot
<1>2. /\ ring \in [Slot -> LoopType]
      /\ \A r \in S : r.second \in 0 .. upTo /\ r.delay \in 1 .. MaxDelay
      /\ \A s \in Slot :
           \/ ring[s].second = NoSecond
           \/ ring[s].second \in 0 .. upTo /\ SlotOf(ring[s].second) = s
  BY DEF LoopTells
<1>3. ASSUME NEW second \in 0 .. later
      PROVE  LET slot == ring[SlotOf(second)]
             IN /\ slot.second = second =>
                     /\ slot.delay \in ReadIn(S, second)
                     /\ \A d \in ReadIn(S, second) : d <= slot.delay
                /\ slot.second < second => ReadIn(S, second) = {}
  <2>1. CASE second \in 0 .. upTo
    BY <2>1 DEF LoopTells
  <2>2. CASE second > upTo
    <3>1. ReadIn(S, second) = {}
      BY <1>2, <2>2 DEF ReadIn
    <3>2. ring[SlotOf(second)].second # second
      BY <1>1, <1>2, <2>2 DEF NoSecond
    <3> QED
      BY <3>1, <3>2
  <2> QED
    BY <2>1, <2>2
<1> QED
  BY <1>2, <1>3 DEF LoopTells

\* So does a reading.
LEMMA LoopRead ==
  ASSUME LoopInv, now \in Nat, now' = now, NEW delay \in 1 .. MaxDelay, LoopTick(delay)
  PROVE  LoopInv'
<1>1. PICK second : second = ThisSecond
  OBVIOUS
<1>2. PICK k : k = SlotOf(second)
  OBVIOUS
<1>3. second \in Nat /\ k \in Slot /\ ThisSecond' = second
  BY <1>1, <1>2, SecondOf DEF ThisSecond
<1>4. PICK old : old = loop[k]
  OBVIOUS
<1>5. /\ loop \in [Slot -> LoopType] /\ old \in LoopType
      /\ \A r \in sampled : r.second \in 0 .. second /\ r.delay \in 1 .. MaxDelay
      /\ \A s \in Slot :
           \/ loop[s].second = NoSecond
           \/ loop[s].second \in 0 .. second /\ SlotOf(loop[s].second) = s
      /\ \A s \in 0 .. second :
           /\ loop[SlotOf(s)].second = s =>
                /\ loop[SlotOf(s)].delay \in ReadIn(sampled, s)
                /\ \A d \in ReadIn(sampled, s) : d <= loop[SlotOf(s)].delay
           /\ loop[SlotOf(s)].second < s => ReadIn(sampled, s) = {}
  BY <1>1, <1>3, <1>4 DEF LoopInv, LoopTells
<1>6. PICK kept : kept = IF old.second = second THEN old.delay ELSE 0
  OBVIOUS
<1>7. PICK worst : worst = Max({kept, delay})
  OBVIOUS
<1>8. kept \in 0 .. MaxDelay /\ delay \in Nat /\ MaxDelay \in Nat
  BY <1>5, <1>6, CoarseAssumption DEF LoopType
<1>9. worst \in {kept, delay} /\ worst >= kept /\ worst >= delay
  BY <1>7, <1>8, MaxOfTwo
<1>10. PICK slot : slot = [second |-> second, delay |-> worst]
  OBVIOUS
<1>11. slot \in LoopType /\ slot.second = second /\ slot.delay = worst
  BY <1>3, <1>8, <1>9, <1>10 DEF LoopType
<1>12. PICK one : one = [second |-> second, delay |-> delay]
  OBVIOUS
<1>13. /\ loop' = [loop EXCEPT ![k] = slot] /\ sampled' = sampled \cup {one}
       /\ one.second = second /\ one.delay = delay
  BY <1>1, <1>2, <1>4, <1>6, <1>7, <1>10, <1>12 DEF LoopTick
<1>14. /\ loop' \in [Slot -> LoopType] /\ loop'[k] = slot
       /\ \A s \in Slot : s # k => loop'[s] = loop[s]
  BY <1>3, <1>5, <1>11, <1>13
<1>15. \A r \in sampled' : r.second \in 0 .. second /\ r.delay \in 1 .. MaxDelay
  BY <1>3, <1>5, <1>13
<1>16. \A s \in Slot :
         \/ loop'[s].second = NoSecond
         \/ loop'[s].second \in 0 .. second /\ SlotOf(loop'[s].second) = s
  BY <1>2, <1>3, <1>5, <1>11, <1>14
\* What was read in this second.
<1>17. ReadIn(sampled', second) = ReadIn(sampled, second) \cup {delay}
  BY <1>13 DEF ReadIn
<1>18. \A s : s # second => ReadIn(sampled', s) = ReadIn(sampled, s)
  BY <1>13 DEF ReadIn
<1>19. \A d \in ReadIn(sampled, second) : d \in Nat
  BY <1>5, <1>8 DEF ReadIn
<1>20. /\ worst \in ReadIn(sampled', second)
       /\ \A d \in ReadIn(sampled', second) : d <= worst
  <2>1. CASE old.second = second
    <3>1. /\ kept \in ReadIn(sampled, second)
          /\ \A d \in ReadIn(sampled, second) : d <= kept
      BY <1>2, <1>3, <1>4, <1>5, <1>6, <2>1
    <3> QED
      BY <1>8, <1>9, <1>17, <1>19, <3>1
  <2>2. CASE old.second # second
    <3>1. old.second < second
      BY <1>3, <1>4, <1>5, <2>2 DEF NoSecond
    <3>2. ReadIn(sampled, second) = {}
      BY <1>2, <1>3, <1>4, <1>5, <3>1
    <3>3. worst = delay
      BY <1>6, <1>8, <1>9, <2>2
    <3> QED
      BY <1>8, <1>17, <3>2, <3>3
  <2> QED
    BY <2>1, <2>2
<1>21. \A s \in 0 .. second : SlotOf(s) \in Slot
  BY <1>3, CoarseAssumption DEF SlotOf, Slot
<1>22. ASSUME NEW s \in 0 .. second
       PROVE  /\ loop'[SlotOf(s)].second = s =>
                   /\ loop'[SlotOf(s)].delay \in ReadIn(sampled', s)
                   /\ \A d \in ReadIn(sampled', s) : d <= loop'[SlotOf(s)].delay
              /\ loop'[SlotOf(s)].second < s => ReadIn(sampled', s) = {}
  <2>1. CASE s = second
    BY <1>2, <1>3, <1>11, <1>14, <1>20, <2>1
  <2>2. CASE s # second /\ SlotOf(s) = k
    BY <1>3, <1>11, <1>14, <2>2
  <2>3. CASE s # second /\ SlotOf(s) # k
    <3>1. loop'[SlotOf(s)] = loop[SlotOf(s)] /\ ReadIn(sampled', s) = ReadIn(sampled, s)
      BY <1>14, <1>18, <1>21, <2>3
    <3> QED
      BY <1>5, <3>1
  <2> QED
    BY <2>1, <2>2, <2>3
<1>23. LoopTells(loop', sampled', second)
  BY <1>14, <1>15, <1>16, <1>22 DEF LoopTells
<1> QED
  BY <1>3, <1>23 DEF LoopInv

CoarseInv == now \in Nat /\ RowsInv /\ LoopInv

\* Every step keeps the coarse summary.
LEMMA CoarseSteps == CoarseInv /\ CoarseStep => CoarseInv'
<1> SUFFICES ASSUME CoarseInv, CoarseStep PROVE CoarseInv'
  OBVIOUS
<1>0. now \in Nat /\ RowsInv /\ LoopInv
  BY DEF CoarseInv
<1>1. ASSUME NEW label \in Endpoint, NEW body \in Bodies, RecordCoarse(label, body), now' = now
      PROVE  CoarseInv'
  <2>1. RowsInv'
    BY <1>0, <1>1, RowsRecorded
  <2>2. loop' = loop /\ sampled' = sampled /\ ThisSecond' = ThisSecond
    BY <1>1 DEF RecordCoarse, ThisSecond
  <2>3. LoopInv'
    BY <1>0, <2>2 DEF LoopInv
  <2> QED
    BY <1>0, <1>1, <2>1, <2>3 DEF CoarseInv
<1>2. ASSUME NEW delay \in 1 .. MaxDelay, LoopTick(delay), now' = now
      PROVE  CoarseInv'
  <2>1. UNCHANGED <<rows, dropped, hits>>
    BY <1>2 DEF LoopTick
  <2> QED
    BY <1>0, <1>2, <2>1, RowsLater, LoopRead DEF CoarseInv
<1>3. CASE UNCHANGED coarseVars /\ now' \in {now, now + 1}
  <2>1. UNCHANGED <<rows, dropped, hits>> /\ loop' = loop /\ sampled' = sampled
    BY <1>3 DEF coarseVars
  <2>2. RowsInv' /\ now' \in Nat
    BY <1>0, <1>3, <2>1, RowsLater
  <2>3. LoopTells(loop, sampled, ThisSecond')
    <3>1. PICK upTo : upTo = ThisSecond
      OBVIOUS
    <3>2. PICK later : later = now' \div SecondTicks
      OBVIOUS
    <3>3. upTo \in Nat /\ upTo <= later /\ later \in Int
      <4>1. now' \in Int /\ SecondTicks \in Nat \ {0}
        BY <2>2, CoarseAssumption
      <4>2. later \in Int
        BY <3>2, <4>1, ModDef
      <4> QED
        BY <1>0, <1>3, <3>1, <3>2, <4>2, SecondOf
    <3>4. LoopTells(loop, sampled, upTo) /\ later \in Nat
      BY <1>0, <3>1, <3>3 DEF LoopInv
    <3>5. LoopTells(loop, sampled, later)
      BY <3>3, <3>4, LoopLater
    <3> QED
      BY <3>2, <3>5 DEF ThisSecond
  <2> QED
    BY <2>1, <2>2, <2>3 DEF CoarseInv, LoopInv
<1> QED
  BY <1>1, <1>2, <1>3 DEF CoarseStep

\* An empty one says nothing.
LEMMA CoarseStarts == Init => CoarseInv
<1> SUFFICES ASSUME Init PROVE CoarseInv
  OBVIOUS
<1>1. /\ rows = [l \in Label |-> NoRow] /\ dropped = {} /\ hits = {} /\ sampled = {} /\ now = 0
      /\ loop = [s \in Slot |-> [second |-> NoSecond, delay |-> 0]]
  BY DEF Init, CoarseInit
<1>2. NoSlot \in SlotType /\ NoRow \in RowType /\ NoSecond \in Int
      /\ NoRow.since = NoSecond /\ \A s \in Slot : NoRow.ring[s] = NoSlot
  BY DEF NoSlot, NoRow, SlotType, RowType, NoSecond
<1>3. IsFiniteSet({}) /\ Cardinality({}) = 0 /\ MaxDropped \in Nat /\ MaxDelay \in Nat
  BY FS_EmptySet, CoarseAssumption
<1>4. Told = {} /\ Seen = {}
  BY <1>1, <1>2 DEF Told, Seen
<1>5. HitsOK /\ DroppedOK
  BY <1>1, <1>3 DEF HitsOK, DroppedOK
<1>6. Folded(Seen, MaxRows, Told)
  BY <1>4 DEF Folded
<1>7. rows \in [Label -> RowType]
  BY <1>1, <1>2
<1>8. ASSUME NEW row \in Label PROVE RowSays(row)
  BY <1>1, <1>2 DEF RowSays, RowTells
<1>9. now \in Nat /\ ThisSecond \in Nat
  <2>1. now \in Nat
    BY <1>1
  <2> QED
    BY <2>1, SecondOf
<1>10. \A s \in 0 .. ThisSecond : SlotOf(s) \in Slot
  BY <1>9, CoarseAssumption DEF SlotOf, Slot
<1>11. LoopInv
  <2>1. loop \in [Slot -> LoopType]
    BY <1>1, <1>2, <1>3 DEF LoopType
  <2>2. \A s \in Slot : loop[s].second = NoSecond
    BY <1>1
  <2>3. \A s : ReadIn(sampled, s) = {}
    BY <1>1 DEF ReadIn
  <2> QED
    BY <1>1, <1>10, <2>1, <2>2, <2>3 DEF LoopInv, LoopTells, NoSecond
<1> QED
  BY <1>5, <1>6, <1>7, <1>8, <1>9, <1>11 DEF CoarseInv, RowsInv

\* Kept at every step: what a ring says of a second is what was served in it.
THEOREM CoarseKept == Spec => []CoarseInv
<1>1. CoarseInv /\ [Next]_vars => CoarseInv'
  BY StepOfTheCoarse, CoarseSteps
<1> QED
  BY <1>1, CoarseStarts, PTL DEF Spec

\* Within the window, the slot of a second holds that second or an earlier one.
LEMMA InWindow ==
  ASSUME now \in Nat
  PROVE  /\ Window \subseteq 0 .. ThisSecond
         /\ \A second \in Window, held \in 0 .. ThisSecond :
              SlotOf(held) = SlotOf(second) => held <= second
         /\ \A second \in Window : SlotOf(second) \in Slot /\ second >= Oldest
<1>1. PICK n : n = ThisSecond
  OBVIOUS
<1>2. n \in Nat /\ Seconds \in Nat \ {0}
  BY <1>1, SecondOf, CoarseAssumption
<1>3. PICK first : first = Max({0, n - Seconds + 1})
  OBVIOUS
<1>4. first \in {0, n - Seconds + 1} /\ first >= 0 /\ first >= n - Seconds + 1
  BY <1>2, <1>3, MaxOfTwo
<1>5. Window = first .. n
  BY <1>1, <1>3 DEF Window, Oldest
<1>6. \A second \in Window : second \in 0 .. n /\ second >= n - Seconds + 1
  BY <1>2, <1>4, <1>5
<1>7. ASSUME NEW second \in Window, NEW held \in 0 .. n, SlotOf(held) = SlotOf(second),
             held > second
      PROVE  FALSE
  <2>1. held \in Int /\ second \in Int /\ held - second < Seconds /\ second - held < Seconds
    BY <1>2, <1>6, <1>7
  <2>2. held = second
    BY <1>2, <1>7, <2>1, ModApart DEF SlotOf
  <2> QED
    BY <1>7, <2>1, <2>2
<1>8. ASSUME NEW second \in Window, NEW held \in 0 .. n, SlotOf(held) = SlotOf(second)
      PROVE  held <= second
  BY <1>2, <1>6, <1>7, <1>8
<1>9. \A second \in Window : SlotOf(second) \in Slot
  <2> SUFFICES ASSUME NEW second \in Window PROVE SlotOf(second) \in Slot
    OBVIOUS
  <2>1. second \in Int
    BY <1>2, <1>6
  <2> QED
    BY <1>2, <2>1, ModRange DEF SlotOf, Slot
<1> QED
  BY <1>1, <1>6, <1>8, <1>9 DEF Oldest

\* What a row says of a second in its window is what was served in it.
LEMMA RowsTell ==
  ASSUME CoarseInv, NEW row \in Seen, NEW second \in Window,
         NEW of, of = Of(hits, Seen, row, second)
  PROVE  IF second \in SaidSeconds(row)
         THEN /\ Said(row, second).requests = Requests(of)
              /\ Said(row, second).errors = Errors(of)
         ELSE of = {}
<1>1. PICK it : it = rows[row]
  OBVIOUS
<1>2. PICK k : k = SlotOf(second)
  OBVIOUS
<1>3. PICK slot : slot = it.ring[k]
  OBVIOUS
<1>4. k \in Slot /\ second \in 0 .. ThisSecond /\ now \in Nat /\ ThisSecond \in Nat
  BY <1>2, InWindow, SecondOf DEF CoarseInv
<1>5. /\ it.since # NoSecond /\ it \in RowType
      /\ RowTells(it, hits, Seen, row, ThisSecond)
  BY <1>1 DEF Seen, CoarseInv, RowsInv, RowSays
<1>6. /\ it.since \in 0 .. ThisSecond
      /\ slot = NoSlot \/ (slot.second \in 0 .. ThisSecond /\ SlotOf(slot.second) = k)
      /\ slot.second = second => slot.requests = Requests(of) /\ slot.errors = Errors(of)
      /\ slot.second < second => of = {}
      /\ of # {} => second >= it.since
  BY <1>2, <1>3, <1>4, <1>5 DEF RowTells
<1>7. slot.second = second \/ slot.second < second
  <2>1. CASE slot = NoSlot
    BY <1>4, <2>1 DEF NoSlot, NoSecond
  <2>2. CASE slot.second \in 0 .. ThisSecond /\ SlotOf(slot.second) = k
    <3>1. slot.second <= second
      BY <1>2, <1>4, <2>2, InWindow
    <3> QED
      BY <1>4, <2>2, <3>1
  <2> QED
    BY <1>6, <2>1, <2>2
<1>8. CASE second \notin SaidSeconds(row)
  <2>1. ~(second >= it.since)
    BY <1>1, <1>8 DEF SaidSeconds
  <2> QED
    BY <1>6, <1>8, <2>1
<1>9. CASE second \in SaidSeconds(row)
  <2>1. Said(row, second)
          = IF slot.second = second THEN slot ELSE [NoSlot EXCEPT !.second = second]
    BY <1>1, <1>2, <1>3 DEF Said
  <2>2. CASE slot.second = second
    BY <1>6, <1>9, <2>1, <2>2
  <2>3. CASE slot.second # second
    <3>1. of = {}
      BY <1>6, <1>7, <2>3
    <3>2. Said(row, second).requests = 0 /\ Said(row, second).errors = 0
      BY <2>1, <2>3 DEF NoSlot
    <3> QED
      BY <1>9, <3>1, <3>2, NoHits
  <2> QED
    BY <2>2, <2>3
<1> QED
  BY <1>8, <1>9

\* What is said of the event loop in a second is its worst reading, if there was one.
LEMMA TheLoopTells ==
  ASSUME CoarseInv, NEW second \in Window, NEW read, read = ReadIn(sampled, second)
  PROVE  {slot.delay : slot \in {s \in SaidLoop : s.second = second}}
           = IF read = {} THEN {} ELSE {Max(read)}
<1>1. PICK k : k = SlotOf(second)
  OBVIOUS
<1>2. PICK slot : slot = loop[k]
  OBVIOUS
<1>3. PICK said : said = {s \in SaidLoop : s.second = second}
  OBVIOUS
<1>4. /\ k \in Slot /\ second \in 0 .. ThisSecond /\ now \in Nat /\ ThisSecond \in Nat
      /\ second >= Oldest /\ second # NoSecond
  BY <1>1, InWindow, SecondOf DEF CoarseInv, NoSecond
<1>5. /\ loop \in [Slot -> LoopType] /\ slot \in LoopType
      /\ \A r \in sampled : r.delay \in 1 .. MaxDelay
      /\ \A s \in Slot :
           \/ loop[s].second = NoSecond
           \/ loop[s].second \in 0 .. ThisSecond /\ SlotOf(loop[s].second) = s
      /\ slot.second = second => slot.delay \in read /\ \A d \in read : d <= slot.delay
      /\ slot.second < second => read = {}
  BY <1>1, <1>2, <1>4 DEF CoarseInv, LoopInv, LoopTells
<1>6. \A s \in Slot : loop[s].second = second => s = k
  BY <1>1, <1>4, <1>5
<1>7. slot.second = second \/ slot.second < second
  <2>1. CASE slot.second = NoSecond
    BY <1>4, <2>1 DEF NoSecond
  <2>2. CASE slot.second \in 0 .. ThisSecond /\ SlotOf(slot.second) = k
    <3>1. slot.second <= second
      BY <1>1, <1>4, <2>2, InWindow
    <3> QED
      BY <1>4, <2>2, <3>1
  <2> QED
    BY <1>2, <1>4, <1>5, <2>1, <2>2
<1>8. said = IF slot.second = second THEN {slot} ELSE {}
  BY <1>2, <1>3, <1>4, <1>6 DEF SaidLoop
<1>9. CASE slot.second = second
  <2>1. /\ slot.delay \in read /\ \A d \in read : d <= slot.delay
        /\ \A d \in read : d \in Nat
    <3>1. \A d \in read : d \in 1 .. MaxDelay
      BY <1>5 DEF ReadIn
    <3> QED
      BY <1>5, <1>9, <3>1, CoarseAssumption
  <2>2. Max(read) \in read /\ \A d \in read : Max(read) >= d
    <3>1. \E x \in read : \A d \in read : x >= d
      BY <2>1
    <3> QED
      BY <3>1 DEF Max
  <2>3. Max(read) = slot.delay
    BY <2>1, <2>2
  <2>4. {s.delay : s \in said} = {slot.delay}
    BY <1>8, <1>9
  <2> QED
    BY <1>3, <2>1, <2>3, <2>4
<1>10. CASE slot.second < second
  <2>1. read = {} /\ said = {}
    BY <1>4, <1>5, <1>8, <1>10 DEF LoopType
  <2> QED
    BY <1>3, <2>1
<1> QED
  BY <1>7, <1>9, <1>10

\* Of the seconds of the window, a row's are what its endpoints were served in them and the
\* event loop's the worst that was read in them, whatever was written over the ring before;
\* and the routes said to be dropped are no more than had no row (coarse.ts 57-63, 90-97,
\* 241-242).
THEOREM SecondsAreToldApart == Spec => []SecondsTell
<1>1. CoarseInv => SecondsTell
  <2> SUFFICES ASSUME CoarseInv PROVE SecondsTell
    OBVIOUS
  <2>1. ASSUME NEW row \in Seen, NEW second \in Window
        PROVE  LET of == {h \in hits : h.label \in StandsFor(Seen, row) /\ h.second = second}
               IN IF second \in SaidSeconds(row)
                  THEN /\ Said(row, second).requests = SumOver(of, LAMBDA h : h.requests)
                       /\ Said(row, second).errors = SumOver(of, LAMBDA h : h.errors)
                  ELSE of = {}
    <3>1. PICK of : of = Of(hits, Seen, row, second)
      OBVIOUS
    <3>2. IF second \in SaidSeconds(row)
          THEN /\ Said(row, second).requests = Requests(of)
               /\ Said(row, second).errors = Errors(of)
          ELSE of = {}
      BY <3>1, RowsTell
    <3> QED
      BY <3>1, <3>2 DEF Of, Requests, Errors
  <2>2. ASSUME NEW second \in Window
        PROVE  {slot.delay : slot \in {s \in SaidLoop : s.second = second}}
                 = LET read == {r.delay : r \in {q \in sampled : q.second = second}}
                   IN IF read = {} THEN {} ELSE {Max(read)}
    BY TheLoopTells DEF ReadIn
  <2>3. RoutesDropped <= Cardinality({h.label : h \in hits} \ Seen)
    <3> DEFINE named == [h \in hits |-> h.label]
    <3>1. named \in Surjection(hits, Told)
      BY DEF Surjection, Told
    <3>2. IsFiniteSet(hits) /\ dropped \subseteq Told \ Seen
      BY DEF CoarseInv, RowsInv, HitsOK, DroppedOK
    <3>3. IsFiniteSet(Told \ Seen)
      <4>1. IsFiniteSet(Told)
        BY <3>1, <3>2, FS_Surjection
      <4> QED
        BY <4>1, FS_Subset
    <3>4. Cardinality(dropped) <= Cardinality(Told \ Seen)
      BY <3>2, <3>3, FS_Subset
    <3> QED
      BY <3>4 DEF RoutesDropped, Told
  <2> QED
    BY <2>1, <2>2, <2>3 DEF SecondsTell
<1> QED
  BY <1>1, CoarseKept, PTL
=============================================================================
