---------------------------- MODULE SenderProofs ----------------------------
(***************************************************************************)
(* Proofs about Sender for every value of its constants, in three parts:   *)
(* the ledger of what is counted, what is held until it is written or      *)
(* sent, and that each occurrence is delivered as CountedDelivery says.    *)
(*                                                                         *)
(* The ledger of a signature the sender keeps a total for: what the cloud  *)
(* applied, with what was refused at the cap, is the larger of two marks.  *)
(* One is the largest total the cloud applied; the other is what the       *)
(* sender knows to be settled, everything handed over less what is         *)
(* pending.  A batch carries the second mark as `total - count`, so a      *)
(* delivery whose answer was lost moves the first mark and a landing lets  *)
(* the second catch up; neither is counted twice.                          *)
(***************************************************************************)
EXTENDS Sender, Lemmas

InFlight == phase \in {"writing", "sending"}

Settled(s) == handed[s] - pending[s]

\* With nothing in flight there is no batch, and no answer but to a request.
Flight ==
  /\ ~InFlight => batch = NoBatch
  /\ phase # "sending" => answer = "none"

\* What the batch declares is still in the counter, to be taken off if it lands; what the
\* cloud was told and what is still to say cover what was counted, with an accepted
\* batch's share already on the cloud's side.
CounterLedger ==
  \A c \in Counter :
    /\ batch.declared[c] <= since[c]
    /\ stats[c] <= cloud.told[c] + since[c]
                   - (IF answer = "accepted" THEN batch.declared[c] ELSE 0)

LossLedger ==
  \A s \in Sig :
    /\ batch.declaredExceptions[s] <= sinceExceptions[s]
    /\ lost[s] <= cloud.toldExceptions[s] + sinceExceptions[s] + registerDropped[s]
                  - (IF answer = "accepted" THEN batch.declaredExceptions[s] ELSE 0)

\* A signature is left without a total only when the table is full, and for ever.
Table ==
  /\ Cardinality(tracked) <= MaxRunningTotals
  /\ \A s \in Sig \ tracked :
       handed[s] > 0 => Cardinality(tracked) = MaxRunningTotals

\* What holds of one batch on its way, whoever holds it.
OnItsWay(b, s) ==
  /\ b.total[s] <= handed[s]
  /\ handed[s] = 0 => b.exceptions[s] = 0
  /\ b.total[s] > 0 <=> (s \in tracked /\ b.exceptions[s] > 0)

Marks(s) ==
  /\ batch.exceptions[s] <= pending[s]
  /\ pending[s] <= handed[s]
  /\ cloud.last[s] <= handed[s]
  /\ s \in tracked => totals[s] = handed[s]
  /\ s \notin tracked => totals[s] = 0 /\ cloud.last[s] = 0
  /\ handed[s] = 0 => cloud.applied[s] = 0 /\ refused[s] = 0
  /\ OnItsWay(batch, s)
  /\ \A b \in late : OnItsWay(b, s)

Kept(s) ==
  handed[s] <= cloud.applied[s] + refused[s] + pending[s]
               - (IF answer = "accepted" THEN batch.exceptions[s] ELSE 0)

\* A request given up on adds nothing any more, or starts where the pending entry does
\* and goes no further than the batch in flight.
Overtaken(b, s) ==
  \/ b.total[s] <= cloud.last[s]
  \/ /\ b.total[s] - b.exceptions[s] = Settled(s)
     /\ InFlight => b.total[s] <= batch.total[s]

Ledger(s) ==
  /\ cloud.applied[s] + refused[s] =
       IF cloud.last[s] > Settled(s) THEN cloud.last[s] ELSE Settled(s)
  /\ batch.exceptions[s] > 0 =>
       /\ batch.total[s] - batch.exceptions[s] = Settled(s)
       /\ answer = "accepted" => batch.total[s] <= cloud.last[s]
  /\ \A b \in late : Overtaken(b, s)

SigLedger(s) == Marks(s) /\ Kept(s) /\ (s \in tracked => Ledger(s))

IInv ==
  /\ TypeOK /\ Flight /\ CounterLedger /\ LossLedger /\ Table
  /\ \A s \in Sig : SigLedger(s)

-----------------------------------------------------------------------------
\* The state the ledgers read, and the steps that touch it.

ledgerVars ==
  <<registerDropped, pending, totals, tracked, since, sinceExceptions, stats, phase,
    batch, answer, late, cloud, handed, refused, lost>>

USE DEF procVars, listVars, endVars, countVars, flushVars, outVars, ledger, histVars

\* Every other step of the sender leaves the ledgers alone.
LEMMA LedgerSteps ==
  ASSUME [Next]_vars
  PROVE  \/ UNCHANGED ledgerVars
         \/ \E s \in Sig : Record(s)
         \/ EnqueueExceptions \/ Enqueue \/ EnqueueProfile
         \/ FlushBegin \/ FlushWritten \/ FlushSend
         \/ Landed \/ AnswerRead \/ Rejected \/ Refused \/ TimeOut
         \/ CloudAccepts \/ CloudRejects
         \/ \E a \in {"refused", "wait"} : CloudRefuses(a)
         \/ \E b \in late : CloudAcceptsLate(b)
<1>1. ASSUME NEW reports \in SUBSET Capture, EnqueueCaptures(reports)
      PROVE  UNCHANGED ledgerVars
  BY <1>1 DEF EnqueueCaptures, ledgerVars
<1>2. ASSUME NEW g \in Signal, EnqueueTrigger(g)
      PROVE  UNCHANGED ledgerVars
  BY <1>2 DEF EnqueueTrigger, ledgerVars
<1>3. ASSUME NEW e \in Ending, DeclareEnding(e) \/ DumpOnExit(e)
      PROVE  UNCHANGED ledgerVars
  BY <1>3 DEF DeclareEnding, DumpOnExit, ledgerVars
<1>4. CASE SilenceEnds \/ WriteHeld \/ Killed
  BY <1>4 DEF SilenceEnds, WriteHeld, Killed, ledgerVars
<1>5. CASE UNCHANGED vars
  BY <1>5 DEF vars, ledgerVars
<1> QED
  BY <1>1, <1>2, <1>3, <1>4, <1>5 DEF Next, Process, Flush, Answer, WayOut, Cloud

-----------------------------------------------------------------------------
\* Type correctness.

\* An empty batch is a batch.
LEMMA NoBatchType == NoBatch \in Batch
BY DEF NoBatch, Batch, Occurrences, None

\* The intervals kept are a set of numbers.
LEMMA BoundedType ==
  ASSUME NEW q \in SUBSET Nat, NEW id \in Nat
  PROVE  Bounded(q, id + 1) \in SUBSET Nat
<1>1. id + 1 \in Nat
  OBVIOUS
<1>2. (q \cup {id + 1}) \in SUBSET Nat /\ ((q \ Oldest(q)) \cup {id + 1}) \in SUBSET Nat
  BY <1>1
<1> QED BY <1>2, Zenon DEF Bounded

\* What the process does keeps the types.
LEMMA TypeProcess ==
  ASSUME TypeOK, Process
  PROVE  TypeOK'
<1>1. ASSUME NEW s \in Sig, Record(s)
      PROVE  TypeOK'
  BY <1>1 DEF TypeOK, Record, Occurrences
<1>2. CASE EnqueueExceptions
  <2>1. PICK admitted \in SUBSET Sig, newlyTracked \in SUBSET Sig :
          Admit(admitted, newlyTracked)
    BY <1>2 DEF EnqueueExceptions
  <2>2. /\ pending' \in Occurrences /\ totals' \in Occurrences /\ tracked' \subseteq Sig
        /\ sinceExceptions' \in Occurrences
    BY <2>1 DEF TypeOK, Admit, Occurrences
  <2>3. handed' \in Occurrences /\ refused' \in Occurrences /\ lost' \in Occurrences
    BY <2>1 DEF TypeOK, Admit, Occurrences, Plus
  <2>4. register' \in Occurrences /\ registerDropped' \in Occurrences
    BY <1>2 DEF EnqueueExceptions, Occurrences, None
  <2>5. UNCHANGED <<queue, profiles, captureReports, asks, endVars, since, stats,
                    flushVars, alive, outVars, thrown, hist>>
    BY <1>2, Zenon DEF EnqueueExceptions
  <2> QED BY <2>2, <2>3, <2>4, <2>5 DEF TypeOK
<1>3. CASE Enqueue
  <2>1. queue' \in SUBSET Nat
    BY <1>3, BoundedType DEF TypeOK, Enqueue, History
  <2>2. hist' \in History
    <3>1. hist.discarded \subseteq Nat /\ queue \subseteq Nat /\ hist.made + 1 \in Nat
      BY DEF TypeOK, History
    <3>2. hist' = [hist EXCEPT !.made = hist.made + 1,
                     !.discarded = hist.discarded \cup (queue \ queue')]
      BY <1>3 DEF Enqueue
    <3>3. hist.discarded \cup (queue \ queue') \in SUBSET Nat
      BY <3>1, Zenon
    <3> QED BY <3>1, <3>2, <3>3 DEF TypeOK, History
  <2>3. since' \in [Counter -> Nat] /\ stats' \in [Counter -> Nat]
    BY <1>3 DEF TypeOK, Enqueue, CountShifted, Counter
  <2> QED BY <1>3, <2>1, <2>2, <2>3 DEF TypeOK, Enqueue
<1>4. CASE EnqueueProfile
  <2>1. profiles' \in SUBSET Nat
    BY <1>4, BoundedType DEF TypeOK, EnqueueProfile, History
  <2>2. since' \in [Counter -> Nat] /\ stats' \in [Counter -> Nat]
    BY <1>4 DEF TypeOK, EnqueueProfile, CountShifted, Counter
  <2>3. hist' \in History
    <3>1. hist.discardedProfiles \subseteq Nat /\ profiles \subseteq Nat /\ hist.profiles + 1 \in Nat
      BY DEF TypeOK, History
    <3>2. hist' = [hist EXCEPT !.profiles = hist.profiles + 1,
                     !.discardedProfiles = hist.discardedProfiles \cup (profiles \ profiles')]
      BY <1>4 DEF EnqueueProfile
    <3>3. hist.discardedProfiles \cup (profiles \ profiles') \in SUBSET Nat
      BY <3>1, Zenon
    <3> QED BY <3>1, <3>2, <3>3 DEF TypeOK, History
  <2> QED BY <1>4, <2>1, <2>2, <2>3 DEF TypeOK, EnqueueProfile
<1>5. ASSUME NEW reports \in SUBSET Capture, EnqueueCaptures(reports)
      PROVE  TypeOK'
  BY <1>5 DEF TypeOK, EnqueueCaptures
<1>6. ASSUME NEW g \in Signal, EnqueueTrigger(g)
      PROVE  TypeOK'
  BY <1>6 DEF TypeOK, EnqueueTrigger, History
<1>7. ASSUME NEW e \in Ending, DeclareEnding(e)
      PROVE  TypeOK'
  <2>1. (phase \in {"writing", "sending"}) \in BOOLEAN
    OBVIOUS
  <2>2. hist' \in History
    BY <1>7, <2>1 DEF TypeOK, DeclareEnding, History
  <2> QED BY <1>7, <2>2 DEF TypeOK, DeclareEnding
<1> QED BY <1>1, <1>2, <1>3, <1>4, <1>5, <1>6, <1>7 DEF Process

\* A flush keeps the types.
LEMMA TypeFlush ==
  ASSUME TypeOK, Flush
  PROVE  TypeOK'
<1>1. CASE FlushBegin
  <2>1. Assemble \in Batch
    BY DEF TypeOK, Assemble, Batch, Occurrences, Oldest
  <2> QED BY <1>1, <2>1 DEF TypeOK, FlushBegin
<1>2. CASE FlushWritten
  <2>1. endingLanded' \in BOOLEAN
    BY <1>2, Zenon DEF FlushWritten
  <2>2. file' \in [intervals : SUBSET Nat, profiles : SUBSET Nat, endings : SUBSET Ending]
    BY <1>2 DEF TypeOK, FlushWritten, Batch
  <2> QED BY <1>2, <2>1, <2>2, NoBatchType DEF TypeOK, FlushWritten, TakeOffCarried, Without
<1>3. CASE FlushSend
  BY <1>3 DEF TypeOK, FlushSend
<1> QED BY <1>1, <1>2, <1>3 DEF Flush

\* An answer keeps the types.
LEMMA TypeAnswer ==
  ASSUME TypeOK, CounterLedger, LossLedger, \A s \in Sig : Marks(s), Answer
  PROVE  TypeOK'
<1> USE NoBatchType
<1>1. CASE Landed
  <2>1. endingLanded' \in BOOLEAN
    BY <1>1, Zenon DEF Landed
  <2>2. since' \in [Counter -> Nat]
    BY <1>1 DEF TypeOK, CounterLedger, Landed, Minus, Batch
  <2>3. sinceExceptions' \in Occurrences
    BY <1>1 DEF TypeOK, LossLedger, Landed, Minus, Batch, Occurrences
  <2>4. pending' \in Occurrences
    BY <1>1 DEF TypeOK, Marks, Landed, Minus, Batch, Occurrences
  <2>5. hist' \in History
    BY <1>1 DEF TypeOK, Landed, Batch, History
  <2> QED BY <1>1, <2>1, <2>2, <2>3, <2>4, <2>5 DEF TypeOK, Landed, TakeOffCarried, Without
<1>2. CASE AnswerRead
  BY <1>2 DEF TypeOK, AnswerRead
<1>3. CASE Rejected
  <2>1. hist' \in History
    BY <1>3 DEF TypeOK, Rejected, Batch, History
  <2> QED BY <1>3, <2>1 DEF TypeOK, Rejected, TakeOffCarried, Without, CountOne, EndFlush, Counter
<1>4. CASE Refused
  <2>1. silent' \in BOOLEAN
    BY <1>4, Zenon DEF Refused
  <2> QED BY <1>4, <2>1 DEF TypeOK, Refused, CountOne, EndFlush, Counter
<1>5. CASE TimeOut
  BY <1>5 DEF TypeOK, TimeOut, CountOne, EndFlush, Counter
<1>6. CASE SilenceEnds
  <2>1. silent' \in BOOLEAN
    BY <1>6, Zenon DEF SilenceEnds
  <2> QED BY <1>6, <2>1 DEF TypeOK, SilenceEnds
<1> QED BY <1>1, <1>2, <1>3, <1>4, <1>5, <1>6 DEF Answer

\* A way out keeps the types.
LEMMA TypeWayOut ==
  ASSUME TypeOK, WayOut
  PROVE  TypeOK'
<1>1. ASSUME NEW e \in Ending \cup {NoEnding}, WriteNow(e)
      PROVE  /\ queue' \in SUBSET Nat /\ profiles' \in SUBSET Nat
             /\ file' \in [intervals : SUBSET Nat, profiles : SUBSET Nat,
                          endings : SUBSET Ending]
  BY <1>1 DEF TypeOK, WriteNow, Assemble, Oldest
<1>2. CASE WriteHeld
  <2>1. hist' \in History
    BY <1>2 DEF TypeOK, WriteHeld, History
  <2>2. WriteNow(ending) /\ ending \in Ending \cup {NoEnding}
    BY <1>2 DEF TypeOK, WriteHeld
  <2> QED BY <1>1, <1>2, <2>1, <2>2 DEF TypeOK, WriteHeld
<1>3. ASSUME NEW e \in Ending, DumpOnExit(e)
      PROVE  TypeOK'
  <2>1. alive' \in BOOLEAN
    BY <1>3, Zenon DEF DumpOnExit
  <2>2. hist' \in History
    BY <1>3 DEF TypeOK, DumpOnExit, History
  <2>3. /\ queue' \in SUBSET Nat /\ profiles' \in SUBSET Nat
        /\ file' \in [intervals : SUBSET Nat, profiles : SUBSET Nat,
                     endings : SUBSET Ending]
        /\ ending' \in Ending \cup {NoEnding}
    BY <1>1, <1>3 DEF TypeOK, DumpOnExit
  <2>4. endingLanded' \in BOOLEAN
    <3>1. endingLanded' = TRUE \/ endingLanded' = endingLanded
      BY <1>3, Zenon DEF DumpOnExit
    <3> QED BY <3>1 DEF TypeOK
  <2> QED BY <1>3, <2>1, <2>2, <2>3, <2>4 DEF TypeOK, DumpOnExit
<1>4. CASE Killed
  <2>1. alive' \in BOOLEAN
    BY <1>4, Zenon DEF Killed
  <2> QED BY <1>4, <2>1 DEF TypeOK, Killed
<1> QED BY <1>2, <1>3, <1>4 DEF WayOut

\* A batch applied leaves the cloud a cloud.
LEMMA AppliedType ==
  ASSUME TypeOK, NEW b \in Batch, Apply(b)
  PROVE  cloud' \in [last : Occurrences, applied : Occurrences,
                    told : [Counter -> Nat], toldExceptions : Occurrences,
                    intervals : SUBSET Nat, profiles : SUBSET Nat,
                    asked : [Signal -> Nat], reported : SUBSET Capture,
                    endings : SUBSET Ending]
<1>1. \A last, count, total \in Nat : Adds(last, count, total) \in Nat
  BY DEF Adds
<1>2. /\ \A s \in Sig : /\ b.total[s] \in Nat /\ b.exceptions[s] \in Nat
                       /\ cloud.last[s] \in Nat /\ cloud.applied[s] \in Nat
      /\ b.declared \in [Counter -> Nat] /\ b.declaredExceptions \in Occurrences
      /\ cloud.told \in [Counter -> Nat] /\ cloud.toldExceptions \in Occurrences
      /\ \A g \in Signal : cloud.asked[g] \in Nat
  BY DEF TypeOK, Batch, Occurrences
<1>3. [s \in Sig |-> IF b.total[s] > cloud.last[s] THEN b.total[s]
                     ELSE cloud.last[s]] \in Occurrences
  BY <1>2 DEF Occurrences
<1>4. [s \in Sig |-> cloud.applied[s] +
                     Adds(cloud.last[s], b.exceptions[s], b.total[s])] \in Occurrences
  <2>1. \A s \in Sig : Adds(cloud.last[s], b.exceptions[s], b.total[s]) \in Nat
    BY <1>1, <1>2
  <2> QED BY <1>2, <2>1 DEF Occurrences
<1>5. Plus(cloud.told, b.declared) \in [Counter -> Nat]
  BY <1>2 DEF Plus
<1>6. Plus(cloud.toldExceptions, b.declaredExceptions) \in Occurrences
  BY <1>2 DEF Plus, Occurrences
<1>7. [g \in Signal |-> cloud.asked[g] + IF g \in b.asks THEN 1 ELSE 0] \in [Signal -> Nat]
  BY <1>2
<1>8. /\ cloud.intervals \cup b.intervals \in SUBSET Nat
      /\ cloud.profiles \cup b.profile \in SUBSET Nat
      /\ cloud.reported \cup b.reports \in SUBSET Capture
      /\ cloud.endings \cup ({b.ending} \ {NoEnding}) \in SUBSET Ending
  BY DEF TypeOK, Batch
<1> QED BY <1>3, <1>4, <1>5, <1>6, <1>7, <1>8, Zenon DEF Apply

\* What the cloud does keeps the types.
LEMMA TypeCloud ==
  ASSUME TypeOK, Cloud
  PROVE  TypeOK'
<1>1. CASE CloudAccepts
  <2>1. batch \in Batch /\ Apply(batch)
    BY <1>1 DEF TypeOK, CloudAccepts
  <2> QED BY <1>1, <2>1, AppliedType DEF TypeOK, CloudAccepts
<1>2. ASSUME NEW b \in late, CloudAcceptsLate(b)
      PROVE  TypeOK'
  <2>1. b \in Batch /\ Apply(b)
    BY <1>2 DEF TypeOK, CloudAcceptsLate
  <2> QED BY <1>2, <2>1, AppliedType DEF TypeOK, CloudAcceptsLate
<1>3. CASE CloudRejects
  BY <1>3 DEF TypeOK, CloudRejects
<1>4. ASSUME NEW a \in {"refused", "wait"}, CloudRefuses(a)
      PROVE  TypeOK'
  BY <1>4 DEF TypeOK, CloudRefuses
<1> QED BY <1>1, <1>2, <1>3, <1>4 DEF Cloud

\* Every step keeps the types.
LEMMA TypeStep ==
  ASSUME IInv, [Next]_vars
  PROVE  TypeOK'
<1>1. CASE UNCHANGED vars
  BY <1>1 DEF IInv, TypeOK, vars
<1> QED
  BY <1>1, TypeProcess, TypeFlush, TypeAnswer, TypeWayOut, TypeCloud
  DEF IInv, SigLedger, Next

-----------------------------------------------------------------------------
\* The batch in flight and its answer.

\* Every step keeps this: with nothing in flight there is no batch, and no answer.
LEMMA FlightStep ==
  ASSUME IInv, [Next]_vars
  PROVE  Flight'
<1> USE DEF Flight, InFlight
<1>1. CASE UNCHANGED ledgerVars
  BY <1>1 DEF IInv, ledgerVars
<1>2. ASSUME NEW s \in Sig, Record(s)
      PROVE  Flight'
  BY <1>2 DEF IInv, Record
<1>3. CASE EnqueueExceptions \/ Enqueue \/ EnqueueProfile
  BY <1>3 DEF IInv, EnqueueExceptions, Enqueue, EnqueueProfile
<1>4. CASE FlushBegin \/ FlushWritten \/ FlushSend
  BY <1>4 DEF IInv, FlushBegin, FlushWritten, FlushSend
<1>5. CASE Landed \/ AnswerRead \/ Rejected \/ Refused \/ TimeOut
  BY <1>5 DEF IInv, Landed, AnswerRead, Rejected, Refused, TimeOut, EndFlush
<1>6. CASE CloudAccepts \/ CloudRejects
  BY <1>6 DEF IInv, CloudAccepts, CloudRejects, Unanswered
<1>7. ASSUME NEW a \in {"refused", "wait"}, CloudRefuses(a)
      PROVE  Flight'
  BY <1>7 DEF IInv, CloudRefuses, Unanswered
<1>8. ASSUME NEW b \in late, CloudAcceptsLate(b)
      PROVE  Flight'
  BY <1>8 DEF IInv, CloudAcceptsLate
<1> QED BY <1>1, <1>2, <1>3, <1>4, <1>5, <1>6, <1>7, <1>8, LedgerSteps

-----------------------------------------------------------------------------
\* The counters that say what was lost.

\* Every step keeps the counters' ledger.
LEMMA CounterStep ==
  ASSUME IInv, TypeOK', [Next]_vars
  PROVE  CounterLedger'
<1> USE DEF CounterLedger, Counter
<1> SUFFICES ASSUME NEW c \in Counter
             PROVE  /\ batch'.declared[c] <= since'[c]
                    /\ stats'[c] <= cloud'.told[c] + since'[c]
                           - (IF answer' = "accepted" THEN batch'.declared[c] ELSE 0)
  OBVIOUS
<1>t. /\ batch.declared[c] \in Nat /\ since[c] \in Nat /\ stats[c] \in Nat
      /\ cloud.told[c] \in Nat
      /\ batch.declared[c] <= since[c]
      /\ stats[c] <= cloud.told[c] + since[c]
                     - (IF answer = "accepted" THEN batch.declared[c] ELSE 0)
  BY DEF IInv, TypeOK, Batch
<1>0. NoBatch.declared[c] = 0
  BY DEF NoBatch
<1>u. /\ stats \in [Counter -> Nat] /\ since \in [Counter -> Nat]
      /\ batch.declared \in [Counter -> Nat]
  BY DEF IInv, TypeOK, Batch
<1> DEFINE Goal == /\ batch'.declared[c] <= since'[c]
                   /\ stats'[c] <= cloud'.told[c] + since'[c]
                          - (IF answer' = "accepted" THEN batch'.declared[c] ELSE 0)
<1> SUFFICES Goal
  OBVIOUS
<1>1. CASE UNCHANGED ledgerVars
  BY <1>1, <1>t DEF ledgerVars
<1>2. ASSUME NEW s \in Sig, Record(s)
      PROVE  Goal
  BY <1>2, <1>t DEF Record
<1>3. CASE EnqueueExceptions
  BY <1>3, <1>t DEF EnqueueExceptions
<1>4. CASE Enqueue \/ EnqueueProfile
  BY <1>4, <1>t, <1>u DEF Enqueue, EnqueueProfile, CountShifted
<1>5. CASE FlushBegin
  <2>1. answer = "none" /\ batch = NoBatch
    BY <1>5 DEF IInv, Flight, InFlight, FlushBegin
  <2> QED BY <1>5, <1>t, <1>0, <2>1 DEF FlushBegin, Assemble
<1>6. CASE FlushWritten
  <2>1. answer = "none"
    BY <1>6 DEF IInv, Flight, InFlight, FlushWritten
  <2> QED BY <1>6, <1>t, <1>0, <2>1 DEF FlushWritten
<1>7. CASE FlushSend \/ AnswerRead
  BY <1>7, <1>t DEF FlushSend, AnswerRead
<1>8. CASE Landed
  BY <1>8, <1>t, <1>u, <1>0 DEF Landed, Answered, Minus
<1>9. CASE Rejected \/ Refused
  <2>1. answer # "accepted"
    BY <1>9 DEF Rejected, Refused, Answered
  <2> QED BY <1>9, <1>t, <1>u, <1>0, <2>1 DEF Rejected, Refused, CountOne, EndFlush
<1>10. CASE TimeOut
  BY <1>10, <1>t, <1>u, <1>0 DEF TimeOut, CountOne, EndFlush
<1>11. CASE CloudAccepts
  <2>1. cloud'.told[c] = cloud.told[c] + batch.declared[c]
    BY <1>11 DEF CloudAccepts, Apply, Plus, IInv, TypeOK
  <2> QED BY <1>11, <1>t, <2>1 DEF CloudAccepts, Unanswered
<1>12. CASE CloudRejects
  BY <1>12, <1>t DEF CloudRejects, Unanswered
<1>13. ASSUME NEW a \in {"refused", "wait"}, CloudRefuses(a)
      PROVE  Goal
  BY <1>13, <1>t DEF CloudRefuses, Unanswered
<1>14. ASSUME NEW b \in late, CloudAcceptsLate(b)
      PROVE  Goal
  <2>1. b.declared[c] \in Nat
    BY DEF IInv, TypeOK, Batch
  <2>2. cloud'.told[c] = cloud.told[c] + b.declared[c]
    BY <1>14 DEF CloudAcceptsLate, Apply, Plus, IInv, TypeOK
  <2> QED BY <1>14, <1>t, <2>1, <2>2 DEF CloudAcceptsLate
<1> QED
  BY <1>1, <1>2, <1>3, <1>4, <1>5, <1>6, <1>7, <1>8, <1>9, <1>10, <1>11, <1>12,
     <1>13, <1>14, LedgerSteps

\* Every step keeps the losses' ledger.
LEMMA LossStep ==
  ASSUME IInv, TypeOK', [Next]_vars
  PROVE  LossLedger'
<1> USE DEF LossLedger
<1> SUFFICES ASSUME NEW s \in Sig
             PROVE  /\ batch'.declaredExceptions[s] <= sinceExceptions'[s]
                    /\ lost'[s] <= cloud'.toldExceptions[s] + sinceExceptions'[s]
                          + registerDropped'[s]
                          - (IF answer' = "accepted" THEN batch'.declaredExceptions[s] ELSE 0)
  OBVIOUS
<1>t. /\ batch.declaredExceptions[s] \in Nat /\ sinceExceptions[s] \in Nat
      /\ lost[s] \in Nat /\ registerDropped[s] \in Nat /\ register[s] \in Nat
      /\ cloud.toldExceptions[s] \in Nat
      /\ batch.declaredExceptions[s] <= sinceExceptions[s]
      /\ lost[s] <= cloud.toldExceptions[s] + sinceExceptions[s] + registerDropped[s]
                    - (IF answer = "accepted" THEN batch.declaredExceptions[s] ELSE 0)
  BY DEF IInv, TypeOK, Batch, Occurrences
<1>0. NoBatch.declaredExceptions[s] = 0
  BY DEF NoBatch, None
<1>u. /\ lost \in [Sig -> Nat] /\ registerDropped \in [Sig -> Nat]
      /\ sinceExceptions \in [Sig -> Nat]
  BY DEF IInv, TypeOK, Occurrences
<1> DEFINE Goal == /\ batch'.declaredExceptions[s] <= sinceExceptions'[s]
                   /\ lost'[s] <= cloud'.toldExceptions[s] + sinceExceptions'[s]
                         + registerDropped'[s]
                         - (IF answer' = "accepted" THEN batch'.declaredExceptions[s] ELSE 0)
<1> SUFFICES Goal
  OBVIOUS
<1>1. CASE UNCHANGED ledgerVars
  BY <1>1, <1>t DEF ledgerVars
<1>2. ASSUME NEW t \in Sig, Record(t)
      PROVE  Goal
  BY <1>2, <1>t, <1>u DEF Record
<1>3. CASE EnqueueExceptions
  <2>1. PICK admitted \in SUBSET Sig, newlyTracked \in SUBSET Sig :
          Admit(admitted, newlyTracked)
    BY <1>3 DEF EnqueueExceptions
  <2> DEFINE out == IF s \in Pending \cup admitted THEN 0 ELSE register[s]
  <2>2. sinceExceptions'[s] = sinceExceptions[s] + registerDropped[s] + out
    BY <2>1 DEF Admit
  <2>3. lost'[s] = lost[s] + out
    BY <1>u, <2>1 DEF Admit, Plus
  <2>4. registerDropped'[s] = 0
    BY <1>3 DEF EnqueueExceptions, None
  <2>5. UNCHANGED <<batch, answer, cloud>>
    BY <1>3 DEF EnqueueExceptions
  <2> QED BY <1>t, <2>2, <2>3, <2>4, <2>5
<1>4. CASE Enqueue \/ EnqueueProfile
  BY <1>4, <1>t DEF Enqueue, EnqueueProfile
<1>5. CASE FlushBegin
  <2>1. answer = "none" /\ batch = NoBatch
    BY <1>5 DEF IInv, Flight, InFlight, FlushBegin
  <2> QED BY <1>5, <1>t, <1>0, <2>1 DEF FlushBegin, Assemble
<1>6. CASE FlushWritten
  <2>1. answer = "none"
    BY <1>6 DEF IInv, Flight, InFlight, FlushWritten
  <2> QED BY <1>6, <1>t, <1>0, <2>1 DEF FlushWritten
<1>7. CASE FlushSend \/ AnswerRead
  BY <1>7, <1>t DEF FlushSend, AnswerRead
<1>8. CASE Landed
  BY <1>8, <1>t, <1>u, <1>0 DEF Landed, Answered, Minus
<1>9. CASE Rejected \/ Refused
  <2>1. answer # "accepted"
    BY <1>9 DEF Rejected, Refused, Answered
  <2> QED BY <1>9, <1>t, <1>0, <2>1 DEF Rejected, Refused, EndFlush
<1>10. CASE TimeOut
  BY <1>10, <1>t, <1>0 DEF TimeOut, EndFlush
<1>11. CASE CloudAccepts
  <2>1. cloud'.toldExceptions[s] = cloud.toldExceptions[s] + batch.declaredExceptions[s]
    BY <1>11 DEF CloudAccepts, Apply, Plus, IInv, TypeOK, Occurrences
  <2> QED BY <1>11, <1>t, <2>1 DEF CloudAccepts, Unanswered
<1>12. CASE CloudRejects
  BY <1>12, <1>t DEF CloudRejects, Unanswered
<1>13. ASSUME NEW a \in {"refused", "wait"}, CloudRefuses(a)
      PROVE  Goal
  BY <1>13, <1>t DEF CloudRefuses, Unanswered
<1>14. ASSUME NEW b \in late, CloudAcceptsLate(b)
      PROVE  Goal
  <2>1. b.declaredExceptions[s] \in Nat
    BY DEF IInv, TypeOK, Batch, Occurrences
  <2>2. cloud'.toldExceptions[s] = cloud.toldExceptions[s] + b.declaredExceptions[s]
    BY <1>14 DEF CloudAcceptsLate, Apply, Plus, IInv, TypeOK, Occurrences
  <2> QED BY <1>14, <1>t, <2>1, <2>2 DEF CloudAcceptsLate
<1> QED
  BY <1>1, <1>2, <1>3, <1>4, <1>5, <1>6, <1>7, <1>8, <1>9, <1>10, <1>11, <1>12,
     <1>13, <1>14, LedgerSteps

-----------------------------------------------------------------------------
\* The table of running totals.

\* A signature enters the table before anything of it was handed over, or never: once a
\* key is left out the table is full.
LEMMA NewlyTrackedIsNew ==
  ASSUME TypeOK, Table, NEW new \in SUBSET (Sig \ tracked),
         Cardinality(tracked \cup new) <= MaxRunningTotals, NEW s \in new
  PROVE  handed[s] = 0
<1>1. /\ IsFiniteSet(tracked) /\ IsFiniteSet(tracked \cup new)
      /\ Cardinality(tracked) \in Nat /\ Cardinality(tracked \cup new) \in Nat
  BY SigAssumption, FS_Subset, FS_CardinalityType DEF TypeOK
<1>2. IsFiniteSet(tracked \cup {s}) /\ Cardinality(tracked \cup {s}) = Cardinality(tracked) + 1
  BY <1>1, FS_AddElement
<1>3. Cardinality(tracked \cup {s}) <= Cardinality(tracked \cup new)
  BY <1>1, <1>2, FS_Subset
<1>4. handed[s] \in Nat /\ MaxRunningTotals \in Nat
  BY CapAssumption DEF TypeOK, Occurrences
<1> QED BY <1>1, <1>2, <1>3, <1>4 DEF Table

\* A signature is left without a total only when the table is full, at every step.
LEMMA TableStep ==
  ASSUME IInv, TypeOK', [Next]_vars
  PROVE  Table'
<1>1. CASE EnqueueExceptions
  <2> DEFINE taken == {s \in Sig : register[s] > 0}
  <2>1. PICK admitted \in SUBSET taken, new \in SUBSET taken :
          /\ Fills(new, taken \ tracked, tracked, MaxRunningTotals)
          /\ Admit(admitted, new)
    BY <1>1 DEF EnqueueExceptions
  <2>2. tracked' = tracked \cup new /\ handed' = Plus(handed, register)
    BY <2>1 DEF Admit
  <2>3. /\ Cardinality(tracked') <= MaxRunningTotals
        /\ new # taken \ tracked => Cardinality(tracked') = MaxRunningTotals
    BY <2>1, <2>2 DEF Fills
  <2>4. /\ IsFiniteSet(tracked') /\ Cardinality(tracked) \in Nat
        /\ Cardinality(tracked') \in Nat /\ Cardinality(tracked) <= Cardinality(tracked')
    BY <2>2, SigAssumption, FS_Subset, FS_CardinalityType DEF TypeOK
  <2>5. ASSUME NEW s \in Sig \ tracked', handed'[s] > 0
        PROVE  Cardinality(tracked') = MaxRunningTotals
    <3>1. handed'[s] = handed[s] + register[s] /\ handed[s] \in Nat /\ register[s] \in Nat
      BY <2>2 DEF IInv, TypeOK, Plus, Occurrences
    <3>2. CASE handed[s] > 0
      <4>1. s \notin tracked
        BY <2>2, <2>5
      <4>2. Cardinality(tracked) = MaxRunningTotals
        BY <3>2, <4>1 DEF IInv, Table
      <4> QED BY <2>3, <2>4, <4>2
    <3>3. CASE register[s] > 0
      BY <2>2, <2>3, <2>5, <3>3
    <3> QED BY <2>5, <3>1, <3>2, <3>3
  <2> QED BY <2>3, <2>5 DEF Table
<1>2. CASE UNCHANGED <<tracked, handed>>
  BY <1>2 DEF IInv, Table
<1>3. CASE ~EnqueueExceptions
  <2>1. UNCHANGED <<tracked, handed>>
    BY <1>3, LedgerSteps
    DEF ledgerVars, Record, Enqueue, EnqueueProfile, FlushBegin, FlushWritten, FlushSend,
        Landed, AnswerRead, Rejected, Refused, TimeOut, CloudAccepts, CloudRejects,
        CloudRefuses, CloudAcceptsLate
  <2> QED BY <1>2, <2>1
<1> QED BY <1>1, <1>3

-----------------------------------------------------------------------------
\* The ledger of one signature.

\* What is known of one signature's numbers.
LEMMA SigTypes ==
  ASSUME TypeOK, NEW s \in Sig
  PROVE  /\ register[s] \in Nat /\ pending[s] \in Nat /\ totals[s] \in Nat
         /\ handed[s] \in Nat /\ refused[s] \in Nat
         /\ cloud.last[s] \in Nat /\ cloud.applied[s] \in Nat
         /\ batch.exceptions[s] \in Nat /\ batch.total[s] \in Nat
         /\ \A b \in late : b.exceptions[s] \in Nat /\ b.total[s] \in Nat
<1>1. \A b \in Batch : b.exceptions[s] \in Nat /\ b.total[s] \in Nat
  BY DEF Batch, Occurrences
<1>2. batch \in Batch /\ \A b \in late : b \in Batch
  BY DEF TypeOK
<1> QED BY <1>1, <1>2 DEF TypeOK, Occurrences

\* An empty batch carries no occurrence.
LEMMA NothingCarried ==
  ASSUME NEW s \in Sig
  PROVE  NoBatch.exceptions[s] = 0 /\ NoBatch.total[s] = 0
BY DEF NoBatch, None

\* What leaves a signature's numbers alone keeps its ledger.
LEMMA SigUnchanged ==
  ASSUME NEW s \in Sig, SigLedger(s), InFlight' = InFlight,
         UNCHANGED <<pending, totals, tracked, batch, answer, late, cloud, handed, refused>>
  PROVE  SigLedger(s)'
BY DEF SigLedger, Marks, Kept, Ledger, OnItsWay, Overtaken, Settled

\* Exceptions queued move from the register to what is pending.
LEMMA SigEnqueue ==
  ASSUME IInv, NEW s \in Sig, EnqueueExceptions
  PROVE  SigLedger(s)'
<1> DEFINE taken == {t \in Sig : register[t] > 0}
           r     == register[s]
<1>1. PICK admitted \in SUBSET taken, new \in SUBSET taken :
        /\ Fills(new, taken \ tracked, tracked, MaxRunningTotals)
        /\ Admit(admitted, new)
  BY DEF EnqueueExceptions
<1> DEFINE out == IF s \in Pending \cup admitted THEN 0 ELSE r
<1>2. /\ handed'[s] = handed[s] + r /\ refused'[s] = refused[s] + out
      /\ pending'[s] = pending[s] + r - out
      /\ tracked' = tracked \cup new
      /\ totals'[s] = totals[s] + IF s \in tracked' THEN r ELSE 0
  BY <1>1 DEF Admit, IInv, TypeOK, Plus, Occurrences
<1>3. UNCHANGED <<batch, answer, late, cloud, phase>>
  BY DEF EnqueueExceptions
<1>4. s \in new => handed[s] = 0
  <2>1. new \in SUBSET (Sig \ tracked) /\ Cardinality(tracked \cup new) <= MaxRunningTotals
    BY <1>1 DEF Fills
  <2> QED BY <2>1, NewlyTrackedIsNew DEF IInv
<1>5. Marks(s) /\ Kept(s) /\ (s \in tracked => Ledger(s))
  BY DEF IInv, SigLedger
<1>6. (out = 0 \/ out = r) /\ (out > 0 => pending[s] = 0)
  BY SigTypes DEF IInv, Pending
<1>7. r \in Nat /\ out \in Nat
  BY SigTypes DEF IInv
<1> HIDE DEF r, out, taken
<1>8. Marks(s)'
  <2>t. TypeOK
    BY DEF IInv
  <2>1. /\ batch.exceptions[s] <= pending'[s] /\ pending'[s] <= handed'[s]
        /\ cloud.last[s] <= handed'[s]
        /\ s \in tracked' => totals'[s] = handed'[s]
        /\ s \notin tracked' => totals'[s] = 0 /\ cloud.last[s] = 0
        /\ handed'[s] = 0 => cloud.applied[s] = 0 /\ refused'[s] = 0
    <3>t. /\ pending[s] \in Nat /\ handed[s] \in Nat /\ totals[s] \in Nat
          /\ refused[s] \in Nat /\ cloud.last[s] \in Nat /\ batch.exceptions[s] \in Nat
      BY <2>t, SigTypes
    <3>1. /\ batch.exceptions[s] <= pending'[s] /\ pending'[s] <= handed'[s]
          /\ cloud.last[s] <= handed'[s]
      BY <1>2, <1>5, <1>6, <1>7, <3>t DEF Marks
    <3>2. handed'[s] = 0 => cloud.applied[s] = 0 /\ refused'[s] = 0
      <4>1. handed'[s] = 0 => handed[s] = 0 /\ out = 0
        BY <1>2, <1>6, <1>7, <3>t
      <4>2. handed[s] = 0 => cloud.applied[s] = 0 /\ refused[s] = 0
        BY <1>5 DEF Marks
      <4> QED BY <1>2, <4>1, <4>2
    <3>3. s \in tracked' => totals'[s] = handed'[s]
      BY <1>2, <1>4, <1>5, <1>7, <3>t DEF Marks
    <3>4. s \notin tracked' => totals'[s] = 0 /\ cloud.last[s] = 0
      BY <1>2, <1>5, <1>7, <3>t DEF Marks
    <3> QED BY <3>1, <3>2, <3>3, <3>4
  <2>2. ASSUME NEW b, b.exceptions[s] \in Nat, b.total[s] \in Nat, OnItsWay(b, s)
        PROVE  /\ b.total[s] <= handed'[s]
               /\ handed'[s] = 0 => b.exceptions[s] = 0
               /\ b.total[s] > 0 <=> (s \in tracked' /\ b.exceptions[s] > 0)
    BY <1>2, <1>4, <1>7, <2>t, <2>2, SigTypes DEF OnItsWay
  <2>3. OnItsWay(batch, s)'
    BY <1>3, <1>5, <2>2, <2>t, SigTypes DEF Marks, OnItsWay
  <2>4. \A b \in late : OnItsWay(b, s)'
    BY <1>5, <2>2, <2>t, SigTypes DEF Marks, OnItsWay
  <2> QED BY <1>3, <2>1, <2>3, <2>4 DEF Marks
<1>9. Kept(s)'
  BY <1>2, <1>3, <1>5, <1>6, <1>7, SigTypes DEF IInv, Kept
<1>10. ASSUME s \in tracked
       PROVE  Ledger(s)'
  <2>1. Settled(s)' = Settled(s) + out
    BY <1>2, <1>6, <1>7, SigTypes DEF IInv, Settled
  <2>2. out > 0 => Settled(s) = handed[s] /\ cloud.last[s] <= handed[s]
    BY <1>5, <1>6, SigTypes DEF IInv, Settled, Marks
  <2>3. cloud'.applied[s] + refused'[s] =
          IF cloud'.last[s] > Settled(s)' THEN cloud'.last[s] ELSE Settled(s)'
    BY <1>2, <1>3, <1>5, <1>7, <1>10, <2>1, <2>2, SigTypes DEF IInv, Ledger, Settled
  <2>4. batch'.exceptions[s] > 0 =>
          /\ batch'.total[s] - batch'.exceptions[s] = Settled(s)'
          /\ answer' = "accepted" => batch'.total[s] <= cloud'.last[s]
    BY <1>3, <1>5, <1>6, <1>7, <1>10, <2>1, SigTypes DEF IInv, Ledger, Marks, Settled
  <2>5. ASSUME NEW b \in late
        PROVE  Overtaken(b, s)'
    <3>1. CASE out = 0
      BY <1>3, <1>5, <1>10, <2>1, <3>1, SigTypes DEF IInv, Ledger, Overtaken, InFlight, Settled
    <3>2. CASE out > 0
      <4>1. b.total[s] <= handed[s] /\ (b.total[s] > 0 <=> b.exceptions[s] > 0)
        BY <1>5, <1>10 DEF Marks, OnItsWay
      <4>2. b.total[s] <= cloud.last[s]
        BY <1>5, <1>10, <2>2, <3>2, <4>1, SigTypes DEF IInv, Ledger, Overtaken
      <4> QED BY <1>3, <4>2 DEF Overtaken
    <3> QED BY <1>7, <3>1, <3>2
  <2> QED BY <1>3, <2>3, <2>4, <2>5 DEF Ledger
<1>11. ASSUME s \notin tracked, s \in new
       PROVE  Ledger(s)'
  <2>1. /\ handed[s] = 0 /\ pending[s] = 0 /\ refused[s] = 0
        /\ cloud.applied[s] = 0 /\ cloud.last[s] = 0 /\ batch.exceptions[s] = 0
    BY <1>4, <1>5, <1>11, SigTypes DEF IInv, Marks
  <2>2. Settled(s)' = out
    BY <1>2, <1>7, <2>1 DEF Settled
  <2>3. \A b \in late : b.total[s] <= cloud.last[s]
    BY <1>5, <2>1, SigTypes DEF IInv, Marks, OnItsWay
  <2> QED BY <1>2, <1>3, <1>7, <2>1, <2>2, <2>3 DEF Ledger, Overtaken
<1> QED BY <1>2, <1>8, <1>9, <1>10, <1>11 DEF SigLedger

\* A flush that begins takes what is pending into its batch.
LEMMA SigBegin ==
  ASSUME IInv, NEW s \in Sig, FlushBegin
  PROVE  SigLedger(s)'
<1>1. answer = "none" /\ InFlight'
  BY DEF FlushBegin, IInv, Flight, InFlight
<1>2. /\ batch'.exceptions[s] = pending[s]
      /\ batch'.total[s] = IF s \in tracked /\ pending[s] > 0 THEN totals[s] ELSE 0
  BY DEF FlushBegin, Assemble
<1>3. UNCHANGED <<pending, totals, tracked, answer, late, cloud, handed, refused>>
  BY DEF FlushBegin
<1>4. Marks(s) /\ Kept(s) /\ (s \in tracked => Ledger(s))
  BY DEF IInv, SigLedger
<1>5. Marks(s)'
  BY <1>2, <1>3, <1>4, SigTypes DEF IInv, Marks, OnItsWay
<1>6. Kept(s)'
  BY <1>1, <1>3, <1>4 DEF Kept
<1>7. ASSUME s \in tracked
      PROVE  Ledger(s)'
  <2>1. ASSUME NEW b \in late
        PROVE  b.total[s] <= cloud.last[s] \/ b.total[s] <= batch'.total[s]
    <3>1. CASE pending[s] > 0
      BY <1>2, <1>4, <1>7, <3>1 DEF Marks, OnItsWay
    <3>2. CASE pending[s] = 0
      <4>1. /\ b.total[s] <= handed[s] /\ (b.total[s] > 0 => b.exceptions[s] > 0)
            /\ b.total[s] \in Nat /\ b.exceptions[s] \in Nat /\ handed[s] \in Nat
        BY <1>4, SigTypes DEF IInv, Marks, OnItsWay
      <4>2. \/ b.total[s] <= cloud.last[s]
            \/ b.total[s] - b.exceptions[s] = handed[s] - pending[s]
        BY <1>4, <1>7 DEF Ledger, Overtaken, Settled
      <4>3. cloud.last[s] \in Nat
        BY SigTypes DEF IInv
      <4> QED BY <3>2, <4>1, <4>2, <4>3
    <3> QED BY <3>1, <3>2, SigTypes DEF IInv
  <2>2. \A b \in late : Overtaken(b, s)'
    BY <1>3, <1>4, <1>7, <2>1 DEF Ledger, Overtaken, Settled
  <2> QED BY <1>1, <1>2, <1>3, <1>4, <1>7, <2>2, SigTypes DEF IInv, Marks, Ledger, Settled
<1> QED BY <1>3, <1>5, <1>6, <1>7 DEF SigLedger

\* The batch leaves the sender's hands without a landing.
LEMMA SigGivenUp ==
  ASSUME IInv, NEW s \in Sig,
         batch' = NoBatch, answer' = "none", ~InFlight',
         UNCHANGED <<pending, totals, tracked, cloud, handed, refused>>,
         late' = late \/ (late' = late \cup {batch})
  PROVE  SigLedger(s)'
<1> USE NothingCarried, SigTypes DEF IInv
<1>1. Marks(s) /\ Kept(s) /\ (s \in tracked => Ledger(s))
  BY DEF SigLedger
<1>2. Marks(s)'
  BY <1>1 DEF Marks, OnItsWay
<1>3. Kept(s)'
  BY <1>1 DEF Kept
<1>4. ASSUME s \in tracked
      PROVE  Ledger(s)'
  <2>1. Overtaken(batch, s)' \/ batch'.exceptions[s] = 0
    OBVIOUS
  <2>2. batch.total[s] <= cloud.last[s] \/ batch.total[s] - batch.exceptions[s] = Settled(s)
    BY <1>1, <1>4 DEF Marks, OnItsWay, Ledger, Settled
  <2>3. \A b \in late' : b.total[s] <= cloud.last[s] \/ b.total[s] - b.exceptions[s] = Settled(s)
    BY <1>1, <1>4, <2>2 DEF Ledger, Overtaken
  <2>4. \A b \in late' : Overtaken(b, s)'
    BY <2>3 DEF Overtaken, Settled
  <2> QED BY <1>1, <1>4, <2>4 DEF Ledger, Settled
<1> QED BY <1>2, <1>3, <1>4 DEF SigLedger

\* An answer that landed settles what its batch carried.
LEMMA SigLanded ==
  ASSUME IInv, NEW s \in Sig, Landed
  PROVE  SigLedger(s)'
<1>t. TypeOK
  BY DEF IInv
<1>1. Marks(s) /\ Kept(s) /\ (s \in tracked => Ledger(s))
  BY DEF IInv, SigLedger
<1>2. answer = "accepted" /\ InFlight /\ answer' = "none" /\ ~InFlight'
  BY DEF Landed, Answered, InFlight
<1>3. UNCHANGED <<totals, tracked, cloud, late, handed, refused>> /\ batch' = NoBatch
  BY DEF Landed
<1>4. pending'[s] = pending[s] - batch.exceptions[s]
  BY <1>t DEF Landed, Minus, TypeOK, Occurrences
<1>5. Marks(s)'
  BY <1>1, <1>3, <1>4, <1>t, NothingCarried, SigTypes DEF Marks, OnItsWay
<1>6. Kept(s)'
  BY <1>1, <1>2, <1>3, <1>4, <1>t, SigTypes DEF Kept
<1>7. ASSUME s \in tracked
      PROVE  Ledger(s)'
  <2>1. Settled(s)' = Settled(s) + batch.exceptions[s]
    BY <1>3, <1>4, <1>t, SigTypes DEF Settled
  <2>2. batch.exceptions[s] > 0 =>
          Settled(s)' = batch.total[s] /\ batch.total[s] <= cloud.last[s]
    BY <1>1, <1>2, <1>7, <1>t, <2>1, SigTypes DEF Ledger
  <2>3. cloud.applied[s] + refused[s] =
          IF cloud.last[s] > Settled(s)' THEN cloud.last[s] ELSE Settled(s)'
    BY <1>1, <1>7, <1>t, <2>1, <2>2, SigTypes DEF Ledger, Settled
  <2>4. ASSUME NEW b \in late
        PROVE  Overtaken(b, s)'
    BY <1>1, <1>2, <1>3, <1>7, <1>t, <2>1, <2>2, SigTypes
    DEF Ledger, Marks, OnItsWay, Overtaken, Settled
  <2> QED BY <1>3, <2>3, <2>4, NothingCarried DEF Ledger
<1> QED BY <1>3, <1>5, <1>6, <1>7 DEF SigLedger

\* What a delivery of a batch on its way does to the two marks.
LEMMA SigApplied ==
  ASSUME IInv, NEW s \in Sig, NEW b \in Batch, Apply(b), OnItsWay(b, s),
         UNCHANGED <<pending, totals, tracked, handed, refused>>,
         s \in tracked /\ b.exceptions[s] > 0 => Overtaken(b, s)
  PROVE  /\ cloud'.last[s] \in Nat /\ cloud'.last[s] >= cloud.last[s]
         /\ cloud'.last[s] >= b.total[s] /\ cloud'.last[s] <= handed[s]
         /\ cloud'.applied[s] \in Nat /\ cloud'.applied[s] >= cloud.applied[s]
         /\ s \notin tracked =>
              cloud'.last[s] = 0 /\ cloud'.applied[s] = cloud.applied[s] + b.exceptions[s]
         /\ handed[s] = 0 => cloud'.applied[s] = 0
         /\ s \in tracked =>
              cloud'.applied[s] + refused[s] =
                IF cloud'.last[s] > Settled(s) THEN cloud'.last[s] ELSE Settled(s)
<1> DEFINE last == cloud.last[s]
           T    == b.total[s]
           n    == b.exceptions[s]
<1>t. /\ TypeOK /\ last \in Nat /\ T \in Nat /\ n \in Nat
      /\ cloud.applied[s] \in Nat /\ handed[s] \in Nat /\ refused[s] \in Nat
      /\ pending[s] \in Nat
  BY SigTypes DEF IInv, Batch, Occurrences
<1>1. Marks(s) /\ (s \in tracked => Ledger(s))
  BY DEF IInv, SigLedger
<1>2. /\ cloud'.last[s] = IF T > last THEN T ELSE last
      /\ cloud'.applied[s] = cloud.applied[s] + Adds(last, n, T)
  BY DEF Apply
<1>3. Adds(last, n, T) \in Nat
  BY <1>t DEF Adds
<1>4. T <= handed[s] /\ (handed[s] = 0 => n = 0) /\ (T > 0 <=> (s \in tracked /\ n > 0))
  BY DEF OnItsWay
<1>5. ASSUME s \in tracked
      PROVE  cloud'.applied[s] + refused[s] =
               IF cloud'.last[s] > Settled(s) THEN cloud'.last[s] ELSE Settled(s)
  <2>0. Settled(s) \in Int
    BY <1>t DEF Settled
  <2>1. cloud.applied[s] + refused[s] = IF last > Settled(s) THEN last ELSE Settled(s)
    BY <1>1, <1>5 DEF Ledger
  <2>2. CASE T <= last
    <3>1. Adds(last, n, T) = 0
      <4>1. CASE T = 0
        BY <1>4, <1>5, <1>t, <4>1 DEF Adds
      <4>2. CASE T # 0
        BY <1>t, <2>2, <4>2 DEF Adds
      <4> QED BY <4>1, <4>2
    <3> QED BY <1>2, <1>t, <2>0, <2>1, <2>2, <3>1
  <2>3. CASE T > last
    <3>1. T - n = Settled(s)
      BY <1>4, <1>5, <1>t, <2>3 DEF Overtaken
    <3> QED BY <1>2, <1>t, <2>0, <2>1, <2>3, <3>1 DEF Adds
  <2> QED BY <1>t, <2>2, <2>3
<1>6. ASSUME s \notin tracked
      PROVE  T = 0 /\ last = 0 /\ Adds(last, n, T) = n
  BY <1>1, <1>4, <1>6, <1>t DEF Marks, Adds
<1>7. handed[s] = 0 => cloud'.applied[s] = 0
  BY <1>1, <1>2, <1>4, <1>t DEF Marks, Adds
<1>8. last <= handed[s]
  BY <1>1 DEF Marks
<1> QED BY <1>2, <1>3, <1>4, <1>5, <1>6, <1>7, <1>8, <1>t

\* A batch accepted in time is counted once.
LEMMA SigAccepted ==
  ASSUME IInv, NEW s \in Sig, CloudAccepts
  PROVE  SigLedger(s)'
<1>t. TypeOK
  BY DEF IInv
<1>1. Marks(s) /\ Kept(s) /\ (s \in tracked => Ledger(s))
  BY DEF IInv, SigLedger
<1>2. /\ answer = "none" /\ answer' = "accepted" /\ Apply(batch) /\ phase' = phase
      /\ UNCHANGED <<pending, totals, tracked, batch, late, handed, refused>>
  BY DEF CloudAccepts, Unanswered
<1>3. s \in tracked /\ batch.exceptions[s] > 0 => Overtaken(batch, s)
  BY <1>1, <1>t, SigTypes DEF Ledger, Overtaken
<1>4. /\ cloud'.last[s] \in Nat /\ cloud'.last[s] >= cloud.last[s]
      /\ cloud'.last[s] >= batch.total[s] /\ cloud'.last[s] <= handed[s]
      /\ cloud'.applied[s] \in Nat /\ cloud'.applied[s] >= cloud.applied[s]
      /\ s \notin tracked =>
           cloud'.last[s] = 0 /\ cloud'.applied[s] = cloud.applied[s] + batch.exceptions[s]
      /\ handed[s] = 0 => cloud'.applied[s] = 0
      /\ s \in tracked =>
           cloud'.applied[s] + refused[s] =
             IF cloud'.last[s] > Settled(s) THEN cloud'.last[s] ELSE Settled(s)
  <2>1. batch \in Batch /\ OnItsWay(batch, s)
    BY <1>1, <1>t DEF Marks, TypeOK
  <2> QED BY <1>2, <1>3, <2>1, SigApplied
<1>5. Marks(s)'
  BY <1>1, <1>2, <1>4 DEF Marks, OnItsWay
<1>6. Kept(s)'
  <2>1. CASE s \in tracked
    <3>1. cloud'.applied[s] + refused[s] >= Settled(s) + batch.exceptions[s]
      <4>1. batch.exceptions[s] > 0 => batch.total[s] = Settled(s) + batch.exceptions[s]
        BY <1>1, <1>t, <2>1, SigTypes DEF Ledger, Settled
      <4> QED BY <1>4, <1>t, <2>1, <4>1, SigTypes DEF Settled
    <3> QED BY <1>2, <1>4, <1>t, <3>1, SigTypes DEF Kept, Settled
  <2>2. CASE s \notin tracked
    BY <1>1, <1>2, <1>4, <1>t, <2>2, SigTypes DEF Kept
  <2> QED BY <2>1, <2>2
<1>7. ASSUME s \in tracked
      PROVE  Ledger(s)'
  <2>1. ASSUME NEW b \in late
        PROVE  Overtaken(b, s)'
    BY <1>1, <1>2, <1>4, <1>7, <1>t, SigTypes DEF Ledger, Overtaken, Settled, InFlight
  <2> QED BY <1>1, <1>2, <1>4, <1>7, <2>1 DEF Ledger, Settled
<1> QED BY <1>2, <1>5, <1>6, <1>7 DEF SigLedger

\* A batch accepted after the process gave it up is counted at most once.
LEMMA SigAcceptedLate ==
  ASSUME IInv, NEW s \in Sig, NEW b \in late, CloudAcceptsLate(b)
  PROVE  SigLedger(s)'
<1>t. TypeOK
  BY DEF IInv
<1>1. Marks(s) /\ Kept(s) /\ (s \in tracked => Ledger(s))
  BY DEF IInv, SigLedger
<1>2. /\ Apply(b) /\ late' \in SUBSET late
      /\ UNCHANGED <<phase, answer, pending, totals, tracked, batch, handed, refused>>
  BY DEF CloudAcceptsLate
<1>3. b \in Batch /\ OnItsWay(b, s) /\ (s \in tracked => Overtaken(b, s))
  BY <1>1, <1>t DEF Marks, Ledger, TypeOK
<1>4. /\ cloud'.last[s] \in Nat /\ cloud'.last[s] >= cloud.last[s]
      /\ cloud'.last[s] <= handed[s]
      /\ cloud'.applied[s] \in Nat /\ cloud'.applied[s] >= cloud.applied[s]
      /\ s \notin tracked => cloud'.last[s] = 0
      /\ handed[s] = 0 => cloud'.applied[s] = 0
      /\ s \in tracked =>
           cloud'.applied[s] + refused[s] =
             IF cloud'.last[s] > Settled(s) THEN cloud'.last[s] ELSE Settled(s)
  BY <1>2, <1>3, SigApplied
<1>5. Marks(s)'
  BY <1>1, <1>2, <1>4 DEF Marks, OnItsWay
<1>6. Kept(s)'
  BY <1>1, <1>2, <1>4, <1>t, SigTypes DEF Kept
<1>7. ASSUME s \in tracked
      PROVE  Ledger(s)'
  <2>1. ASSUME NEW other \in late
        PROVE  Overtaken(other, s)'
    BY <1>1, <1>2, <1>4, <1>7, <1>t, SigTypes DEF Ledger, Overtaken, Settled, InFlight
  <2> QED BY <1>1, <1>2, <1>4, <1>7, <1>t, <2>1, SigTypes DEF Ledger, Settled
<1> QED BY <1>2, <1>5, <1>6, <1>7 DEF SigLedger

\* Every step keeps the ledger of every signature.
LEMMA SigStep ==
  ASSUME IInv, NEW s \in Sig, [Next]_vars
  PROVE  SigLedger(s)'
<1>1. SigLedger(s)
  BY DEF IInv
<1>2. CASE UNCHANGED ledgerVars
  BY <1>1, <1>2, SigUnchanged DEF ledgerVars, InFlight
<1>3. ASSUME NEW t \in Sig, Record(t)
      PROVE  SigLedger(s)'
  BY <1>1, <1>3, SigUnchanged DEF Record, InFlight
<1>4. CASE EnqueueExceptions
  BY <1>4, SigEnqueue
<1>5. CASE Enqueue \/ EnqueueProfile
  BY <1>1, <1>5, SigUnchanged DEF Enqueue, EnqueueProfile, InFlight
<1>6. CASE FlushBegin
  BY <1>6, SigBegin
<1>7. CASE FlushWritten
  <2>1. answer = "none"
    BY <1>7 DEF FlushWritten, IInv, Flight
  <2> QED BY <1>7, <2>1, SigGivenUp DEF FlushWritten, InFlight
<1>8. CASE FlushSend \/ AnswerRead
  BY <1>1, <1>8, SigUnchanged DEF FlushSend, AnswerRead, InFlight
<1>9. CASE Landed
  BY <1>9, SigLanded
<1>10. CASE Rejected \/ Refused \/ TimeOut
  BY <1>10, SigGivenUp DEF Rejected, Refused, TimeOut, EndFlush, InFlight
<1>11. CASE CloudAccepts
  BY <1>11, SigAccepted
<1>12. ASSUME answer = "none", answer' # "accepted",
              UNCHANGED <<pending, totals, tracked, phase, batch, late, cloud, handed, refused>>
       PROVE  SigLedger(s)'
  BY <1>1, <1>12 DEF SigLedger, Marks, Kept, Ledger, OnItsWay, Overtaken, Settled, InFlight
<1>13. CASE CloudRejects
  BY <1>12, <1>13 DEF CloudRejects, Unanswered
<1>14. ASSUME NEW a \in {"refused", "wait"}, CloudRefuses(a)
       PROVE  SigLedger(s)'
  BY <1>12, <1>14 DEF CloudRefuses, Unanswered
<1>15. ASSUME NEW b \in late, CloudAcceptsLate(b)
       PROVE  SigLedger(s)'
  BY <1>15, SigAcceptedLate
<1> QED
  BY <1>2, <1>3, <1>4, <1>5, <1>6, <1>7, <1>8, <1>9, <1>10, <1>11, <1>13, <1>14, <1>15,
     LedgerSteps

-----------------------------------------------------------------------------
\* The theorems.

\* The invariant holds at first.
LEMMA InitInv == Init => IInv
<1> SUFFICES ASSUME Init
             PROVE  IInv
  OBVIOUS
<1>1. TypeOK
  <2>1. None \in Occurrences /\ [c \in Counter |-> 0] \in [Counter -> Nat]
    BY DEF None, Occurrences
  <2>2. cloud \in [last : Occurrences, applied : Occurrences,
                   told : [Counter -> Nat], toldExceptions : Occurrences,
                   intervals : SUBSET Nat, profiles : SUBSET Nat,
                   asked : [Signal -> Nat], reported : SUBSET Capture,
                   endings : SUBSET Ending]
    BY <2>1 DEF Init
  <2>3. /\ file \in [intervals : SUBSET Nat, profiles : SUBSET Nat, endings : SUBSET Ending]
        /\ hist \in History
    BY DEF Init, History
  <2>4. endingLanded \in BOOLEAN /\ silent \in BOOLEAN /\ alive \in BOOLEAN
    BY Zenon DEF Init
  <2> QED BY <2>1, <2>2, <2>3, <2>4, NoBatchType DEF Init, TypeOK
<1>2. Flight /\ CounterLedger
  BY DEF Init, Flight, InFlight, CounterLedger, NoBatch
<1>3. LossLedger
  BY DEF Init, LossLedger, NoBatch, None
<1>4. Table
  BY FS_EmptySet, CapAssumption DEF Init, Table, None
<1>5. \A s \in Sig : SigLedger(s)
  BY DEF Init, SigLedger, Marks, Kept, Ledger, OnItsWay, Overtaken, Settled, NoBatch, None
<1> QED BY <1>1, <1>2, <1>3, <1>4, <1>5 DEF IInv

\* Every step keeps it.
LEMMA StepInv == IInv /\ [Next]_vars => IInv'
<1> SUFFICES ASSUME IInv, [Next]_vars
             PROVE  IInv'
  OBVIOUS
<1>1. TypeOK'
  BY TypeStep
<1> QED BY <1>1, FlightStep, CounterStep, LossStep, TableStep, SigStep DEF IInv

\* The sender never leaves its types: a landing never drives a counter or a pending count
\* below zero, which is what a batch landing twice, or landing more than it carried,
\* would do.
THEOREM TypeCorrect == Spec => []TypeOK
<1>1. IInv => TypeOK
  BY DEF IInv
<1> QED BY <1>1, InitInv, StepInv, PTL DEF Spec

\* IInv itself, for what is proved from it elsewhere.
THEOREM Inductive == Spec => []IInv
BY InitInv, StepInv, PTL DEF Spec

\* The cloud counts no occurrence twice that the sender keeps a total for.
THEOREM NeverTwice == Spec => []CountedAtMostOnce
<1>1. IInv => CountedAtMostOnce
  <2> SUFFICES ASSUME IInv, NEW s \in tracked
               PROVE  cloud.applied[s] + refused[s] <= handed[s]
    BY DEF CountedAtMostOnce
  <2>1. s \in Sig /\ Marks(s) /\ Ledger(s) /\ TypeOK
    BY DEF IInv, TypeOK, SigLedger
  <2> QED BY <2>1, SigTypes DEF Marks, Ledger, Settled
<1> QED BY <1>1, InitInv, StepInv, PTL DEF Spec

\* No occurrence handed over vanishes.
THEOREM NoneVanishes == Spec => []NoOccurrenceVanishes
<1>1. IInv => NoOccurrenceVanishes
  <2> SUFFICES ASSUME IInv, NEW s \in Sig
               PROVE  handed[s] <= cloud.applied[s] + refused[s] + pending[s]
    BY DEF NoOccurrenceVanishes
  <2>1. Kept(s) /\ TypeOK
    BY DEF IInv, SigLedger
  <2> QED BY <2>1, SigTypes DEF Kept
<1> QED BY <1>1, InitInv, StepInv, PTL DEF Spec

\* Every loss before the hand-over or at the cap is told, or is still to tell.
THEOREM LossesAreSaid == Spec => []LossIsSaid
<1>1. IInv => LossIsSaid
  <2> SUFFICES ASSUME IInv, NEW s \in Sig
               PROVE  lost[s] <= cloud.toldExceptions[s] + sinceExceptions[s]
                                 + registerDropped[s]
    BY DEF LossIsSaid
  <2>1. LossLedger /\ TypeOK
    BY DEF IInv
  <2> QED BY <2>1 DEF LossLedger, TypeOK, Batch, Occurrences
<1> QED BY <1>1, InitInv, StepInv, PTL DEF Spec

\* And so is every dropped, failed or rejected batch.
THEOREM CountersAreSaid == Spec => []CountersNeverLieDownwards
<1>1. IInv => CountersNeverLieDownwards
  <2> SUFFICES ASSUME IInv, NEW c \in Counter
               PROVE  stats[c] <= cloud.told[c] + since[c]
    BY DEF CountersNeverLieDownwards
  <2>1. CounterLedger /\ TypeOK
    BY DEF IInv
  <2> QED BY <2>1 DEF CounterLedger, TypeOK, Batch
<1> QED BY <1>1, InitInv, StepInv, PTL DEF Spec

-----------------------------------------------------------------------------
(* What the sender holds besides exceptions: the intervals, the profiles,  *)
(* the asks, the reports and the ending it declared, and the file that     *)
(* takes the cloud's place under `check`.                                  *)
(*                                                                         *)
(* Each is held until a batch that carried it landed.  Between the cloud's *)
(* acceptance and the landing both sides have it, so the argument is about *)
(* the batch in flight: what it carries is still held, and once accepted   *)
(* it is at the cloud, so taking it off loses nothing.                     *)

\* What the batch in flight carries is still held, and at the cloud once it was accepted.
Carried ==
  /\ batch.asks \subseteq asks
  /\ answer = "accepted" =>
       /\ batch.intervals \subseteq cloud.intervals
       /\ batch.profile \subseteq cloud.profiles
       /\ batch.reports \subseteq cloud.reported
       /\ batch.ending \in {NoEnding} \cup cloud.endings
       /\ \A g \in batch.asks : hist.asked[g] <= cloud.asked[g]

\* The first ending declared stays, so every batch and every write says that one or none.
EndingStays ==
  /\ cloud.endings \cup file.endings \subseteq {ending}
  /\ batch.ending \in {NoEnding, ending}
  /\ \A b \in late : b.ending \in {NoEnding, ending}

\* While the process lives, a batch begun since the ending was declared says it; and one that is
\* taken for said was, unless a batch was on its way as it was declared.
EndingSaid ==
  /\ alive /\ InFlight /\ ending # NoEnding /\ ~hist.overtaken => batch.ending = ending
  /\ endingLanded /\ ~hist.overtaken => ending \in cloud.endings \cup file.endings
  /\ hist.overtaken => ending # NoEnding

\* Without a cloud nothing is sent, now or late.
NothingSent ==
  Local => phase # "sending" /\ late = {} /\ cloud.intervals = {} /\ cloud.profiles = {}

\* An exit leaves nothing queued but the profiles after the first that was held, and nothing
\* runs after it.
Emptied ==
  hist.exited /\ Local =>
    ~alive /\ queue = {} /\ profiles \subseteq hist.leaving \ Oldest(hist.leaving)

HeldInv ==
  /\ NoIntervalVanishes /\ NoProfileVanishes /\ NoAskVanishes /\ ReportedMeansHeard
  /\ CheckpointWritten /\ Carried /\ EndingStays /\ EndingSaid /\ NothingSent /\ Emptied

-----------------------------------------------------------------------------
\* The state these read, and the steps that touch it.

heldVars ==
  <<queue, profiles, asks, ending, endingLanded, phase, batch, answer, alive, late, cloud, file,
    hist>>

USE DEF procVars, listVars, endVars, countVars, flushVars, outVars, ledger, histVars

\* The steps that move what is held.
LEMMA HeldSteps ==
  ASSUME [Next]_vars
  PROVE  \/ UNCHANGED heldVars
         \/ Enqueue \/ EnqueueProfile
         \/ \E g \in Signal : EnqueueTrigger(g)
         \/ \E e \in Ending : DeclareEnding(e)
         \/ FlushBegin \/ FlushWritten \/ FlushSend
         \/ Landed \/ AnswerRead \/ Rejected \/ Refused \/ TimeOut
         \/ WriteHeld \/ (\E e \in Ending : DumpOnExit(e)) \/ Killed
         \/ CloudAccepts \/ CloudRejects
         \/ \E a \in {"refused", "wait"} : CloudRefuses(a)
         \/ \E b \in late : CloudAcceptsLate(b)
<1>1. ASSUME NEW s \in Sig, Record(s)
      PROVE  UNCHANGED heldVars
  BY <1>1 DEF Record, heldVars
<1>2. CASE EnqueueExceptions
  BY <1>2 DEF EnqueueExceptions, heldVars
<1>3. ASSUME NEW reports \in SUBSET Capture, EnqueueCaptures(reports)
      PROVE  UNCHANGED heldVars
  BY <1>3 DEF EnqueueCaptures, heldVars
<1>4. CASE SilenceEnds
  BY <1>4 DEF SilenceEnds, heldVars
<1>5. CASE UNCHANGED vars
  BY <1>5 DEF vars, heldVars
<1> QED
  BY <1>1, <1>2, <1>3, <1>4, <1>5 DEF Next, Process, Flush, Answer, WayOut, Cloud

\* The parts of the records the proofs read.
LEMMA HeldTypes ==
  ASSUME TypeOK
  PROVE  /\ queue \in SUBSET Nat /\ hist.made \in Nat
         /\ profiles \in SUBSET Nat /\ hist.profiles \in Nat
         /\ batch.intervals \in SUBSET Nat /\ batch.profile \in SUBSET Nat
         /\ hist = [made |-> hist.made, profiles |-> hist.profiles, asked |-> hist.asked,
                    discarded |-> hist.discarded, discardedProfiles |-> hist.discardedProfiles,
                    said |-> hist.said, checkpoint |-> hist.checkpoint,
                    leaving |-> hist.leaving, overtaken |-> hist.overtaken,
                    exited |-> hist.exited]
         /\ file = [intervals |-> file.intervals, profiles |-> file.profiles,
                    endings |-> file.endings]
         /\ hist.asked \in [Signal -> Nat] /\ cloud.asked \in [Signal -> Nat]
         /\ batch.asks \in SUBSET Signal
         /\ cloud.endings \in SUBSET Ending /\ file.endings \in SUBSET Ending
BY DEF TypeOK, Batch, History

\* An empty batch holds nothing.
LEMMA NothingHeld ==
  /\ NoBatch.asks = {} /\ NoBatch.intervals = {} /\ NoBatch.ending = NoEnding
  /\ NoBatch.profile = {} /\ NoBatch.reports = {}
BY DEF NoBatch

-----------------------------------------------------------------------------
\* The intervals.

\* writeNow puts in the file every interval it takes off the queue.
LEMMA Written ==
  ASSUME NEW e, WriteNow(e)
  PROVE  /\ queue' = {}
         /\ file'.intervals = file.intervals \cup queue
         /\ profiles' = profiles \ Oldest(profiles)
         /\ file'.profiles = file.profiles \cup Oldest(profiles)
         /\ file'.endings = file.endings \cup ({e} \ {NoEnding})
BY DEF WriteNow, Assemble

\* No interval vanishes.
LEMMA IntervalStep ==
  ASSUME IInv, HeldInv, [Next]_vars
  PROVE  NoIntervalVanishes'
<1> USE DEF NoIntervalVanishes
<1>t. TypeOK
  BY DEF IInv
<1>h. 1 .. hist.made \subseteq queue \cup cloud.intervals \cup file.intervals \cup hist.discarded
  BY DEF HeldInv
<1>1. CASE UNCHANGED heldVars
  BY <1>1, <1>h DEF heldVars
<1>2. CASE Enqueue
  <2>1. /\ hist'.made = hist.made + 1
        /\ hist'.discarded = hist.discarded \cup (queue \ queue')
        /\ hist.made + 1 \in queue'
        /\ UNCHANGED <<cloud, file>>
    BY <1>2, <1>t, HeldTypes DEF Enqueue, Bounded
  <2>2. 1 .. hist'.made = (1 .. hist.made) \cup {hist.made + 1}
    BY <2>1, <1>t, HeldTypes
  <2> QED BY <2>1, <2>2, <1>h
<1>3. CASE EnqueueProfile
  BY <1>3, <1>h, <1>t, HeldTypes DEF EnqueueProfile
<1>4. ASSUME NEW g \in Signal, EnqueueTrigger(g)
      PROVE  NoIntervalVanishes'
  BY <1>4, <1>h, <1>t, HeldTypes DEF EnqueueTrigger
<1>5. ASSUME NEW e \in Ending, DeclareEnding(e)
      PROVE  NoIntervalVanishes'
  BY <1>5, <1>h, <1>t, HeldTypes DEF DeclareEnding
<1>6. CASE FlushWritten
  BY <1>6, <1>h DEF FlushWritten, TakeOffCarried, Without
<1>7. CASE Landed
  BY <1>7, <1>h, <1>t, HeldTypes DEF Landed, Answered, TakeOffCarried, Without, HeldInv, Carried
<1>8. CASE Rejected
  BY <1>8, <1>h, <1>t, HeldTypes DEF Rejected, TakeOffCarried, Without
<1>9. CASE FlushBegin \/ FlushSend \/ AnswerRead \/ Refused \/ TimeOut \/ Killed \/ CloudRejects
  BY <1>9, <1>h DEF FlushBegin, FlushSend, AnswerRead, Refused, TimeOut, Killed, CloudRejects
<1>10. CASE WriteHeld
  <2>1. WriteNow(ending) /\ hist'.made = hist.made /\ hist'.discarded = hist.discarded
        /\ UNCHANGED cloud
    BY <1>10, <1>t, HeldTypes DEF WriteHeld
  <2> QED BY <2>1, <1>h, Written
<1>11. ASSUME NEW e \in Ending, DumpOnExit(e)
       PROVE  NoIntervalVanishes'
  <2>1. hist'.made = hist.made /\ hist'.discarded = hist.discarded /\ UNCHANGED cloud
    BY <1>11, <1>t, HeldTypes DEF DumpOnExit
  <2>2. CASE UNCHANGED <<queue, file>>
    BY <2>1, <2>2, <1>h
  <2>3. CASE \E f : WriteNow(f)
    BY <2>1, <2>3, <1>h, Written
  <2> QED BY <1>11, <2>2, <2>3 DEF DumpOnExit
<1>12. ASSUME NEW b, Apply(b), UNCHANGED <<queue, file, hist>>
       PROVE  NoIntervalVanishes'
  BY <1>12, <1>h DEF Apply
<1>13. CASE CloudAccepts
  BY <1>12, <1>13 DEF CloudAccepts
<1>14. ASSUME NEW a \in {"refused", "wait"}, CloudRefuses(a)
       PROVE  NoIntervalVanishes'
  BY <1>14, <1>h DEF CloudRefuses
<1>15. ASSUME NEW b \in late, CloudAcceptsLate(b)
       PROVE  NoIntervalVanishes'
  BY <1>12, <1>15 DEF CloudAcceptsLate
<1> QED
  BY <1>1, <1>2, <1>3, <1>4, <1>5, <1>6, <1>7, <1>8, <1>9, <1>10, <1>11, <1>13, <1>14, <1>15,
     HeldSteps

-----------------------------------------------------------------------------
\* The profiles.

\* No profile vanishes.
LEMMA ProfileStep ==
  ASSUME IInv, HeldInv, [Next]_vars
  PROVE  NoProfileVanishes'
<1> USE DEF NoProfileVanishes
<1>t. TypeOK
  BY DEF IInv
<1>h. 1 .. hist.profiles \subseteq profiles \cup cloud.profiles \cup file.profiles \cup hist.discardedProfiles
  BY DEF HeldInv
<1>1. CASE UNCHANGED heldVars
  BY <1>1, <1>h DEF heldVars
<1>2. CASE EnqueueProfile
  <2>1. /\ hist'.profiles = hist.profiles + 1
        /\ hist'.discardedProfiles = hist.discardedProfiles \cup (profiles \ profiles')
        /\ hist.profiles + 1 \in profiles'
        /\ UNCHANGED <<cloud, file>>
    BY <1>2, <1>t, HeldTypes DEF EnqueueProfile, Bounded
  <2>2. 1 .. hist'.profiles = (1 .. hist.profiles) \cup {hist.profiles + 1}
    BY <2>1, <1>t, HeldTypes
  <2> QED BY <2>1, <2>2, <1>h
<1>3. CASE Enqueue
  BY <1>3, <1>h, <1>t, HeldTypes DEF Enqueue
<1>4. ASSUME NEW g \in Signal, EnqueueTrigger(g)
      PROVE  NoProfileVanishes'
  BY <1>4, <1>h, <1>t, HeldTypes DEF EnqueueTrigger
<1>5. ASSUME NEW e \in Ending, DeclareEnding(e)
      PROVE  NoProfileVanishes'
  BY <1>5, <1>h, <1>t, HeldTypes DEF DeclareEnding
<1>6. CASE FlushWritten
  BY <1>6, <1>h DEF FlushWritten, TakeOffCarried, Without
<1>7. CASE Landed
  BY <1>7, <1>h, <1>t, HeldTypes DEF Landed, Answered, TakeOffCarried, Without, HeldInv, Carried
<1>8. CASE Rejected
  BY <1>8, <1>h, <1>t, HeldTypes DEF Rejected, TakeOffCarried, Without
<1>9. CASE FlushBegin \/ FlushSend \/ AnswerRead \/ Refused \/ TimeOut \/ Killed \/ CloudRejects
  BY <1>9, <1>h DEF FlushBegin, FlushSend, AnswerRead, Refused, TimeOut, Killed, CloudRejects
<1>10. CASE WriteHeld
  <2>1. WriteNow(ending) /\ hist'.profiles = hist.profiles /\ hist'.discardedProfiles = hist.discardedProfiles
        /\ UNCHANGED cloud
    BY <1>10, <1>t, HeldTypes DEF WriteHeld
  <2> QED BY <2>1, <1>h, Written
<1>11. ASSUME NEW e \in Ending, DumpOnExit(e)
       PROVE  NoProfileVanishes'
  <2>1. hist'.profiles = hist.profiles /\ hist'.discardedProfiles = hist.discardedProfiles /\ UNCHANGED cloud
    BY <1>11, <1>t, HeldTypes DEF DumpOnExit
  <2>2. CASE UNCHANGED <<profiles, file>>
    BY <2>1, <2>2, <1>h
  <2>3. CASE \E f : WriteNow(f)
    BY <2>1, <2>3, <1>h, Written
  <2> QED BY <1>11, <2>2, <2>3 DEF DumpOnExit
<1>12. ASSUME NEW b, Apply(b), UNCHANGED <<profiles, file, hist>>
       PROVE  NoProfileVanishes'
  BY <1>12, <1>h DEF Apply
<1>13. CASE CloudAccepts
  BY <1>12, <1>13 DEF CloudAccepts
<1>14. ASSUME NEW a \in {"refused", "wait"}, CloudRefuses(a)
       PROVE  NoProfileVanishes'
  BY <1>14, <1>h DEF CloudRefuses
<1>15. ASSUME NEW b \in late, CloudAcceptsLate(b)
       PROVE  NoProfileVanishes'
  BY <1>12, <1>15 DEF CloudAcceptsLate
<1> QED
  BY <1>1, <1>2, <1>3, <1>4, <1>5, <1>6, <1>7, <1>8, <1>9, <1>10, <1>11, <1>13, <1>14, <1>15,
     HeldSteps

-----------------------------------------------------------------------------
\* The asks, and what the batch in flight carries.

\* No ask for detail vanishes.
LEMMA AskStep ==
  ASSUME IInv, HeldInv, [Next]_vars
  PROVE  NoAskVanishes'
<1> SUFFICES ASSUME NEW g \in Signal
             PROVE  hist'.asked[g] <= cloud'.asked[g] + IF g \in asks' THEN 1 ELSE 0
  BY DEF NoAskVanishes
<1> DEFINE Goal == hist'.asked[g] <= cloud'.asked[g] + IF g \in asks' THEN 1 ELSE 0
<1>t. /\ hist.asked[g] \in Nat /\ cloud.asked[g] \in Nat
      /\ hist.asked \in [Signal -> Nat]
  BY HeldTypes DEF IInv
<1>h. hist.asked[g] <= cloud.asked[g] + IF g \in asks THEN 1 ELSE 0
  BY DEF HeldInv, NoAskVanishes
<1>0. ASSUME hist'.asked = hist.asked, asks' = asks, cloud' = cloud
      PROVE  Goal
  BY <1>0, <1>h
<1>1. CASE UNCHANGED heldVars
  BY <1>0, <1>1 DEF heldVars
<1>2. CASE Enqueue \/ EnqueueProfile
  BY <1>0, <1>2, HeldTypes DEF Enqueue, EnqueueProfile, IInv
<1>3. ASSUME NEW x \in Signal, EnqueueTrigger(x)
      PROVE  Goal
  <2>1. /\ x \notin asks /\ asks' = asks \cup {x}
        /\ hist'.asked = [hist.asked EXCEPT ![x] = @ + 1]
        /\ UNCHANGED cloud
    BY <1>3, HeldTypes DEF EnqueueTrigger, IInv
  <2> QED BY <1>t, <1>h, <2>1
<1>4. ASSUME NEW e \in Ending, DeclareEnding(e)
      PROVE  Goal
  BY <1>0, <1>4, HeldTypes DEF DeclareEnding, IInv
<1>5. CASE Landed
  <2>1. asks' = asks \ batch.asks /\ hist'.asked = hist.asked /\ UNCHANGED cloud
    BY <1>5, HeldTypes DEF Landed, Without, IInv
  <2>2. g \in batch.asks => hist.asked[g] <= cloud.asked[g]
    BY <1>5 DEF Landed, Answered, HeldInv, Carried
  <2> QED BY <1>t, <1>h, <2>1, <2>2
<1>6. CASE FlushBegin \/ FlushWritten \/ FlushSend \/ AnswerRead \/ Refused \/ TimeOut
            \/ Killed \/ CloudRejects
  BY <1>0, <1>6
  DEF FlushBegin, FlushWritten, FlushSend, AnswerRead, Refused, TimeOut, Killed, CloudRejects
<1>7. CASE Rejected
  BY <1>0, <1>7, HeldTypes DEF Rejected, IInv
<1>8. CASE WriteHeld
  BY <1>0, <1>8, HeldTypes DEF WriteHeld, IInv
<1>9. ASSUME NEW e \in Ending, DumpOnExit(e)
      PROVE  Goal
  BY <1>0, <1>9, HeldTypes DEF DumpOnExit, IInv
<1>10. ASSUME NEW b, Apply(b), UNCHANGED <<asks, hist>>
       PROVE  Goal
  <2>1. cloud'.asked[g] = cloud.asked[g] + IF g \in b.asks THEN 1 ELSE 0
    BY <1>10 DEF Apply
  <2> QED BY <1>t, <1>h, <1>10, <2>1
<1>11. CASE CloudAccepts
  BY <1>10, <1>11 DEF CloudAccepts
<1>12. ASSUME NEW a \in {"refused", "wait"}, CloudRefuses(a)
       PROVE  Goal
  BY <1>0, <1>12 DEF CloudRefuses
<1>13. ASSUME NEW b \in late, CloudAcceptsLate(b)
       PROVE  Goal
  BY <1>10, <1>13 DEF CloudAcceptsLate
<1> QED
  BY <1>1, <1>2, <1>3, <1>4, <1>5, <1>6, <1>7, <1>8, <1>9, <1>11, <1>12, <1>13, HeldSteps

\* What is in the batch is still held.
LEMMA CarriedStep ==
  ASSUME IInv, HeldInv, [Next]_vars
  PROVE  Carried'
<1> USE DEF Carried
<1>h. Carried /\ Flight
  BY DEF HeldInv, IInv
<1>0. ASSUME batch' = NoBatch
      PROVE  Carried'
  BY <1>0, NothingHeld
<1>s. ASSUME batch' = batch, answer' = answer \/ answer' # "accepted", asks' = asks,
             cloud' = cloud, hist'.asked = hist.asked
      PROVE  Carried'
  BY <1>s, <1>h
<1>1. CASE UNCHANGED heldVars
  BY <1>h, <1>1 DEF heldVars
<1>2. CASE Enqueue \/ EnqueueProfile
  BY <1>s, <1>2, HeldTypes DEF Enqueue, EnqueueProfile, IInv
<1>3. ASSUME NEW g \in Signal, EnqueueTrigger(g)
      PROVE  Carried'
  <2>1. /\ g \notin asks /\ asks' = asks \cup {g}
        /\ \A x \in Signal : x # g => hist'.asked[x] = hist.asked[x]
        /\ UNCHANGED <<batch, answer, cloud>>
    BY <1>3, HeldTypes DEF EnqueueTrigger, IInv
  <2>2. batch.asks \subseteq Signal \ {g}
    BY <1>h, <2>1, HeldTypes DEF IInv
  <2> QED BY <1>h, <2>1, <2>2
<1>4. ASSUME NEW e \in Ending, DeclareEnding(e)
      PROVE  Carried'
  BY <1>s, <1>4, HeldTypes DEF DeclareEnding, IInv
<1>5. CASE FlushBegin
  BY <1>5, <1>h DEF FlushBegin, Flight, InFlight, Assemble
<1>6. CASE FlushWritten \/ Landed \/ Rejected \/ Refused \/ TimeOut
  BY <1>0, <1>6 DEF FlushWritten, Landed, Rejected, Refused, TimeOut, EndFlush
<1>7. CASE FlushSend \/ AnswerRead \/ Killed
  BY <1>s, <1>7 DEF FlushSend, AnswerRead, Killed
<1>8. CASE WriteHeld
  BY <1>s, <1>8, HeldTypes DEF WriteHeld, IInv
<1>9. ASSUME NEW e \in Ending, DumpOnExit(e)
      PROVE  Carried'
  BY <1>s, <1>9, HeldTypes DEF DumpOnExit, IInv
<1>10. CASE CloudAccepts
  <2>1. UNCHANGED <<batch, asks, hist>> /\ Apply(batch)
    BY <1>10 DEF CloudAccepts
  <2>2. /\ batch.intervals \subseteq cloud'.intervals
        /\ batch.profile \subseteq cloud'.profiles
        /\ batch.reports \subseteq cloud'.reported
        /\ batch.ending \in {NoEnding} \cup cloud'.endings
    BY <2>1 DEF Apply
  <2>3. ASSUME NEW g \in batch.asks
        PROVE  hist.asked[g] <= cloud'.asked[g]
    <3>1. g \in Signal /\ g \in asks
      BY <1>h, HeldTypes DEF IInv
    <3>2. cloud'.asked[g] = cloud.asked[g] + 1
      BY <2>1, <3>1 DEF Apply
    <3>3. hist.asked[g] <= cloud.asked[g] + 1
      BY <3>1 DEF HeldInv, NoAskVanishes
    <3> QED BY <3>2, <3>3
  <2> QED BY <1>h, <2>1, <2>2, <2>3
<1>11. CASE CloudRejects
  BY <1>s, <1>11 DEF CloudRejects
<1>12. ASSUME NEW a \in {"refused", "wait"}, CloudRefuses(a)
       PROVE  Carried'
  BY <1>s, <1>12 DEF CloudRefuses
<1>13. ASSUME NEW b \in late, CloudAcceptsLate(b)
       PROVE  Carried'
  <2>1. UNCHANGED <<batch, answer, asks, hist>> /\ Apply(b)
    BY <1>13 DEF CloudAcceptsLate
  <2>2. /\ cloud.intervals \subseteq cloud'.intervals /\ cloud.profiles \subseteq cloud'.profiles
        /\ cloud.reported \subseteq cloud'.reported /\ cloud.endings \subseteq cloud'.endings
    BY <2>1 DEF Apply
  <2>3. ASSUME answer = "accepted", NEW g \in batch.asks
        PROVE  hist.asked[g] <= cloud'.asked[g]
    <3>1. g \in Signal /\ hist.asked[g] \in Nat /\ cloud.asked[g] \in Nat
      BY HeldTypes DEF IInv
    <3>2. cloud'.asked[g] >= cloud.asked[g]
      BY <2>1, <3>1 DEF Apply
    <3>3. hist.asked[g] <= cloud.asked[g]
      BY <1>h, <2>3
    <3>4. cloud'.asked[g] \in Nat
      BY <2>1, <3>1 DEF Apply
    <3> QED BY <3>1, <3>2, <3>3, <3>4
  <2>4. answer = "accepted" =>
          /\ batch.intervals \subseteq cloud'.intervals
          /\ batch.profile \subseteq cloud'.profiles
          /\ batch.reports \subseteq cloud'.reported
          /\ batch.ending \in {NoEnding} \cup cloud'.endings
    BY <1>h, <2>2
  <2> QED BY <1>h, <2>1, <2>3, <2>4
<1> QED
  BY <1>1, <1>2, <1>3, <1>4, <1>5, <1>6, <1>7, <1>8, <1>9, <1>10, <1>11, <1>12, <1>13, HeldSteps

\* What is said to be reported, the cloud has.
LEMMA ReportStep ==
  ASSUME IInv, HeldInv, [Next]_vars
  PROVE  ReportedMeansHeard'
<1> USE DEF ReportedMeansHeard
<1>h. hist.said \subseteq cloud.reported /\ TypeOK
  BY DEF HeldInv, IInv
<1>0. ASSUME hist'.said = hist.said, cloud.reported \subseteq cloud'.reported
      PROVE  ReportedMeansHeard'
  BY <1>0, <1>h
<1>1. CASE UNCHANGED heldVars
  BY <1>0, <1>1 DEF heldVars
<1>2. CASE Enqueue \/ EnqueueProfile
  BY <1>0, <1>2, <1>h, HeldTypes DEF Enqueue, EnqueueProfile
<1>3. ASSUME NEW g \in Signal, EnqueueTrigger(g)
      PROVE  ReportedMeansHeard'
  BY <1>0, <1>3, <1>h, HeldTypes DEF EnqueueTrigger
<1>4. ASSUME NEW e \in Ending, DeclareEnding(e)
      PROVE  ReportedMeansHeard'
  BY <1>0, <1>4, <1>h, HeldTypes DEF DeclareEnding
<1>5. CASE Landed
  <2>1. hist'.said = hist.said \cup batch.reports /\ UNCHANGED cloud
    BY <1>5, <1>h, HeldTypes DEF Landed
  <2>2. batch.reports \subseteq cloud.reported
    BY <1>5 DEF Landed, Answered, HeldInv, Carried
  <2> QED BY <1>h, <2>1, <2>2
<1>6. CASE FlushBegin \/ FlushWritten \/ FlushSend \/ AnswerRead \/ Refused \/ TimeOut
            \/ Killed \/ CloudRejects
  BY <1>0, <1>6
  DEF FlushBegin, FlushWritten, FlushSend, AnswerRead, Refused, TimeOut, Killed, CloudRejects
<1>7. CASE Rejected
  BY <1>0, <1>7, <1>h, HeldTypes DEF Rejected
<1>8. CASE WriteHeld
  BY <1>0, <1>8, <1>h, HeldTypes DEF WriteHeld
<1>9. ASSUME NEW e \in Ending, DumpOnExit(e)
      PROVE  ReportedMeansHeard'
  BY <1>0, <1>9, <1>h, HeldTypes DEF DumpOnExit
<1>10. ASSUME NEW b, Apply(b), UNCHANGED hist
       PROVE  ReportedMeansHeard'
  BY <1>0, <1>10 DEF Apply
<1>11. CASE CloudAccepts
  BY <1>10, <1>11 DEF CloudAccepts
<1>12. ASSUME NEW a \in {"refused", "wait"}, CloudRefuses(a)
       PROVE  ReportedMeansHeard'
  BY <1>0, <1>12 DEF CloudRefuses
<1>13. ASSUME NEW b \in late, CloudAcceptsLate(b)
       PROVE  ReportedMeansHeard'
  BY <1>10, <1>13 DEF CloudAcceptsLate
<1> QED
  BY <1>1, <1>2, <1>3, <1>4, <1>5, <1>6, <1>7, <1>8, <1>9, <1>11, <1>12, <1>13, HeldSteps

-----------------------------------------------------------------------------
\* The ending.

\* An ending declared stays until it is told.
LEMMA EndingStep ==
  ASSUME IInv, HeldInv, [Next]_vars
  PROVE  EndingStays'
<1> USE DEF EndingStays
<1>h. EndingStays /\ TypeOK
  BY DEF HeldInv, IInv
<1>n. NoEnding \notin cloud.endings \cup file.endings
  BY <1>h, HeldTypes, EndingAssumption
<1>0. ASSUME ending' = ending, batch' \in {batch, NoBatch}, cloud' = cloud,
             file'.endings = file.endings, late' = late
      PROVE  EndingStays'
  BY <1>0, <1>h, NothingHeld
<1>1. CASE UNCHANGED heldVars
  BY <1>0, <1>1 DEF heldVars
<1>2. CASE Enqueue \/ EnqueueProfile
  BY <1>0, <1>2 DEF Enqueue, EnqueueProfile
<1>3. ASSUME NEW g \in Signal, EnqueueTrigger(g)
      PROVE  EndingStays'
  BY <1>0, <1>3 DEF EnqueueTrigger
<1>4. ASSUME NEW e \in Ending, DeclareEnding(e)
      PROVE  EndingStays'
  BY <1>4, <1>h, <1>n DEF DeclareEnding
<1>5. CASE FlushBegin
  BY <1>5, <1>h DEF FlushBegin, Assemble
<1>6. CASE FlushWritten
  BY <1>6, <1>h, NothingHeld DEF FlushWritten
<1>7. CASE FlushSend \/ AnswerRead \/ Killed \/ Landed \/ Rejected \/ Refused \/ CloudRejects
  BY <1>0, <1>7
  DEF FlushSend, AnswerRead, Killed, Landed, Rejected, Refused, CloudRejects, EndFlush
<1>8. CASE TimeOut
  BY <1>8, <1>h, NothingHeld DEF TimeOut, EndFlush
<1>9. CASE WriteHeld
  BY <1>9, <1>h, Written DEF WriteHeld
<1>10. ASSUME NEW e \in Ending, DumpOnExit(e)
       PROVE  EndingStays'
  <2> DEFINE left == IF ending = NoEnding THEN e ELSE ending
  <2>1. UNCHANGED <<batch, cloud, late>>
    BY <1>10 DEF DumpOnExit
  <2>2. CASE UNCHANGED <<ending, file>>
    BY <1>0, <2>1, <2>2
  <2>3. CASE WriteNow(left) /\ ending' = left
    <3>1. file'.endings = file.endings \cup ({left} \ {NoEnding})
      BY <2>3, Written
    <3> QED BY <1>h, <1>n, <2>1, <2>3, <3>1
  <2> QED BY <1>10, <2>2, <2>3 DEF DumpOnExit
<1>11. ASSUME NEW b, b.ending \in {NoEnding, ending}, Apply(b),
              UNCHANGED <<ending, batch, file>>, late' \subseteq late
       PROVE  EndingStays'
  BY <1>11, <1>h DEF Apply
<1>12. CASE CloudAccepts
  BY <1>11, <1>12, <1>h DEF CloudAccepts
<1>13. ASSUME NEW a \in {"refused", "wait"}, CloudRefuses(a)
       PROVE  EndingStays'
  BY <1>0, <1>13 DEF CloudRefuses
<1>14. ASSUME NEW b \in late, CloudAcceptsLate(b)
       PROVE  EndingStays'
  BY <1>11, <1>14, <1>h DEF CloudAcceptsLate
<1> QED
  BY <1>1, <1>2, <1>3, <1>4, <1>5, <1>6, <1>7, <1>8, <1>9, <1>10, <1>12, <1>13, <1>14, HeldSteps

\* An ending taken for said was said, unless it was overtaken.
LEMMA EndingSaidStep ==
  ASSUME IInv, HeldInv, [Next]_vars
  PROVE  EndingSaid'
<1> USE DEF EndingSaid, InFlight
<1>h. EndingSaid /\ EndingStays /\ TypeOK /\ Flight /\ NothingSent /\ Carried
  BY DEF HeldInv, IInv
<1> DEFINE heard == cloud.endings \cup file.endings
<1>0. ASSUME ending' = ending, endingLanded' = endingLanded, hist'.overtaken = hist.overtaken,
             alive' => alive, (InFlight' => InFlight /\ batch' = batch),
             heard \subseteq heard'
      PROVE  EndingSaid'
  BY <1>0, <1>h
<1>1. CASE UNCHANGED heldVars
  BY <1>0, <1>1 DEF heldVars
<1>2. CASE Enqueue \/ EnqueueProfile
  BY <1>0, <1>2, <1>h, HeldTypes DEF Enqueue, EnqueueProfile
<1>3. ASSUME NEW g \in Signal, EnqueueTrigger(g)
      PROVE  EndingSaid'
  BY <1>0, <1>3, <1>h, HeldTypes DEF EnqueueTrigger
<1>4. ASSUME NEW e \in Ending, DeclareEnding(e)
      PROVE  EndingSaid'
  <2>1. /\ UNCHANGED <<phase, batch, alive, endingLanded, cloud, file>> /\ ending = NoEnding
        /\ hist'.overtaken <=> InFlight
    BY <1>4, <1>h, HeldTypes DEF DeclareEnding
  <2>2. ~endingLanded
    BY <1>h, <2>1, HeldTypes, EndingAssumption
  <2>3. ending' # NoEnding
    BY <1>4, EndingAssumption DEF DeclareEnding
  <2> QED BY <1>h, <2>1, <2>2, <2>3
<1>5. CASE FlushBegin
  BY <1>5, <1>h DEF FlushBegin, Assemble
<1>6. CASE FlushWritten
  BY <1>6, <1>h, HeldTypes DEF FlushWritten
<1>7. CASE Landed
  BY <1>7, <1>h, HeldTypes DEF Landed, Answered, Carried
<1>8. CASE FlushSend \/ AnswerRead \/ Killed \/ Refused \/ CloudRejects \/ TimeOut
  BY <1>0, <1>8
  DEF FlushSend, AnswerRead, Killed, Refused, Answered, CloudRejects, TimeOut, EndFlush
<1>9. CASE Rejected
  BY <1>0, <1>9, <1>h, HeldTypes DEF Rejected, Answered, EndFlush
<1>10. CASE WriteHeld
  <2>1. file.endings \subseteq file'.endings
    BY <1>10, Written DEF WriteHeld
  <2> QED BY <1>0, <1>10, <1>h, <2>1, HeldTypes DEF WriteHeld
<1>11. ASSUME NEW e \in Ending, DumpOnExit(e)
       PROVE  EndingSaid'
  <2> DEFINE left == IF ending = NoEnding THEN e ELSE ending
  <2>1. ~alive' /\ hist'.overtaken = hist.overtaken /\ UNCHANGED cloud
    BY <1>11, <1>h, HeldTypes DEF DumpOnExit
  <2>2. CASE UNCHANGED <<endVars, file>>
    BY <1>h, <2>1, <2>2
  <2>3. CASE WriteNow(left) /\ ending' = left
    <3>1. left # NoEnding /\ file'.endings = file.endings \cup ({left} \ {NoEnding})
      BY <2>3, Written, EndingAssumption
    <3> QED BY <2>1, <2>3, <3>1
  <2> QED BY <1>11, <2>2, <2>3 DEF DumpOnExit
<1>12. ASSUME NEW b, Apply(b), UNCHANGED <<ending, endingLanded, alive, phase, batch, file, hist>>
       PROVE  EndingSaid'
  BY <1>0, <1>12 DEF Apply
<1>13. CASE CloudAccepts
  BY <1>12, <1>13 DEF CloudAccepts
<1>14. ASSUME NEW a \in {"refused", "wait"}, CloudRefuses(a)
       PROVE  EndingSaid'
  BY <1>0, <1>14 DEF CloudRefuses
<1>15. ASSUME NEW b \in late, CloudAcceptsLate(b)
       PROVE  EndingSaid'
  BY <1>12, <1>15 DEF CloudAcceptsLate
<1> QED
  BY <1>1, <1>2, <1>3, <1>4, <1>5, <1>6, <1>7, <1>8, <1>9, <1>10, <1>11, <1>13, <1>14, <1>15,
     HeldSteps

-----------------------------------------------------------------------------
\* The file.

\* A process with a file sends nothing, and what it holds is written.
LEMMA FileStep ==
  ASSUME IInv, HeldInv, [Next]_vars
  PROVE  NothingSent' /\ Emptied' /\ CheckpointWritten'
<1> USE DEF NothingSent, Emptied, CheckpointWritten
<1>h. NothingSent /\ Emptied /\ CheckpointWritten /\ NoIntervalVanishes /\ TypeOK
  BY DEF HeldInv, IInv
<1> DEFINE Goal == NothingSent' /\ Emptied' /\ CheckpointWritten'
<1>0. ASSUME phase' # "sending", late' = late, cloud' = cloud, alive,
             hist'.exited = hist.exited, hist'.checkpoint = hist.checkpoint,
             file.intervals \subseteq file'.intervals
      PROVE  Goal
  BY <1>0, <1>h
<1>s. ASSUME phase' = phase, late' = late, cloud' = cloud, alive,
             hist'.exited = hist.exited, hist'.checkpoint = hist.checkpoint,
             file.intervals \subseteq file'.intervals
      PROVE  Goal
  BY <1>s, <1>h
<1>1. CASE UNCHANGED heldVars
  BY <1>1, <1>h DEF heldVars
<1>2. CASE Enqueue \/ EnqueueProfile
  BY <1>s, <1>2, <1>h, HeldTypes DEF Enqueue, EnqueueProfile
<1>3. ASSUME NEW g \in Signal, EnqueueTrigger(g)
      PROVE  Goal
  BY <1>s, <1>3, <1>h, HeldTypes DEF EnqueueTrigger
<1>4. ASSUME NEW e \in Ending, DeclareEnding(e)
      PROVE  Goal
  BY <1>s, <1>4, <1>h, HeldTypes DEF DeclareEnding
<1>5. CASE FlushBegin \/ FlushWritten \/ AnswerRead \/ Landed \/ Refused
  BY <1>0, <1>5, <1>h, HeldTypes
  DEF FlushBegin, FlushWritten, AnswerRead, Landed, Answered, Refused, EndFlush
<1>6. CASE FlushSend
  BY <1>6, <1>h DEF FlushSend
<1>7. CASE Rejected
  BY <1>0, <1>7, <1>h, HeldTypes DEF Rejected, Answered, EndFlush
<1>8. CASE TimeOut
  <2>1. ~Local
    BY <1>8, <1>h DEF TimeOut
  <2> QED BY <1>8, <1>h, <2>1 DEF TimeOut
<1>9. CASE WriteHeld
  <2>1. /\ Local /\ alive /\ UNCHANGED <<phase, late, cloud, alive>>
        /\ WriteNow(ending)
        /\ hist'.exited = hist.exited
        /\ hist'.checkpoint = (1 .. hist.made) \ hist.discarded
    BY <1>9, <1>h, HeldTypes DEF WriteHeld
  <2>2. hist'.checkpoint \subseteq file'.intervals
    BY <1>h, <2>1, Written DEF NoIntervalVanishes
  <2> QED BY <1>h, <2>1, <2>2
<1>10. ASSUME NEW e \in Ending, DumpOnExit(e)
       PROVE  Goal
  <2>1. /\ ~alive' /\ UNCHANGED <<phase, late, cloud>>
        /\ hist'.checkpoint = hist.checkpoint
    BY <1>10, <1>h, HeldTypes DEF DumpOnExit
  <2>2. /\ file.intervals \subseteq file'.intervals
        /\ Local => queue' = {} /\ profiles' \subseteq hist'.leaving \ Oldest(hist'.leaving)
    BY <1>10, <1>h, HeldTypes, Written DEF DumpOnExit
  <2> QED BY <1>h, <2>1, <2>2
<1>11. CASE Killed
  BY <1>11, <1>h DEF Killed
<1>12. CASE CloudAccepts \/ CloudRejects
  BY <1>12, <1>h DEF CloudAccepts, CloudRejects, Unanswered
<1>13. ASSUME NEW a \in {"refused", "wait"}, CloudRefuses(a)
       PROVE  Goal
  BY <1>13, <1>h DEF CloudRefuses
<1>14. ASSUME NEW b \in late, CloudAcceptsLate(b)
       PROVE  Goal
  BY <1>14, <1>h DEF CloudAcceptsLate
<1> QED
  BY <1>1, <1>2, <1>3, <1>4, <1>5, <1>6, <1>7, <1>8, <1>9, <1>10, <1>11, <1>12, <1>13, <1>14,
     HeldSteps

-----------------------------------------------------------------------------
\* The theorems.

\* Nothing is held at first.
LEMMA HeldInit == Init => HeldInv
<1> SUFFICES ASSUME Init
             PROVE  HeldInv
  OBVIOUS
<1>1. NoIntervalVanishes /\ NoProfileVanishes /\ NoAskVanishes /\ ReportedMeansHeard
  BY DEF Init, NoIntervalVanishes, NoProfileVanishes, NoAskVanishes, ReportedMeansHeard
<1>2. CheckpointWritten /\ Carried /\ EndingStays /\ EndingSaid /\ NothingSent /\ Emptied
  BY NothingHeld
  DEF Init, InFlight, CheckpointWritten, Carried, EndingStays, EndingSaid, NothingSent, Emptied
<1> QED BY <1>1, <1>2 DEF HeldInv

\* Every step keeps what is held.
LEMMA HeldStep == IInv /\ HeldInv /\ [Next]_vars => HeldInv'
<1> SUFFICES ASSUME IInv, HeldInv, [Next]_vars
             PROVE  HeldInv'
  OBVIOUS
<1>1. NoIntervalVanishes' /\ NoProfileVanishes' /\ NoAskVanishes' /\ ReportedMeansHeard'
  BY IntervalStep, ProfileStep, AskStep, ReportStep
<1>2. /\ Carried' /\ EndingStays' /\ EndingSaid'
      /\ NothingSent' /\ Emptied' /\ CheckpointWritten'
  BY CarriedStep, EndingStep, EndingSaidStep, FileStep
<1> QED BY <1>1, <1>2 DEF HeldInv

\* Every interval and every profile is queued, where it was to go, or said to be lost; every ask
\* is still to make or at the cloud; what is said to be reported, the cloud has; and whatever cut
\* the process's end short, one ending is heard, and taken for said only when it was, unless a
\* batch was on its way as it was declared.
THEOREM NothingVanishes == Spec => []NothingElseVanishes
<1>1. IInv /\ HeldInv => NothingElseVanishes
  <2> SUFFICES ASSUME IInv, HeldInv
               PROVE  EndingHeard
    BY DEF HeldInv, NothingElseVanishes
  <2> DEFINE heard == cloud.endings \cup file.endings
  <2>1. heard = {} \/ heard = {ending}
    BY DEF HeldInv, EndingStays
  <2>2. Cardinality(heard) \in {0, 1}
    BY <2>1, FS_EmptySet, FS_Singleton
  <2>3. endingLanded => hist.overtaken \/ heard = {ending}
    BY <2>1 DEF HeldInv, EndingSaid
  <2> QED BY <2>2, <2>3 DEF EndingHeard
<1> QED BY <1>1, HeldInit, HeldStep, Inductive, PTL DEF Spec

\* With a file and no cloud, neither an exit nor a kill takes an interval the file was to have,
\* wherever the write in flight had got to, and an exit writes the first of the profiles.
THEOREM NothingLeftUnwritten == Spec => []HeldIsWritten
<1>1. IInv /\ HeldInv => HeldIsWritten
  <2> SUFFICES ASSUME IInv, HeldInv
               PROVE  IntervalsAtExit /\ OldestProfileAtExit
    BY DEF HeldInv, HeldIsWritten
  <2>1. IntervalsAtExit
    BY DEF HeldInv, IntervalsAtExit, NoIntervalVanishes, NothingSent, Emptied
  <2>2. OldestProfileAtExit
    BY DEF HeldInv, OldestProfileAtExit, NoProfileVanishes, NothingSent, Emptied
  <2> QED BY <2>1, <2>2
<1> QED BY <1>1, HeldInit, HeldStep, Inductive, PTL DEF Spec

-----------------------------------------------------------------------------
(* Sender implements CountedDelivery: what happens to a signature the      *)
(* sender keeps a total for, seen from outside, is that occurrences happen,*)
(* and each is counted once or lost once.                                  *)

USE DEF procVars, listVars, endVars, countVars, flushVars, outVars, ledger, histVars

\* Where every occurrence thrown is: handed over, in the register, or lost before the
\* hand-over.
Accounting ==
  \A s \in Sig :
    /\ thrown[s] = handed[s] + register[s] + (lost[s] - refused[s])
    /\ refused[s] <= handed[s]
    /\ refused[s] <= lost[s]

accountVars == <<thrown, handed, register, lost, refused>>

\* The steps that count an occurrence.
LEMMA AccountSteps ==
  ASSUME [Next]_vars
  PROVE  \/ UNCHANGED accountVars
         \/ \E s \in Sig : Record(s)
         \/ EnqueueExceptions
<1> USE DEF accountVars
<1>1. CASE Process
  BY <1>1 DEF Process, Enqueue, EnqueueProfile, EnqueueCaptures, EnqueueTrigger,
              DeclareEnding
<1>2. CASE Flush \/ Answer
  BY <1>2 DEF Flush, Answer, FlushBegin, FlushWritten, FlushSend, Landed, AnswerRead,
              Rejected, Refused, TimeOut, SilenceEnds
<1>3. CASE WayOut \/ Cloud
  BY <1>3 DEF WayOut, Cloud, WriteHeld, DumpOnExit, Killed, CloudAccepts, CloudRejects,
              CloudRefuses, CloudAcceptsLate
<1> QED BY <1>1, <1>2, <1>3 DEF Next, vars

\* What the loop of enqueueExceptions does to the account of one signature.
LEMMA AccountEnqueued ==
  ASSUME TypeOK, EnqueueExceptions, NEW s \in Sig
  PROVE  \E out \in {0, register[s]} :
           /\ handed'[s] = handed[s] + register[s]
           /\ refused'[s] = refused[s] + out
           /\ lost'[s] = lost[s] + out
           /\ register'[s] = 0 /\ thrown'[s] = thrown[s]
<1>1. PICK admitted \in SUBSET Sig, new \in SUBSET Sig : Admit(admitted, new)
  BY DEF EnqueueExceptions
<1> DEFINE out == IF s \in Pending \cup admitted THEN 0 ELSE register[s]
<1>2. /\ handed'[s] = handed[s] + register[s] /\ refused'[s] = refused[s] + out
      /\ lost'[s] = lost[s] + out
  BY <1>1 DEF Admit, Plus, TypeOK, Occurrences
<1>3. register'[s] = 0 /\ thrown'[s] = thrown[s]
  BY DEF EnqueueExceptions, None
<1> QED BY <1>2, <1>3

\* What was thrown is handed over, in the register, or lost before it was handed over.
LEMMA AccountingStep ==
  ASSUME TypeOK, Accounting, [Next]_vars
  PROVE  Accounting'
<1> SUFFICES ASSUME NEW s \in Sig
             PROVE  /\ thrown'[s] = handed'[s] + register'[s] + (lost'[s] - refused'[s])
                    /\ refused'[s] <= handed'[s]
                    /\ refused'[s] <= lost'[s]
  BY DEF Accounting
<1> DEFINE Goal == /\ thrown'[s] = handed'[s] + register'[s] + (lost'[s] - refused'[s])
                   /\ refused'[s] <= handed'[s]
                   /\ refused'[s] <= lost'[s]
<1> SUFFICES Goal
  OBVIOUS
<1>1. /\ thrown \in [Sig -> Nat] /\ register \in [Sig -> Nat] /\ lost \in [Sig -> Nat]
      /\ handed \in [Sig -> Nat] /\ refused \in [Sig -> Nat]
  BY DEF TypeOK, Occurrences
<1>2. /\ thrown[s] = handed[s] + register[s] + (lost[s] - refused[s])
      /\ refused[s] <= handed[s] /\ refused[s] <= lost[s]
  BY DEF Accounting
<1>3. CASE UNCHANGED accountVars
  BY <1>2, <1>3 DEF accountVars
<1>4. ASSUME NEW t \in Sig, Record(t)
      PROVE  Goal
  BY <1>1, <1>2, <1>4 DEF Record
<1>5. CASE EnqueueExceptions
  BY <1>1, <1>2, <1>5, AccountEnqueued
<1> QED BY <1>3, <1>4, <1>5, AccountSteps

-----------------------------------------------------------------------------
\* The abstract state, named here for the proof.

counted == [s \in Sig |-> IF s \in tracked THEN cloud.applied[s] ELSE 0]

\* Every step but the three below leaves the table, the cloud's counts and the account
\* alone.
LEMMA CountedSteps ==
  ASSUME [Next]_vars
  PROVE  \/ UNCHANGED <<accountVars, tracked, cloud>>
         \/ UNCHANGED <<tracked, cloud>> /\ \E s \in Sig : Record(s)
         \/ EnqueueExceptions
         \/ UNCHANGED accountVars /\ CloudAccepts
         \/ UNCHANGED accountVars /\ \E b \in late : CloudAcceptsLate(b)
<1> USE DEF accountVars
<1>1. CASE Process
  BY <1>1 DEF Process, Record, Enqueue, EnqueueProfile, EnqueueCaptures, EnqueueTrigger,
              DeclareEnding
<1>2. CASE Flush \/ Answer
  BY <1>2 DEF Flush, Answer, FlushBegin, FlushWritten, FlushSend, Landed, AnswerRead,
              Rejected, Refused, TimeOut, SilenceEnds
<1>3. CASE WayOut \/ Cloud
  BY <1>3 DEF WayOut, Cloud, WriteHeld, DumpOnExit, Killed, CloudAccepts, CloudRejects,
              CloudRefuses, CloudAcceptsLate
<1> QED BY <1>1, <1>2, <1>3 DEF Next, vars

\* A delivery only adds to what was counted.
LEMMA AppliedGrows ==
  ASSUME TypeOK, NEW b \in Batch, Apply(b), NEW s \in Sig
  PROVE  cloud.applied[s] <= cloud'.applied[s]
<1>1. /\ cloud.last[s] \in Nat /\ b.exceptions[s] \in Nat /\ b.total[s] \in Nat
      /\ cloud.applied[s] \in Nat
  BY SigTypes DEF Batch, Occurrences
<1>2. Adds(cloud.last[s], b.exceptions[s], b.total[s]) \in Nat
  BY <1>1 DEF Adds
<1>3. cloud'.applied[s] = cloud.applied[s] + Adds(cloud.last[s], b.exceptions[s], b.total[s])
  BY DEF Apply
<1> QED BY <1>1, <1>2, <1>3

\* A signature that enters the table of totals has nothing counted yet, so the abstract
\* count does not jump.
LEMMA CountedUnmoved ==
  ASSUME IInv, EnqueueExceptions
  PROVE  counted' = counted
<1> DEFINE taken == {s \in Sig : register[s] > 0}
<1>1. PICK admitted \in SUBSET taken, new \in SUBSET taken :
        /\ Fills(new, taken \ tracked, tracked, MaxRunningTotals)
        /\ Admit(admitted, new)
  BY DEF EnqueueExceptions
<1>2. /\ tracked' = tracked \cup new /\ cloud' = cloud
      /\ new \in SUBSET (Sig \ tracked) /\ Cardinality(tracked \cup new) <= MaxRunningTotals
  BY <1>1 DEF Admit, Fills, EnqueueExceptions
<1>3. \A s \in new : cloud.applied[s] = 0
  <2>1. TypeOK /\ Table /\ \A s \in Sig : Marks(s)
    BY DEF IInv, SigLedger
  <2> QED BY <1>2, <2>1, NewlyTrackedIsNew DEF Marks
<1> QED BY <1>2, <1>3 DEF counted

\* Every step delivers, or stutters, as the abstract specification says.
LEMMA DeliveryStep ==
  ASSUME IInv, IInv', Accounting, Accounting', [Next]_vars
  PROVE  Delivery!Next \/ UNCHANGED <<thrown, counted, lost>>
<1>t. TypeOK /\ TypeOK'
  BY DEF IInv
<1>1. /\ thrown' \in Delivery!Occurrences /\ counted' \in Delivery!Occurrences
      /\ lost' \in Delivery!Occurrences
      /\ Delivery!Accounted(thrown', counted', lost')
  <2>1. [Sig -> Nat] = Occurrences
    BY DEF Occurrences
  <2>2. ASSUME NEW s \in Sig
        PROVE  counted'[s] \in Nat /\ counted'[s] + lost'[s] <= thrown'[s]
    <3>1. /\ thrown'[s] = handed'[s] + register'[s] + (lost'[s] - refused'[s])
          /\ refused'[s] <= handed'[s]
      BY DEF Accounting
    <3>2. /\ lost'[s] \in Nat /\ thrown'[s] \in Nat /\ register'[s] \in Nat
          /\ handed'[s] \in Nat /\ refused'[s] \in Nat /\ pending'[s] \in Nat
          /\ cloud'.applied[s] \in Nat /\ cloud'.last[s] \in Nat
      BY <1>t DEF TypeOK, Occurrences
    <3>3. Marks(s)' /\ (s \in tracked' => Ledger(s)')
      BY DEF IInv, SigLedger
    <3>4. s \in tracked' => cloud'.applied[s] + refused'[s] <= handed'[s]
      BY <3>2, <3>3 DEF Marks, Ledger, Settled
    <3>5. counted'[s] = IF s \in tracked' THEN cloud'.applied[s] ELSE 0
      BY DEF counted
    <3> QED BY <3>1, <3>2, <3>4, <3>5
  <2>3. counted' \in [Sig -> Nat]
    BY <2>2 DEF counted
  <2>4. thrown' \in [Sig -> Nat] /\ lost' \in [Sig -> Nat]
    BY <1>t, <2>1 DEF TypeOK
  <2> QED BY <2>2, <2>3, <2>4 DEF Delivery!Occurrences, Delivery!Accounted
<1>2. CASE UNCHANGED <<accountVars, tracked, cloud>>
  BY <1>2 DEF accountVars, counted
<1>3. ASSUME UNCHANGED <<tracked, cloud>>, NEW s \in Sig, Record(s)
      PROVE  Delivery!Next
  <2>1. counted' = counted
    BY <1>3 DEF counted
  <2>2. /\ thrown' = [thrown EXCEPT ![s] = thrown[s] + 1]
        /\ lost' = lost \/ lost' = [lost EXCEPT ![s] = lost[s] + 1]
    BY <1>3 DEF Record
  <2> QED BY <2>1, <2>2 DEF Delivery!Next, Delivery!Throw, counted
<1>4. CASE EnqueueExceptions
  <2>1. counted' = counted
    BY <1>4, CountedUnmoved
  <2>2. thrown' = thrown
    BY <1>4 DEF EnqueueExceptions
  <2>3. \A s \in Sig : lost[s] <= lost'[s]
    <3> TAKE s \in Sig
    <3>1. lost[s] \in Nat /\ register[s] \in Nat
      BY <1>t DEF TypeOK, Occurrences
    <3>2. \E out \in {0, register[s]} : lost'[s] = lost[s] + out
      BY <1>4, <1>t, AccountEnqueued
    <3> QED BY <3>1, <3>2
  <2>4. Delivery!Lose
    BY <1>1, <2>1, <2>2, <2>3 DEF Delivery!Lose, Delivery!Grows, counted
  <2> QED BY <2>4 DEF Delivery!Next
<1>5. ASSUME UNCHANGED accountVars, NEW b \in Batch, Apply(b), tracked' = tracked
      PROVE  Delivery!Next
  <2>1. thrown' = thrown /\ lost' = lost
    BY <1>5 DEF accountVars
  <2>2. \A s \in Sig : counted[s] <= counted'[s]
    BY <1>5, <1>t, AppliedGrows DEF counted
  <2>3. Delivery!Count
    BY <1>1, <2>1, <2>2 DEF Delivery!Count, Delivery!Grows, counted
  <2> QED BY <2>3 DEF Delivery!Next
<1>6. CASE UNCHANGED accountVars /\ CloudAccepts
  BY <1>5, <1>6, <1>t DEF CloudAccepts, TypeOK
<1>7. ASSUME UNCHANGED accountVars, NEW b \in late, CloudAcceptsLate(b)
      PROVE  Delivery!Next
  BY <1>5, <1>7, <1>t DEF CloudAcceptsLate, TypeOK
<1> QED BY <1>2, <1>3, <1>4, <1>6, <1>7, CountedSteps

\* The sender implements the promise: under lost answers, refusals, overtaken and late
\* requests, and for any caps, no occurrence is counted twice or both counted and lost.
THEOREM Implements == Spec => CountedOnce
<1>1. Init => Accounting /\ Delivery!Init
  BY DEF Init, Accounting, None, Delivery!Init, Delivery!Zero
<1>2. IInv /\ Accounting /\ [Next]_vars => Accounting'
  BY AccountingStep DEF IInv
<1>3. IInv /\ IInv' /\ Accounting /\ Accounting' /\ [Next]_vars => [Delivery!Next]_(Delivery!vars)
  BY DeliveryStep DEF Delivery!vars, counted
<1> QED BY <1>1, <1>2, <1>3, InitInv, StepInv, PTL DEF Spec, CountedOnce, Delivery!Spec
=============================================================================
