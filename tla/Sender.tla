------------------------------- MODULE Sender -------------------------------
(***************************************************************************)
(* The sender of the agent (packages/agent/src/transport.ts, class Sender) *)
(* with the register of process exceptions that feeds it (exceptions.ts)   *)
(* and the cloud it talks to, as far as the protocol's schema says what    *)
(* the cloud does with a batch.                                            *)
(*                                                                         *)
(* One batch is in flight at a time.  While it is, the process goes on     *)
(* throwing, closing intervals, asking and declaring how it leaves: the    *)
(* landing must take off what the batch carried and nothing else.  A       *)
(* request may be lost, refused, answered too late or overtaken; what is   *)
(* not known to have landed is said again.                                 *)
(*                                                                         *)
(* Intervals and profiles are numbers in order of creation, so a queue of  *)
(* them is a set whose oldest is the least; signatures, signals, captures  *)
(* and endings are model values.  The clock is left out: `silentUntil` is  *)
(* the flag `silent`, and a deadline is the TimeOut action.                *)
(***************************************************************************)
EXTENDS Integers, FiniteSets

CONSTANTS
  Sig,              \* signatures: a kind and a hash
  Signal,           \* signals a local trigger asks about
  Capture,          \* captures a report may be about
  Ending,           \* ways a process leaves: "exit", "signal", "idle"
  NoEnding,
  Local,            \* TRUE: an inspection file and no cloud
  MaxQueued,        \* DEFAULT_MAX_QUEUED
  MaxExceptions,    \* MAX_EXCEPTIONS of the sender's list
  MaxSignatures,    \* MAX_SIGNATURES of the register's window
  MaxRunningTotals, \* MAX_RUNNING_TOTALS
  MaxTriggers,      \* MAX_TRIGGERS
  \* Bounds of the model, on what the environment does:
  MaxIntervals, MaxProfiles, MaxThrows, MaxAsks, MaxFailures, MaxRejected,
  MaxLate

ASSUME SigAssumption == IsFiniteSet(Sig)

ASSUME EndingAssumption == NoEnding \notin Ending

ASSUME CapAssumption ==
  /\ {MaxQueued, MaxExceptions, MaxSignatures, MaxRunningTotals, MaxTriggers}
       \subseteq Nat \ {0}
  /\ Local \in BOOLEAN

ASSUME BoundAssumption ==
  {MaxIntervals, MaxProfiles, MaxThrows, MaxAsks, MaxFailures, MaxRejected,
   MaxLate} \subseteq Nat

VARIABLES
  register,        \* ProcessExceptions.counted: occurrences by signature
  registerDropped, \* ProcessExceptions.dropped, by signature
  queue, profiles, captureReports,
  pending,         \* Sender.exceptions: count by signature, 0 when absent
  totals, tracked, \* Sender.totals: values, and the keys it holds
  asks,            \* Sender.triggers
  ending, endingLanded,
  since, sinceExceptions,
  stats,           \* the public dropped, failed and rejected
  silent,
  phase, batch, answer,
  alive,
  late,            \* requests the sender gave up on and the cloud may yet read
  cloud,           \* what the cloud applied
  file,            \* what the inspection file holds
  \* History, read by the properties only.  Occurrences by signature: thrown in the
  \* process, handed to the sender, refused at the sender's cap, and lost at either.
  thrown, handed, refused, lost,
  hist             \* see History

procVars  == <<register, registerDropped>>
listVars  == <<queue, profiles, captureReports, pending, totals, tracked, asks>>
endVars   == <<ending, endingLanded>>
countVars == <<since, sinceExceptions, stats>>
flushVars == <<silent, phase, batch, answer>>
outVars   == <<late, cloud, file>>
ledger    == <<thrown, handed, refused, lost>>
histVars  == <<ledger, hist>>

vars == <<procVars, listVars, endVars, countVars, flushVars, alive, outVars, histVars>>

-----------------------------------------------------------------------------
\* Batches and counters.

Counter == {"dropped", "failed", "rejected"}

\* A counter of dropped exceptions is kept here by signature, and in the code
\* as the sum: everything done with it is addition and subtraction.
Occurrences == [Sig -> Nat]
None        == [s \in Sig |-> 0]

Plus(f, g)  == [x \in DOMAIN f |-> f[x] + g[x]]

\* What a landing leaves of a counter: what was counted after the batch was put
\* together stays.
MinusEverything(f, g) == [x \in DOMAIN f |-> 0]
Minus(f, g)           == [x \in DOMAIN f |-> f[x] - g[x]]

\* And of a list: what came after the batch was put together stays.
WithoutAny(list, carried) == {}
Without(list, carried)    == list \ carried

Batch ==
  [intervals  : SUBSET Nat,
   profile    : SUBSET Nat,     \* none or one
   exceptions : Occurrences,    \* count of each signature carried
   total      : Occurrences,    \* its running total, 0 when it has none
   reports    : SUBSET Capture,
   asks       : SUBSET Signal,
   declared   : [Counter -> Nat],
   declaredExceptions : Occurrences,
   ending     : Ending \cup {NoEnding}]

\* What was made, asked, discarded, said to be reported, and written at a checkpoint; and the
\* profiles that were held at the exit.
History ==
  [made : Nat, profiles : Nat, asked : [Signal -> Nat], discarded : SUBSET Nat,
   discardedProfiles : SUBSET Nat, said : SUBSET Capture, checkpoint : SUBSET Nat,
   leaving : SUBSET Nat, overtaken : BOOLEAN, exited : BOOLEAN]

NoBatch ==
  [intervals |-> {}, profile |-> {}, exceptions |-> None, total |-> None,
   reports |-> {}, asks |-> {}, declared |-> [c \in Counter |-> 0],
   declaredExceptions |-> None, ending |-> NoEnding]

\* The oldest of a queue, as a set: none when it is empty.
Oldest(q) == {id \in q : \A other \in q : id <= other}

Pending == {s \in Sig : pending[s] > 0}

EndingPending == ending # NoEnding /\ ~endingLanded

\* A first version of the question, before exceptions: mutant.
SomethingQueued == queue # {} \/ profiles # {} \/ captureReports # {} \/ asks # {}

HasSomethingToSay ==
  \/ queue # {}
  \/ profiles # {}
  \/ captureReports # {}
  \/ Pending # {}
  \/ asks # {}
  \/ EndingPending

AssembleWithoutTotals ==
  [intervals |-> queue, profile |-> Oldest(profiles), exceptions |-> pending,
   total |-> None, reports |-> captureReports, asks |-> asks, declared |-> since,
   declaredExceptions |-> sinceExceptions, ending |-> ending]

Assemble ==
  [intervals  |-> queue,
   profile    |-> Oldest(profiles),
   exceptions |-> pending,
   total      |-> [s \in Sig |-> IF s \in tracked /\ pending[s] > 0
                                 THEN totals[s] ELSE 0],
   reports    |-> captureReports,
   asks       |-> asks,
   declared   |-> since,
   declaredExceptions |-> sinceExceptions,
   ending     |-> ending]

\* push, and shift the oldest past the cap.
Bounded(q, id) ==
  (IF Cardinality(q) < MaxQueued THEN q ELSE q \ Oldest(q)) \cup {id}

-----------------------------------------------------------------------------
TypeOK ==
  /\ register \in Occurrences /\ registerDropped \in Occurrences
  /\ queue \subseteq Nat /\ profiles \subseteq Nat
  /\ captureReports \subseteq Capture
  /\ pending \in Occurrences /\ totals \in Occurrences
  /\ tracked \subseteq Sig
  /\ asks \subseteq Signal
  /\ ending \in Ending \cup {NoEnding} /\ endingLanded \in BOOLEAN
  /\ since \in [Counter -> Nat] /\ sinceExceptions \in Occurrences
  /\ stats \in [Counter -> Nat]
  /\ silent \in BOOLEAN
  /\ phase \in {"idle", "writing", "sending", "reading"}
  /\ batch \in Batch
  /\ answer \in {"none", "accepted", "rejected", "refused", "wait"}
  /\ alive \in BOOLEAN
  /\ late \subseteq Batch
  /\ cloud \in [last : Occurrences, applied : Occurrences,
                told : [Counter -> Nat], toldExceptions : Occurrences,
                intervals : SUBSET Nat, profiles : SUBSET Nat,
                asked : [Signal -> Nat], reported : SUBSET Capture,
                endings : SUBSET Ending]
  /\ file \in [intervals : SUBSET Nat, profiles : SUBSET Nat,
               endings : SUBSET Ending]
  /\ thrown \in Occurrences /\ handed \in Occurrences
  /\ refused \in Occurrences /\ lost \in Occurrences
  /\ hist \in History

Init ==
  /\ register = None /\ registerDropped = None
  /\ queue = {} /\ profiles = {} /\ captureReports = {}
  /\ pending = None /\ totals = None /\ tracked = {}
  /\ asks = {}
  /\ ending = NoEnding /\ endingLanded = FALSE
  /\ since = [c \in Counter |-> 0] /\ sinceExceptions = None
  /\ stats = [c \in Counter |-> 0]
  /\ silent = FALSE
  /\ phase = "idle" /\ batch = NoBatch /\ answer = "none"
  /\ alive = TRUE
  /\ late = {}
  /\ cloud = [last |-> None, applied |-> None,
              told |-> [c \in Counter |-> 0], toldExceptions |-> None,
              intervals |-> {}, profiles |-> {},
              asked |-> [g \in Signal |-> 0], reported |-> {}, endings |-> {}]
  /\ file = [intervals |-> {}, profiles |-> {}, endings |-> {}]
  /\ thrown = None /\ handed = None /\ refused = None /\ lost = None
  /\ hist = [made |-> 0, profiles |-> 0, asked |-> [g \in Signal |-> 0],
             discarded |-> {}, discardedProfiles |-> {}, said |-> {}, checkpoint |-> {},
             leaving |-> {}, overtaken |-> FALSE, exited |-> FALSE]

-----------------------------------------------------------------------------
\* The register of process exceptions.

\* ProcessExceptions.record: past the window's cap a new signature is not
\* admitted, and its occurrence is counted.
Record(s) ==
  /\ alive
  /\ thrown[s] < MaxThrows
  /\ thrown' = [thrown EXCEPT ![s] = @ + 1]
  /\ IF register[s] > 0 \/ Cardinality({t \in Sig : register[t] > 0}) < MaxSignatures
     THEN /\ register' = [register EXCEPT ![s] = @ + 1]
          /\ UNCHANGED <<registerDropped, lost>>
     ELSE /\ registerDropped' = [registerDropped EXCEPT ![s] = @ + 1]
          /\ lost' = [lost EXCEPT ![s] = @ + 1]
          /\ UNCHANGED register
  /\ UNCHANGED <<listVars, endVars, countVars, flushVars, alive, outVars, handed,
                 refused, hist>>

-----------------------------------------------------------------------------
\* What the drain hands over.

\* A table of `cap` keys that holds `held` takes `added` of the keys `new` to
\* it: all of them, or as many as fill it.  Which ones is the order of the list
\* handed over.
Fills(added, new, held, cap) ==
  /\ added \subseteq new
  /\ Cardinality(held \cup added) <= cap
  /\ added # new => Cardinality(held \cup added) = cap

\* The loop of enqueueExceptions, when the list admits `admitted` and the table of totals
\* takes `newlyTracked`.  A total counts every occurrence handed over, whether its
\* signature is admitted or not; what is not admitted is counted as dropped.
AdmitTotalling(admitted, newlyTracked) ==
  LET kept == Pending \cup admitted
      out  == [s \in Sig |-> IF s \in kept THEN 0 ELSE register[s]]
  IN /\ pending' = [s \in Sig |-> pending[s] + register[s] - out[s]]
     /\ tracked' = tracked \cup newlyTracked
     /\ totals'  = [s \in Sig |-> totals[s] + IF s \in kept \cap tracked' THEN register[s] ELSE 0]
     /\ sinceExceptions' =
          [s \in Sig |-> sinceExceptions[s] + registerDropped[s] + out[s]]
     /\ handed'  = Plus(handed, register)
     /\ refused' = Plus(refused, out)
     /\ lost'    = Plus(lost, out)

Admit(admitted, newlyTracked) ==
  LET kept == Pending \cup admitted
      out  == [s \in Sig |-> IF s \in kept THEN 0 ELSE register[s]]
  IN /\ pending' = [s \in Sig |-> pending[s] + register[s] - out[s]]
     /\ tracked' = tracked \cup newlyTracked
     /\ totals'  = [s \in Sig |-> totals[s] + IF s \in tracked' THEN register[s] ELSE 0]
     /\ sinceExceptions' =
          [s \in Sig |-> sinceExceptions[s] + registerDropped[s] + out[s]]
     /\ handed'  = Plus(handed, register)
     /\ refused' = Plus(refused, out)
     /\ lost'    = Plus(lost, out)

\* take, takeDropped and enqueueExceptions, in one synchronous step.
EnqueueExceptions ==
  LET taken == {s \in Sig : register[s] > 0}
  IN
  /\ alive
  /\ \E admitted, newlyTracked \in SUBSET taken :
       /\ Fills(admitted, taken \ Pending, Pending, MaxExceptions)
       /\ Fills(newlyTracked, taken \ tracked, tracked, MaxRunningTotals)
       /\ Admit(admitted, newlyTracked)
  /\ register' = None /\ registerDropped' = None
  /\ UNCHANGED <<queue, profiles, captureReports, asks, endVars, since, stats,
                 flushVars, alive, outVars, thrown, hist>>

\* The oldest past the cap is counted, in the total and in what is still to say.
CountShifted(q) ==
  /\ stats' = [stats EXCEPT !["dropped"] = @ + IF Cardinality(q) < MaxQueued THEN 0 ELSE 1]
  /\ since' = [since EXCEPT !["dropped"] = @ + IF Cardinality(q) < MaxQueued THEN 0 ELSE 1]

Enqueue ==
  /\ alive
  /\ hist.made < MaxIntervals
  /\ queue' = Bounded(queue, hist.made + 1)
  /\ CountShifted(queue)
  /\ hist' = [hist EXCEPT !.made = @ + 1,
                !.discarded = @ \cup (queue \ queue')]
  /\ UNCHANGED <<procVars, profiles, captureReports, pending, totals, tracked, asks,
                 endVars, sinceExceptions, flushVars, alive, outVars, ledger>>

EnqueueProfile ==
  /\ alive
  /\ hist.profiles < MaxProfiles
  /\ profiles' = Bounded(profiles, hist.profiles + 1)
  /\ CountShifted(profiles)
  /\ hist' = [hist EXCEPT !.profiles = @ + 1,
                !.discardedProfiles = @ \cup (profiles \ profiles')]
  /\ UNCHANGED <<procVars, queue, captureReports, pending, totals, tracked, asks,
                 endVars, sinceExceptions, flushVars, alive, outVars, ledger>>

\* Replaces, never accumulates.
EnqueueCaptures(reports) ==
  /\ alive
  /\ captureReports # reports
  /\ captureReports' = reports
  /\ UNCHANGED <<procVars, queue, profiles, pending, totals, tracked, asks, endVars,
                 countVars, flushVars, alive, outVars, histVars>>

EnqueueTrigger(g) ==
  /\ alive
  /\ g \notin asks
  /\ Cardinality(asks) < MaxTriggers
  /\ hist.asked[g] < MaxAsks
  /\ asks' = asks \cup {g}
  /\ hist' = [hist EXCEPT !.asked[g] = @ + 1]
  /\ UNCHANGED <<procVars, queue, profiles, captureReports, pending, totals, tracked,
                 endVars, countVars, flushVars, alive, outVars, ledger>>

DeclareEnding(e) ==
  /\ alive
  /\ ending = NoEnding
  /\ ending' = e
  /\ hist' = [hist EXCEPT !.overtaken = phase \in {"writing", "sending"}]
  /\ UNCHANGED <<procVars, listVars, endingLanded, countVars, flushVars, alive,
                 outVars, ledger>>

-----------------------------------------------------------------------------
\* flush.

\* The guards, the assembled batch, and the inspector's write begun.
FlushBegin ==
  /\ alive
  /\ phase = "idle" /\ HasSomethingToSay /\ ~silent
  /\ batch' = Assemble
  /\ phase' = "writing"
  /\ UNCHANGED <<procVars, listVars, endVars, countVars, silent, answer, alive,
                 outVars, histVars>>

\* What leaves the queues with a batch that landed, was refused or was written.
TakeOffCarried ==
  /\ queue' = Without(queue, batch.intervals)
  /\ profiles' = Without(profiles, batch.profile)

\* The write is done, and with no cloud that is the whole flush.
FlushWritten ==
  /\ alive
  /\ phase = "writing" /\ Local
  /\ file' = [intervals |-> file.intervals \cup batch.intervals,
              profiles  |-> file.profiles \cup batch.profile,
              endings   |-> file.endings \cup ({batch.ending} \ {NoEnding})]
  /\ TakeOffCarried
  /\ endingLanded' = (endingLanded \/ ending # NoEnding)
  /\ phase' = "idle" /\ batch' = NoBatch
  /\ UNCHANGED <<procVars, captureReports, pending, totals, tracked, asks, ending,
                 countVars, silent, answer, alive, late, cloud, histVars>>

FlushSend ==
  /\ alive
  /\ phase = "writing" /\ ~Local
  /\ phase' = "sending"
  /\ UNCHANGED <<procVars, listVars, endVars, countVars, silent, batch, answer, alive,
                 outVars, histVars>>

Answered(a) == phase = "sending" /\ answer = a /\ alive

EndFlush == phase' = "idle" /\ batch' = NoBatch /\ answer' = "none"

\* res.ok: everything the batch carried is taken off, and only that, but for the captures'
\* reports; those it carried are said to be reported.  The batch stays in flight while the
\* answer's body is read.
Landed ==
  /\ Answered("accepted")
  /\ TakeOffCarried
  /\ endingLanded' = (endingLanded \/ ending # NoEnding)
  /\ captureReports' = {}
  /\ pending' = Minus(pending, batch.exceptions)
  /\ asks' = Without(asks, batch.asks)
  /\ since' = Minus(since, batch.declared)
  /\ sinceExceptions' = Minus(sinceExceptions, batch.declaredExceptions)
  /\ hist' = [hist EXCEPT !.said = @ \cup batch.reports]
  /\ phase' = "reading" /\ batch' = NoBatch /\ answer' = "none"
  /\ UNCHANGED <<procVars, totals, tracked, ending, stats, silent, alive, outVars, ledger>>

\* readAnswer settles, with or without a body it could read.
AnswerRead ==
  /\ alive
  /\ phase = "reading"
  /\ phase' = "idle"
  /\ UNCHANGED <<procVars, listVars, endVars, countVars, silent, batch, answer, alive,
                 outVars, histVars>>

CountOneUnsaid(c) ==
  /\ stats' = [stats EXCEPT ![c] = @ + 1]
  /\ UNCHANGED since

CountOne(c) ==
  /\ stats' = [stats EXCEPT ![c] = @ + 1]
  /\ since' = [since EXCEPT ![c] = @ + 1]

\* 400, 413 or 422: the intervals and the profile are thrown away, the rest stays.
Rejected ==
  /\ Answered("rejected")
  /\ TakeOffCarried
  /\ CountOne("rejected")
  /\ EndFlush
  /\ hist' = [hist EXCEPT !.discarded = @ \cup batch.intervals,
                !.discardedProfiles = @ \cup batch.profile]
  /\ UNCHANGED <<procVars, captureReports, pending, totals, tracked, asks, endVars,
                 sinceExceptions, silent, alive, outVars, ledger>>

\* Any other status: everything stays, and a 429 that names a wait silences.
Refused ==
  /\ \E a \in {"refused", "wait"} :
       /\ Answered(a)
       /\ silent' = (a = "wait" \/ silent)
  /\ CountOne("failed")
  /\ EndFlush
  /\ UNCHANGED <<procVars, listVars, endVars, sinceExceptions, alive, outVars, histVars>>

\* The deadline passes, or the connection breaks: whatever the cloud did with the
\* request, or will do, this side does not know.
TimeOut ==
  /\ alive
  /\ phase = "sending"
  /\ stats["failed"] < MaxFailures
  /\ CountOne("failed")
  /\ EndFlush
  /\ \/ UNCHANGED late
     \/ /\ answer = "none"
        /\ Cardinality(late) < MaxLate
        /\ late' = late \cup {batch}
  /\ UNCHANGED <<procVars, listVars, endVars, sinceExceptions, silent, alive, cloud,
                 file, histVars>>

SilenceEnds ==
  /\ silent
  /\ silent' = FALSE
  /\ UNCHANGED <<procVars, listVars, endVars, countVars, phase, batch, answer, alive,
                 outVars, histVars>>

-----------------------------------------------------------------------------
\* Writing now, and blocking.

\* writeNow: what is queued goes to the file under the ending `e`, and leaves the
\* queues.  A write in flight is not waited for.
WriteNowAllButInFlight(e) ==
  /\ file' = [file EXCEPT !.intervals = @ \cup (queue \ batch.intervals),
                         !.endings = @ \cup ({e} \ {NoEnding})]
  /\ queue' = {}
  /\ profiles' = {}

WriteNow(e) ==
  LET now == Assemble
  IN /\ file' = [intervals |-> file.intervals \cup now.intervals,
                 profiles  |-> file.profiles \cup now.profile,
                 endings   |-> file.endings \cup ({e} \ {NoEnding})]
     /\ queue' = {}
     /\ profiles' = profiles \ now.profile

\* Under `check`, each time no request is in flight.
WriteHeld ==
  /\ alive /\ Local
  /\ queue # {} \/ profiles # {}
  /\ WriteNow(ending)
  /\ hist' = [hist EXCEPT !.checkpoint = (1 .. hist.made) \ hist.discarded]
  /\ UNCHANGED <<procVars, captureReports, pending, totals, tracked, asks, endVars,
                 countVars, flushVars, alive, late, cloud, ledger>>

\* process.on("exit"), and the end of the process with it.  The write in flight, if
\* any, does not finish.
DumpOnExit(e) ==
  LET left == IF ending = NoEnding THEN e ELSE ending
  IN
  /\ alive
  /\ alive' = FALSE
  /\ IF Local /\ (queue # {} \/ profiles # {} \/ EndingPending)
     THEN /\ WriteNow(left)
          /\ ending' = left /\ endingLanded' = TRUE
     ELSE UNCHANGED <<queue, profiles, endVars, file>>
  /\ hist' = [hist EXCEPT !.exited = TRUE, !.leaving = profiles]
  /\ UNCHANGED <<procVars, captureReports, pending, totals, tracked, asks, countVars,
                 flushVars, late, cloud, ledger>>

\* SIGKILL: nothing runs.
Killed ==
  /\ alive
  /\ alive' = FALSE
  /\ UNCHANGED <<procVars, listVars, endVars, countVars, flushVars, outVars, histVars>>

-----------------------------------------------------------------------------
\* The cloud, as the protocol's schema describes it.  Outside src.

\* What a delivery adds: what its total goes beyond both the largest total already
\* applied and what the sender knows was applied.  Without a total, its count.
Adds(last, count, total) ==
  IF total = 0 THEN count
  ELSE LET known == IF last > total - count THEN last ELSE total - count
       IN IF total > known THEN total - known ELSE 0

Apply(b) ==
  cloud' =
    [last    |-> [s \in Sig |-> IF b.total[s] > cloud.last[s] THEN b.total[s]
                                ELSE cloud.last[s]],
     applied |-> [s \in Sig |-> cloud.applied[s] +
                    Adds(cloud.last[s], b.exceptions[s], b.total[s])],
     told    |-> Plus(cloud.told, b.declared),
     toldExceptions |-> Plus(cloud.toldExceptions, b.declaredExceptions),
     intervals |-> cloud.intervals \cup b.intervals,
     profiles  |-> cloud.profiles \cup b.profile,
     asked     |-> [g \in Signal |-> cloud.asked[g] + IF g \in b.asks THEN 1 ELSE 0],
     reported  |-> cloud.reported \cup b.reports,
     endings   |-> cloud.endings \cup ({b.ending} \ {NoEnding})]

Unanswered == phase = "sending" /\ answer = "none"

CloudAccepts ==
  /\ Unanswered
  /\ Apply(batch)
  /\ answer' = "accepted"
  /\ UNCHANGED <<procVars, listVars, endVars, countVars, silent, phase, batch, alive,
                 late, file, histVars>>

CloudRejects ==
  /\ Unanswered
  /\ stats["rejected"] < MaxRejected
  /\ answer' = "rejected"
  /\ UNCHANGED <<procVars, listVars, endVars, countVars, silent, phase, batch, alive,
                 outVars, histVars>>

CloudRefuses(a) ==
  /\ Unanswered
  /\ stats["failed"] < MaxFailures
  /\ answer' = a
  /\ UNCHANGED <<procVars, listVars, endVars, countVars, silent, phase, batch, alive,
                 outVars, histVars>>

\* A request the sender gave up on is read after all.
CloudAcceptsLate(b) ==
  /\ Apply(b)
  /\ late' = late \ {b}
  /\ UNCHANGED <<procVars, listVars, endVars, countVars, flushVars, alive, file, histVars>>

-----------------------------------------------------------------------------
Process ==
  \/ \E s \in Sig : Record(s)
  \/ EnqueueExceptions \/ Enqueue \/ EnqueueProfile
  \/ \E reports \in SUBSET Capture : EnqueueCaptures(reports)
  \/ \E g \in Signal : EnqueueTrigger(g)
  \/ \E e \in Ending : DeclareEnding(e)

Flush == FlushBegin \/ FlushWritten \/ FlushSend

Answer == Landed \/ AnswerRead \/ Rejected \/ Refused \/ TimeOut \/ SilenceEnds

WayOut == WriteHeld \/ (\E e \in Ending : DumpOnExit(e)) \/ Killed

Cloud ==
  \/ CloudAccepts \/ CloudRejects
  \/ \E a \in {"refused", "wait"} : CloudRefuses(a)
  \/ \E b \in late : CloudAcceptsLate(b)

Next == Process \/ Flush \/ Answer \/ WayOut \/ Cloud

Spec == Init /\ [][Next]_vars

\* The interval's timer flushes again and again, a request ends with an answer or with
\* its deadline, and a wait the cloud asked for has a cap: no step of a flush is put off
\* for ever.  The bounds on failures and refusals say that the cloud answers some day.
FairSpec ==
  /\ Spec
  /\ WF_vars(EnqueueExceptions) /\ WF_vars(Flush) /\ WF_vars(Answer)
  /\ WF_vars(CloudAccepts)

-----------------------------------------------------------------------------
\* Properties.

\* What a signature's occurrences come to: the cloud never counts one twice that this
\* sender keeps a total for, whatever answers were lost and whatever requests arrived
\* late (transport.ts 323-350, 365-379; gh-625, gh-626).
CountedAtMostOnce ==
  \A s \in tracked : cloud.applied[s] + refused[s] <= handed[s]

\* And none vanishes: what was handed over and is not at the cloud is still pending or
\* was counted as dropped.  Signatures without a total included.
NoOccurrenceVanishes ==
  \A s \in Sig :
    handed[s] <= cloud.applied[s] + refused[s] + pending[s]

\* The sender implements the promise of CountedDelivery for every signature it keeps a
\* total for, under lost answers and late requests.
Delivery == INSTANCE CountedDelivery WITH
  happened <- thrown,
  counted  <- [s \in Sig |-> IF s \in tracked THEN cloud.applied[s] ELSE 0],
  lost     <- lost

CountedOnce == Delivery!Spec

\* Nothing between the throw and the hand-over is lost without a word either, and the
\* loss reaches the cloud or is still to say: a counter never dies with its batch
\* (exceptions.ts 67-121, transport.ts 269-280; gh-243, gh-659, gh-724).
LossIsSaid ==
  \A s \in Sig :
    lost[s] <= cloud.toldExceptions[s] + sinceExceptions[s] + registerDropped[s]

\* The same for the three batch counters.
CountersNeverLieDownwards ==
  \A c \in Counter : stats[c] <= cloud.told[c] + since[c]

\* An interval is queued, at its destination, or among those counted as dropped or
\* rejected: a landing takes off what it carried and nothing that came after.
NoIntervalVanishes ==
  1 .. hist.made \subseteq
    queue \cup cloud.intervals \cup file.intervals \cup hist.discarded

\* So is a profile, though a batch carries one of those that are queued.
NoProfileVanishes ==
  1 .. hist.profiles \subseteq
    profiles \cup cloud.profiles \cup file.profiles \cup hist.discardedProfiles

\* An ask stays until a batch that carried it landed (gh-409, gh-626).
NoAskVanishes ==
  \A g \in Signal : hist.asked[g] <= cloud.asked[g] + IF g \in asks THEN 1 ELSE 0

\* A start of a capture is said to be reported only once the cloud has it, whatever was
\* handed over while the batch was in flight (gh-379).
ReportedMeansHeard == hist.said \subseteq cloud.reported

\* Every batch that says how the process leaves says the same thing (ADR 0148), and unless it
\* was declared with a batch already in flight, it is something to say until one has said it.
EndingHeard ==
  /\ Cardinality(cloud.endings \cup file.endings) <= 1
  /\ endingLanded => hist.overtaken \/ cloud.endings \cup file.endings = {ending}

\* Whatever else a batch carries is held until a batch that carried it landed, each with its
\* own way of being taken off: intervals, profiles, asks, reports and the ending, of which
\* what is overtaken is left out (EndingLandedMeansSaid).
NothingElseVanishes ==
  NoIntervalVanishes /\ NoProfileVanishes /\ NoAskVanishes /\ ReportedMeansHeard /\ EndingHeard

\* "Whether a batch that carries the ending has landed" (transport.ts 258-262): it is taken for
\* said only once one has.
EndingLandedMeansSaid ==
  endingLanded => cloud.endings \cup file.endings # {}

\* With a file and no cloud, a process that exits on its own leaves every interval it
\* closed in the file, even with a write in flight that never finished (DT-79).
IntervalsAtExit ==
  hist.exited /\ Local => 1 .. hist.made \subseteq file.intervals \cup hist.discarded

\* Of its profiles a batch carries one, so one that is not there was held at the exit, after
\* the first of those that were.
OldestProfileAtExit ==
  hist.exited /\ Local =>
    (1 .. hist.profiles) \ (file.profiles \cup hist.discardedProfiles)
      \subseteq hist.leaving \ Oldest(hist.leaving)

\* And a process that is killed has every interval it held at the last writeHeld there.
CheckpointWritten == hist.checkpoint \subseteq file.intervals

\* Without a cloud, no way of going away takes the intervals the file was to have, nor the
\* first of the profiles that wait (transport.ts 614-619).
HeldIsWritten == IntervalsAtExit /\ OldestProfileAtExit /\ CheckpointWritten

\* A process that exits "keeps what it was holding" (transport.ts 581-584): every profile too.
\* It does not hold of a second profile, with the first on its way to the file.
ProfilesAtExit ==
  hist.exited /\ Local =>
    1 .. hist.profiles \subseteq file.profiles \cup hist.discardedProfiles

\* What the process threw does not wait for ever: while the process lives, it reaches
\* the cloud or is counted as lost, once the cloud answers.
NothingWaitsForEver ==
  \A s \in Sig :
    register[s] + pending[s] > 0 ~> (~alive \/ register[s] + pending[s] = 0)
=============================================================================
