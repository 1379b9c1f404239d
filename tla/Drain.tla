-------------------------------- MODULE Drain --------------------------------
(***************************************************************************)
(* The flushes of the agent (packages/agent/src/agent.ts, flush, flushOnce,*)
(* enqueueHeld, deliverEvidence and the doors that start a way out), with  *)
(* the captures they deliver (captures.ts), the version they wait for      *)
(* (deployed.ts) and what of the sender decides who sends.                 *)
(*                                                                         *)
(* Several flushes are under way at once: the timer starts one per interval*)
(* and each may wait for an answer, or for the evidence of a capture after *)
(* another.  A way out waits for those it finds, under one deadline.       *)
(*                                                                         *)
(* What runs between two awaits is one step, and what can go on does       *)
(* before the event loop takes another task.  What the recorder, the       *)
(* profile, the exceptions and the asks hold is a set of items; the module *)
(* Sender says what becomes of each kind when answers are lost or late.    *)
(***************************************************************************)
EXTENDS Integers, FiniteSets, Sequences

CONSTANTS
  Capture,
  Door,         \* what starts a way out: "stop", "disable", "signal", "idle"
  MaxLive,      \* MAX_LIVE_CAPTURES
  \* Bounds of the model:
  MaxFlushes, MaxItems, MaxAccepted

ASSUME DrainAssumption ==
  /\ IsFiniteSet(Capture)
  /\ Door \subseteq {"stop", "disable", "signal", "idle"}
  /\ MaxLive \in Nat \ {0}
  /\ {MaxFlushes, MaxItems, MaxAccepted} \subseteq Nat

VARIABLES
  flushes,   \* in the order they began: see Flush
  attached,  \* Agent.started: the timer and the subscriptions are there
  drain,     \* the flush `stopping` is about, 0 for none
  recorded,  \* items the registers hold
  queued, captureReports, ending, endingLanded, inflight, batch, \* the sender
  version,   \* DeployedVersion.chosen
  settled,   \* DeployedVersion.settled: the search is over, or there was none
  live,      \* the captures under way
  closed,    \* those of them whose window has closed
  reported,  \* those of them whose start was said
  paused,    \* ReferenceRegister.paused
  alive,
  cloud,
  \* History: items made, acceptances, fates of their evidence, who left by which flush.
  \* `slow`: a deadline passed with a request under way; `troubled`: one passed, or a batch was lost.
  made, accepted, sent, without, slow, troubled, left

captureVars == <<live, closed, reported, paused>>
senderVars  == <<queued, captureReports, ending, endingLanded, inflight, batch, version, settled>>
fateVars    == <<accepted, sent, without>>
drainVars   == <<flushes, attached, drain, recorded, senderVars, captureVars, alive, cloud,
                 made, fateVars, slow, troubled, left>>

Counts == [Capture -> Nat]
NoCounts == [c \in Capture |-> 0]
Versions == {"open", "digest", "unknown"}
NoBatch  == [items |-> {}, reports |-> {}, version |-> "open"]

\* `held` is history: the items the agent held when the flush began.
Flush ==
  [kind : {"timer"} \cup Door,
   at : {"waiting", "version", "sending", "reading", "evidence", "done"},
   wait : SUBSET Nat, todo : SUBSET Capture, passed : BOOLEAN, held : SUBSET Nat]

Began      == DOMAIN flushes
UnderWay   == {f \in Began : flushes[f].at # "done"}
Leaving(f) == flushes[f].kind # "timer"

DrainTypeOK ==
  /\ flushes \in Seq(Flush)
  /\ attached \in BOOLEAN /\ alive \in BOOLEAN /\ paused \in BOOLEAN
  /\ slow \in BOOLEAN /\ troubled \in BOOLEAN
  /\ drain \in {0} \cup Began /\ inflight \in {0} \cup Began /\ left \in {0} \cup Began
  /\ made \in Nat
  /\ recorded \cup queued \cup batch.items \cup cloud.items \subseteq 1 .. made
  /\ captureReports \subseteq Capture /\ batch.reports \subseteq Capture
  /\ version \in Versions /\ batch.version \in Versions
  /\ settled \in BOOLEAN /\ (settled => version # "open")
  /\ ending \in {"none", "exit", "signal", "idle"} /\ endingLanded \in BOOLEAN
  /\ Cardinality(live) <= MaxLive
  /\ live \subseteq Capture /\ closed \subseteq live /\ reported \subseteq live
  /\ {accepted, sent, without, cloud.starts, cloud.unanswered} \subseteq Counts

DrainInit ==
  /\ flushes = <<>> /\ attached = TRUE /\ drain = 0
  /\ recorded = {}
  /\ queued = {} /\ captureReports = {} /\ ending = "none" /\ endingLanded = FALSE
  /\ inflight = 0 /\ batch = NoBatch
  \* Searched for, or said by the configuration.
  /\ version \in {"open", "digest"} /\ settled = (version # "open")
  /\ live = {} /\ closed = {} /\ reported = {} /\ paused = FALSE
  /\ alive = TRUE
  /\ cloud = [items |-> {}, starts |-> NoCounts, unanswered |-> NoCounts, heard |-> {},
              versions |-> {}]
  /\ made = 0 /\ accepted = NoCounts /\ sent = NoCounts /\ without = NoCounts
  /\ slow = FALSE /\ troubled = FALSE /\ left = 0

-----------------------------------------------------------------------------
\* Going on.

\* settledWithin: all of them have finished, or the deadline has passed.
WaitOver(f) ==
  flushes[f].wait \cap UnderWay = {} \/ flushes[f].passed

\* A flush that waits for the version waits for the end of the search: a read that fixes the version
\* meanwhile wakes nobody.
Resumable ==
  {f \in Began : \/ flushes[f].at = "waiting" /\ WaitOver(f)
                 \/ flushes[f].at = "version" /\ settled}

\* The event loop takes a task only when nothing is left to go on.
Task == alive /\ Resumable = {}

At(f, at) == [flushes EXCEPT ![f].at = at]

-----------------------------------------------------------------------------
\* What a flush does between two awaits.

\* Captures.toReport.
ToReport == live \ reported

\* enqueueHeld: the registers' items join the queue, and the reports are replaced.
EnqueueHeld ==
  /\ queued' = queued \cup recorded
  /\ recorded' = {}
  /\ captureReports' = ToReport

\* take and takeAll: those whose window has closed, or on the way out all of them.
Taken(f, lives) == IF Leaving(f) THEN lives ELSE closed

\* Evidence is sent once: taking removes it.
StillLiveAll(lives, taken) == lives
StillLive(lives, taken)    == lives \ taken

\* renewReference.
PausedNever(lives) == FALSE
PausedWith(lives)  == lives # {}

\* deliverEvidence begins, with the captures that are live by now; with none to deliver the flush
\* ends, and the reference samples follow.
BeginEvidence(f, lives, renew) ==
  LET taken == Taken(f, lives)
  IN
  /\ flushes' = [flushes EXCEPT ![f].todo = taken,
                               ![f].at = IF taken = {} THEN "done" ELSE "evidence"]
  /\ live' = StillLive(lives, taken)
  /\ closed' = closed \ taken
  /\ reported' = reported \ taken
  /\ paused' = IF taken = {} \/ renew THEN PausedWith(lives) ELSE paused
  /\ UNCHANGED <<sent, without>>

EndingPending == ending # "none" /\ ~endingLanded

\* DeployedVersion.read: the first read chooses.
ReadUnfixed == version
Read        == IF version = "open" THEN "unknown" ELSE version

\* Sender.flush with the queue and the reports as they are now: a batch in flight, or nothing to
\* say, and the flush goes on without one.
SendBatch(f, items, reports) ==
  IF inflight = 0 /\ (items # {} \/ reports # {} \/ EndingPending)
  THEN /\ inflight' = f
       /\ batch' = [items |-> items, reports |-> reports,
                    version |-> IF version = "open" THEN "unknown" ELSE version]
       /\ version' = Read
       /\ flushes' = At(f, "sending")
       /\ UNCHANGED <<captureVars, fateVars>>
  ELSE /\ BeginEvidence(f, live, FALSE)
       /\ UNCHANGED <<inflight, batch, version, accepted>>

\* The captures are taken, and what is held is queued; the version may still be searched for.
HoldAndSend(f) ==
  /\ EnqueueHeld
  /\ IF version = "open"
     THEN /\ flushes' = At(f, "version")
          /\ UNCHANGED <<inflight, batch, version, captureVars, fateVars>>
     ELSE SendBatch(f, queued', captureReports')

-----------------------------------------------------------------------------
\* A flush begins.

\* What a way out waits for: read before it joins them.
WaitsForNothing  == {}
WaitsFor         == UnderWay

NewFlush(kind, at, wait) ==
  [kind |-> kind, at |-> at, wait |-> wait, todo |-> {}, passed |-> FALSE,
   held |-> recorded \cup queued]

\* The interval's timer.  Nothing is waited for.
Timer ==
  /\ Task /\ attached
  /\ Len(flushes) < MaxFlushes
  /\ flushes' = Append(flushes, NewFlush("timer", "waiting", {}))
  /\ UNCHANGED <<attached, drain, recorded, senderVars, captureVars, alive, cloud, made,
                 fateVars, slow, troubled, left>>

Says(door) == CASE door = "stop" -> "exit" [] door = "disable" -> "none" [] OTHER -> door

\* A door: a second stop, or one after the agent disabled itself, is the drain under way or nothing
\* at all, and starts none.  The first way of leaving that is declared stays.
Leave(door) ==
  /\ Task
  /\ Len(flushes) < MaxFlushes
  /\ attached
  /\ door = "idle" => \A f \in Began : flushes[f].kind # "idle"
  /\ flushes' = Append(flushes, NewFlush(door, "waiting", WaitsFor))
  /\ ending' = IF ending = "none" THEN Says(door) ELSE ending
  /\ IF door \in {"stop", "disable"}
     THEN attached' = FALSE /\ drain' = Len(flushes')
     ELSE UNCHANGED <<attached, drain>>
  /\ UNCHANGED <<recorded, queued, captureReports, endingLanded, inflight, batch, version,
                 settled, captureVars, alive, cloud, made, fateVars, slow, troubled, left>>

-----------------------------------------------------------------------------
\* A flush goes on.

GoOn(f) ==
  /\ alive /\ f \in Resumable
  /\ IF flushes[f].at = "waiting"
     THEN HoldAndSend(f)
     ELSE /\ SendBatch(f, queued, captureReports)
          /\ UNCHANGED <<recorded, queued, captureReports>>
  /\ UNCHANGED <<attached, drain, ending, endingLanded, settled, alive, cloud, made, slow, troubled,
                 left>>

\* Half the deadline has passed before the search was over, and the batch leaves with the version unknown.
HalfPasses(f) ==
  /\ Task
  /\ Leaving(f) /\ flushes[f].at = "version"
  /\ SendBatch(f, queued, captureReports)
  /\ UNCHANGED <<attached, drain, recorded, queued, captureReports, ending, endingLanded,
                 settled, alive, cloud, made, slow, troubled, left>>

\* The search ends, with an answer or at the end of its budget; too late if a batch has read it.
VersionSettles ==
  /\ Task /\ ~settled
  /\ settled' = TRUE
  /\ IF version = "open" THEN version' \in {"digest", "unknown"} ELSE UNCHANGED version
  /\ UNCHANGED <<flushes, attached, drain, recorded, queued, captureReports, ending,
                 endingLanded, inflight, batch, captureVars, alive, cloud, made, fateVars,
                 slow, troubled, left>>

\* The batch's starts, said: mutant.
SaidNothing(starts) == reported
Said(starts)        == reported \cup (starts \cap live)

\* The cloud takes the batch.  History: how often it heard of each capture's start, in how many
\* batches whose answer was lost, and of which acceptance of each.
More(counts, captures) ==
  [c \in Capture |-> counts[c] + IF c \in captures THEN 1 ELSE 0]

CloudWith(answered) ==
  [items      |-> cloud.items \cup batch.items,
   starts     |-> More(cloud.starts, batch.reports),
   unanswered |-> More(cloud.unanswered, IF answered THEN {} ELSE batch.reports),
   heard      |-> cloud.heard \cup {<<c, accepted[c]>> : c \in batch.reports},
   versions   |-> cloud.versions \cup {batch.version}]

\* It answers; the body is still to be read.
Landed(f) ==
  /\ Task
  /\ flushes[f].at = "sending" /\ ~flushes[f].passed
  /\ cloud' = CloudWith(TRUE)
  /\ queued' = queued \ batch.items
  /\ captureReports' = {}
  /\ reported' = Said(batch.reports)
  /\ endingLanded' = (endingLanded \/ ending # "none")
  /\ flushes' = At(f, "reading")
  /\ UNCHANGED <<attached, drain, recorded, ending, inflight, batch, version, settled, live,
                 closed, paused, alive, made, fateVars, slow, troubled, left>>

\* The orders obeyed of those an answer carries: not one under way, and no more than may be.  One
\* whose deadline has passed is not obeyed.
Fits(orders) == orders \cap live = {} /\ Cardinality(live \cup orders) <= MaxLive

\* The answer is read, and with it the captures the cloud asks for; then the captures that are
\* done, or all of them, are taken.
AnswerRead(f, orders, obeyed) ==
  /\ Task
  /\ flushes[f].at = "reading"
  /\ flushes[f].passed => orders = {}
  /\ Fits(obeyed) /\ \A c \in obeyed : accepted[c] < MaxAccepted
  /\ accepted' = More(accepted, obeyed)
  /\ inflight' = 0 /\ batch' = NoBatch
  /\ BeginEvidence(f, live \cup obeyed, orders # {})
  /\ UNCHANGED <<attached, drain, recorded, queued, captureReports, ending, endingLanded,
                 version, settled, alive, cloud, made, slow, troubled, left>>

\* Every request has a clock of its own, or the deadline of its way out.
TimedOnTheWayOut(f) == Leaving(f)
Timed(f)            == TRUE

\* The batch does not land: refused, lost or timed out, or taken by the cloud and its answer lost,
\* with what it carried still to be said for all the agent knows.
NotLanded(f) ==
  /\ Task /\ Timed(f)
  /\ flushes[f].at = "sending"
  /\ BeginEvidence(f, live, FALSE)
  /\ cloud' \in {cloud, CloudWith(FALSE)}
  /\ inflight' = 0 /\ batch' = NoBatch
  /\ troubled' = TRUE
  /\ UNCHANGED <<attached, drain, recorded, queued, captureReports, ending, endingLanded,
                 version, settled, alive, made, accepted, slow, left>>

\* What is left of a flush's evidence once some of it is settled; with none, the flush ends and the
\* reference samples follow.
EvidenceLeft(f, left_) ==
  /\ flushes' = [flushes EXCEPT ![f].todo = left_, ![f].at = IF left_ = {} THEN "done" ELSE @]
  /\ paused' = IF left_ = {} THEN PausedWith(live) ELSE paused
  /\ UNCHANGED <<attached, drain, recorded, senderVars, live, closed, reported, alive, cloud,
                 made, accepted, slow, troubled, left>>

\* One capture's request ends, with an answer or without.
EvidenceEnds(f, c) ==
  /\ Task /\ Timed(f)
  /\ flushes[f].at = "evidence" /\ ~flushes[f].passed
  /\ c \in flushes[f].todo
  /\ EvidenceLeft(f, flushes[f].todo \ {c})
  /\ sent' = [sent EXCEPT ![c] = @ + 1]
  /\ UNCHANGED without

\* The deadline has passed: the request under way is cut and the rest go without.
EvidenceCut(f) ==
  /\ Task
  /\ flushes[f].at = "evidence" /\ flushes[f].passed
  /\ EvidenceLeft(f, {})
  /\ without' = More(without, flushes[f].todo)
  /\ UNCHANGED sent

\* Half of it passes first, unless a wait took more than the other half.
DeadlinePasses(f) ==
  /\ Task
  /\ Leaving(f) /\ f \in UnderWay /\ ~flushes[f].passed
  /\ flushes[f].at = "version" => flushes[f].wait # {}
  /\ flushes' = [flushes EXCEPT ![f].passed = TRUE]
  /\ troubled' = TRUE
  /\ slow' = (slow \/ \E g \in Began : flushes[g].at \in {"sending", "reading", "evidence"})
  /\ UNCHANGED <<attached, drain, recorded, senderVars, captureVars, alive, cloud, made,
                 fateVars, left>>

-----------------------------------------------------------------------------
\* The application.

Traffic ==
  /\ Task /\ attached
  /\ made < MaxItems
  /\ made' = made + 1
  /\ recorded' = recorded \cup {made'}
  /\ UNCHANGED <<flushes, attached, drain, senderVars, captureVars, alive, cloud, fateVars,
                 slow, troubled, left>>

WindowCloses(c) ==
  /\ Task
  /\ c \in live \ closed
  /\ closed' = closed \cup {c}
  /\ UNCHANGED <<flushes, attached, drain, recorded, senderVars, live, reported, paused, alive,
                 cloud, made, fateVars, slow, troubled, left>>

\* The way out is over: the caller of stop exits, the signal is raised again, or the loop empties.
Leaves(f) ==
  /\ alive
  /\ flushes[f].at = "done"
  /\ \/ f = drain \/ flushes[f].kind = "signal"
     \/ flushes[f].kind = "idle" /\ UnderWay = {}
  /\ alive' = FALSE /\ left' = f
  /\ UNCHANGED <<flushes, attached, drain, recorded, senderVars, captureVars, cloud, made,
                 fateVars, slow, troubled>>

DrainNext ==
  \/ Timer
  \/ \E door \in Door : Leave(door)
  \/ VersionSettles
  \/ Traffic
  \/ \E c \in Capture : WindowCloses(c)
  \/ \E f \in Began :
       \/ GoOn(f) \/ HalfPasses(f) \/ Landed(f) \/ NotLanded(f)
       \/ \E orders \in SUBSET Capture : \E obeyed \in SUBSET orders : AnswerRead(f, orders, obeyed)
       \/ \E c \in Capture : EvidenceEnds(f, c)
       \/ EvidenceCut(f) \/ DeadlinePasses(f) \/ Leaves(f)

DrainSpec == DrainInit /\ [][DrainNext]_drainVars

\* Promises settle, a request ends with its answer or with its clock, and the search with its
\* budget.  Nothing is asked of the cloud.
FairDrainSpec ==
  /\ DrainSpec
  /\ WF_drainVars(\E f \in Began : GoOn(f)) /\ WF_drainVars(VersionSettles)
  /\ \A f \in 1 .. MaxFlushes :
       /\ WF_drainVars(f \in Began /\ NotLanded(f))
       /\ WF_drainVars(f \in Began /\ AnswerRead(f, {}, {}))
       /\ WF_drainVars(f \in Began /\ \E c \in Capture : EvidenceEnds(f, c))
       /\ WF_drainVars(f \in Began /\ EvidenceCut(f))

-----------------------------------------------------------------------------
\* Properties.

\* However the flushes overlap, every capture obeyed is being watched, in the hands of one flush,
\* or settled once: its evidence sent, or said to have gone without (captures.ts 130-145, agent.ts
\* 1251-1347).
CaptureAccountedFor ==
  \A c \in Capture :
    accepted[c] = (IF c \in live THEN 1 ELSE 0) + Cardinality({f \in Began : c \in flushes[f].todo})
                    + sent[c] + without[c]

\* A start is said once for each time the capture was accepted, and again only for a batch that the
\* cloud took and whose answer was lost; and one that is marked as said, and so is never said again,
\* is of an acceptance the cloud has heard of: whatever was handed over, taken or accepted again while
\* the batch was in flight (captures.ts 100-128, transport.ts 667-676).
StartsSaid ==
  \A c \in Capture :
    /\ cloud.starts[c] <= accepted[c] + cloud.unanswered[c]
    /\ c \in reported => <<c, accepted[c]>> \in cloud.heard

\* What every step keeps: the types, no more captures live than the cap, and the starts.
DrainInv == DrainTypeOK /\ StartsSaid

\* The samples are not renewed while a capture is watched, and are again when none is and nothing
\* is being delivered (agent.ts 1412-1422).
ReferenceFollows ==
  /\ live # {} => paused
  /\ paused => live # {} \/ \E f \in Began : flushes[f].at = "evidence"

\* Every batch says one version, though flushes and ways out stop waiting for the search at
\* different times (deployed.ts 346-355).
OneVersionSaid ==
  Cardinality(cloud.versions \cup ({batch.version} \ {"open"})) <= 1

\* A stop that its deadline did not cut and whose batches landed leaves nothing behind: what was
\* held when it began is at the cloud, and no capture is watched or in any flush's hands, though
\* flushes, a signal's too, were under way (ADR 0169, ADR 0203).
StopDelivers ==
  left # 0 /\ left = drain /\ ~troubled =>
    flushes[left].held \subseteq cloud.items /\ live = {} /\ UnderWay = {}

\* The same of every orderly ending (ADR 0169, Consequences).  It does not hold of a signal.
OrderlyEndingDelivers ==
  left # 0 /\ ~troubled => flushes[left].held \subseteq cloud.items

\* The search for the version leaves the batch of a way out the other half of its deadline: no
\* batch begins past it unless a request was slow (agent.ts 1179-1182).
SearchLeavesHalf ==
  \A f \in Began :
    Leaving(f) /\ flushes[f].at = "sending" /\ flushes[f].passed => slow

\* Whatever the cloud does, a flush ends, and the next one may send (ADR 0157).
EveryFlushEnds ==
  \A f \in 1 .. MaxFlushes : f \in UnderWay ~> (f \notin UnderWay \/ ~alive)
=============================================================================
