----------------------------- MODULE DrainProofs -----------------------------
(***************************************************************************)
(* Proofs about Drain for every value of its constants: however many       *)
(* flushes and ways out overlap, each capture is accounted for, a start is *)
(* said again only when an answer was lost, one version is said, and a     *)
(* stop leaves nothing behind.                                             *)
(*                                                                         *)
(* A stop is the last flush to begin, since what begins one is detached    *)
(* with it, and it waits for those it finds.  So if no deadline cuts it,   *)
(* it goes on alone: nothing new is recorded or sent beside it, and what   *)
(* it holds is all there is.                                               *)
(***************************************************************************)
EXTENDS Drain, FiniteSetTheorems, TLAPS

USE DEF drainVars, captureVars, senderVars, fateVars

\* One batch is in flight at a time, and says a version that was chosen.
OneBatch ==
  /\ \A f \in Began : flushes[f].at \in {"sending", "reading"} <=> inflight = f
  /\ inflight = 0 => batch = NoBatch
  /\ inflight # 0 => batch.version = version /\ version # "open"

\* Only a flush that is delivering evidence has some in its hands.
InHand == \A f \in Began : flushes[f].todo # {} => flushes[f].at = "evidence"

\* A start still to be said, by the batch whose answer is awaited or by a later one.
ToBeSaid ==
  (live \ reported) \cup captureReports
    \cup (IF \E f \in Began : flushes[f].at = "sending" THEN batch.reports ELSE {})

StartsAhead ==
  \A c \in Capture :
    cloud.starts[c] + (IF c \in ToBeSaid THEN 1 ELSE 0) <= accepted[c] + cloud.unanswered[c]

\* What is marked as said was heard of, as it was accepted last.
MarkedWasHeard == \A c \in reported : <<c, accepted[c]>> \in cloud.heard

\* What a batch or the cloud has of the version is the one that was chosen.
VersionFixed == cloud.versions \subseteq {version} \ {"open"}

\* An item held is at the cloud, or still held.
ItemsKept == \A f \in Began : flushes[f].held \subseteq recorded \cup queued \cup cloud.items

\* The stop, if there is one, began last, knows whom to wait for, and cannot be joined.
Detached ==
  /\ drain = 0 <=> attached
  /\ drain # 0 =>
       /\ drain = Len(flushes) /\ Leaving(drain)
       /\ UnderWay \subseteq {drain} \cup flushes[drain].wait
  /\ left # 0 => ~alive /\ flushes[left].at = "done"

\* If nothing went wrong, it goes on alone, and takes everything there is.
Alone ==
  drain # 0 /\ ~troubled /\ flushes[drain].at # "waiting" =>
    /\ UnderWay \subseteq {drain} /\ recorded = {}
    /\ flushes[drain].at = "sending" => queued \subseteq batch.items
    /\ flushes[drain].at \in {"reading", "evidence", "done"} => queued = {}
    /\ flushes[drain].at \in {"evidence", "done"} => live = {}

Untroubled == ~troubled => \A f \in Began : ~flushes[f].passed

DrainIInv ==
  /\ DrainTypeOK /\ OneBatch /\ InHand
  /\ StartsAhead /\ MarkedWasHeard /\ VersionFixed /\ CaptureAccountedFor /\ ReferenceFollows
  /\ ItemsKept /\ Detached /\ Untroubled /\ Alone

-----------------------------------------------------------------------------
\* What the steps do to the flushes.

\* Flush f moves on to `a`, with `t` in its hands; `p` says its deadline has passed.
Moves(f, a, t, p) ==
  /\ flushes' \in Seq(Flush) /\ Len(flushes') = Len(flushes)
  /\ Began' = Began
  /\ \A h \in Began : h # f => flushes'[h] = flushes[h]
  /\ flushes'[f] = [kind |-> flushes[f].kind, at |-> a, wait |-> flushes[f].wait,
                    todo |-> t, passed |-> p, held |-> flushes[f].held]

\* One more begins, after those there are.
Joins(kind, wait) ==
  /\ flushes' \in Seq(Flush) /\ Len(flushes') = Len(flushes) + 1
  /\ Began' = Began \cup {Len(flushes')} /\ Len(flushes') \notin Began
  /\ \A h \in Began : flushes'[h] = flushes[h]
  /\ flushes'[Len(flushes')] = NewFlush(kind, "waiting", wait)

\* What is known of the flushes that began.
LEMMA FlushTypes ==
  ASSUME DrainTypeOK
  PROVE  /\ flushes \in Seq(Flush) /\ Len(flushes) \in Nat
         /\ Began = 1 .. Len(flushes) /\ UnderWay \subseteq Began
         /\ \A f \in Began :
              /\ flushes[f] \in Flush
              /\ flushes[f] = [kind |-> flushes[f].kind, at |-> flushes[f].at,
                               wait |-> flushes[f].wait, todo |-> flushes[f].todo,
                               passed |-> flushes[f].passed, held |-> flushes[f].held]
              /\ flushes[f].todo \in SUBSET Capture /\ flushes[f].passed \in BOOLEAN
              /\ flushes[f].at \in {"waiting", "version", "sending", "reading", "evidence", "done"}
<1>1. flushes \in Seq(Flush)
  BY DEF DrainTypeOK
<1>2. Len(flushes) \in Nat /\ Began = 1 .. Len(flushes)
  BY <1>1 DEF Began
<1>3. \A f \in Began : flushes[f] \in Flush
  BY <1>1, <1>2
<1>4. \A r \in Flush :
        /\ r = [kind |-> r.kind, at |-> r.at, wait |-> r.wait, todo |-> r.todo,
                passed |-> r.passed, held |-> r.held]
        /\ r.todo \in SUBSET Capture /\ r.passed \in BOOLEAN
        /\ r.at \in {"waiting", "version", "sending", "reading", "evidence", "done"}
  BY DEF Flush
<1>5. UnderWay \subseteq Began
  BY DEF UnderWay
<1> QED BY <1>1, <1>2, <1>3, <1>4, <1>5

\* A flush that changes leaves the others alone.
LEMMA MovesTo ==
  ASSUME DrainTypeOK, NEW f \in Began, NEW r \in Flush,
         r.kind = flushes[f].kind, r.wait = flushes[f].wait, r.held = flushes[f].held,
         flushes' = [flushes EXCEPT ![f] = r]
  PROVE  Moves(f, r.at, r.todo, r.passed)
<1>1. flushes \in Seq(Flush) /\ Began = 1 .. Len(flushes)
  BY FlushTypes
<1>2. /\ flushes' \in Seq(Flush) /\ Len(flushes') = Len(flushes)
      /\ DOMAIN flushes' = DOMAIN flushes
  BY <1>1
<1>3. /\ flushes'[f] = r
      /\ \A h \in Began : h # f => flushes'[h] = flushes[h]
  BY <1>1 DEF Began
<1>4. r = [kind |-> r.kind, at |-> r.at, wait |-> r.wait, todo |-> r.todo,
           passed |-> r.passed, held |-> r.held]
  BY DEF Flush
<1> QED BY <1>2, <1>3, <1>4 DEF Moves, Began

\* A flush that goes on to its next wait.
LEMMA AtMoves ==
  ASSUME DrainTypeOK, NEW f \in Began,
         NEW a \in {"version", "sending", "reading"}, flushes' = At(f, a)
  PROVE  Moves(f, a, flushes[f].todo, flushes[f].passed)
<1> DEFINE r == [flushes[f] EXCEPT !.at = a]
<1>1. r \in Flush /\ r.at = a /\ r.todo = flushes[f].todo /\ r.passed = flushes[f].passed
      /\ r.kind = flushes[f].kind /\ r.wait = flushes[f].wait /\ r.held = flushes[f].held
  BY FlushTypes DEF Flush
<1>2. flushes' = [flushes EXCEPT ![f] = r]
  BY FlushTypes DEF At, Began
<1> HIDE DEF r
<1> QED BY <1>1, <1>2, MovesTo

\* A flush that takes captures in hand, or ends.
LEMMA HandMoves ==
  ASSUME DrainTypeOK, NEW f \in Began, NEW t \in SUBSET Capture,
         NEW a \in {"evidence", "done"},
         flushes' = [flushes EXCEPT ![f].todo = t, ![f].at = a]
  PROVE  Moves(f, a, t, flushes[f].passed)
<1> DEFINE r == [[flushes[f] EXCEPT !.todo = t] EXCEPT !.at = a]
<1>1. r \in Flush /\ r.at = a /\ r.todo = t /\ r.passed = flushes[f].passed
      /\ r.kind = flushes[f].kind /\ r.wait = flushes[f].wait /\ r.held = flushes[f].held
  BY FlushTypes DEF Flush
<1>2. flushes' = [flushes EXCEPT ![f] = r]
  BY FlushTypes DEF Began
<1> HIDE DEF r
<1> QED BY <1>1, <1>2, MovesTo

\* A flush that takes what is done, or all of it, and has it in its hands.
LEMMA BeginMoves ==
  ASSUME DrainTypeOK, NEW f \in Began, NEW lives \in SUBSET Capture, live \subseteq lives,
         NEW renew \in BOOLEAN, BeginEvidence(f, lives, renew)
  PROVE  /\ Taken(f, lives) \subseteq lives
         /\ Moves(f, IF Taken(f, lives) = {} THEN "done" ELSE "evidence", Taken(f, lives),
                  flushes[f].passed)
         /\ Leaving(f) => Taken(f, lives) = lives
         /\ live' = lives \ Taken(f, lives) /\ closed' = closed \ Taken(f, lives)
         /\ reported' = reported \ Taken(f, lives)
         /\ paused' = IF Taken(f, lives) = {} \/ renew THEN lives # {} ELSE paused
         /\ UNCHANGED <<sent, without>>
<1> DEFINE taken == Taken(f, lives)
<1>1. taken \subseteq lives /\ (Leaving(f) => taken = lives)
  BY DEF Taken, DrainTypeOK
<1>2. taken \in SUBSET Capture
  BY <1>1
<1>3. flushes' = [flushes EXCEPT ![f].todo = taken,
                                 ![f].at = IF taken = {} THEN "done" ELSE "evidence"]
  BY DEF BeginEvidence
<1>4. (IF taken = {} THEN "done" ELSE "evidence") \in {"evidence", "done"}
  OBVIOUS
<1>5. Moves(f, IF taken = {} THEN "done" ELSE "evidence", taken, flushes[f].passed)
  BY <1>2, <1>3, <1>4, HandMoves
<1> QED BY <1>1, <1>5 DEF BeginEvidence, StillLive, PausedWith

\* A flush whose evidence left.
LEMMA LeftMoves ==
  ASSUME DrainTypeOK, NEW f \in Began, NEW t \in SUBSET Capture,
         flushes[f].at = "evidence", EvidenceLeft(f, t)
  PROVE  Moves(f, IF t = {} THEN "done" ELSE "evidence", t, flushes[f].passed)
<1>1. flushes' = [flushes EXCEPT ![f].todo = t,
                                 ![f].at = IF t = {} THEN "done" ELSE "evidence"]
  BY FlushTypes DEF EvidenceLeft, Began
<1> QED BY <1>1, HandMoves

\* A flush whose half of the time is over.
LEMMA PassedMoves ==
  ASSUME DrainTypeOK, NEW f \in Began, flushes' = [flushes EXCEPT ![f].passed = TRUE]
  PROVE  Moves(f, flushes[f].at, flushes[f].todo, TRUE)
<1> DEFINE r == [flushes[f] EXCEPT !.passed = TRUE]
<1>1. r \in Flush /\ r.at = flushes[f].at /\ r.todo = flushes[f].todo /\ r.passed = TRUE
      /\ r.kind = flushes[f].kind /\ r.wait = flushes[f].wait /\ r.held = flushes[f].held
  BY FlushTypes DEF Flush
<1>2. flushes' = [flushes EXCEPT ![f] = r]
  BY FlushTypes DEF Began
<1> HIDE DEF r
<1> QED BY <1>1, <1>2, MovesTo

\* A flush that begins is the last.
LEMMA AppendJoins ==
  ASSUME DrainTypeOK, NEW kind \in {"timer"} \cup Door, NEW wait \in SUBSET Nat,
         flushes' = Append(flushes, NewFlush(kind, "waiting", wait))
  PROVE  Joins(kind, wait)
<1> DEFINE r == NewFlush(kind, "waiting", wait)
<1>1. recorded \cup queued \subseteq Nat
  BY DEF DrainTypeOK
<1>2. r \in Flush
  BY <1>1 DEF NewFlush, Flush
<1> HIDE DEF r
<1>3. flushes \in Seq(Flush) /\ Began = 1 .. Len(flushes)
  BY FlushTypes
<1>4. flushes' = Append(flushes, r)
  BY DEF r
<1>5. /\ flushes' \in Seq(Flush) /\ Len(flushes') = Len(flushes) + 1
      /\ DOMAIN flushes' = 1 .. Len(flushes')
      /\ \A h \in 1 .. Len(flushes) : flushes'[h] = flushes[h]
      /\ flushes'[Len(flushes) + 1] = r
  BY <1>2, <1>3, <1>4
<1>6. Began' = Began \cup {Len(flushes')} /\ Len(flushes') \notin Began
  BY <1>3, <1>5 DEF Began
<1> QED BY <1>3, <1>5, <1>6 DEF Joins, r

-----------------------------------------------------------------------------
\* A flush that goes on: it holds what the registers had and waits for the version, sends, or
\* goes on without a batch.

\* Its wait is over, and what the registers hold joins the queue.
Resumes(f) ==
  /\ alive
  /\ \/ /\ flushes[f].at = "waiting" /\ WaitOver(f)
        /\ EnqueueHeld
     \/ /\ flushes[f].at = "version"
        /\ UNCHANGED <<recorded, queued, captureReports>>
  /\ UNCHANGED <<attached, drain, ending, endingLanded, settled, alive, cloud, made, slow,
                 troubled, left, accepted>>

Holds(f) ==
  /\ Resumes(f)
  /\ Moves(f, "version", flushes[f].todo, flushes[f].passed)
  /\ UNCHANGED <<inflight, batch, version, captureVars, fateVars>>

Sends(f) ==
  /\ Resumes(f)
  /\ Moves(f, "sending", flushes[f].todo, flushes[f].passed)
  /\ inflight = 0 /\ inflight' = f
  /\ version' = Read
  /\ batch' = [items |-> queued', reports |-> captureReports', version |-> Read]
  /\ UNCHANGED <<captureVars, fateVars>>

Skips(f) ==
  /\ Resumes(f)
  /\ inflight = 0 => queued' = {}
  /\ BeginEvidence(f, live, FALSE)
  /\ UNCHANGED <<inflight, batch, version>>

\* A flush that goes on sends what is queued, or has nothing to send.
LEMMA SendOrSkip ==
  ASSUME DrainTypeOK, NEW f \in Began, Resumes(f), SendBatch(f, queued', captureReports')
  PROVE  Sends(f) \/ Skips(f)
<1>1. CASE inflight = 0 /\ (queued' # {} \/ captureReports' # {} \/ EndingPending)
  <2>1. flushes' = At(f, "sending") /\ inflight' = f /\ version' = Read
        /\ batch' = [items |-> queued', reports |-> captureReports', version |-> Read]
        /\ UNCHANGED <<captureVars, fateVars>>
    BY <1>1 DEF SendBatch, Read
  <2>2. Moves(f, "sending", flushes[f].todo, flushes[f].passed)
    BY <2>1, AtMoves
  <2> QED BY <1>1, <2>1, <2>2 DEF Sends
<1>2. CASE ~(inflight = 0 /\ (queued' # {} \/ captureReports' # {} \/ EndingPending))
  BY <1>2 DEF SendBatch, Skips
<1> QED BY <1>1, <1>2

\* What a flush that goes on may do.
LEMMA GoesOn ==
  ASSUME DrainTypeOK, NEW f \in Began, GoOn(f) \/ HalfPasses(f)
  PROVE  Holds(f) \/ Sends(f) \/ Skips(f)
<1>1. CASE GoOn(f) /\ flushes[f].at = "waiting"
  <2>1. EnqueueHeld /\ WaitOver(f) /\ alive
    BY <1>1 DEF GoOn, HoldAndSend, Resumable
  <2>2. UNCHANGED <<attached, drain, ending, endingLanded, settled, alive, cloud, made, slow,
                    troubled, left>>
    BY <1>1 DEF GoOn
  <2>3. CASE version = "open"
    <3>1. flushes' = At(f, "version")
          /\ UNCHANGED <<inflight, batch, version, captureVars, fateVars>>
      BY <1>1, <2>3 DEF GoOn, HoldAndSend
    <3> QED BY <1>1, <2>1, <2>2, <3>1, AtMoves DEF Holds, Resumes
  <2>4. CASE version # "open"
    <3>1. SendBatch(f, queued', captureReports')
      BY <1>1, <2>4 DEF GoOn, HoldAndSend
    <3>2. UNCHANGED accepted
      BY <3>1 DEF SendBatch
    <3> QED BY <1>1, <2>1, <2>2, <3>1, <3>2, SendOrSkip DEF Resumes
  <2> QED BY <2>3, <2>4
<1>2. CASE flushes[f].at # "waiting" \/ HalfPasses(f)
  <2>1. /\ flushes[f].at = "version" /\ alive
        /\ SendBatch(f, queued, captureReports)
        /\ UNCHANGED <<recorded, queued, captureReports>>
        /\ UNCHANGED <<attached, drain, ending, endingLanded, settled, alive, cloud, made, slow,
                       troubled, left>>
    BY <1>2 DEF GoOn, HalfPasses, Resumable, Task
  <2>2. UNCHANGED accepted
    BY <2>1 DEF SendBatch
  <2>3. SendBatch(f, queued', captureReports')
    BY <2>1 DEF SendBatch
  <2> QED BY <2>1, <2>2, <2>3, SendOrSkip DEF Resumes
<1> QED BY <1>1, <1>2

-----------------------------------------------------------------------------
\* The steps, each with what it does to the flushes.

LeaveJoins(door) ==
  /\ Leave(door)
  /\ Joins(door, UnderWay)

TimerJoins == Timer /\ Joins("timer", {})

LandedMoves(f) == Landed(f) /\ Moves(f, "reading", flushes[f].todo, flushes[f].passed)

\* A flush that is done with its batch takes captures: f with `lives` under way.
Takes(f, lives, renew) ==
  LET taken == Taken(f, lives)
  IN /\ taken \subseteq lives
     /\ Moves(f, IF taken = {} THEN "done" ELSE "evidence", taken, flushes[f].passed)
     /\ Leaving(f) => taken = lives
     /\ live' = lives \ taken /\ closed' = closed \ taken /\ reported' = reported \ taken
     /\ paused' = IF taken = {} \/ renew THEN lives # {} ELSE paused
     /\ UNCHANGED <<sent, without>>

ReadTakes(f, orders, obeyed) ==
  AnswerRead(f, orders, obeyed) /\ Takes(f, live \cup obeyed, orders # {})

NotLandedTakes(f) == NotLanded(f) /\ Takes(f, live, FALSE)

SkipTakes(f) == Skips(f) /\ Takes(f, live, FALSE)

EndsMoves(f, c) ==
  /\ EvidenceEnds(f, c)
  /\ Moves(f, IF flushes[f].todo = {c} THEN "done" ELSE "evidence", flushes[f].todo \ {c},
           flushes[f].passed)

CutMoves(f) == EvidenceCut(f) /\ Moves(f, "done", {}, flushes[f].passed)

PassMoves(f) == DeadlinePasses(f) /\ Moves(f, flushes[f].at, flushes[f].todo, TRUE)

DrainStep ==
  \/ UNCHANGED drainVars
  \/ TimerJoins \/ (\E door \in Door : LeaveJoins(door))
  \/ VersionSettles \/ Traffic \/ (\E c \in Capture : WindowCloses(c))
  \/ \E f \in Began :
       \/ Holds(f) \/ Sends(f) \/ SkipTakes(f)
       \/ LandedMoves(f) \/ NotLandedTakes(f)
       \/ \E orders \in SUBSET Capture : \E obeyed \in SUBSET orders : ReadTakes(f, orders, obeyed)
       \/ \E c \in Capture : EndsMoves(f, c)
       \/ CutMoves(f) \/ PassMoves(f) \/ Leaves(f)

\* No step does anything else.
LEMMA DrainSteps ==
  ASSUME DrainTypeOK, [DrainNext]_drainVars
  PROVE  DrainStep
<1>1. ASSUME Timer
      PROVE  TimerJoins
  <2>1. flushes' = Append(flushes, NewFlush("timer", "waiting", {}))
    BY <1>1 DEF Timer
  <2>2. {} \in SUBSET Nat
    OBVIOUS
  <2> QED BY <1>1, <2>1, <2>2, AppendJoins DEF TimerJoins
<1>2. ASSUME NEW door \in Door, Leave(door)
      PROVE  LeaveJoins(door)
  <2>1. flushes' = Append(flushes, NewFlush(door, "waiting", UnderWay))
    BY <1>2 DEF Leave, WaitsFor
  <2>2. UnderWay \in SUBSET Nat
    BY FlushTypes
  <2> QED BY <1>2, <2>1, <2>2, AppendJoins DEF LeaveJoins
<1>3. ASSUME NEW f \in Began, NEW lives \in SUBSET Capture, live \subseteq lives,
             NEW renew \in BOOLEAN, BeginEvidence(f, lives, renew)
      PROVE  Takes(f, lives, renew)
  BY <1>3, BeginMoves DEF Takes
<1>4. live \in SUBSET Capture
  BY DEF DrainTypeOK
<1>5. ASSUME NEW f \in Began, GoOn(f) \/ HalfPasses(f)
      PROVE  Holds(f) \/ Sends(f) \/ SkipTakes(f)
  <2>1. ASSUME Skips(f)
        PROVE  SkipTakes(f)
    <3>1. BeginEvidence(f, live, FALSE)
      BY <2>1 DEF Skips
    <3> QED BY <1>3, <1>4, <2>1, <3>1 DEF SkipTakes
  <2> QED BY <1>5, <2>1, GoesOn
<1>6. ASSUME NEW f \in Began, Landed(f)
      PROVE  LandedMoves(f)
  BY <1>6, AtMoves DEF Landed, LandedMoves
<1>7. ASSUME NEW f \in Began, NotLanded(f)
      PROVE  NotLandedTakes(f)
  <2>1. BeginEvidence(f, live, FALSE)
    BY <1>7 DEF NotLanded
  <2> QED BY <1>3, <1>4, <1>7, <2>1 DEF NotLandedTakes
<1>8. ASSUME NEW f \in Began, NEW orders \in SUBSET Capture, NEW obeyed \in SUBSET orders,
             AnswerRead(f, orders, obeyed)
      PROVE  ReadTakes(f, orders, obeyed)
  <2>1. BeginEvidence(f, live \cup obeyed, orders # {})
    BY <1>8 DEF AnswerRead
  <2>2. live \cup obeyed \in SUBSET Capture /\ (orders # {}) \in BOOLEAN
    BY <1>4
  <2>3. Takes(f, live \cup obeyed, orders # {})
    BY <1>3, <2>1, <2>2
  <2> QED BY <1>8, <2>3 DEF ReadTakes
<1>9. ASSUME NEW f \in Began, NEW c \in Capture, EvidenceEnds(f, c)
      PROVE  EndsMoves(f, c)
  <2>1. /\ flushes[f].todo \ {c} \in SUBSET Capture /\ c \in flushes[f].todo
        /\ flushes[f].at = "evidence" /\ EvidenceLeft(f, flushes[f].todo \ {c})
    BY <1>9, FlushTypes DEF EvidenceEnds
  <2>2. flushes[f].todo \ {c} = {} <=> flushes[f].todo = {c}
    BY <2>1
  <2>3. Moves(f, IF flushes[f].todo \ {c} = {} THEN "done" ELSE "evidence",
              flushes[f].todo \ {c}, flushes[f].passed)
    BY <2>1, LeftMoves
  <2> QED BY <1>9, <2>2, <2>3 DEF EndsMoves
<1>10. ASSUME NEW f \in Began, EvidenceCut(f)
       PROVE  CutMoves(f)
  <2>1. {} \in SUBSET Capture /\ flushes[f].at = "evidence" /\ EvidenceLeft(f, {})
    BY <1>10 DEF EvidenceCut
  <2> QED BY <1>10, <2>1, LeftMoves DEF CutMoves
<1>11. ASSUME NEW f \in Began, DeadlinePasses(f)
       PROVE  PassMoves(f)
  BY <1>11, PassedMoves DEF DeadlinePasses, PassMoves
<1>12. CASE UNCHANGED drainVars
  BY <1>12 DEF DrainStep
<1>13. CASE DrainNext
  BY <1>13, <1>1, <1>2, <1>5, <1>6, <1>7, <1>8, <1>9, <1>10, <1>11 DEF DrainNext, DrainStep
<1> QED BY <1>12, <1>13

-----------------------------------------------------------------------------
\* Type correctness.

\* A count that goes up by one for some is a count.
LEMMA CountsStep ==
  ASSUME NEW f \in Counts, NEW S
  PROVE  More(f, S) \in Counts
BY DEF Counts, More

\* What the cloud has once it took the batch.
LEMMA CloudTold ==
  ASSUME NEW answered \in BOOLEAN
  PROVE  LET told == CloudWith(answered)
         IN /\ told.items = cloud.items \cup batch.items
            /\ told.starts = More(cloud.starts, batch.reports)
            /\ told.unanswered = More(cloud.unanswered, IF answered THEN {} ELSE batch.reports)
            /\ told.heard = cloud.heard \cup {<<c, accepted[c]>> : c \in batch.reports}
            /\ told.versions = cloud.versions \cup {batch.version}
BY DEF CloudWith

\* Fewer captures are no more than the cap.
LEMMA FewerLive ==
  ASSUME NEW S \in SUBSET Capture, Cardinality(S) <= MaxLive, NEW T \in SUBSET S
  PROVE  Cardinality(T) <= MaxLive
<1>1. IsFiniteSet(S)
  BY DrainAssumption, FS_Subset
<1>2. Cardinality(T) <= Cardinality(S) /\ Cardinality(S) \in Nat /\ Cardinality(T) \in Nat
  BY <1>1, FS_Subset, FS_CardinalityType
<1> QED BY <1>2, DrainAssumption

\* The parts of the type invariant, apart.
FlushesOK ==
  /\ flushes \in Seq(Flush)
  /\ drain \in {0} \cup Began /\ inflight \in {0} \cup Began /\ left \in {0} \cup Began

FlagsOK ==
  /\ attached \in BOOLEAN /\ alive \in BOOLEAN /\ paused \in BOOLEAN
  /\ slow \in BOOLEAN /\ troubled \in BOOLEAN /\ endingLanded \in BOOLEAN
  /\ version \in Versions /\ batch.version \in Versions
  /\ settled \in BOOLEAN /\ (settled => version # "open")
  /\ ending \in {"none", "exit", "signal", "idle"}

ItemsOK ==
  /\ made \in Nat
  /\ recorded \cup queued \cup batch.items \cup cloud.items \subseteq 1 .. made
  /\ captureReports \subseteq Capture /\ batch.reports \subseteq Capture

CapturesOK ==
  /\ Cardinality(live) <= MaxLive
  /\ live \subseteq Capture /\ closed \subseteq live /\ reported \subseteq live
  /\ {accepted, sent, without, cloud.starts, cloud.unanswered} \subseteq Counts

\* The type invariant, part by part.
LEMMA TypeParts == DrainTypeOK <=> FlushesOK /\ FlagsOK /\ ItemsOK /\ CapturesOK
BY DEF DrainTypeOK, FlushesOK, FlagsOK, ItemsOK, CapturesOK

\* Every step keeps the flushes' types.
LEMMA FlushesStep ==
  ASSUME DrainTypeOK, DrainStep
  PROVE  FlushesOK'
<1> USE DEF FlushesOK
<1>t. FlushesOK
  BY TypeParts
<1>1. CASE UNCHANGED <<flushes, drain, inflight, left>>
  BY <1>1, <1>t DEF Began
<1>2. ASSUME NEW f \in Began, NEW a, NEW t, NEW p, Moves(f, a, t, p),
             UNCHANGED <<drain, left>>, inflight' \in {inflight, 0, f}
      PROVE  FlushesOK'
  BY <1>2, <1>t DEF Moves
<1>3. ASSUME NEW k, NEW w, Joins(k, w), UNCHANGED <<inflight, left>>,
             drain' \in {drain, Len(flushes')}
      PROVE  FlushesOK'
  BY <1>3, <1>t DEF Joins
<1>4. CASE TimerJoins
  BY <1>3, <1>4 DEF TimerJoins, Timer
<1>5. ASSUME NEW door \in Door, LeaveJoins(door)
      PROVE  FlushesOK'
  BY <1>3, <1>5 DEF LeaveJoins, Leave
<1>6. CASE VersionSettles \/ Traffic \/ \E c \in Capture : WindowCloses(c)
  BY <1>1, <1>6 DEF VersionSettles, Traffic, WindowCloses
<1>7. ASSUME NEW f \in Began, Holds(f) \/ Sends(f)
      PROVE  FlushesOK'
  BY <1>2, <1>7 DEF Holds, Sends, Resumes
<1>8. ASSUME NEW f \in Began, SkipTakes(f) \/ NotLandedTakes(f)
      PROVE  FlushesOK'
  BY <1>2, <1>8 DEF SkipTakes, NotLandedTakes, Takes, Skips, Resumes, NotLanded
<1>9. ASSUME NEW f \in Began, LandedMoves(f) \/ CutMoves(f) \/ PassMoves(f)
      PROVE  FlushesOK'
  BY <1>2, <1>9
  DEF LandedMoves, CutMoves, PassMoves, Landed, EvidenceCut, EvidenceLeft, DeadlinePasses
<1>10. ASSUME NEW f \in Began, NEW orders \in SUBSET Capture, NEW obeyed \in SUBSET orders,
              ReadTakes(f, orders, obeyed)
       PROVE  FlushesOK'
  BY <1>2, <1>10 DEF ReadTakes, Takes, AnswerRead
<1>11. ASSUME NEW f \in Began, NEW c \in Capture, EndsMoves(f, c)
       PROVE  FlushesOK'
  BY <1>2, <1>11 DEF EndsMoves, EvidenceEnds, EvidenceLeft
<1>12. ASSUME NEW f \in Began, Leaves(f)
       PROVE  FlushesOK'
  BY <1>12, <1>t DEF Leaves, Began
<1>13. CASE UNCHANGED drainVars
  BY <1>1, <1>13
<1> QED
  BY <1>4, <1>5, <1>6, <1>7, <1>8, <1>9, <1>10, <1>11, <1>12, <1>13 DEF DrainStep

\* Every step keeps the flags' types.
LEMMA FlagsStep ==
  ASSUME DrainTypeOK, DrainStep
  PROVE  FlagsOK'
<1> USE DEF FlagsOK, Versions
<1>t. FlagsOK
  BY TypeParts
<1>0. NoBatch.version = "open"
  BY DEF NoBatch
<1>1. CASE UNCHANGED drainVars
  BY <1>1, <1>t
<1>2. CASE TimerJoins \/ Traffic \/ \E c \in Capture : WindowCloses(c)
  BY <1>2, <1>t DEF TimerJoins, Timer, Traffic, WindowCloses
<1>s. CASE VersionSettles
  <2>1. version' \in Versions /\ version' # "open" /\ settled' = TRUE
    BY <1>s, <1>t DEF VersionSettles
  <2> QED BY <1>s, <1>t, <2>1 DEF VersionSettles
<1>3. ASSUME NEW door \in Door, LeaveJoins(door)
      PROVE  FlagsOK'
  <2>1. Says(door) \in {"none", "exit", "signal", "idle"}
    BY DrainAssumption DEF Says
  <2>2. ending' \in {ending, Says(door)} /\ attached' \in {attached, FALSE}
    BY <1>3 DEF LeaveJoins, Leave
  <2>3. UNCHANGED <<alive, paused, slow, troubled, endingLanded, version, settled, batch>>
    BY <1>3 DEF LeaveJoins, Leave
  <2>4. ending' \in {"none", "exit", "signal", "idle"} /\ attached' \in BOOLEAN
    BY <1>t, <2>1, <2>2
  <2> QED BY <1>t, <2>3, <2>4
<1>4. ASSUME NEW f \in Began, Holds(f) \/ Sends(f)
      PROVE  FlagsOK'
  <2>1. version' \in Versions /\ (version # "open" => version' = version) /\ settled' = settled
    BY <1>4, <1>t DEF Holds, Sends, Resumes, Read
  <2>2. batch'.version \in Versions
    BY <1>4, <1>t DEF Holds, Sends, Read
  <2> QED BY <1>4, <1>t, <2>1, <2>2 DEF Holds, Sends, Resumes
<1>5. ASSUME NEW f \in Began, NEW lives, NEW renew, Takes(f, lives, renew)
      PROVE  paused' \in BOOLEAN
  <2>1. paused' = paused \/ paused' = (lives # {})
    BY <1>5 DEF Takes
  <2> QED BY <1>t, <2>1
<1>6. ASSUME NEW f \in Began, SkipTakes(f)
      PROVE  FlagsOK'
  <2>1. paused' \in BOOLEAN
    BY <1>5, <1>6 DEF SkipTakes
  <2> QED BY <1>6, <1>t, <2>1 DEF SkipTakes, Skips, Resumes
<1>7. ASSUME NEW f \in Began, NotLandedTakes(f)
      PROVE  FlagsOK'
  <2>1. paused' \in BOOLEAN
    BY <1>5, <1>7 DEF NotLandedTakes
  <2> QED BY <1>7, <1>t, <1>0, <2>1 DEF NotLandedTakes, NotLanded
<1>8. ASSUME NEW f \in Began, LandedMoves(f)
      PROVE  FlagsOK'
  <2>1. endingLanded' = (endingLanded \/ ending # "none")
    BY <1>8 DEF LandedMoves, Landed
  <2>2. endingLanded' \in BOOLEAN
    BY <2>1, Zenon
  <2> QED BY <1>8, <1>t, <2>2 DEF LandedMoves, Landed
<1>9. ASSUME NEW f \in Began, NEW orders \in SUBSET Capture, NEW obeyed \in SUBSET orders,
             ReadTakes(f, orders, obeyed)
      PROVE  FlagsOK'
  <2>1. paused' \in BOOLEAN
    BY <1>5, <1>9 DEF ReadTakes
  <2> QED BY <1>9, <1>t, <1>0, <2>1 DEF ReadTakes, AnswerRead
<1>10. ASSUME NEW f \in Began, NEW t, EvidenceLeft(f, t)
       PROVE  FlagsOK'
  <2>1. paused' = paused \/ paused' = (live # {})
    BY <1>10 DEF EvidenceLeft, PausedWith
  <2>2. paused' \in BOOLEAN
    BY <1>t, <2>1
  <2> QED BY <1>10, <1>t, <2>2 DEF EvidenceLeft
<1>11. ASSUME NEW f \in Began, CutMoves(f) \/ \E c \in Capture : EndsMoves(f, c)
       PROVE  FlagsOK'
  BY <1>10, <1>11 DEF CutMoves, EndsMoves, EvidenceCut, EvidenceEnds
<1>12. ASSUME NEW f \in Began, PassMoves(f)
       PROVE  FlagsOK'
  <2>1. slow' \in BOOLEAN
    BY <1>12, Zenon DEF PassMoves, DeadlinePasses
  <2> QED BY <1>12, <1>t, <2>1 DEF PassMoves, DeadlinePasses
<1>13. ASSUME NEW f \in Began, Leaves(f)
       PROVE  FlagsOK'
  BY <1>13, <1>t DEF Leaves
<1> QED
  BY <1>1, <1>2, <1>s, <1>3, <1>4, <1>6, <1>7, <1>8, <1>9, <1>11, <1>12, <1>13 DEF DrainStep

\* Every step keeps the items' types.
LEMMA ItemsStep ==
  ASSUME DrainTypeOK, DrainStep
  PROVE  ItemsOK'
<1> USE DEF ItemsOK
<1>t. ItemsOK /\ CapturesOK
  BY TypeParts
<1>0. NoBatch.items = {} /\ NoBatch.reports = {}
  BY DEF NoBatch
<1>1. CASE UNCHANGED drainVars
  BY <1>1, <1>t
<1>2. CASE TimerJoins \/ VersionSettles \/ \E c \in Capture : WindowCloses(c)
  BY <1>2, <1>t DEF TimerJoins, Timer, VersionSettles, WindowCloses
<1>3. ASSUME NEW door \in Door, LeaveJoins(door)
      PROVE  ItemsOK'
  BY <1>3, <1>t DEF LeaveJoins, Leave
<1>4. CASE Traffic
  BY <1>4, <1>t DEF Traffic
<1>5. ASSUME NEW f \in Began, Resumes(f)
      PROVE  /\ recorded' \cup queued' \cup cloud'.items \subseteq 1 .. made'
             /\ captureReports' \subseteq Capture /\ made' = made
  BY <1>5, <1>t DEF Resumes, EnqueueHeld, ToReport, CapturesOK
<1>6. ASSUME NEW f \in Began, Holds(f) \/ Sends(f) \/ SkipTakes(f)
      PROVE  ItemsOK'
  <2>1. Resumes(f)
    BY <1>6 DEF Holds, Sends, SkipTakes, Skips
  <2>2. \/ UNCHANGED batch
        \/ batch' = [items |-> queued', reports |-> captureReports', version |-> Read]
    BY <1>6 DEF Holds, Sends, SkipTakes, Skips
  <2> QED BY <1>5, <1>t, <2>1, <2>2
<1>7. ASSUME NEW f \in Began, LandedMoves(f)
      PROVE  ItemsOK'
  BY <1>7, <1>t, CloudTold DEF LandedMoves, Landed
<1>8. ASSUME NEW f \in Began, NotLandedTakes(f)
      PROVE  ItemsOK'
  BY <1>8, <1>t, <1>0, CloudTold DEF NotLandedTakes, NotLanded
<1>9. ASSUME NEW f \in Began, NEW orders \in SUBSET Capture, NEW obeyed \in SUBSET orders,
             ReadTakes(f, orders, obeyed)
      PROVE  ItemsOK'
  BY <1>9, <1>t, <1>0 DEF ReadTakes, AnswerRead
<1>10. ASSUME NEW f \in Began, CutMoves(f) \/ \E c \in Capture : EndsMoves(f, c)
       PROVE  ItemsOK'
  BY <1>10, <1>t DEF CutMoves, EndsMoves, EvidenceCut, EvidenceEnds, EvidenceLeft
<1>11. ASSUME NEW f \in Began, PassMoves(f) \/ Leaves(f)
       PROVE  ItemsOK'
  BY <1>11, <1>t DEF PassMoves, DeadlinePasses, Leaves
<1> QED
  BY <1>1, <1>2, <1>3, <1>4, <1>6, <1>7, <1>8, <1>9, <1>10, <1>11 DEF DrainStep

\* Every step keeps the captures' types.
LEMMA CapturesStep ==
  ASSUME DrainTypeOK, DrainStep
  PROVE  CapturesOK'
<1> USE DEF CapturesOK
<1>t. CapturesOK
  BY TypeParts
<1>1. ASSUME UNCHANGED <<live, closed, reported, accepted, sent, without>>,
             cloud'.starts = cloud.starts, cloud'.unanswered = cloud.unanswered
      PROVE  CapturesOK'
  BY <1>1, <1>t
<1>2. CASE UNCHANGED drainVars \/ TimerJoins \/ VersionSettles \/ Traffic
  BY <1>1, <1>2 DEF TimerJoins, Timer, VersionSettles, Traffic
<1>3. ASSUME NEW door \in Door, LeaveJoins(door)
      PROVE  CapturesOK'
  BY <1>1, <1>3 DEF LeaveJoins, Leave
<1>4. ASSUME NEW c \in Capture, WindowCloses(c)
      PROVE  CapturesOK'
  BY <1>4, <1>t DEF WindowCloses
<1>5. ASSUME NEW f \in Began, Holds(f) \/ Sends(f)
      PROVE  CapturesOK'
  BY <1>1, <1>5 DEF Holds, Sends, Resumes
<1>6. ASSUME NEW f \in Began, NEW lives \in SUBSET Capture, live \subseteq lives,
             Cardinality(lives) <= MaxLive, NEW renew, Takes(f, lives, renew),
             accepted' \in Counts, cloud'.starts \in Counts, cloud'.unanswered \in Counts
      PROVE  CapturesOK'
  <2>1. /\ live' \in SUBSET lives /\ closed' \subseteq live' /\ reported' \subseteq live'
        /\ UNCHANGED <<sent, without>>
    BY <1>6, <1>t DEF Takes
  <2> QED BY <1>6, <1>t, <2>1, FewerLive
<1>c. ASSUME NEW answered \in BOOLEAN, cloud' = CloudWith(answered)
      PROVE  cloud'.starts \in Counts /\ cloud'.unanswered \in Counts
  BY <1>c, <1>t, CloudTold, CountsStep
<1>7. ASSUME NEW f \in Began, SkipTakes(f) \/ NotLandedTakes(f)
      PROVE  CapturesOK'
  <2>1. Takes(f, live, FALSE) /\ UNCHANGED accepted /\ cloud' \in {cloud, CloudWith(FALSE)}
    BY <1>7 DEF SkipTakes, NotLandedTakes, Skips, Resumes, NotLanded
  <2>2. cloud'.starts \in Counts /\ cloud'.unanswered \in Counts
    BY <1>c, <1>t, <2>1
  <2> QED BY <1>6, <1>t, <2>1, <2>2
<1>8. ASSUME NEW f \in Began, NEW orders \in SUBSET Capture, NEW obeyed \in SUBSET orders,
             ReadTakes(f, orders, obeyed)
      PROVE  CapturesOK'
  <2>1. /\ Takes(f, live \cup obeyed, orders # {}) /\ Cardinality(live \cup obeyed) <= MaxLive
        /\ accepted' = More(accepted, obeyed)
        /\ UNCHANGED cloud
    BY <1>8 DEF ReadTakes, AnswerRead, Fits
  <2>2. accepted' \in Counts
    BY <1>t, <2>1, CountsStep
  <2>3. live \cup obeyed \in SUBSET Capture
    BY <1>t
  <2> QED BY <1>6, <1>t, <2>1, <2>2, <2>3
<1>9. ASSUME NEW f \in Began, LandedMoves(f)
      PROVE  CapturesOK'
  <2>1. cloud'.starts \in Counts /\ cloud'.unanswered \in Counts
    BY <1>9, <1>c DEF LandedMoves, Landed
  <2>2. reported' \subseteq live /\ UNCHANGED <<live, closed, accepted, sent, without>>
    BY <1>9, <1>t DEF LandedMoves, Landed, Said
  <2> QED BY <1>t, <2>1, <2>2
<1>10. ASSUME NEW f \in Began, NEW c \in Capture, EndsMoves(f, c)
       PROVE  CapturesOK'
  <2>1. /\ UNCHANGED <<live, closed, reported, accepted, without, cloud>>
        /\ sent' = [sent EXCEPT ![c] = @ + 1]
    BY <1>10 DEF EndsMoves, EvidenceEnds, EvidenceLeft
  <2>2. sent' \in Counts
    BY <1>t, <2>1 DEF Counts
  <2> QED BY <1>t, <2>1, <2>2
<1>11. ASSUME NEW f \in Began, CutMoves(f)
       PROVE  CapturesOK'
  <2>1. UNCHANGED <<live, closed, reported, accepted, sent, cloud>>
    BY <1>11 DEF CutMoves, EvidenceCut, EvidenceLeft
  <2>2. without' \in Counts
    BY <1>11, <1>t, CountsStep DEF CutMoves, EvidenceCut
  <2> QED BY <1>t, <2>1, <2>2
<1>12. ASSUME NEW f \in Began, PassMoves(f) \/ Leaves(f)
       PROVE  CapturesOK'
  BY <1>1, <1>12 DEF PassMoves, DeadlinePasses, Leaves
<1> QED
  BY <1>2, <1>3, <1>4, <1>5, <1>7, <1>8, <1>9, <1>10, <1>11, <1>12 DEF DrainStep

\* All four together.
LEMMA DrainTypeStep ==
  ASSUME DrainTypeOK, DrainStep
  PROVE  DrainTypeOK'
<1>1. FlushesOK' /\ FlagsOK' /\ ItemsOK' /\ CapturesOK'
  BY FlushesStep, FlagsStep, ItemsStep, CapturesStep
<1> QED BY <1>1 DEF DrainTypeOK, FlushesOK, FlagsOK, ItemsOK, CapturesOK

-----------------------------------------------------------------------------
\* One batch in flight, one version said.

\* Two flushes never have a batch under way at once, and the version stands once a batch went.
LEMMA OneBatchStep ==
  ASSUME DrainTypeOK, OneBatch, VersionFixed, DrainStep
  PROVE  OneBatch' /\ VersionFixed'
<1> USE DEF OneBatch, VersionFixed
<1> DEFINE Goal == OneBatch' /\ VersionFixed'
           Busy == {"sending", "reading"}
<1>1. ASSUME UNCHANGED <<flushes, inflight, batch, version>>, cloud'.versions = cloud.versions
      PROVE  Goal
  BY <1>1 DEF Began
<1>2. ASSUME NEW k, NEW w, Joins(k, w), UNCHANGED <<inflight, batch, version, cloud>>
      PROVE  Goal
  <2>1. Len(flushes') # inflight
    BY <1>2, FlushTypes DEF Joins, DrainTypeOK
  <2> QED BY <1>2, <2>1 DEF Joins, NewFlush
\* A step that moves a flush in or out of nothing that is in flight.
<1>3. ASSUME NEW f \in Began, NEW a, NEW t, NEW p, Moves(f, a, t, p),
             a \in Busy <=> flushes[f].at \in Busy,
             UNCHANGED <<inflight, batch, version>>,
              cloud'.versions \subseteq cloud.versions \cup {batch.version},
             cloud'.versions = cloud.versions \/ inflight # 0
      PROVE  Goal
  BY <1>3 DEF Moves
\* One that ends the batch in flight.
<1>4. ASSUME NEW f \in Began, NEW a, NEW t, NEW p, Moves(f, a, t, p), a \notin Busy,
             inflight = f, inflight' = 0, batch' = NoBatch, UNCHANGED version,
             cloud'.versions \subseteq cloud.versions \cup {batch.version}
      PROVE  Goal
  <2>1. 0 \notin Began
    BY FlushTypes
  <2>2. VersionFixed'
    BY <1>4, <2>1
  <2> QED BY <1>4, <2>1, <2>2 DEF Moves
<1>5. CASE UNCHANGED drainVars
  BY <1>1, <1>5
<1>6. CASE TimerJoins
  BY <1>2, <1>6 DEF TimerJoins, Timer
<1>7. ASSUME NEW door \in Door, LeaveJoins(door)
      PROVE  Goal
  BY <1>2, <1>7 DEF LeaveJoins, Leave
<1>8. CASE Traffic \/ \E c \in Capture : WindowCloses(c)
  BY <1>1, <1>8 DEF Traffic, WindowCloses
<1>9. CASE VersionSettles
  <2>1. UNCHANGED <<flushes, inflight, batch, cloud>>
    BY <1>9 DEF VersionSettles
  <2>2. CASE version = "open"
    <3>1. inflight = 0 /\ cloud.versions = {}
      BY <2>2
    <3> QED BY <2>1, <3>1 DEF Began
  <2>3. CASE version # "open"
    BY <1>1, <1>9, <2>1, <2>3 DEF VersionSettles
  <2> QED BY <2>2, <2>3
<1>10. ASSUME NEW f \in Began, Holds(f)
       PROVE  Goal
  BY <1>3, <1>10 DEF Holds, Resumes
<1>11. ASSUME NEW f \in Began, Sends(f)
       PROVE  Goal
  <2>1. /\ Moves(f, "sending", flushes[f].todo, flushes[f].passed) /\ UNCHANGED cloud
        /\ inflight = 0 /\ inflight' = f /\ batch'.version = version' /\ version' = Read
    BY <1>11 DEF Sends, Resumes
  <2>2. version' # "open" /\ (version # "open" => version' = version)
    BY <2>1 DEF Read
  <2>3. f # 0 /\ \A h \in Began : flushes[h].at \notin Busy
    BY <2>1, FlushTypes
  <2> QED BY <2>1, <2>2, <2>3 DEF Moves
<1>12. ASSUME NEW f \in Began, SkipTakes(f)
       PROVE  Goal
  BY <1>3, <1>12 DEF SkipTakes, Skips, Resumes, Takes
<1>13. ASSUME NEW f \in Began, LandedMoves(f)
       PROVE  Goal
  <2>1. flushes[f].at = "sending" /\ f # 0
    BY <1>13, FlushTypes DEF LandedMoves, Landed
  <2>2. cloud'.versions = cloud.versions \cup {batch.version}
    BY <1>13, CloudTold DEF LandedMoves, Landed
  <2> QED BY <1>3, <1>13, <2>1, <2>2 DEF LandedMoves, Landed
<1>14. ASSUME NEW f \in Began, NotLandedTakes(f)
       PROVE  Goal
  <2>1. cloud'.versions \subseteq cloud.versions \cup {batch.version}
    BY <1>14, CloudTold DEF NotLandedTakes, NotLanded
  <2> QED BY <1>4, <1>14, <2>1 DEF NotLandedTakes, NotLanded, Takes
<1>15. ASSUME NEW f \in Began, NEW orders \in SUBSET Capture, NEW obeyed \in SUBSET orders,
              ReadTakes(f, orders, obeyed)
       PROVE  Goal
  BY <1>4, <1>15 DEF ReadTakes, AnswerRead, Takes
<1>16. ASSUME NEW f \in Began, NEW c \in Capture, EndsMoves(f, c)
       PROVE  Goal
  BY <1>3, <1>16 DEF EndsMoves, EvidenceEnds, EvidenceLeft
<1>17. ASSUME NEW f \in Began, CutMoves(f) \/ PassMoves(f)
       PROVE  Goal
  BY <1>3, <1>17 DEF CutMoves, PassMoves, EvidenceCut, EvidenceLeft, DeadlinePasses
<1>18. ASSUME NEW f \in Began, Leaves(f)
       PROVE  Goal
  BY <1>1, <1>18 DEF Leaves
<1> QED
  BY <1>5, <1>6, <1>7, <1>8, <1>9, <1>10, <1>11, <1>12, <1>13, <1>14, <1>15, <1>16, <1>17,
     <1>18 DEF DrainStep

-----------------------------------------------------------------------------
\* The captures.

\* What a flush has in hand was taken off the list.
LEMMA InHandStep ==
  ASSUME DrainTypeOK, InHand, DrainStep
  PROVE  InHand'
<1> USE DEF InHand
<1>1. ASSUME UNCHANGED flushes
      PROVE  InHand'
  BY <1>1 DEF Began
<1>2. ASSUME NEW k, NEW w, Joins(k, w)
      PROVE  InHand'
  BY <1>2 DEF Joins, NewFlush
<1>3. ASSUME NEW f \in Began, NEW a, NEW t, NEW p, Moves(f, a, t, p),
             t # {} => a = "evidence"
      PROVE  InHand'
  BY <1>3 DEF Moves
<1>4. CASE UNCHANGED drainVars \/ VersionSettles \/ Traffic \/ \E c \in Capture : WindowCloses(c)
  BY <1>1, <1>4 DEF VersionSettles, Traffic, WindowCloses
<1>5. CASE TimerJoins \/ \E door \in Door : LeaveJoins(door)
  BY <1>2, <1>5 DEF TimerJoins, LeaveJoins
<1>6. ASSUME NEW f \in Began, Holds(f) \/ Sends(f) \/ LandedMoves(f)
      PROVE  InHand'
  <2>1. flushes[f].at \in {"waiting", "version", "sending"}
    BY <1>6 DEF Holds, Sends, Resumes, LandedMoves, Landed
  <2> QED BY <1>3, <1>6, <2>1 DEF Holds, Sends, LandedMoves
<1>7. ASSUME NEW f \in Began, NEW lives, NEW renew, Takes(f, lives, renew)
      PROVE  InHand'
  BY <1>3, <1>7 DEF Takes
<1>8. ASSUME NEW f \in Began, NEW c \in Capture, EndsMoves(f, c)
      PROVE  InHand'
  BY <1>3, <1>8 DEF EndsMoves
<1>9. ASSUME NEW f \in Began, CutMoves(f) \/ PassMoves(f)
      PROVE  InHand'
  BY <1>3, <1>9 DEF CutMoves, PassMoves
<1>10. ASSUME NEW f \in Began, Leaves(f)
       PROVE  InHand'
  BY <1>1, <1>10 DEF Leaves
<1> QED
  BY <1>4, <1>5, <1>6, <1>7, <1>8, <1>9, <1>10 DEF DrainStep, SkipTakes, NotLandedTakes, ReadTakes

\* A start still to be said was accepted once more than it was said, but for answers lost.
LEMMA StartsStep ==
  ASSUME DrainTypeOK, OneBatch, StartsAhead, DrainStep
  PROVE  StartsAhead'
<1> USE DEF StartsAhead
<1>t. /\ \A c \in Capture :
           cloud.starts[c] \in Nat /\ cloud.unanswered[c] \in Nat /\ accepted[c] \in Nat
      /\ live \subseteq Capture /\ reported \subseteq live
  BY DEF DrainTypeOK, Counts
<1> DEFINE Sending == \E f \in Began : flushes[f].at = "sending"
\* Whatever says no more, and leaves no more to be said, keeps the ledger.
<1>0. ASSUME ToBeSaid' \cap Capture \subseteq ToBeSaid, UNCHANGED accepted,
             cloud'.starts = cloud.starts, cloud'.unanswered = cloud.unanswered
      PROVE  StartsAhead'
  BY <1>0, <1>t
<1>1. ASSUME Sending' => Sending,
             UNCHANGED <<captureReports, batch, live, reported, accepted, cloud>>
      PROVE  StartsAhead'
  BY <1>0, <1>1 DEF ToBeSaid
<1>2. CASE UNCHANGED drainVars
  BY <1>1, <1>2 DEF Began
<1>3. CASE VersionSettles \/ Traffic \/ \E c \in Capture : WindowCloses(c)
  BY <1>1, <1>3 DEF VersionSettles, Traffic, WindowCloses, Began
<1>4. ASSUME NEW k, NEW w, Joins(k, w)
      PROVE  Sending' => Sending
  BY <1>4 DEF Joins, NewFlush
<1>5. CASE TimerJoins \/ \E door \in Door : LeaveJoins(door)
  BY <1>1, <1>4, <1>5 DEF TimerJoins, LeaveJoins, Timer, Leave
<1>6. ASSUME NEW f \in Began, NEW a, NEW t, NEW p, Moves(f, a, t, p),
             a = "sending" => flushes[f].at = "sending"
      PROVE  Sending' => Sending
  BY <1>6 DEF Moves
<1>7. ASSUME NEW f \in Began, Resumes(f)
      PROVE  captureReports' \subseteq (live \ reported) \cup captureReports
  BY <1>7 DEF Resumes, EnqueueHeld, ToReport
<1>8. ASSUME NEW f \in Began, Holds(f)
      PROVE  StartsAhead'
  <2>1. Sending' => Sending
    BY <1>6, <1>8 DEF Holds
  <2> QED BY <1>0, <1>7, <1>8, <2>1 DEF Holds, Resumes, ToBeSaid
<1>9. ASSUME NEW f \in Began, Sends(f)
      PROVE  StartsAhead'
  <2>1. batch'.reports = captureReports' /\ UNCHANGED <<live, reported, accepted, cloud>>
    BY <1>9 DEF Sends, Resumes
  <2>2. captureReports' \subseteq (live \ reported) \cup captureReports
    BY <1>7, <1>9 DEF Sends
  <2> QED BY <1>0, <2>1, <2>2 DEF ToBeSaid
<1>10. ASSUME NEW f \in Began, SkipTakes(f)
       PROVE  StartsAhead'
  <2>1. /\ Takes(f, live, FALSE) /\ UNCHANGED <<batch, accepted, cloud>>
        /\ captureReports' \subseteq (live \ reported) \cup captureReports
    BY <1>7, <1>10 DEF SkipTakes, Skips, Resumes
  <2>2. Sending' => Sending
    BY <1>6, <2>1 DEF Takes
  <2>3. live' \ reported' \subseteq live \ reported
    BY <2>1 DEF Takes
  <2> QED BY <1>0, <2>1, <2>2, <2>3 DEF ToBeSaid
\* What the batch said is not to be said again.
<1>11. ASSUME NEW f \in Began, LandedMoves(f)
       PROVE  StartsAhead'
  <2>1. /\ flushes[f].at = "sending" /\ Moves(f, "reading", flushes[f].todo, flushes[f].passed)
        /\ captureReports' = {} /\ reported' = reported \cup (batch.reports \cap live)
        /\ cloud'.starts = More(cloud.starts, batch.reports)
        /\ cloud'.unanswered = More(cloud.unanswered, {})
        /\ UNCHANGED <<live, accepted, batch>>
    BY <1>11, CloudTold DEF LandedMoves, Landed, Said
  <2>2. inflight = f
    BY <2>1 DEF OneBatch
  <2>3. ~Sending'
    BY <2>1, <2>2 DEF Moves, OneBatch
  <2>4. ToBeSaid' = (live \ reported) \ batch.reports
    BY <2>1, <2>3 DEF ToBeSaid
  <2>5. batch.reports \subseteq ToBeSaid
    BY <2>1 DEF ToBeSaid
  <2>6. live \ reported \subseteq ToBeSaid
    BY DEF ToBeSaid
  <2> QED BY <1>t, <2>1, <2>4, <2>5, <2>6 DEF More
<1>12. ASSUME NEW f \in Began, NotLandedTakes(f)
       PROVE  StartsAhead'
  <2>1. /\ Takes(f, live, FALSE) /\ UNCHANGED <<accepted, captureReports>>
        /\ batch' = NoBatch /\ cloud' \in {cloud, CloudWith(FALSE)}
    BY <1>12 DEF NotLandedTakes, NotLanded
  <2>2. live' \ reported' \subseteq live \ reported
    BY <2>1 DEF Takes
  <2>3. batch'.reports = {}
    BY <2>1 DEF NoBatch
  <2>4. ToBeSaid' \subseteq ToBeSaid
    BY <2>1, <2>2, <2>3 DEF ToBeSaid
  <2>5. CASE cloud' = cloud
    BY <1>0, <2>1, <2>4, <2>5
  <2>6. CASE cloud' = CloudWith(FALSE)
    <3>1. /\ cloud'.starts = More(cloud.starts, batch.reports)
          /\ cloud'.unanswered = More(cloud.unanswered, batch.reports)
      BY <2>6, CloudTold
    <3> QED BY <1>t, <2>1, <2>4, <3>1 DEF More
  <2> QED BY <2>1, <2>5, <2>6
\* A capture obeyed was not under way, so its start is one more.
<1>13. ASSUME NEW f \in Began, NEW orders \in SUBSET Capture, NEW obeyed \in SUBSET orders,
              ReadTakes(f, orders, obeyed)
       PROVE  StartsAhead'
  <2>1. /\ Takes(f, live \cup obeyed, orders # {}) /\ UNCHANGED <<cloud, captureReports>>
        /\ batch' = NoBatch /\ obeyed \subseteq Capture
        /\ accepted' = More(accepted, obeyed)
    BY <1>13 DEF ReadTakes, AnswerRead
  <2>2. live' \ reported' \subseteq (live \ reported) \cup obeyed
    BY <2>1 DEF Takes
  <2>3. batch'.reports = {}
    BY <2>1 DEF NoBatch
  <2>4. ToBeSaid' \subseteq ToBeSaid \cup obeyed
    BY <2>1, <2>2, <2>3 DEF ToBeSaid
  <2> QED BY <1>t, <2>1, <2>4 DEF More
<1>14. ASSUME NEW f \in Began, NEW c \in Capture, EndsMoves(f, c)
       PROVE  StartsAhead'
  <2>1. Sending' => Sending
    BY <1>6, <1>14 DEF EndsMoves
  <2> QED BY <1>1, <1>14, <2>1 DEF EndsMoves, EvidenceEnds, EvidenceLeft
<1>15. ASSUME NEW f \in Began, CutMoves(f) \/ PassMoves(f)
       PROVE  StartsAhead'
  <2>1. Sending' => Sending
    BY <1>6, <1>15 DEF CutMoves, PassMoves
  <2> QED BY <1>1, <1>15, <2>1 DEF CutMoves, PassMoves, EvidenceCut, EvidenceLeft, DeadlinePasses
<1>16. ASSUME NEW f \in Began, Leaves(f)
       PROVE  StartsAhead'
  BY <1>1, <1>16 DEF Leaves, Began
<1> QED
  BY <1>2, <1>3, <1>5, <1>8, <1>9, <1>10, <1>11, <1>12, <1>13, <1>14, <1>15, <1>16 DEF DrainStep

\* What is marked was heard of: a batch that lands is heard of first, and a capture is accepted again
\* only once it is not under way.
LEMMA MarkedStep ==
  ASSUME DrainTypeOK, MarkedWasHeard, DrainStep
  PROVE  MarkedWasHeard'
<1> USE DEF MarkedWasHeard
<1>t. live \subseteq Capture /\ reported \subseteq live /\ accepted \in Counts
  BY DEF DrainTypeOK
<1>1. ASSUME reported' \subseteq reported, \A c \in reported : accepted'[c] = accepted[c],
             cloud.heard \subseteq cloud'.heard
      PROVE  MarkedWasHeard'
  BY <1>1
<1>2. CASE UNCHANGED drainVars \/ TimerJoins \/ VersionSettles \/ Traffic
             \/ \E c \in Capture : WindowCloses(c)
  BY <1>1, <1>2 DEF TimerJoins, Timer, VersionSettles, Traffic, WindowCloses
<1>3. ASSUME NEW door \in Door, LeaveJoins(door)
      PROVE  MarkedWasHeard'
  BY <1>1, <1>3 DEF LeaveJoins, Leave
<1>4. ASSUME NEW f \in Began, Holds(f) \/ Sends(f) \/ SkipTakes(f)
      PROVE  MarkedWasHeard'
  BY <1>1, <1>4 DEF Holds, Sends, SkipTakes, Skips, Resumes, Takes
<1>5. ASSUME NEW f \in Began, LandedMoves(f)
      PROVE  MarkedWasHeard'
  <2>1. /\ reported' = reported \cup (batch.reports \cap live) /\ UNCHANGED accepted
        /\ cloud'.heard = cloud.heard \cup {<<c, accepted[c]>> : c \in batch.reports}
    BY <1>5, CloudTold DEF LandedMoves, Landed, Said
  <2> QED BY <2>1
<1>6. ASSUME NEW f \in Began, NotLandedTakes(f)
      PROVE  MarkedWasHeard'
  <2>1. reported' \subseteq reported /\ UNCHANGED accepted
    BY <1>6 DEF NotLandedTakes, NotLanded, Takes
  <2>2. cloud.heard \subseteq cloud'.heard
    BY <1>6, CloudTold DEF NotLandedTakes, NotLanded
  <2> QED BY <1>1, <2>1, <2>2
<1>7. ASSUME NEW f \in Began, NEW orders \in SUBSET Capture, NEW obeyed \in SUBSET orders,
             ReadTakes(f, orders, obeyed)
      PROVE  MarkedWasHeard'
  <2>1. /\ reported' \subseteq reported /\ UNCHANGED cloud /\ obeyed \cap live = {}
        /\ accepted' = More(accepted, obeyed)
    BY <1>7 DEF ReadTakes, AnswerRead, Takes, Fits
  <2>2. \A c \in reported : accepted'[c] = accepted[c]
    BY <1>t, <2>1 DEF More, Counts
  <2> QED BY <1>1, <2>1, <2>2
<1>8. ASSUME NEW f \in Began, CutMoves(f) \/ \E c \in Capture : EndsMoves(f, c)
      PROVE  MarkedWasHeard'
  BY <1>1, <1>8 DEF CutMoves, EndsMoves, EvidenceCut, EvidenceEnds, EvidenceLeft
<1>9. ASSUME NEW f \in Began, PassMoves(f) \/ Leaves(f)
      PROVE  MarkedWasHeard'
  BY <1>1, <1>9 DEF PassMoves, DeadlinePasses, Leaves
<1> QED
  BY <1>2, <1>3, <1>4, <1>5, <1>6, <1>7, <1>8, <1>9 DEF DrainStep

\* The flushes that have capture c in their hands.
Holders(c) == {f \in Began : c \in flushes[f].todo}

\* The flushes that have a capture in hand are finitely many.
LEMMA HoldersFinite ==
  ASSUME DrainTypeOK, NEW c
  PROVE  IsFiniteSet(Holders(c)) /\ Cardinality(Holders(c)) \in Nat
<1>1. IsFiniteSet(Began)
  BY FlushTypes, FS_Interval
<1> QED BY <1>1, FS_Subset, FS_CardinalityType DEF Holders

Account(c) ==
  accepted[c] = (IF c \in live THEN 1 ELSE 0) + Cardinality(Holders(c)) + sent[c] + without[c]

\* A capture obeyed is live, in the hands of one flush, or settled, whatever the step.
LEMMA AccountedStep ==
  ASSUME DrainTypeOK, OneBatch, InHand, CaptureAccountedFor, DrainStep
  PROVE  CaptureAccountedFor'
<1> SUFFICES ASSUME NEW c \in Capture
             PROVE  Account(c)'
  BY DEF CaptureAccountedFor, Account, Holders
<1>t. /\ accepted \in [Capture -> Nat] /\ sent \in [Capture -> Nat] /\ without \in [Capture -> Nat]
      /\ live \subseteq Capture
  BY DEF DrainTypeOK, Counts
<1>a. Account(c)
  BY DEF CaptureAccountedFor, Account, Holders
<1>1. ASSUME Holders(c)' = Holders(c), UNCHANGED <<live, accepted, sent, without>>
      PROVE  Account(c)'
  BY <1>1, <1>a DEF Account
<1>2. ASSUME UNCHANGED flushes
      PROVE  Holders(c)' = Holders(c)
  BY <1>2 DEF Holders, Began
<1>3. ASSUME NEW k, NEW w, Joins(k, w)
      PROVE  Holders(c)' = Holders(c)
  BY <1>3 DEF Joins, NewFlush, Holders
<1>4. ASSUME NEW f \in Began, NEW a, NEW t, NEW p, Moves(f, a, t, p)
      PROVE  Holders(c)' = IF c \in t THEN Holders(c) \cup {f} ELSE Holders(c) \ {f}
  BY <1>4 DEF Moves, Holders
<1>5. ASSUME NEW f \in Began, NEW a, NEW p, Moves(f, a, flushes[f].todo, p)
      PROVE  Holders(c)' = Holders(c)
  BY <1>4, <1>5 DEF Holders
<1>6. CASE UNCHANGED drainVars \/ VersionSettles \/ Traffic \/ \E x \in Capture : WindowCloses(x)
  BY <1>1, <1>2, <1>6 DEF VersionSettles, Traffic, WindowCloses
<1>7. CASE TimerJoins \/ \E door \in Door : LeaveJoins(door)
  BY <1>1, <1>3, <1>7 DEF TimerJoins, LeaveJoins, Timer, Leave
<1>8. ASSUME NEW f \in Began, Holds(f) \/ Sends(f) \/ LandedMoves(f) \/ PassMoves(f)
      PROVE  Account(c)'
  <2>1. Holders(c)' = Holders(c)
    BY <1>5, <1>8 DEF Holds, Sends, LandedMoves, PassMoves
  <2> QED BY <1>1, <1>8, <2>1
       DEF Holds, Sends, Resumes, LandedMoves, Landed, PassMoves, DeadlinePasses
\* What is taken leaves the captures under way for one flush's hands.
<1>9. ASSUME NEW f \in Began, flushes[f].at # "evidence",
             NEW lives, live \subseteq lives, NEW renew, Takes(f, lives, renew),
             accepted'[c] = accepted[c] + IF c \in lives \ live THEN 1 ELSE 0
      PROVE  Account(c)'
  <2> DEFINE taken == Taken(f, lives)
  <2>1. /\ taken \subseteq lives /\ live' = lives \ taken
        /\ UNCHANGED <<sent, without>>
    BY <1>9 DEF Takes
  <2>2. f \notin Holders(c)
    BY <1>9 DEF InHand, Holders
  <2>3. Holders(c)' = IF c \in taken THEN Holders(c) \cup {f} ELSE Holders(c)
    BY <1>4, <1>9, <2>2 DEF Takes
  <2>4. Cardinality(Holders(c) \cup {f}) = Cardinality(Holders(c)) + 1
    BY <2>2, HoldersFinite, FS_AddElement
  <2>5. /\ accepted[c] \in Nat /\ sent[c] \in Nat /\ without[c] \in Nat
        /\ Cardinality(Holders(c)) \in Nat
    BY <1>t, HoldersFinite
  <2>6. Cardinality(Holders(c)') = Cardinality(Holders(c)) + IF c \in taken THEN 1 ELSE 0
    BY <2>3, <2>4, HoldersFinite
  <2> HIDE DEF taken
  <2>7. accepted'[c] = (IF c \in live' THEN 1 ELSE 0) + Cardinality(Holders(c)') + sent[c]
                        + without[c]
    BY <1>9, <1>a, <2>1, <2>5, <2>6 DEF Account
  <2> QED BY <2>1, <2>7 DEF Account
<1>10. ASSUME NEW f \in Began, SkipTakes(f) \/ NotLandedTakes(f)
       PROVE  Account(c)'
  <2>1. Takes(f, live, FALSE) /\ UNCHANGED accepted /\ flushes[f].at # "evidence"
    BY <1>10 DEF SkipTakes, NotLandedTakes, Skips, Resumes, NotLanded
  <2>2. accepted'[c] = accepted[c] + IF c \in live \ live THEN 1 ELSE 0
    BY <1>t, <2>1
  <2> QED BY <1>9, <2>1, <2>2
<1>11. ASSUME NEW f \in Began, NEW orders \in SUBSET Capture, NEW obeyed \in SUBSET orders,
              ReadTakes(f, orders, obeyed)
       PROVE  Account(c)'
  <2>1. Takes(f, live \cup obeyed, orders # {}) /\ flushes[f].at # "evidence"
    BY <1>11 DEF ReadTakes, AnswerRead
  <2>2. accepted'[c] = accepted[c] + IF c \in (live \cup obeyed) \ live THEN 1 ELSE 0
    BY <1>11, <1>t DEF ReadTakes, AnswerRead, Fits, More
  <2> QED BY <1>9, <2>1, <2>2
\* What is settled leaves the flush's hands, and is counted once.
<1>12. ASSUME NEW f \in Began, NEW t \in SUBSET flushes[f].todo, NEW a, NEW p, Moves(f, a, t, p),
              UNCHANGED <<accepted, live>>,
              sent'[c] + without'[c] =
                sent[c] + without[c] + IF c \in flushes[f].todo \ t THEN 1 ELSE 0,
              sent'[c] \in Nat, without'[c] \in Nat
       PROVE  Account(c)'
  <2> DEFINE less == IF c \in flushes[f].todo \ t THEN 1 ELSE 0
  <2>1. Holders(c)' = IF c \in t THEN Holders(c) \cup {f} ELSE Holders(c) \ {f}
    BY <1>4, <1>12
  <2>2. CASE c \in flushes[f].todo \ t
    <3>1. Holders(c)' = Holders(c) \ {f} /\ f \in Holders(c)
      BY <2>1, <2>2 DEF Holders
    <3>2. Cardinality(Holders(c)') = Cardinality(Holders(c)) - 1
      BY <3>1, HoldersFinite, FS_RemoveElement
    <3> QED BY <1>12, <1>a, <1>t, <2>2, <3>2, HoldersFinite DEF Account
  <2>3. CASE c \notin flushes[f].todo \ t
    <3>1. Holders(c)' = Holders(c)
      BY <1>12, <2>1, <2>3 DEF Holders
    <3> QED BY <1>12, <1>a, <1>t, <2>3, <3>1, HoldersFinite DEF Account
  <2> QED BY <2>2, <2>3
<1>13. ASSUME NEW f \in Began, NEW x \in Capture, EndsMoves(f, x)
       PROVE  Account(c)'
  <2> DEFINE t == flushes[f].todo \ {x}
  <2>1. /\ x \in flushes[f].todo
        /\ sent' = [sent EXCEPT ![x] = @ + 1] /\ UNCHANGED <<without, accepted, live>>
    BY <1>13 DEF EndsMoves, EvidenceEnds, EvidenceLeft
  <2>a. c \in flushes[f].todo \ t <=> c = x
    BY <2>1
  <2>b. /\ sent'[c] = sent[c] + IF c = x THEN 1 ELSE 0
        /\ sent[c] \in Nat /\ without'[c] = without[c] /\ without[c] \in Nat
    BY <1>t, <2>1
  <2> HIDE DEF t
  <2>2. /\ sent'[c] = sent[c] + IF c \in flushes[f].todo \ t THEN 1 ELSE 0
        /\ sent'[c] \in Nat /\ without'[c] \in Nat
    BY <2>a, <2>b
  <2>3. sent'[c] + without'[c] = sent[c] + without[c] + IF c \in flushes[f].todo \ t THEN 1 ELSE 0
    BY <2>2, <2>b
  <2>4. t \in SUBSET flushes[f].todo
    BY DEF t
  <2>5. Moves(f, IF flushes[f].todo = {x} THEN "done" ELSE "evidence", t, flushes[f].passed)
    BY <1>13 DEF EndsMoves, t
  <2> QED BY <1>12, <2>1, <2>2, <2>3, <2>4, <2>5
<1>14. ASSUME NEW f \in Began, CutMoves(f)
       PROVE  Account(c)'
  <2>1. /\ without'[c] = without[c] + IF c \in flushes[f].todo \ {} THEN 1 ELSE 0
        /\ UNCHANGED <<sent, accepted, live>> /\ Moves(f, "done", {}, flushes[f].passed)
    BY <1>14 DEF CutMoves, EvidenceCut, EvidenceLeft, More
  <2>2. /\ sent'[c] + without'[c] =
             sent[c] + without[c] + IF c \in flushes[f].todo \ {} THEN 1 ELSE 0
        /\ sent'[c] \in Nat /\ without'[c] \in Nat
    BY <1>t, <2>1
  <2> QED BY <1>12, <2>1, <2>2
<1>15. ASSUME NEW f \in Began, Leaves(f)
       PROVE  Account(c)'
  BY <1>1, <1>2, <1>15 DEF Leaves
<1> QED
  BY <1>6, <1>7, <1>8, <1>10, <1>11, <1>13, <1>14, <1>15 DEF DrainStep

\* The reference is paused as long as a capture is live.
LEMMA ReferenceStep ==
  ASSUME DrainTypeOK, InHand, ReferenceFollows, DrainStep
  PROVE  ReferenceFollows'
<1> USE DEF ReferenceFollows
<1> DEFINE Delivering == \E f \in Began : flushes[f].at = "evidence"
<1>1. ASSUME Delivering => Delivering', UNCHANGED <<live, paused>>
      PROVE  ReferenceFollows'
  BY <1>1
<1>2. ASSUME UNCHANGED flushes
      PROVE  Delivering => Delivering'
  BY <1>2 DEF Began
<1>3. ASSUME NEW k, NEW w, Joins(k, w)
      PROVE  Delivering => Delivering'
  BY <1>3 DEF Joins
<1>4. ASSUME NEW f \in Began, NEW a, NEW t, NEW p, Moves(f, a, t, p),
             flushes[f].at = "evidence" => a = "evidence"
      PROVE  Delivering => Delivering'
  BY <1>4 DEF Moves
<1>5. ASSUME NEW f \in Began, NEW t, NEW p, Moves(f, "evidence", t, p)
      PROVE  Delivering'
  BY <1>5 DEF Moves
<1>6. CASE UNCHANGED drainVars \/ VersionSettles \/ Traffic \/ \E x \in Capture : WindowCloses(x)
  BY <1>1, <1>2, <1>6 DEF VersionSettles, Traffic, WindowCloses
<1>7. CASE TimerJoins \/ \E door \in Door : LeaveJoins(door)
  BY <1>1, <1>3, <1>7 DEF TimerJoins, LeaveJoins, Timer, Leave
<1>8. ASSUME NEW f \in Began, Holds(f) \/ Sends(f) \/ LandedMoves(f) \/ PassMoves(f)
      PROVE  ReferenceFollows'
  <2>1. Delivering => Delivering'
    BY <1>4, <1>8 DEF Holds, Sends, Resumes, LandedMoves, Landed, PassMoves
  <2> QED BY <1>1, <1>8, <2>1
       DEF Holds, Sends, Resumes, LandedMoves, Landed, PassMoves, DeadlinePasses
<1>9. ASSUME NEW f \in Began, flushes[f].at # "evidence",
             NEW lives, live \subseteq lives, NEW renew, renew \/ lives = live,
             Takes(f, lives, renew)
      PROVE  ReferenceFollows'
  <2> DEFINE taken == Taken(f, lives)
  <2>1. /\ live' = lives \ taken
        /\ paused' = IF taken = {} \/ renew THEN lives # {} ELSE paused
    BY <1>9 DEF Takes
  <2>2. CASE taken = {}
    BY <2>1, <2>2
  <2>3. CASE taken # {}
    <3>1. Delivering'
      BY <1>5, <1>9, <2>3 DEF Takes
    <3> QED BY <1>9, <2>1, <3>1
  <2> QED BY <2>2, <2>3
<1>10. ASSUME NEW f \in Began, SkipTakes(f) \/ NotLandedTakes(f)
       PROVE  ReferenceFollows'
  BY <1>9, <1>10 DEF SkipTakes, NotLandedTakes, Skips, Resumes, NotLanded
<1>11. ASSUME NEW f \in Began, NEW orders \in SUBSET Capture, NEW obeyed \in SUBSET orders,
              ReadTakes(f, orders, obeyed)
       PROVE  ReferenceFollows'
  <2>1. orders # {} \/ live \cup obeyed = live
    OBVIOUS
  <2> QED BY <1>9, <1>11, <2>1 DEF ReadTakes, AnswerRead
<1>12. ASSUME NEW f \in Began, NEW t, EvidenceLeft(f, t), NEW p,
              Moves(f, IF t = {} THEN "done" ELSE "evidence", t, p)
       PROVE  ReferenceFollows'
  <2>1. CASE t = {}
    BY <1>12, <2>1 DEF EvidenceLeft, PausedWith
  <2>2. CASE t # {}
    <3>1. Delivering'
      BY <1>5, <1>12, <2>2
    <3> QED BY <1>12, <2>2, <3>1 DEF EvidenceLeft
  <2> QED BY <2>1, <2>2
<1>13. ASSUME NEW f \in Began, NEW c \in Capture, EndsMoves(f, c)
       PROVE  ReferenceFollows'
  <2> DEFINE t == flushes[f].todo \ {c}
  <2>1. EvidenceLeft(f, t) /\ (t = {} <=> flushes[f].todo = {c})
    BY <1>13 DEF EndsMoves, EvidenceEnds
  <2>2. Moves(f, IF t = {} THEN "done" ELSE "evidence", t, flushes[f].passed)
    BY <1>13, <2>1 DEF EndsMoves
  <2> HIDE DEF t
  <2> QED BY <1>12, <2>1, <2>2
<1>14. ASSUME NEW f \in Began, CutMoves(f)
       PROVE  ReferenceFollows'
  BY <1>12, <1>14 DEF CutMoves, EvidenceCut
<1>15. ASSUME NEW f \in Began, Leaves(f)
       PROVE  ReferenceFollows'
  BY <1>1, <1>2, <1>15 DEF Leaves
<1> QED
  BY <1>6, <1>7, <1>8, <1>10, <1>11, <1>13, <1>14, <1>15 DEF DrainStep

-----------------------------------------------------------------------------
\* The way out.

\* An item a flush holds is recorded, queued or at the cloud.
LEMMA ItemsKeptStep ==
  ASSUME DrainTypeOK, ItemsKept, DrainStep
  PROVE  ItemsKept'
<1> USE DEF ItemsKept
<1> DEFINE held  == recorded \cup queued \cup cloud.items
           StillHeld == held \subseteq held'
<1>1. ASSUME UNCHANGED flushes, StillHeld
      PROVE  ItemsKept'
  BY <1>1 DEF Began
<1>2. ASSUME NEW f \in Began, NEW a, NEW t, NEW p, Moves(f, a, t, p), StillHeld
      PROVE  ItemsKept'
  <2>1. Began' = Began /\ \A h \in Began : flushes'[h].held = flushes[h].held
    BY <1>2 DEF Moves
  <2> QED BY <1>2, <2>1
<1>3. ASSUME NEW k, NEW w, Joins(k, w), UNCHANGED <<recorded, queued, cloud>>
      PROVE  ItemsKept'
  <2>1. flushes'[Len(flushes')].held = recorded \cup queued
    BY <1>3 DEF Joins, NewFlush
  <2> QED BY <1>3, <2>1 DEF Joins
<1>4. CASE UNCHANGED drainVars \/ VersionSettles \/ Traffic \/ \E x \in Capture : WindowCloses(x)
  BY <1>1, <1>4 DEF VersionSettles, Traffic, WindowCloses
<1>5. CASE TimerJoins \/ \E door \in Door : LeaveJoins(door)
  BY <1>3, <1>5 DEF TimerJoins, LeaveJoins, Timer, Leave
<1>6. ASSUME NEW f \in Began, Resumes(f)
      PROVE  StillHeld
  BY <1>6 DEF Resumes, EnqueueHeld
<1>7. ASSUME NEW f \in Began, Holds(f) \/ Sends(f) \/ SkipTakes(f)
      PROVE  ItemsKept'
  <2>1. StillHeld
    BY <1>6, <1>7 DEF Holds, Sends, SkipTakes, Skips
  <2> QED BY <1>2, <1>7, <2>1 DEF Holds, Sends, SkipTakes, Takes
<1>8. ASSUME NEW f \in Began, LandedMoves(f)
      PROVE  ItemsKept'
  <2>1. StillHeld
    BY <1>8, CloudTold DEF LandedMoves, Landed
  <2> QED BY <1>2, <1>8, <2>1 DEF LandedMoves
<1>9. ASSUME NEW f \in Began, NotLandedTakes(f) \/ PassMoves(f)
      PROVE  ItemsKept'
  <2>1. StillHeld
    BY <1>9, CloudTold DEF NotLandedTakes, NotLanded, PassMoves, DeadlinePasses
  <2> QED BY <1>2, <1>9, <2>1 DEF NotLandedTakes, Takes, PassMoves
<1>10. ASSUME NEW f \in Began, NEW orders \in SUBSET Capture, NEW obeyed \in SUBSET orders,
              ReadTakes(f, orders, obeyed)
       PROVE  ItemsKept'
  BY <1>2, <1>10 DEF ReadTakes, AnswerRead, Takes
<1>11. ASSUME NEW f \in Began, CutMoves(f) \/ \E c \in Capture : EndsMoves(f, c)
       PROVE  ItemsKept'
  BY <1>2, <1>11 DEF CutMoves, EndsMoves, EvidenceCut, EvidenceEnds, EvidenceLeft
<1>12. ASSUME NEW f \in Began, Leaves(f)
       PROVE  ItemsKept'
  BY <1>1, <1>12 DEF Leaves
<1> QED
  BY <1>4, <1>5, <1>7, <1>8, <1>9, <1>10, <1>11, <1>12 DEF DrainStep

\* As long as nothing goes wrong, no flush is past half of its time.
LEMMA UntroubledStep ==
  ASSUME DrainTypeOK, Untroubled, DrainStep
  PROVE  Untroubled'
<1> USE DEF Untroubled
<1>1. ASSUME UNCHANGED flushes, troubled' = troubled
      PROVE  Untroubled'
  BY <1>1 DEF Began
<1>2. ASSUME NEW f \in Began, NEW a, NEW t, Moves(f, a, t, flushes[f].passed),
             ~troubled' => ~troubled
      PROVE  Untroubled'
  <2>1. Began' = Began /\ \A h \in Began : flushes'[h].passed = flushes[h].passed
    BY <1>2 DEF Moves
  <2> QED BY <1>2, <2>1
<1>3. ASSUME NEW k, NEW w, Joins(k, w), troubled' = troubled
      PROVE  Untroubled'
  BY <1>3 DEF Joins, NewFlush
<1>q. ASSUME troubled' = troubled
      PROVE  ~troubled' => ~troubled
  BY <1>q
<1>4. CASE UNCHANGED drainVars \/ VersionSettles \/ Traffic \/ \E x \in Capture : WindowCloses(x)
  BY <1>1, <1>4 DEF VersionSettles, Traffic, WindowCloses
<1>5. CASE TimerJoins \/ \E door \in Door : LeaveJoins(door)
  BY <1>3, <1>5 DEF TimerJoins, LeaveJoins, Timer, Leave
<1>6. ASSUME NEW f \in Began, Holds(f) \/ Sends(f) \/ SkipTakes(f)
      PROVE  Untroubled'
  BY <1>q, <1>2, <1>6 DEF Holds, Sends, SkipTakes, Skips, Resumes, Takes
<1>7. ASSUME NEW f \in Began, LandedMoves(f)
      PROVE  Untroubled'
  BY <1>q, <1>2, <1>7 DEF LandedMoves, Landed
<1>8. ASSUME NEW f \in Began, NEW orders \in SUBSET Capture, NEW obeyed \in SUBSET orders,
             ReadTakes(f, orders, obeyed)
      PROVE  Untroubled'
  BY <1>q, <1>2, <1>8 DEF ReadTakes, AnswerRead, Takes
<1>9. ASSUME NEW f \in Began, CutMoves(f) \/ \E c \in Capture : EndsMoves(f, c)
      PROVE  Untroubled'
  BY <1>q, <1>2, <1>9 DEF CutMoves, EndsMoves, EvidenceCut, EvidenceEnds, EvidenceLeft
<1>10. ASSUME NEW f \in Began, PassMoves(f) \/ NotLandedTakes(f)
       PROVE  Untroubled'
  BY <1>10 DEF PassMoves, DeadlinePasses, NotLandedTakes, NotLanded
<1>11. ASSUME NEW f \in Began, Leaves(f)
       PROVE  Untroubled'
  BY <1>1, <1>11 DEF Leaves
<1> QED
  BY <1>4, <1>5, <1>6, <1>7, <1>8, <1>9, <1>10, <1>11 DEF DrainStep

\* Only a flush that is under way moves, and none that is done goes on again.
LEMMA NoneGoesOnAgain ==
  ASSUME DrainTypeOK, NEW f \in Began, NEW a, NEW t, NEW p, Moves(f, a, t, p),
         flushes[f].at # "done"
  PROVE  f \in UnderWay /\ UnderWay' \subseteq UnderWay
BY DEF Moves, UnderWay

\* A step of a process that lives; after it has left nothing steps.
LEMMA DetachedStep ==
  ASSUME DrainTypeOK, Detached, DrainStep
  PROVE  Detached'
<1> USE DEF Detached
<1>t. drain \in {0} \cup Began
  BY DEF DrainTypeOK
<1>1. ASSUME UNCHANGED <<flushes, attached, drain, alive, left>>
      PROVE  Detached'
  BY <1>1 DEF Began, UnderWay, Leaving
<1>2. ASSUME NEW f \in Began, NEW a, NEW t, NEW p, Moves(f, a, t, p),
             flushes[f].at # "done", alive, UNCHANGED <<attached, drain, left>>
      PROVE  Detached'
  <2>1. left = 0
    BY <1>2
  <2>2. UnderWay' \subseteq UnderWay /\ Len(flushes') = Len(flushes)
    BY <1>2, NoneGoesOnAgain DEF Moves
  <2>3. drain # 0 => flushes'[drain].wait = flushes[drain].wait
                     /\ flushes'[drain].kind = flushes[drain].kind
    BY <1>2, <1>t DEF Moves
  <2> QED BY <1>2, <2>1, <2>2, <2>3 DEF Leaving
<1>3. CASE UNCHANGED drainVars \/ VersionSettles \/ Traffic \/ \E x \in Capture : WindowCloses(x)
  BY <1>1, <1>3 DEF VersionSettles, Traffic, WindowCloses
<1>4. ASSUME attached, alive, NEW k, NEW w, Joins(k, w), UNCHANGED <<attached, drain, left>>
      PROVE  Detached'
  BY <1>4
<1>5. CASE TimerJoins
  BY <1>4, <1>5 DEF TimerJoins, Timer, Task
<1>6. ASSUME NEW door \in Door, LeaveJoins(door)
      PROVE  Detached'
  <2>1. Joins(door, UnderWay) /\ attached /\ alive /\ UNCHANGED <<alive, left>>
    BY <1>6 DEF LeaveJoins, Leave, Task
  <2>2. CASE door \notin {"stop", "disable"}
    BY <1>4, <1>6, <2>1, <2>2 DEF LeaveJoins, Leave
  <2>3. CASE door \in {"stop", "disable"}
    <3>1. ~attached' /\ drain' = Len(flushes') /\ Len(flushes') # 0
      BY <1>6, <2>1, <2>3, FlushTypes DEF LeaveJoins, Leave, Joins
    <3>2. flushes'[drain'].kind = door /\ flushes'[drain'].wait = UnderWay
      BY <2>1, <3>1 DEF Joins, NewFlush
    <3>3. UnderWay' \subseteq UnderWay \cup {drain'}
      BY <2>1, <3>1 DEF Joins, UnderWay
    <3>4. Leaving(drain)'
      BY <2>3, <3>2 DEF Leaving
    <3>5. left' = 0
      BY <2>1
    <3> QED BY <3>1, <3>2, <3>3, <3>4, <3>5
  <2> QED BY <2>2, <2>3
<1>7. ASSUME NEW f \in Began, Holds(f) \/ Sends(f) \/ SkipTakes(f)
      PROVE  Detached'
  BY <1>2, <1>7 DEF Holds, Sends, SkipTakes, Skips, Resumes, Takes
<1>8. ASSUME NEW f \in Began, LandedMoves(f) \/ NotLandedTakes(f)
      PROVE  Detached'
  BY <1>2, <1>8 DEF LandedMoves, Landed, NotLandedTakes, NotLanded, Takes, Task
<1>9. ASSUME NEW f \in Began, NEW orders \in SUBSET Capture, NEW obeyed \in SUBSET orders,
             ReadTakes(f, orders, obeyed)
      PROVE  Detached'
  BY <1>2, <1>9 DEF ReadTakes, AnswerRead, Takes, Task
<1>10. ASSUME NEW f \in Began, CutMoves(f) \/ \E c \in Capture : EndsMoves(f, c)
       PROVE  Detached'
  BY <1>2, <1>10 DEF CutMoves, EndsMoves, EvidenceCut, EvidenceEnds, EvidenceLeft, Task
<1>11. ASSUME NEW f \in Began, PassMoves(f)
       PROVE  Detached'
  <2>1. flushes[f].at # "done"
    BY <1>11 DEF PassMoves, DeadlinePasses, UnderWay
  <2> QED BY <1>2, <1>11, <2>1 DEF PassMoves, DeadlinePasses, Task
<1>12. ASSUME NEW f \in Began, Leaves(f)
       PROVE  Detached'
  <2>1. /\ UNCHANGED <<flushes, attached, drain>> /\ alive' = FALSE /\ left' = f
        /\ flushes[f].at = "done"
    BY <1>12 DEF Leaves
  <2> QED BY <2>1 DEF Began, UnderWay, Leaving
<1> QED
  BY <1>3, <1>5, <1>6, <1>7, <1>8, <1>9, <1>10, <1>11, <1>12 DEF DrainStep

\* A stop that nothing troubles goes on alone, and takes everything there is.
LEMMA AloneStep ==
  ASSUME DrainTypeOK, OneBatch, Detached, Untroubled, Alone, DrainStep
  PROVE  Alone'
<1>t. drain \in {0} \cup Began /\ 0 \notin Began /\ inflight \in {0} \cup Began
  BY FlushTypes DEF DrainTypeOK
<1>1. ASSUME UNCHANGED <<flushes, drain, recorded, queued, batch, live>>, troubled' = troubled
      PROVE  Alone'
  BY <1>1 DEF Alone, Began, UnderWay
<1>2. ASSUME drain' = 0
      PROVE  Alone'
  BY <1>2 DEF Alone
<1>3. CASE UNCHANGED drainVars \/ VersionSettles \/ \E x \in Capture : WindowCloses(x)
  BY <1>1, <1>3 DEF VersionSettles, WindowCloses
<1>4. CASE Traffic \/ TimerJoins
  BY <1>2, <1>4 DEF Traffic, TimerJoins, Timer, Detached
<1>5. ASSUME NEW door \in Door, LeaveJoins(door)
      PROVE  Alone'
  <2>1. drain' = 0 \/ drain' = Len(flushes')
    BY <1>5 DEF LeaveJoins, Leave, Detached
  <2>2. flushes'[Len(flushes')].at = "waiting"
    BY <1>5 DEF LeaveJoins, Joins, NewFlush
  <2> QED BY <1>2, <2>1, <2>2 DEF Alone
\* Beside the stop, once its wait is over, no other flush is under way.
<1>6. ASSUME NEW f \in Began, NEW a, NEW t, NEW p, Moves(f, a, t, p), drain' = drain,
             flushes[f].at # "done",
             ~troubled' => ~troubled,
             drain = f /\ ~troubled =>
               /\ UnderWay \subseteq {f} /\ recorded' = {}
               /\ a = "sending" => queued' \subseteq batch'.items
               /\ a \in {"reading", "evidence", "done"} => queued' = {}
               /\ a \in {"evidence", "done"} => live' = {}
      PROVE  Alone'
  <2> SUFFICES ASSUME drain # 0, ~troubled, flushes'[drain].at # "waiting"
               PROVE  Alone'
    BY <1>6 DEF Alone
  <2>1. f \in UnderWay /\ UnderWay' \subseteq UnderWay
    BY <1>6, NoneGoesOnAgain
  <2>2. drain = f
    <3>1. ASSUME drain # f
          PROVE  FALSE
      <4>1. flushes'[drain] = flushes[drain]
        BY <1>6, <1>t, <3>1 DEF Moves
      <4> QED BY <2>1, <3>1, <4>1 DEF Alone
    <3> QED BY <3>1
  <2>3. flushes'[drain].at = a
    BY <1>6, <2>2 DEF Moves
  <2> QED BY <1>6, <2>1, <2>2, <2>3 DEF Alone
<1>7. ASSUME NEW f \in Began, Resumes(f), drain = f, ~troubled
      PROVE  UnderWay \subseteq {f} /\ recorded' = {} /\ inflight = 0 /\ Leaving(f)
  <2>1. drain # 0 /\ Leaving(f)
    BY <1>7, <1>t DEF Detached
  <2>2. UnderWay \subseteq {f} /\ recorded' = {}
    <3>1. CASE flushes[f].at = "waiting"
      <4>1. flushes[f].wait \cap UnderWay = {} /\ recorded' = {}
        BY <1>7, <3>1 DEF Resumes, WaitOver, Untroubled, EnqueueHeld
      <4> QED BY <1>7, <2>1, <4>1 DEF Detached
    <3>2. CASE flushes[f].at = "version"
      BY <1>7, <2>1, <3>2 DEF Resumes, Alone
    <3> QED BY <1>7, <3>1, <3>2 DEF Resumes
  <2>3. flushes[f].at \notin {"sending", "reading"}
    BY <1>7 DEF Resumes
  <2>4. inflight = 0
    <3>1. ASSUME inflight # 0
          PROVE  FALSE
      <4>1. inflight \in Began /\ flushes[inflight].at \in {"sending", "reading"}
        BY <1>t, <3>1 DEF OneBatch
      <4> QED BY <2>2, <2>3, <4>1 DEF UnderWay
    <3> QED BY <3>1
  <2> QED BY <2>1, <2>2, <2>4
<1>8. ASSUME NEW f \in Began, Holds(f)
      PROVE  Alone'
  BY <1>6, <1>7, <1>8 DEF Holds, Resumes
<1>9. ASSUME NEW f \in Began, Sends(f)
      PROVE  Alone'
  <2>1. batch'.items = queued'
    BY <1>9 DEF Sends
  <2> QED BY <1>6, <1>7, <1>9, <2>1 DEF Sends, Resumes
<1>10. ASSUME NEW f \in Began, SkipTakes(f)
       PROVE  Alone'
  <2>1. /\ Resumes(f) /\ Takes(f, live, FALSE) /\ drain' = drain /\ troubled' = troubled
        /\ inflight = 0 => queued' = {}
        /\ flushes[f].at # "done"
    BY <1>10 DEF SkipTakes, Skips, Resumes
  <2>2. Leaving(f) => live' = {}
    BY <2>1 DEF Takes
  <2>3. Moves(f, IF Taken(f, live) = {} THEN "done" ELSE "evidence", Taken(f, live),
              flushes[f].passed)
    BY <2>1 DEF Takes
  <2> QED BY <1>6, <1>7, <2>1, <2>2, <2>3
\* From here on the stop was alone already.
<1>11. ASSUME NEW f \in Began, drain = f, ~troubled, flushes[f].at # "waiting"
       PROVE  /\ UnderWay \subseteq {f} /\ recorded = {} /\ Leaving(f)
              /\ flushes[f].at = "sending" => queued \subseteq batch.items
              /\ flushes[f].at \in {"reading", "evidence", "done"} => queued = {}
              /\ flushes[f].at \in {"evidence", "done"} => live = {}
  BY <1>11, <1>t DEF Alone, Detached
<1>12. ASSUME NEW f \in Began, LandedMoves(f)
       PROVE  Alone'
  <2>1. /\ flushes[f].at = "sending" /\ drain' = drain /\ troubled' = troubled
        /\ recorded' = recorded /\ queued' = queued \ batch.items
        /\ Moves(f, "reading", flushes[f].todo, flushes[f].passed)
    BY <1>12 DEF LandedMoves, Landed
  <2>2. drain = f /\ ~troubled =>
          UnderWay \subseteq {f} /\ recorded' = {} /\ queued' = {}
    BY <1>11, <2>1
  <2> QED BY <1>6, <2>1, <2>2
<1>13. ASSUME NEW f \in Began, troubled'
       PROVE  Alone'
  BY <1>13 DEF Alone
<1>14. ASSUME NEW f \in Began, NotLandedTakes(f) \/ PassMoves(f)
       PROVE  Alone'
  BY <1>13, <1>14 DEF NotLandedTakes, NotLanded, PassMoves, DeadlinePasses
<1>15. ASSUME NEW f \in Began, NEW orders \in SUBSET Capture, NEW obeyed \in SUBSET orders,
              ReadTakes(f, orders, obeyed)
       PROVE  Alone'
  <2> DEFINE lives == live \cup obeyed
  <2>1. /\ Takes(f, lives, orders # {}) /\ drain' = drain /\ troubled' = troubled
        /\ UNCHANGED <<recorded, queued>> /\ flushes[f].at = "reading"
    BY <1>15 DEF ReadTakes, AnswerRead
  <2>2. /\ Leaving(f) => live' = {}
        /\ Moves(f, IF Taken(f, lives) = {} THEN "done" ELSE "evidence", Taken(f, lives),
                 flushes[f].passed)
    BY <2>1 DEF Takes
  <2>3. drain = f /\ ~troubled =>
          UnderWay \subseteq {f} /\ recorded' = {} /\ queued' = {} /\ live' = {}
    BY <1>11, <2>1, <2>2
  <2> HIDE DEF lives
  <2> QED BY <1>6, <2>1, <2>2, <2>3
<1>16. ASSUME NEW f \in Began, NEW a \in {"evidence", "done"}, NEW t, NEW p, Moves(f, a, t, p),
              flushes[f].at = "evidence",
              UNCHANGED <<drain, recorded, queued, batch, live, troubled>>
       PROVE  Alone'
  BY <1>6, <1>11, <1>16
<1>17. ASSUME NEW f \in Began, CutMoves(f)
       PROVE  Alone'
  BY <1>16, <1>17 DEF CutMoves, EvidenceCut, EvidenceLeft
<1>18. ASSUME NEW f \in Began, NEW c \in Capture, EndsMoves(f, c)
       PROVE  Alone'
  <2>1. (IF flushes[f].todo = {c} THEN "done" ELSE "evidence") \in {"evidence", "done"}
    OBVIOUS
  <2> QED BY <1>16, <1>18, <2>1 DEF EndsMoves, EvidenceEnds, EvidenceLeft
<1>19. ASSUME NEW f \in Began, Leaves(f)
       PROVE  Alone'
  BY <1>1, <1>19 DEF Leaves
<1> QED
  BY <1>3, <1>4, <1>5, <1>8, <1>9, <1>10, <1>12, <1>14, <1>15, <1>17, <1>18, <1>19
  DEF DrainStep

-----------------------------------------------------------------------------
\* The theorems.

\* The invariant holds at first.
LEMMA DrainInitInv == DrainInit => DrainIInv
<1> SUFFICES ASSUME DrainInit
             PROVE  DrainIInv
  OBVIOUS
<1>1. NoCounts \in Counts
  BY DEF NoCounts, Counts
<1>2. flushes \in Seq(Flush) /\ Began = {} /\ Len(flushes) = 0
  BY DEF DrainInit, Began
<1>3. Cardinality(live) = 0
  BY FS_EmptySet DEF DrainInit
<1>4. DrainTypeOK
  <2>1. FlushesOK
    BY <1>2 DEF DrainInit, FlushesOK
  <2>2. FlagsOK
    BY DEF DrainInit, FlagsOK, NoBatch, Versions
  <2>3. ItemsOK
    BY DEF DrainInit, ItemsOK, NoBatch
  <2>4. CapturesOK
    BY <1>1, <1>3, DrainAssumption DEF DrainInit, CapturesOK
  <2> QED BY <2>1, <2>2, <2>3, <2>4, TypeParts
<1>5. OneBatch /\ InHand /\ VersionFixed /\ ItemsKept /\ Untroubled
  BY <1>2 DEF DrainInit, OneBatch, InHand, VersionFixed, ItemsKept, Untroubled
<1>6. StartsAhead /\ MarkedWasHeard
  BY <1>2 DEF DrainInit, StartsAhead, MarkedWasHeard, ToBeSaid, NoCounts
<1>7. CaptureAccountedFor
  <2> SUFFICES ASSUME NEW c \in Capture
               PROVE  Account(c)
    BY DEF CaptureAccountedFor, Account, Holders
  <2>1. Cardinality(Holders(c)) = 0
    BY <1>2, FS_EmptySet DEF Holders
  <2> QED BY <2>1 DEF DrainInit, Account, NoCounts
<1>8. ReferenceFollows /\ Detached /\ Alone
  BY <1>2 DEF DrainInit, ReferenceFollows, Detached, Alone
<1> QED BY <1>4, <1>5, <1>6, <1>7, <1>8 DEF DrainIInv

\* Every step keeps it.
LEMMA DrainStepInv == DrainIInv /\ [DrainNext]_drainVars => DrainIInv'
<1> SUFFICES ASSUME DrainIInv, [DrainNext]_drainVars
             PROVE  DrainIInv'
  OBVIOUS
<1>1. DrainStep
  BY DrainSteps DEF DrainIInv
<1>2. DrainTypeOK' /\ OneBatch' /\ VersionFixed' /\ InHand'
  BY <1>1, DrainTypeStep, OneBatchStep, InHandStep DEF DrainIInv
<1>3. StartsAhead' /\ MarkedWasHeard' /\ CaptureAccountedFor' /\ ReferenceFollows'
  BY <1>1, StartsStep, MarkedStep, AccountedStep, ReferenceStep DEF DrainIInv
<1>4. ItemsKept' /\ Detached' /\ Untroubled' /\ Alone'
  BY <1>1, ItemsKeptStep, DetachedStep, UntroubledStep, AloneStep DEF DrainIInv
<1> QED BY <1>2, <1>3, <1>4 DEF DrainIInv

\* The flushes keep their types and the cap on captures, a start is said again only for a batch whose
\* answer was lost, and one that is marked as said was heard of, though a batch carries it while the
\* capture is delivered, and accepted again, beside it.
THEOREM StartsSaidAsAccepted == DrainSpec => []DrainInv
<1>1. DrainIInv => DrainInv
  <2> SUFFICES ASSUME DrainIInv, NEW c \in Capture
               PROVE  cloud.starts[c] <= accepted[c] + cloud.unanswered[c]
    BY DEF DrainInv, StartsSaid, DrainIInv, MarkedWasHeard
  <2>1. cloud.starts[c] \in Nat /\ accepted[c] \in Nat /\ cloud.unanswered[c] \in Nat
    BY DEF DrainIInv, DrainTypeOK, Counts
  <2> QED BY <2>1 DEF DrainIInv, StartsAhead
<1> QED BY <1>1, DrainInitInv, DrainStepInv, PTL DEF DrainSpec

\* Every capture obeyed is watched, in one flush's hands, or settled once.
THEOREM CapturesAccountedFor == DrainSpec => []CaptureAccountedFor
<1>1. DrainIInv => CaptureAccountedFor
  BY DEF DrainIInv
<1> QED BY <1>1, DrainInitInv, DrainStepInv, PTL DEF DrainSpec

\* The reference samples stand still exactly while a capture needs them to.
THEOREM ReferenceStandsStill == DrainSpec => []ReferenceFollows
<1>1. DrainIInv => ReferenceFollows
  BY DEF DrainIInv
<1> QED BY <1>1, DrainInitInv, DrainStepInv, PTL DEF DrainSpec

\* No two batches say different versions.
THEOREM OneVersion == DrainSpec => []OneVersionSaid
<1>1. DrainIInv => OneVersionSaid
  <2> SUFFICES ASSUME DrainIInv
               PROVE  OneVersionSaid
    OBVIOUS
  <2> DEFINE said == cloud.versions \cup ({batch.version} \ {"open"})
  <2>1. said \subseteq {version}
    BY DEF DrainIInv, VersionFixed, OneBatch, NoBatch
  <2>2. said = {} \/ said = {version}
    BY <2>1
  <2>3. Cardinality(said) \in {0, 1}
    BY <2>2, FS_EmptySet, FS_Singleton
  <2> QED BY <2>3 DEF OneVersionSaid
<1> QED BY <1>1, DrainInitInv, DrainStepInv, PTL DEF DrainSpec

\* A stop that nothing cut leaves nothing behind, whatever was under way when it began.
THEOREM StopLeavesNothing == DrainSpec => []StopDelivers
<1>1. DrainIInv => StopDelivers
  <2> SUFFICES ASSUME DrainIInv, left # 0, left = drain, ~troubled
               PROVE  flushes[left].held \subseteq cloud.items /\ live = {} /\ UnderWay = {}
    BY DEF StopDelivers
  <2>1. flushes[left].at = "done" /\ left \in Began
    BY DEF DrainIInv, Detached, DrainTypeOK
  <2>2. UnderWay \subseteq {left} /\ recorded = {} /\ queued = {} /\ live = {}
    BY <2>1 DEF DrainIInv, Alone
  <2>3. UnderWay = {}
    BY <2>1, <2>2 DEF UnderWay
  <2> QED BY <2>1, <2>2, <2>3 DEF DrainIInv, ItemsKept
<1> QED BY <1>1, DrainInitInv, DrainStepInv, PTL DEF DrainSpec
=============================================================================
