---------------------------- MODULE OverheadMeter ----------------------------
(***************************************************************************)
(* What the instrumentation gives up when it costs too much                *)
(* (packages/agent/src/overhead.ts), driven as the agent drives it: every  *)
(* hook runs between enter and leave (agent.ts, guard), and the hook of a  *)
(* finished request re-decides inside those two, then looks at the memory. *)
(*                                                                         *)
(* Time is in whole ticks, and the products of the estimate are compared   *)
(* instead of the quotients.  A hook's time passes after what it decides.  *)
(***************************************************************************)
EXTENDS Integers

CONSTANTS
  Every,      \* SAMPLE_EVERY
  Window,     \* WINDOW_REQUESTS
  Budget,     \* OVERHEAD_BUDGET_MS, in ticks
  Floor,      \* DOWNTRACE_SHED
  \* Bounds of the model:
  MaxCost,    \* of one hook
  MaxClock,
  MaxInWindow \* in a window that goes on for want of a sample

ASSUME MeterAssumption ==
  /\ {Every, Window} \subseteq Nat \ {0}
  /\ {Budget, MaxCost, MaxClock, MaxInWindow} \subseteq Nat
  /\ Floor \in 0 .. 2

VARIABLES
  meter,    \* level, why, and the episodes of shed detail: see MeterType
  window,   \* the current window: `sampled` when something in it was timed
  hooks,    \* hooks seen, modulo the period
  clock,
  calm,     \* the load is gone: hooks cost nothing and the memory fits
  shedTrue  \* history: ticks that passed with the fine detail given up

meterVars == <<meter, window, hooks, clock, calm, shedTrue>>

\* Sheddable.
Fine    == 1
Profile == 2

Reason == {"latency", "memory"}

\* No episode is open.
Closed == -1

MeterType ==
  [level : 0 .. 2, why : Reason \cup {"none"}, accum : Nat,
   openSince : Nat \cup {Closed}, last : Reason \cup {"none"}]

MeterTypeOK ==
  /\ meter \in MeterType
  /\ window \in [measured : Nat, sampled : BOOLEAN, requests : Nat]
  /\ hooks \in 0 .. Every - 1
  /\ clock \in Nat /\ shedTrue \in Nat /\ calm \in BOOLEAN

EmptyWindow == [measured |-> 0, sampled |-> FALSE, requests |-> 0]

MeterInit ==
  /\ meter = [level |-> Floor, why |-> "none", accum |-> 0, openSince |-> Closed, last |-> "none"]
  /\ window = EmptyWindow
  /\ hooks = 0 /\ clock = 0 /\ shedTrue = 0 /\ calm = FALSE

-----------------------------------------------------------------------------
\* Every change opens an episode, and the floor's too: mutants.
SettledReopening(m) ==
  IF m.level >= Fine
  THEN [m EXCEPT !.openSince = clock, !.last = IF m.why = "none" THEN @ ELSE m.why]
  ELSE [m EXCEPT !.accum = @ + (clock - m.openSince), !.openSince = Closed]
SettledAnyFloor(m) ==
  IF m.level >= Fine /\ m.openSince = Closed THEN [m EXCEPT !.openSince = clock, !.last = m.why] ELSE m

\* settleShed: the episodes around a change of the level.  With the floor at the fine
\* detail or above none is this meter's doing.
Settled(m) ==
  IF Floor >= Fine THEN m
  ELSE IF m.level >= Fine
       THEN [m EXCEPT !.openSince = IF @ = Closed THEN clock ELSE @,
                      !.last = IF m.why = "none" THEN @ ELSE m.why]
       ELSE IF m.openSince # Closed
            THEN [m EXCEPT !.accum = @ + (clock - m.openSince), !.openSince = Closed]
            ELSE m

\* The level moves, with a reason or back to none.
Moved(m, level, why) == Settled([m EXCEPT !.level = level, !.why = why])

Heavy(w) == w.measured * Every > Budget * w.requests

LightAsHeavy(w) == w.measured * Every > Budget * w.requests
Light(w)        == 2 * w.measured * Every < Budget * w.requests

DecidedPastFloor(m, w) ==
  IF Light(w) THEN [m EXCEPT !.level = @ - 1] ELSE m

\* decide, at the end of a window.
Decided(m, w) ==
  IF Heavy(w) /\ m.level < Profile THEN Moved(m, m.level + 1, "latency")
  ELSE IF ~Heavy(w) /\ Light(w) /\ m.level > Floor
       THEN Moved(m, m.level - 1, IF m.level - 1 = Floor THEN "none" ELSE m.why)
       ELSE m

ShedForMemoryUnsaid(m) == IF m.level < Fine THEN Moved(m, Fine, m.why) ELSE m
ShedForMemory(m)       == IF m.level < Fine THEN Moved(m, Fine, "memory") ELSE m

-----------------------------------------------------------------------------
\* enter and leave: one hook in `Every` is timed.
Timed == (hooks + 1) % Every = 0

Measured(w, cost) ==
  IF Timed THEN [w EXCEPT !.measured = @ + cost, !.sampled = TRUE] ELSE w

Cost == 0 .. (IF calm THEN 0 ELSE MaxCost)

\* Time passes at the level decided.
Passes(time, m) ==
  /\ clock + time <= MaxClock
  /\ clock' = clock + time
  /\ shedTrue' = shedTrue + IF m.level >= Fine THEN time ELSE 0

\* A hook that finishes no request.
Hook(cost) ==
  /\ Passes(cost, meter)
  /\ hooks' = (hooks + 1) % Every
  /\ window' = Measured(window, cost)
  /\ window.requests < MaxInWindow
  /\ UNCHANGED <<meter, calm>>

\* requestFinished: a window ends with its requests, once something in it was timed.
WindowEnds(w) == w.sampled /\ w.requests >= Window

\* The hook of a request that finishes: requestFinished and the look at the memory, and
\* then its own leave, which counts in the window that has just begun.
Finish(cost, over) ==
  LET w     == [window EXCEPT !.requests = @ + 1]
      after == IF WindowEnds(w) THEN Decided(meter, w) ELSE meter
      m     == IF over THEN ShedForMemory(after) ELSE after
  IN
  /\ window.requests < MaxInWindow
  /\ over => ~calm
  /\ meter' = m
  /\ Passes(cost, m)
  /\ hooks' = (hooks + 1) % Every
  /\ window' = Measured(IF WindowEnds(w) THEN EmptyWindow ELSE w, cost)
  /\ UNCHANGED calm

\* No hook runs.
Idle ==
  /\ Passes(1, meter)
  /\ UNCHANGED <<meter, window, hooks, calm>>

\* The load goes away.
Calm ==
  /\ calm' = TRUE
  /\ UNCHANGED <<meter, window, hooks, clock, shedTrue>>

MeterNext ==
  \/ \E cost \in Cost : Hook(cost)
  \/ \E cost \in Cost, over \in BOOLEAN : Finish(cost, over)
  \/ Idle
  \/ Calm

MeterSpec == MeterInit /\ [][MeterNext]_meterVars

\* While the load is gone the application goes on serving requests.
FairMeterSpec ==
  /\ MeterSpec
  /\ WF_meterVars(\E cost \in Cost, over \in BOOLEAN : Finish(cost, over))

-----------------------------------------------------------------------------
\* What others read.

Keeping(what) == meter.level < what

\* shedMs.
ShedMs ==
  meter.accum + IF meter.openSince = Closed THEN 0 ELSE clock - meter.openSince

-----------------------------------------------------------------------------
\* Properties.

\* The reading is the time the fine detail was given up by the meter's own decision, to the
\* tick and at any instant, in an episode or between two; what the configuration holds shut
\* is never claimed (overhead.ts 227-251, ADR 0210).
ShedTimeExact == ShedMs = IF Floor < Fine THEN shedTrue ELSE 0

\* Whatever is given up above the floor has a reason, nothing else has one, and time that was
\* shed can always be explained: the evidence says its shedding only when there is a reason
\* (agent.ts 1293-1316).
ShedHasReason ==
  /\ meter.level >= Floor
  /\ meter.level > Floor <=> meter.why # "none"
  /\ ShedMs > 0 => meter.last # "none"

\* Once the load is gone for good, what was given up is taken back (overhead.ts 188-202).
DetailComesBack == calm ~> (meter.level = Floor)
=============================================================================
