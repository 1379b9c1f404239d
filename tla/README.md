# A formal model of the downtrace agent

TLA+ modules, TLC configurations and TLAPS proofs for the agent (`packages/agent`)
and the MCP server (`packages/mcp`): how a process starts its instrumentation, how
drivers are patched and their calls seen, what is recorded while requests are served,
what is given up when it costs too much, what is told to the cloud, how the process
leaves; and the commands beside it: `check`, `init`, `login`. Each module is translated
from the source; `PROJECT.json` maps every definition to its lines.

- [The system](#the-system): its parts, their state and operations, how they interact.
- [What is hard here](#what-is-hard-here): the hazards, and the properties that answer them.
- [The modules](#the-modules): state and actions against the code.
- [The runs](#the-runs): what each one checks, its bounds and its fairness.
- [Where the code and its words part](#where-the-code-and-its-words-part).
- [The proofs](#the-proofs): what holds for every value of the constants, and why.
- [What is not here](#what-is-not-here), and [the plan](#the-plan).

## The system

The repository is a monorepo of TypeScript packages, about 29,900 lines of
implementation under `packages/*/src`.

| package | lines | what it is |
|---|---|---|
| `agent` | 21.3k | the library an application loads: registers, sender, captures, instrumentation, and the `check`, `init`, `login`, `verify` and `report` commands |
| `bench` | 4.5k | measurements of the agent's overhead, and their verdict |
| `mcp` | 1.5k | an MCP server that answers a coding agent's questions from the cloud |
| `reference-app` | 1.4k | an application to measure with |
| `protocol` | 1.1k | schemas and generated types of what is sent |
| `coding-agent` | – | skills and hooks: texts |

The agent is one Node.js process: there are no threads, and a step runs from one
`await` to the next. Concurrency is between flushes (one begins per interval and may
wait for an answer, for the version, or for the evidence of a capture), between
requests the application serves, whose callbacks interleave, and between the process
and a cloud that answers late, twice or never.

### Its components

| component | source | state it keeps | operations | modelled |
|---|---|---|---|---|
| sender | `transport.ts` | queues of intervals and profiles, pending exceptions, running totals, asks, capture reports, the ending, the counters of losses, the batch in flight | the `enqueue*`, `declareEnding`, `flush`, `writeHeld`, `dumpOnExit` | `Sender` |
| process exceptions | `exceptions.ts` | occurrences by signature in the window, those not admitted | `record`, `take`, `takeDropped` | `Sender` |
| agent: flushes, ways out | `agent.ts` | flushes under way, the drain, whether it is started | `flush`, `flushOnce`, `leave`, `signalled`, `beforeExit`, `deliverEvidence` | `Drain` |
| captures | `captures.ts` | captures under way, starts reported | `accept`, `toReport`, `reported`, `take`, `takeAll`, `sliceFor` | `Drain`, `BlackBox` |
| deployed version | `deployed.ts` | the version chosen | `ready`, `read` | `Drain` (the choice, not the sources) |
| fine register | `fine.ts` | three rings with absolute cursors | `operation`, `request`, the readings | `FineRegister` |
| request context | `context.ts` | where a request's operations begin, how many it ran | `recordOperation` | `FineRegister` (the detail) |
| labels | `labels.ts` | a bounded table | `of` | `FineRegister` (the cap) |
| prearm register | `prearm.ts` | arms, rows per arm, one pool of operations | `arm`, `observe`, `requestsFor` | `BlackBox` |
| overhead meter | `overhead.ts` | the level given up, why, the episodes of shed time | `enter`, `leave`, `requestFinished`, `shedForMemory`, `shedMs` | `OverheadMeter` |
| reference samples | `reference.ts` | per-route reservoirs, summaries of the routes it has no room for | `consider`, `pause`, `resume` | `ReferenceSamples`; when they renew in `Drain`, what they copy in `FineRegister` |
| coarse summary | `coarse.ts` | per-route rings of seconds, the event loop's | `record`, `recordEventLoop`, `snapshot` | `CoarseSummary` |
| aggregator, profile | `aggregator.ts`, `profile.ts` | one interval's counters per route and dependency, one window's operations | `record`, `rotate`, `drain` | `Aggregates` |
| local signals | `trigger.ts`, `runtime.ts` | runs of intervals over a threshold, cooldown, requests in flight | `endpoints`, `interval` | `LocalSignals`, `Registers` |
| driver instrumentation | `instrument/*` | what is patched, what is waited for | the `arm` of each driver, `whenLoaded` | `Arming`, `Drivers`, `Instrumentation` |
| configuration, start | `config.ts`, `entry.ts`, `activate.ts`, `register.ts`, `registered.ts`, `start.ts` | the slot of the process: the instrumentation that runs, the drain under way | `register`, `init`, `shutdown` | `Configuration`, `Activation` |
| check | `check/*` | the worktree, the links, the command under way, two readings | `runCheck`, `readRun`, `compareRuns` | `CheckRun`, `RunRead`, `RunCompare`, `Advice` |
| init | `init/*` | what it read, the writes left | `runInit` | `InitCommand` |
| login | `login/*` | the code, the interval, the deadline | `login` | `Login` |
| MCP server | `packages/mcp` | requests in flight by id, the revision of the session | `serve`, `callTool` | `Session`, `Tools` |
| routes and frameworks | `routes.ts`, `mounts.ts`, ... | caches of resolved routes | – | no: a route is a value here |
| names and texts | `fingerprint.ts`, `sanitize.ts`, `minimal.ts` | – | scanners of SQL and text | no |
| verify, rendering, arguments | `verify.ts`, `check/render.ts`, `check/args.ts`, ... | – | – | no |
| protocol | `packages/protocol` | – | – | its promises, in `CountedDelivery` |

### How they interact

An instrumented call ends and `context.ts` writes it into `fine.ts`'s ring. A request
ends and the agent writes its row there, then offers it to the reserve of its route
(`prearm.ts`), which reads its operations back from the ring, and lets the meter decide
(`overhead.ts`). Each interval the timer begins a flush: the registers are emptied into
the sender, the sender builds a batch and sends it, the answer orders captures, and the
captures whose window has closed are frozen from the ring and the reserve and delivered
one by one. `stop`, a signal, an idle loop and too many internal errors are ways out:
each waits for the flushes it finds and flushes once more, all under one deadline. On
`exit` nothing asynchronous runs, so with an inspection file what is held is written
synchronously.

A process starts its instrumentation from a `--import` (`register.ts`) or from its own
code (`init`), and the two share a slot on the process, whatever copy of the package they
come from. `start` attaches the observers: what the application has loaded by the first
request is patched there, and what it loads later is patched after the load. `check`
runs a command twice, on the base and on the change, with an environment of its own that
makes every process it starts write to a file; it reads the two files and compares them.
`init` and `login` are sequences of writes and of polls. The MCP server answers a coding
agent's calls side by side, each of them one request to the cloud.

### What makes each component correct

- *Sender*: what lands is taken off, and nothing else; what does not land is said
  again and counted once; every loss is in a counter, and the counter's own batch may be
  lost too. One ending is heard, and it is taken for said when it was. Nothing queued
  waits for ever.
- *Exceptions*: an occurrence is counted, held, or counted as lost.
- *Flushes and ways out*: a stop delivers what was held when it began; a flush ends
  whatever the cloud does.
- *Captures*: one that is obeyed is settled exactly once, its start is said once, and again
  only if the answer was lost, and the reference samples stand still while it is watched.
- *Version*: the process says one.
- *Fine register*: a row that lost entries never passes for one that did not, and reads
  nothing from before or after its request; no request costs the others more than its cap.
- *Prearm*: a route has one reserve, which keeps its last rows whatever others do.
- *Meter*: shed time is exact, has a reason, and ends.
- *Aggregator and profile*: whatever is folded, a row says what its endpoints were
  served and spent; no two windows have one start.
- *Coarse summary*: what a row says of a second is what was served in it.
- *Reference samples*: a uniform reservoir has as many requests as the endpoint was
  busy, none served while it stood still.
- *Local signals*: what is armed queued in each of the last intervals with traffic.
- *Driver instrumentation*: what is loaded is patched, once; a call is written once, to
  the context it was asked in, which is its request's.
- *Start*: one instrumentation a process, and none that sends in a process of `check`.
- *Check*: it leaves nothing it does not say it left, and compares two runs that ended
  well; a line counts once, whatever the order of the lines.
- *Init*: it takes nothing the person wrote, and what it says is configured is.
- *Login*: credentials that were handed over are shown, or were lost and said to be.
- *MCP server*: a request is answered once, also one whose answer is still waited for as
  the input ends, and an operation retried with its key is applied once.

## What is hard here

`PROJECT.json` lists the hazards line by line. In short:

1. **State changes under a batch in flight.** Everything `assemble` read may have grown,
   shrunk or been replaced when the answer comes. Properties: `NoOccurrenceVanishes`,
   `NothingElseVanishes` (intervals, profiles, asks, reports and the ending),
   `CountersNeverLieDownwards`, `LossIsSaid`.
2. **Not knowing.** A request that timed out may have landed, or may land after its
   successor. Properties: `CountedAtMostOnce`, `CountedOnce`.
3. **Two caps on one path.** An occurrence may be lost in the register and at the
   pending list, and is counted where it is lost. Property: `LossIsSaid`.
4. **Ways out that overlap** with flushes and with each other, under one deadline.
   Properties: `StopDelivers`, `OneVersionSaid`, `EveryFlushEnds`; and
   `OrderlyEndingDelivers`, which does not hold.
5. **Captures across awaits.** They are taken, ordered, reported and delivered by
   flushes that overlap. Properties: `CaptureAccountedFor`, `DrainInv`,
   `ReferenceFollows`.
6. **Rings read later than written**, with cursors that never wrap over rings that do,
   and by requests that overlap. Properties: `NothingOverwrittenIsRead`,
   `NeverPassesForSmall`, `ReadsItsOwnTime`, `RunawayCostsItself`, `ReserveKeepsItsLast`,
   `SecondsTell`; and `OwnOperationsOnly`, `PoolRowsLive`, `ReserveReadsItsRange`,
   `EmptyMeansRanNothing`, which do not hold.
7. **The process goes away** with a write suspended. Properties: `HeldIsWritten`; and
   `ProfilesAtExit`, which does not hold.
8. **Registers at their caps**, fed by requests that end in several ways and emptied at
   several cadences. Properties: `EveryRequestTold`, `EveryOperationTold`, `SamplesTell`,
   `IdleMeansIdle`, `ArmedMeansSustained`.
9. **Code that is not ours.** A driver is loaded at any time, in parts, and answers from
   another request's connection, twice or never, after passing two wrappers. Properties:
   `LoadedMeansPatched`, `EachCallOnce`; and `EachCountsItsOwn`, which does not hold.
10. **Commands that fail or are interrupted at any step**, and whose answers are lost.
   Properties: `NothingLeft`, `InitKeepsWhatIsThere`, `CredentialsShownOrLost`,
   `EachAskOnce`; and `WhatHoldsGoesToo`, `EntryGoesToo`, `ConfiguredIsWhole`,
   `RetriedIsNotRepeated`, which do not hold.
11. **Two files of several processes**, read in any order. Property: `EachLineOnce`.
12. **Who starts first.** Properties: `FirstStartRules`; and `OneInstrumentation`,
   `ShutdownStopsWhatRuns`, which do not hold.

## The modules

| module | what it is |
|---|---|
| `CountedDelivery` | abstract: occurrences happen, are counted at most once, or are lost |
| `Sender` | the sender, the exception register, the cloud as the schema describes it |
| `SenderProofs` | the sender's invariants and safety theorems, and that it implements `CountedDelivery` |
| `FineRegister` | the rings, the requests that write them |
| `BlackBox` | extends `FineRegister` with the reserve and the slice of a capture |
| `OverheadMeter` | the meter and the hooks that drive it |
| `Lemmas` | rings told apart by cursors, least and greatest numbers, sums over sets |
| `DetailProofs` | the theorems of the two registers, that the second refines the first, and those of the meter |
| `Drain` | flushes, ways out, captures, version, and who sends |
| `DrainProofs` | its invariant and theorems |
| `Observed` | what the registers below share: labels, a finished request, the clock |
| `Aggregates`, `CoarseSummary`, `ReferenceSamples`, `LocalSignals` | one register each, operation by operation |
| `Registers` | composes the four: the agent's handlers feed and empty them |
| `RegistersProofs`, `AggregatesProofs` | the theorems of the four: all but the interval's and the profile's; those |
| `Arming` | how drivers are found as they are loaded, and patched |
| `Instrumentation` | extends `Arming` with the calls, their contexts, start and stop |
| `InstrumentationProofs` | their two invariants and theorems |
| `Drivers` | what the agent knows of each driver: data for `Instrumentation` |
| `Session`, `Tools` | the MCP server, a coding agent and the cloud; its tools |
| `Login` | `downtrace login`, the cloud and the person |
| `InitCommand` | `downtrace init`, the disk and the person |
| `CheckRun`, `Advice` | `downtrace check`: its steps and processes; what it says beside its result |
| `RunRead`, `RunCompare` | the file of a run, folded line by line; two runs compared |
| `Configuration`, `Activation` | the settings; what starts in a process, and what is left |
| `CommandProofs` | the theorems of the seven rows above but `Drivers` and `Tools`: an invariant for each command, and the comparison |
| `MCSender`, `MCBlackBox`, `MCDrain`, `MCRegisters`, `MCInstrumentation`, `MCCommands` | the above for TLC, within the bounds of their workloads |
| `MCLife`, `MCEnds` | the instrumentation beside the flushes; the sender beside the meter |

### Sender

One variable per field of the class (`queue`, `profiles`, `captureReports`, `pending`
for `exceptions`, `totals`, `asks` for `triggers`, `ending`, `endingLanded`, `since`,
`stats` for the public counters), the batch in flight with the point of `flush` it is
at (`phase`: `writing` the inspection file, `sending`, `reading` the answer), and the
cloud and the file as the other side. An interval is a number, in order of creation,
so the queue is a set whose oldest is the least. The clock is the flag `silent` (a 429
with a wait) and the action `TimeOut`.

`totals` and `tracked` are kept apart: a total that is absent is not sent, one that is
zero does not exist. A counter of dropped exceptions is kept by signature, which only
splits a sum the code adds to and subtracts from; it lets `LossIsSaid` speak of every
signature. Which signatures a full list admits is the order of the register's map: any
choice that fills the list (`Fills`).

Actions: `Record` (the register), `EnqueueExceptions` (take, takeDropped and
enqueueExceptions are one synchronous step), `Enqueue`, `EnqueueProfile`,
`EnqueueCaptures`, `EnqueueTrigger`, `DeclareEnding`; `FlushBegin`, `FlushWritten`,
`FlushSend`; `Landed`, `Rejected`, `Refused`, `TimeOut`, `AnswerRead`, `SilenceEnds`;
`WriteHeld`, `DumpOnExit`, `Killed`. The cloud (`CloudAccepts`, `CloudRejects`,
`CloudRefuses`, `CloudAcceptsLate`) is outside `src`: it does what the schema of
`aggregates` says of a running total (`Adds`).

The history variables (`thrown`, `handed`, `refused`, `lost`, `hist`) are written and
never read by an action, except for the bounds.

### FineRegister and BlackBox

A ring's slot is a record of who wrote it and at which cursor; a row names a range. The
cursors are absolute, as in the code, and the slot is the cursor modulo the capacity.
`RecordOperation` is `context.recordOperation` with the register's `operation`;
`RecordFinished` is the agent's `recordFinished` with the register's `request`, and
with the copy the reference samples take. An operation may finish after its request
(`Trailing`): the context outlives it. `beside` is history: the requests that wrote while
one was open, whose operations are in its range. `ShedOrRecover` is the meter, at any time.

`BlackBox` adds arms by slot, the reserve's rows and the one pool of operations.
`Arm(route)` chooses the route's own live slot before a free one, as `arm` does;
`Finishes` writes the ring and then offers the row to the reserve with what
`operationsAt` reads back. A request's start and an arm's beginning are instants of
their own (`performance.now()` has decimals).

### OverheadMeter

A hook runs between `enter` and `leave`, one in `Every` is timed, and the hook of a
request that finishes decides inside those two. Quotients are compared as products.
`clock` is time in ticks; `shedTrue` is history: the ticks that passed with the detail
given up. `Calm` marks a load that is gone for good.

### Drain

`flushes` holds every flush begun: its kind (the timer or a door), where it is
(`waiting` for those it found, for the `version`, `sending`, `reading`, delivering
`evidence`, `done`), whom it waits for, the captures in its hands and whether its
deadline passed. A flush that waits for the version waits until the search has `settled`
or its deadline has passed, though another's read may have chosen one meanwhile. A batch
that does not land may have been taken by the cloud, and its answer lost (`NotLanded`):
its starts are then said again. What runs between two awaits is one step, and what can go on does so
before the event loop takes another task (`Task`): microtasks run first. What the
registers hold is a set of items, since `Sender` says what becomes of each kind.

### Registers

`Aggregates`, `CoarseSummary`, `ReferenceSamples` and `LocalSignals` each hold the fields
of one class and define its operations as actions on them; `Registers` is the agent's
handlers, each of which calls several in the code's order: `RequestStarted`,
`ResponseEnding` and `ResponseFinished` (one `recordFinished` behind both),
`ResponseFinishedLate`, `ClientGone`, `Rotate` (`enqueueHeld`), `SampleLoop`, `Renew`,
`MeterMoves`. A row that was never written is a row of zeros. The clock counts half
milliseconds, so that rounding a start down does something. The history variables
(`served`, `ran`, `hits`, `sampled`, `considered`, `refused`, `verdicts`, `asks`) keep per
endpoint what the registers fold, and the properties compare the two.

### Instrumentation

`Arming` has parts (a class of a copy of a driver), what the application has loaded of
them, what was patched, what still waits, and what hears of a load: each request until
the first attach, then Node's announcement and the microtask after it, then nothing. A
Prisma client is looked for at requests that double. `Instrumentation` has requests with
the contexts their code has come to run in, and calls with a *form*: how an answer comes
back. `Drivers` says of each class which forms it has, and whether a call may pass two of
what the agent wrapped (`nested`): the mark that the first leaves, a depth or a callback
known to be the agent's, is what the second looks at (`Marked`, `Watchers`). `Ask` is the
wrapper's entry, `Answer` its continuation, with the context in which the application's
next step runs.
Errors inside the agent may happen in any hook, and the last of a few stops everything.
The wrappers on drivers stay through stops; the subscriptions to Node's channels, and the
calls they know to be on their way, are those of one start (`since`), and the wrapper on
`fetch` remembers what its request had been charged (`before`).

### Session, Login, InitCommand, CheckRun

Each is a process and its environment. In `Session` messages are read in order and
handled at once, calls wait for the cloud (external) side by side, and the agent cancels,
retries and reuses ids as the protocol lets it; the input ends with calls under way, which
`serve` waits for before it returns. In `Login` the cloud hands the
credentials over once and its answers may be lost. In `InitCommand` the whole plan is
made from what was read, and then written file by file; a write is an opening, which
empties the file, and a filling; a run may be cut between the two. In `CheckRun` a command
is a group of processes: a leader, what it started, some of it in a group of its own, and
the timers that stop them.

### RunRead, RunCompare, Advice

Pure code, as operators: `ReadLine` folds a line, `Finish` is the tally, `CompareRuns`
the verdict. A window that is new is folded in whole, as a sum for each operation of its
routes (`Executions`). `EachLineOnce` checks what the fold came to against definitions that
do not fold, and know no order (`Windows`, `Recorded`, `Executed`, `Asked`), and the comparison against its mirror.

### Configuration, Activation

`ConfigFrom` is the reading of the settings, from code and from the environment.
`Activation` is a process: what Node imports in order, then the application's calls of
`init` and `shutdown`, from any copy of the package, over one slot. `checked` processes
have the environment `runEnv` builds.

## The runs

Twelve runs: eight that pass, and four that are expected to find a disagreement.
The state spaces of unrelated inputs multiply, so `MCSender`, `MCBlackBox`, `MCDrain`,
`MCRegisters`, `MCInstrumentation` and `MCCommands` define *workloads* (which inputs there
are, and how many) and a state constraint, `Within`, that keeps what has happened so far
within one of them. A workload only bounds the environment: the specification checked is the
component's own. Components that share no state are checked side by side in one run (`MCEnds`,
`MCLife`, `MCCommands`): one of them goes on, and the others stay where they start.

| run | module | checks | distinct states |
|---|---|---|---|
| `Sender` | `MCSender` | the inductive invariant, five safety properties, the refinement `CountedOnce` | 381k |
| `SenderFile` | `Sender` | the inspection file at an exit and at a kill | 53k |
| `Ends` | `MCEnds` | the sender's `NothingWaitsForEver`, the meter's reading and `DetailComesBack`, under the fairness of each | 31k |
| `Box` | `MCBlackBox` | the rings, the reserve and the slice: seven properties | 201k |
| `Life` | `MCLife` | `LoadedMeansPatched`, `EachCallOnce`; ways out, captures, the version: five properties | 739k |
| `DrainEnds` | `Drain` | `EveryFlushEnds` under `FairDrainSpec` | 271k |
| `Registers` | `MCRegisters` | what each register says against what was served: seven properties | 52k |
| `Commands` | `MCCommands` | one property for each of the MCP server, login, init, check, the reading and comparison, the start | 940k |
| `EndingOvertaken` | `Sender` | a disagreement, [below](#where-the-code-and-its-words-part) | – |
| `MssqlAlone`, `OthersSocket` | `MCInstrumentation` | the same | – |
| `CheckedSends` | `MCCommands` | the same | – |

**Bounds, and why they are enough.**

- *Sender*: two signatures with caps of one (a list that is full and a list that is
  not, a signature with a total and one without), each thrown twice with one failure (a
  second occurrence in flight or after it) or once with two failures and two late
  requests (a late one overtaken by its successor and by another late one); a queue of
  two and four intervals (one dropped with its batch in flight, one dropped with the
  next); two asks of two signals; two endings.
- *Box*: rings of two rows and three operations, two operations and two labels a row,
  so that three requests wrap every ring at different times, and a table of one label
  for two; two open at once, so that their operations interleave; three
  routes for two arms; an arm of three instants, so that it expires and is taken over
  within six; a pool of four, which is exactly what one route may keep, so that a second
  writes over it; requests that run past their cap of two.
- *Meter*: windows of two requests, one hook in two timed, costs of 0 to 3 about a
  budget of 2: below half of it, between the two lines, and above. Ten ticks give an
  episode, a recovery and another.
- *Drain*: three flushes (one under way, one waiting for it, one that begins
  meanwhile), two captures with room for one, two items. In `DrainEnds` flushes wait for a
  version whose search goes on after another's batch has chosen one.
- *Registers*: one row for routes and one dependency of its own against four endpoints
  and three targets, so that every cap is met by the second of each; a ring of two
  seconds over five instants, which wraps; two samples a route with a third request to
  replace one; two labels with one digest and one with none; two intervals to be
  sustained and three rotations.
- *Instrumentation*: thirteen parts and two channels, at least one for each form of an
  answer, each way of loading and each mark; up to four requests, so that a Prisma
  client is looked for three times; three calls, so that a chain passes through another
  request's connection and comes back; two starts, so that a stop is followed by one.
- *Commands*: three messages of two ids (an id used again while its first request is in
  flight, and cancelled); a login of four units with an interval of up to two, slowed
  down once; ten projects and two runs of `init` with a save between; a check with four
  places to link and commands that leave nothing, a child with their streams, or one
  without, in their group or in one of its own; three lines of the base and two of the change, of two processes; two starts
  and two shutdowns in a process.
- `MaxThrows`, `MaxAsks`, `MaxIntervals`, `MaxProfiles`, `MaxFailures`, `MaxRejected`,
  `MaxLate`, `MaxRequests`, `MaxInWindow`, `MaxOps`, `MaxOpen`, `MaxTime`, `MaxCost`, `MaxClock`,
  `MaxFlushes`, `MaxItems`, `MaxAccepted`, `MaxNow`, `MaxRotations`, `MaxDelay`,
  `MaxCalls`, `MaxMessages`, `MaxVersion`, `MaxInterval`, `MaxExpires`, `MaxRuns`,
  `MaxSaves`, `MaxStarts` and `MaxShutdowns` are bounds of the model and not of the
  code. The others are the code's own constants, made small. The runs do not check
  deadlock: a process that left, a command that ended, or an environment at its bounds,
  may stop.

**Fairness.** `FairSpec`: the interval's timer flushes again and again, a request ends
with an answer or its deadline (`fetch` has an `AbortSignal.timeout`), and a silence
has a cap; the cloud answers once its failures are spent. `FairDrainSpec`: promises
settle, a request ends with its clock, the version's search with its budget; nothing is
asked of the cloud. `FairMeterSpec`: requests go on being served while the load is
light. No step of a door, a signal or a throw is fair: nobody has to do them.

**Properties with a condition.** Some of what the comments promise holds of part of what
they are about, and the property says of which: a row's operations are of its own time, its
own or those of a request that wrote beside it (`ReadsItsOwnTime`, with the history field
`beside`); the operations of a reserve are whole while no more than the pool holds were
written since (`ReserveKeepsItsLast`); the reserve hides nothing while its arm has been given
no more than its rows (`CoversWhileItFits`); the oldest profile is in the file at an exit
(`HeldIsWritten`); an ending is taken for said when it was, unless it was declared with a
batch on its way (`NothingElseVanishes`, with `overtaken`); a call is asked in its request's
own context unless one before it was answered on another's socket (`EachCallOnce`, with
`LeftIn`); a retried operation is applied once unless its key was never told (`EachAskOnce`,
with `blind`); the person's text is there, and a configured project is, unless it was saved
while `init` held an older one or a write was cut in it (`InitKeepsWhatIsThere`, with `fate`);
an entry of git is gone unless its checkout was done as git was stopped (`NothingLeft`, with
`raced`), and a process is unless it made a group of its own; what runs is remembered unless
a register that came later made it forgotten (`FirstStartRules`). For each of these but
the saves that `init` overtakes, the unconditional words are stated in the module beside the
property that holds, and the next section tells how TLC violates them.

## Where the code and its words part

Each of the following is a formula of its module that says what a comment, a guide or a decision
record says of the code, stated beside the property that does hold, and that TLC finds violated
with the module's own bounds. Four have a run, and `PROJECT.json` quotes the line; the other
formulas can be put in the place of a run's properties.

*The sender and the ways out.*

- `EndingLandedMeansSaid`, run `EndingOvertaken` (`transport.ts` 656, against 258-261): an ending declared while
  a batch is in flight is taken for said when that batch lands, though it did not carry
  it. If nothing else is queued, no batch says how the process left.
- `ProfilesAtExit` (`transport.ts` 614-619, against 581-584): a batch carries one profile, so
  with two queued the write on the way out leaves the second.
- `OrderlyEndingDelivers` (`agent.ts` 1737, against ADR 0169): a signal's way out leaves
  the timer running; a flush the timer begins while it waits takes the sender, and the
  signal is raised with items undelivered.

*The black box.*

- `OwnOperationsOnly` (`fine.ts` 303, against 198-201): a request's range holds the operations of
  requests that overlapped.
- `PoolRowsLive` (`prearm.ts` 331, against 328): the reserve's operations go through one
  pool shared by all arms, which at its default size holds fewer than the rows may need; a
  row's operations are then written over, and nothing says so.
- `ReserveCoversTheRing` (`captures.ts` 209, against 200-201): the reserve keeps the *last* rows and
  hides the ring from the arm's beginning on, so rows it wrote over are told by neither.
- `ReserveReadsItsRange` (`agent.ts` 1657, against 1654): a request that ran past its cap counts
  one operation more than it wrote, and the reserve reads that many.
- `EmptyMeansRanNothing` (`agent.ts` 1559, against `fine.ts` 156): shed at its start and kept at its end,
  a request's row has no operations and says neither truncated nor lost.

*The registers and the instrumentation.*

- `InFlightIsTrue` (`runtime.ts` 81, against 13-16): a request whose client goes away is
  counted in flight for good. Under `check`, `idle` never holds again in that process, and
  what it served is written when it exits and not before (`agent.ts` 1682).
- `ObservedMeansRecorded`, run `MssqlAlone` (`agent.ts` 977): the drivers of SQL Server are patched like the others,
  but `mssql` is not in the list of observers for which a request's context is opened. An
  agent that observes it alone writes none of its statements.
- `EachCountsItsOwn`, run `OthersSocket` (`instrument/pg.ts` 256-287, `instrument/sqlite3.ts` 103-106, against
  `context.ts` 111): the callback forms of `pg` and `sqlite3` do not run their
  continuation in the request that asked. What a chain asks next from there belongs to
  whoever opened the connection.

*The commands and the start.*

- `RetriedIsNotRepeated` (`mcp/server.ts` 146-149, against 119-124): an operation whose
  answer is lost before its status is reported without the key that was made for it, so the
  agent's retry is a second operation.
- `ConfiguredIsWhole` (`init/command.ts` 134-138 and 318-322, against 185): a write that is cut
  leaves an empty file, and the rerun takes an empty instrument file for the person's own
  and says that the project is configured.
- `WhatHoldsGoesToo` (`check/run.ts` 249, against 244): a signal is for the command's group; a
  child with a group of its own that holds the streams outlives it.
- `EntryGoesToo` (`check/run.ts` 684-700, against `guide/check.md` 15): an interruption, or the
  timeout of 120 s, as `git worktree add` ends leaves the entry.
- `NothingIsSent`, run `CheckedSends` (`check/run.ts` 279, against `guide/check.md` 15): a process of `check`
  imports what the caller's `NODE_OPTIONS` already imported before `check`'s own register. An
  instrument file there starts first, with its DSN, and sends.
- `OneInstrumentation` (`start.ts` 12, against `activate.ts` 47): a register does not ask whether an
  instrumentation runs, so one that comes after an `init`, or from a second copy of the
  package, starts a second one and makes the first forgotten.
- `ShutdownStopsWhatRuns` (`registered.ts` 78, against 59): a `shutdown` called while another drains
  waits for that drain only, and an instrumentation started meanwhile goes on.

The following were met with the same modules and are short to tell: most
break no line of the repository, and the others are of something that the modules leave out
(the bytes of a register, the intervals without traffic).

- `SearchLeavesHalf` (`agent.ts` 1181): a way out first waits, for its whole deadline,
  for flushes of which one may be waiting for the version.
- `SaidOnce` (`captures.ts` 204): the boundary between the ring and the reserve compares a
  request's *start* with the arm's beginning, while the reserve takes what *finishes* under
  an arm live at that start. A request under way when an ended arm is begun again is in
  both.
- `fine.ts` 342: the last request to *finish* may have been open while others wrote past
  it, so what the reference samples copy need not be live.
- `agent.ts` 1232-1248, against `trigger.ts` 130: an interval with no request at all does
  not reach the local signals, so the run of a route that queued survives it. The model
  counts intervals with traffic, as the code does.
- `coarse.ts` 209: the bytes said to be reserved count one `(other)` row, and there is one
  for each method.
- `instrument/mariadb.ts` 519-540: the class of the callback API, loaded once the
  connection and the pool are patched, is never looked for (`Optional`).
- `instrument/http.ts` 142-147: a fetch that fails to connect is said not to be left
  unseen; a concurrent one to the same origin hides it.
- `login/command.ts` 262-274: credentials that were handed over and whose answer is lost
  or refused cannot be collected again; with `--rotate-token` the old token has stopped.
- `init/command.ts` 318-322: the person's save between the reading and
  the write is replaced. `init/files.ts` 94-99 edits the first place of `package.json` that
  holds the script's name and text, which may not be the script (`twin`).
- `check/run.ts` 212-231: a timeout followed by an interruption sets two timers to kill, and
  only the last is cleared (`stray`). 243-253: a child that closed its streams outlives
  the command. 788-829: a change that ends well after an interruption is compared.

## The proofs

TLAPS checks every leaf; no assumption is made but the named `ASSUME`s on the constants,
which TLC evaluates in the runs. They say that sets are finite and caps positive, that
`NoEnding` is not an ending, and, of the instrumentation, that a part's calls have the
forms there are. Some say what the model's values stand for: `0`, a message without an id, is
not one of the ids (which are any values that tell requests apart); a profile's window fits
four times in what a report calls recent (`config.ts` 120-147 divides by it); and what is a
number in the environment, or in `init`'s options, is one once read. `ReadAssumption` says
of the lines of a run what the agent that writes them sees to: counts are numbers, an
endpoint had no fewer requests than reached its database, and a process that writes a window
or an interval again (told by its start, as `read.ts` 300-312 tells them) writes it as it was.

**`SenderProofs`.** For any sets of signatures, signals, captures and endings, and any
caps:

- `TypeCorrect`: `Spec => []TypeOK`.
- `Inductive`: `Spec => []IInv`. The safety properties are not inductive: that the
  cloud never counts twice depends on what every batch in flight and every late request
  would *still* add. `IInv` ties them: for each signature, the batch in flight and
  each late request carry a total no larger than what was handed over and a count that,
  taken off that total, is no larger than what the cloud has already been told; the
  pending count is what was handed over and is not yet known to have landed; the
  counters carried by a batch are no larger than those held. `IInv` is checked by TLC in
  the run `Sender` and preserved by each action in a step of its own.
- `NeverTwice`, `NoneVanishes`, `LossesAreSaid`, `CountersAreSaid`: the four safety
  properties, each from `IInv`.

- `NothingVanishes`, `NothingLeftUnwritten`: the same of what is held beside the
  exceptions, and of the file. Their invariant (`HeldInv`) says that what the batch in flight
  carries is still held (it is taken off when the batch lands, not when it begins), that an
  ending declared stays, that a batch begun since it was declared says it (`EndingSaid`),
  that a process with a file sends nothing, and that an exit leaves queued only the profiles
  after the first (`Emptied`).
- `Implements`: `Spec => CountedOnce`, that is, the sender implements `CountedDelivery`
  with the cloud's applied count for each signature that has a total. Initial states map
  to initial states; each action is a throw, a count, a loss or a stutter, by `IInv`.

**`DrainProofs`.** For any captures, deadlines and number of flushes: `StartsSaidAsAccepted`,
`CapturesAccountedFor`, `ReferenceStandsStill`, `OneVersion`, `StopLeavesNothing`. A lemma
reads off the next-state relation the few things a step does to the flushes (one joins,
waits on, sends, skips, lands, reads, delivers, is cut or leaves), so that no conjunct is
proved action by action. The
invariant says which flush may have what: one batch is under way, only a flush that
delivers evidence has captures in its hands, the starts the cloud heard and the one that is still to
be said are no more than those accepted and those whose answer was lost (`StartsAhead`), and
what is marked as said was heard as it was accepted last (`MarkedWasHeard`). For the stop it says who may be beside it: what begins a flush is
detached with the stop, so the stop is the last to begin; it waits for those it found; and
from then on, if nothing cuts it short, what it holds is all there is.

**`DetailProofs`: the fine register.** For any ring and any overlap of requests: `OverwrittenIsSaid`,
`CutIsSaid`, `RunawayIsAlone`, `ReadInItsTime`. Cursors never wrap and rings do, so the
invariant speaks of cursors: a slot holds what the last cursor that fell in it wrote. Two
cursors less than a ring apart that fall in one slot are one (`RingApart`), so a row whose
range was not passed by a ring reads what was written under it. Whose that is: every cursor
from a request's first to its last was written while it was open, so by it or by one of those
beside it (`OpenInItsTime`, `ClosedInItsTime`).

**`DetailProofs`: the reserve.** `OneReserveARoute`, `ReserveKeeps`, `ReserveCovers`, `ReadInItsTimeEverywhere`.
An arm that lives is the first of its route's, so whatever finishes while it lives goes to
it, and its rows are its last. An entry of the pool says at which cursor it was written
(`PoolInPlace`), so a row's are whole exactly while the pool's cursor is no further than a
pool from the row's first, whichever arms moved it; and what is kept of a request's was of its
time when it was copied (`KeptInItsTime`). `BoxIsFine`: `BoxSpec => Spec`, each
step of the two registers is one of `FineRegister`'s or a stutter, so that its theorems
hold beside the reserve too (`FineBesideTheReserve`).

**`RegistersProofs`.** For any endpoints, caps and clocks. `IdleIsIdle`: the requests
counted are never fewer than those open (one whose client went away stays counted).
`NoTwoWindowsAlike`: the start said last is before the one that is open.
`SustainedBeforeArmed`: an endpoint's run is the number of last intervals it queued in.
`SamplesAreTheirOwn`: a reservoir's slots fill in order and from requests that closed.
`SecondsAreToldApart`: the slot of a second holds that second or an earlier one, in which
case nothing was served in it since the row began; what a row says of a second is a sum
over the hits of the endpoints it stands for. A row's endpoints change as rows are given
out: `RowStands` says that one endpoint more changes no other row's share, because an
endpoint is folded into its method's rest only once there is no row left to give out.

**`AggregatesProofs`.** `NothingFoldedIsLost`: a row says what its endpoints were served,
in all and by kind of dependency, and takes no more rows of dependencies than it may;
`NothingMergedIsLost`: the same of a profile, with the places it takes in a batch. Both
invariants hold row by row; `TotalsMove` says that what one request adds is added to one
row. Of the profile's order (`InOrder`, `FirstFew`): errors, time and digest make a strict
order, so no more are kept than the cap, and `KeepFits` that there is room left for the
kinds that are merged, for which `AggregatesAssumption` is needed: the schema has as many
places as there are kinds. `RegistersKept`: the types of the four and their caps.

Sums over sets (`Lemmas`) are of the community module's folds, whose recursion is not
unfolded by an induction theorem here but by the least counterexample: a finite set has
a least subset for which a claim about sums fails, and its smaller subsets refute it.

**`DetailProofs`: the meter.** For any period, window, budget and floor: `ShedTime`, the reading
`ShedMs` equals the ticks that passed with the detail given up by the meter's own
decision, and `ShedReasons`, time that was shed has a reason. The invariant `MeterInv`
adds what the reading cannot show: an episode is open exactly when the fine detail is
given up, and it has a reason. The lemma `Change` says that a change of level settles
an episode without touching the reading; both decisions and the memory's are instances.

**`InstrumentationProofs`.** For any drivers, parts, forms, loads, calls, stops and
starts. `LoadedIsPatched` rests on `ArmingIInv`: a driver leaves the list of those that are
asked only when all it waits for is done, and what is done is patched or failed; so what
was loaded when the agent last looked is patched, and what came since is `unseen`, which an
agent that listens hears of. For the Prisma client the next search is within twice the
requests there were when it was loaded. `CallsAreCountedOnce` rests on `CountingIInv`, call
by call: a call is counted only where it is watched, with its first end; what could hear a
second end has heard the first, or is no longer there. A call that passes two wrappers is
watched once since the second finds the first's mark. A request's code is in its own context
or in one an earlier call left it in (`StrayOK`). From it, the work of a context is at
most the number of its calls that were counted, and is that number while nothing failed
inside the agent (`WorkOK`); the sum over all contexts is bounded in the same way. A step is
read off once, as what it does to one call (`Asks`, `Begins`, `Ends`), and what every step
leaves alone is `Frame`. The first attempt at the invariant failed, and rightly: the model
let a subscription hear the end of a call that an earlier start had seen begin, which the
code does not (`http.ts` 48, `redis.ts` 69: what is on its way is known to one start). The
model was corrected, and a workload with two starts was added to the run.

**`CommandProofs`.** One invariant for each command.

- `LeavesNothing` (check): in each phase it is known what was made, so what a step of the
  cleaning finds and cannot remove is what it says; a side that is judged ran and ended
  well, since the phase `judging` is entered with both in hand. Of a command's processes it
  is `EffectsStand` that counts: none of their steps makes or takes anything away. A process that
  holds its streams and is of the group is gone when the command is, since what was left then
  was killed with it.
- `ShowsOrSaysLost` (login): credentials are collected at the cloud only with an answer on
  its way, and whatever becomes of that answer is one of three: shown, lost, or read as not
  good. `PollsInTime`: what the cloud asked for is never more than the interval in force, so
  a sleep that follows a poll ends no sooner.
- `AsksAreAnsweredOnce` (MCP server): in flight with an id is the *last* request that had
  it, so a cancellation reaches no other and an answer takes only its own away (`FlightOK`);
  calls of one operation carry one key unless the agent was never told it (`KeysOK`), and
  the cloud applies no key twice (`AppliedOK`). A session that has returned had nothing being
  answered, and reads nothing after it (`ServedOK`).
- `FirstStartWins` (start): `ConnectionIs` and `ConfigIsGood` say what an accepted
  configuration is, from whatever mixture of code and environment; what runs is remembered, or
  a register that started later is why it is not (`RememberedOK`); what was remembered
  first, and not shut down, is remembered still, and under check it is local (`FirstOK`); and
  what a shutdown waits for is being stopped, or was, and settles it as it ends
  (`ShutdownsOK`).
- `InitKeeps` (init): until it writes, what it holds is what is on the disk, the person's
  saves apart (`HeldOK`); what it will write is not there yet, and is in the order of
  `Turn`, in which the entry comes after the file it loads (`WritesOK`); and what a run that
  misses nothing has not written is still to be written (`GoalsOK`), in every file but those
  in which a write was cut or, for a twin, went elsewhere.
- `ComparesBothWays` (compare): for any two runs, comparing them the other way round
  compares the same routes and turns each verdict of an operation about: a rate cannot
  rise both ways (`RisesOneWay`, with the code's two thresholds as products).
- `LinesAreReadOnce` (the file of a run): what a reader holds is a function of the *set* of
  batches read so far (`Tells`): the windows it knows are those of the set by their starts,
  the intervals likewise, and an operation's count is the sum of its executions over them.
  A line more adds a window that is new, or one that is known and then, by `WrittenAgain`, the
  same (`TellsMore`). So no induction over the lines is needed. From it, what is said of a
  route: its requests are a sum over places in intervals, which `SumNested` makes a sum of
  sums. The comparison is `ComparesBothWays`.

**Only model-checked.** Liveness (`NothingWaitsForEver`, `DetailComesBack`,
`EveryFlushEnds`), which rests on fairness and `ENABLED`, out of this prover's reach. Every
invariant of the passing runs is a theorem.

## What is not here

- *Of the sender*: the text of a batch, its size and the headers; `sendEvidence`, which
  changes no state of the sender (its outcome is in `Drain`).
- *Of the agent*: the wait for `package.json`, the declared file, the evidence's body.
- *Of the fine register*: hashes, kinds and times of an operation; the cache of the
  label table. *Of the prearm register*: `shed`, which is only called with the value that
  changes nothing; minimal mode's renaming.
- *Of the meter*: its floating-point quotients.
- *Of the registers*: latencies and their buckets, sums and maxima of times, texts; the
  histogram and the collector's pauses that Node hands to `runtime.ts`.
- *Of the instrumentation*: the texts of statements, the shapes of the drivers' objects,
  times; what a tracker's own hooks do to the wrappers.
- *Of the commands*: parsing of arguments, of `package.json` and of the lockfiles,
  rendering, and the framing of lines; how `init` finds the framework and the entry, which
  are inputs; what `verify` says of one request.
- *Of the version's search*: its sources and their order.
- *Whole components*: those marked "no" above. Scanners of SQL and text and the internals
  of frameworks are pure or third-party and give a model little to find; `bench`,
  `reference-app` and `coding-agent` are measurements, an example and texts.

## The plan

1. **Done**: the sender with its proofs and refinement, the black box (ring, reserve,
   slice), the meter with its proofs, the flushes and ways out, the registers, the
   instrumentation, the commands, the MCP server, the configuration and the start.
   The proofs of the safety properties of the sender, the flushes, the rings, the meter
   and the registers.
2. **Done**: the proofs of the instrumentation and of the commands, so that every safety
   property of the passing runs is a theorem.
3. **Version search and the declared file**: sources, their order, a budget.
4. **The framing** of the MCP server's lines, and `verify`.
