---------------------------- MODULE CommandProofs ----------------------------
(***************************************************************************)
(* Proofs about the commands, one after the other: for each an inductive   *)
(* invariant, that every step keeps it, and what a run checks follows.     *)
(*   check       what is made is known, and what cleaning leaves is said;  *)
(*   login       credentials are collected where they are shown or lost;   *)
(*   mcp server  in flight with an id is the last request that had it, and *)
(*               the cloud applies no key twice;                           *)
(*   start       what a start is given, and which start is remembered;     *)
(*   init        what it holds is what is on the disk until it writes, and *)
(*               the entry's turn comes after what the entry loads;        *)
(*   compare     two runs compared one way and the other;                  *)
(*   the file    what is told of a run is what its lines say, each once.   *)
(***************************************************************************)
EXTENDS Session, Login, InitCommand, CheckRun, Activation, RunCompare, Lemmas

(***************************************************************************)
(* downtrace check                                                         *)
(***************************************************************************)

\* The phases of a check, in the order it goes through them.
CheckPhase ==
  {"starting", "making", "checking out", "linking", "linked", "running", "ran", "judging",
   "cleaning links", "cleaning worktree", "cleaning tmp", "reported"}

\* What check remembers of a run of its command.
RunType ==
  [of : {"prepare", "base", "change"}, code : 0 .. 1, timedOut : BOOLEAN,
   tally : {"none"} \cup [requests : 0 .. 1, unprofiled : 0 .. 1, malformed : 0 .. 1,
                          observers : {[pg |-> "active"]}]]

\* What check knows of its course.
CourseOK ==
  check \in [phase : CheckPhase, failure : {check.failure}, ran : Seq(RunType),
             linked : {check.linked}, notes : {check.notes}]

\* The types of what there is beside the course.
EffectsOK ==
  /\ made \in [tmp : BOOLEAN, worktree : BOOLEAN, links : SUBSET Place]
  /\ left \in [tmp : BOOLEAN, tree : BOOLEAN, entry : BOOLEAN, links : SUBSET Place]
  /\ said \subseteq {"links", "worktree", "tmp"}

\* The command that is running, or ran last.
CommandType ==
  [of : {"none", "prepare", "base", "change"}, leader : {"gone", "running", "exited"},
   code : 0 .. 1, background : InBackground \cup {"none"}, timedOut : BOOLEAN,
   stopped : BOOLEAN, kills : Nat, timers : SUBSET {"timeout", "kill", "streams"}]

\* The types of the command, and of what outlives it.
CommandOK ==
  /\ command \in CommandType /\ interrupted \in BOOLEAN
  /\ trace \in [outlived : SUBSET (InBackground \ {"piped"}), stray : BOOLEAN, raced : BOOLEAN]

\* The types of all of it.
CheckTypeOK == CourseOK /\ EffectsOK /\ CommandOK

\* A side that ran.
RanAs(of) == \E i \in DOMAIN check.ran : check.ran[i].of = of

\* Sides run in turn, are judged when both did, and those that are kept ran well.
RunsAreGood ==
  /\ check.phase \in {"running", "ran"} => command.of # "none"
  /\ check.phase \in {"running", "ran"} /\ command.of = "change" => RanAs("base")
  /\ check.phase = "judging" \/ check.failure = "compared" => RanAs("base") /\ RanAs("change")
  /\ \A i \in DOMAIN check.ran : check.ran[i].of # "prepare" =>
       check.ran[i].code = 0 /\ ~check.ran[i].timedOut /\ check.ran[i].tally.requests > 0

\* What is there was made, in the directory; and what a step of the cleaning leaves is said.
LeftIsKnown ==
  /\ check.phase \in {"checking out", "linking"} => made.tmp
  /\ left.tmp \/ left.tree \/ made.worktree => made.tmp
  /\ left.entry => made.worktree \/ trace.raced
  /\ left.links \subseteq made.links
  /\ check.phase \in {"cleaning worktree", "cleaning tmp", "reported"} /\ left.links # {} => said # {}
  /\ check.phase \in {"cleaning tmp", "reported"} /\ left.entry => "worktree" \in said \/ trace.raced
  /\ check.phase = "reported" /\ (left.tmp \/ left.tree) => "tmp" \in said

\* What every step of a check keeps.
CheckIInv == CheckTypeOK /\ RunsAreGood /\ LeftIsKnown

-----------------------------------------------------------------------------
\* It holds when check starts.
LEMMA CheckStarts == CheckInit => CheckIInv
<1> SUFFICES ASSUME CheckInit PROVE CheckIInv
  OBVIOUS
<1>1. CheckTypeOK
  <2>1. CourseOK
    BY DEF CheckInit, CourseOK, CheckPhase
  <2>2. EffectsOK
    BY DEF CheckInit, EffectsOK
  <2>3. CommandOK
    <3>1. NoCommand \in CommandType
      BY DEF NoCommand, CommandType
    <3>2. trace = [outlived |-> {}, stray |-> FALSE, raced |-> FALSE]
      BY DEF CheckInit
    <3>3. command = NoCommand /\ interrupted = FALSE
      BY DEF CheckInit
    <3> QED BY <3>1, <3>2, <3>3 DEF CommandOK
  <2> QED BY <2>1, <2>2, <2>3 DEF CheckTypeOK
<1>2. RunsAreGood
  BY DEF CheckInit, RunsAreGood, RanAs
<1>3. LeftIsKnown
  BY DEF CheckInit, LeftIsKnown
<1> QED BY <1>1, <1>2, <1>3 DEF CheckIInv

\* A step that goes on to a phase changes nothing else of the course.
LEMMA GoesIs ==
  ASSUME CourseOK, NEW p \in CheckPhase, Goes(p)
  PROVE  /\ CourseOK' /\ check'.phase = p
         /\ check'.ran = check.ran /\ check'.failure = check.failure
BY DEF CourseOK, Goes

\* A failure goes to the cleaning.
LEMMA ThrowsIs ==
  ASSUME CourseOK, NEW c, Throws(c)
  PROVE  /\ CourseOK' /\ check'.phase = "cleaning links" /\ check'.ran = check.ran
         /\ check'.failure \in {"interrupted", c}
BY DEF CourseOK, Throws, CheckPhase

\* What a run left is added to what was left before.
LEMMA RanIs ==
  ASSUME CourseOK, NEW t, Run(t) \in RunType, NEW p \in CheckPhase,
         check' = [check EXCEPT !.ran = Append(@, Run(t)), !.phase = p]
  PROVE  /\ CourseOK' /\ check'.phase = p /\ check'.failure = check.failure
         /\ check'.ran = Append(check.ran, Run(t))
         /\ DOMAIN check'.ran = DOMAIN check.ran \cup {Len(check.ran) + 1}
         /\ check'.ran[Len(check.ran) + 1] = Run(t)
         /\ \A i \in DOMAIN check.ran : check'.ran[i] = check.ran[i]
<1> DEFINE longer == Append(check.ran, Run(t))
<1>1. check.ran \in Seq(RunType) /\ longer \in Seq(RunType)
  BY DEF CourseOK
<1>2. check' = [check EXCEPT !.ran = longer, !.phase = p]
  OBVIOUS
<1>3. CourseOK' /\ check'.phase = p /\ check'.failure = check.failure /\ check'.ran = longer
  <2> HIDE DEF longer
  <2> QED BY <1>1, <1>2 DEF CourseOK
<1> QED BY <1>1, <1>3

\* The steps up to the first command, and the course of check.
LEMMA CourseOfStart ==
  ASSUME CourseOK, FindsBase \/ MakesTmp \/ AddsWorktree \/ LinkDependencies \/ LinksNothing
  PROVE  /\ CourseOK' /\ check'.ran = check.ran
         /\ check'.phase \in {"making", "checking out", "linking", "linked", "cleaning links"}
         /\ check'.failure \in {check.failure, "interrupted", "not-a-repository", "bad-ref",
                               "setup-failed"}
<1>1. CASE FindsBase
  <2>1. Throws("not-a-repository") \/ Throws("bad-ref") \/ Goes("making")
    BY <1>1 DEF FindsBase
  <2> QED BY <2>1, GoesIs, ThrowsIs DEF CheckPhase
<1>2. CASE MakesTmp
  <2>1. Throws("setup-failed") \/ Goes("checking out")
    BY <1>2 DEF MakesTmp
  <2> QED BY <2>1, GoesIs, ThrowsIs DEF CheckPhase
<1>3. CASE AddsWorktree
  <2>1. Throws("setup-failed") \/ Goes("linking")
    BY <1>3 DEF AddsWorktree
  <2> QED BY <2>1, GoesIs, ThrowsIs DEF CheckPhase
<1>4. CASE LinkDependencies
  <2>1. Throws("setup-failed") \/ Goes("linked") \/ (check' = check /\ check.phase = "linking")
    BY <1>4 DEF LinkDependencies
  <2>2. check' = check => CourseOK'
    BY DEF CourseOK
  <2> QED BY <2>1, <2>2, GoesIs, ThrowsIs DEF CheckPhase
<1>5. CASE LinksNothing
  <2>1. Goes("linked")
    BY <1>5 DEF LinksNothing
  <2> QED BY <2>1, GoesIs, ThrowsIs DEF CheckPhase
<1> QED BY <1>1, <1>2, <1>3, <1>4, <1>5

\* The steps of a command that runs, and the course.
LEMMA CourseOfCommand ==
  ASSUME CourseOK,
         \/ BackgroundEnds \/ CommandTimesOut \/ CommandInterrupted \/ SignalGroup
         \/ \E code \in 0 .. 1 : CommandEnds(code)
         \/ CommandCloses \/ StreamsGrace
  PROVE  /\ CourseOK' /\ check.phase = "running" /\ check'.phase \in {"running", "ran"}
         /\ check'.ran = check.ran /\ check'.failure = check.failure
<1>1. CASE BackgroundEnds \/ CommandTimesOut \/ CommandInterrupted \/ SignalGroup
           \/ \E code \in 0 .. 1 : CommandEnds(code)
  <2>1. check' = check /\ check.phase = "running"
    BY <1>1 DEF BackgroundEnds, CommandTimesOut, CommandInterrupted, SignalGroup, CommandEnds, Running
  <2> QED BY <2>1 DEF CourseOK
<1>2. CASE CommandCloses \/ StreamsGrace
  <2>1. Goes("ran") /\ check.phase = "running"
    BY <1>2 DEF CommandCloses, StreamsGrace, Finishes, Goes, Running
  <2> QED BY <2>1, GoesIs DEF CheckPhase
<1> QED BY <1>1, <1>2

\* The cleaning goes on whatever it finds.
LEMMA CourseOfCleaning ==
  ASSUME CourseOK, CleansLinks \/ CleansWorktree \/ CleansTmp \/ PersonAborts
  PROVE  /\ CourseOK' /\ check'.ran = check.ran /\ check'.failure = check.failure
         /\ check' = check \/ check'.phase \in {"cleaning worktree", "cleaning tmp", "reported"}
<1>1. CASE PersonAborts
  <2>1. check' = check
    BY <1>1 DEF PersonAborts
  <2> QED BY <2>1 DEF CourseOK
<1>2. CASE CleansLinks \/ CleansWorktree \/ CleansTmp
  <2>1. Goes("cleaning worktree") \/ Goes("cleaning tmp") \/ Goes("reported")
    BY <1>2 DEF CleansLinks, CleansWorktree, CleansTmp
  <2> QED BY <2>1, GoesIs DEF CheckPhase
<1> QED BY <1>1, <1>2

\* The steps that have no command of their own leave the one there was.
CommandsStand ==
  \/ FindsBase \/ MakesTmp \/ AddsWorktree \/ LinkDependencies \/ LinksNothing
  \/ Prepared \/ ReadsRun \/ Judges \/ CleansLinks \/ CleansWorktree \/ CleansTmp \/ PersonAborts

\* The steps of the command check runs.
CommandSteps ==
  \/ CommandStarts \/ BackgroundEnds \/ CommandTimesOut \/ CommandInterrupted \/ SignalGroup
  \/ \E code \in 0 .. 1 : CommandEnds(code)
  \/ CommandCloses \/ StreamsGrace

\* What there is, as a step of a command leaves it.
LEMMA EffectsStand ==
  ASSUME CommandSteps \/ Prepared \/ ReadsRun \/ Judges
  PROVE  UNCHANGED <<made, left, said>>
<1>1. CASE CommandStarts
  BY <1>1 DEF CommandStarts
<1>2. CASE BackgroundEnds
  BY <1>2 DEF BackgroundEnds
<1>3. CASE CommandTimesOut
  BY <1>3 DEF CommandTimesOut
<1>4. CASE CommandInterrupted
  BY <1>4 DEF CommandInterrupted
<1>5. CASE SignalGroup
  BY <1>5 DEF SignalGroup
<1>6. CASE \E code \in 0 .. 1 : CommandEnds(code)
  BY <1>6 DEF CommandEnds
<1>7. CASE CommandCloses
  BY <1>7 DEF CommandCloses
<1>8. CASE StreamsGrace
  BY <1>8 DEF StreamsGrace
<1>9. CASE Prepared
  BY <1>9 DEF Prepared
<1>10. CASE ReadsRun
  BY <1>10 DEF ReadsRun
<1>11. CASE Judges
  BY <1>11 DEF Judges
<1> QED BY <1>1, <1>2, <1>3, <1>4, <1>5, <1>6, <1>7, <1>8, <1>9, <1>10, <1>11
    DEF CommandSteps

\* The types of what there is are kept.
LEMMA EffectsKept ==
  ASSUME EffectsOK, CheckNext
  PROVE  EffectsOK'
<1>1. CASE CommandSteps \/ Prepared \/ ReadsRun \/ Judges
  BY <1>1, EffectsStand DEF EffectsOK
<1>2. CASE FindsBase \/ LinksNothing \/ PersonAborts
  BY <1>2 DEF FindsBase, LinksNothing, PersonAborts, EffectsOK
<1>3. CASE MakesTmp
  BY <1>3 DEF MakesTmp, EffectsOK
<1>4. CASE AddsWorktree
  BY <1>4 DEF AddsWorktree, EffectsOK
<1>5. CASE LinkDependencies
  BY <1>5 DEF LinkDependencies, EffectsOK
<1>6. CASE CleansLinks
  BY <1>6 DEF CleansLinks, EffectsOK
<1>7. CASE CleansWorktree
  BY <1>7, ZenonT(40) DEF CleansWorktree, RemovesWorktree, EffectsOK
<1>8. CASE CleansTmp
  BY <1>8 DEF CleansTmp, EffectsOK
<1> QED BY <1>1, <1>2, <1>3, <1>4, <1>5, <1>6, <1>7, <1>8 DEF CheckNext, CommandSteps

\* The command, as a step that is not its own leaves it.
LEMMA CommandStands ==
  ASSUME CommandsStand
  PROVE  /\ command' = command /\ (trace' = trace \/ trace' = [trace EXCEPT !.raced = TRUE])
         /\ interrupted' = interrupted \/ interrupted' = TRUE
<1>1. CASE FindsBase
  BY <1>1 DEF FindsBase
<1>2. CASE MakesTmp
  BY <1>2 DEF MakesTmp
<1>3. CASE AddsWorktree
  BY <1>3 DEF AddsWorktree
<1>4. CASE LinkDependencies
  BY <1>4 DEF LinkDependencies
<1>5. CASE LinksNothing
  BY <1>5 DEF LinksNothing
<1>6. CASE Prepared
  BY <1>6 DEF Prepared
<1>7. CASE ReadsRun
  BY <1>7 DEF ReadsRun
<1>8. CASE Judges
  BY <1>8 DEF Judges
<1>9. CASE CleansLinks
  BY <1>9 DEF CleansLinks
<1>10. CASE CleansWorktree
  BY <1>10 DEF CleansWorktree
<1>11. CASE CleansTmp
  BY <1>11 DEF CleansTmp
<1>12. CASE PersonAborts
  BY <1>12 DEF PersonAborts
<1> QED BY <1>1, <1>2, <1>3, <1>4, <1>5, <1>6, <1>7, <1>8, <1>9, <1>10, <1>11, <1>12
    DEF CommandsStand

\* A command that is told to stop is a command.
LEMMA StopsIs ==
  ASSUME CommandOK, NEW why \in {"timeout", "interruption"}, Stops(why)
  PROVE  command' \in CommandType /\ command'.of = command.of
<1> DEFINE t == (command.timers \ {why}) \cup {"kill"}
           n == command.kills + 1
           late == command.timedOut \/ why = "timeout"
           told == command.stopped \/ why = "interruption"
<1>1. /\ t \in SUBSET {"timeout", "kill", "streams"} /\ n \in Nat
      /\ late \in BOOLEAN /\ told \in BOOLEAN
  BY DEF CommandOK, CommandType
<1>2. command' = [command EXCEPT !.timers = t, !.kills = n, !.timedOut = late, !.stopped = told]
  BY DEF Stops
<1>3. command \in CommandType
  BY DEF CommandOK
<1> HIDE DEF t, n, late, told
<1> QED BY <1>1, <1>2, <1>3 DEF CommandType

\* A command that starts is one.
LEMMA StartsIs ==
  ASSUME CommandOK, CommandStarts
  PROVE  /\ command' \in CommandType
         /\ Throws("setup-failed") \/ (Goes("running") /\ command'.of = NextOf)
<1>1. CASE Throws("setup-failed") /\ UNCHANGED command
  BY <1>1 DEF CommandOK
<1>2. ASSUME NEW background \in InBackground \cup {"none"},
             command' = [NoCommand EXCEPT !.of = NextOf, !.leader = "running", !.background = background,
                           !.timers = {"timeout"} \cup (IF interrupted THEN {"kill"} ELSE {}),
                           !.stopped = interrupted, !.kills = IF interrupted THEN 1 ELSE 0]
      PROVE  command' \in CommandType /\ command'.of = NextOf
  <2> DEFINE t == {"timeout"} \cup (IF interrupted THEN {"kill"} ELSE {})
             n == IF interrupted THEN 1 ELSE 0
             side == NextOf
  <2>1. /\ t \in SUBSET {"timeout", "kill", "streams"} /\ n \in Nat
        /\ side \in {"none", "prepare", "base", "change"} /\ interrupted \in BOOLEAN
    BY DEF CommandOK, NextOf
  <2>2. command' = [NoCommand EXCEPT !.of = side, !.leader = "running", !.background = background,
                      !.timers = t, !.stopped = interrupted, !.kills = n]
    BY <1>2
  <2>3. NoCommand \in CommandType
    BY DEF NoCommand, CommandType
  <2> HIDE DEF t, n, side
  <2>4. command' \in CommandType /\ command'.of = side
    BY <2>1, <2>2, <2>3 DEF CommandType
  <2> QED BY <2>4 DEF side
<1> QED BY <1>1, <1>2 DEF CommandStarts

\* A command that is killed is one, and so is one that ends.
LEMMA EndsIs ==
  ASSUME CommandOK, SignalGroup \/ \E code \in 0 .. 1 : CommandEnds(code)
  PROVE  command' \in CommandType /\ command'.of = command.of
<1>1. CASE SignalGroup
  <2> DEFINE t == (command.timers \ {"kill"})
                    \cup (IF command.leader = "running" THEN {"streams"} ELSE {})
             l == IF command.leader = "running" THEN "exited" ELSE command.leader
             b == Killed(command.background)
  <2>1. /\ t \in SUBSET {"timeout", "kill", "streams"} /\ l \in {"gone", "running", "exited"}
        /\ b \in InBackground \cup {"none"}
    BY DEF CommandOK, CommandType, Killed
  <2>2. command' = [command EXCEPT !.timers = t, !.background = b, !.leader = l]
    BY <1>1 DEF SignalGroup
  <2>3. command \in CommandType
    BY DEF CommandOK
  <2> HIDE DEF t, l, b
  <2> QED BY <2>1, <2>2, <2>3 DEF CommandType
<1>2. ASSUME NEW code \in 0 .. 1, CommandEnds(code)
      PROVE  command' \in CommandType /\ command'.of = command.of
  BY <1>2 DEF CommandEnds, CommandOK, CommandType
<1> QED BY <1>1, <1>2

\* What outlives a command is in the background, and of its group holds none of its streams.
LEMMA FinishesIs ==
  ASSUME CommandOK, Finishes, command' \in CommandType, command'.background # "piped"
  PROVE  trace' \in [outlived : SUBSET (InBackground \ {"piped"}), stray : BOOLEAN, raced : BOOLEAN]
<1> DEFINE o == trace.outlived \cup ({command'.background} \ {"none"})
           w == trace.stray \/ command.kills = 2
<1>1. trace \in [outlived : SUBSET (InBackground \ {"piped"}), stray : BOOLEAN, raced : BOOLEAN]
  BY DEF CommandOK
<1>2. o \in SUBSET (InBackground \ {"piped"})
  BY <1>1 DEF CommandType
<1>3. w \in BOOLEAN
  BY <1>1
<1>4. trace' = [trace EXCEPT !.stray = w, !.outlived = o]
  BY DEF Finishes
<1> HIDE DEF o, w
<1> QED BY <1>1, <1>2, <1>3, <1>4

\* The types of the command, and what is known of those that outlived one, are kept.
LEMMA CommandKept ==
  ASSUME CommandOK, CheckNext
  PROVE  CommandOK'
<1>1. CASE CommandsStand
  BY <1>1, CommandStands DEF CommandOK
<1>2. CASE CommandStarts
  BY <1>2, StartsIs DEF CommandStarts, CommandOK
<1>3. CASE BackgroundEnds
  BY <1>3 DEF BackgroundEnds, CommandOK, CommandType
<1>4. CASE CommandTimesOut
  BY <1>4, StopsIs DEF CommandTimesOut, CommandOK
<1>5. CASE CommandInterrupted
  BY <1>5, StopsIs DEF CommandInterrupted, CommandOK
<1>6. CASE SignalGroup
  BY <1>6, EndsIs DEF SignalGroup, CommandOK
<1>7. CASE \E code \in 0 .. 1 : CommandEnds(code)
  BY <1>7, EndsIs DEF CommandEnds, CommandOK
<1>8. CASE CommandCloses \/ StreamsGrace
  <2>0. command \in CommandType /\ Killed(command.background) \in InBackground \cup {"none"}
        /\ Killed(command.background) # "piped" /\ HoldsStreams("piped")
    BY DEF Killed, OfItsOwnGroup, CommandOK, CommandType, HoldsStreams
  <2>1. /\ command' = command \/ command' = [command EXCEPT !.background = Killed(command.background)]
        /\ command'.background # "piped" /\ Finishes /\ interrupted' = interrupted
    BY <1>8, <2>0 DEF CommandCloses, StreamsGrace, CommandType
  <2>2. command' \in CommandType
    BY <2>0, <2>1 DEF CommandType
  <2>3. trace' \in [outlived : SUBSET (InBackground \ {"piped"}), stray : BOOLEAN, raced : BOOLEAN]
    BY <2>1, <2>2, FinishesIs
  <2> QED BY <2>1, <2>2, <2>3 DEF CommandOK
<1> QED BY <1>1, <1>2, <1>3, <1>4, <1>5, <1>6, <1>7, <1>8 DEF CheckNext, CommandsStand

-----------------------------------------------------------------------------
\* What is known of the runs is kept.

\* While no run is added, and no command ended well enough to count, what is known stands.
LEMMA RunsStand ==
  ASSUME RunsAreGood, check'.ran = check.ran,
         check'.phase \in {"running", "ran"} =>
           /\ command'.of # "none" /\ (command'.of = "change" => RanAs("base")),
         check'.phase # "judging", check'.failure = "compared" => check.failure = "compared"
  PROVE  RunsAreGood'
<1>1. \A of : RanAs(of)' <=> RanAs(of)
  BY DEF RanAs
<1> QED BY <1>1 DEF RunsAreGood

\* The next command is the change's only when the base ran.
LEMMA NextIs ==
  /\ NextOf \in {"prepare", "base", "change"}
  /\ NextOf = "change" => RanAs("base")
BY DEF NextOf, RanAs

\* Before the first command, and in the cleaning.
LEMMA RunsKeptAside ==
  ASSUME CheckTypeOK, RunsAreGood,
         \/ FindsBase \/ MakesTmp \/ AddsWorktree \/ LinkDependencies \/ LinksNothing
         \/ CleansLinks \/ CleansWorktree \/ CleansTmp \/ PersonAborts
  PROVE  CourseOK' /\ RunsAreGood'
<1>1. CASE FindsBase \/ MakesTmp \/ AddsWorktree \/ LinkDependencies \/ LinksNothing
  <2>1. /\ CourseOK' /\ check'.ran = check.ran
        /\ check'.phase \in {"making", "checking out", "linking", "linked", "cleaning links"}
        /\ check'.failure \in {check.failure, "interrupted", "not-a-repository", "bad-ref",
                              "setup-failed"}
    BY <1>1, CourseOfStart DEF CheckTypeOK
  <2> QED BY <2>1, RunsStand
<1>2. CASE CleansLinks \/ CleansWorktree \/ CleansTmp \/ PersonAborts
  <2>1. /\ CourseOK' /\ check'.ran = check.ran /\ check'.failure = check.failure
        /\ check' = check \/ check'.phase \in {"cleaning worktree", "cleaning tmp", "reported"}
    BY <1>2, CourseOfCleaning DEF CheckTypeOK
  <2>2. command' = command
    BY <1>2, CommandStands DEF CommandsStand
  <2>3. CASE check' = check
    BY <2>2, <2>3, <2>1 DEF RunsAreGood, RanAs
  <2>4. CASE check'.phase \in {"cleaning worktree", "cleaning tmp", "reported"}
    BY <2>1, <2>4, RunsStand
  <2> QED BY <2>1, <2>3, <2>4
<1> QED BY <1>1, <1>2

\* While a command starts, runs and ends.
LEMMA RunsKeptInCommand ==
  ASSUME CheckTypeOK, RunsAreGood, CommandSteps
  PROVE  CourseOK' /\ RunsAreGood'
<1>1. CASE CommandStarts
  <2>1. Throws("setup-failed") \/ (Goes("running") /\ command'.of = NextOf)
    BY <1>1, StartsIs DEF CheckTypeOK
  <2>2. CASE Throws("setup-failed")
    <3>1. /\ CourseOK' /\ check'.ran = check.ran /\ check'.phase = "cleaning links"
          /\ check'.failure \in {"interrupted", "setup-failed"}
      BY <2>2, ThrowsIs DEF CheckTypeOK
    <3> QED BY <3>1, RunsStand
  <2>3. CASE Goes("running") /\ command'.of = NextOf
    <3>1. /\ CourseOK' /\ check'.ran = check.ran /\ check'.phase = "running"
          /\ check'.failure = check.failure
      BY <2>3, GoesIs DEF CheckTypeOK, CheckPhase
    <3>2. command'.of # "none" /\ (command'.of = "change" => RanAs("base"))
      BY <2>3, NextIs
    <3> QED BY <3>1, <3>2, RunsStand
  <2> QED BY <2>1, <2>2, <2>3
<1>2. CASE ~CommandStarts
  <2>1. /\ CourseOK' /\ check.phase = "running" /\ check'.phase \in {"running", "ran"}
        /\ check'.ran = check.ran /\ check'.failure = check.failure
    BY <1>2, CourseOfCommand DEF CheckTypeOK, CommandSteps
  <2>2. command'.of = command.of
    <3>1. CASE CommandTimesOut
      BY <3>1, StopsIs DEF CommandTimesOut, CheckTypeOK
    <3>2. CASE CommandInterrupted
      BY <3>2, StopsIs DEF CommandInterrupted, CheckTypeOK
    <3>3. CASE SignalGroup \/ \E code \in 0 .. 1 : CommandEnds(code)
      BY <3>3, EndsIs DEF CheckTypeOK
    <3>4. CASE BackgroundEnds \/ CommandCloses \/ StreamsGrace
      <4>1. \/ command' = command \/ command' = [command EXCEPT !.background = "none"]
            \/ command' = [command EXCEPT !.background = Killed(command.background)]
        BY <3>4 DEF BackgroundEnds, CommandCloses, StreamsGrace
      <4>2. command \in CommandType /\ Killed(command.background) \in InBackground \cup {"none"}
        BY DEF Killed, CheckTypeOK, CommandOK, CommandType
      <4> QED BY <4>1, <4>2 DEF CommandType
    <3> QED BY <1>2, <3>1, <3>2, <3>3, <3>4 DEF CommandSteps
  <2>3. command.of # "none" /\ (command.of = "change" => RanAs("base"))
    BY <2>1 DEF RunsAreGood
  <2> QED BY <2>1, <2>2, <2>3, RunsStand
<1> QED BY <1>1, <1>2

\* What a run adds to what is known.
LEMMA RunAdds ==
  ASSUME CheckTypeOK, RunsAreGood, check.phase = "ran", NEW t, Run(t) \in RunType,
         check'.phase \in {"linked", "judging"}, check'.failure = check.failure,
         check'.ran = Append(check.ran, Run(t)),
         check'.phase = "judging" => command.of = "change",
         command.of # "prepare" => /\ command.code = 0 /\ ~command.timedOut
                                   /\ t.requests > 0
  PROVE  RunsAreGood'
<1>1. /\ DOMAIN check'.ran = DOMAIN check.ran \cup {Len(check.ran) + 1}
      /\ check'.ran[Len(check.ran) + 1] = Run(t)
      /\ \A i \in DOMAIN check.ran : check'.ran[i] = check.ran[i]
  <2>1. check.ran \in Seq(RunType)
    BY DEF CheckTypeOK, CourseOK
  <2> QED BY <2>1
<1>2. \A of : RanAs(of) => RanAs(of)'
  BY <1>1 DEF RanAs
<1>3. check'.ran[Len(check.ran) + 1].of = command.of
  BY <1>1 DEF Run
<1>4. check'.phase = "judging" \/ check.failure = "compared" => RanAs("base") /\ RanAs("change")'
  <2>1. CASE check'.phase = "judging"
    <3>1. RanAs("base") /\ command.of = "change"
      BY <2>1 DEF RunsAreGood
    <3>2. RanAs("change")'
      BY <1>1, <1>3, <3>1 DEF RanAs
    <3> QED BY <3>1, <3>2
  <2>2. CASE check.failure = "compared"
    BY <1>2, <2>2 DEF RunsAreGood
  <2> QED BY <2>1, <2>2
<1>5. \A i \in DOMAIN check'.ran : check'.ran[i].of # "prepare" =>
        check'.ran[i].code = 0 /\ ~check'.ran[i].timedOut /\ check'.ran[i].tally.requests > 0
  <2>1. Run(t).of # "prepare" =>
          Run(t).code = 0 /\ ~Run(t).timedOut /\ Run(t).tally.requests > 0
    BY DEF Run
  <2> QED BY <1>1, <2>1 DEF RunsAreGood
<1> QED BY <1>1, <1>2, <1>4, <1>5 DEF RunsAreGood

\* What a run tells of itself.
ToldTally(n, m) ==
  [requests |-> n, unprofiled |-> 0, malformed |-> m, observers |-> [pg |-> "active"]]

\* What a step that reads a run finds, and does of it.
LEMMA ReadsRunIs ==
  ASSUME ReadsRun
  PROVE  /\ check.phase = "ran" /\ command.of # "prepare"
         /\ \E n, m \in 0 .. 1 :
              LET failure == RunFailure(command.timedOut, command.code, ToldTally(n, m).requests)
              IN IF failure # "none" THEN Throws(failure)
                 ELSE check' = [check EXCEPT !.ran = Append(@, Run(ToldTally(n, m))),
                                  !.phase = IF command.of = "base" THEN "linked" ELSE "judging"]
BY DEF ReadsRun, ToldTally

\* Between two commands, and when they are compared.
LEMMA RunsKeptBetween ==
  ASSUME CheckTypeOK, RunsAreGood, Prepared \/ ReadsRun \/ Judges
  PROVE  /\ CourseOK' /\ RunsAreGood'
         /\ check'.phase \in {"linked", "judging", "cleaning links"}
<1>0. /\ command.of \in {"none", "prepare", "base", "change"} /\ command.code \in 0 .. 1
      /\ command.timedOut \in BOOLEAN /\ CourseOK
  BY DEF CheckTypeOK, CommandOK, CommandType
<1>1. ASSUME NEW c, Throws(c), c \in {"setup-failed, unlinked", "setup-failed", "timeout",
                                      "command-failed", "no-profile", "nothing-evaluated"}
      PROVE  CourseOK' /\ RunsAreGood' /\ check'.phase = "cleaning links"
  <2>1. /\ CourseOK' /\ check'.ran = check.ran /\ check'.phase = "cleaning links"
        /\ check'.failure \in {"interrupted", c}
    BY <1>0, <1>1, ThrowsIs
  <2>2. check'.failure # "compared"
    BY <1>1, <2>1
  <2> QED BY <2>1, <2>2, RunsStand
<1>2. CASE Prepared
  <2> DEFINE c == IF AdviceForUnlinkedBase(options, options.workingDeps, options.baseDeps)
                  THEN "setup-failed, unlinked" ELSE "setup-failed"
  <2>1. /\ check.phase = "ran" /\ command.of = "prepare"
        /\ IF command.timedOut \/ command.code # 0 THEN Throws(c)
           ELSE check' = [check EXCEPT !.phase = "linked", !.ran = Append(@, Run("none"))]
    BY <1>2 DEF Prepared
  <2>2. CASE command.timedOut \/ command.code # 0
    <3>1. c \in {"setup-failed, unlinked", "setup-failed"} /\ Throws(c)
      BY <2>1, <2>2
    <3> HIDE DEF c
    <3> QED BY <1>1, <3>1
  <2>3. CASE ~(command.timedOut \/ command.code # 0)
    <3>1. check' = [check EXCEPT !.ran = Append(@, Run("none")), !.phase = "linked"]
      BY <1>0, <2>1, <2>3 DEF CourseOK
    <3>2. Run("none") \in RunType
      BY <1>0, <2>1 DEF Run, RunType
    <3>3. /\ CourseOK' /\ check'.phase = "linked" /\ check'.failure = check.failure
          /\ check'.ran = Append(check.ran, Run("none"))
      BY <1>0, <3>1, <3>2, RanIs DEF CheckPhase
    <3> QED BY <2>1, <3>2, <3>3, RunAdds
  <2> QED BY <2>2, <2>3
<1>3. CASE ReadsRun
  <2>1. PICK n \in 0 .. 1, m \in 0 .. 1 :
          LET failure == RunFailure(command.timedOut, command.code, ToldTally(n, m).requests)
          IN IF failure # "none" THEN Throws(failure)
             ELSE check' = [check EXCEPT !.ran = Append(@, Run(ToldTally(n, m))),
                              !.phase = IF command.of = "base" THEN "linked" ELSE "judging"]
    BY <1>3, ReadsRunIs
  <2> DEFINE t == ToldTally(n, m)
  <2>2. check.phase = "ran" /\ command.of # "prepare"
    BY <1>3, ReadsRunIs
  <2>3. command.of \in {"base", "change"}
    BY <1>0, <2>2 DEF RunsAreGood
  <2> DEFINE f == RunFailure(command.timedOut, command.code, t.requests)
  <2>4. CASE command.timedOut \/ command.code # 0 \/ t.requests = 0
    <3>1. f \in {"timeout", "command-failed", "no-profile"}
      BY <1>0, <2>4 DEF RunFailure
    <3>2. Throws(f)
      BY <2>1, <3>1
    <3> HIDE DEF f
    <3> QED BY <1>1, <3>1, <3>2
  <2>5. CASE ~command.timedOut /\ command.code = 0 /\ t.requests # 0
    <3>1. f = "none"
      BY <2>5 DEF RunFailure
    <3>2. Run(t) \in RunType /\ t.requests > 0
      BY <1>0, <2>3, <2>5 DEF Run, RunType, ToldTally
    <3> DEFINE p == IF command.of = "base" THEN "linked" ELSE "judging"
    <3>3. p \in CheckPhase /\ p \in {"linked", "judging"} /\ (p = "judging" => command.of = "change")
      BY <2>3 DEF CheckPhase
    <3>4. check' = [check EXCEPT !.ran = Append(@, Run(t)), !.phase = p]
      BY <2>1, <3>1
    <3>5. /\ CourseOK' /\ check'.phase = p /\ check'.failure = check.failure
          /\ check'.ran = Append(check.ran, Run(t))
      <4> HIDE DEF p, t
      <4> QED BY <1>0, <3>2, <3>3, <3>4, RanIs
    <3> HIDE DEF p, t
    <3>6. check'.phase \in {"linked", "judging"} /\ (check'.phase = "judging" => command.of = "change")
      BY <3>3, <3>5
    <3> QED BY <2>2, <2>5, <3>2, <3>5, <3>6, RunAdds
  <2> QED BY <1>0, <2>4, <2>5
<1>4. CASE Judges
  <2>1. \/ Throws("nothing-evaluated")
        \/ /\ check.phase = "judging"
           /\ \E notes : check' = [check EXCEPT !.phase = "cleaning links", !.failure = "compared",
                                      !.notes = notes]
    BY <1>4 DEF Judges, Judge
  <2>2. CASE \E notes : check' = [check EXCEPT !.phase = "cleaning links", !.failure = "compared",
                                     !.notes = notes]
    <3>1. CourseOK' /\ check'.phase = "cleaning links" /\ check'.ran = check.ran
      BY <1>0, <2>2 DEF CourseOK, CheckPhase
    <3>2. \A of : RanAs(of)' <=> RanAs(of)
      BY <3>1 DEF RanAs
    <3>3. RanAs("base") /\ RanAs("change")
      BY <1>4 DEF Judges, RunsAreGood
    <3> QED BY <3>1, <3>2, <3>3 DEF RunsAreGood
  <2> QED BY <1>1, <2>1, <2>2
<1> QED BY <1>2, <1>3, <1>4

-----------------------------------------------------------------------------
\* What there is, and what is said of it.

\* A step that changes neither what there is nor what is said keeps what is known of it, unless
\* it goes to a phase that is known more of.
LEMMA LeftStands ==
  ASSUME LeftIsKnown, UNCHANGED <<made, left, said>>,
         trace'.raced = trace.raced,
         \/ check'.phase = check.phase
         \/ check'.phase \in {"making", "linked", "running", "ran", "judging", "cleaning links"}
  PROVE  LeftIsKnown'
BY DEF LeftIsKnown

\* The steps of a command leave the mark of an interrupted checkout as it was.
LEMMA RacedStands ==
  ASSUME CommandOK, CommandSteps \/ Prepared \/ ReadsRun \/ Judges
  PROVE  trace'.raced = trace.raced
<1>1. CASE CommandStarts \/ BackgroundEnds \/ CommandTimesOut \/ CommandInterrupted \/ SignalGroup
           \/ Prepared \/ ReadsRun \/ Judges
  BY <1>1 DEF CommandStarts, BackgroundEnds, CommandTimesOut, CommandInterrupted, SignalGroup,
              Prepared, ReadsRun, Judges
<1>2. CASE \E code \in 0 .. 1 : CommandEnds(code)
  BY <1>2 DEF CommandEnds
<1>3. CASE CommandCloses \/ StreamsGrace
  <2>1. \E o, w : trace' = [trace EXCEPT !.stray = w, !.outlived = o]
    BY <1>3 DEF CommandCloses, StreamsGrace, Finishes
  <2> QED BY <2>1 DEF CommandOK
<1> QED BY <1>1, <1>2, <1>3 DEF CommandSteps

\* The directory and the checkout.
LEMMA LeftKeptByMaking ==
  ASSUME CheckTypeOK, LeftIsKnown,
         FindsBase \/ MakesTmp \/ AddsWorktree \/ LinkDependencies \/ LinksNothing
  PROVE  LeftIsKnown'
<1>0. CourseOK /\ EffectsOK
  BY DEF CheckTypeOK
<1>1. CASE FindsBase
  <2>1. Throws("not-a-repository") \/ Throws("bad-ref") \/ Goes("making")
    BY <1>1 DEF FindsBase
  <2>2. check'.phase \in {"making", "cleaning links"}
    BY <1>0, <2>1, GoesIs, ThrowsIs DEF CheckPhase
  <2> QED BY <1>1, <2>2, LeftStands DEF FindsBase
<1>2. CASE MakesTmp
  <2>1. CASE Throws("setup-failed") /\ UNCHANGED <<made, left>>
    <3>1. check'.phase = "cleaning links"
      BY <1>0, <2>1, ThrowsIs
    <3> QED BY <1>2, <2>1, <3>1, LeftStands DEF MakesTmp
  <2>2. CASE /\ made' = [made EXCEPT !.tmp = TRUE] /\ left' = [left EXCEPT !.tmp = TRUE]
             /\ Throws("setup-failed") \/ Goes("checking out")
    <3>1. check'.phase \in {"cleaning links", "checking out"}
      BY <1>0, <2>2, GoesIs, ThrowsIs DEF CheckPhase
    <3>2. said' = said /\ trace' = trace
      BY <1>2 DEF MakesTmp
    <3> QED BY <1>0, <2>2, <3>1, <3>2 DEF LeftIsKnown, EffectsOK
  <2> QED BY <1>2, <2>1, <2>2 DEF MakesTmp
<1>3. CASE AddsWorktree
  <2>0. check.phase = "checking out" /\ said' = said /\ made.tmp
    BY <1>3 DEF AddsWorktree, LeftIsKnown
  <2>1. CASE /\ made' = [made EXCEPT !.worktree = TRUE] /\ trace' = trace
             /\ left' = [left EXCEPT !.tree = TRUE, !.entry = TRUE]
             /\ Throws("setup-failed") \/ Goes("linking")
    <3>1. check'.phase \in {"cleaning links", "linking"}
      BY <1>0, <2>1, GoesIs, ThrowsIs DEF CheckPhase
    <3> QED BY <1>0, <2>0, <2>1, <3>1 DEF LeftIsKnown, EffectsOK
  <2>2. CASE Throws("setup-failed") /\ UNCHANGED <<made, left, trace>>
    <3>1. check'.phase = "cleaning links"
      BY <1>0, <2>2, ThrowsIs
    <3> QED BY <2>0, <2>2, <3>1, LeftStands
  <2>3. CASE /\ Throws("setup-failed") /\ UNCHANGED made
             /\ left' = [left EXCEPT !.tree = TRUE, !.entry = TRUE]
             /\ trace' = [trace EXCEPT !.raced = TRUE]
    <3>1. check'.phase = "cleaning links"
      BY <1>0, <2>3, ThrowsIs
    <3>2. trace'.raced
      BY <2>3 DEF CheckTypeOK, CommandOK
    <3> QED BY <1>0, <2>0, <2>3, <3>1, <3>2 DEF LeftIsKnown, EffectsOK
  <2> QED BY <1>3, <2>1, <2>2, <2>3 DEF AddsWorktree
<1>4. CASE LinkDependencies
  <2>0. said' = said /\ trace' = trace
    BY <1>4 DEF LinkDependencies
  <2>1. CASE \E place \in Place : /\ made' = [made EXCEPT !.links = @ \cup {place}]
                                  /\ left' = [left EXCEPT !.links = @ \cup {place}]
                                  /\ check' = check
    BY <1>0, <2>0, <2>1, <1>4 DEF LeftIsKnown, EffectsOK, LinkDependencies
  <2>2. CASE (Throws("setup-failed") \/ Goes("linked")) /\ UNCHANGED <<made, left>>
    <3>1. check'.phase \in {"cleaning links", "linked"}
      BY <1>0, <2>2, GoesIs, ThrowsIs DEF CheckPhase
    <3> QED BY <2>0, <2>2, <3>1, LeftStands
  <2> QED BY <1>4, <2>1, <2>2 DEF LinkDependencies
<1>5. CASE LinksNothing
  <2>1. check'.phase = "linked"
    BY <1>0, <1>5, GoesIs DEF LinksNothing, CheckPhase
  <2> QED BY <1>5, <2>1, LeftStands DEF LinksNothing
<1> QED BY <1>1, <1>2, <1>3, <1>4, <1>5

\* The cleaning takes away what there is, or says it.
LEMMA LeftKeptByCleaning ==
  ASSUME CheckTypeOK, LeftIsKnown, CleansLinks \/ CleansWorktree \/ CleansTmp
  PROVE  LeftIsKnown'
<1>0. CourseOK /\ EffectsOK
  BY DEF CheckTypeOK
<1>1. CASE CleansLinks
  <2>1. PICK kept \in SUBSET made.links :
          /\ left' = [left EXCEPT !.links = kept]
          /\ said' = said \cup (IF kept = {} THEN {} ELSE {"links"})
    BY <1>1 DEF CleansLinks
  <2>2. Goes("cleaning worktree") /\ UNCHANGED <<made, trace>>
    BY <1>1 DEF CleansLinks
  <2>3. check'.phase = "cleaning worktree"
    BY <1>0, <2>2, GoesIs DEF CheckPhase
  <2>4. kept # {} => said' # {}
    BY <2>1
  <2> QED BY <1>0, <2>1, <2>2, <2>3, <2>4 DEF LeftIsKnown, EffectsOK
<1>2. CASE CleansWorktree
  <2>1. Goes("cleaning tmp") /\ UNCHANGED <<made, trace>> /\ check.phase = "cleaning worktree"
    BY <1>2 DEF CleansWorktree
  <2>2. check'.phase = "cleaning tmp"
    BY <1>0, <2>1, GoesIs DEF CheckPhase
  <2>3. CASE made.worktree
    <3>1. PICK removed \in BOOLEAN, directory \in BOOLEAN, pruned \in BOOLEAN :
            RemovesWorktree(removed, directory, pruned)
      BY <1>2, <2>3 DEF CleansWorktree
    <3> DEFINE links == IF removed \/ directory THEN {} ELSE left.links
               tree == ~(removed \/ directory)
               entry == ~(removed \/ (directory /\ pruned))
    <3>2. /\ left' = [left EXCEPT !.tree = tree, !.entry = entry, !.links = links]
          /\ said' = IF removed \/ (directory /\ pruned) THEN said ELSE said \cup {"worktree"}
      BY <3>1 DEF RemovesWorktree
    <3>3. /\ links \subseteq left.links /\ said \subseteq said'
          /\ entry => "worktree" \in said'
      BY <3>2
    <3>4. left' = [left EXCEPT !.tree = tree, !.entry = entry, !.links = links]
      BY <3>2
    <3> HIDE DEF links, tree, entry
    <3>5. left'.tmp = left.tmp /\ left'.links = links /\ left'.entry = entry /\ made.tmp
      BY <1>0, <2>3, <3>4 DEF EffectsOK, LeftIsKnown
    <3>6. left'.links \subseteq made.links /\ (left'.links # {} => said' # {})
      BY <2>1, <3>3, <3>5 DEF LeftIsKnown
    <3>7. left'.entry => "worktree" \in said'
      BY <3>3, <3>5
    <3>8. made' = made /\ made.worktree /\ made.tmp /\ check'.phase = "cleaning tmp"
      BY <2>1, <2>2, <2>3, <3>5
    <3> QED BY <3>6, <3>7, <3>8 DEF LeftIsKnown
  <2>4. CASE ~made.worktree
    <3>1. UNCHANGED <<left, said>>
      BY <1>2, <2>4 DEF CleansWorktree
    <3> QED BY <2>1, <2>2, <2>4, <3>1 DEF LeftIsKnown
  <2> QED BY <2>3, <2>4
<1>3. CASE CleansTmp
  <2>1. Goes("reported") /\ UNCHANGED <<made, trace>> /\ check.phase = "cleaning tmp"
    BY <1>3 DEF CleansTmp
  <2>2. check'.phase = "reported"
    BY <1>0, <2>1, GoesIs DEF CheckPhase
  <2>3. CASE ~made.tmp /\ UNCHANGED <<left, said>>
    BY <2>1, <2>2, <2>3 DEF LeftIsKnown
  <2>4. CASE left' = [left EXCEPT !.tmp = FALSE, !.tree = FALSE, !.links = {}] /\ UNCHANGED said
    BY <1>0, <2>1, <2>2, <2>4 DEF LeftIsKnown, EffectsOK
  <2>5. CASE made.tmp /\ said' = said \cup {"tmp"} /\ UNCHANGED left
    BY <2>1, <2>2, <2>5 DEF LeftIsKnown
  <2> QED BY <1>3, <2>3, <2>4, <2>5 DEF CleansTmp
<1> QED BY <1>1, <1>2, <1>3

\* What is known of what there is, is kept.
LEMMA LeftKept ==
  ASSUME CheckTypeOK, RunsAreGood, LeftIsKnown, CheckNext
  PROVE  LeftIsKnown'
<1>0. CourseOK /\ CommandOK
  BY DEF CheckTypeOK
<1>1. CASE CommandStarts
  <2>1. check'.phase \in {"cleaning links", "running"}
    BY <1>0, <1>1, StartsIs, GoesIs, ThrowsIs DEF CheckPhase
  <2> QED BY <1>0, <1>1, <2>1, LeftStands, EffectsStand, RacedStands DEF CommandSteps
<1>2. CASE CommandSteps /\ ~CommandStarts
  <2>1. check'.phase \in {"running", "ran"}
    BY <1>0, <1>2, CourseOfCommand DEF CommandSteps
  <2> QED BY <1>0, <1>2, <2>1, LeftStands, EffectsStand, RacedStands
<1>3. CASE Prepared \/ ReadsRun \/ Judges
  <2>1. check'.phase \in {"linked", "judging", "cleaning links"}
    BY <1>3, RunsKeptBetween
  <2> QED BY <1>0, <1>3, <2>1, LeftStands, EffectsStand, RacedStands
<1>4. CASE PersonAborts
  BY <1>4 DEF PersonAborts, LeftIsKnown
<1> QED BY <1>1, <1>2, <1>3, <1>4, LeftKeptByMaking, LeftKeptByCleaning DEF CheckNext, CommandSteps

\* However a check ends, once it has reported it left nothing it does not say it left, but the entry
\* of a checkout that was done as git was stopped; no process of a command's group that holds its
\* streams outlived it; and only two good runs were compared (run.ts 184-255, 454-498, 623-830).
THEOREM LeavesNothing == CheckSpec => []NothingLeft
<1>1. CheckInit => CheckIInv
  BY CheckStarts
<1>2. CheckIInv /\ [CheckNext]_checkVars => CheckIInv'
  <2> SUFFICES ASSUME CheckIInv, [CheckNext]_checkVars PROVE CheckIInv'
    OBVIOUS
  <2>1. CASE UNCHANGED checkVars
    <3>1. CourseOK'
      BY <2>1 DEF checkVars, CheckIInv, CheckTypeOK, CourseOK
    <3>2. EffectsOK'
      BY <2>1 DEF checkVars, CheckIInv, CheckTypeOK, EffectsOK
    <3>3. CommandOK'
      BY <2>1 DEF checkVars, CheckIInv, CheckTypeOK, CommandOK
    <3>4. RunsAreGood'
      BY <2>1 DEF checkVars, CheckIInv, RunsAreGood, RanAs
    <3>5. LeftIsKnown'
      BY <2>1 DEF checkVars, CheckIInv, LeftIsKnown
    <3> QED BY <3>1, <3>2, <3>3, <3>4, <3>5 DEF CheckIInv, CheckTypeOK
  <2>2. CASE CheckNext
    <3>1. CourseOK' /\ RunsAreGood'
      BY <2>2, RunsKeptAside, RunsKeptInCommand, RunsKeptBetween
         DEF CheckNext, CheckIInv, CommandSteps
    <3>2. EffectsOK' /\ CommandOK'
      BY <2>2, EffectsKept, CommandKept DEF CheckIInv, CheckTypeOK
    <3>3. LeftIsKnown'
      BY <2>2, LeftKept DEF CheckIInv
    <3> QED BY <3>1, <3>2, <3>3 DEF CheckIInv, CheckTypeOK
  <2> QED BY <2>1, <2>2
<1>3. CheckIInv => NothingLeft
  <2> SUFFICES ASSUME CheckIInv PROVE NothingLeft
    OBVIOUS
  <2>1. "piped" \notin trace.outlived
    BY DEF CheckIInv, CheckTypeOK, CommandOK
  <2>2. ASSUME check.phase = "reported"
        PROVE  /\ left.tmp => "tmp" \in said
               /\ left.tree => {"worktree", "tmp"} \cap said # {}
               /\ left.entry => "worktree" \in said \/ trace.raced
               /\ left.links # {} => said # {}
    BY <2>2 DEF CheckIInv, LeftIsKnown
  <2>3. ASSUME check.failure = "compared"
        PROVE  LET compared == {i \in DOMAIN check.ran : check.ran[i].of # "prepare"}
               IN {check.ran[i].of : i \in compared} = {"base", "change"}
    <3>1. \A i \in DOMAIN check.ran : check.ran[i].of \in {"prepare", "base", "change"}
      <4>1. check.ran \in Seq(RunType)
        BY DEF CheckIInv, CheckTypeOK, CourseOK
      <4>2. \A r \in RunType : r.of \in {"prepare", "base", "change"}
        BY DEF RunType
      <4> QED BY <4>1, <4>2
    <3> QED BY <2>3, <3>1 DEF CheckIInv, RunsAreGood, RanAs
  <2> QED BY <2>1, <2>2, <2>3 DEF NothingLeft, CheckIInv, RunsAreGood
<1> QED BY <1>1, <1>2, <1>3, PTL DEF CheckSpec

-----------------------------------------------------------------------------
(***************************************************************************)
(* downtrace login                                                         *)
(***************************************************************************)

\* The phases of a login.
LoginPhase == {"starting", "asking", "checking", "sleeping", "polling", "ended"}

\* The types of what login holds.
LoginTypeOK ==
  /\ login \in [phase : LoginPhase, line : {login.line}, rotate : {login.rotate}, interval : Nat,
                deadline : Nat, wakeAt : Nat, askedAt : Nat, outcome : {login.outcome}]
  /\ clock \in Nat
  /\ heard \in [last : Int, told : Nat, lost : BOOLEAN, wrong : BOOLEAN]

\* What may be on the wire: a limit says how long, and only a 400 says to slow down.
WireOK ==
  /\ wire \in [status : {0, 1, 200, 400, 429, 500}, body : {wire.body}, interval : Nat]
  /\ wire.body = "slow_down" => wire.status = 400
  /\ login.phase = "polling" /\ wire.status = 200 => grant = "collected"

\* When it polls: never before what it was told, and never a whole interval beyond the end.
PollsInTime ==
  /\ ~heard.wrong /\ heard.last <= clock
  /\ login.phase \in {"checking", "sleeping", "polling"} => heard.told <= login.interval
  /\ login.phase = "sleeping" =>
       /\ clock <= login.wakeAt /\ login.wakeAt < login.deadline + login.interval
       /\ heard.last >= 0 => heard.last + heard.told <= login.wakeAt

\* Where the credentials are, and how the command ended.
CredentialsOK ==
  /\ login.phase # "ended" => login.outcome = "none"
  /\ login.outcome = "approved" => grant = "collected"
  /\ grant = "collected" => \/ heard.lost
                            \/ login.phase = "polling" /\ wire.status = 200
                            \/ login.phase = "ended" /\ login.outcome \in {"approved", "bad-answer"}
  /\ login.outcome = "expired_token" => clock >= login.deadline

\* What every step of a login keeps.
LoginIInv == LoginTypeOK /\ WireOK /\ PollsInTime /\ CredentialsOK

\* A command line asks for help, is wrong, or logs in.
LEMMA ParsesTo == ASSUME NEW line PROVE ParseLoginArgs(line) \in {"help", "error", "login"}
BY DEF ParseLoginArgs

\* A command that ends changes nothing else of itself.
LEMMA LoginEnds ==
  ASSUME LoginTypeOK, NEW outcome, Ends(outcome), clock' = clock, heard' \in
           [last : Int, told : Nat, lost : BOOLEAN, wrong : BOOLEAN]
  PROVE  /\ LoginTypeOK' /\ login'.phase = "ended" /\ login'.outcome = outcome
         /\ login'.deadline = login.deadline
BY DEF LoginTypeOK, Ends, LoginPhase

\* It holds when the command starts.
LEMMA LoginStartsWell == LoginInit => LoginIInv
<1> SUFFICES ASSUME LoginInit PROVE LoginIInv
  OBVIOUS
<1>1. PICK line : login = [phase |-> "starting", line |-> line, rotate |-> FALSE, interval |-> 0,
                           deadline |-> 0, wakeAt |-> 0, askedAt |-> 0, outcome |-> "none"]
  BY DEF LoginInit
<1>2. /\ clock = 0 /\ wire = NoAnswer /\ grant = "none"
      /\ heard = [last |-> -1, told |-> 0, lost |-> FALSE, wrong |-> FALSE]
  BY DEF LoginInit
<1>3. LoginTypeOK
  BY <1>1, <1>2 DEF LoginTypeOK, LoginPhase
<1>4. WireOK
  BY <1>1, <1>2 DEF WireOK, NoAnswer
<1>5. PollsInTime
  BY <1>1, <1>2 DEF PollsInTime
<1>6. CredentialsOK
  BY <1>1, <1>2 DEF CredentialsOK
<1> QED BY <1>3, <1>4, <1>5, <1>6 DEF LoginIInv

\* The start.
LEMMA LoginStartsKeeps ==
  ASSUME LoginIInv, LoginStarts
  PROVE  LoginIInv'
<1> USE DEF LoginIInv
<1>0. login.phase = "starting" /\ UNCHANGED <<clock, grant, heard>>
  BY DEF LoginStarts
<1>1. CASE \E r : login' = [login EXCEPT !.phase = "asking", !.askedAt = clock, !.rotate = r]
           /\ wire' = Request
  <2>1. LoginTypeOK' /\ login'.phase = "asking" /\ login'.outcome = login.outcome
    BY <1>0, <1>1 DEF LoginTypeOK, LoginPhase
  <2>2. WireOK'
    BY <1>0, <1>1, <2>1 DEF WireOK, Request
  <2> QED BY <1>0, <1>1, <2>1, <2>2 DEF PollsInTime, CredentialsOK
<1>2. ASSUME NEW kind \in {"help", "error"}, Ends(kind), UNCHANGED wire
      PROVE  LoginIInv'
  <2>1. LoginTypeOK' /\ login'.phase = "ended" /\ login'.outcome = kind
    BY <1>0, <1>2, LoginEnds DEF LoginTypeOK
  <2> QED BY <1>0, <1>2, <2>1 DEF WireOK, PollsInTime, CredentialsOK
<1>3. \/ \E r : login' = [login EXCEPT !.phase = "asking", !.askedAt = clock, !.rotate = r]
                /\ wire' = Request
      \/ \E kind \in {"help", "error"} : Ends(kind) /\ UNCHANGED wire
  <2> DEFINE kind == ParseLoginArgs(login.line)
  <2>1. kind \in {"help", "error", "login"}
    BY ParsesTo
  <2>2. IF kind = "login"
        THEN /\ \E r : login' = [login EXCEPT !.phase = "asking", !.askedAt = clock, !.rotate = r]
             /\ wire' = Request
        ELSE Ends(kind) /\ UNCHANGED wire
    BY DEF LoginStarts
  <2> HIDE DEF kind
  <2> QED BY <2>1, <2>2
<1> QED BY <1>1, <1>2, <1>3

\* A request that fails loses what was on its way.
LEMMA PostFailsKeeps ==
  ASSUME LoginIInv, PostFails
  PROVE  LoginIInv'
<1> USE DEF LoginIInv
<1> DEFINE l == heard.lost \/ grant # grant' \/ (login.phase = "polling" /\ wire.status = 200)
<1>1. /\ login.phase \in {"asking", "polling"} /\ wire' = NoAnswer /\ clock' = clock
      /\ heard' = [heard EXCEPT !.lost = l] /\ l \in BOOLEAN
  BY DEF PostFails, LoginTypeOK
<1>2. heard' \in [last : Int, told : Nat, lost : BOOLEAN, wrong : BOOLEAN]
      /\ heard'.lost = l /\ heard'.last = heard.last /\ heard'.told = heard.told
      /\ heard'.wrong = heard.wrong
  <2> HIDE DEF l
  <2> QED BY <1>1 DEF LoginTypeOK
<1>3. grant' = "collected" => l
  BY <1>1 DEF CredentialsOK
<1>4. CASE \E o \in {"interrupted", "unreachable"} : Ends(o)
  <2>1. PICK o \in {"interrupted", "unreachable"} : Ends(o)
    BY <1>4
  <2>2. LoginTypeOK' /\ login'.phase = "ended" /\ login'.outcome = o
    BY <1>1, <1>2, <2>1, LoginEnds DEF LoginTypeOK
  <2>3. WireOK'
    BY <1>1, <2>2 DEF WireOK, NoAnswer
  <2> HIDE DEF l
  <2> QED BY <1>1, <1>2, <1>3, <2>2, <2>3 DEF PollsInTime, CredentialsOK
<1>5. CASE login.phase # "asking" /\ login' = [login EXCEPT !.phase = "checking"]
  <2> HIDE DEF l
  <2>1. LoginTypeOK' /\ login'.phase = "checking" /\ login'.outcome = login.outcome
        /\ login'.interval = login.interval /\ login.phase = "polling"
    BY <1>1, <1>2, <1>5 DEF LoginTypeOK, LoginPhase
  <2>2. WireOK'
    BY <1>1, <2>1 DEF WireOK, NoAnswer
  <2> QED BY <1>1, <1>2, <1>3, <2>1, <2>2 DEF PollsInTime, CredentialsOK
<1> QED BY <1>4, <1>5 DEF PostFails

\* The code is read.
LEMMA ReadCodeKeeps ==
  ASSUME LoginIInv, ReadCode
  PROVE  LoginIInv'
<1> USE DEF LoginIInv
<1>1. /\ login.phase = "asking" /\ wire' = NoAnswer /\ UNCHANGED <<clock, grant>>
  BY DEF ReadCode, Answered
<1>2. CASE UNCHANGED heard /\ \E o \in {"refused", "bad-answer"} : Ends(o)
  <2>1. PICK o \in {"refused", "bad-answer"} : Ends(o)
    BY <1>2
  <2>2. LoginTypeOK' /\ login'.phase = "ended" /\ login'.outcome = o
    BY <1>1, <1>2, <2>1, LoginEnds DEF LoginTypeOK
  <2>3. WireOK'
    BY <1>1, <2>2 DEF WireOK, NoAnswer
  <2> QED BY <1>1, <1>2, <2>2, <2>3 DEF PollsInTime, CredentialsOK
<1>3. ASSUME NEW expires \in 1 .. MaxExpires,
             login' = [login EXCEPT !.phase = "checking",
                         !.interval = IF wire.interval > 1 THEN wire.interval ELSE 1,
                         !.deadline = clock + expires],
             heard' = [heard EXCEPT !.told = wire.interval]
      PROVE  LoginIInv'
  <2> DEFINE i == IF wire.interval > 1 THEN wire.interval ELSE 1
             d == clock + expires
  <2>1. i \in Nat /\ d \in Nat /\ wire.interval \in Nat /\ wire.interval <= i
    BY DEF WireOK, LoginTypeOK
  <2>2. login' = [login EXCEPT !.phase = "checking", !.interval = i, !.deadline = d]
    BY <1>3
  <2> HIDE DEF i, d
  <2>3. LoginTypeOK' /\ login'.phase = "checking" /\ login'.outcome = login.outcome
        /\ login'.interval = i /\ heard'.told = wire.interval /\ heard'.last = heard.last
        /\ heard'.lost = heard.lost /\ heard'.wrong = heard.wrong
    BY <1>1, <1>3, <2>1, <2>2 DEF LoginTypeOK, LoginPhase
  <2>4. WireOK'
    BY <1>1, <2>3 DEF WireOK, NoAnswer
  <2> QED BY <1>1, <2>1, <2>3, <2>4 DEF PollsInTime, CredentialsOK
<1>4. \/ UNCHANGED heard /\ \E o \in {"refused", "bad-answer"} : Ends(o)
      \/ \E expires \in 1 .. MaxExpires :
           /\ login' = [login EXCEPT !.phase = "checking",
                          !.interval = IF wire.interval > 1 THEN wire.interval ELSE 1,
                          !.deadline = clock + expires]
           /\ heard' = [heard EXCEPT !.told = wire.interval]
  BY DEF ReadCode
<1> QED BY <1>2, <1>3, <1>4

\* The head of the loop, and the sleep.
LEMMA ChecksKeeps ==
  ASSUME LoginIInv, Checks \/ SleepInterrupted
  PROVE  LoginIInv'
<1> USE DEF LoginIInv
<1>1. login.phase \in {"checking", "sleeping"} /\ UNCHANGED <<clock, wire, grant, heard>>
  BY DEF Checks, SleepInterrupted
<1>2. ASSUME NEW o, Ends(o), o \in {"interrupted", "expired_token"},
             o = "expired_token" => clock >= login.deadline
      PROVE  LoginIInv'
  <2>2. LoginTypeOK' /\ login'.phase = "ended" /\ login'.outcome = o
        /\ login'.deadline = login.deadline
    BY <1>1, <1>2, LoginEnds DEF LoginTypeOK
  <2> QED BY <1>1, <1>2, <2>2 DEF WireOK, PollsInTime, CredentialsOK
<1>3. CASE /\ login.phase = "checking" /\ ~(clock >= login.deadline)
           /\ login' = [login EXCEPT !.phase = "sleeping", !.wakeAt = clock + login.interval]
  <2> DEFINE w == clock + login.interval
  <2>1. w \in Nat
    BY DEF LoginTypeOK
  <2>2. LoginTypeOK' /\ login'.phase = "sleeping" /\ login'.outcome = login.outcome
        /\ login'.interval = login.interval /\ login'.wakeAt = w
        /\ login'.deadline = login.deadline
    <3> HIDE DEF w
    <3>1. login' = [login EXCEPT !.phase = "sleeping", !.wakeAt = w]
      BY <1>3 DEF w
    <3> QED BY <1>1, <1>3, <2>1, <3>1 DEF LoginTypeOK, LoginPhase
  <2>3. PollsInTime'
    BY <1>1, <1>3, <2>2 DEF PollsInTime, LoginTypeOK
  <2> QED BY <1>1, <1>3, <2>2, <2>3 DEF WireOK, CredentialsOK
<1>4. \/ Ends("interrupted") \/ (Ends("expired_token") /\ clock >= login.deadline)
      \/ /\ login.phase = "checking" /\ ~(clock >= login.deadline)
         /\ login' = [login EXCEPT !.phase = "sleeping", !.wakeAt = clock + login.interval]
  BY DEF Checks, SleepInterrupted
<1> QED BY <1>2, <1>3, <1>4

\* A poll is made in time.
LEMMA PollsKeeps ==
  ASSUME LoginIInv, Polls
  PROVE  LoginIInv'
<1> USE DEF LoginIInv
<1> DEFINE w == \/ heard.wrong
                \/ heard.last >= 0 /\ clock < heard.last + heard.told
                \/ clock >= login.deadline + login.interval
<1>1. /\ login.phase = "sleeping" /\ clock >= login.wakeAt /\ wire' = Request
      /\ login' = [login EXCEPT !.phase = "polling", !.askedAt = clock]
      /\ heard' = [heard EXCEPT !.last = clock, !.wrong = w]
      /\ UNCHANGED <<clock, grant>>
  BY DEF Polls
<1>2. w = FALSE
  BY <1>1 DEF LoginTypeOK, PollsInTime
<1> HIDE DEF w
<1>3. LoginTypeOK' /\ login'.phase = "polling" /\ login'.outcome = login.outcome
      /\ login'.interval = login.interval /\ login'.deadline = login.deadline
      /\ heard'.last = clock /\ ~heard'.wrong /\ heard'.told = heard.told
      /\ heard'.lost = heard.lost
  <2>1. /\ heard' \in [last : Int, told : Nat, lost : BOOLEAN, wrong : BOOLEAN]
        /\ heard'.last = clock /\ ~heard'.wrong /\ heard'.told = heard.told
        /\ heard'.lost = heard.lost
    <3>1. heard' = [heard EXCEPT !.last = clock, !.wrong = FALSE]
      BY <1>1, <1>2
    <3>2. clock \in Int
      BY DEF LoginTypeOK
    <3> QED BY <3>1, <3>2 DEF LoginTypeOK
  <2>2. /\ login' \in [phase : LoginPhase, line : {login.line}, rotate : {login.rotate},
                       interval : Nat, deadline : Nat, wakeAt : Nat, askedAt : Nat,
                       outcome : {login.outcome}]
        /\ login'.phase = "polling" /\ login'.outcome = login.outcome
        /\ login'.interval = login.interval /\ login'.deadline = login.deadline
        /\ login'.line = login.line /\ login'.rotate = login.rotate
    BY <1>1 DEF LoginTypeOK, LoginPhase
  <2> QED BY <1>1, <2>1, <2>2 DEF LoginTypeOK
<1>4. WireOK'
  BY <1>1, <1>3 DEF WireOK, Request
<1>5. PollsInTime'
  BY <1>1, <1>3 DEF PollsInTime, LoginTypeOK
<1> QED BY <1>1, <1>3, <1>4, <1>5 DEF CredentialsOK

\* What raises the interval raises what was told as much, and no more.
LEMMA RaisedIs ==
  ASSUME LoginAssumption, LoginTypeOK, WireOK, heard.told <= login.interval,
         NEW told,
         told = IF wire.body = "slow_down" THEN heard.told + SlowDown
                ELSE IF wire.status = 429 /\ wire.interval > heard.told THEN wire.interval
                ELSE heard.told
  PROVE  Raised(wire) \in Nat /\ told \in Nat /\ told <= Raised(wire)
<1>1. /\ SlowDown \in Nat /\ login.interval \in Nat /\ heard.told \in Nat /\ wire.interval \in Nat
      /\ wire.body = "slow_down" => wire.status = 400
  BY DEF LoginAssumption, LoginTypeOK, WireOK
<1>2. CASE wire.body = "slow_down"
  <2>1. Raised(wire) = login.interval + SlowDown
    BY <1>1, <1>2 DEF Raised
  <2> QED BY <1>1, <1>2, <2>1
<1>3. CASE wire.body # "slow_down" /\ wire.status = 429 /\ wire.interval > login.interval
  <2>1. Raised(wire) = wire.interval
    BY <1>3 DEF Raised
  <2> QED BY <1>1, <1>3, <2>1
<1>4. CASE wire.body # "slow_down" /\ ~(wire.status = 429 /\ wire.interval > login.interval)
  <2>1. Raised(wire) = login.interval
    BY <1>4 DEF Raised
  <2> QED BY <1>1, <1>4, <2>1
<1> QED BY <1>2, <1>3, <1>4

\* An answer to a poll is read.
LEMMA ReadPollKeeps ==
  ASSUME LoginIInv, ReadPoll
  PROVE  LoginIInv'
<1> USE DEF LoginIInv
<1> DEFINE t == IF wire.body = "slow_down" THEN heard.told + SlowDown
                ELSE IF wire.status = 429 /\ wire.interval > heard.told THEN wire.interval
                ELSE heard.told
           i == Raised(wire)
<1>1. /\ login.phase = "polling" /\ wire' = NoAnswer /\ UNCHANGED <<clock, grant>>
      /\ heard' = [heard EXCEPT !.told = t]
  BY DEF ReadPoll, Answered
<1>2. i \in Nat /\ t \in Nat /\ t <= i
  BY <1>1, LoginAssumption, RaisedIs DEF PollsInTime
<1>3. \/ wire.status = 200 /\ Ends(IF wire.body = "credentials" THEN "approved" ELSE "bad-answer")
      \/ wire.status # 200 /\ login' = [login EXCEPT !.phase = "checking", !.interval = i]
      \/ wire.status # 200 /\ Ends("refused")
  BY DEF ReadPoll
<1> HIDE DEF t, i
<1>4. /\ heard' \in [last : Int, told : Nat, lost : BOOLEAN, wrong : BOOLEAN]
      /\ heard'.told = t /\ heard'.lost = heard.lost /\ heard'.last = heard.last
      /\ heard'.wrong = heard.wrong
  BY <1>1, <1>2 DEF LoginTypeOK
<1>5. ASSUME NEW o, Ends(o), \/ wire.status = 200 /\ o \in {"approved", "bad-answer"}
                             \/ wire.status # 200 /\ o = "refused"
      PROVE  LoginIInv'
  <2>1. LoginTypeOK' /\ login'.phase = "ended" /\ login'.outcome = o
    BY <1>1, <1>4, <1>5, LoginEnds DEF LoginTypeOK
  <2>2. WireOK'
    BY <1>1, <2>1 DEF WireOK, NoAnswer
  <2>3. PollsInTime'
    BY <1>1, <1>4, <2>1 DEF PollsInTime
  <2>4. CredentialsOK'
    BY <1>1, <1>4, <1>5, <2>1 DEF CredentialsOK, WireOK
  <2> QED BY <2>1, <2>2, <2>3, <2>4
<1>6. CASE wire.status # 200 /\ login' = [login EXCEPT !.phase = "checking", !.interval = i]
  <2>1. LoginTypeOK' /\ login'.phase = "checking" /\ login'.outcome = login.outcome
        /\ login'.interval = i
    BY <1>1, <1>2, <1>4, <1>6 DEF LoginTypeOK, LoginPhase
  <2>2. WireOK'
    BY <1>1, <2>1 DEF WireOK, NoAnswer
  <2>3. PollsInTime'
    BY <1>1, <1>2, <1>4, <2>1 DEF PollsInTime
  <2>4. CredentialsOK'
    BY <1>1, <1>4, <1>6, <2>1 DEF CredentialsOK, WireOK
  <2> QED BY <2>1, <2>2, <2>3, <2>4
<1>7. CASE wire.status = 200
  <2> DEFINE o == IF wire.body = "credentials" THEN "approved" ELSE "bad-answer"
  <2>1. o \in {"approved", "bad-answer"} /\ Ends(o)
    BY <1>3, <1>7
  <2> HIDE DEF o
  <2> QED BY <1>5, <1>7, <2>1
<1>8. CASE wire.status # 200 /\ Ends("refused")
  BY <1>5, <1>8
<1> QED BY <1>3, <1>6, <1>7, <1>8

\* The cloud, the person and the clock.
LEMMA OthersKeep ==
  ASSUME LoginIInv, CloudGivesCode \/ CloudAnswersPoll \/ PersonDecides \/ PersonInterrupts
                    \/ ClockTicks
  PROVE  LoginIInv'
<1> USE DEF LoginIInv
<1>1. CASE CloudGivesCode
  <2>1. UNCHANGED <<login, clock, heard>> /\ login.phase = "asking" /\ grant = "none"
        /\ grant' \in {"none", "pending"}
    BY <1>1 DEF CloudGivesCode
  <2>2. /\ wire' \in [status : {0, 1, 200, 400, 429, 500}, body : {wire'.body}, interval : Nat]
        /\ wire'.body # "slow_down"
    <3>1. CASE \E interval \in 0 .. MaxInterval : Answer(200, "code", interval)
      BY <3>1, LoginAssumption DEF LoginAssumption, Answer
    <3>2. CASE \E body \in {"no code", "another origin"} : Answer(200, body, 0)
      <4>1. PICK body \in {"no code", "another origin"} : Answer(200, body, 0)
        BY <3>2
      <4>2. wire' = [status |-> 200, body |-> body, interval |-> 0] /\ body # "slow_down"
        BY <4>1 DEF Answer
      <4> QED BY <4>2
    <3>3. CASE Answer(400, "refused", 0)
      BY <3>3 DEF Answer
    <3> QED BY <1>1, <3>1, <3>2, <3>3 DEF CloudGivesCode
  <2>3. WireOK'
    BY <2>1, <2>2 DEF WireOK
  <2> QED BY <2>1, <2>3 DEF LoginTypeOK, PollsInTime, CredentialsOK
<1>2. CASE CloudAnswersPoll
  <2>1. UNCHANGED <<login, clock, heard>> /\ login.phase = "polling" /\ wire.status = 1
    BY <1>2 DEF CloudAnswersPoll, Request
  <2>2. /\ wire' \in [status : {0, 1, 200, 400, 429, 500}, body : {wire'.body}, interval : Nat]
        /\ wire'.body = "slow_down" => wire'.status = 400
        /\ IF wire'.status = 200 THEN grant' = "collected" ELSE grant' = grant
    <3>1. CASE Answer(400, "authorization_pending", 0) /\ UNCHANGED grant
      BY <3>1 DEF Answer
    <3>2. CASE Answer(400, "slow_down", 0) /\ UNCHANGED grant
      BY <3>2 DEF Answer
    <3>3. CASE \E wait \in 0 .. MaxInterval : Answer(429, "limited", wait) /\ UNCHANGED grant
      BY <3>3, LoginAssumption DEF LoginAssumption, Answer
    <3>4. CASE Answer(500, "failed", 0) /\ UNCHANGED grant
      BY <3>4 DEF Answer
    <3>5. CASE Answer(400, "refused", 0) /\ UNCHANGED grant
      BY <3>5 DEF Answer
    <3>6. CASE /\ grant' = "collected"
               /\ \E body \in {"credentials", "another shape", "another origin"} : Answer(200, body, 0)
      <4>1. PICK body \in {"credentials", "another shape", "another origin"} : Answer(200, body, 0)
        BY <3>6
      <4>2. wire' = [status |-> 200, body |-> body, interval |-> 0] /\ body # "slow_down"
        BY <4>1 DEF Answer
      <4> QED BY <3>6, <4>2
    <3> QED BY <1>2, <3>1, <3>2, <3>3, <3>4, <3>5, <3>6 DEF CloudAnswersPoll
  <2>3. WireOK'
    BY <2>1, <2>2 DEF WireOK
  <2>4. CredentialsOK'
    BY <2>1, <2>2, <2>3 DEF CredentialsOK
  <2> QED BY <2>1, <2>3, <2>4 DEF LoginTypeOK, PollsInTime
<1>3. CASE PersonDecides \/ PersonInterrupts
  <2>1. UNCHANGED <<login, clock, wire, heard>>
    BY <1>3 DEF PersonDecides, PersonInterrupts
  <2>2. grant' = grant \/ (grant = "pending" /\ grant' \in {"approved", "denied"})
    BY <1>3 DEF PersonDecides, PersonInterrupts
  <2> QED BY <2>1, <2>2 DEF LoginTypeOK, WireOK, PollsInTime, CredentialsOK
<1>4. CASE ClockTicks
  <2>1. UNCHANGED <<login, wire, grant, heard>> /\ clock' = clock + 1
        /\ (login.phase = "sleeping" => clock < login.wakeAt) /\ login.phase # "ended"
    BY <1>4 DEF ClockTicks
  <2>2. PollsInTime'
    BY <2>1 DEF LoginTypeOK, PollsInTime
  <2>3. CredentialsOK'
    BY <2>1 DEF CredentialsOK
  <2> QED BY <2>1, <2>2, <2>3 DEF LoginTypeOK, WireOK
<1> QED BY <1>1, <1>2, <1>3, <1>4

\* Polls come as far apart as the cloud asked for and none a whole interval beyond the code's
\* end; the credentials are shown exactly when the command succeeds, and otherwise they were lost
\* on the way or the command said that the answer was not good (command.ts 219-290).
THEOREM ShowsOrSaysLost == LoginSpec => []CredentialsShownOrLost
<1>1. LoginInit => LoginIInv
  BY LoginStartsWell
<1>2. LoginIInv /\ [LoginNext]_loginVars => LoginIInv'
  <2> SUFFICES ASSUME LoginIInv, [LoginNext]_loginVars PROVE LoginIInv'
    OBVIOUS
  <2>1. CASE UNCHANGED loginVars
    <3>1. LoginTypeOK'
      BY <2>1 DEF loginVars, LoginIInv, LoginTypeOK
    <3>2. WireOK'
      BY <2>1 DEF loginVars, LoginIInv, WireOK
    <3>3. PollsInTime' /\ CredentialsOK'
      BY <2>1 DEF loginVars, LoginIInv, PollsInTime, CredentialsOK
    <3> QED BY <3>1, <3>2, <3>3 DEF LoginIInv
  <2>2. CASE LoginNext
    BY <2>2, LoginStartsKeeps, PostFailsKeeps, ReadCodeKeeps, ChecksKeeps, PollsKeeps,
       ReadPollKeeps, OthersKeep DEF LoginNext
  <2> QED BY <2>1, <2>2
<1>3. LoginIInv => CredentialsShownOrLost
  <2> SUFFICES ASSUME LoginIInv PROVE CredentialsShownOrLost
    OBVIOUS
  <2>1. RunLogin(login.outcome) = 0 => login.outcome \in {"approved", "help"}
    BY DEF RunLogin
  <2> QED BY <2>1 DEF CredentialsShownOrLost, LoginIInv, PollsInTime, CredentialsOK
<1> QED BY <1>1, <1>2, <1>3, PTL DEF LoginSpec

-----------------------------------------------------------------------------
(***************************************************************************)
(* The MCP server                                                          *)
(***************************************************************************)

\* A key under which a call is sent: an operation's, or the message's own.
KeyType == [of : {"nothing", "operation", "message"}, n : Operation \cup Nat]

\* A message the host wrote, and how far the server is with it.
MessageType ==
  [id : Id \cup {NoId}, what : {"initialize", "other", "junk", "call", "cancelled"},
   operation : Operation \cup {0}, tool : ToolNames, key : KeyType, version : Nat,
   stage : {"ready", "asked", "answering", "done"},
   outcome : {"said", "refused", "unreachable", "cut short", "no", "on its way", "done"},
   sent : {"no", "on its way", "refused", "done"}]

\* A call is made of an operation with its tool, and only calls are sent to the cloud.
CallOK(message) ==
  /\ message.what = "call" => /\ message.operation \in Operation /\ message.version > 0
                              /\ message.tool = ToolOf[message.operation]
  /\ message.sent # "no" => message.what = "call"

\* The messages that were written.
MessagesOK ==
  /\ messages \in Seq(MessageType)
  /\ \A m \in Messages : CallOK(messages[m])

\* An answer is to a message that is done, each to another; a message that is done and had an id
\* was answered, unless it was cancelled, and none that was cancelled is.
AnswersOK ==
  /\ answers \in Seq(Nat)
  /\ \A i \in DOMAIN answers : answers[i] \in Messages /\ messages[answers[i]].stage = "done"
  /\ \A i, j \in DOMAIN answers : answers[i] = answers[j] => i = j
  /\ \A m \in Messages : messages[m].stage = "done" /\ m \notin cancelled /\ messages[m].id # NoId =>
       \E i \in DOMAIN answers : answers[i] = m
  /\ \A m \in cancelled : m \in Messages /\ ~\E i \in DOMAIN answers : answers[i] = m
  /\ aborted = cancelled

\* The last request with an id.
LastOf(id, m) ==
  m \in Messages /\ messages[m].id = id /\ \A n \in Messages : messages[n].id = id => n <= m

\* In flight with an id is the last request that had it, until it is done.
FlightOK ==
  /\ inFlight \in [Id -> Nat]
  /\ \A id \in Id : inFlight[id] # 0 =>
       LastOf(id, inFlight[id]) /\ messages[inFlight[id]].stage # "done"
  /\ \A id \in Id : \A m \in Messages :
       LastOf(id, m) /\ messages[m].stage # "done" => inFlight[id] = m

\* All calls of an operation are sent with one key, unless it was asked again with none to pass.
KeysOK ==
  \A o \in Operation : o \notin blind => \A m, n \in Calls(o) : KeySent(m) = KeySent(n)

\* What the cloud remembers of a call it applied.
AppliedType == [operation : Operation, key : KeyType, message : Nat, on : Nat]

\* What the cloud applied, it applied for a call that was sent, with its key, and no key twice.
AppliedOK ==
  /\ applied \in Seq(AppliedType)
  /\ version \in Nat
  /\ \A i \in DOMAIN applied :
       LET m == applied[i].message
       IN /\ m \in Messages /\ messages[m].what = "call"
          /\ applied[i].operation = messages[m].operation /\ applied[i].key = KeySent(m)
          /\ ToolNamed(messages[m].tool).versioned => messages[m].version = applied[i].on
  /\ \A i, j \in DOMAIN applied : applied[i].key = applied[j].key => i = j

\* What every step of a session keeps.
SessionIInv == MessagesOK /\ AnswersOK /\ FlightOK /\ KeysOK /\ AppliedOK

\* serve returns when nothing is being answered any more, and nothing is read after it.
ServedOK == open = "served" => NoneAnswering

-----------------------------------------------------------------------------
\* Two messages ask the same.
Asks(a, b) ==
  /\ a.id = b.id /\ a.what = b.what /\ a.operation = b.operation
  /\ a.tool = b.tool /\ a.key = b.key /\ a.version = b.version

\* A message that is read comes after those that were.
LEMMA AddIs ==
  ASSUME MessagesOK, NEW message \in MessageType, CallOK(message),
         messages' = Append(messages, message)
  PROVE  /\ MessagesOK' /\ Len(messages) \in Nat /\ Messages' = Messages \cup {Len(messages) + 1}
         /\ Len(messages) + 1 \notin Messages /\ messages'[Len(messages) + 1] = message
         /\ \A m \in Messages : messages'[m] = messages[m]
         /\ \A m \in Messages : m < Len(messages) + 1
<1>1. /\ messages' \in Seq(MessageType) /\ Len(messages) \in Nat
      /\ Len(messages') = Len(messages) + 1 /\ messages'[Len(messages) + 1] = message
      /\ \A m \in 1 .. Len(messages) : messages'[m] = messages[m]
  BY DEF MessagesOK
<1>2. Messages' = Messages \cup {Len(messages) + 1}
  BY <1>1 DEF Messages
<1> QED BY <1>1, <1>2 DEF MessagesOK, Messages

\* A message that goes on asks what it asked.
LEMMA GoesOn ==
  ASSUME MessagesOK, NEW m \in Messages, NEW r \in MessageType, CallOK(r), Asks(r, messages[m]),
         messages' = [messages EXCEPT ![m] = r]
  PROVE  /\ MessagesOK' /\ Messages' = Messages /\ messages'[m] = r
         /\ \A n \in Messages : Asks(messages'[n], messages[n])
         /\ \A n \in Messages \ {m} : messages'[n] = messages[n]
<1>1. /\ messages' \in Seq(MessageType) /\ Len(messages') = Len(messages) /\ messages'[m] = r
      /\ \A n \in 1 .. Len(messages) : n # m => messages'[n] = messages[n]
  BY DEF MessagesOK, Messages
<1>2. \A n \in Messages : Asks(messages'[n], messages[n])
  BY <1>1 DEF Messages, Asks
<1> QED BY <1>1, <1>2 DEF MessagesOK, Messages

\* What a message is sent with is its own.
LEMMA SentWithIts ==
  ASSUME NEW m \in Messages, m \in Messages', Asks(messages'[m], messages[m])
  PROVE  KeySent(m)' = KeySent(m)
BY DEF KeySent, Asks, NewKey

\* A message is one.
LEMMA IsMessage ==
  ASSUME MessagesOK, NEW m \in Messages
  PROVE  messages[m] \in MessageType /\ CallOK(messages[m]) /\ m \in Nat /\ m # 0
BY DEF MessagesOK, Messages

\* The key of an operation is no blank.
LEMMA KeyIsNoBlank ==
  ASSUME MessagesOK, NEW m \in Messages
  PROVE  /\ KeySent(m) \in KeyType
         /\ ToolNamed(messages[m].tool).operates => KeySent(m) # NoKey
<1>1. messages[m].key \in KeyType /\ m \in Nat
  BY IsMessage DEF MessageType
<1>2. NoKey \in KeyType /\ NewKey(m) \in KeyType /\ NewKey(m) # NoKey
  BY <1>1 DEF NoKey, NewKey, KeyType
<1> QED BY <1>1, <1>2 DEF KeySent

\* While no message is read and none is applied, the keys and what was applied stand.
LEMMA KeysStand ==
  ASSUME KeysOK, Messages' = Messages, \A n \in Messages : Asks(messages'[n], messages[n]),
         blind' = blind
  PROVE  KeysOK'
<1>1. \A o : Calls(o)' = Calls(o)
  BY DEF Calls, Asks
<1>2. \A n \in Messages : KeySent(n)' = KeySent(n)
  BY SentWithIts
<1> QED BY <1>1, <1>2 DEF KeysOK, Calls

\* What was applied stands, whatever is read and goes on.
LEMMA AppliedStands ==
  ASSUME AppliedOK, Messages \subseteq Messages',
         \A n \in Messages : Asks(messages'[n], messages[n]),
         applied' = applied, version' \in Nat
  PROVE  AppliedOK'
<1>2. \A n \in Messages : KeySent(n)' = KeySent(n)
  BY SentWithIts
<1>3. ASSUME NEW i \in DOMAIN applied, NEW m, m = applied[i].message
      PROVE  /\ m \in Messages' /\ messages'[m].what = "call"
             /\ applied[i].operation = messages'[m].operation /\ applied[i].key = KeySent(m)'
             /\ ToolNamed(messages'[m].tool).versioned => messages'[m].version = applied[i].on
  <2>1. /\ m \in Messages /\ messages[m].what = "call"
        /\ applied[i].operation = messages[m].operation /\ applied[i].key = KeySent(m)
        /\ ToolNamed(messages[m].tool).versioned => messages[m].version = applied[i].on
    BY <1>3 DEF AppliedOK
  <2>2. Asks(messages'[m], messages[m]) /\ KeySent(m)' = KeySent(m) /\ m \in Messages'
    BY <1>2, <2>1
  <2> QED BY <2>1, <2>2 DEF Asks
<1>4. \A i \in DOMAIN applied' :
        /\ applied'[i].message \in Messages' /\ messages'[applied'[i].message].what = "call"
        /\ applied'[i].operation = messages'[applied'[i].message].operation
        /\ applied'[i].key = KeySent(applied[i].message)'
        /\ ToolNamed(messages'[applied'[i].message].tool).versioned =>
             messages'[applied'[i].message].version = applied'[i].on
  BY <1>3 DEF KeySent, NewKey
<1> QED BY <1>4 DEF AppliedOK

\* It holds when the session starts.
LEMMA SessionStarts == SessionInit => SessionIInv
<1> SUFFICES ASSUME SessionInit PROVE SessionIInv
  OBVIOUS
<1>1. messages = <<>> /\ answers = <<>> /\ applied = <<>> /\ Messages = {} /\ version = 1
      /\ cancelled = {} /\ aborted = {} /\ inFlight = [i \in Id |-> 0]
  BY DEF SessionInit, Messages
<1>2. MessagesOK
  BY <1>1 DEF MessagesOK
<1>3. AnswersOK
  BY <1>1 DEF AnswersOK
<1>4. FlightOK
  BY <1>1 DEF FlightOK
<1>5. KeysOK
  BY <1>1 DEF KeysOK, Calls
<1>6. AppliedOK
  BY <1>1 DEF AppliedOK
<1> QED BY <1>2, <1>3, <1>4, <1>5, <1>6 DEF SessionIInv

-----------------------------------------------------------------------------
\* What is read

\* A message that is not answered at once leaves the answers as they were.
LEMMA AnswersOfRead ==
  ASSUME MessagesOK, AnswersOK, NEW message \in MessageType, CallOK(message),
         message.stage = "done" => message.id = NoId,
         messages' = Append(messages, message), UNCHANGED <<answers, aborted, cancelled>>
  PROVE  AnswersOK'
<1>0. PICK n : n = Len(messages) + 1
  OBVIOUS
<1>1. /\ Messages' = Messages \cup {n} /\ messages'[n] = message
      /\ \A m \in Messages : messages'[m] = messages[m]
  BY <1>0, AddIs
<1> QED BY <1>1 DEF AnswersOK

\* A request that is read is in flight.
LEMMA FlightOfRead ==
  ASSUME MessagesOK, FlightOK, SessionAssumption, NEW message \in MessageType, CallOK(message),
         message.stage # "done", Reads(message)
  PROVE  FlightOK'
<1>0. PICK n : n = Len(messages) + 1
  OBVIOUS
<1>1. /\ Messages' = Messages \cup {n} /\ messages'[n] = message /\ n \notin Messages /\ n \in Nat
      /\ \A m \in Messages : messages'[m] = messages[m]
      /\ \A m \in Messages : m < n
  <2>1. messages' = Append(messages, message)
    BY DEF Reads
  <2>2. /\ Len(messages) \in Nat /\ Messages' = Messages \cup {Len(messages) + 1}
        /\ Len(messages) + 1 \notin Messages /\ messages'[Len(messages) + 1] = message
        /\ \A m \in Messages : messages'[m] = messages[m]
        /\ \A m \in Messages : m < Len(messages) + 1
    BY <2>1, AddIs
  <2> QED BY <1>0, <2>2
<1>2. inFlight' = IF message.id = NoId THEN inFlight ELSE [inFlight EXCEPT ![message.id] = n]
  BY <1>0 DEF Reads
<1>3. message.id \in Id \cup {NoId} /\ NoId \notin Id /\ n # 0
  <2>1. message.id \in Id \cup {NoId}
    BY DEF MessageType
  <2>2. Len(messages) \in Nat
    BY DEF MessagesOK
  <2> QED BY <1>0, <2>1, <2>2 DEF SessionAssumption, NoId
<1>4. \A m \in Messages : m \in Nat
  BY DEF Messages
<1>5. inFlight' \in [Id -> Nat]
  BY <1>1, <1>2, <1>3 DEF FlightOK
<1>6. ASSUME NEW id \in Id, id # message.id
      PROVE  inFlight'[id] = inFlight[id] /\ \A m : LastOf(id, m)' <=> LastOf(id, m)
  BY <1>1, <1>2, <1>3, <1>6 DEF FlightOK, LastOf
<1>7. ASSUME NEW id \in Id, id = message.id
      PROVE  inFlight'[id] = n /\ \A m : LastOf(id, m)' <=> m = n
  BY <1>1, <1>2, <1>3, <1>4, <1>7 DEF FlightOK, LastOf
<1>8. \A id \in Id : inFlight'[id] # 0 =>
        LastOf(id, inFlight[id])' /\ messages'[inFlight'[id]].stage # "done"
  <2> TAKE id \in Id
  <2>1. CASE id = message.id
    <3>1. inFlight'[id] = n /\ LastOf(id, n)'
      BY <1>7, <2>1
    <3> QED BY <1>1, <3>1 DEF LastOf
  <2>2. CASE id # message.id
    <3>1. inFlight[id] # 0 => LastOf(id, inFlight[id]) /\ messages[inFlight[id]].stage # "done"
      BY DEF FlightOK
    <3>2. inFlight'[id] = inFlight[id] /\ \A m : LastOf(id, m)' <=> LastOf(id, m)
      BY <1>6, <2>2
    <3>3. inFlight[id] # 0 => inFlight[id] \in Messages
      BY <3>1 DEF LastOf
    <3> QED BY <1>1, <3>1, <3>2, <3>3 DEF LastOf
  <2> QED BY <2>1, <2>2
<1>9. \A id \in Id : \A m \in Messages' :
        LastOf(id, m)' /\ messages'[m].stage # "done" => inFlight'[id] = m
  <2> TAKE id \in Id
  <2> TAKE m \in Messages'
  <2>1. CASE id = message.id
    BY <1>7, <2>1
  <2>2. CASE id # message.id
    <3>1. LastOf(id, m) => m \in Messages
      BY DEF LastOf
    <3> QED BY <1>1, <1>6, <2>2, <3>1 DEF FlightOK
  <2> QED BY <2>1, <2>2
<1> QED BY <1>5, <1>8, <1>9 DEF FlightOK

\* A message that is no request is in no flight.
LEMMA FlightOfOther ==
  ASSUME MessagesOK, FlightOK, SessionAssumption, NEW message \in MessageType, CallOK(message),
         message.id = NoId, messages' = Append(messages, message), inFlight' = inFlight
  PROVE  FlightOK'
<1>0. PICK n : n = Len(messages) + 1
  OBVIOUS
<1>1. /\ Messages' = Messages \cup {n} /\ messages'[n] = message /\ n \notin Messages
      /\ \A m \in Messages : messages'[m] = messages[m]
  BY <1>0, AddIs
<1>2. NoId \notin Id
  BY DEF SessionAssumption, NoId
<1>3. \A id \in Id : \A m : LastOf(id, m)' <=> LastOf(id, m)
  BY <1>1, <1>2 DEF LastOf
<1>4. \A id \in Id, m \in Messages' : LastOf(id, m) => m \in Messages
  BY DEF LastOf
<1>5. \A id \in Id : inFlight[id] # 0 => inFlight[id] \in Messages
  BY DEF FlightOK, LastOf
<1> QED BY <1>1, <1>3, <1>4, <1>5, ZenonT(40) DEF FlightOK

\* A message that is no call leaves the keys as they were.
LEMMA KeysOfOther ==
  ASSUME MessagesOK, KeysOK, NEW message \in MessageType, message.what # "call", CallOK(message),
         messages' = Append(messages, message), blind' = blind
  PROVE  KeysOK'
<1>0. PICK n : n = Len(messages) + 1
  OBVIOUS
<1>1. /\ Messages' = Messages \cup {n} /\ messages'[n] = message
      /\ \A m \in Messages : messages'[m] = messages[m]
  BY <1>0, AddIs
<1>2. \A o : Calls(o)' = Calls(o) /\ Calls(o) \subseteq Messages
  BY <1>1 DEF Calls
<1>3. \A m \in Messages : KeySent(m)' = KeySent(m)
  BY <1>1, SentWithIts DEF Asks
<1> QED BY <1>2, <1>3 DEF KeysOK

\* A call of an operation is sent with the key of the others, when there is one to pass.
LEMMA KeysOfCall ==
  ASSUME MessagesOK, KeysOK, NEW o \in Operation, NEW message \in MessageType, CallOK(message),
         message.what = "call", message.operation = o, messages' = Append(messages, message),
         message.key \in IF KnownKeys(o) # {} THEN KnownKeys(o)
                         ELSE IF Calls(o) = {} THEN {NoKey, OwnKey(o)} ELSE {NoKey},
         blind' = IF message.key = NoKey /\ Calls(o) # {} THEN blind \cup {o} ELSE blind
  PROVE  KeysOK'
<1>0. PICK n : n = Len(messages) + 1
  OBVIOUS
<1>1. /\ Messages' = Messages \cup {n} /\ messages'[n] = message /\ n \in Messages'
      /\ \A m \in Messages : messages'[m] = messages[m]
  BY <1>0, AddIs
<1>2. /\ Calls(o)' = Calls(o) \cup {n}
      /\ \A p : p # o => Calls(p)' = Calls(p)
  BY <1>1 DEF Calls
<1>3. \A m \in Messages : KeySent(m)' = KeySent(m)
  BY <1>1, SentWithIts DEF Asks
<1>4. \A p \in Operation : Calls(p) \subseteq Messages
  BY DEF Calls
<1>5. ASSUME o \notin blind', NEW m \in Calls(o)
      PROVE  KeySent(n)' = KeySent(m)
  <2>1. o \notin blind /\ message.key # NoKey /\ message.key \in KnownKeys(o)
    BY <1>5 DEF KnownKeys
  <2>2. message.tool = ToolOf[o] /\ \A k \in Calls(o) : messages[k].tool = ToolOf[o]
    BY DEF CallOK, MessagesOK, Calls
  <2>3. CASE ~ToolNamed(ToolOf[o]).operates
    BY <1>1, <1>5, <2>2, <2>3 DEF KeySent
  <2>4. CASE ToolNamed(ToolOf[o]).operates
    <3>1. KeySent(n)' = message.key
      BY <1>1, <2>1, <2>2, <2>4 DEF KeySent
    <3>2. PICK k \in Calls(o) : message.key = messages[k].key \/ message.key = KeySent(k)
      BY <2>1 DEF KnownKeys
    <3>3. message.key = KeySent(k)
      BY <2>1, <2>2, <2>4, <3>2 DEF KeySent
    <3> QED BY <2>1, <3>1, <3>3 DEF KeysOK
  <2> QED BY <2>3, <2>4
<1>6. ASSUME NEW p \in Operation, p \notin blind', NEW m \in Calls(p)', NEW k \in Calls(p)'
      PROVE  KeySent(m)' = KeySent(k)'
  <2>1. p \notin blind
    BY <1>6
  <2>2. CASE p # o
    BY <1>2, <1>3, <1>4, <1>6, <2>1, <2>2 DEF KeysOK
  <2>3. CASE p = o
    <3>1. \A c \in Calls(o) : KeySent(c)' = KeySent(n)'
      BY <1>3, <1>4, <1>5, <1>6, <2>3
    <3> QED BY <1>2, <1>6, <2>3, <3>1
  <2> QED BY <2>2, <2>3
<1> QED BY <1>6 DEF KeysOK

\* What a message is when it is read.
LEMMA MessageIs ==
  ASSUME NEW id \in Id \cup {NoId}, NEW what \in {"initialize", "other", "junk", "call", "cancelled"}
  PROVE  /\ Message(id, what) \in MessageType
         /\ Message(id, what).id = id /\ Message(id, what).what = what
         /\ Message(id, what).stage = "ready" /\ Message(id, what).sent = "no"
<1>1. NoKey \in KeyType
  BY DEF NoKey, KeyType
<1>2. "read_credential" \in ToolNames
  BY DEF ToolNames, Project
<1> QED BY <1>1, <1>2 DEF Message, MessageType

\* A request that is no call.
LEMMA ReadOtherKeeps ==
  ASSUME SessionIInv, NEW id \in Id \cup {NoId},
         (\E asked \in 0 .. 3 : ReadInitialize(id, asked)) \/ ReadOther(id)
  PROVE  SessionIInv'
<1>1. PICK is \in {"initialize", "other"} : Reads(Message(id, is))
  BY DEF ReadInitialize, ReadOther
<1>2. /\ Reads(Message(id, is)) /\ UNCHANGED <<aborted, answers, applied, version, cancelled, blind>>
  BY <1>1 DEF ReadInitialize, ReadOther
<1> DEFINE message == Message(id, is)
<1>3. /\ message \in MessageType /\ message.what = is /\ message.stage = "ready"
      /\ message.sent = "no" /\ message.id = id
  BY <1>1, MessageIs
<1>4. CallOK(message) /\ message.what # "call" /\ messages' = Append(messages, message)
  BY <1>1, <1>2, <1>3 DEF CallOK, Reads
<1>5. Reads(message)
  BY <1>2
<1> HIDE DEF message
<1>6. MessagesOK' /\ Messages \subseteq Messages' /\ \A m \in Messages : messages'[m] = messages[m]
  BY <1>3, <1>4, AddIs DEF SessionIInv
<1>7. AnswersOK'
  BY <1>2, <1>3, <1>4, AnswersOfRead DEF SessionIInv
<1>8. FlightOK'
  BY <1>3, <1>4, <1>5, FlightOfRead, SessionAssumption DEF SessionIInv
<1>9. KeysOK'
  BY <1>2, <1>3, <1>4, KeysOfOther DEF SessionIInv
<1>10. AppliedOK'
  BY <1>2, <1>6, AppliedStands DEF SessionIInv, Asks, AppliedOK
<1> QED BY <1>6, <1>7, <1>8, <1>9, <1>10 DEF SessionIInv

\* A line that is no message is answered at once.
LEMMA ReadJunkKeeps ==
  ASSUME SessionIInv, ReadJunk
  PROVE  SessionIInv'
<1> DEFINE message == [Message(NoId, "junk") EXCEPT !.stage = "done"]
<1>0. PICK n : n = Len(messages) + 1
  OBVIOUS
<1>1. /\ message \in MessageType /\ message.what = "junk" /\ message.stage = "done"
      /\ message.sent = "no" /\ message.id = NoId
  <2>1. /\ Message(NoId, "junk") \in MessageType /\ Message(NoId, "junk").what = "junk"
        /\ Message(NoId, "junk").sent = "no" /\ Message(NoId, "junk").id = NoId
    BY MessageIs
  <2> QED BY <2>1 DEF MessageType
<1>2. /\ messages' = Append(messages, message) /\ answers' = Append(answers, n)
      /\ UNCHANGED <<inFlight, aborted, applied, version, cancelled, blind>>
  BY <1>0 DEF ReadJunk
<1> HIDE DEF message
<1>3. CallOK(message) /\ message.what # "call"
  BY <1>1 DEF CallOK
<1>4. /\ MessagesOK' /\ Messages' = Messages \cup {n} /\ messages'[n] = message
      /\ n \notin Messages /\ n \in Nat /\ \A m \in Messages : messages'[m] = messages[m]
  <2>1. n \in Nat
    BY <1>0 DEF SessionIInv, MessagesOK
  <2> QED BY <1>0, <1>1, <1>2, <1>3, <2>1, AddIs DEF SessionIInv
<1>5. AnswersOK'
  <2>0. AnswersOK
    BY DEF SessionIInv
  <2>1. /\ answers' \in Seq(Nat) /\ DOMAIN answers' = DOMAIN answers \cup {Len(answers) + 1}
        /\ \A i \in DOMAIN answers : answers'[i] = answers[i]
        /\ answers'[Len(answers) + 1] = n
    BY <1>2, <1>4, <2>0 DEF AnswersOK
  <2>2. \A i \in DOMAIN answers' : answers'[i] \in Messages' /\ messages'[answers'[i]].stage = "done"
    BY <1>1, <1>4, <2>0, <2>1 DEF AnswersOK
  <2>3. \A i, j \in DOMAIN answers' : answers'[i] = answers'[j] => i = j
    BY <1>4, <2>0, <2>1 DEF AnswersOK
  <2>4. \A m \in Messages' :
          messages'[m].stage = "done" /\ m \notin cancelled' /\ messages'[m].id # NoId =>
            \E i \in DOMAIN answers' : answers'[i] = m
    <3>1. Len(answers) + 1 \in DOMAIN answers' /\ answers'[Len(answers) + 1] = n
      BY <2>1
    <3>2. ASSUME NEW m \in Messages, messages'[m].stage = "done", m \notin cancelled,
                 messages'[m].id # NoId
          PROVE  \E i \in DOMAIN answers' : answers'[i] = m
      <4>1. PICK i \in DOMAIN answers : answers[i] = m
        BY <1>4, <2>0, <3>2 DEF AnswersOK
      <4> QED BY <2>1, <4>1
    <3> QED BY <1>2, <1>4, <3>1, <3>2
  <2>5. \A m \in cancelled' : m \in Messages' /\ ~\E i \in DOMAIN answers' : answers'[i] = m
    BY <1>2, <1>4, <2>0, <2>1 DEF AnswersOK
  <2> QED BY <1>2, <2>0, <2>1, <2>2, <2>3, <2>4, <2>5 DEF AnswersOK
<1>6. FlightOK'
  BY <1>1, <1>2, <1>3, FlightOfOther, SessionAssumption DEF SessionIInv
<1>7. KeysOK'
  BY <1>1, <1>2, <1>3, KeysOfOther DEF SessionIInv
<1>8. AppliedOK'
  BY <1>2, <1>4, AppliedStands DEF SessionIInv, Asks, AppliedOK
<1> QED BY <1>4, <1>5, <1>6, <1>7, <1>8 DEF SessionIInv

\* A cancellation aborts what it cancels, and nothing else.
LEMMA ReadCancelledKeeps ==
  ASSUME SessionIInv, NEW id \in Id, ReadCancelled(id)
  PROVE  SessionIInv'
<1> DEFINE message == [Message(NoId, "cancelled") EXCEPT !.stage = "done"]
           hit == {m \in Messages : LastOf(id, m) /\ messages[m].stage # "done"}
<1>0. PICK n : n = Len(messages) + 1
  OBVIOUS
<1>1. /\ message \in MessageType /\ message.what = "cancelled" /\ message.stage = "done"
      /\ message.sent = "no" /\ message.id = NoId
  <2>1. /\ Message(NoId, "cancelled") \in MessageType /\ Message(NoId, "cancelled").what = "cancelled"
        /\ Message(NoId, "cancelled").sent = "no" /\ Message(NoId, "cancelled").id = NoId
    BY MessageIs
  <2> QED BY <2>1 DEF MessageType
<1>2. /\ messages' = Append(messages, message)
      /\ UNCHANGED <<inFlight, answers, applied, version, blind>>
      /\ aborted' = IF inFlight[id] = 0 THEN aborted ELSE aborted \cup {inFlight[id]}
  BY DEF ReadCancelled
<1>3. cancelled' = cancelled \cup hit
  BY DEF ReadCancelled, LastOf
<1> HIDE DEF message
<1>4. CallOK(message) /\ message.what # "call"
  BY <1>1 DEF CallOK
<1>5. /\ MessagesOK' /\ Messages' = Messages \cup {n} /\ messages'[n] = message
      /\ n \notin Messages /\ \A m \in Messages : messages'[m] = messages[m]
  BY <1>0, <1>1, <1>2, <1>4, AddIs DEF SessionIInv
<1>6. AnswersOK'
  <2>0. AnswersOK /\ FlightOK
    BY DEF SessionIInv
  <2>1. hit = IF inFlight[id] = 0 THEN {} ELSE {inFlight[id]}
    <3>1. \A m \in hit : m = inFlight[id] /\ m # 0
      BY <2>0 DEF FlightOK, Messages
    <3>2. inFlight[id] # 0 => inFlight[id] \in hit
      BY <2>0 DEF FlightOK, LastOf
    <3> QED BY <3>1, <3>2
  <2>2. aborted' = cancelled'
    BY <1>2, <1>3, <2>0, <2>1 DEF AnswersOK
  <2>3. \A m \in hit : m \in Messages /\ ~\E i \in DOMAIN answers : answers[i] = m
    BY <2>0 DEF AnswersOK
  <2> HIDE DEF hit
  <2> QED BY <1>1, <1>2, <1>3, <1>5, <2>0, <2>2, <2>3, ZenonT(40) DEF AnswersOK
<1>7. FlightOK'
  BY <1>1, <1>2, <1>4, FlightOfOther, SessionAssumption DEF SessionIInv
<1>8. KeysOK'
  BY <1>1, <1>2, <1>4, KeysOfOther DEF SessionIInv
<1>9. AppliedOK'
  BY <1>2, <1>5, AppliedStands DEF SessionIInv, Asks, AppliedOK
<1> QED BY <1>5, <1>6, <1>7, <1>8, <1>9 DEF SessionIInv

\* A call is refused at once, or asked of the cloud.
LEMMA AgentCallsKeeps ==
  ASSUME SessionIInv, NEW id \in Id \cup {NoId}, NEW o \in Operation, NEW read \in 1 .. MaxVersion,
         NEW given, AgentCalls(id, o, given, read)
  PROVE  SessionIInv'
<1>1. PICK key \in IF KnownKeys(o) # {} THEN KnownKeys(o)
                   ELSE IF Calls(o) = {} THEN {NoKey, OwnKey(o)} ELSE {NoKey} :
        /\ ReadCall(id, o, ToolOf[o], key, read, given)
        /\ blind' = IF key = NoKey /\ Calls(o) # {} THEN blind \cup {o} ELSE blind
  BY DEF AgentCalls
<1> DEFINE call == [Message(id, "call") EXCEPT !.operation = o, !.tool = ToolOf[o], !.key = key,
                      !.version = read]
           message == IF Refused(ToolOf[o], given) THEN [call EXCEPT !.outcome = "refused"]
                      ELSE [call EXCEPT !.stage = "asked", !.sent = "on its way"]
<1>2. Reads(message) /\ UNCHANGED <<aborted, answers, applied, version, cancelled>>
  BY <1>1 DEF ReadCall
<1>3. key \in KeyType
  <2>1. NoKey \in KeyType /\ OwnKey(o) \in KeyType
    BY DEF NoKey, OwnKey, KeyType
  <2>2. \A m \in Messages : messages[m].key \in KeyType /\ KeySent(m) \in KeyType
    <3>1. \A m \in Messages : messages[m] \in MessageType
      BY DEF SessionIInv, MessagesOK, Messages
    <3> QED BY <3>1, KeyIsNoBlank DEF SessionIInv, MessageType
  <2>3. KnownKeys(o) \subseteq KeyType
    BY <2>2 DEF KnownKeys, Calls
  <2> QED BY <1>1, <2>1, <2>3
<1>4. ToolOf[o] \in ToolNames /\ read \in Nat /\ read > 0
  BY SessionAssumption DEF SessionAssumption
<1>5. /\ call \in MessageType /\ call.what = "call" /\ call.operation = o /\ call.tool = ToolOf[o]
      /\ call.key = key /\ call.version = read /\ call.id = id /\ call.stage = "ready"
      /\ call.sent = "no"
  <2>1. Message(id, "call") \in MessageType /\ Message(id, "call").what = "call"
        /\ Message(id, "call").stage = "ready" /\ Message(id, "call").sent = "no"
        /\ Message(id, "call").id = id
    BY MessageIs
  <2> QED BY <1>3, <1>4, <2>1 DEF MessageType
<1>6. /\ message \in MessageType /\ message.what = "call" /\ message.operation = o
      /\ message.tool = ToolOf[o] /\ message.key = key /\ message.version = read
      /\ message.stage \in {"ready", "asked"}
  <2> HIDE DEF call
  <2> QED BY <1>5 DEF MessageType
<1> HIDE DEF message, call
<1>7. CallOK(message) /\ messages' = Append(messages, message) /\ message.stage # "done"
  BY <1>2, <1>4, <1>6 DEF CallOK, Reads
<1>8. MessagesOK' /\ Messages \subseteq Messages' /\ \A m \in Messages : messages'[m] = messages[m]
  BY <1>6, <1>7, AddIs DEF SessionIInv
<1>9. AnswersOK'
  BY <1>2, <1>6, <1>7, AnswersOfRead DEF SessionIInv
<1>10. FlightOK'
  BY <1>2, <1>6, <1>7, FlightOfRead, SessionAssumption DEF SessionIInv
<1>11. KeysOK'
  BY <1>1, <1>6, <1>7, KeysOfCall DEF SessionIInv
<1>12. AppliedOK'
  BY <1>2, <1>8, AppliedStands DEF SessionIInv, Asks, AppliedOK
<1> QED BY <1>8, <1>9, <1>10, <1>11, <1>12 DEF SessionIInv

-----------------------------------------------------------------------------
\* What goes on

\* While no message ends, the answers and what is in flight stand.
LEMMA AnswersStand ==
  ASSUME AnswersOK, FlightOK, Messages' = Messages,
         \A n \in Messages : Asks(messages'[n], messages[n]),
         \A n \in Messages : messages'[n].stage = "done" <=> messages[n].stage = "done",
         UNCHANGED <<inFlight, answers, aborted, cancelled>>
  PROVE  AnswersOK' /\ FlightOK'
<1>1. \A n \in Messages : messages'[n].id = messages[n].id
  BY DEF Asks
<1>2. AnswersOK'
  BY <1>1 DEF AnswersOK
<1>3. \A id \in Id : \A m : LastOf(id, m)' <=> LastOf(id, m)
  BY <1>1 DEF LastOf
<1>4. \A id \in Id : inFlight[id] # 0 => inFlight[id] \in Messages
  BY DEF FlightOK, LastOf
<1>5. /\ \A id \in Id : inFlight[id] # 0 =>
           LastOf(id, inFlight[id])' /\ messages'[inFlight[id]].stage # "done"
      /\ \A id \in Id : \A m \in Messages :
           LastOf(id, m)' /\ messages'[m].stage # "done" => inFlight[id] = m
  <2>1. ASSUME NEW id \in Id, inFlight[id] # 0
        PROVE  LastOf(id, inFlight[id])' /\ messages'[inFlight[id]].stage # "done"
    <3>1. LastOf(id, inFlight[id]) /\ messages[inFlight[id]].stage # "done"
      BY <2>1 DEF FlightOK
    <3> QED BY <1>1, <1>4, <2>1, <3>1 DEF LastOf
  <2> QED BY <1>3, <2>1 DEF FlightOK
<1> QED BY <1>2, <1>5 DEF FlightOK

\* A message that goes on and is not done.
LEMMA GoesOnKeeps ==
  ASSUME SessionIInv, NEW m \in Messages, NEW r \in MessageType, CallOK(r), Asks(r, messages[m]),
         messages' = [messages EXCEPT ![m] = r], messages[m].stage # "done", r.stage # "done",
         UNCHANGED <<inFlight, aborted, answers, applied, version, cancelled, blind>>
  PROVE  SessionIInv'
<1>1. /\ MessagesOK' /\ Messages' = Messages /\ messages'[m] = r
      /\ \A n \in Messages : Asks(messages'[n], messages[n])
      /\ \A n \in Messages \ {m} : messages'[n] = messages[n]
  BY GoesOn DEF SessionIInv
<1>2. AnswersOK' /\ FlightOK'
  BY <1>1, AnswersStand DEF SessionIInv
<1>3. KeysOK'
  BY <1>1, KeysStand DEF SessionIInv
<1>4. AppliedOK'
  BY <1>1, AppliedStands DEF SessionIInv, AppliedOK
<1> QED BY <1>1, <1>2, <1>3, <1>4 DEF SessionIInv

\* What is heard of a call, or is not.
LEMMA HearsKeeps ==
  ASSUME SessionIInv, NEW m \in Messages, CallFails(m) \/ StatusComes(m) \/ BodyComes(m)
  PROVE  SessionIInv'
<1>0. messages[m] \in MessageType /\ CallOK(messages[m])
  BY IsMessage DEF SessionIInv
<1>1. ASSUME NEW stage \in {"answering", "ready"},
             NEW outcome \in {"said", "refused", "unreachable", "cut short", "no", "on its way", "done"},
             messages' = [messages EXCEPT ![m].stage = stage, ![m].outcome = outcome],
             messages[m].stage # "done",
             UNCHANGED <<inFlight, aborted, answers, applied, version, cancelled, blind>>
      PROVE  SessionIInv'
  <2> DEFINE r == [messages[m] EXCEPT !.stage = stage, !.outcome = outcome]
  <2>1. messages' = [messages EXCEPT ![m] = r]
    BY <1>1
  <2>2. r \in MessageType /\ CallOK(r) /\ Asks(r, messages[m]) /\ r.stage # "done"
    BY <1>0, <1>1, ZenonT(40) DEF MessageType, CallOK, Asks
  <2> HIDE DEF r
  <2> QED BY <1>1, <2>1, <2>2, GoesOnKeeps
<1>2. CASE CallFails(m)
  <2> DEFINE outcome == IF messages[m].stage = "asked" THEN "unreachable" ELSE "cut short"
  <2>1. /\ messages' = [messages EXCEPT ![m].stage = "ready", ![m].outcome = outcome]
        /\ messages[m].stage # "done"
        /\ UNCHANGED <<inFlight, aborted, answers, applied, version, cancelled, blind>>
    BY <1>2 DEF CallFails
  <2>2. outcome \in {"unreachable", "cut short"}
    OBVIOUS
  <2> HIDE DEF outcome
  <2> QED BY <1>1, <2>1, <2>2
<1>3. CASE StatusComes(m)
  <2> DEFINE r == [messages[m] EXCEPT !.stage = "answering"]
  <2>1. /\ messages' = [messages EXCEPT ![m] = r] /\ messages[m].stage # "done"
        /\ UNCHANGED <<inFlight, aborted, answers, applied, version, cancelled, blind>>
    BY <1>3 DEF StatusComes
  <2>2. r \in MessageType /\ CallOK(r) /\ Asks(r, messages[m]) /\ r.stage # "done"
    BY <1>0 DEF MessageType, CallOK, Asks
  <2> HIDE DEF r
  <2> QED BY <2>1, <2>2, GoesOnKeeps
<1>4. CASE BodyComes(m)
  <2> DEFINE sent == messages[m].sent
  <2>1. /\ messages' = [messages EXCEPT ![m].stage = "ready", ![m].outcome = sent]
        /\ messages[m].stage # "done"
        /\ UNCHANGED <<inFlight, aborted, answers, applied, version, cancelled, blind>>
    BY <1>4 DEF BodyComes
  <2>2. sent \in {"no", "on its way", "refused", "done"}
    BY <1>0 DEF MessageType
  <2> HIDE DEF sent
  <2> QED BY <1>1, <2>1, <2>2
<1> QED BY <1>2, <1>3, <1>4

\* An answer is written, unless what it answers was cancelled; and the flight is over, unless it
\* is that of a newer request.
LEMMA WrittenKeeps ==
  ASSUME SessionIInv, SessionAssumption, NEW m \in Messages, Written(m)
  PROVE  SessionIInv'
<1> DEFINE r == [messages[m] EXCEPT !.stage = "done"]
<1>0. messages[m] \in MessageType /\ CallOK(messages[m]) /\ m \in Nat /\ m # 0
  BY IsMessage DEF SessionIInv
<1>1. /\ messages' = [messages EXCEPT ![m] = r] /\ messages[m].stage = "ready"
      /\ inFlight' = IF messages[m].id # NoId /\ inFlight[messages[m].id] = m
                     THEN [inFlight EXCEPT ![messages[m].id] = 0] ELSE inFlight
      /\ answers' = IF messages[m].id # NoId /\ m \notin aborted THEN Append(answers, m) ELSE answers
      /\ UNCHANGED <<aborted, applied, version, cancelled, blind>>
  BY DEF Written, Forget
<1>2. r \in MessageType /\ CallOK(r) /\ Asks(r, messages[m]) /\ r.stage = "done"
  BY <1>0 DEF MessageType, CallOK, Asks
<1> HIDE DEF r
<1>3. /\ MessagesOK' /\ Messages' = Messages /\ messages'[m] = r
      /\ \A n \in Messages : Asks(messages'[n], messages[n])
      /\ \A n \in Messages \ {m} : messages'[n] = messages[n]
  BY <1>1, <1>2, GoesOn DEF SessionIInv
<1>4. \A n \in Messages : messages'[n].id = messages[n].id
  BY <1>3 DEF Asks
<1>5. AnswersOK'
  <2>0. AnswersOK
    BY DEF SessionIInv
  <2>1. \A i \in DOMAIN answers : answers[i] # m
    BY <1>1, <2>0 DEF AnswersOK
  <2>2. CASE messages[m].id # NoId /\ m \notin aborted
    <3>1. /\ answers' \in Seq(Nat) /\ DOMAIN answers' = DOMAIN answers \cup {Len(answers) + 1}
          /\ \A i \in DOMAIN answers : answers'[i] = answers[i]
          /\ Len(answers) + 1 \in DOMAIN answers' /\ answers'[Len(answers) + 1] = m
      BY <1>0, <1>1, <2>0, <2>2 DEF AnswersOK
    <3>2. \A i \in DOMAIN answers' : answers'[i] \in Messages' /\ messages'[answers'[i]].stage = "done"
      <4>1. \A i \in DOMAIN answers : answers[i] \in Messages \ {m} /\ messages[answers[i]].stage = "done"
        BY <2>0, <2>1 DEF AnswersOK
      <4>2. \A i \in DOMAIN answers : answers[i] \in Messages' /\ messages'[answers[i]].stage = "done"
        BY <1>3, <4>1
      <4> QED BY <1>2, <1>3, <3>1, <4>2
    <3>3. \A i, j \in DOMAIN answers' : answers'[i] = answers'[j] => i = j
      BY <2>0, <2>1, <3>1 DEF AnswersOK
    <3>4. ASSUME NEW n \in Messages, n # m, messages'[n].stage = "done", n \notin cancelled,
                 messages'[n].id # NoId
          PROVE  \E i \in DOMAIN answers' : answers'[i] = n
      <4>1. PICK i \in DOMAIN answers : answers[i] = n
        BY <1>3, <2>0, <3>4 DEF AnswersOK
      <4> QED BY <3>1, <4>1
    <3>5. \A n \in cancelled' : n \in Messages' /\ ~\E i \in DOMAIN answers' : answers'[i] = n
      BY <1>1, <1>3, <2>0, <2>2, <3>1 DEF AnswersOK
    <3>6. aborted' = cancelled'
      BY <1>1, <2>0 DEF AnswersOK
    <3>7. \A n \in Messages' :
            messages'[n].stage = "done" /\ n \notin cancelled' /\ messages'[n].id # NoId =>
              \E i \in DOMAIN answers' : answers'[i] = n
      BY <1>1, <1>3, <3>1, <3>4
    <3> QED BY <3>1, <3>2, <3>3, <3>5, <3>6, <3>7 DEF AnswersOK
  <2>3. CASE ~(messages[m].id # NoId /\ m \notin aborted)
    <3>1. answers' = answers
      BY <1>1, <2>3
    <3>2. \A i \in DOMAIN answers : answers[i] \in Messages' /\ messages'[answers[i]].stage = "done"
      BY <1>3, <2>0, <2>1 DEF AnswersOK
    <3>3. \A n \in Messages' :
            messages'[n].stage = "done" /\ n \notin cancelled' /\ messages'[n].id # NoId =>
              \E i \in DOMAIN answers : answers[i] = n
      BY <1>1, <1>3, <1>4, <2>0, <2>3 DEF AnswersOK
    <3> QED BY <1>1, <1>3, <2>0, <3>1, <3>2, <3>3 DEF AnswersOK
  <2> QED BY <2>2, <2>3
<1>6. FlightOK'
  <2>0. FlightOK
    BY DEF SessionIInv
  <2>1. inFlight' \in [Id -> Nat]
    BY <1>1, <2>0 DEF FlightOK
  <2>2. \A id \in Id : inFlight'[id] = IF inFlight[id] = m THEN 0 ELSE inFlight[id]
    <3>1. ASSUME NEW id \in Id, inFlight[id] = m
          PROVE  messages[m].id = id
      BY <1>0, <2>0, <3>1 DEF FlightOK, LastOf
    <3>2. messages[m].id # NoId => messages[m].id \in Id
      BY <1>0 DEF MessageType
    <3>3. \A id \in Id : id # NoId
      BY DEF SessionAssumption, NoId
    <3> QED BY <1>1, <2>0, <3>1, <3>2, <3>3 DEF FlightOK
  <2>3. ASSUME NEW id \in Id, inFlight'[id] # 0
        PROVE  LastOf(id, inFlight[id])' /\ messages'[inFlight'[id]].stage # "done"
    <3>1. inFlight'[id] = inFlight[id] /\ inFlight[id] # m
      BY <2>2, <2>3
    <3>2. LastOf(id, inFlight[id]) /\ messages[inFlight[id]].stage # "done"
      BY <2>0, <2>3, <3>1 DEF FlightOK
    <3>3. inFlight[id] \in Messages \ {m}
      BY <3>1, <3>2 DEF LastOf
    <3>4. messages'[inFlight[id]] = messages[inFlight[id]]
      BY <1>3, <3>3
    <3> QED BY <1>3, <1>4, <3>1, <3>2, <3>4 DEF LastOf
  <2>4. ASSUME NEW id \in Id, NEW n \in Messages, LastOf(id, n)', messages'[n].stage # "done"
        PROVE  inFlight'[id] = n
    <3>1. LastOf(id, n) /\ n # m
      BY <1>2, <1>3, <1>4, <2>4 DEF LastOf
    <3>2. inFlight[id] = n
      BY <1>3, <2>0, <2>4, <3>1 DEF FlightOK
    <3> QED BY <2>2, <3>1, <3>2
  <2>5. \A id \in Id : inFlight'[id] # 0 =>
          LastOf(id, inFlight[id])' /\ messages'[inFlight'[id]].stage # "done"
    BY <2>3
  <2>6. \A id \in Id : \A n \in Messages' :
          LastOf(id, n)' /\ messages'[n].stage # "done" => inFlight'[id] = n
    BY <1>3, <2>4
  <2> QED BY <2>1, <2>5, <2>6 DEF FlightOK
<1>7. KeysOK'
  BY <1>1, <1>3, KeysStand DEF SessionIInv
<1>8. AppliedOK'
  BY <1>1, <1>3, AppliedStands DEF SessionIInv, AppliedOK
<1> QED BY <1>3, <1>5, <1>6, <1>7, <1>8 DEF SessionIInv

\* The cloud applies no key again, and no decision on another version.
LEMMA ArrivesKeeps ==
  ASSUME SessionIInv, NEW m \in Messages, Arrives(m)
  PROVE  SessionIInv'
<1> DEFINE key == KeySent(m)
           known == key # NoKey /\ \E i \in DOMAIN applied : applied[i].key = key
           stale == IfMatch(m) # 0 /\ IfMatch(m) # version
           sent == IF stale /\ ~known THEN "refused" ELSE "done"
           r == [messages[m] EXCEPT !.sent = sent]
<1>0. messages[m] \in MessageType /\ CallOK(messages[m]) /\ m \in Nat /\ AppliedOK
  BY IsMessage DEF SessionIInv
<1>1. /\ messages' = [messages EXCEPT ![m] = r] /\ messages[m].sent = "on its way"
      /\ UNCHANGED <<inFlight, aborted, answers, cancelled, blind>>
  BY DEF Arrives
<1>2. \/ applied' = applied
      \/ /\ key # NoKey /\ ~known /\ ~stale
         /\ applied' = Append(applied, [operation |-> messages[m].operation, key |-> key,
                                        message |-> m, on |-> version])
  BY DEF Arrives
<1>3. version' \in Nat
  <2>1. version' \in {version, version + 1}
    BY DEF Arrives
  <2> QED BY <1>0, <2>1 DEF AppliedOK
<1>4. sent \in {"refused", "done"}
  OBVIOUS
<1>5. messages[m].what = "call" /\ messages[m].operation \in Operation
  BY <1>0, <1>1 DEF CallOK
<1>6. r \in MessageType /\ CallOK(r) /\ Asks(r, messages[m]) /\ r.stage = messages[m].stage
  <2> HIDE DEF sent
  <2> QED BY <1>0, <1>4, <1>5 DEF MessageType, CallOK, Asks
<1> HIDE DEF sent, r
<1>7. /\ MessagesOK' /\ Messages' = Messages /\ messages'[m] = r
      /\ \A n \in Messages : Asks(messages'[n], messages[n])
      /\ \A n \in Messages \ {m} : messages'[n] = messages[n]
  BY <1>1, <1>6, GoesOn DEF SessionIInv
<1>8. AnswersOK' /\ FlightOK'
  BY <1>1, <1>6, <1>7, AnswersStand DEF SessionIInv
<1>9. KeysOK'
  BY <1>1, <1>7, KeysStand DEF SessionIInv
<1>10. CASE applied' = applied
  <2>1. AppliedOK'
    BY <1>0, <1>3, <1>7, <1>10, AppliedStands
  <2> QED BY <1>7, <1>8, <1>9, <2>1 DEF SessionIInv
<1>11. ASSUME NEW k, k = key, k # NoKey, ~\E i \in DOMAIN applied : applied[i].key = k, ~stale,
              applied' = Append(applied, [operation |-> messages[m].operation, key |-> k,
                                          message |-> m, on |-> version])
       PROVE  SessionIInv'
  <2>1. k \in KeyType
    BY <1>11, KeyIsNoBlank DEF SessionIInv
  <2>2. PICK new \in AppliedType :
          /\ new = [operation |-> messages[m].operation, key |-> k, message |-> m, on |-> version]
    BY <1>0, <1>5, <2>1 DEF AppliedOK, AppliedType
  <2>3. /\ applied' \in Seq(AppliedType)
        /\ DOMAIN applied' = DOMAIN applied \cup {Len(applied) + 1}
        /\ applied'[Len(applied) + 1] = new
        /\ \A i \in DOMAIN applied : applied'[i] = applied[i]
    BY <1>0, <1>11, <2>2 DEF AppliedOK
  <2>4. \A n \in Messages : KeySent(n)' = KeySent(n)
    BY <1>7, SentWithIts
  <2>5. ToolNamed(messages[m].tool).versioned => messages[m].version = version
    <3>1. messages[m].version # 0
      <4>1. messages[m].version \in Nat /\ messages[m].version > 0
        BY <1>0, <1>5 DEF CallOK, MessageType
      <4> QED BY <4>1
    <3> QED BY <1>11, <3>1 DEF IfMatch
  <2>6. /\ new.message = m /\ new.operation = messages[m].operation /\ new.key = KeySent(m)
        /\ new.on = version
    BY <1>11, <2>2
  <2>7. \A i \in DOMAIN applied' :
          /\ applied'[i].message \in Messages' /\ messages'[applied'[i].message].what = "call"
          /\ applied'[i].operation = messages'[applied'[i].message].operation
          /\ applied'[i].key = KeySent(applied[i].message)'
          /\ ToolNamed(messages'[applied'[i].message].tool).versioned =>
               messages'[applied'[i].message].version = applied'[i].on
    <3>1. ASSUME NEW i \in DOMAIN applied', NEW n \in Messages, n = applied'[i].message,
                 messages[n].what = "call", applied'[i].operation = messages[n].operation,
                 applied'[i].key = KeySent(n),
                 ToolNamed(messages[n].tool).versioned => messages[n].version = applied'[i].on
          PROVE  /\ n \in Messages' /\ messages'[n].what = "call"
                 /\ applied'[i].operation = messages'[n].operation
                 /\ applied'[i].key = KeySent(n)'
                 /\ ToolNamed(messages'[n].tool).versioned => messages'[n].version = applied'[i].on
      BY <1>7, <2>4, <3>1 DEF Asks
    <3>2. ASSUME NEW i \in DOMAIN applied', NEW n, n = applied'[i].message
          PROVE  /\ n \in Messages
                 /\ messages[n].what = "call" /\ applied'[i].operation = messages[n].operation
                 /\ applied'[i].key = KeySent(n)
                 /\ ToolNamed(messages[n].tool).versioned => messages[n].version = applied'[i].on
      <4>1. CASE i \in DOMAIN applied
        BY <1>0, <2>3, <3>2, <4>1 DEF AppliedOK
      <4>2. CASE i = Len(applied) + 1
        BY <1>5, <2>3, <2>5, <2>6, <3>2, <4>2
      <4> QED BY <2>3, <4>1, <4>2
    <3> QED BY <3>1, <3>2 DEF KeySent, NewKey
  <2>8. \A i, j \in DOMAIN applied' : applied'[i].key = applied'[j].key => i = j
    BY <1>0, <1>11, <2>2, <2>3 DEF AppliedOK
  <2>9. AppliedOK'
    BY <1>3, <2>3, <2>7, <2>8 DEF AppliedOK
  <2> QED BY <1>7, <1>8, <1>9, <2>9 DEF SessionIInv
<1> HIDE DEF key, stale
<1>12. ~known => key = NoKey \/ ~\E i \in DOMAIN applied : applied[i].key = key
  OBVIOUS
<1> QED BY <1>2, <1>10, <1>11, <1>12

\* A report that moves, and an agent that closes.
LEMMA AsideKeeps ==
  ASSUME SessionIInv, ReportMoves \/ AgentCloses \/ Returns
  PROVE  SessionIInv'
<1>1. /\ UNCHANGED <<messages, inFlight, aborted, answers, applied, cancelled, blind>>
      /\ version' \in Nat
  BY DEF ReportMoves, AgentCloses, Returns, SessionIInv, AppliedOK
<1>2. Messages' = Messages /\ \A n \in Messages : Asks(messages'[n], messages[n])
  BY <1>1 DEF Messages, Asks
<1>3. MessagesOK'
  BY <1>1, <1>2 DEF SessionIInv, MessagesOK
<1>4. AnswersOK' /\ FlightOK'
  BY <1>1, <1>2, AnswersStand DEF SessionIInv
<1>5. KeysOK'
  BY <1>1, <1>2, KeysStand DEF SessionIInv
<1>6. AppliedOK'
  BY <1>1, <1>2, AppliedStands DEF SessionIInv
<1> QED BY <1>3, <1>4, <1>5, <1>6 DEF SessionIInv

\* A session that has returned stays so.
LEMMA ServedKeeps ==
  ASSUME SessionIInv, ServedOK, [SessionNext]_sessionVars
  PROVE  ServedOK'
<1> SUFFICES ASSUME open' = "served" PROVE NoneAnswering'
  BY DEF ServedOK
<1>1. CASE Returns
  BY <1>1 DEF Returns, NoneAnswering, Messages
<1>2. CASE UNCHANGED sessionVars
  BY <1>2 DEF ServedOK, NoneAnswering, Messages, sessionVars
<1>3. CASE ReportMoves
  BY <1>3 DEF ReportMoves, ServedOK, NoneAnswering, Messages
<1>4. CASE open = "served" /\ \E m \in Messages : CallFails(m) \/ StatusComes(m) \/ BodyComes(m) \/ Written(m)
  BY <1>4 DEF CallFails, StatusComes, BodyComes, Written, ServedOK, NoneAnswering
<1>5. CASE \E m \in Messages : Arrives(m)
  <2>1. PICK m \in Messages : Arrives(m)
    BY <1>5
  <2>2. PICK sent : messages' = [messages EXCEPT ![m].sent = sent]
    BY <2>1 DEF Arrives
  <2>3. Messages' = Messages /\ \A n \in Messages : messages'[n].stage = messages[n].stage
    <3>1. messages \in Seq(MessageType)
      BY DEF SessionIInv, MessagesOK
    <3>2. PICK new : new = [messages[m] EXCEPT !.sent = sent]
      OBVIOUS
    <3>3. new.stage = messages[m].stage
      <4>1. messages[m] \in MessageType
        BY <2>1, <3>1 DEF Messages
      <4>2. PICK old \in MessageType : old = messages[m]
        BY <4>1
      <4>3. new = [old EXCEPT !.sent = sent]
        BY <3>2, <4>2
      <4>4. new.stage = old.stage
        BY <4>3 DEF MessageType
      <4> QED BY <4>2, <4>4
    <3>4. messages' = [messages EXCEPT ![m] = new]
      BY <2>2, <3>2
    <3>5. Len(messages') = Len(messages)
      BY <3>1, <3>4 DEF Messages
    <3> QED BY <3>1, <3>3, <3>4, <3>5 DEF Messages
  <2>4. open = "served"
    BY <2>1 DEF Arrives
  <2> QED BY <2>3, <2>4 DEF ServedOK, NoneAnswering
<1>6. ASSUME open = "reading" \/ open = "ended", open' = open PROVE FALSE
  BY <1>6
<1>7. CASE AgentCloses
  BY <1>7 DEF AgentCloses
<1>8. ASSUME NEW id, NEW o, NEW tool, NEW key, NEW v, NEW given, ReadCall(id, o, tool, key, v, given)
      PROVE  FALSE
  BY <1>6, <1>8 DEF ReadCall, Reads
<1>9. ASSUME NEW id, ReadOther(id) \/ ReadCancelled(id) \/ \E asked \in 0 .. 3 : ReadInitialize(id, asked)
      PROVE  FALSE
  BY <1>6, <1>9 DEF ReadOther, ReadCancelled, ReadInitialize, Reads
<1>10. ASSUME ReadJunk PROVE FALSE
  BY <1>6, <1>10 DEF ReadJunk
<1>11. ASSUME NEW m \in Messages, CallFails(m) \/ StatusComes(m) \/ BodyComes(m) \/ Written(m)
       PROVE  open = "served"
  BY <1>11 DEF CallFails, StatusComes, BodyComes, Written
<1> QED
  BY <1>1, <1>2, <1>3, <1>4, <1>5, <1>7, <1>8, <1>9, <1>10, <1>11 DEF SessionNext, AgentCalls

\* A request is answered once, unless it was cancelled while it was being answered, and then
\* never; none is left unanswered when the session has returned; and an operation is applied once,
\* on the version it was decided on, unless it was asked for again with no key, the agent having
\* passed none and been told none (rpc.ts 97-165, server.ts 117-171).
THEOREM AsksAreAnsweredOnce == SessionSpec => []EachAskOnce
<1>1. SessionInit => SessionIInv
  BY SessionStarts
<1>2. SessionIInv /\ [SessionNext]_sessionVars => SessionIInv'
  <2> SUFFICES ASSUME SessionIInv, [SessionNext]_sessionVars PROVE SessionIInv'
    OBVIOUS
  <2>1. CASE UNCHANGED sessionVars
    <3>1. /\ UNCHANGED <<messages, inFlight, aborted, answers, applied, cancelled, blind, version>>
      BY <2>1 DEF sessionVars
    <3>2. Messages' = Messages /\ \A n \in Messages : Asks(messages'[n], messages[n])
      BY <3>1 DEF Messages, Asks
    <3>3. MessagesOK'
      BY <3>1, <3>2 DEF SessionIInv, MessagesOK
    <3>4. AnswersOK' /\ FlightOK'
      BY <3>1, <3>2, AnswersStand DEF SessionIInv
    <3>5. KeysOK'
      BY <3>1, <3>2, KeysStand DEF SessionIInv
    <3>6. AppliedOK'
      BY <3>1, <3>2, AppliedStands DEF SessionIInv, AppliedOK
    <3> QED BY <3>3, <3>4, <3>5, <3>6 DEF SessionIInv
  <2>2. CASE SessionNext
    BY <2>2, SessionAssumption, ReadOtherKeeps, ReadJunkKeeps, ReadCancelledKeeps, AgentCallsKeeps,
       HearsKeeps, WrittenKeeps, ArrivesKeeps, AsideKeeps DEF SessionNext
  <2> QED BY <2>1, <2>2
<1>3. SessionIInv /\ ServedOK => EachAskOnce
  <2> SUFFICES ASSUME SessionIInv, ServedOK PROVE EachAskOnce
    OBVIOUS
  <2> DEFINE at(m) == {i \in DOMAIN answers : answers[i] = m}
  <2>1. \A m \in Messages : at(m) = {} \/ \E i : at(m) = {i}
    <3> TAKE m \in Messages
    <3>1. CASE \E i \in DOMAIN answers : answers[i] = m
      <4>1. PICK i \in DOMAIN answers : answers[i] = m
        BY <3>1
      <4>2. \A j \in DOMAIN answers : answers[j] = m => j = i
        BY <4>1 DEF SessionIInv, AnswersOK
      <4>3. at(m) = {i}
        BY <4>1, <4>2
      <4> QED BY <4>3
    <3> QED BY <3>1
  <2>2. \A m \in Messages : Cardinality(at(m)) = IF at(m) = {} THEN 0 ELSE 1
    <3> HIDE DEF at
    <3> QED BY <2>1, FS_EmptySet, FS_Singleton
  <2>3. ASSUME NEW m \in Messages
        PROVE  /\ Cardinality(at(m)) <= 1
               /\ m \in cancelled => Cardinality(at(m)) = 0
               /\ messages[m].stage = "done" \/ open = "served" =>
                    Cardinality(at(m)) = 1 \/ m \in cancelled \/ messages[m].id = NoId
    <3>1. m \in cancelled => at(m) = {}
      BY DEF SessionIInv, AnswersOK
    <3>2. messages[m].stage = "done" /\ m \notin cancelled /\ messages[m].id # NoId => at(m) # {}
      BY DEF SessionIInv, AnswersOK
    <3>3. open = "served" => messages[m].stage = "done"
      BY DEF ServedOK, NoneAnswering
    <3> HIDE DEF at
    <3> QED BY <2>2, <3>1, <3>2, <3>3
  <2>4. ASSUME NEW i \in DOMAIN applied, NEW j \in DOMAIN applied,
               applied[i].operation = applied[j].operation, i # j
        PROVE  applied[i].operation \in blind
    <3>1. PICK o \in Operation : o = applied[i].operation
      <4>1. applied[i] \in AppliedType
        <5>1. applied \in Seq(AppliedType)
          BY DEF SessionIInv, AppliedOK
        <5> QED BY <5>1
      <4> QED BY <4>1 DEF AppliedType
    <3>2. applied[i].message \in Calls(o) /\ applied[j].message \in Calls(o)
      BY <2>4, <3>1 DEF SessionIInv, AppliedOK, Calls
    <3>3. /\ applied[i].key = KeySent(applied[i].message)
          /\ applied[j].key = KeySent(applied[j].message)
          /\ applied[i].key # applied[j].key
      BY <2>4 DEF SessionIInv, AppliedOK
    <3> QED BY <3>1, <3>2, <3>3 DEF SessionIInv, KeysOK
  <2>5. ASSUME NEW i \in DOMAIN applied, ToolNamed(ToolOf[applied[i].operation]).versioned
        PROVE  messages[applied[i].message].version = applied[i].on
    <3>1. PICK m \in Messages : m = applied[i].message
      BY DEF SessionIInv, AppliedOK
    <3>2. messages[m].what = "call" /\ applied[i].operation = messages[m].operation
      BY <3>1 DEF SessionIInv, AppliedOK
    <3>3. messages[m].tool = ToolOf[applied[i].operation]
      BY <3>2, IsMessage DEF SessionIInv, CallOK
    <3> QED BY <2>5, <3>1, <3>3 DEF SessionIInv, AppliedOK
  <2> HIDE DEF at
  <2>6. EachAskOnce <=> /\ \A m \in Messages :
                             /\ Cardinality(at(m)) <= 1
                             /\ m \in cancelled => Cardinality(at(m)) = 0
                             /\ messages[m].stage = "done" \/ open = "served" =>
                                  Cardinality(at(m)) = 1 \/ m \in cancelled \/ messages[m].id = NoId
                        /\ \A i, j \in DOMAIN applied :
                             /\ applied[i].operation = applied[j].operation /\ i # j =>
                                  applied[i].operation \in blind
                             /\ ToolNamed(ToolOf[applied[i].operation]).versioned =>
                                  messages[applied[i].message].version = applied[i].on
    BY DEF EachAskOnce, at
  <2> QED BY <2>3, <2>4, <2>5, <2>6
<1>4. SessionInit => ServedOK
  BY DEF SessionInit, ServedOK
<1> QED BY <1>1, <1>2, <1>3, <1>4, ServedKeeps, PTL DEF SessionSpec

-----------------------------------------------------------------------------
(***************************************************************************)
(* The start of a process                                                  *)
(***************************************************************************)

\* What is known of a connection: it is whole, to a URL that carries no credentials, or it is
\* none.
LEMMA HalfIs ==
  ASSUME NEW side
  PROVE  LET h == HalfOf(side)
         IN h.ok \in BOOLEAN /\ (~h.ok => h.token = Unset /\ h.url = Unset)
<1>1. ASSUME NEW dsn
      PROVE  LET h == SplitDsn(dsn)
             IN h.ok \in BOOLEAN /\ (~h.ok => h.token = Unset /\ h.url = Unset)
  BY DEF SplitDsn, NotConnected, Half
<1> QED BY <1>1 DEF HalfOf, Half

\* A connection is whole, and its URL carries no credentials, or there is none.
LEMMA ConnectionIs ==
  ASSUME NEW given, NEW env0
  PROVE  LET c == ConnectionOf(given, env0)
         IN \/ ~c.ok /\ c.token = Unset /\ c.url = Unset
            \/ c.ok /\ c.token # Unset /\ c.url # Unset /\ ~CarriesCredentials(c.url)
<1> DEFINE code == HalfOf(given)
           read == IF code.token = Unset \/ code.url = Unset THEN HalfOf(env0) ELSE Half(Unset, Unset)
           token == First(code.token, read.token)
           url   == First(code.url, read.url)
           c == ConnectionOf(given, env0)
<1>1. code.ok \in BOOLEAN /\ (~code.ok => code.token = Unset /\ code.url = Unset)
  BY HalfIs
<1>2. read.ok \in BOOLEAN /\ (~read.ok => read.token = Unset /\ read.url = Unset)
  <2>1. /\ HalfOf(env0).ok \in BOOLEAN
        /\ ~HalfOf(env0).ok => HalfOf(env0).token = Unset /\ HalfOf(env0).url = Unset
    BY HalfIs
  <2>2. Half(Unset, Unset).ok = TRUE
    BY DEF Half
  <2> QED BY <2>1, <2>2
<1>3. c = CASE ~code.ok -> code
            [] code.ok /\ ~read.ok -> read
            [] code.ok /\ read.ok /\ (token = Unset \/ url = Unset) -> NotConnected("not set")
            [] code.ok /\ read.ok /\ token # Unset /\ url # Unset ->
                 IF url \notin DOMAIN Parsed \/ ~Parsed[url].http THEN NotConnected("no http")
                 ELSE IF CarriesCredentials(url) THEN NotConnected("credentials") ELSE Half(token, url)
  BY DEF ConnectionOf
<1> HIDE DEF code, read, token, url, c
<1>4. \/ ~c.ok /\ c.token = Unset /\ c.url = Unset
      \/ c.ok /\ c.token # Unset /\ c.url # Unset /\ ~CarriesCredentials(c.url)
  <2>1. CASE ~code.ok
    BY <1>1, <1>3, <2>1
  <2>2. CASE code.ok /\ ~read.ok
    BY <1>2, <1>3, <2>2
  <2>3. CASE code.ok /\ read.ok /\ (token = Unset \/ url = Unset)
    BY <1>3, <2>3 DEF NotConnected
  <2>4. CASE code.ok /\ read.ok /\ token # Unset /\ url # Unset
    <3>1. c = IF url \notin DOMAIN Parsed \/ ~Parsed[url].http THEN NotConnected("no http")
              ELSE IF CarriesCredentials(url) THEN NotConnected("credentials") ELSE Half(token, url)
      BY <1>3, <2>4
    <3> QED BY <2>4, <3>1 DEF NotConnected, Half
  <2> QED BY <1>1, <1>2, <2>1, <2>2, <2>3, <2>4
<1> QED BY <1>4 DEF c

\* Two windows of a profile and their flushes fit in what the report reads as recent, when two
\* flushes leave the room; with a longer interval, a window is no longer than it.
LEMMA ProfileFits ==
  ASSUME ConfigurationAssumption, NEW asked \in Int, NEW interval \in Nat
  PROVE  LET p == ProfileMs(asked, interval)
         IN IF 4 * interval <= RecentMs THEN 2 * (p + interval) <= RecentMs ELSE p <= interval
<1>1. /\ ProfileWindowMs \in Nat /\ RecentMs \in Nat /\ 4 * ProfileWindowMs <= RecentMs
      /\ RecentMs \div 2 \in Int /\ 2 * (RecentMs \div 2) <= RecentMs
      /\ RecentMs <= 2 * (RecentMs \div 2) + 1
  BY DEF ConfigurationAssumption
<1>2. CASE asked <= 0
  BY <1>1, <1>2 DEF ProfileMs
<1>3. CASE ~(asked <= 0)
  <2> DEFINE half == RecentMs \div 2 - interval
             ceiling == IF interval > half THEN interval ELSE half
             floored == IF asked > interval THEN asked ELSE interval
  <2>1. ProfileMs(asked, interval) = IF floored > ceiling THEN ceiling ELSE floored
    BY <1>3 DEF ProfileMs, ProfileCeilingMs
  <2>2. half \in Int /\ 2 * (half + interval) <= RecentMs
    BY <1>1
  <2>3. 4 * interval <= RecentMs => interval <= half
    BY <1>1
  <2>4. ~(4 * interval <= RecentMs) => half <= interval
    BY <1>1
  <2>5. /\ ceiling \in Int
        /\ 4 * interval <= RecentMs => ceiling = half
        /\ ~(4 * interval <= RecentMs) => ceiling = interval
    BY <2>2, <2>3, <2>4
  <2>6. floored \in Int
    OBVIOUS
  <2> HIDE DEF half, ceiling, floored
  <2> QED BY <1>1, <2>1, <2>2, <2>5, <2>6
<1> QED BY <1>2, <1>3

\* The interval is one.
LEMMA IntervalIs ==
  ASSUME ConfigurationAssumption, NEW asked \in Int
  PROVE  IntervalMs(asked) \in Nat
BY DEF IntervalMs, ConfigurationAssumption

\* What a start is given: an inspection where it reaches no cloud, a URL without credentials where
\* it does, and a profile that is short enough.
GoodConfig(c) ==
  /\ LocalConfig(c) => c.inspect # Unset
  /\ ~LocalConfig(c) => ~CarriesCredentials(c.url)
  /\ IF 4 * c.intervalMs <= RecentMs THEN 2 * (c.profileMs + c.intervalMs) <= RecentMs
     ELSE c.profileMs <= c.intervalMs

\* A configuration that is accepted is one a start may be given.
LEMMA ConfigIsGood ==
  ASSUME ConfigurationAssumption, NEW given, NEW env0,
         \A s \in Numbers : given[s] \in Int /\ env0.settings[s] \in Int,
         ConfigFrom(given, env0).ok
  PROVE  GoodConfig(ConfigFrom(given, env0))
<1> DEFINE connection == ConnectionOf(given, env0.settings)
           inspect == First(given["inspect"], env0.settings["inspect"])
           number(s) == IF given[s] # NoNumber THEN given[s] ELSE env0.settings[s]
           interval == IntervalMs(number("intervalMs"))
           profile == ProfileMs(number("profileMs"), interval)
           c == ConfigFrom(given, env0)
<1>1. "intervalMs" \in Numbers /\ "profileMs" \in Numbers /\ "inspect" \notin Numbers
  BY DEF Numbers
<1>2. \/ ~connection.ok /\ connection.token = Unset /\ connection.url = Unset
      \/ /\ connection.ok /\ connection.token # Unset /\ connection.url # Unset
         /\ ~CarriesCredentials(connection.url)
  BY ConnectionIs
<1>3. /\ interval \in Nat
      /\ IF 4 * interval <= RecentMs THEN 2 * (profile + interval) <= RecentMs ELSE profile <= interval
  <2>1. number("intervalMs") \in Int /\ number("profileMs") \in Int
    BY <1>1
  <2> HIDE DEF number
  <2> QED BY <2>1, IntervalIs, ProfileFits
<1>4. connection.ok \/ Says(inspect)
  <2>1. CASE ~connection.ok /\ ~(Says(inspect) /\ NothingToConnect(given, env0.settings))
    <3>1. c = connection
      BY <1>1, <2>1 DEF ConfigFrom
    <3> QED BY <1>2, <2>1, <3>1
  <2> QED BY <2>1
<1>5. /\ c.token = connection.token /\ c.url = connection.url /\ c.intervalMs = interval
      /\ c.profileMs = profile /\ c.inspect = IF Says(inspect) THEN inspect ELSE Unset
  <2>1. ~(~connection.ok /\ ~(Says(inspect) /\ NothingToConnect(given, env0.settings)))
    <3>1. CASE ~connection.ok /\ ~(Says(inspect) /\ NothingToConnect(given, env0.settings))
      <4>1. c = connection
        BY <1>1, <3>1 DEF ConfigFrom
      <4> QED BY <1>2, <3>1, <4>1
    <3> QED BY <3>1
  <2> QED BY <1>1, <2>1 DEF ConfigFrom
<1> HIDE DEF connection, inspect, interval, profile, c
<1>6. GoodConfig(c)
  <2>1. LocalConfig(c) => ~connection.ok
    BY <1>2, <1>5 DEF LocalConfig
  <2>2. ~LocalConfig(c) => connection.ok
    BY <1>2, <1>5 DEF LocalConfig
  <2> QED BY <1>2, <1>3, <1>4, <1>5, <2>1, <2>2 DEF GoodConfig, Says
<1> QED BY <1>6 DEF c

\* A process of check is given nothing to connect with.
LEMMA CheckedIsLocal ==
  ASSUME NEW parent, IsEnvironment(parent)
  PROVE  LocalConfig(ConfigFromEnv(RunEnv(parent)))
<1> DEFINE e == RunEnv(parent)
<1>1. \A s \in Connecting : e.settings[s] = Unset /\ Nothing[s] = Unset
  BY DEF IsEnvironment, RunEnv, Nothing, Connecting, Texts, Numbers
<1>2. ~Says(Unset) /\ First(Unset, Unset) = Unset
  BY DEF Says, First
<1>3. "dsn" \in Connecting /\ "token" \in Connecting /\ "url" \in Connecting
  BY DEF Connecting
<1>4. HalfOf(Nothing) = Half(Unset, Unset) /\ HalfOf(e.settings) = Half(Unset, Unset)
  BY <1>1, <1>2, <1>3 DEF HalfOf
<1>5. ConnectionOf(Nothing, e.settings) = NotConnected("not set")
  BY <1>2, <1>4 DEF ConnectionOf, Half
<1> DEFINE connection == ConnectionOf(Nothing, e.settings)
<1> DEFINE c == ConfigFrom(Nothing, e)
<1>6. connection.token = Unset
  <2>1. NotConnected("not set").token = Unset
    BY DEF NotConnected
  <2> QED BY <1>5, <2>1
<1> HIDE DEF e
<1>7. c = connection \/ c.token = connection.token
  <2>1. CASE ~connection.ok /\ ~(Says(First(Nothing["inspect"], e.settings["inspect"]))
                                   /\ NothingToConnect(Nothing, e.settings))
    BY <2>1 DEF ConfigFrom, Numbers
  <2>2. CASE ~(~connection.ok /\ ~(Says(First(Nothing["inspect"], e.settings["inspect"]))
                                     /\ NothingToConnect(Nothing, e.settings)))
    BY <2>2 DEF ConfigFrom, Numbers
  <2> QED BY <2>1, <2>2
<1> USE DEF e
<1> QED BY <1>6, <1>7 DEF ConfigFromEnv, LocalConfig

\* The environment of a run is one.
LEMMA RunEnvIs ==
  ASSUME ConfigurationAssumption, NEW parent, IsEnvironment(parent)
  PROVE  IsEnvironment(RunEnv(parent))
<1> DEFINE settings == [Nothing EXCEPT !["inspect"] = "the run's file", !["env"] = "check",
                          !["version"] = "base", !["intervalMs"] = MinIntervalMs,
                          !["profileMs"] = MinIntervalMs]
<1>1. /\ Numbers \subseteq DOMAIN settings
      /\ \A s \in Numbers : settings[s] \in Int
  <2>1. DOMAIN Nothing = Texts \cup Numbers
    BY DEF Nothing
  <2>2. {"intervalMs", "profileMs"} = Numbers
    BY DEF Numbers
  <2>3. DOMAIN settings = Texts \cup Numbers
    BY <2>1
  <2>4. settings["intervalMs"] = MinIntervalMs /\ settings["profileMs"] = MinIntervalMs
    BY <2>1, <2>2
  <2>5. MinIntervalMs \in Int
    BY DEF ConfigurationAssumption
  <2> HIDE DEF settings
  <2> QED BY <2>2, <2>3, <2>4, <2>5
<1>2. RunEnv(parent) = [parent EXCEPT !.checkProject = "the project", !.settings = settings]
  BY DEF RunEnv
<1> HIDE DEF settings
<1> QED BY <1>1, <1>2 DEF IsEnvironment

\* What a register starts with is good, and so is what the code does.
LEMMA EnvIsGood ==
  ASSUME ConfigurationAssumption, NEW e, IsEnvironment(e), ConfigFromEnv(e).ok
  PROVE  GoodConfig(ConfigFromEnv(e))
<1>1. \A s \in Numbers : Nothing[s] \in Int
  BY DEF Nothing, Numbers, NoNumber, Texts, Connecting
<1>2. ConfigFrom(Nothing, e).ok /\ ConfigFromEnv(e) = ConfigFrom(Nothing, e)
  BY DEF ConfigFromEnv
<1> QED BY <1>1, <1>2, ConfigIsGood DEF IsEnvironment

\* So is one from code.
LEMMA CodeIsGood ==
  ASSUME ConfigurationAssumption, ActivationAssumption, NEW o \in InitOptions,
         NEW e, IsEnvironment(e), ConfigFromCode(o, e).ok
  PROVE  GoodConfig(ConfigFromCode(o, e))
<1> DEFINE wrong(s) == s \in o.wrong \/ (s \in Texts /\ o.texts[s] = Blank)
           given == [s \in Texts \cup Numbers |-> IF wrong(s) THEN Nothing[s] ELSE o.texts[s]]
<1>1. \A s \in Numbers : Nothing[s] \in Int
  BY DEF Nothing, Numbers, NoNumber, Texts, Connecting
<1>2. \A s \in Numbers : given[s] \in Int
  BY <1>1 DEF ActivationAssumption
<1>3. ConfigFromCode(o, e) = IF ~o.object \/ o.wrong \cap Connecting # {}
                                   THEN NotConnected("not of its kind") ELSE ConfigFrom(given, e)
  BY DEF ConfigFromCode
<1> HIDE DEF given
<1>4. ~NotConnected("not of its kind").ok
  BY DEF NotConnected
<1>5. ConfigFromCode(o, e) = ConfigFrom(given, e)
  BY <1>3, <1>4
<1> QED BY <1>2, <1>5, ConfigIsGood DEF IsEnvironment

-----------------------------------------------------------------------------
\* The environment is one, and stays check's own until the application runs.
EnvironmentOK ==
  /\ IsEnvironment(env)
  /\ checked /\ preload # <<>> => \E parent \in Environments : env = RunEnv(parent)

\* What is known of the agents, whatever the process: those that failed are not remembered.
AgentType(a) ==
  /\ a \in [config : {a.config}, by : {a.by}, copy : {a.copy},
            state : {"running", "draining", "stopped", "failed"}]
  /\ GoodConfig(a.config)
  /\ checked /\ a.by = "register" => LocalConfig(a.config)

\* All agents are known so, and the remembered one is one of them.
AgentsOK ==
  /\ \E S : agents \in Seq(S)
  /\ \A i \in DOMAIN agents : AgentType(agents[i])
  /\ slot \in 0 .. Len(agents)
  /\ slot # 0 => agents[slot].state # "failed"

\* A register that started after an agent has made it forgotten.
Forgotten(i) == \E j \in DOMAIN agents : j > i /\ agents[j].by = "register" /\ agents[j].state # "failed"

\* What runs is remembered, or a register that started later made it forgotten.
RememberedOK == \A i \in DOMAIN agents : agents[i].state = "running" => i = slot \/ Forgotten(i)

\* A first start that did not fail is remembered until a shutdown.
FirstOK ==
  shutdowns = <<>> /\ agents # <<>> /\ agents[1].state # "failed" =>
    /\ slot # 0
    /\ agents[1].by = "register" => \A i \in DOMAIN agents : agents[i].by = "register"

\* What a shutdown waits for is being stopped, or was.
DrainedOK(i) == i \in DOMAIN agents /\ agents[i].state \in {"draining", "stopped"}

\* What a shutdown is remembered by.
ShutdownType == [found : Nat, under : Nat, of : Nat, settled : BOOLEAN]

\* What a shutdown should wait for: the drain it found under way, or what it found remembered.
Awaited(s) == IF s.under # 0 THEN s.under ELSE s.found

\* A shutdown waits for what it should, which settles it as it ends; or that had ended.
ShutdownOK(s) ==
  \/ s.of # 0 /\ s.of = Awaited(s) /\ DrainedOK(s.of) /\ (s.settled => agents[s.of].state = "stopped")
  \/ s.of = 0 /\ s.under = 0
       /\ (s.found # 0 => s.found \in DOMAIN agents /\ agents[s.found].state = "stopped")

\* What shutdowns wait for.
ShutdownsOK ==
  /\ shutdowns \in Seq(ShutdownType)
  /\ draining \in Nat /\ (draining # 0 => DrainedOK(draining))
  /\ \A w \in DOMAIN shutdowns : ShutdownOK(shutdowns[w])

\* What every step of a process keeps.
ActivationIInv == EnvironmentOK /\ AgentsOK /\ RememberedOK /\ FirstOK /\ ShutdownsOK

\* It holds when the process starts.
LEMMA ActivationStarts ==
  ASSUME ActivationAssumption, ConfigurationAssumption, ActivationInit
  PROVE  ActivationIInv
<1>1. PICK parent \in Environments : env = IF checked THEN RunEnv(parent) ELSE parent
  BY DEF ActivationInit
<1>2. IsEnvironment(parent)
  BY DEF ActivationAssumption
<1>3. IsEnvironment(RunEnv(parent))
  BY <1>2, RunEnvIs
<1>4. EnvironmentOK
  BY <1>1, <1>2, <1>3 DEF EnvironmentOK
<1>5. agents = <<>> /\ slot = 0 /\ draining = 0 /\ shutdowns = <<>>
  BY DEF ActivationInit
<1>6. AgentsOK
  <2>1. agents \in Seq({})
    BY <1>5
  <2> QED BY <1>5, <2>1 DEF AgentsOK
<1>7. RememberedOK /\ FirstOK
  BY <1>5 DEF RememberedOK, FirstOK
<1>8. ShutdownsOK
  BY <1>5 DEF ShutdownsOK
<1> QED BY <1>4, <1>6, <1>7, <1>8 DEF ActivationIInv

\* It stands while no start and no shutdown happens.
LEMMA StartsStand ==
  ASSUME ActivationIInv, UNCHANGED <<checked, agents, slot, draining, shutdowns>>
  PROVE  AgentsOK' /\ RememberedOK' /\ FirstOK' /\ ShutdownsOK'
<1>1. AgentsOK'
  BY DEF ActivationIInv, AgentsOK, AgentType
<1>2. RememberedOK' /\ FirstOK'
  BY DEF ActivationIInv, RememberedOK, Forgotten, FirstOK
<1>3. ShutdownsOK'
  BY DEF ActivationIInv, ShutdownsOK, ShutdownOK, Awaited, DrainedOK
<1> QED BY <1>1, <1>2, <1>3

\* Agents are added, or begin to drain, and change no more.
Grow ==
  \A j \in DOMAIN agents :
    /\ j \in DOMAIN agents'
    /\ \/ agents'[j] = agents[j]
       \/ agents[j].state \in {"running", "draining"} /\ agents'[j].state = "draining"

\* What is known of a shutdown stands then.
LEMMA ShutdownStands ==
  ASSUME NEW s, ShutdownOK(s), Grow
  PROVE  ShutdownOK(s)'
<1>1. DrainedOK(s.of) => DrainedOK(s.of)'
  BY DEF DrainedOK, Grow
<1>2. \A j \in DOMAIN agents : agents[j].state = "stopped" => j \in DOMAIN agents' /\ agents'[j].state = "stopped"
  BY DEF Grow
<1>3. CASE /\ s.of # 0 /\ s.of = Awaited(s) /\ DrainedOK(s.of)
           /\ s.settled => agents[s.of].state = "stopped"
  <2>1. DrainedOK(s.of)' /\ (s.settled => agents'[s.of].state = "stopped")
    BY <1>1, <1>2, <1>3 DEF DrainedOK
  <2> QED BY <1>3, <2>1 DEF ShutdownOK, Awaited
<1>4. CASE /\ s.of = 0 /\ s.under = 0
           /\ s.found # 0 => s.found \in DOMAIN agents /\ agents[s.found].state = "stopped"
  <2>1. s.found # 0 => s.found \in DOMAIN agents' /\ agents'[s.found].state = "stopped"
    BY <1>2, <1>4
  <2> QED BY <1>4, <2>1 DEF ShutdownOK
<1> QED BY <1>3, <1>4 DEF ShutdownOK

\* So does what is known of all of them.
LEMMA ShutdownsStand ==
  ASSUME ShutdownsOK, UNCHANGED <<draining, shutdowns>>, Grow
  PROVE  ShutdownsOK'
<1>1. draining' # 0 => DrainedOK(draining)'
  BY DEF ShutdownsOK, DrainedOK, Grow
<1>2. ASSUME NEW w \in DOMAIN shutdowns
      PROVE  ShutdownOK(shutdowns[w])'
  <2>1. PICK s : s = shutdowns[w]
    OBVIOUS
  <2>2. ShutdownOK(s)
    BY <2>1 DEF ShutdownsOK
  <2>3. ShutdownOK(s)'
    BY <2>2, ShutdownStands
  <2>4. shutdowns'[w] = s
    BY <2>1
  <2> QED BY <2>3, <2>4 DEF ShutdownOK, Awaited, DrainedOK
<1> QED BY <1>1, <1>2 DEF ShutdownsOK

\* A start adds an agent, which is remembered when it runs.
LEMMA ActivateKeeps ==
  ASSUME ActivationIInv, NEW config, NEW by, NEW copy, Activate(config, by, copy),
         config.ok => GoodConfig(config), checked /\ by = "register" => LocalConfig(config),
         by # "register" => slot = 0, UNCHANGED <<checked, shutdowns, draining>>
  PROVE  AgentsOK' /\ RememberedOK' /\ FirstOK' /\ ShutdownsOK'
<1>1. CASE UNCHANGED <<agents, slot>>
  BY <1>1, StartsStand
<1>2. ASSUME NEW state \in {"running", "failed"}, NEW new, config.ok,
             new = [config |-> config, by |-> by, copy |-> copy, state |-> state],
             agents' = Append(agents, new),
             slot' = IF state = "running" THEN Len(agents) + 1 ELSE slot
      PROVE  AgentsOK' /\ RememberedOK' /\ FirstOK' /\ ShutdownsOK'
  <2>0. AgentsOK /\ RememberedOK /\ FirstOK /\ ShutdownsOK
    BY DEF ActivationIInv
  <2>1. PICK S : agents \in Seq(S)
    BY <2>0 DEF AgentsOK
  <2>2. PICK n \in Nat : n = Len(agents) + 1
    BY <2>1
  <2>3. /\ agents' \in Seq(S \cup {new}) /\ Len(agents') = n
        /\ DOMAIN agents' = DOMAIN agents \cup {n} /\ n \notin DOMAIN agents
        /\ DOMAIN agents = 1 .. n - 1
        /\ agents'[n] = new /\ \A i \in DOMAIN agents : agents'[i] = agents[i]
    <3>1. agents \in Seq(S \cup {new})
      BY <2>1
    <3> HIDE <2>1
    <3> QED BY <1>2, <2>2, <3>1
  <2>4. AgentType(new)'
    BY <1>2 DEF AgentType
  <2>5. \A i \in DOMAIN agents : AgentType(agents[i])'
    BY <2>0, <2>3 DEF AgentsOK, AgentType
  <2>6. AgentsOK'
    <3>1. slot' \in 0 .. Len(agents')
      BY <1>2, <2>0, <2>2, <2>3 DEF AgentsOK
    <3>2. \A i \in DOMAIN agents' : AgentType(agents[i])'
      BY <2>3, <2>4, <2>5 DEF AgentType
    <3>3. slot' # 0 => agents'[slot'].state # "failed"
      BY <1>2, <2>0, <2>2, <2>3 DEF AgentsOK
    <3> QED BY <2>3, <3>1, <3>2, <3>3 DEF AgentsOK
  <2>7. new.by = by /\ new.state = state
    BY <1>2
  <2>8. RememberedOK'
    <3> SUFFICES ASSUME NEW i \in DOMAIN agents', agents'[i].state = "running"
                 PROVE  i = slot' \/ Forgotten(i)'
      BY DEF RememberedOK
    <3>1. CASE i = n
      BY <1>2, <2>2, <2>3, <2>7, <3>1
    <3>2. CASE i \in DOMAIN agents /\ Forgotten(i)
      <4>1. PICK j \in DOMAIN agents : j > i /\ agents[j].by = "register" /\ agents[j].state # "failed"
        BY <3>2 DEF Forgotten
      <4>2. j \in DOMAIN agents' /\ agents'[j] = agents[j]
        BY <2>3
      <4> QED BY <4>1, <4>2 DEF Forgotten
    <3>3. CASE i \in DOMAIN agents /\ i = slot
      <4>1. by = "register"
        BY <2>3, <3>3
      <4>2. CASE state = "failed"
        BY <1>2, <3>3, <4>2
      <4>3. CASE state = "running"
        <5>1. n \in DOMAIN agents' /\ n > i /\ agents'[n].by = "register" /\ agents'[n].state # "failed"
          BY <2>3, <2>7, <3>3, <4>1, <4>3
        <5> QED BY <5>1 DEF Forgotten
      <4> QED BY <4>2, <4>3
    <3> QED BY <2>0, <2>3, <3>1, <3>2, <3>3 DEF RememberedOK
  <2>9. FirstOK'
    <3> SUFFICES ASSUME shutdowns = <<>>, agents'[1].state # "failed"
                 PROVE  /\ slot' # 0
                        /\ agents'[1].by = "register" => \A i \in DOMAIN agents' : agents'[i].by = "register"
      BY DEF FirstOK
    <3>1. CASE n = 1
      BY <1>2, <2>2, <2>3, <2>7, <3>1
    <3>2. CASE n # 1
      <4>1. agents # <<>> /\ agents'[1] = agents[1]
        BY <2>2, <2>3, <3>2
      <4>2. slot # 0 /\ (agents[1].by = "register" => \A i \in DOMAIN agents : agents[i].by = "register")
        BY <2>0, <4>1 DEF FirstOK
      <4> QED BY <1>2, <2>2, <2>3, <2>7, <4>1, <4>2
    <3> QED BY <3>1, <3>2
  <2>10. ShutdownsOK'
    <3>1. Grow
      BY <2>3 DEF Grow
    <3> QED BY <2>0, <3>1, ShutdownsStand
  <2> QED BY <2>6, <2>8, <2>9, <2>10
<1> QED BY <1>1, <1>2 DEF Activate

\* What init is called with is the application's, and it starts nothing beside what is remembered.
LEMMA InitCalledKeeps ==
  ASSUME ActivationAssumption, ConfigurationAssumption, ActivationIInv, NEW o \in InitOptions,
         NEW copy, InitCalled(o, copy), UNCHANGED <<checked, shutdowns, draining>>
  PROVE  AgentsOK' /\ RememberedOK' /\ FirstOK' /\ ShutdownsOK'
<1>1. CASE UNCHANGED <<agents, slot>>
  BY <1>1, StartsStand
<1>2. CASE slot = 0 /\ Activate(ConfigFromCode(o, env), "init", copy)
  <2> DEFINE config == ConfigFromCode(o, env)
  <2>1. config.ok => GoodConfig(config)
    BY CodeIsGood DEF ActivationIInv, EnvironmentOK
  <2> HIDE DEF config
  <2>2. Activate(config, "init", copy)
    BY <1>2 DEF config
  <2> QED BY <1>2, <2>1, <2>2, ActivateKeeps
<1> QED BY <1>1, <1>2 DEF InitCalled, Registered

\* What an import does.
LEMMA ImportsWhat ==
  ASSUME Imports
  PROVE  \/ UNCHANGED <<agents, slot>>
         \/ \E copy : Activate(ConfigFromEnv(env), "register", copy)
         \/ \E copy : \E o \in InitOptions : InitCalled(o, copy)
<1> DEFINE first == Head(preload)
<1>1. CASE first \in evaluated
  BY <1>1 DEF Imports
<1>2. CASE first \notin evaluated /\ first.what = "register" /\ Unsupported(node)
  BY <1>2 DEF Imports
<1>3. CASE first \notin evaluated /\ first.what = "register" /\ ~Unsupported(node)
  BY <1>3 DEF Imports
<1>4. CASE first \notin evaluated /\ first.what # "register"
  BY <1>4 DEF Imports
<1> QED BY <1>1, <1>2, <1>3, <1>4

\* What is imported before the application.
LEMMA ImportsKeeps ==
  ASSUME ActivationAssumption, ConfigurationAssumption, ActivationIInv, Imports
  PROVE  ActivationIInv'
<1>1. /\ preload # <<>> /\ UNCHANGED <<node, checked, env, draining, shutdowns>>
  BY DEF Imports
<1>2. EnvironmentOK'
  BY <1>1 DEF ActivationIInv, EnvironmentOK
<1>3. CASE UNCHANGED <<agents, slot>>
  BY <1>1, <1>2, <1>3, StartsStand DEF ActivationIInv
<1>4. ASSUME NEW copy, Activate(ConfigFromEnv(env), "register", copy)
      PROVE  ActivationIInv'
  <2> DEFINE config == ConfigFromEnv(env)
  <2>1. config.ok => GoodConfig(config)
    BY EnvIsGood DEF ActivationIInv, EnvironmentOK
  <2>2. checked => LocalConfig(config)
    <3>1. ASSUME checked PROVE LocalConfig(config)
      <4>1. PICK parent \in Environments : env = RunEnv(parent)
        BY <1>1, <3>1 DEF ActivationIInv, EnvironmentOK
      <4> QED BY <4>1, CheckedIsLocal DEF ActivationAssumption
    <3> QED BY <3>1
  <2> HIDE DEF config
  <2>3. Activate(config, "register", copy)
    BY <1>4 DEF config
  <2> QED BY <1>1, <1>2, <2>1, <2>2, <2>3, ActivateKeeps DEF ActivationIInv
<1>5. ASSUME NEW copy, NEW o \in InitOptions, InitCalled(o, copy)
      PROVE  ActivationIInv'
  BY <1>1, <1>2, <1>5, InitCalledKeeps DEF ActivationIInv
<1>6. \/ UNCHANGED <<agents, slot>>
      \/ \E copy : Activate(ConfigFromEnv(env), "register", copy)
      \/ \E copy : \E o \in InitOptions : InitCalled(o, copy)
  BY ImportsWhat
<1> QED BY <1>3, <1>4, <1>5, <1>6

\* An agent that goes on to another state.
LEMMA AgentChanges ==
  ASSUME AgentsOK, NEW i \in DOMAIN agents, NEW s \in {"draining", "stopped"},
         agents' = [agents EXCEPT ![i].state = s], UNCHANGED checked, slot' \in {0, slot}
  PROVE  /\ AgentsOK' /\ DOMAIN agents' = DOMAIN agents
         /\ agents'[i].state = s
         /\ \A j \in DOMAIN agents : agents'[j].by = agents[j].by
         /\ \A j \in DOMAIN agents \ {i} : agents'[j] = agents[j]
<1>1. PICK new : new = [agents[i] EXCEPT !.state = s]
  OBVIOUS
<1>2. PICK S : agents \in Seq(S)
  BY DEF AgentsOK
<1>3. agents' = [agents EXCEPT ![i] = new]
  BY <1>1
<1>4. /\ agents' \in Seq(S \cup {new}) /\ DOMAIN agents' = DOMAIN agents /\ Len(agents') = Len(agents)
      /\ agents'[i] = new /\ \A j \in DOMAIN agents \ {i} : agents'[j] = agents[j]
  <2>1. agents \in Seq(S \cup {new})
    BY <1>2
  <2> QED BY <1>3, <2>1
<1>5. new.state = s /\ new.by = agents[i].by /\ AgentType(new)'
  BY <1>1 DEF AgentsOK, AgentType
<1>6. \A j \in DOMAIN agents : AgentType(agents[j])'
  <2> SUFFICES ASSUME NEW j \in DOMAIN agents
               PROVE  AgentType(agents[j])'
    OBVIOUS
  <2>1. CASE j = i
    BY <1>4, <1>5, <2>1 DEF AgentType
  <2>2. CASE j # i
    BY <1>4, <2>2 DEF AgentsOK, AgentType
  <2> QED BY <2>1, <2>2
<1>7. slot' \in 0 .. Len(agents') /\ (slot' # 0 => agents'[slot'].state # "failed")
  BY <1>2, <1>4, <1>5 DEF AgentsOK
<1> QED BY <1>4, <1>5, <1>6, <1>7 DEF AgentsOK

\* What is known of the first start stands while none is added.
LEMMA FirstKept ==
  ASSUME AgentsOK, FirstOK, DOMAIN agents' = DOMAIN agents, NEW i \in DOMAIN agents,
         agents[i].state # "failed", \E S : agents' \in Seq(S),
         \A j \in DOMAIN agents : agents'[j].by = agents[j].by,
         \A j \in DOMAIN agents \ {i} : agents'[j] = agents[j],
         slot' = slot, shutdowns' = <<>> => shutdowns = <<>>
  PROVE  FirstOK'
<1> SUFFICES ASSUME shutdowns' = <<>>, agents' # <<>>, agents'[1].state # "failed"
             PROVE  /\ slot # 0
                    /\ agents'[1].by = "register" => \A j \in DOMAIN agents' : agents'[j].by = "register"
  BY DEF FirstOK
<1>1. agents # <<>> /\ 1 \in DOMAIN agents
  BY DEF AgentsOK
<1>2. agents[1].state # "failed"
  BY <1>1
<1> QED BY <1>1, <1>2 DEF FirstOK

\* An agent that stops itself stays where it is remembered.
LEMMA SelfDisablesKeeps ==
  ASSUME ActivationIInv, SelfDisables
  PROVE  ActivationIInv'
<1>0. AgentsOK /\ RememberedOK /\ FirstOK /\ ShutdownsOK
  BY DEF ActivationIInv
<1>1. PICK i \in DOMAIN agents :
        agents[i].state = "running" /\ agents' = [agents EXCEPT ![i].state = "draining"]
  BY DEF SelfDisables
<1>2. UNCHANGED <<node, checked, env, preload, evaluated, slot, draining, shutdowns>>
  BY DEF SelfDisables
<1>3. /\ AgentsOK' /\ DOMAIN agents' = DOMAIN agents /\ agents'[i].state = "draining"
      /\ \A j \in DOMAIN agents : agents'[j].by = agents[j].by
      /\ \A j \in DOMAIN agents \ {i} : agents'[j] = agents[j]
  BY <1>0, <1>1, <1>2, AgentChanges
<1>4. RememberedOK'
  BY <1>0, <1>2, <1>3 DEF RememberedOK, Forgotten
<1>5. FirstOK'
  BY <1>0, <1>1, <1>2, <1>3, FirstKept DEF AgentsOK
<1>6. ShutdownsOK'
  <2>1. Grow
    BY <1>1, <1>3 DEF Grow
  <2> QED BY <1>0, <1>2, <2>1, ShutdownsStand
<1> QED BY <1>2, <1>3, <1>4, <1>5, <1>6 DEF ActivationIInv, EnvironmentOK

\* The drain of an agent ends, and settles those that waited for it.
LEMMA DrainEndsKeeps ==
  ASSUME ActivationIInv, DrainEnds
  PROVE  ActivationIInv'
<1>0. AgentsOK /\ RememberedOK /\ FirstOK /\ ShutdownsOK
  BY DEF ActivationIInv
<1>1. PICK i \in DOMAIN agents :
        /\ agents[i].state = "draining" /\ agents' = [agents EXCEPT ![i].state = "stopped"]
        /\ draining' = IF draining = i THEN 0 ELSE draining
        /\ shutdowns' = [w \in DOMAIN shutdowns |-> IF shutdowns[w].of = i
                                                    THEN [shutdowns[w] EXCEPT !.settled = TRUE]
                                                    ELSE shutdowns[w]]
  BY DEF DrainEnds
<1>2. UNCHANGED <<node, checked, env, preload, evaluated, slot>>
  BY DEF DrainEnds
<1>3. /\ AgentsOK' /\ DOMAIN agents' = DOMAIN agents /\ agents'[i].state = "stopped"
      /\ \A j \in DOMAIN agents : agents'[j].by = agents[j].by
      /\ \A j \in DOMAIN agents \ {i} : agents'[j] = agents[j]
  BY <1>0, <1>1, <1>2, AgentChanges
<1>4. RememberedOK'
  BY <1>0, <1>2, <1>3 DEF RememberedOK, Forgotten
<1>5. /\ shutdowns' \in Seq(ShutdownType)
      /\ DOMAIN shutdowns' = DOMAIN shutdowns
      /\ \A w \in DOMAIN shutdowns :
           /\ shutdowns'[w].of = shutdowns[w].of /\ shutdowns'[w].found = shutdowns[w].found
           /\ shutdowns'[w].under = shutdowns[w].under
           /\ shutdowns'[w].settled => shutdowns[w].settled \/ shutdowns[w].of = i
      /\ shutdowns' = <<>> => shutdowns = <<>>
  <2>1. shutdowns \in Seq(ShutdownType)
    BY <1>0 DEF ShutdownsOK
  <2>2. \A w \in DOMAIN shutdowns :
          /\ shutdowns'[w] \in ShutdownType
          /\ shutdowns'[w].of = shutdowns[w].of /\ shutdowns'[w].found = shutdowns[w].found
          /\ shutdowns'[w].under = shutdowns[w].under
          /\ shutdowns'[w].settled => shutdowns[w].settled \/ shutdowns[w].of = i
    <3>1. \A w \in DOMAIN shutdowns : shutdowns[w] \in ShutdownType
      BY <2>1
    <3> QED BY <1>1, <3>1 DEF ShutdownType
  <2>3. DOMAIN shutdowns = 1 .. Len(shutdowns) /\ Len(shutdowns) \in Nat
    BY <2>1
  <2>4. shutdowns' \in [1 .. Len(shutdowns) -> ShutdownType]
    BY <1>1, <2>2, <2>3
  <2>5. shutdowns' \in Seq(ShutdownType)
    BY <2>3, <2>4
  <2>6. shutdowns' = <<>> => shutdowns = <<>>
    BY <1>1, <2>1, <2>3
  <2> QED BY <1>1, <2>2, <2>5, <2>6
<1>6. FirstOK'
  BY <1>0, <1>1, <1>2, <1>3, <1>5, FirstKept DEF AgentsOK
<1>7. ShutdownsOK'
  <2>1. \A j : DrainedOK(j) => DrainedOK(j)'
    BY <1>3 DEF DrainedOK
  <2>2. \A j \in DOMAIN agents : agents[j].state = "stopped" => agents'[j].state = "stopped"
    BY <1>3
  <2>3. ASSUME NEW w \in DOMAIN shutdowns
        PROVE  ShutdownOK(shutdowns[w])'
    <3>1. ShutdownOK(shutdowns[w])
      BY <1>0 DEF ShutdownsOK
    <3>2. PICK s, t : s = shutdowns[w] /\ t = shutdowns'[w]
      OBVIOUS
    <3>3. /\ t.of = s.of /\ t.found = s.found /\ t.under = s.under
          /\ t.settled => s.settled \/ s.of = i
      BY <1>5, <3>2
    <3>4. CASE /\ s.of # 0 /\ s.of = Awaited(s) /\ DrainedOK(s.of)
               /\ s.settled => agents[s.of].state = "stopped"
      <4>1. DrainedOK(s.of)' /\ (t.settled => agents'[s.of].state = "stopped")
        BY <1>3, <2>1, <2>2, <3>3, <3>4 DEF DrainedOK
      <4> QED BY <3>2, <3>3, <3>4, <4>1 DEF ShutdownOK, Awaited
    <3>5. CASE /\ s.of = 0 /\ s.under = 0
               /\ s.found # 0 => s.found \in DOMAIN agents /\ agents[s.found].state = "stopped"
      <4>1. s.found # 0 => s.found \in DOMAIN agents' /\ agents'[s.found].state = "stopped"
        BY <1>3, <2>2, <3>5
      <4> QED BY <3>2, <3>3, <3>5, <4>1 DEF ShutdownOK
    <3> QED BY <3>1, <3>2, <3>4, <3>5 DEF ShutdownOK
  <2>4. draining' \in Nat /\ (draining' # 0 => DrainedOK(draining)')
    BY <1>0, <1>1, <2>1 DEF ShutdownsOK, DrainedOK
  <2> QED BY <1>5, <2>3, <2>4 DEF ShutdownsOK
<1> QED BY <1>2, <1>3, <1>4, <1>6, <1>7 DEF ActivationIInv, EnvironmentOK

\* A shutdown waits for the one under way, or for what it empties the slot of.
LEMMA AppShutsDownKeeps ==
  ASSUME ActivationIInv, AppShutsDown
  PROVE  ActivationIInv'
<1>0. AgentsOK /\ RememberedOK /\ ShutdownsOK /\ EnvironmentOK
  BY DEF ActivationIInv
<1>1. UNCHANGED <<node, checked, env, preload, evaluated>>
  BY DEF AppShutsDown
<1>2. ASSUME NEW of \in Nat, NEW new, ShutdownOK(new)', Grow,
             new = [found |-> slot, under |-> draining, of |-> of, settled |-> of = 0],
             shutdowns' = Append(shutdowns, new)
      PROVE  /\ shutdowns' \in Seq(ShutdownType) /\ shutdowns' # <<>>
             /\ \A w \in DOMAIN shutdowns' : ShutdownOK(shutdowns[w])'
  <2>1. shutdowns \in Seq(ShutdownType)
    BY <1>0 DEF ShutdownsOK
  <2>2. slot \in Nat /\ draining \in Nat
    BY <1>0 DEF AgentsOK, ShutdownsOK
  <2>3. new \in ShutdownType
    BY <1>2, <2>2 DEF ShutdownType
  <2>4. shutdowns' \in Seq(ShutdownType) /\ shutdowns' # <<>>
    BY <1>2, <2>1, <2>3
  <2>5. ASSUME NEW w \in DOMAIN shutdowns'
        PROVE  ShutdownOK(shutdowns[w])'
    <3>1. shutdowns'[w] = new \/ (w \in DOMAIN shutdowns /\ shutdowns'[w] = shutdowns[w])
      BY <1>2, <2>1, <2>3, <2>5
    <3>2. PICK s : s = shutdowns'[w]
      OBVIOUS
    <3>3. ShutdownOK(s)'
      <4>1. CASE s = new
        BY <1>2, <4>1
      <4>2. CASE w \in DOMAIN shutdowns /\ s = shutdowns[w]
        <5>1. ShutdownOK(s)
          BY <1>0, <4>2 DEF ShutdownsOK
        <5> QED BY <1>2, <5>1, ShutdownStands
      <4> QED BY <3>1, <3>2, <4>1, <4>2
    <3> QED BY <3>2, <3>3 DEF ShutdownOK, Awaited, DrainedOK
  <2> QED BY <2>4, <2>5
<1>3. CASE draining # 0
  <2>1. /\ UNCHANGED <<agents, slot, draining>>
        /\ shutdowns' = Append(shutdowns, [found |-> slot, under |-> draining, of |-> draining, settled |-> draining = 0])
    BY <1>3 DEF AppShutsDown
  <2>2. PICK d \in Nat : d = draining
    BY <1>0 DEF ShutdownsOK
  <2>3. PICK new : new = [found |-> slot, under |-> draining, of |-> d, settled |-> d = 0]
    OBVIOUS
  <2>4. ShutdownOK(new)'
    <3>1. new.of = d /\ new.under = d /\ new.settled = FALSE /\ d # 0
      BY <1>3, <2>2, <2>3
    <3>2. DrainedOK(d)'
      BY <1>0, <1>3, <2>1, <2>2 DEF ShutdownsOK, DrainedOK
    <3> QED BY <3>1, <3>2 DEF ShutdownOK, Awaited
  <2>5. Grow
    BY <2>1 DEF Grow
  <2>6. /\ shutdowns' \in Seq(ShutdownType) /\ shutdowns' # <<>>
        /\ \A w \in DOMAIN shutdowns' : ShutdownOK(shutdowns[w])'
    BY <1>2, <2>1, <2>2, <2>3, <2>4, <2>5
  <2>7. ShutdownsOK'
    BY <1>0, <2>1, <2>6 DEF ShutdownsOK, DrainedOK
  <2>8. FirstOK'
    BY <2>6 DEF FirstOK
  <2>9. AgentsOK' /\ RememberedOK'
    BY <1>0, <1>1, <2>1 DEF AgentsOK, AgentType, RememberedOK, Forgotten
  <2> QED BY <1>0, <1>1, <2>7, <2>8, <2>9 DEF ActivationIInv, EnvironmentOK
<1>4. CASE draining = 0 /\ slot # 0 /\ agents[slot].state \in {"running", "draining"}
  <2>1. /\ agents' = [agents EXCEPT ![slot].state = "draining"] /\ slot' = 0 /\ draining' = slot
        /\ shutdowns' = Append(shutdowns, [found |-> slot, under |-> draining, of |-> slot, settled |-> slot = 0])
    BY <1>4 DEF AppShutsDown
  <2>2. PICK s \in Nat : s = slot /\ s # 0 /\ s \in DOMAIN agents
    BY <1>0, <1>4 DEF AgentsOK
  <2>3. PICK new : new = [found |-> slot, under |-> draining, of |-> s, settled |-> s = 0]
    OBVIOUS
  <2>4. /\ AgentsOK' /\ DOMAIN agents' = DOMAIN agents /\ agents'[s].state = "draining"
        /\ \A j \in DOMAIN agents : agents'[j].by = agents[j].by
        /\ \A j \in DOMAIN agents \ {s} : agents'[j] = agents[j]
    BY <1>0, <1>1, <2>1, <2>2, AgentChanges
  <2>5. Grow
    BY <1>4, <2>2, <2>4 DEF Grow
  <2>6. DrainedOK(s)'
    BY <2>2, <2>4 DEF DrainedOK
  <2>7. ShutdownOK(new)'
    <3>1. new.of = s /\ new.under = 0 /\ new.found = s /\ new.settled = FALSE
      BY <1>4, <2>2, <2>3
    <3> QED BY <2>2, <2>6, <3>1 DEF ShutdownOK, Awaited
  <2>8. /\ shutdowns' \in Seq(ShutdownType) /\ shutdowns' # <<>>
        /\ \A w \in DOMAIN shutdowns' : ShutdownOK(shutdowns[w])'
    BY <1>2, <2>1, <2>2, <2>3, <2>5, <2>7
  <2>9. RememberedOK'
    <3> SUFFICES ASSUME NEW i \in DOMAIN agents', agents'[i].state = "running"
                 PROVE  Forgotten(i)'
      BY DEF RememberedOK
    <3>1. i # s /\ i \in DOMAIN agents /\ agents[i].state = "running"
      BY <2>4
    <3>2. Forgotten(i)
      BY <1>0, <2>2, <3>1 DEF RememberedOK
    <3> QED BY <2>4, <3>2 DEF Forgotten
  <2>10. ShutdownsOK'
    BY <2>1, <2>2, <2>6, <2>8 DEF ShutdownsOK, DrainedOK
  <2>11. FirstOK'
    BY <2>8 DEF FirstOK
  <2> QED BY <1>0, <1>1, <2>4, <2>9, <2>10, <2>11 DEF ActivationIInv, EnvironmentOK
<1>5. CASE draining = 0 /\ ~(slot # 0 /\ agents[slot].state \in {"running", "draining"})
  <2>1. /\ agents' = agents /\ slot' = 0 /\ draining' = 0
        /\ shutdowns' = Append(shutdowns, [found |-> slot, under |-> draining, of |-> 0, settled |-> 0 = 0])
    BY <1>5 DEF AppShutsDown
  <2>2. PICK new : new = [found |-> slot, under |-> draining, of |-> 0, settled |-> 0 = 0]
    OBVIOUS
  <2>3. slot # 0 => slot \in DOMAIN agents /\ agents[slot].state = "stopped"
    BY <1>0, <1>5 DEF AgentsOK, AgentType
  <2>4. ShutdownOK(new)'
    <3>1. new.of = 0 /\ new.under = 0 /\ new.found = slot
      BY <1>5, <2>2
    <3> QED BY <2>1, <2>3, <3>1 DEF ShutdownOK
  <2>5. Grow
    BY <2>1 DEF Grow
  <2>6. /\ shutdowns' \in Seq(ShutdownType) /\ shutdowns' # <<>>
        /\ \A w \in DOMAIN shutdowns' : ShutdownOK(shutdowns[w])'
    BY <1>2, <2>1, <2>2, <2>4, <2>5
  <2>7. AgentsOK'
    BY <1>0, <1>1, <2>1 DEF AgentsOK, AgentType
  <2>8. RememberedOK'
    BY <1>0, <1>5, <2>1, <2>3 DEF RememberedOK, Forgotten, AgentsOK
  <2>9. ShutdownsOK'
    BY <2>1, <2>6 DEF ShutdownsOK
  <2>10. FirstOK'
    BY <2>6 DEF FirstOK
  <2> QED BY <1>0, <1>1, <2>7, <2>8, <2>9, <2>10 DEF ActivationIInv, EnvironmentOK
<1> QED BY <1>3, <1>4, <1>5

\* The application's own calls, and its file.
LEMMA AppKeeps ==
  ASSUME ActivationAssumption, ConfigurationAssumption, ActivationIInv, AppInits \/ AppReadsEnvFile
  PROVE  ActivationIInv'
<1>1. CASE AppInits
  <2>1. UNCHANGED <<node, checked, env, preload, draining, shutdowns>>
    BY <1>1 DEF AppInits
  <2>2. PICK o \in InitOptions : InitCalled(o, "application's")
    BY <1>1 DEF AppInits
  <2> QED BY <2>1, <2>2, InitCalledKeeps DEF ActivationIInv, EnvironmentOK
<1>2. CASE AppReadsEnvFile
  <2>1. preload = <<>> /\ UNCHANGED <<node, checked, preload, agents, slot, draining, shutdowns>>
    BY <1>2 DEF AppReadsEnvFile
  <2> DEFINE settings == [s \in DOMAIN env.settings |->
                            IF s \in Texts /\ env.settings[s] = Unset THEN EnvFile[s]
                            ELSE env.settings[s]]
  <2>2. env' = [env EXCEPT !.settings = settings]
    BY <1>2 DEF AppReadsEnvFile
  <2>3. Numbers \subseteq DOMAIN settings /\ \A s \in Numbers : settings[s] \in Int
    BY DEF ActivationIInv, EnvironmentOK, IsEnvironment, Numbers, Texts, Connecting
  <2> HIDE DEF settings
  <2>4. IsEnvironment(env)'
    BY <2>2, <2>3 DEF ActivationIInv, EnvironmentOK, IsEnvironment
  <2> QED BY <2>1, <2>4, StartsStand DEF ActivationIInv, EnvironmentOK
<1> QED BY <1>1, <1>2

\* In whatever order and copies a process is started, shut down and started again, what runs is what
\* it remembers, or what a register that started later made it forget; a process of check whose first
\* start is check's own and that shut nothing down yet starts nothing that reaches a cloud; a start
\* sends to a URL without credentials, or inspects; two windows of its profile and their flushes fit
\* in what the report reads as recent, or the interval leaves them no room; and a shutdown that
\* settled saw the end of the drain under way when it was called, or of what the process remembered
\* (activate.ts 51-74, start.ts 12, registered.ts 76-94, config.ts 120-147, run.ts 258-298).
THEOREM FirstStartWins == ActivationSpec => []FirstStartRules
<1> USE ActivationAssumption, ConfigurationAssumption
<1>1. ActivationInit => ActivationIInv
  BY ActivationStarts
<1>2. ActivationIInv /\ [ActivationNext]_activationVars => ActivationIInv'
  <2> SUFFICES ASSUME ActivationIInv, [ActivationNext]_activationVars PROVE ActivationIInv'
    OBVIOUS
  <2>1. CASE UNCHANGED activationVars
    <3>1. EnvironmentOK' /\ AgentsOK'
      BY <2>1, StartsStand DEF activationVars, ActivationIInv, EnvironmentOK
    <3>2. RememberedOK' /\ FirstOK' /\ ShutdownsOK'
      BY <2>1, StartsStand DEF activationVars
    <3> QED BY <3>1, <3>2 DEF ActivationIInv
  <2>2. CASE ActivationNext
    BY <2>2, ImportsKeeps, AppKeeps, AppShutsDownKeeps, SelfDisablesKeeps, DrainEndsKeeps
       DEF ActivationNext
  <2> QED BY <2>1, <2>2
<1>3. ActivationIInv => FirstStartRules
  <2> SUFFICES ASSUME ActivationIInv PROVE FirstStartRules
    OBVIOUS
  <2> DEFINE running == {i \in DOMAIN agents : agents[i].state = "running"}
  <2>0. AgentsOK /\ RememberedOK /\ FirstOK /\ ShutdownsOK
    BY DEF ActivationIInv
  <2>1. \A i \in running : i = slot \/ Forgotten(i)
    BY <2>0 DEF RememberedOK
  <2>2. ASSUME checked, agents # <<>>, agents[1].by = "register", agents[1].state # "failed",
               shutdowns = <<>>
        PROVE  \A i \in DOMAIN agents : LocalConfig(agents[i].config)
    <3>1. \A i \in DOMAIN agents : agents[i].by = "register"
      BY <2>0, <2>2 DEF FirstOK
    <3> QED BY <2>0, <2>2, <3>1 DEF AgentsOK, AgentType
  <2>3. \A i \in DOMAIN agents : GoodConfig(agents[i].config)
    BY <2>0 DEF AgentsOK, AgentType
  <2>4. \A w \in DOMAIN shutdowns :
          shutdowns[w].settled /\ Awaited(shutdowns[w]) # 0 => agents[Awaited(shutdowns[w])].state = "stopped"
    <3> SUFFICES ASSUME NEW w \in DOMAIN shutdowns, shutdowns[w].settled, Awaited(shutdowns[w]) # 0
                 PROVE  agents[Awaited(shutdowns[w])].state = "stopped"
      OBVIOUS
    <3>1. ShutdownOK(shutdowns[w])
      BY <2>0 DEF ShutdownsOK
    <3> QED BY <3>1 DEF ShutdownOK, Awaited
  <2> HIDE DEF running
  <2>5. FirstStartRules <=>
          /\ \A i \in running : i = slot \/ Forgotten(i)
          /\ checked /\ agents # <<>> /\ agents[1].by = "register" /\ agents[1].state # "failed"
               /\ shutdowns = <<>> => \A i \in DOMAIN agents : LocalConfig(agents[i].config)
          /\ \A i \in DOMAIN agents : GoodConfig(agents[i].config)
          /\ \A w \in DOMAIN shutdowns :
               shutdowns[w].settled /\ Awaited(shutdowns[w]) # 0 => agents[Awaited(shutdowns[w])].state = "stopped"
    BY DEF FirstStartRules, running, GoodConfig, Forgotten, Awaited
  <2> QED BY <2>1, <2>2, <2>3, <2>4, <2>5
<1> QED BY <1>1, <1>2, <1>3, PTL DEF ActivationSpec

-----------------------------------------------------------------------------
\* init: what it holds is what is on the disk until it writes, what it writes is not there yet,
\* and in the order of its writes what the entry loads comes before the entry.

\* A file's text: which of the person's saves it has, and whether it has init's part.
TextType == [kind : {"absent", "cut", "text"}, person : Nat, ours : BOOLEAN]
\* A write init will do.
WriteType == [file : File, create : BOOLEAN, text : TextType]

\* The types of what there is.
InitTypeOK ==
  /\ project \in Projects /\ disk \in [File -> TextType] /\ saved \in [File -> Nat]
  /\ init \in [phase : {"reading", "planning", "planned", "writing", "ended"}, read : {init.read},
               writes : Seq(WriteType), missing : {init.missing}, opened : BOOLEAN,
               outcome : {"none", "failed", "configured", "incomplete"}]
  /\ DOMAIN init.read \subseteq File /\ \A f \in DOMAIN init.read : init.read[f] \in TextType
  /\ fate \in [overtaken : SUBSET File, cut : SUBSET File, written : [File -> Nat]]

\* A file whose text another writer had a part in, and the one that is open.
Lost(f) == f \in fate.overtaken \cup fate.cut
\* The file that init has open.
Opened(f) == init.opened /\ init.writes # <<>> /\ init.writes[1].file = f

\* The one write that may put init's part where it does not count.
Twin(f) == f = "package.json" /\ project.twin

\* The texts on the disk: a file that init wrote has its part, and was written once.
DiskOK ==
  /\ \A f \in File : disk[f].kind # "text" => ~disk[f].ours
  /\ \A f \in File : disk[f].person = saved[f] \/ Lost(f) \/ Opened(f)
  /\ \A f \in File : disk[f].kind = "cut" => f \in fate.cut \/ (Opened(f) /\ init.phase = "writing")
  /\ disk["entry"].ours => disk["instrument"].kind # "absent"
  /\ \A f \in File : fate.written[f] > 0 /\ ~Twin(f) => disk[f].ours /\ fate.written[f] = 1

\* What is read of a file is what there is of it, the person's own saves apart.
Agrees(f) ==
  /\ init.read[f].kind = disk[f].kind /\ init.read[f].ours = disk[f].ours
  /\ init.read[f].person = saved[f] \/ Lost(f)

\* What init holds, phase by phase, is what is on the disk until it writes.
HeldOK ==
  /\ init.phase \in {"reading", "planning", "planned"} =>
       init.writes = <<>> /\ ~init.opened /\ \A f \in DOMAIN init.read : Agrees(f)
  /\ init.phase = "reading" => DOMAIN init.read = {"package.json"}
  /\ init.phase = "planning" => DOMAIN init.read = {"package.json", "downtrace.json", "hook"}
  /\ init.phase \in {"planned", "writing"} => DOMAIN init.read = File
  /\ init.phase \in {"planning", "planned"} /\ init.missing = {} =>
       PlanConfig(init.read["downtrace.json"], project.test) \in {"create", "update", "keep"}

\* The order of the writes.
Turn(f) == IF f = "downtrace.json" THEN 1 ELSE IF f = "hook" THEN 2 ELSE IF f = "instrument" THEN 3 ELSE 4

\* Writes in their order.
InTurn(s) == \A i \in DOMAIN s : \A j \in DOMAIN s : i < j => Turn(s[i].file) < Turn(s[j].file)

\* A file that is written among them.
Has(s, f) == \E i \in DOMAIN s : s[i].file = f

\* A file that is still to be written.
Pending(f) == Has(init.writes, f)

\* A write that is still to come, of a text that has the person's and its own part.
WriteOK(w) ==
  /\ w \in WriteType /\ ~disk[w.file].ours
  /\ w.text.kind = "text" /\ (w.text.ours \/ Twin(w.file))
  /\ w.text.person = saved[w.file] \/ Lost(w.file)

\* The writes to come, in order; the entry comes after what it loads.
WritesOK ==
  /\ InTurn(init.writes)
  /\ init.opened => init.phase \in {"writing", "ended"} /\ init.writes # <<>>
  /\ init.opened /\ init.phase = "ended" => init.writes[1].file \in fate.cut
  /\ init.phase = "writing" =>
       /\ \A i \in DOMAIN init.writes : WriteOK(init.writes[i])
       /\ Pending("entry") => disk["instrument"].kind # "absent" \/ Pending("instrument")

\* What is said to be configured is there, or is still to be written.
Given(f) == disk[f].ours \/ (init.phase = "writing" /\ Pending(f))

\* All that an application needs is given.
Configured ==
  /\ Given("downtrace.json")
  /\ NextBuild(project) => Given("hook")
  /\ ~project.next /\ project.agent = "production" =>
       /\ IF project.esm THEN Given("package.json") \/ Twin("package.json") ELSE Given("entry")
       /\ \/ disk["instrument"].kind = "text" \/ "instrument" \in fate.cut
          \/ init.phase = "writing" /\ Pending("instrument")

\* A run that misses nothing gives all of it.
GoalsOK ==
  (init.phase = "writing" /\ init.missing = {}) \/ (init.phase = "ended" /\ init.outcome = "configured")
  => Configured

\* What every step of init keeps.
InitIInv == InitTypeOK /\ DiskOK /\ HeldOK /\ WritesOK /\ GoalsOK

\* The texts of the project when init is first run.
LEMMA InitBegins ==
  ASSUME InitInit
  PROVE  InitIInv
<1>1. init = NotRunning /\ project \in Projects /\ runs = 0
  BY DEF InitInit
<1>2. /\ init.phase = "ended" /\ DOMAIN init.read = {} /\ init.writes = <<>> /\ init.opened = FALSE
      /\ init.outcome = "none"
  BY <1>1 DEF NotRunning
<1>3. /\ fate.overtaken = {} /\ fate.cut = {} /\ fate.written = [f \in File |-> 0]
      /\ fate \in [overtaken : SUBSET File, cut : SUBSET File, written : [File -> Nat]]
  BY DEF InitInit
<1>4. /\ \A f \in File : /\ disk[f] \in TextType /\ (disk[f].kind # "text" => ~disk[f].ours)
                         /\ disk[f].kind # "cut" /\ saved[f] \in Nat /\ disk[f].person = saved[f]
      /\ disk \in [File -> TextType] /\ saved \in [File -> Nat]
  <2>1. /\ disk \in [File -> {Absent, Text(1, FALSE), Text(1, TRUE)}]
        /\ saved = [f \in File |-> IF disk[f].kind = "text" THEN 1 ELSE 0]
    BY DEF InitInit
  <2>2. ASSUME NEW f \in File
        PROVE  /\ disk[f] \in TextType /\ (disk[f].kind # "text" => ~disk[f].ours)
               /\ disk[f].kind # "cut" /\ disk[f].person = IF disk[f].kind = "text" THEN 1 ELSE 0
    <3>1. disk[f] \in {Absent, Text(1, FALSE), Text(1, TRUE)}
      BY <2>1, <2>2
    <3>2. disk[f] = Absent \/ (\E ours \in BOOLEAN : disk[f] = Text(1, ours))
      BY <3>1
    <3>3. /\ Absent \in TextType /\ Absent.kind = "absent" /\ Absent.ours = FALSE /\ Absent.person = 0
          /\ \A ours \in BOOLEAN : /\ Text(1, ours) \in TextType /\ Text(1, ours).kind = "text"
                                  /\ Text(1, ours).person = 1
      BY DEF Absent, Text, TextType
    <3>4. CASE disk[f] = Absent
      BY <3>3, <3>4
    <3>5. CASE \E ours \in BOOLEAN : disk[f] = Text(1, ours)
      BY <3>3, <3>5
    <3> QED BY <3>2, <3>4, <3>5
  <2>3. saved \in [File -> Nat] /\ \A f \in File : saved[f] = IF disk[f].kind = "text" THEN 1 ELSE 0
    BY <2>1
  <2>4. disk \in [File -> TextType]
    BY <2>1, <2>2
  <2> QED BY <2>2, <2>3, <2>4
<1>5. disk["entry"].ours => disk["instrument"].kind # "absent"
  BY DEF InitInit
<1>6. InitTypeOK
  <2>1. init \in [phase : {"reading", "planning", "planned", "writing", "ended"}, read : {init.read},
                  writes : Seq(WriteType), missing : {init.missing}, opened : BOOLEAN,
                  outcome : {"none", "failed", "configured", "incomplete"}]
    BY <1>1 DEF NotRunning
  <2> QED BY <1>1, <1>2, <1>3, <1>4, <2>1 DEF InitTypeOK
<1>7. DiskOK
  BY <1>2, <1>3, <1>4, <1>5 DEF DiskOK, Lost, Opened
<1>8. HeldOK /\ WritesOK
  BY <1>2 DEF HeldOK, WritesOK, InTurn
<1>9. GoalsOK
  BY <1>2 DEF GoalsOK
<1> QED BY <1>6, <1>7, <1>8, <1>9 DEF InitIInv

\* init goes on to read, or to plan, what is on the disk.
LEMMA InitGoesOn ==
  ASSUME InitIInv, UNCHANGED <<project, disk, saved, fate>>,
         \A f \in File : ~(Opened(f) /\ init.phase = "writing"),
         init' \in [phase : {"reading", "planning", "planned"}, read : {init'.read}, writes : {<<>>},
                    missing : {init'.missing}, opened : {FALSE},
                    outcome : {"none", "failed", "configured", "incomplete"}],
         DOMAIN init'.read \subseteq File,
         \A f \in DOMAIN init'.read :
           init'.read[f] = disk[f] \/ (f \in DOMAIN init.read /\ init'.read[f] = init.read[f] /\ Agrees(f)),
         init'.phase = "reading" => DOMAIN init'.read = {"package.json"},
         init'.phase = "planning" => DOMAIN init'.read = {"package.json", "downtrace.json", "hook"},
         init'.phase = "planned" => DOMAIN init'.read = File,
         init'.phase # "reading" /\ init'.missing = {} =>
           PlanConfig(init'.read["downtrace.json"], project.test) \in {"create", "update", "keep"}
  PROVE  InitIInv'
<1>0. InitTypeOK /\ DiskOK /\ HeldOK /\ WritesOK
  BY DEF InitIInv
<1>1. \A f \in File : disk[f].person = saved[f] \/ Lost(f)
  BY <1>0 DEF DiskOK, WritesOK, Opened, Lost, InitTypeOK
<1>2. \A f \in File : disk[f].kind = "cut" => f \in fate.cut
  BY <1>0 DEF DiskOK
<1>3. InitTypeOK'
  <2>1. \A f \in DOMAIN init'.read : init'.read[f] \in TextType
    BY <1>0 DEF InitTypeOK
  <2>2. init' \in [phase : {"reading", "planning", "planned", "writing", "ended"}, read : {init'.read},
                  writes : Seq(WriteType), missing : {init'.missing}, opened : BOOLEAN,
                  outcome : {"none", "failed", "configured", "incomplete"}]
    <3>1. init'.writes = <<>> /\ <<>> \in Seq(WriteType)
      OBVIOUS
    <3> QED BY <3>1
  <2> QED BY <1>0, <2>1, <2>2 DEF InitTypeOK
<1>4. DiskOK'
  BY <1>0, <1>1, <1>2 DEF DiskOK, Lost, Opened, Twin
<1>5. HeldOK'
  <2>1. \A f \in DOMAIN init'.read : Agrees(f)'
    BY <1>1 DEF Agrees, Lost
  <2>2. PlanConfig(init.read["downtrace.json"], project.test)' =
          PlanConfig(init'.read["downtrace.json"], project.test)
    BY DEF PlanConfig
  <2> QED BY <2>1, <2>2 DEF HeldOK
<1>6. WritesOK' /\ GoalsOK'
  <2>1. init'.writes = <<>> /\ init'.opened = FALSE /\ init'.phase \notin {"writing", "ended"}
    OBVIOUS
  <2>2. InTurn(init.writes)'
    BY <2>1 DEF InTurn
  <2> QED BY <2>1, <2>2 DEF WritesOK, GoalsOK
<1> QED BY <1>3, <1>4, <1>5, <1>6 DEF InitIInv

\* init gives up, wherever it is.
LEMMA InitGivesUp ==
  ASSUME InitIInv, UNCHANGED <<project, disk, saved>>, init.phase # "ended", init' = Ended("failed"),
         fate' = IF init.opened THEN [fate EXCEPT !.cut = @ \cup {Head(init.writes).file}] ELSE fate
  PROVE  InitIInv'
<1>0. InitTypeOK /\ DiskOK /\ HeldOK /\ WritesOK
  BY DEF InitIInv
<1>1. /\ init'.phase = "ended" /\ init'.outcome = "failed" /\ init'.read = init.read
      /\ init'.writes = init.writes /\ init'.opened = init.opened /\ init'.missing = init.missing
      /\ init' \in [phase : {"reading", "planning", "planned", "writing", "ended"}, read : {init'.read},
                  writes : Seq(WriteType), missing : {init'.missing}, opened : BOOLEAN,
                  outcome : {"none", "failed", "configured", "incomplete"}]
  BY <1>0 DEF InitTypeOK, Ended
<1>2. init.opened => init.writes \in Seq(WriteType) /\ init.writes # <<>>
  BY <1>0 DEF InitTypeOK, WritesOK
<1>3. init.opened => Head(init.writes) = init.writes[1] /\ init.writes[1].file \in File
  <2>1. init.opened => Head(init.writes) = init.writes[1] /\ init.writes[1] \in WriteType
    BY <1>2
  <2> QED BY <2>1 DEF WriteType
<1>4. /\ fate' \in [overtaken : SUBSET File, cut : SUBSET File, written : [File -> Nat]]
      /\ fate'.overtaken = fate.overtaken /\ fate'.written = fate.written
      /\ fate'.cut = IF init.opened THEN fate.cut \cup {init.writes[1].file} ELSE fate.cut
  <2>1. fate \in [overtaken : SUBSET File, cut : SUBSET File, written : [File -> Nat]]
    BY <1>0 DEF InitTypeOK
  <2>2. CASE init.opened
    BY <1>3, <2>1, <2>2
  <2>3. CASE ~init.opened
    BY <2>1, <2>3
  <2> QED BY <2>2, <2>3
<1>5. InitTypeOK'
  BY <1>0, <1>1, <1>4 DEF InitTypeOK
<1>6. DiskOK'
  <2>1. \A f \in File : /\ Lost(f) => Lost(f)'
                        /\ Opened(f) => Opened(f)' /\ f \in fate'.cut
    BY <1>1, <1>4 DEF Lost, Opened
  <2>2. \A f \in File : (Twin(f)' <=> Twin(f)) /\ fate'.written[f] = fate.written[f]
    BY <1>4 DEF Twin
  <2> QED BY <1>0, <1>4, <2>1, <2>2 DEF DiskOK
<1>7. HeldOK'
  BY <1>1 DEF HeldOK
<1>8. WritesOK'
  BY <1>0, <1>1, <1>2, <1>4 DEF WritesOK, InTurn
<1>9. GoalsOK'
  BY <1>1 DEF GoalsOK
<1> QED BY <1>5, <1>6, <1>7, <1>8, <1>9 DEF InitIInv

\* The steps before anything is written.
LEMMA InitReadingKeeps ==
  ASSUME InitIInv, InitStarts \/ InitReads \/ InitPlans \/ InitFails
  PROVE  InitIInv'
<1>0. InitTypeOK /\ DiskOK /\ HeldOK /\ WritesOK
  BY DEF InitIInv
<1>1. CASE InitStarts
  <2>1. /\ init.phase = "ended" /\ UNCHANGED <<project, disk, saved, fate>>
        /\ init' = [NotRunning EXCEPT !.phase = "reading", !.read = [f \in {"package.json"} |-> disk[f]],
                      !.outcome = IF disk["package.json"].kind = "cut" THEN "failed" ELSE "none"]
    BY <1>1 DEF InitStarts
  <2>2. /\ init'.phase = "reading" /\ init'.read = [f \in {"package.json"} |-> disk[f]]
        /\ init' \in [phase : {"reading", "planning", "planned"}, read : {init'.read}, writes : {<<>>},
                      missing : {init'.missing}, opened : {FALSE},
                      outcome : {"none", "failed", "configured", "incomplete"}]
    BY <2>1 DEF NotRunning
  <2>3. DOMAIN init'.read = {"package.json"} /\ \A f \in DOMAIN init'.read : init'.read[f] = disk[f]
    BY <2>2
  <2>4. DOMAIN init'.read \subseteq File
    BY <2>3 DEF File
  <2> QED BY <2>1, <2>2, <2>3, <2>4, InitGoesOn
<1>2. CASE InitReads
  <2> DEFINE plan == PlanConfig(disk["downtrace.json"], project.test)
             new  == MissingOf(project, plan)
             texts == [f \in {"package.json", "downtrace.json", "hook"} |->
                         IF f = "package.json" THEN init.read[f] ELSE disk[f]]
  <2>1. init.phase = "reading" /\ UNCHANGED <<project, disk, saved, fate>>
    BY <1>2 DEF InitReads
  <2>2. ~init.opened /\ (\A f \in DOMAIN init.read : Agrees(f)) /\ DOMAIN init.read = {"package.json"}
    BY <1>0, <2>1 DEF HeldOK
  <2>3. CASE init.outcome = "failed" \/ plan = "refuse"
    BY <1>2, <2>1, <2>2, <2>3, InitGivesUp DEF InitReads
  <2>4. CASE ~(init.outcome = "failed" \/ plan = "refuse")
    <3>1. init' = [init EXCEPT !.phase = "planning", !.missing = new, !.read = texts]
      BY <1>2, <2>4 DEF InitReads
    <3>2. new = {} => plan \in {"create", "update", "keep"}
      <4>1. "no-test-command" \in new <=> plan = "none"
        BY DEF MissingOf
      <4>2. plan \in {"create", "update", "keep", "none", "refuse"}
        BY DEF PlanConfig
      <4> QED BY <2>4, <4>1, <4>2
    <3>3. texts["downtrace.json"] = disk["downtrace.json"]
      OBVIOUS
    <3>4. DOMAIN texts = {"package.json", "downtrace.json", "hook"}
      OBVIOUS
    <3>5. \A f \in DOMAIN texts : texts[f] = disk[f] \/ (f \in DOMAIN init.read /\ texts[f] = init.read[f])
      BY <2>2
    <3> HIDE DEF texts, new
    <3>6. /\ init'.phase = "planning" /\ init'.read = texts /\ init'.missing = new
          /\ init' \in [phase : {"reading", "planning", "planned"}, read : {init'.read}, writes : {<<>>},
                        missing : {init'.missing}, opened : {FALSE},
                        outcome : {"none", "failed", "configured", "incomplete"}]
      BY <1>0, <2>1, <3>1 DEF InitTypeOK, HeldOK
    <3>7. DOMAIN texts \subseteq File
      BY <3>4 DEF File
    <3> QED BY <2>1, <2>2, <3>2, <3>3, <3>4, <3>5, <3>6, <3>7, InitGoesOn
  <2> QED BY <2>3, <2>4
<1>3. CASE InitPlans
  <2> DEFINE texts == [f \in File |-> IF f \in DOMAIN init.read THEN init.read[f] ELSE disk[f]]
  <2>1. /\ init.phase = "planning" /\ UNCHANGED <<project, disk, saved, fate>>
        /\ init' = [init EXCEPT !.phase = "planned", !.read = texts]
    BY <1>3 DEF InitPlans
  <2>2. /\ \A f \in DOMAIN init.read : Agrees(f)
        /\ DOMAIN init.read = {"package.json", "downtrace.json", "hook"}
        /\ init.missing = {} =>
             PlanConfig(init.read["downtrace.json"], project.test) \in {"create", "update", "keep"}
    BY <1>0, <2>1 DEF HeldOK
  <2>3. texts["downtrace.json"] = init.read["downtrace.json"] /\ DOMAIN texts = File
    BY <2>2 DEF File
  <2>4. \A f \in DOMAIN texts : texts[f] = disk[f] \/ (f \in DOMAIN init.read /\ texts[f] = init.read[f])
    OBVIOUS
  <2> HIDE DEF texts
  <2>5. /\ init'.phase = "planned" /\ init'.read = texts /\ init'.missing = init.missing
        /\ init' \in [phase : {"reading", "planning", "planned"}, read : {init'.read}, writes : {<<>>},
                      missing : {init'.missing}, opened : {FALSE},
                      outcome : {"none", "failed", "configured", "incomplete"}]
    BY <1>0, <2>1 DEF InitTypeOK, HeldOK
  <2> QED BY <2>1, <2>2, <2>3, <2>4, <2>5, InitGoesOn
<1>4. CASE InitFails
  BY <1>4, InitGivesUp DEF InitFails
<1> QED BY <1>1, <1>2, <1>3, <1>4

\* Writes of files whose turns are in a range, each to come, in order.
Planned(s, low, high) ==
  /\ s \in Seq(WriteType) /\ InTurn(s)
  /\ \A i \in DOMAIN s : WriteOK(s[i]) /\ low <= Turn(s[i].file) /\ Turn(s[i].file) <= high

\* What is planned after another plan.
LEMMA PlannedJoin ==
  ASSUME NEW s, NEW t, NEW a \in Nat, NEW b \in Nat, NEW c \in Nat, NEW d \in Nat,
         Planned(s, a, b), Planned(t, c, d), b < c, a <= b, c <= d
  PROVE  Planned(s \o t, a, d) /\ \A f : Has(s \o t, f) <=> Has(s, f) \/ Has(t, f)
<1>1. s \in Seq(WriteType) /\ t \in Seq(WriteType)
  BY DEF Planned
<1> DEFINE u == s \o t
<1>2. /\ u \in Seq(WriteType) /\ DOMAIN u = 1 .. Len(s) + Len(t)
      /\ DOMAIN s = 1 .. Len(s) /\ DOMAIN t = 1 .. Len(t) /\ Len(s) \in Nat /\ Len(t) \in Nat
      /\ \A i \in 1 .. Len(s) + Len(t) : u[i] = IF i <= Len(s) THEN s[i] ELSE t[i - Len(s)]
  BY <1>1
<1> HIDE DEF u
<1>3. ASSUME NEW i \in DOMAIN u
      PROVE  \/ i <= Len(s) /\ i \in DOMAIN s /\ u[i] = s[i]
             \/ i > Len(s) /\ i - Len(s) \in DOMAIN t /\ u[i] = t[i - Len(s)]
  BY <1>2, <1>3
<1>4. \A i \in DOMAIN s : i \in DOMAIN u /\ u[i] = s[i]
  BY <1>2
<1>5. \A j \in DOMAIN t : Len(s) + j \in DOMAIN u /\ u[Len(s) + j] = t[j]
  BY <1>2
<1>6. \A f : Has(u, f) <=> Has(s, f) \/ Has(t, f)
  BY <1>3, <1>4, <1>5 DEF Has
<1>7. \A w \in WriteType : Turn(w.file) \in Nat
  BY DEF Turn
<1>8. \A i \in DOMAIN u : WriteOK(u[i]) /\ a <= Turn(u[i].file) /\ Turn(u[i].file) <= d
  <2> SUFFICES ASSUME NEW i \in DOMAIN u
               PROVE  WriteOK(u[i]) /\ a <= Turn(u[i].file) /\ Turn(u[i].file) <= d
    OBVIOUS
  <2>1. u[i] \in WriteType /\ Turn(u[i].file) \in Nat
    BY <1>2, <1>7
  <2>2. CASE i \in DOMAIN s /\ u[i] = s[i]
    BY <2>1, <2>2 DEF Planned
  <2>3. CASE i - Len(s) \in DOMAIN t /\ u[i] = t[i - Len(s)]
    BY <2>1, <2>3 DEF Planned
  <2> QED BY <1>3, <2>2, <2>3
<1>9. InTurn(u)
  <2> SUFFICES ASSUME NEW i \in DOMAIN u, NEW j \in DOMAIN u, i < j
               PROVE  Turn(u[i].file) < Turn(u[j].file)
    BY DEF InTurn
  <2>0. i \in Int /\ j \in Int
    BY <1>2
  <2>1. CASE j <= Len(s)
    <3>1. i \in DOMAIN s /\ j \in DOMAIN s /\ u[i] = s[i] /\ u[j] = s[j]
      BY <1>2, <1>3, <2>0, <2>1
    <3> QED BY <3>1 DEF Planned, InTurn
  <2>2. CASE i <= Len(s) /\ j > Len(s)
    <3>1. i \in DOMAIN s /\ j - Len(s) \in DOMAIN t /\ u[i] = s[i] /\ u[j] = t[j - Len(s)]
      BY <1>2, <1>3, <2>0, <2>2
    <3>2. Turn(u[i].file) <= b /\ c <= Turn(u[j].file)
      BY <3>1 DEF Planned
    <3>3. Turn(u[i].file) \in Nat /\ Turn(u[j].file) \in Nat
      BY <1>2, <1>7
    <3> QED BY <3>2, <3>3
  <2>3. CASE i > Len(s)
    <3>1. /\ i - Len(s) \in DOMAIN t /\ j - Len(s) \in DOMAIN t /\ i - Len(s) < j - Len(s)
          /\ u[i] = t[i - Len(s)] /\ u[j] = t[j - Len(s)]
      BY <1>2, <1>3, <2>0, <2>3
    <3> QED BY <3>1 DEF Planned, InTurn
  <2> QED BY <1>2, <2>0, <2>1, <2>2, <2>3
<1> QED BY <1>2, <1>6, <1>8, <1>9 DEF Planned, u

\* A plan of one write, or of none.
LEMMA PlannedOne ==
  /\ \A n \in Nat : Planned(<<>>, n, n)
  /\ \A w : WriteOK(w) => Planned(<<w>>, Turn(w.file), Turn(w.file)) /\ Turn(w.file) \in Nat
  /\ \A f : ~Has(<<>>, f)
  /\ \A w, f : Has(<<w>>, f) <=> w.file = f
<1>1. \A n \in Nat : Planned(<<>>, n, n)
  BY DEF Planned, InTurn
<1>2. ASSUME NEW w, WriteOK(w)
      PROVE  Planned(<<w>>, Turn(w.file), Turn(w.file)) /\ Turn(w.file) \in Nat
  <2>1. w \in WriteType
    BY <1>2 DEF WriteOK
  <2>2. <<w>> \in Seq(WriteType) /\ DOMAIN <<w>> = {1} /\ <<w>>[1] = w
    BY <2>1
  <2>3. Turn(w.file) \in Nat
    BY DEF Turn
  <2>4. InTurn(<<w>>)
    BY <2>2 DEF InTurn
  <2> QED BY <1>2, <2>2, <2>3, <2>4 DEF Planned
<1>3. \A f : ~Has(<<>>, f)
  BY DEF Has
<1>4. \A w, f : Has(<<w>>, f) <=> w.file = f
  BY DEF Has
<1> QED BY <1>1, <1>2, <1>3, <1>4

\* The text a write has is the one that was read, with init's part.
LEMMA WritesWhatIsMissing ==
  ASSUME InitTypeOK, HeldOK, init.phase = "planned", NEW f \in File, NEW create \in BOOLEAN,
         ~init.read[f].ours
  PROVE  /\ WriteOK(Write(f, create)) /\ Write(f, create).file = f
         /\ f = "package.json" => WriteOK([Write(f, create) EXCEPT !.text.ours = ~project.twin])
         /\ [Write(f, create) EXCEPT !.text.ours = ~project.twin].file = f
<1>1. Agrees(f) /\ init.read[f] \in TextType
  BY DEF HeldOK, InitTypeOK
<1> DEFINE person == init.read[f].person
<1>2. person \in Nat /\ (person = saved[f] \/ Lost(f)) /\ ~disk[f].ours
  BY <1>1 DEF Agrees, TextType
<1>3. PICK w : w = [file |-> f, create |-> create, text |-> [kind |-> "text", person |-> person, ours |-> TRUE]]
  OBVIOUS
<1>4. PICK o \in BOOLEAN : o = ~project.twin
  OBVIOUS
<1>5. PICK x : x = [file |-> f, create |-> create, text |-> [kind |-> "text", person |-> person, ours |-> o]]
  OBVIOUS
<1>6. Write(f, create) = w /\ [Write(f, create) EXCEPT !.text.ours = ~project.twin] = x
  BY <1>3, <1>4, <1>5 DEF Write, Text, Holds
<1> HIDE DEF person
<1>7. /\ w \in WriteType /\ w.file = f /\ w.text.kind = "text" /\ w.text.ours = TRUE
      /\ w.text.person = person
  BY <1>2, <1>3 DEF WriteType, TextType
<1>8. /\ x \in WriteType /\ x.file = f /\ x.text.kind = "text" /\ x.text.ours = o
      /\ x.text.person = person
  BY <1>2, <1>5 DEF WriteType, TextType
<1>9. WriteOK(w) /\ (f = "package.json" => WriteOK(x))
  BY <1>2, <1>4, <1>7, <1>8 DEF WriteOK, Twin
<1> QED BY <1>6, <1>7, <1>8, <1>9

\* What is planned for check's configuration, which is then there.
LEMMA ConfigPlanned ==
  ASSUME InitTypeOK, DiskOK, HeldOK, init.phase = "planned", NEW s, NEW plan,
         plan = PlanConfig(init.read["downtrace.json"], project.test), s = ConfigWrites(plan)
  PROVE  /\ Planned(s, 1, 1)
         /\ plan \in {"create", "update", "keep"} =>
              disk["downtrace.json"].ours \/ Has(s, "downtrace.json")
<1>1. "downtrace.json" \in File /\ Agrees("downtrace.json")
  BY DEF File, HeldOK
<1>2. plan \in {"create", "update"} => ~init.read["downtrace.json"].ours
  <2>1. init.read["downtrace.json"].kind # "text" => ~init.read["downtrace.json"].ours
    BY <1>1 DEF DiskOK, Agrees
  <2> QED BY <2>1 DEF PlanConfig
<1>3. CASE plan \in {"create", "update"}
  <2>1. PICK w : w = Write("downtrace.json", plan = "create")
    OBVIOUS
  <2>2. WriteOK(w) /\ w.file = "downtrace.json"
    BY <1>1, <1>2, <1>3, <2>1, WritesWhatIsMissing
  <2>3. s = <<w>>
    BY <1>3, <2>1 DEF ConfigWrites
  <2>4. Turn(w.file) = 1
    BY <2>2 DEF Turn
  <2> QED BY <2>2, <2>3, <2>4, PlannedOne
<1>4. CASE plan \notin {"create", "update"}
  <2>1. s = <<>>
    BY <1>4 DEF ConfigWrites
  <2>2. plan = "keep" => init.read["downtrace.json"].ours
    BY DEF PlanConfig
  <2> QED BY <1>1, <1>4, <2>1, <2>2, PlannedOne DEF Agrees
<1> QED BY <1>3, <1>4

\* What is planned for the hook of the framework, when nothing is missing of it.
LEMMA HookPlanned ==
  ASSUME InitTypeOK, DiskOK, HeldOK, init.phase = "planned", NEW plan, plan = HookPlan(project)
  PROVE  /\ Planned(plan.writes, 2, 2)
         /\ plan.missing = {} /\ NextBuild(project) => disk["hook"].ours \/ Has(plan.writes, "hook")
<1>1. "hook" \in File /\ Agrees("hook")
  BY DEF File, HeldOK
<1> DEFINE existing == init.read["hook"].kind # "absent"
           writes == IF NextBuild(project) /\ ~existing /\ plan.missing = {} THEN <<Write("hook", TRUE)>>
                     ELSE <<>>
<1>2. plan.writes = writes
  BY DEF HookPlan, Holds
<1>3. NextBuild(project) /\ existing /\ ~init.read["hook"].ours => plan.missing # {}
  <2>1. NextBuild(project) /\ existing /\ ~init.read["hook"].ours => plan.missing = {"instrumentation-exists"}
    BY DEF HookPlan, Holds
  <2> QED BY <2>1
<1>4. CASE NextBuild(project) /\ ~existing /\ plan.missing = {}
  <2>1. PICK w : w = Write("hook", TRUE)
    OBVIOUS
  <2>2. ~init.read["hook"].ours
    BY <1>1, <1>4 DEF Agrees, DiskOK
  <2>3. WriteOK(w) /\ w.file = "hook"
    BY <1>1, <2>1, <2>2, WritesWhatIsMissing
  <2>4. plan.writes = <<w>> /\ Turn(w.file) = 2
    BY <1>2, <1>4, <2>1, <2>3 DEF Turn
  <2> QED BY <2>3, <2>4, PlannedOne
<1>5. CASE ~(NextBuild(project) /\ ~existing /\ plan.missing = {})
  <2>1. plan.writes = <<>>
    BY <1>2, <1>5
  <2> QED BY <1>1, <1>3, <1>5, <2>1, PlannedOne DEF Agrees
<1> QED BY <1>4, <1>5

\* A file that is written only if it lacks init's part.
LEMMA PlannedIf ==
  ASSUME NEW n \in Nat, NEW done \in BOOLEAN, NEW w, NEW s, s = IF done THEN <<>> ELSE <<w>>,
         ~done => WriteOK(w) /\ Turn(w.file) = n
  PROVE  Planned(s, n, n) /\ \A f : Has(s, f) <=> ~done /\ w.file = f
<1>1. CASE done
  BY <1>1, PlannedOne
<1>2. CASE ~done
  BY <1>2, PlannedOne
<1> QED BY <1>1, <1>2

\* The instrument file is planned before what loads it.
LEMMA InstrumentPlanned ==
  ASSUME InitTypeOK, DiskOK, HeldOK, init.phase = "planned", NEW plan, plan = PlanInstrument(project)
  PROVE  /\ Planned(plan.writes, 3, 4)
         /\ Has(plan.writes, "entry") => disk["instrument"].kind # "absent" \/ Has(plan.writes, "instrument")
         /\ plan.missing = {} /\ ~project.next /\ project.agent = "production" =>
              /\ project.esm => disk["package.json"].ours \/ Has(plan.writes, "package.json")
              /\ ~project.esm => disk["entry"].ours \/ Has(plan.writes, "entry")
              /\ disk["instrument"].kind # "absent" \/ Has(plan.writes, "instrument")
<1> DEFINE layout == InstrumentLayout(project)
           absent == init.read["instrument"].kind = "absent"
           file == IF absent THEN <<Write("instrument", TRUE)>> ELSE <<>>
           entry == IF LoadsInstrument(init.read["entry"]) THEN <<>> ELSE <<Write("entry", FALSE)>>
           flag == IF LoadsInstrument(init.read["package.json"]) THEN <<>>
                   ELSE <<[Write("package.json", FALSE) EXCEPT !.text.ours = ~project.twin]>>
<1>1. /\ {"instrument", "entry", "package.json"} \subseteq File
      /\ Agrees("instrument") /\ Agrees("entry") /\ Agrees("package.json")
  BY DEF File, HeldOK
<1>2. /\ project.next \/ layout = "skipped" => plan.writes = <<>>
      /\ ~project.next /\ layout = "unknown" => plan.writes = <<>> /\ plan.missing # {}
      /\ ~project.next /\ layout = "entry" => plan.writes = file \o entry
      /\ ~project.next /\ layout = "flag" =>
           (plan.writes = file /\ plan.missing # {}) \/ plan.writes = file \o flag
  <2>1. "no-entry" \in {"no-entry"} /\ "no-start-script" \in {"no-start-script"}
    OBVIOUS
  <2>2. CASE project.next \/ layout = "skipped"
    BY <2>2 DEF PlanInstrument, Holds, InstrumentLayout
  <2>3. CASE ~project.next /\ layout = "unknown"
    BY <2>1, <2>3 DEF PlanInstrument, Holds
  <2>4. CASE ~project.next /\ layout = "entry"
    BY <2>4 DEF PlanInstrument, Holds
  <2>5. CASE ~project.next /\ layout = "flag"
    BY <2>1, <2>5 DEF PlanInstrument, Holds
  <2> QED BY <2>2, <2>3, <2>4, <2>5
<1>3. /\ layout \in {"skipped", "flag", "unknown", "entry"}
      /\ project.agent = "production" => layout # "skipped"
      /\ layout = "flag" => project.esm
      /\ layout = "entry" => ~project.esm
  BY DEF InstrumentLayout
<1>4. Planned(file, 3, 3) /\ \A f : Has(file, f) <=> absent /\ f = "instrument"
  <2>1. PICK w : w = Write("instrument", TRUE)
    OBVIOUS
  <2>2. absent => ~init.read["instrument"].ours
    BY <1>1 DEF Agrees, DiskOK
  <2>3. absent => WriteOK(w) /\ w.file = "instrument" /\ Turn(w.file) = 3
    BY <1>1, <2>1, <2>2, WritesWhatIsMissing DEF Turn
  <2>4. PICK done \in BOOLEAN : done = ~absent
    OBVIOUS
  <2>5. file = IF done THEN <<>> ELSE <<w>>
    BY <2>1, <2>4
  <2> HIDE DEF file, absent
  <2> QED BY <2>3, <2>4, <2>5, PlannedIf, ZenonT(40)
<1>5. Planned(entry, 4, 4) /\ \A f : Has(entry, f) <=> ~init.read["entry"].ours /\ f = "entry"
  <2>1. PICK w : w = Write("entry", FALSE)
    OBVIOUS
  <2>2. PICK done \in BOOLEAN : done = init.read["entry"].ours
    BY <1>1 DEF InitTypeOK, HeldOK, TextType
  <2>3. ~done => WriteOK(w) /\ w.file = "entry" /\ Turn(w.file) = 4
    BY <1>1, <2>1, <2>2, WritesWhatIsMissing DEF Turn
  <2>4. entry = IF done THEN <<>> ELSE <<w>>
    BY <2>1, <2>2 DEF LoadsInstrument
  <2> HIDE DEF entry
  <2> QED BY <2>2, <2>3, <2>4, PlannedIf
<1>6. Planned(flag, 4, 4) /\ \A f : Has(flag, f) <=> ~init.read["package.json"].ours /\ f = "package.json"
  <2>1. PICK w : w = [Write("package.json", FALSE) EXCEPT !.text.ours = ~project.twin]
    OBVIOUS
  <2>2. PICK done \in BOOLEAN : done = init.read["package.json"].ours
    BY <1>1 DEF InitTypeOK, HeldOK, TextType
  <2>3. ~done => WriteOK(w) /\ w.file = "package.json" /\ Turn(w.file) = 4
    BY <1>1, <2>1, <2>2, WritesWhatIsMissing DEF Turn
  <2>4. flag = IF done THEN <<>> ELSE <<w>>
    BY <2>1, <2>2 DEF LoadsInstrument
  <2> HIDE DEF flag
  <2> QED BY <2>2, <2>3, <2>4, PlannedIf
<1>7. /\ absent <=> disk["instrument"].kind = "absent"
      /\ init.read["entry"].ours <=> disk["entry"].ours
      /\ init.read["package.json"].ours <=> disk["package.json"].ours
  BY <1>1 DEF Agrees
<1> HIDE DEF layout, absent, file, entry, flag
<1>8. /\ Planned(file \o entry, 3, 4)
      /\ \A f : Has(file \o entry, f) <=> Has(file, f) \/ Has(entry, f)
  BY <1>4, <1>5, PlannedJoin
<1>9. /\ Planned(file \o flag, 3, 4)
      /\ \A f : Has(file \o flag, f) <=> Has(file, f) \/ Has(flag, f)
  BY <1>4, <1>6, PlannedJoin
<1>10. Planned(<<>>, 3, 4) /\ Planned(file, 3, 4) /\ \A f : ~Has(<<>>, f)
  <2>1. Planned(<<>>, 3, 4)
    BY DEF Planned, InTurn
  <2>2. Planned(file, 3, 4)
    <3>1. \A i \in DOMAIN file : Turn(file[i].file) <= 4
      BY DEF Turn
    <3> QED BY <1>4, <3>1 DEF Planned
  <2> QED BY <2>1, <2>2, PlannedOne
<1>11. CASE project.next \/ layout = "skipped"
  BY <1>2, <1>3, <1>10, <1>11
<1>12. CASE ~project.next /\ layout = "unknown"
  BY <1>2, <1>10, <1>12
<1>13. CASE ~project.next /\ layout = "entry"
  BY <1>2, <1>3, <1>4, <1>5, <1>7, <1>8, <1>13
<1>14. CASE ~project.next /\ layout = "flag"
  BY <1>2, <1>3, <1>4, <1>6, <1>7, <1>9, <1>10, <1>14
<1> QED BY <1>3, <1>11, <1>12, <1>13, <1>14

\* Everything read, init settles what it writes.
LEMMA InitSettlesKeeps ==
  ASSUME InitIInv, InitSettles
  PROVE  InitIInv'
<1>0. InitTypeOK /\ DiskOK /\ HeldOK /\ WritesOK
  BY DEF InitIInv
<1> DEFINE plan == PlanConfig(init.read["downtrace.json"], project.test)
           config == ConfigWrites(plan)
           hook == HookPlan(project)
           instrument == PlanInstrument(project)
           writes == config \o hook.writes \o instrument.writes
<1>1. /\ init.phase = "planned" /\ UNCHANGED <<project, disk, runs, saved, fate>>
      /\ init' = [init EXCEPT !.phase = "writing",
                    !.missing = init.missing \cup hook.missing \cup instrument.missing, !.writes = writes]
  BY DEF InitSettles, Holds
<1>2. /\ Planned(config, 1, 1)
      /\ plan \in {"create", "update", "keep"} => disk["downtrace.json"].ours \/ Has(config, "downtrace.json")
  BY <1>0, <1>1, ConfigPlanned
<1>3. /\ Planned(hook.writes, 2, 2)
      /\ hook.missing = {} /\ NextBuild(project) => disk["hook"].ours \/ Has(hook.writes, "hook")
  BY <1>0, <1>1, HookPlanned
<1>4. /\ Planned(instrument.writes, 3, 4)
      /\ Has(instrument.writes, "entry") =>
           disk["instrument"].kind # "absent" \/ Has(instrument.writes, "instrument")
      /\ instrument.missing = {} /\ ~project.next /\ project.agent = "production" =>
              /\ project.esm => disk["package.json"].ours \/ Has(instrument.writes, "package.json")
              /\ ~project.esm => disk["entry"].ours \/ Has(instrument.writes, "entry")
              /\ disk["instrument"].kind # "absent" \/ Has(instrument.writes, "instrument")
  BY <1>0, <1>1, InstrumentPlanned
<1>5. /\ init.opened = FALSE /\ DOMAIN init.read = File
      /\ init.missing = {} => plan \in {"create", "update", "keep"}
  BY <1>0, <1>1 DEF HeldOK, InitTypeOK
<1> HIDE DEF plan, config, hook, instrument
<1>6. /\ Planned(config \o hook.writes, 1, 2)
      /\ \A f : Has(config \o hook.writes, f) <=> Has(config, f) \/ Has(hook.writes, f)
  BY <1>2, <1>3, PlannedJoin
<1>7. /\ Planned(writes, 1, 4)
      /\ \A f : Has(writes, f) <=> Has(config, f) \/ Has(hook.writes, f) \/ Has(instrument.writes, f)
  BY <1>4, <1>6, PlannedJoin
<1>8. Has(writes, "entry") => Has(instrument.writes, "entry")
  <2>1. ~Has(config, "entry") /\ ~Has(hook.writes, "entry")
    BY <1>2, <1>3 DEF Planned, Has, Turn
  <2> QED BY <1>7, <2>1
<1> HIDE DEF writes
<1>9. /\ init'.phase = "writing" /\ init'.opened = FALSE /\ init'.writes = writes /\ init'.read = init.read
      /\ init'.missing = init.missing \cup hook.missing \cup instrument.missing
      /\ init' \in [phase : {"reading", "planning", "planned", "writing", "ended"}, read : {init'.read},
                    writes : Seq(WriteType), missing : {init'.missing}, opened : BOOLEAN,
                    outcome : {"none", "failed", "configured", "incomplete"}]
  <2>1. PICK missing : missing = init.missing \cup hook.missing \cup instrument.missing
    OBVIOUS
  <2>2. writes \in Seq(WriteType)
    BY <1>7 DEF Planned
  <2>3. init' = [init EXCEPT !.phase = "writing", !.missing = missing, !.writes = writes]
    BY <1>1, <2>1
  <2>4. init \in [phase : {"reading", "planning", "planned", "writing", "ended"}, read : {init.read},
                  writes : Seq(WriteType), missing : {init.missing}, opened : BOOLEAN,
                  outcome : {"none", "failed", "configured", "incomplete"}]
    BY <1>0 DEF InitTypeOK
  <2>5. /\ init'.phase = "writing" /\ init'.opened = FALSE /\ init'.writes = writes /\ init'.read = init.read
        /\ init'.missing = missing
    BY <1>5, <2>3, <2>4
  <2> QED BY <2>1, <2>2, <2>3, <2>4, <2>5
<1>10. InitTypeOK'
  BY <1>0, <1>1, <1>9 DEF InitTypeOK
<1>11. DiskOK'
  BY <1>0, <1>1, <1>5, <1>9 DEF DiskOK, Lost, Opened, Twin
<1>12. HeldOK'
  BY <1>5, <1>9 DEF HeldOK
<1>13. \A f : Pending(f)' <=> Has(writes, f)
  BY <1>9 DEF Pending, Has
<1>14. WritesOK'
  <2>1. InTurn(init.writes)'
    BY <1>7, <1>9 DEF Planned, InTurn
  <2>2. ASSUME NEW i \in DOMAIN init'.writes
        PROVE  WriteOK(init.writes[i])'
    <3>1. WriteOK(writes[i])
      BY <1>7, <1>9, <2>2 DEF Planned
    <3> QED BY <1>1, <1>9, <3>1 DEF WriteOK, Lost, Twin
  <2>3. Pending("entry")' => disk'["instrument"].kind # "absent" \/ Pending("instrument")'
    BY <1>1, <1>4, <1>7, <1>8, <1>13
  <2> QED BY <1>9, <2>1, <2>2, <2>3 DEF WritesOK
<1>15. GoalsOK'
  <2> SUFFICES ASSUME init'.missing = {} PROVE Configured'
    BY <1>9 DEF GoalsOK
  <2>1. init.missing = {} /\ hook.missing = {} /\ instrument.missing = {}
    BY <1>9
  <2>2. \A f \in File : disk[f].ours \/ Has(writes, f) => Given(f)'
    BY <1>1, <1>9, <1>13 DEF Given
  <2>3. disk["instrument"].kind = "cut" => "instrument" \in fate.cut
    BY <1>0, <1>1, <1>5 DEF DiskOK, Opened, File
  <2>4. disk["instrument"].kind \in {"absent", "cut", "text"}
    <3>1. disk["instrument"] \in TextType
      BY <1>0 DEF InitTypeOK, File
    <3> QED BY <3>1 DEF TextType
  <2>5. Given("downtrace.json")'
    BY <1>2, <1>5, <1>7, <2>1, <2>2 DEF File
  <2>6. NextBuild(project) => Given("hook")'
    BY <1>3, <1>7, <2>1, <2>2 DEF File
  <2>7. ~project.next /\ project.agent = "production" =>
          /\ project.esm => Given("package.json")'
          /\ ~project.esm => Given("entry")'
          /\ disk["instrument"].kind = "text" \/ "instrument" \in fate.cut \/ Has(writes, "instrument")
    BY <1>4, <1>7, <2>1, <2>2, <2>3, <2>4 DEF File
  <2>8. NextBuild(project)' = NextBuild(project)
    BY <1>1 DEF NextBuild
  <2>9. CASE project.esm
    BY <1>1, <1>9, <1>13, <2>5, <2>6, <2>7, <2>8, <2>9 DEF Configured
  <2>10. CASE ~project.esm
    BY <1>1, <1>9, <1>13, <2>5, <2>6, <2>7, <2>8, <2>10 DEF Configured
  <2> QED BY <2>9, <2>10
<1> QED BY <1>10, <1>11, <1>12, <1>14, <1>15 DEF InitIInv

\* A write opens its file, and empties it; a file that should not be there ends the run.
LEMMA InitOpensKeeps ==
  ASSUME InitIInv, InitOpens
  PROVE  InitIInv'
<1>0. InitTypeOK /\ DiskOK /\ HeldOK /\ WritesOK /\ GoalsOK
  BY DEF InitIInv
<1>1. /\ init.phase = "writing" /\ init.writes # <<>> /\ ~init.opened
      /\ UNCHANGED <<project, runs, saved, fate>>
  BY DEF InitOpens
<1>2. PICK write : write = init.writes[1]
  OBVIOUS
<1>3. /\ write = Head(init.writes) /\ 1 \in DOMAIN init.writes /\ WriteOK(write)
      /\ write.file \in File /\ Pending(write.file)
  <2>1. init.writes \in Seq(WriteType)
    BY <1>0 DEF InitTypeOK
  <2>2. write = Head(init.writes) /\ 1 \in DOMAIN init.writes
    BY <1>1, <1>2, <2>1
  <2>3. WriteOK(write)
    BY <1>0, <1>1, <1>2, <2>2 DEF WritesOK
  <2>4. Pending(write.file)
    BY <1>2, <2>2 DEF Pending, Has
  <2> QED BY <2>2, <2>3, <2>4 DEF WriteOK, WriteType
<1>4. CASE write.create /\ disk[write.file].kind # "absent"
  BY <1>1, <1>3, <1>4, InitGivesUp DEF InitOpens
<1>5. CASE ~(write.create /\ disk[write.file].kind # "absent")
  <2>1. init' = [init EXCEPT !.opened = TRUE] /\ disk' = [disk EXCEPT ![write.file] = Cut]
    BY <1>3, <1>5 DEF InitOpens
  <2>2. /\ init'.phase = "writing" /\ init'.opened = TRUE /\ init'.writes = init.writes
        /\ init'.read = init.read /\ init'.missing = init.missing
        /\ init' \in [phase : {"reading", "planning", "planned", "writing", "ended"}, read : {init'.read},
                      writes : Seq(WriteType), missing : {init'.missing}, opened : BOOLEAN,
                      outcome : {"none", "failed", "configured", "incomplete"}]
    BY <1>0, <1>1, <2>1 DEF InitTypeOK
  <2>3. /\ disk' \in [File -> TextType] /\ disk'[write.file].kind = "cut" /\ ~disk'[write.file].ours
        /\ \A f \in File \ {write.file} : disk'[f] = disk[f]
    <3>1. Cut \in TextType /\ Cut.kind = "cut" /\ Cut.ours = FALSE
      BY DEF Cut, TextType
    <3> QED BY <1>0, <1>3, <2>1, <3>1 DEF InitTypeOK
  <2>4. InitTypeOK'
    BY <1>0, <1>1, <2>2, <2>3 DEF InitTypeOK
  <2>5. \A f \in File : (Opened(f)' <=> f = write.file) /\ ~Opened(f) /\ (Lost(f)' <=> Lost(f))
    BY <1>1, <1>2, <2>2 DEF Opened, Lost
  <2>6. ~disk[write.file].ours
    BY <1>3 DEF WriteOK
  <2>7. DiskOK'
    <3>1. \A f \in File : disk'[f].kind # "text" => ~disk'[f].ours
      BY <1>0, <2>3 DEF DiskOK
    <3>2. \A f \in File : disk'[f].person = saved'[f] \/ Lost(f)' \/ Opened(f)'
      BY <1>0, <1>1, <2>3, <2>5 DEF DiskOK
    <3>3. \A f \in File : disk'[f].kind = "cut" => f \in fate'.cut \/ (Opened(f)' /\ init'.phase = "writing")
      BY <1>0, <1>1, <2>2, <2>3, <2>5 DEF DiskOK
    <3>4. disk'["entry"].ours => disk'["instrument"].kind # "absent"
      <4>1. disk'["entry"].ours => disk["entry"].ours
        BY <2>3 DEF File
      <4>2. disk'["instrument"].kind # "absent" \/ disk'["instrument"] = disk["instrument"]
        BY <2>3 DEF File
      <4> QED BY <1>0, <4>1, <4>2 DEF DiskOK
    <3>5. \A f \in File : fate'.written[f] > 0 /\ ~Twin(f)' => disk'[f].ours /\ fate'.written[f] = 1
      <4> SUFFICES ASSUME NEW f \in File, fate.written[f] > 0, ~Twin(f)
                   PROVE  disk'[f].ours /\ fate'.written[f] = 1
        BY <1>1 DEF Twin
      <4>1. disk[f].ours /\ fate.written[f] = 1
        BY <1>0 DEF DiskOK
      <4> QED BY <1>1, <2>3, <2>6, <4>1
    <3> QED BY <3>1, <3>2, <3>3, <3>4, <3>5 DEF DiskOK
  <2>8. HeldOK'
    BY <1>0, <1>1, <2>2 DEF HeldOK
  <2>9. \A f : Pending(f)' <=> Pending(f)
    BY <2>2 DEF Pending, Has
  <2>10. WritesOK'
    <3>1. InTurn(init.writes)'
      BY <1>0, <2>2 DEF WritesOK, InTurn
    <3>2. ASSUME NEW i \in DOMAIN init'.writes
          PROVE  WriteOK(init.writes[i])'
      <4>1. PICK w : w = init.writes[i]
        OBVIOUS
      <4>2. WriteOK(w)
        BY <1>0, <1>1, <2>2, <3>2, <4>1 DEF WritesOK
      <4>3. ~disk'[w.file].ours
        BY <2>3, <4>2 DEF WriteOK, WriteType
      <4>4. WriteOK(w)'
        BY <1>1, <4>2, <4>3 DEF WriteOK, Lost, Twin
      <4>5. w = init'.writes[i]
        BY <2>2, <4>1
      <4> QED BY <4>4, <4>5 DEF WriteOK
    <3>3. Pending("entry")' => disk'["instrument"].kind # "absent" \/ Pending("instrument")'
      <4>1. disk'["instrument"].kind # "absent" \/ disk'["instrument"] = disk["instrument"]
        BY <2>3 DEF File
      <4> QED BY <1>0, <1>1, <2>9, <4>1 DEF WritesOK
    <3> QED BY <1>1, <2>2, <3>1, <3>2, <3>3 DEF WritesOK
  <2>11. GoalsOK'
    <3> SUFFICES ASSUME init'.missing = {} PROVE Configured'
      BY <2>2 DEF GoalsOK
    <3>1. Configured
      BY <1>0, <1>1, <2>2 DEF GoalsOK
    <3>2. \A f \in File : Given(f) => Given(f)'
      <4>1. Pending(write.file)'
        BY <1>3, <2>9
      <4> QED BY <2>2, <2>3, <2>9, <4>1 DEF Given
    <3>3. disk["instrument"].kind = "text" => disk'["instrument"].kind = "text" \/ Pending("instrument")'
      BY <1>3, <2>3, <2>9 DEF File
    <3>4. NextBuild(project)' = NextBuild(project)
      BY <1>1 DEF NextBuild
    <3>5. CASE project.esm
      BY <1>1, <2>2, <2>9, <3>1, <3>2, <3>3, <3>4, <3>5 DEF Configured, File, Twin
    <3>6. CASE ~project.esm
      BY <1>1, <2>2, <2>9, <3>1, <3>2, <3>3, <3>4, <3>6 DEF Configured, File, Twin
    <3> QED BY <3>5, <3>6
  <2> QED BY <2>4, <2>7, <2>8, <2>10, <2>11 DEF InitIInv
<1> QED BY <1>4, <1>5

\* The writes that are left when the first is done.
LEMMA WritesLeft ==
  ASSUME NEW s \in Seq(WriteType), s # <<>>, InTurn(s)
  PROVE  /\ Tail(s) \in Seq(WriteType) /\ InTurn(Tail(s))
         /\ \A i \in DOMAIN Tail(s) :
              /\ i + 1 \in DOMAIN s /\ Tail(s)[i] = s[i + 1] /\ Turn(s[1].file) < Turn(s[i + 1].file)
         /\ \A f : Has(s, f) <=> s[1].file = f \/ Has(Tail(s), f)
<1> DEFINE t == Tail(s)
<1>1. /\ t \in Seq(WriteType) /\ DOMAIN s = 1 .. Len(s) /\ Len(s) \in Nat /\ Len(s) > 0
      /\ DOMAIN t = 1 .. Len(s) - 1 /\ \A i \in 1 .. Len(s) - 1 : t[i] = s[i + 1]
  OBVIOUS
<1> HIDE DEF t
<1>2. \A i \in DOMAIN t : i + 1 \in DOMAIN s /\ t[i] = s[i + 1] /\ 1 < i + 1 /\ 1 \in DOMAIN s
  BY <1>1
<1>3. InTurn(t)
  BY <1>1, <1>2, SMTT(20) DEF InTurn
<1>4. \A i \in DOMAIN t : Turn(s[1].file) < Turn(s[i + 1].file)
  BY <1>2 DEF InTurn
<1>5. \A f : Has(s, f) <=> s[1].file = f \/ Has(t, f)
  <2>1. \A i \in DOMAIN s : i = 1 \/ (i - 1 \in DOMAIN t /\ t[i - 1] = s[i])
    BY <1>1
  <2>2. 1 \in DOMAIN s
    BY <1>1
  <2> QED BY <1>2, <2>1, <2>2 DEF Has
<1> QED BY <1>1, <1>2, <1>3, <1>4, <1>5 DEF t

\* A write fills what it opened, and the next comes.
LEMMA InitFillsKeeps ==
  ASSUME InitIInv, InitFills
  PROVE  InitIInv'
<1>0. InitTypeOK /\ DiskOK /\ HeldOK /\ WritesOK /\ GoalsOK
  BY DEF InitIInv
<1>1. init.phase = "writing" /\ init.opened /\ UNCHANGED <<project, runs, saved>>
  BY DEF InitFills
<1>2. init.writes \in Seq(WriteType) /\ init.writes # <<>> /\ InTurn(init.writes)
  BY <1>0, <1>1 DEF WritesOK, InitTypeOK
<1>3. PICK write : write = init.writes[1]
  OBVIOUS
<1>4. write = Head(init.writes) /\ 1 \in DOMAIN init.writes
  BY <1>2, <1>3
<1>5. WriteOK(write) /\ write.file \in File /\ write.text \in TextType
  <2>1. WriteOK(write)
    BY <1>0, <1>1, <1>3, <1>4 DEF WritesOK
  <2> QED BY <2>1 DEF WriteOK, WriteType
<1>6. /\ disk' = [disk EXCEPT ![write.file] = write.text]
      /\ fate' = [fate EXCEPT !.written[write.file] = @ + 1]
      /\ init' = [init EXCEPT !.opened = FALSE, !.writes = Tail(init.writes)]
  BY <1>4 DEF InitFills
<1>7. PICK rest : rest = Tail(init.writes)
  OBVIOUS
<1>8. /\ rest \in Seq(WriteType) /\ InTurn(rest)
      /\ \A i \in DOMAIN rest :
           /\ i + 1 \in DOMAIN init.writes /\ rest[i] = init.writes[i + 1]
           /\ Turn(write.file) < Turn(rest[i].file)
      /\ \A f : Pending(f) <=> write.file = f \/ Has(rest, f)
  BY <1>2, <1>3, <1>7, WritesLeft DEF Pending
<1>9. /\ init'.phase = "writing" /\ init'.opened = FALSE /\ init'.writes = rest
      /\ init'.read = init.read /\ init'.missing = init.missing
      /\ init' \in [phase : {"reading", "planning", "planned", "writing", "ended"}, read : {init'.read},
                    writes : Seq(WriteType), missing : {init'.missing}, opened : BOOLEAN,
                    outcome : {"none", "failed", "configured", "incomplete"}]
  BY <1>0, <1>1, <1>6, <1>7, <1>8 DEF InitTypeOK
<1>10. /\ disk' \in [File -> TextType] /\ disk'[write.file] = write.text
       /\ \A f \in File \ {write.file} : disk'[f] = disk[f]
  BY <1>0, <1>5, <1>6 DEF InitTypeOK
<1>11. /\ fate' \in [overtaken : SUBSET File, cut : SUBSET File, written : [File -> Nat]]
       /\ fate'.overtaken = fate.overtaken /\ fate'.cut = fate.cut
       /\ fate'.written[write.file] = fate.written[write.file] + 1
       /\ \A f \in File \ {write.file} : fate'.written[f] = fate.written[f]
  <2>1. PICK written : written = [fate.written EXCEPT ![write.file] = @ + 1]
    OBVIOUS
  <2>2. fate' = [fate EXCEPT !.written = written]
    BY <1>6, <2>1
  <2>3. fate \in [overtaken : SUBSET File, cut : SUBSET File, written : [File -> Nat]]
    BY <1>0 DEF InitTypeOK
  <2>4. fate.written \in [File -> Nat]
    BY <2>3
  <2>5. /\ written \in [File -> Nat] /\ written[write.file] = fate.written[write.file] + 1
        /\ \A f \in File \ {write.file} : written[f] = fate.written[f]
    BY <1>5, <2>1, <2>4
  <2> QED BY <2>2, <2>3, <2>5
<1>12. InitTypeOK'
  BY <1>0, <1>1, <1>9, <1>10, <1>11 DEF InitTypeOK
<1>13. \A f \in File : (Opened(f) <=> f = write.file) /\ ~Opened(f)' /\ (Lost(f)' <=> Lost(f))
  BY <1>1, <1>2, <1>3, <1>9, <1>11 DEF Opened, Lost
<1>14. \A f : Pending(f)' <=> Has(rest, f)
  BY <1>9 DEF Pending, Has
<1>15. /\ write.text.kind = "text" /\ (write.text.ours \/ Twin(write.file)) /\ ~disk[write.file].ours
       /\ write.text.person = saved[write.file] \/ Lost(write.file)
  BY <1>5 DEF WriteOK
<1>16. write.file = "entry" => disk["instrument"].kind # "absent"
  <2> SUFFICES ASSUME write.file = "entry"
               PROVE  disk["instrument"].kind # "absent"
    OBVIOUS
  <2>1. Pending("entry")
    BY <1>8
  <2>2. ~Has(rest, "instrument")
    BY <1>8 DEF Has, Turn
  <2>3. ~Pending("instrument")
    BY <1>8, <2>2
  <2> QED BY <1>0, <1>1, <2>1, <2>3 DEF WritesOK
<1>17. DiskOK'
  <2>1. \A f \in File : disk'[f].kind # "text" => ~disk'[f].ours
    BY <1>0, <1>10, <1>15 DEF DiskOK
  <2>2. \A f \in File : disk'[f].person = saved'[f] \/ Lost(f)' \/ Opened(f)'
    BY <1>0, <1>1, <1>10, <1>13, <1>15 DEF DiskOK
  <2>3. \A f \in File : disk'[f].kind = "cut" => f \in fate'.cut \/ (Opened(f)' /\ init'.phase = "writing")
    BY <1>0, <1>10, <1>11, <1>13, <1>15 DEF DiskOK
  <2>4. disk'["entry"].ours => disk'["instrument"].kind # "absent"
    <3>1. disk'["instrument"].kind # "absent" \/ disk'["instrument"] = disk["instrument"]
      BY <1>10, <1>15 DEF File
    <3>2. write.file # "entry" => disk'["entry"] = disk["entry"]
      BY <1>10 DEF File
    <3> QED BY <1>0, <1>16, <3>1, <3>2 DEF DiskOK
  <2>5. \A f \in File : fate'.written[f] > 0 /\ ~Twin(f)' => disk'[f].ours /\ fate'.written[f] = 1
    <3> SUFFICES ASSUME NEW f \in File, fate'.written[f] > 0, ~Twin(f)
                 PROVE  disk'[f].ours /\ fate'.written[f] = 1
      BY <1>1 DEF Twin
    <3>1. CASE f = write.file
      <4>1. fate.written[f] \in Nat
        BY <1>0 DEF InitTypeOK
      <4>2. ~(fate.written[f] > 0)
        BY <1>0, <1>15, <3>1 DEF DiskOK
      <4> QED BY <1>10, <1>11, <1>15, <3>1, <4>1, <4>2
    <3>2. CASE f # write.file
      BY <1>0, <1>10, <1>11, <3>2 DEF DiskOK
    <3> QED BY <3>1, <3>2
  <2> QED BY <2>1, <2>2, <2>3, <2>4, <2>5 DEF DiskOK
<1>18. HeldOK'
  BY <1>0, <1>1, <1>9 DEF HeldOK
<1>19. WritesOK'
  <2>1. InTurn(init.writes)'
    BY <1>8, <1>9 DEF InTurn
  <2>2. ASSUME NEW i \in DOMAIN init'.writes
        PROVE  WriteOK(init.writes[i])'
    <3>1. PICK w : w = rest[i]
      OBVIOUS
    <3>2. WriteOK(w) /\ w.file # write.file
      <4>1. WriteOK(w)
        BY <1>0, <1>1, <1>8, <1>9, <2>2, <3>1 DEF WritesOK
      <4>2. Turn(write.file) < Turn(w.file) /\ Turn(w.file) \in Nat
        BY <1>8, <1>9, <2>2, <3>1 DEF Turn
      <4> QED BY <4>1, <4>2
    <3>3. ~disk'[w.file].ours
      BY <1>10, <3>2 DEF WriteOK, WriteType
    <3>4. w.text.person = saved'[w.file] \/ Lost(w.file)'
      BY <1>1, <1>11, <3>2 DEF WriteOK, Lost
    <3>5. WriteOK(w)'
      BY <1>1, <3>2, <3>3, <3>4 DEF WriteOK, Twin
    <3> QED BY <1>9, <3>1, <3>5 DEF WriteOK
  <2>3. Pending("entry")' => disk'["instrument"].kind # "absent" \/ Pending("instrument")'
    <3>1. Pending("entry")' => Pending("entry")
      BY <1>8, <1>14
    <3>2. disk'["instrument"].kind # "absent" \/ disk'["instrument"] = disk["instrument"]
      BY <1>10, <1>15 DEF File
    <3>3. Pending("instrument") => Pending("instrument")' \/ disk'["instrument"].kind = "text"
      BY <1>8, <1>10, <1>14, <1>15
    <3> QED BY <1>0, <1>1, <3>1, <3>2, <3>3 DEF WritesOK
  <2> QED BY <1>9, <2>1, <2>2, <2>3 DEF WritesOK
<1>20. GoalsOK'
  <2> SUFFICES ASSUME init'.missing = {} PROVE Configured'
    BY <1>1, <1>9 DEF GoalsOK
  <2>1. Configured
    BY <1>0, <1>1, <1>9 DEF GoalsOK
  <2>2. \A f \in File : Given(f) => Given(f)' \/ Twin(f)
    <3> SUFFICES ASSUME NEW f \in File, disk[f].ours \/ Pending(f)
                 PROVE  disk'[f].ours \/ Pending(f)' \/ Twin(f)
      BY <1>9 DEF Given
    <3> QED BY <1>8, <1>10, <1>14, <1>15
  <2>3. disk["instrument"].kind = "text" \/ Pending("instrument") =>
          disk'["instrument"].kind = "text" \/ Pending("instrument")'
    BY <1>8, <1>10, <1>14, <1>15 DEF File
  <2>4. NextBuild(project)' = NextBuild(project)
    BY <1>1 DEF NextBuild
  <2>5. CASE project.esm
    BY <1>1, <1>9, <1>11, <2>1, <2>2, <2>3, <2>4, <2>5 DEF Configured, File, Twin
  <2>6. CASE ~project.esm
    BY <1>1, <1>9, <1>11, <2>1, <2>2, <2>3, <2>4, <2>6 DEF Configured, File, Twin
  <2> QED BY <2>5, <2>6
<1> QED BY <1>12, <1>17, <1>18, <1>19, <1>20 DEF InitIInv

\* init reports.
LEMMA InitReportsKeeps ==
  ASSUME InitIInv, InitReports
  PROVE  InitIInv'
<1>0. InitTypeOK /\ DiskOK /\ HeldOK /\ WritesOK /\ GoalsOK
  BY DEF InitIInv
<1>1. PICK outcome \in {"configured", "incomplete"} :
        /\ outcome = IF init.missing = {} THEN "configured" ELSE "incomplete"
        /\ init' = [init EXCEPT !.phase = "ended", !.outcome = outcome]
  BY DEF InitReports, Ended
<1>2. init.phase = "writing" /\ init.writes = <<>> /\ UNCHANGED <<project, disk, runs, saved, fate>>
  BY DEF InitReports
<1>3. ~init.opened
  BY <1>0, <1>2 DEF WritesOK
<1>4. /\ init'.phase = "ended" /\ init'.outcome = outcome /\ init'.read = init.read
      /\ init'.writes = <<>> /\ init'.opened = FALSE
      /\ init' \in [phase : {"reading", "planning", "planned", "writing", "ended"}, read : {init'.read},
                  writes : Seq(WriteType), missing : {init'.missing}, opened : BOOLEAN,
                  outcome : {"none", "failed", "configured", "incomplete"}]
  BY <1>0, <1>1, <1>2, <1>3 DEF InitTypeOK
<1>5. InitTypeOK'
  BY <1>0, <1>2, <1>4 DEF InitTypeOK
<1>6. DiskOK'
  BY <1>0, <1>2, <1>3, <1>4 DEF DiskOK, Lost, Opened, Twin
<1>7. HeldOK' /\ WritesOK'
  <2>1. InTurn(init.writes)'
    BY <1>4 DEF InTurn
  <2> QED BY <1>4, <2>1 DEF HeldOK, WritesOK
<1>8. GoalsOK'
  <2> SUFFICES ASSUME init'.outcome = "configured" PROVE Configured'
    BY <1>2, <1>4 DEF GoalsOK
  <2>1. Configured
    BY <1>0, <1>1, <1>2, <1>4 DEF GoalsOK
  <2>2. \A f : ~Pending(f)
    BY <1>2 DEF Pending, Has
  <2>3. \A f : Given(f) => Given(f)'
    BY <1>2, <2>2 DEF Given
  <2>4. NextBuild(project)' = NextBuild(project)
    BY <1>2 DEF NextBuild
  <2>5. CASE project.esm
    BY <1>2, <2>1, <2>2, <2>3, <2>4, <2>5 DEF Configured, File, Twin
  <2>6. CASE ~project.esm
    BY <1>2, <2>1, <2>2, <2>3, <2>4, <2>6 DEF Configured, File, Twin
  <2> QED BY <2>5, <2>6
<1> QED BY <1>5, <1>6, <1>7, <1>8 DEF InitIInv

\* The person saves: what init read of the file, if it did, is older.
LEMMA PersonSavesKeeps ==
  ASSUME InitIInv, NEW f \in Edited, PersonSaves(f)
  PROVE  InitIInv'
<1>0. InitTypeOK /\ DiskOK /\ HeldOK /\ WritesOK /\ GoalsOK
  BY DEF InitIInv
<1>1. /\ disk[f].kind = "text" /\ UNCHANGED <<project, init, runs>>
      /\ saved' = [saved EXCEPT ![f] = @ + 1]
      /\ disk' = [disk EXCEPT ![f].person = saved[f] + 1]
      /\ fate' = IF init.phase # "ended" /\ f \in DOMAIN init.read
                 THEN [fate EXCEPT !.overtaken = @ \cup {f}] ELSE fate
  BY DEF PersonSaves
<1>2. f \in File
  BY DEF File, Edited
<1>3. /\ saved' \in [File -> Nat] /\ saved'[f] = saved[f] + 1
      /\ \A g \in File \ {f} : saved'[g] = saved[g]
  BY <1>0, <1>1, <1>2 DEF InitTypeOK
<1>4. /\ disk' \in [File -> TextType] /\ disk'[f].person = saved[f] + 1 /\ disk'[f].kind = "text"
      /\ disk'[f].ours = disk[f].ours /\ \A g \in File \ {f} : disk'[g] = disk[g]
  <2>1. PICK text : text = [disk[f] EXCEPT !.person = saved[f] + 1]
    OBVIOUS
  <2>2. text \in TextType /\ text.person = saved[f] + 1 /\ text.kind = "text" /\ text.ours = disk[f].ours
    <3>1. disk[f] \in TextType /\ saved[f] \in Nat
      BY <1>0, <1>2 DEF InitTypeOK
    <3> QED BY <1>1, <2>1, <3>1 DEF TextType
  <2>3. disk' = [disk EXCEPT ![f] = text]
    BY <1>1, <2>1
  <2> QED BY <1>0, <1>2, <2>2, <2>3 DEF InitTypeOK
<1>5. /\ fate' \in [overtaken : SUBSET File, cut : SUBSET File, written : [File -> Nat]]
      /\ fate'.cut = fate.cut /\ fate'.written = fate.written
      /\ fate.overtaken \subseteq fate'.overtaken
      /\ init.phase # "ended" /\ f \in DOMAIN init.read => f \in fate'.overtaken
  <2>1. fate \in [overtaken : SUBSET File, cut : SUBSET File, written : [File -> Nat]]
    BY <1>0 DEF InitTypeOK
  <2>2. CASE init.phase # "ended" /\ f \in DOMAIN init.read
    <3>1. PICK overtaken : overtaken = fate.overtaken \cup {f}
      OBVIOUS
    <3>2. fate' = [fate EXCEPT !.overtaken = overtaken]
      BY <1>1, <2>2, <3>1
    <3> QED BY <1>2, <2>1, <3>1, <3>2
  <2>3. CASE ~(init.phase # "ended" /\ f \in DOMAIN init.read)
    BY <1>1, <2>1, <2>3
  <2> QED BY <2>2, <2>3
<1>6. \A g \in File : /\ disk'[g].kind = disk[g].kind /\ disk'[g].ours = disk[g].ours
                      /\ (Opened(g)' <=> Opened(g)) /\ (Lost(g) => Lost(g)')
                      /\ (Pending(g)' <=> Pending(g))
  <2>1. \A g \in File : disk'[g].kind = disk[g].kind /\ disk'[g].ours = disk[g].ours
    BY <1>1, <1>4
  <2>2. \A g \in File : (Opened(g)' <=> Opened(g)) /\ (Lost(g) => Lost(g)')
    BY <1>1, <1>5 DEF Opened, Lost
  <2>3. \A g \in File : Pending(g)' <=> Pending(g)
    BY <1>1 DEF Pending, Has
  <2> QED BY <2>1, <2>2, <2>3
<1>7. \A g \in DOMAIN init.read : init.phase # "ended" => g # f \/ Lost(g)'
  BY <1>5 DEF Lost
<1>8. InitTypeOK'
  BY <1>0, <1>1, <1>3, <1>4, <1>5 DEF InitTypeOK
<1>9. DiskOK'
  <2>1. \A g \in File : disk'[g].kind # "text" => ~disk'[g].ours
    BY <1>0, <1>6 DEF DiskOK
  <2>2. \A g \in File : disk'[g].person = saved'[g] \/ Lost(g)' \/ Opened(g)'
    BY <1>0, <1>3, <1>4, <1>6 DEF DiskOK
  <2>3. \A g \in File : disk'[g].kind = "cut" => g \in fate'.cut \/ (Opened(g)' /\ init'.phase = "writing")
    BY <1>0, <1>1, <1>5, <1>6 DEF DiskOK
  <2>4. disk'["entry"].ours => disk'["instrument"].kind # "absent"
    BY <1>0, <1>6 DEF DiskOK, File
  <2>5. \A g \in File : fate'.written[g] > 0 /\ ~Twin(g)' => disk'[g].ours /\ fate'.written[g] = 1
    BY <1>0, <1>1, <1>5, <1>6 DEF DiskOK, Twin
  <2> QED BY <2>1, <2>2, <2>3, <2>4, <2>5 DEF DiskOK
<1>10. HeldOK'
  <2>1. ASSUME init.phase \in {"reading", "planning", "planned"}, NEW g \in DOMAIN init.read
        PROVE  Agrees(g)'
    <3>1. g \in File /\ Agrees(g)
      BY <1>0, <2>1 DEF HeldOK, InitTypeOK
    <3>2. g # f \/ Lost(g)'
      BY <1>7, <2>1
    <3> QED BY <1>1, <1>3, <1>6, <3>1, <3>2 DEF Agrees
  <2>2. PlanConfig(init.read["downtrace.json"], project.test)' =
          PlanConfig(init.read["downtrace.json"], project.test)
    BY <1>1 DEF PlanConfig
  <2> QED BY <1>0, <1>1, <2>1, <2>2 DEF HeldOK
<1>11. WritesOK'
  <2>1. InTurn(init.writes)'
    BY <1>0, <1>1 DEF WritesOK, InTurn
  <2>2. ASSUME init.phase = "writing", NEW i \in DOMAIN init.writes
        PROVE  WriteOK(init.writes[i])'
    <3>1. PICK w : w = init.writes[i]
      OBVIOUS
    <3>2. WriteOK(w) /\ w.file \in File /\ w.file \in DOMAIN init.read
      BY <1>0, <2>2, <3>1 DEF WritesOK, HeldOK, WriteOK, WriteType
    <3>3. w.text.person = saved'[w.file] \/ Lost(w.file)'
      <4>1. w.file # f \/ Lost(w.file)'
        BY <1>7, <2>2, <3>2
      <4> QED BY <1>3, <1>6, <3>2, <4>1 DEF WriteOK
    <3>4. ~disk'[w.file].ours
      BY <1>6, <3>2 DEF WriteOK
    <3>5. WriteOK(w)'
      BY <1>1, <3>2, <3>3, <3>4 DEF WriteOK, Twin
    <3> QED BY <1>1, <3>1, <3>5 DEF WriteOK
  <2>3. init.phase = "writing" /\ Pending("entry")' =>
          disk'["instrument"].kind # "absent" \/ Pending("instrument")'
    BY <1>0, <1>6 DEF WritesOK, File
  <2>4. init.opened => init.phase \in {"writing", "ended"} /\ init.writes # <<>>
    BY <1>0 DEF WritesOK
  <2>5. init.opened /\ init.phase = "ended" => init.writes[1].file \in fate'.cut
    BY <1>0, <1>5 DEF WritesOK
  <2> QED BY <1>1, <2>1, <2>2, <2>3, <2>4, <2>5 DEF WritesOK
<1>12. GoalsOK'
  <2>1. Configured => Configured'
    <3> SUFFICES ASSUME Configured PROVE Configured'
      OBVIOUS
    <3>1. \A g \in File : Given(g) => Given(g)'
      BY <1>1, <1>6 DEF Given
    <3>2. disk["instrument"].kind = "text" \/ (init.phase = "writing" /\ Pending("instrument")) =>
            disk'["instrument"].kind = "text" \/ (init.phase = "writing" /\ Pending("instrument")')
      BY <1>6 DEF File
    <3>3. NextBuild(project)' = NextBuild(project)
      BY <1>1 DEF NextBuild
    <3>4. CASE project.esm
      BY <1>1, <1>5, <3>1, <3>2, <3>3, <3>4 DEF Configured, File, Twin
    <3>5. CASE ~project.esm
      BY <1>1, <1>5, <3>1, <3>2, <3>3, <3>5 DEF Configured, File, Twin
    <3> QED BY <3>4, <3>5
  <2> QED BY <1>0, <1>1, <2>1 DEF GoalsOK
<1> QED BY <1>8, <1>9, <1>10, <1>11, <1>12 DEF InitIInv

\* For every project and any number of runs, failed or cut at any point: what the person wrote is
\* there as they last saved it, but for files saved while init held an older text or cut in a write;
\* the entry loads a file that is there; no file is written in full twice; and a project said to be
\* configured is, but for an instrument file a run was cut in and a script with a twin before it
\* (command.ts 116-341).
THEOREM InitKeeps == InitSpec => []InitKeepsWhatIsThere
<1>1. InitInit => InitIInv
  BY InitBegins
<1>2. InitIInv /\ [InitNext]_initVars => InitIInv'
  <2> SUFFICES ASSUME InitIInv, [InitNext]_initVars PROVE InitIInv'
    OBVIOUS
  <2>1. CASE UNCHANGED initVars
    <3>0. UNCHANGED <<project, disk, init, runs, saved, fate>>
      BY <2>1 DEF initVars
    <3>1. InitTypeOK' /\ DiskOK'
      BY <3>0 DEF InitIInv, InitTypeOK, DiskOK, Lost, Opened, Twin
    <3>2. HeldOK'
      BY <3>0 DEF InitIInv, HeldOK, Agrees, Lost, PlanConfig
    <3>3. WritesOK'
      BY <3>0 DEF InitIInv, WritesOK, WriteOK, InTurn, Pending, Has, Lost, Twin
    <3>4. GoalsOK'
      BY <3>0 DEF InitIInv, GoalsOK, Configured, Given, Pending, Has, NextBuild, Twin
    <3> QED BY <3>1, <3>2, <3>3, <3>4 DEF InitIInv
  <2>2. CASE InitNext
    BY <2>2, InitReadingKeeps, InitSettlesKeeps, InitOpensKeeps, InitFillsKeeps, InitReportsKeeps,
       PersonSavesKeeps DEF InitNext
  <2> QED BY <2>1, <2>2
<1>3. InitIInv => InitKeepsWhatIsThere
  <2> SUFFICES ASSUME InitIInv PROVE InitKeepsWhatIsThere
    OBVIOUS
  <2>0. InitTypeOK /\ DiskOK /\ WritesOK /\ GoalsOK
    BY DEF InitIInv
  <2>1. \A f \in Edited :
          \/ disk[f].person = saved[f]
          \/ f \in fate.overtaken \cup fate.cut
          \/ init.opened /\ Head(init.writes).file = f
    <3>1. init.writes # <<>> => Head(init.writes) = init.writes[1]
      BY <2>0 DEF InitTypeOK
    <3> QED BY <2>0, <3>1 DEF DiskOK, Lost, Opened, Edited, File
  <2>2. disk["entry"].ours => disk["instrument"].kind # "absent"
    BY <2>0 DEF DiskOK
  <2>3. \A f \in File : fate.written[f] > 1 => f = "package.json" /\ project.twin
    <3>1. \A f \in File : fate.written[f] \in Nat
      BY <2>0 DEF InitTypeOK
    <3> QED BY <2>0, <3>1 DEF DiskOK, Twin
  <2>4. ASSUME init.phase = "ended", init.outcome = "configured"
        PROVE  /\ disk["downtrace.json"].ours
               /\ NextBuild(project) => disk["hook"].ours
               /\ ~project.next /\ project.agent = "production" =>
                    /\ IF project.esm THEN disk["package.json"].ours \/ project.twin ELSE disk["entry"].ours
                    /\ disk["instrument"].kind = "text" \/ "instrument" \in fate.cut
    <3>1. Configured
      BY <2>0, <2>4 DEF GoalsOK
    <3> QED BY <2>4, <3>1 DEF Configured, Given, Twin
  <2> QED BY <2>1, <2>2, <2>3, <2>4 DEF InitKeepsWhatIsThere
<1> QED BY <1>1, <1>2, <1>3, PTL DEF InitSpec

-----------------------------------------------------------------------------
(***************************************************************************)
(* Two runs compared                                                       *)
(***************************************************************************)

\* A run as read.ts tells it: of each route, how many requests, how many of them a profile
\* covers, and how often each operation was executed.
IsTally(tally) ==
  /\ tally.requests \in Nat /\ tally.profiled \in Nat
  /\ \A id \in DOMAIN tally.operations : tally.operations[id] \in Nat
IsRun(run) == IsFiniteSet(DOMAIN run.routes) /\ \A route \in DOMAIN run.routes : IsTally(run.routes[route])

\* What rises does not fall.
LEMMA RisesOneWay ==
  ASSUME NEW from \in Nat, NEW of \in Nat \ {0}, NEW to \in Nat, NEW over \in Nat \ {0}, from > 0, to > 0,
         Rises(from, of, to, over)
  PROVE  ~Rises(to, over, from, of)
<1>1. PICK x \in Nat, y \in Nat, z \in Nat : x = to * of /\ y = from * over /\ z = of * over
  OBVIOUS
<1>2. z > 0
  BY <1>1
<1>3. 2 * (x - y) >= z
  BY <1>1 DEF Rises
<1>4. over * of = of * over
  OBVIOUS
<1>5. Rises(to, over, from, of) => 2 * (y - x) >= z
  BY <1>1, <1>4 DEF Rises
<1> QED BY <1>2, <1>3, <1>5

\* An operation compared the other way round.
LEMMA ClassifyMirrors ==
  ASSUME NEW was \in Nat, NEW of \in Nat \ {0}, NEW is \in Nat, NEW over \in Nat \ {0}
  PROVE  /\ Classify(was, of, is, over) \in DOMAIN Mirrored
         /\ Classify(is, over, was, of) = Mirrored[Classify(was, of, is, over)]
<1>0. /\ DOMAIN Mirrored = {"appeared", "disappeared", "multiplied", "reduced", "unchanged"}
      /\ Mirrored["appeared"] = "disappeared" /\ Mirrored["disappeared"] = "appeared"
      /\ Mirrored["multiplied"] = "reduced" /\ Mirrored["reduced"] = "multiplied"
      /\ Mirrored["unchanged"] = "unchanged"
  BY DEF Mirrored
<1>1. CASE was = 0 \/ is = 0
  <2>1. CASE was = 0 /\ is = 0
    BY <1>0, <2>1 DEF Classify
  <2>2. CASE was = 0 /\ is > 0
    BY <1>0, <2>2 DEF Classify
  <2>3. CASE was > 0 /\ is = 0
    BY <1>0, <2>3 DEF Classify
  <2> QED BY <1>1, <2>1, <2>2, <2>3
<1>2. CASE was > 0 /\ is > 0
  <2>1. PICK up \in BOOLEAN, down \in BOOLEAN : up = Rises(was, of, is, over) /\ down = Rises(is, over, was, of)
    BY DEF Rises
  <2>2. ~(up /\ down)
    BY <1>2, <2>1, RisesOneWay
  <2>3. CASE up
    <3>1. Classify(was, of, is, over) = "multiplied" /\ Classify(is, over, was, of) = "reduced"
      BY <1>2, <2>1, <2>2, <2>3 DEF Classify
    <3> QED BY <1>0, <3>1
  <2>4. CASE down
    <3>1. Classify(was, of, is, over) = "reduced" /\ Classify(is, over, was, of) = "multiplied"
      BY <1>2, <2>1, <2>2, <2>4 DEF Classify
    <3> QED BY <1>0, <3>1
  <2>5. CASE ~up /\ ~down
    <3>1. Classify(was, of, is, over) = "unchanged" /\ Classify(is, over, was, of) = "unchanged"
      BY <1>2, <2>1, <2>5 DEF Classify
    <3> QED BY <1>0, <3>1
  <2> QED BY <2>3, <2>4, <2>5
<1>3. (was = 0 \/ is = 0) \/ (was > 0 /\ is > 0)
  OBVIOUS
<1> QED BY <1>1, <1>2, <1>3

\* And an operation of one and the same run.
LEMMA ClassifySame ==
  ASSUME NEW was \in Nat, NEW of \in Nat \ {0}
  PROVE  Classify(was, of, was, of) = "unchanged"
<1>1. CASE was = 0
  BY <1>1 DEF Classify
<1>2. CASE was > 0
  <2>1. ~Rises(was, of, was, of)
    BY <1>2, RisesOneWay
  <2> QED BY <1>2, <2>1 DEF Classify
<1> QED BY <1>1, <1>2

\* What is said of a route, one way and the other.
Mirrors(there, back) ==
  /\ {there.verdict, back.verdict} \subseteq {"worse", "unchanged", "not-evaluated"}
  /\ there.verdict = "not-evaluated" <=> back.verdict = "not-evaluated"
  /\ DOMAIN back.operations = DOMAIN there.operations
  /\ \A id \in DOMAIN there.operations :
       /\ there.operations[id] \in DOMAIN Mirrored
       /\ back.operations[id] = Mirrored[there.operations[id]]

\* A route that is not compared mirrors any such.
LEMMA NotEvaluatedMirrors ==
  ASSUME NEW r, NEW s
  PROVE  Mirrors(NotEvaluated(r), NotEvaluated(s)) /\ NotEvaluated(r).verdict # "worse"
<1>1. NotEvaluated(r).verdict = "not-evaluated" /\ NotEvaluated(s).verdict = "not-evaluated"
  BY DEF NotEvaluated
<1>2. DOMAIN NotEvaluated(r).operations = {} /\ DOMAIN NotEvaluated(s).operations = {}
  BY DEF NotEvaluated
<1> QED BY <1>1, <1>2 DEF Mirrors

\* Operations compared the other way round.
LEMMA OperationsMirror ==
  ASSUME NEW base, NEW change, IsTally(base), IsTally(change), base.profiled # 0, change.profiled # 0
  PROVE  Mirrors(EvaluateOperations(base, change), EvaluateOperations(change, base))
<1>1. PICK S : S = DOMAIN base.operations \cup DOMAIN change.operations
  OBVIOUS
<1>2. PICK b, c : /\ b = [id \in S |-> At(base.operations, id, 0)]
                  /\ c = [id \in S |-> At(change.operations, id, 0)]
  OBVIOUS
<1>3. PICK m, n \in Nat \ {0} : m = base.profiled /\ n = change.profiled
  BY DEF IsTally
<1>4. \A id \in S : /\ b[id] = At(base.operations, id, 0) /\ c[id] = At(change.operations, id, 0)
                    /\ b[id] \in Nat /\ c[id] \in Nat
  BY <1>1, <1>2 DEF At, IsTally
<1>5. PICK f, g : /\ f = [id \in S |-> Classify(b[id], m, c[id], n)]
                  /\ g = [id \in S |-> Classify(c[id], n, b[id], m)]
  OBVIOUS
<1>6. \A id \in S : f[id] \in DOMAIN Mirrored /\ g[id] = Mirrored[f[id]]
  BY <1>3, <1>4, <1>5, ClassifyMirrors
<1>7. /\ f = [id \in DOMAIN base.operations \cup DOMAIN change.operations |->
                Classify(At(base.operations, id, 0), base.profiled, At(change.operations, id, 0), change.profiled)]
      /\ g = [id \in DOMAIN change.operations \cup DOMAIN base.operations |->
                Classify(At(change.operations, id, 0), change.profiled, At(base.operations, id, 0), base.profiled)]
  <2>1. DOMAIN change.operations \cup DOMAIN base.operations = S
    BY <1>1
  <2> QED BY <1>1, <1>3, <1>4, <1>5, <2>1, Zenon
<1>8. DOMAIN f = S /\ DOMAIN g = S
  BY <1>5
<1>9. CASE S = {}
  <2>1. EvaluateOperations(base, change) = NotEvaluated("nothing-observed")
    BY <1>7, <1>8, <1>9 DEF EvaluateOperations
  <2>2. EvaluateOperations(change, base) = NotEvaluated("nothing-observed")
    BY <1>7, <1>8, <1>9 DEF EvaluateOperations
  <2> QED BY <2>1, <2>2, NotEvaluatedMirrors
<1>10. CASE S # {}
  <2>1. PICK v \in {"worse", "unchanged"} : EvaluateOperations(base, change) = [verdict |-> v, reason |-> "none", operations |-> f]
    BY <1>7, <1>8, <1>10 DEF EvaluateOperations
  <2>2. PICK w \in {"worse", "unchanged"} : EvaluateOperations(change, base) = [verdict |-> w, reason |-> "none", operations |-> g]
    BY <1>7, <1>8, <1>10 DEF EvaluateOperations
  <2> QED BY <1>6, <1>8, <2>1, <2>2 DEF Mirrors
<1> QED BY <1>9, <1>10

\* And those of one and the same run.
LEMMA OperationsSame ==
  ASSUME NEW base, IsTally(base), base.profiled # 0
  PROVE  EvaluateOperations(base, base).verdict # "worse"
<1>1. PICK m \in Nat \ {0} : m = base.profiled
  BY DEF IsTally
<1>2. PICK f : f = [id \in DOMAIN base.operations \cup DOMAIN base.operations |->
                      Classify(At(base.operations, id, 0), base.profiled, At(base.operations, id, 0), base.profiled)]
  OBVIOUS
<1>3. \A id \in DOMAIN f : f[id] = "unchanged"
  <2>1. \A id \in DOMAIN base.operations : At(base.operations, id, 0) \in Nat
    BY DEF At, IsTally
  <2> QED BY <1>1, <1>2, <2>1, ClassifySame
<1>4. CASE DOMAIN f = {}
  <2>1. EvaluateOperations(base, base) = NotEvaluated("nothing-observed")
    BY <1>2, <1>4 DEF EvaluateOperations
  <2> QED BY <2>1, NotEvaluatedMirrors
<1>5. CASE DOMAIN f # {}
  <2>1. EvaluateOperations(base, base) = [verdict |-> "unchanged", reason |-> "none", operations |-> f]
    BY <1>2, <1>3, <1>5 DEF EvaluateOperations
  <2> QED BY <2>1
<1> QED BY <1>4, <1>5

\* A route compared the other way round, and with itself.
LEMMA RouteMirrors ==
  ASSUME NEW route, NEW base, NEW change, IsTally(base), IsTally(change)
  PROVE  /\ Mirrors(EvaluateRoute(route, base, change), EvaluateRoute(route, change, base))
         /\ EvaluateRoute(route, base, base).verdict # "worse"
<1>1. base.requests \in Nat /\ change.requests \in Nat
  BY DEF IsTally
<1>2. ASSUME NEW b, NEW c, IsTally(b), IsTally(c),
             route \in Buckets \/ b.requests = 0 \/ c.requests = 0 \/ b.profiled = 0 \/ c.profiled = 0
      PROVE  \E r : EvaluateRoute(route, b, c) = NotEvaluated(r)
  <2>1. b.requests \in Nat /\ c.requests \in Nat
    BY <1>2 DEF IsTally
  <2>2. CASE route \in Buckets
    BY <2>2 DEF EvaluateRoute
  <2>3. CASE route \notin Buckets /\ b.requests = 0
    BY <2>3 DEF EvaluateRoute
  <2>4. CASE route \notin Buckets /\ b.requests > 0 /\ c.requests = 0
    BY <2>4 DEF EvaluateRoute
  <2>5. CASE route \notin Buckets /\ b.requests > 0 /\ c.requests > 0
    BY <1>2, <2>5 DEF EvaluateRoute
  <2> QED BY <2>1, <2>2, <2>3, <2>4, <2>5
<1>3. ASSUME NEW b, NEW c, IsTally(b), IsTally(c),
             ~(route \in Buckets \/ b.requests = 0 \/ c.requests = 0 \/ b.profiled = 0 \/ c.profiled = 0)
      PROVE  EvaluateRoute(route, b, c) = EvaluateOperations(b, c)
  <2>1. b.requests > 0 /\ c.requests > 0
    BY <1>3 DEF IsTally
  <2> QED BY <1>3, <2>1 DEF EvaluateRoute
<1>4. Mirrors(EvaluateRoute(route, base, change), EvaluateRoute(route, change, base))
  <2>1. CASE route \in Buckets \/ base.requests = 0 \/ change.requests = 0 \/ base.profiled = 0 \/ change.profiled = 0
    <3>1. PICK r : EvaluateRoute(route, base, change) = NotEvaluated(r)
      BY <1>2, <2>1
    <3>2. PICK s : EvaluateRoute(route, change, base) = NotEvaluated(s)
      BY <1>2, <2>1
    <3> QED BY <3>1, <3>2, NotEvaluatedMirrors
  <2>2. CASE ~(route \in Buckets \/ base.requests = 0 \/ change.requests = 0 \/ base.profiled = 0 \/ change.profiled = 0)
    <3>1. EvaluateRoute(route, base, change) = EvaluateOperations(base, change)
      BY <1>3, <2>2
    <3>2. EvaluateRoute(route, change, base) = EvaluateOperations(change, base)
      BY <1>3, <2>2
    <3> QED BY <2>2, <3>1, <3>2, OperationsMirror
  <2> QED BY <2>1, <2>2
<1>5. EvaluateRoute(route, base, base).verdict # "worse"
  <2>1. CASE route \in Buckets \/ base.requests = 0 \/ base.profiled = 0
    <3>1. PICK r : EvaluateRoute(route, base, base) = NotEvaluated(r)
      BY <1>2, <2>1
    <3> QED BY <3>1, NotEvaluatedMirrors
  <2>2. CASE ~(route \in Buckets \/ base.requests = 0 \/ base.profiled = 0)
    <3>1. EvaluateRoute(route, base, base) = EvaluateOperations(base, base)
      BY <1>3, <2>2
    <3> QED BY <2>2, <3>1, OperationsSame
  <2> QED BY <2>1, <2>2
<1> QED BY <1>4, <1>5

\* A comparison in which no route was compared: the command ends with 2.
NothingCompared(results) ==
  Summarize(results)["worse"] + Summarize(results)["unchanged"] = 0

\* Then every route says so.
LEMMA NothingComparedIs ==
  ASSUME NEW results, IsFiniteSet(DOMAIN results),
         \A route \in DOMAIN results : results[route].verdict \in {"worse", "unchanged", "not-evaluated"}
  PROVE  NothingCompared(results) <=> \A route \in DOMAIN results : results[route].verdict = "not-evaluated"
<1>1. PICK W, U : /\ W = {route \in DOMAIN results : results[route].verdict = "worse"}
                  /\ U = {route \in DOMAIN results : results[route].verdict = "unchanged"}
  OBVIOUS
<1>2. Summarize(results)["worse"] = Cardinality(W) /\ Summarize(results)["unchanged"] = Cardinality(U)
  BY <1>1 DEF Summarize
<1>3. IsFiniteSet(W) /\ IsFiniteSet(U)
  <2>1. W \subseteq DOMAIN results /\ U \subseteq DOMAIN results
    BY <1>1
  <2> QED BY <2>1, FS_Subset
<1>4. PICK w \in Nat, u \in Nat : w = Cardinality(W) /\ u = Cardinality(U)
  BY <1>3, FS_CardinalityType
<1>5. (w = 0 <=> W = {}) /\ (u = 0 <=> U = {})
  BY <1>3, <1>4, FS_EmptySet
<1>6. NothingCompared(results) <=> w = 0 /\ u = 0
  BY <1>2, <1>4 DEF NothingCompared
<1> QED BY <1>1, <1>5, <1>6

\* Compared the other way round, two runs are compared in the same routes, and nothing is when
\* nothing was; what appeared disappears and what multiplied is reduced, at any rates; and a run
\* is not worse than itself (compare.ts 200-336).
THEOREM ComparesBothWays ==
  ASSUME NEW base, NEW change, IsRun(base), IsRun(change), IsFiniteSet(Declared)
  PROVE  LET there == CompareRuns(base, change)
             back  == CompareRuns(change, base)
             same  == CompareRuns(base, base)
         IN /\ DOMAIN back = DOMAIN there
            /\ \A route \in DOMAIN there :
                 /\ there[route].verdict = "not-evaluated" <=> back[route].verdict = "not-evaluated"
                 /\ DOMAIN back[route].operations = DOMAIN there[route].operations
                 /\ \A id \in DOMAIN there[route].operations :
                      back[route].operations[id] = Mirrored[there[route].operations[id]]
            /\ NothingCompared(there) <=> NothingCompared(back)
            /\ \A route \in DOMAIN same : same[route].verdict # "worse"
<1>1. PICK there, back, same : /\ there = CompareRuns(base, change) /\ back = CompareRuns(change, base)
                               /\ same = CompareRuns(base, base)
  OBVIOUS
<1>2. IsTally(NotCalled)
  BY DEF IsTally, NotCalled
<1>3. \A route : IsTally(At(base.routes, route, NotCalled)) /\ IsTally(At(change.routes, route, NotCalled))
  BY <1>2 DEF At, IsRun
<1>4. PICK D : D = Declared \cup DOMAIN base.routes \cup DOMAIN change.routes
  OBVIOUS
<1>5. DOMAIN there = D /\ DOMAIN back = D
  BY <1>1, <1>4 DEF CompareRuns
<1>6. \A route \in D :
        /\ there[route] = EvaluateRoute(route, At(base.routes, route, NotCalled), At(change.routes, route, NotCalled))
        /\ back[route] = EvaluateRoute(route, At(change.routes, route, NotCalled), At(base.routes, route, NotCalled))
  BY <1>1, <1>4 DEF CompareRuns
<1>7. \A route \in D : Mirrors(there[route], back[route])
  BY <1>3, <1>6, RouteMirrors
<1>8. \A route \in DOMAIN same : same[route].verdict # "worse"
  <2>1. \A route \in DOMAIN same :
          same[route] = EvaluateRoute(route, At(base.routes, route, NotCalled), At(base.routes, route, NotCalled))
    BY <1>1 DEF CompareRuns
  <2> QED BY <1>3, <2>1, RouteMirrors
<1>9. NothingCompared(there) <=> NothingCompared(back)
  <2>1. IsFiniteSet(D)
    BY <1>4, FS_Union DEF IsRun
  <2>2. \A route \in D : /\ there[route].verdict \in {"worse", "unchanged", "not-evaluated"}
                         /\ back[route].verdict \in {"worse", "unchanged", "not-evaluated"}
                         /\ there[route].verdict = "not-evaluated" <=> back[route].verdict = "not-evaluated"
    BY <1>7 DEF Mirrors
  <2> QED BY <1>5, <2>1, <2>2, NothingComparedIs
<1>10. \A route \in DOMAIN there :
                 /\ there[route].verdict = "not-evaluated" <=> back[route].verdict = "not-evaluated"
                 /\ DOMAIN back[route].operations = DOMAIN there[route].operations
                 /\ \A id \in DOMAIN there[route].operations :
                      back[route].operations[id] = Mirrored[there[route].operations[id]]
  BY <1>5, <1>7 DEF Mirrors
<1> QED BY <1>1, <1>5, <1>8, <1>9, <1>10

-----------------------------------------------------------------------------
(***************************************************************************)
(* The file of a run read                                                  *)
(***************************************************************************)

\* A list has finitely many entries.
LEMMA FiniteList ==
  ASSUME NEW list, IsList(list)
  PROVE  IsFiniteSet(DOMAIN list) /\ IsFiniteSet(Good(list)) /\ DOMAIN list \subseteq Nat
<1>1. IsFiniteSet(DOMAIN list)
  BY FS_Interval DEF IsList
<1>2. Good(list) \in SUBSET DOMAIN list
  BY DEF Good
<1>3. DOMAIN list \subseteq Nat
  BY DEF IsList
<1> QED BY <1>1, <1>2, <1>3, FS_Subset

\* The lines that are batches.
Batch == {line \in Line : line.is = "batch"}

\* What a window ran is finite, and each route ran an operation a number of times.
LEMMA RanIsFinite ==
  ASSUME NEW b \in Batch, Opens(b)
  PROVE  /\ IsFiniteSet(Ran(b.window)) /\ IsFiniteSet(RoutesIn(b.window))
         /\ \A key : /\ Executions(b.window, key) \in Nat
                     /\ key \notin Keys(b.window) => Executions(b.window, key) = 0
<1>1. PICK w : w = b.window
  OBVIOUS
<1>2. /\ IsList(w.endpoints) /\ \A e \in Good(w.endpoints) : IsList(w.endpoints[e].operations)
      /\ \A x \in Ran(w) : RanAt(w, x).count \in Nat
  BY <1>1, ReadAssumption DEF Batch, IsBatch
<1>3. IsFiniteSet(Good(w.endpoints))
  BY <1>2, FiniteList
<1>4. IsFiniteSet(Ran(w))
  <2>1. ASSUME NEW e \in Good(w.endpoints)
        PROVE  IsFiniteSet({<<e, o>> : o \in Good(w.endpoints[e].operations)})
    <3>1. PICK g : g = [o \in Good(w.endpoints[e].operations) |-> <<e, o>>]
      OBVIOUS
    <3>2. IsFiniteSet(DOMAIN g) /\ {g[o] : o \in DOMAIN g} = {<<e, o>> : o \in Good(w.endpoints[e].operations)}
      BY <1>2, <3>1, FiniteList
    <3> QED BY <3>2, FiniteImage
  <2>2. PICK f : f = [e \in Good(w.endpoints) |-> {<<e, o>> : o \in Good(w.endpoints[e].operations)}]
    OBVIOUS
  <2>3. PICK S : S = {f[e] : e \in DOMAIN f}
    OBVIOUS
  <2>4. IsFiniteSet(S)
    BY <1>3, <2>2, <2>3, FiniteImage
  <2>5. \A T \in S : IsFiniteSet(T)
    BY <2>1, <2>2, <2>3
  <2>6. UNION S = Ran(w)
    BY <2>2, <2>3 DEF Ran
  <2> QED BY <2>4, <2>5, <2>6, FS_UNION
<1>5. IsFiniteSet(RoutesIn(w))
  <2>1. PICK f : f = [e \in Good(w.endpoints) |-> w.endpoints[e].route]
    OBVIOUS
  <2>2. IsFiniteSet(DOMAIN f) /\ {f[e] : e \in DOMAIN f} = RoutesIn(w)
    BY <1>3, <2>1 DEF RoutesIn
  <2> QED BY <2>2, FiniteImage
<1>6. ASSUME NEW key
      PROVE  Executions(w, key) \in Nat /\ (key \notin Keys(w) => Executions(w, key) = 0)
  <2>1. PICK X : X = {x \in Ran(w) : KeyOf(w, x) = key}
    OBVIOUS
  <2>2. PICK f : f = [x \in X |-> RanAt(w, x).count]
    OBVIOUS
  <2>3. Executions(w, key) = SumFunctionOnSet(f, X)
    BY <2>1, <2>2, Zenon DEF Executions, Total
  <2>4. IsFiniteSet(X) /\ \A x \in X : f[x] \in Nat
    BY <1>2, <1>4, <2>1, <2>2, FS_Subset
  <2>5. key \notin Keys(w) => X = {}
    BY <2>1 DEF Keys
  <2> QED BY <2>3, <2>4, <2>5, SumType, SumEmpty
<1> QED BY <1>1, <1>4, <1>5, <1>6, Zenon

\* The windows of some batches are finitely many.
LEMMA WindowsFinite ==
  ASSUME NEW B \in SUBSET Batch, IsFiniteSet(B)
  PROVE  IsFiniteSet(Windows(B)) /\ \A w \in Windows(B) : \E b \in Batch : Opens(b) /\ w.window = b.window
<1>1. PICK S : S = {x \in B : Opens(x)}
  OBVIOUS
<1>2. PICK f : f = [l \in S |-> [process |-> l.process, window |-> l.window]]
  OBVIOUS
<1>3. IsFiniteSet(DOMAIN f)
  BY <1>1, <1>2, FS_Subset
<1>4. {f[l] : l \in DOMAIN f} = Windows(B)
  BY <1>1, <1>2 DEF Windows
<1>5. \A w \in Windows(B) : \E b \in Batch : Opens(b) /\ w.window = b.window
  BY DEF Windows
<1> QED BY <1>3, <1>4, <1>5, FiniteImage

\* What was executed is a number, and of what no window names it is zero.
LEMMA ExecutedIs ==
  ASSUME NEW B \in SUBSET Batch, IsFiniteSet(B), NEW key
  PROVE  /\ Executed(B, key) \in Nat
         /\ key \notin UNION {Keys(w.window) : w \in Windows(B)} => Executed(B, key) = 0
<1>1. PICK f : f = [w \in Windows(B) |-> Executions(w.window, key)]
  OBVIOUS
<1>2. Executed(B, key) = SumFunctionOnSet(f, Windows(B))
  BY <1>1, Zenon DEF Executed, Total
<1>3. IsFiniteSet(Windows(B))
  BY WindowsFinite
<1>4. ASSUME NEW w \in Windows(B)
      PROVE  f[w] \in Nat /\ (key \notin Keys(w.window) => f[w] = 0)
  <2>1. PICK b \in Batch : Opens(b) /\ w.window = b.window
    BY WindowsFinite
  <2>2. f[w] = Executions(b.window, key)
    BY <1>1, <2>1
  <2> QED BY <2>1, <2>2, RanIsFinite
<1>5. Executed(B, key) \in Nat
  BY <1>2, <1>3, <1>4, SumType
<1>6. ASSUME key \notin UNION {Keys(w.window) : w \in Windows(B)}
      PROVE  Executed(B, key) = 0
  <2>1. \A w \in Windows(B) : f[w] = 0
    BY <1>4, <1>6
  <2> QED BY <1>2, <1>3, <2>1, SumZero
<1> QED BY <1>5, <1>6

\* A batch more: its window is one that is known, or one more.
LEMMA WindowsGrow ==
  ASSUME NEW B \in SUBSET Batch, NEW b \in Batch
  PROVE  Windows(B \cup {b}) = Windows(B) \cup (IF Opens(b) THEN {[process |-> b.process, window |-> b.window]} ELSE {})
BY DEF Windows

\* One that starts when another of its process did is that one.
LEMMA WindowKnown ==
  ASSUME NEW B \in SUBSET Batch, NEW b \in Batch, Opens(b)
  PROVE  [process |-> b.process, window |-> b.window] \in Windows(B)
           <=> \E l \in B : l.process = b.process /\ Opens(l) /\ l.window.start = b.window.start
<1>1. ASSUME NEW l \in B, l.process = b.process, Opens(l), l.window.start = b.window.start
      PROVE  [process |-> b.process, window |-> b.window] \in Windows(B)
  <2>1. l.window = b.window
    BY <1>1, ReadAssumption DEF Batch, WrittenAgain
  <2>2. [process |-> l.process, window |-> l.window] \in Windows(B)
    BY <1>1 DEF Windows
  <2> QED BY <1>1, <2>1, <2>2, Zenon
<1>2. ASSUME [process |-> b.process, window |-> b.window] \in Windows(B)
      PROVE  \E l \in B : l.process = b.process /\ Opens(l) /\ l.window.start = b.window.start
  BY <1>2 DEF Windows
<1> QED BY <1>1, <1>2

\* What a window more adds to what was executed.
LEMMA ExecutedGrows ==
  ASSUME NEW B \in SUBSET Batch, IsFiniteSet(B), NEW b \in Batch, Opens(b),
         [process |-> b.process, window |-> b.window] \notin Windows(B), NEW key
  PROVE  Executed(B \cup {b}, key) = Executed(B, key) + Executions(b.window, key)
<1>1. PICK w : w = [process |-> b.process, window |-> b.window]
  OBVIOUS
<1>2. PICK W : W = Windows(B)
  OBVIOUS
<1>3. Windows(B \cup {b}) = W \cup {w}
  BY <1>1, <1>2, WindowsGrow
<1>4. PICK f : f = [v \in W \cup {w} |-> Executions(v.window, key)]
  OBVIOUS
<1>5. PICK g : g = [v \in W |-> Executions(v.window, key)]
  OBVIOUS
<1>6. Executed(B \cup {b}, key) = SumFunctionOnSet(f, W \cup {w})
  BY <1>3, <1>4, Zenon DEF Executed, Total
<1>7. Executed(B, key) = SumFunctionOnSet(g, W)
  BY <1>2, <1>5, Zenon DEF Executed, Total
<1>8. IsFiniteSet(W) /\ w \notin W
  BY <1>1, <1>2, WindowsFinite
<1>9. f[w] = Executions(b.window, key)
  BY <1>1, <1>4
<1>10. \A v \in W \cup {w} : f[v] \in Nat
  <2>1. ASSUME NEW v \in W PROVE f[v] \in Nat
    <3>1. PICK l \in Batch : Opens(l) /\ v.window = l.window
      BY <1>2, WindowsFinite
    <3>2. f[v] = Executions(l.window, key)
      BY <1>4, <3>1
    <3> QED BY <3>1, <3>2, RanIsFinite
  <2>2. f[w] \in Nat
    BY <1>9, RanIsFinite
  <2> QED BY <2>1, <2>2
<1>11. SumFunctionOnSet(f, W \cup {w}) = SumFunctionOnSet(f, W) + f[w]
  BY <1>8, <1>10, SumAdd
<1>12. \A v \in W : f[v] = g[v]
  BY <1>4, <1>5
<1>13. SumFunctionOnSet(f, W) = SumFunctionOnSet(g, W)
  BY <1>8, <1>12, SumSame
<1> QED BY <1>6, <1>7, <1>9, <1>11, <1>13

\* What a reader has (read.ts 313-317, inspection.ts 124-131).
Fields == {"problems", "batches", "processes", "operations", "named", "unread", "skipped", "stopped"}

\* What is known of a process is what its batches say: where its windows start, and its intervals.
Knows(owned, B, p) ==
  /\ DOMAIN owned.windows = {l.window.start : l \in {x \in B : x.process = p /\ Opens(x)}}
  /\ \A t \in DOMAIN owned.intervals :
       \E l \in B : \E k \in Good(l.intervals) :
         l.process = p /\ l.intervals[k].start = t /\ owned.intervals[t] = l.intervals[k]
  /\ \A l \in B : \A k \in Good(l.intervals) :
       l.process = p => l.intervals[k].start \in DOMAIN owned.intervals

\* What is known of the operations is how often each was executed.
Counts(known, B) ==
  /\ DOMAIN known = UNION {Keys(w.window) : w \in Windows(B)}
  /\ \A key \in DOMAIN known : known[key] = Executed(B, key)

\* What was folded from some batches is what they say.
Tells(r, B) ==
  /\ DOMAIN r = Fields
  /\ DOMAIN r.processes = {l.process : l \in B}
  /\ \A p \in DOMAIN r.processes : Knows(r.processes[p], B, p)
  /\ Counts(r.operations, B)
  /\ r.named = UNION {RoutesIn(w.window) : w \in Windows(B)}

\* The first of several that start at an instant is one of them.
LEMMA KeptIs ==
  ASSUME NEW known, NEW list, IsList(list), NEW kept, kept = Kept(known, list)
  PROVE  /\ DOMAIN kept = DOMAIN known \cup {list[k].start : k \in Good(list)}
         /\ \A t \in DOMAIN known : kept[t] = known[t]
         /\ \A t \in DOMAIN kept \ DOMAIN known : \E k \in Good(list) : list[k].start = t /\ kept[t] = list[k]
<1>1. DOMAIN kept = DOMAIN known \cup {list[k].start : k \in Good(list)}
  BY DEF Kept
<1>2. \A t \in DOMAIN known : kept[t] = known[t]
  BY DEF Kept
<1>3. ASSUME NEW t \in DOMAIN kept \ DOMAIN known
      PROVE  \E k \in Good(list) : list[k].start = t /\ kept[t] = list[k]
  <2>1. PICK S : S = {k \in Good(list) : list[k].start = t}
    OBVIOUS
  <2>2. kept[t] = list[Min(S)]
    BY <1>1, <1>3, <2>1, Zenon DEF Kept
  <2>3. S # {} /\ S \in SUBSET Nat
    BY <1>1, <1>3, <2>1, FiniteList DEF Good
  <2>4. \E n \in S : \A m \in S : n <= m
    BY <2>3, LeastOf
  <2>5. Min(S) \in S
    BY <2>4 DEF Min
  <2> QED BY <2>1, <2>2, <2>5
<1> QED BY <1>1, <1>2, <1>3

\* What a batch adds to what is known of its process.
Learns(owned, b) ==
  [windows |-> IF Opens(b) /\ ~Counted(owned, b.window) THEN Plus(owned.windows, b.window.start, b.window.end)
               ELSE owned.windows,
   intervals |-> Kept(owned.intervals, b.intervals),
   observers |-> owned.observers \cup b.observers]

\* What it says of its process is known with what was.
LEMMA KnowsMore ==
  ASSUME NEW owned, NEW B \in SUBSET Batch, NEW b \in Batch, Knows(owned, B, b.process)
  PROVE  Knows(Learns(owned, b), B \cup {b}, b.process)
<1>1. PICK new : new = Learns(owned, b)
  OBVIOUS
<1>2. PICK p : p = b.process
  OBVIOUS
<1>3. PICK C : C = B \cup {b}
  OBVIOUS
<1>4. IsList(b.intervals)
  BY ReadAssumption DEF Batch, IsBatch
<1>5. DOMAIN new.windows = {l.window.start : l \in {x \in C : x.process = p /\ Opens(x)}}
  <2>1. PICK S : S = {l.window.start : l \in {x \in B : x.process = p /\ Opens(x)}}
    OBVIOUS
  <2>2. DOMAIN owned.windows = S
    BY <1>2, <2>1 DEF Knows
  <2>3. {l.window.start : l \in {x \in C : x.process = p /\ Opens(x)}}
          = S \cup (IF Opens(b) THEN {b.window.start} ELSE {})
    BY <1>2, <1>3, <2>1
  <2>4. DOMAIN Plus(owned.windows, b.window.start, b.window.end) = S \cup {b.window.start}
    BY <2>2 DEF Plus
  <2>5. CASE Opens(b) /\ b.window.start \notin S
    <3>1. new.windows = Plus(owned.windows, b.window.start, b.window.end)
      BY <1>1, <2>2, <2>5 DEF Learns, Counted
    <3> QED BY <2>3, <2>4, <2>5, <3>1
  <2>6. CASE ~(Opens(b) /\ b.window.start \notin S)
    <3>1. new.windows = owned.windows
      BY <1>1, <2>2, <2>6 DEF Learns, Counted
    <3> QED BY <2>2, <2>3, <2>6, <3>1
  <2> QED BY <2>5, <2>6
<1>6. /\ DOMAIN new.intervals = DOMAIN owned.intervals \cup {b.intervals[k].start : k \in Good(b.intervals)}
      /\ \A t \in DOMAIN owned.intervals : new.intervals[t] = owned.intervals[t]
      /\ \A t \in DOMAIN new.intervals \ DOMAIN owned.intervals :
           \E k \in Good(b.intervals) : b.intervals[k].start = t /\ new.intervals[t] = b.intervals[k]
  <2>1. PICK known : known = owned.intervals
    OBVIOUS
  <2>2. PICK list : list = b.intervals
    OBVIOUS
  <2>3. PICK kept : kept = new.intervals
    OBVIOUS
  <2>4. kept = Kept(known, list)
    BY <1>1, <2>1, <2>2, <2>3 DEF Learns
  <2>5. IsList(list)
    BY <1>4, <2>2
  <2>6. /\ DOMAIN kept = DOMAIN known \cup {list[k].start : k \in Good(list)}
        /\ \A t \in DOMAIN known : kept[t] = known[t]
        /\ \A t \in DOMAIN kept \ DOMAIN known : \E k \in Good(list) : list[k].start = t /\ kept[t] = list[k]
    BY <2>4, <2>5, KeptIs
  <2> QED BY <2>1, <2>2, <2>3, <2>6
<1>7. ASSUME NEW t \in DOMAIN new.intervals
      PROVE  \E l \in C : \E k \in Good(l.intervals) :
               l.process = p /\ l.intervals[k].start = t /\ new.intervals[t] = l.intervals[k]
  <2>1. CASE t \in DOMAIN owned.intervals
    <3>1. new.intervals[t] = owned.intervals[t]
      BY <1>6, <2>1
    <3>2. PICK l \in B : \E k \in Good(l.intervals) :
            l.process = p /\ l.intervals[k].start = t /\ owned.intervals[t] = l.intervals[k]
      BY <1>2, <2>1 DEF Knows
    <3> QED BY <1>3, <3>1, <3>2
  <2>2. CASE t \notin DOMAIN owned.intervals
    <3>1. \E k \in Good(b.intervals) : b.intervals[k].start = t /\ new.intervals[t] = b.intervals[k]
      BY <1>6, <1>7, <2>2
    <3> QED BY <1>2, <1>3, <3>1
  <2> QED BY <2>1, <2>2
<1>8. ASSUME NEW l \in C, NEW k \in Good(l.intervals), l.process = p
      PROVE  l.intervals[k].start \in DOMAIN new.intervals
  <2>1. CASE l \in B
    BY <1>2, <1>6, <1>8, <2>1 DEF Knows
  <2>2. CASE l = b
    BY <1>6, <1>8, <2>2
  <2> QED BY <1>3, <2>1, <2>2
<1>9. Knows(new, C, p)
  BY <1>5, <1>7, <1>8 DEF Knows
<1> QED BY <1>1, <1>2, <1>3, <1>9

\* Of another process it says nothing.
LEMMA KnowsAsMuch ==
  ASSUME NEW owned, NEW B \in SUBSET Batch, NEW b \in Batch, NEW p, p # b.process, Knows(owned, B, p)
  PROVE  Knows(owned, B \cup {b}, p)
<1>1. {x \in B \cup {b} : x.process = p /\ Opens(x)} = {x \in B : x.process = p /\ Opens(x)}
  OBVIOUS
<1>2. DOMAIN owned.windows = {l.window.start : l \in {x \in B \cup {b} : x.process = p /\ Opens(x)}}
  BY <1>1 DEF Knows
<1>3. ASSUME NEW t \in DOMAIN owned.intervals
      PROVE  \E l \in B \cup {b} : \E k \in Good(l.intervals) :
               l.process = p /\ l.intervals[k].start = t /\ owned.intervals[t] = l.intervals[k]
  BY DEF Knows
<1>4. ASSUME NEW l \in B \cup {b}, NEW k \in Good(l.intervals), l.process = p
      PROVE  l.intervals[k].start \in DOMAIN owned.intervals
  BY <1>4 DEF Knows
<1> QED BY <1>2, <1>3, <1>4 DEF Knows

\* What reading a batch leaves of each part.
LEMMA ReadBatchIs ==
  ASSUME NEW r, NEW b, DOMAIN r = Fields
  PROVE  LET owned == At(r.processes, b.process, Owned)
             opens == Opens(b) /\ ~Counted(owned, b.window)
             after == ReadBatch(r, b)
         IN /\ DOMAIN after = Fields
            /\ after.processes = Changed(r.processes, b.process, Learns(owned, b))
            /\ after.operations = IF opens THEN Fold(r.operations, b.window) ELSE r.operations
            /\ after.named = r.named \cup (IF opens THEN RoutesIn(b.window) ELSE {})
BY Zenon DEF ReadBatch, Learns, Fields

\* A process that wrote nothing yet.
LEMMA KnowsNothing ==
  ASSUME NEW B \in SUBSET Batch, NEW p, \A l \in B : l.process # p
  PROVE  Knows(Owned, B, p)
<1>1. DOMAIN Owned.windows = {} /\ DOMAIN Owned.intervals = {}
  BY DEF Owned
<1> QED BY <1>1 DEF Knows

\* What a batch more says of what was run.
LEMMA OperationsTold ==
  ASSUME NEW B \in SUBSET Batch, IsFiniteSet(B), NEW b \in Batch,
         NEW known, Counts(known, B),
         NEW new, new = IF Opens(b) /\ [process |-> b.process, window |-> b.window] \notin Windows(B)
                        THEN Fold(known, b.window) ELSE known
  PROVE  Counts(new, B \cup {b})
<1>0. /\ DOMAIN known = UNION {Keys(w.window) : w \in Windows(B)}
      /\ \A key \in DOMAIN known : known[key] = Executed(B, key)
  BY DEF Counts
<1>1. PICK w : w = [process |-> b.process, window |-> b.window]
  OBVIOUS
<1>2. PICK W, V : W = Windows(B) /\ V = Windows(B \cup {b})
  OBVIOUS
<1>3. V = W \cup (IF Opens(b) THEN {w} ELSE {})
  BY <1>1, <1>2, WindowsGrow
<1>4. CASE ~(Opens(b) /\ w \notin W)
  <2>1. V = W
    BY <1>3, <1>4
  <2>2. new = known
    BY <1>1, <1>2, <1>4
  <2>3. \A key : Executed(B \cup {b}, key) = Executed(B, key)
    BY <1>2, <2>1, Zenon DEF Executed
  <2> QED BY <1>0, <1>2, <2>1, <2>2, <2>3 DEF Counts
<1>5. CASE Opens(b) /\ w \notin W
  <2>1. new = Fold(known, b.window)
    BY <1>1, <1>2, <1>5
  <2>2. DOMAIN new = DOMAIN known \cup Keys(b.window) /\ DOMAIN known = UNION {Keys(x.window) : x \in W}
    BY <1>0, <1>2, <2>1 DEF Fold
  <2>3. V = W \cup {w} /\ w.window = b.window
    BY <1>1, <1>3, <1>5
  <2>4. DOMAIN new = UNION {Keys(x.window) : x \in V}
    BY <2>2, <2>3
  <2>5. ASSUME NEW key \in DOMAIN new
        PROVE  new[key] = Executed(B \cup {b}, key)
    <3>1. PICK e, x \in Nat : e = Executed(B, key) /\ x = Executions(b.window, key)
      <4>1. Executed(B, key) \in Nat
        BY ExecutedIs
      <4>2. Executions(b.window, key) \in Nat
        BY <1>5, RanIsFinite
      <4> QED BY <4>1, <4>2
    <3>2. At(known, key, 0) = e
      <4>1. CASE key \in DOMAIN known
        BY <1>0, <3>1, <4>1 DEF At
      <4>2. CASE key \notin DOMAIN known
        BY <1>0, <3>1, <4>2, ExecutedIs DEF At
      <4> QED BY <4>1, <4>2
    <3>3. new[key] = e + x
      BY <2>1, <2>2, <2>5, <3>1, <3>2 DEF Fold
    <3>4. Executed(B \cup {b}, key) = e + x
      BY <1>1, <1>2, <1>5, <3>1, ExecutedGrows
    <3> QED BY <3>3, <3>4
  <2> QED BY <1>2, <2>4, <2>5 DEF Counts
<1> QED BY <1>4, <1>5

\* A batch more is told with the others.
LEMMA TellsMore ==
  ASSUME NEW r, NEW B \in SUBSET Batch, IsFiniteSet(B), NEW b \in Batch, Tells(r, B)
  PROVE  Tells(ReadBatch(r, b), B \cup {b})
<1>1. PICK after : after = ReadBatch(r, b)
  OBVIOUS
<1>2. PICK C : C = B \cup {b}
  OBVIOUS
<1>3. PICK p : p = b.process
  OBVIOUS
<1>4. PICK owned : owned = At(r.processes, p, Owned)
  OBVIOUS
<1>5. PICK w : w = [process |-> b.process, window |-> b.window]
  OBVIOUS
<1>6. PICK opens : opens = (Opens(b) /\ ~Counted(owned, b.window)) /\ opens \in BOOLEAN
  OBVIOUS
<1>7. /\ DOMAIN after = Fields
      /\ after.processes = Changed(r.processes, p, Learns(owned, b))
      /\ after.operations = IF opens THEN Fold(r.operations, b.window) ELSE r.operations
      /\ after.named = r.named \cup (IF opens THEN RoutesIn(b.window) ELSE {})
  <2>1. DOMAIN r = Fields
    BY DEF Tells
  <2> QED BY <1>1, <1>3, <1>4, <1>6, <2>1, ReadBatchIs
<1>8. Knows(owned, B, p)
  <2>1. CASE p \in DOMAIN r.processes
    BY <1>4, <2>1 DEF Tells, At
  <2>2. CASE p \notin DOMAIN r.processes
    <3>1. \A l \in B : l.process # p
      BY <2>2 DEF Tells
    <3>2. owned = Owned
      BY <1>4, <2>2 DEF At
    <3> QED BY <3>1, <3>2, KnowsNothing
  <2> QED BY <2>1, <2>2
<1>9. opens = (Opens(b) /\ w \notin Windows(B))
  <2>1. Opens(b) => (Counted(owned, b.window) <=> \E l \in B : l.process = p /\ Opens(l) /\ l.window.start = b.window.start)
    BY <1>8 DEF Knows, Counted
  <2>2. Opens(b) => (w \in Windows(B) <=> \E l \in B : l.process = p /\ Opens(l) /\ l.window.start = b.window.start)
    BY <1>3, <1>5, WindowKnown
  <2> QED BY <1>6, <2>1, <2>2
<1>10. /\ DOMAIN after.processes = {l.process : l \in C}
       /\ \A q \in DOMAIN after.processes : Knows(after.processes[q], C, q)
  <2>1. /\ DOMAIN after.processes = DOMAIN r.processes \cup {p}
        /\ \A q \in DOMAIN r.processes \cup {p} : 
             after.processes[q] = IF q = p THEN Learns(owned, b) ELSE r.processes[q]
    BY <1>7 DEF Changed
  <2>2. DOMAIN after.processes = {l.process : l \in C}
    BY <1>2, <1>3, <2>1 DEF Tells
  <2>3. Knows(after.processes[p], C, p)
    BY <1>2, <1>3, <1>8, <2>1, KnowsMore
  <2>4. ASSUME NEW q \in DOMAIN after.processes, q # p
        PROVE  Knows(after.processes[q], C, q)
    <3>1. q \in DOMAIN r.processes /\ after.processes[q] = r.processes[q]
      BY <2>1, <2>4
    <3>2. Knows(r.processes[q], B, q)
      BY <3>1 DEF Tells
    <3> QED BY <1>2, <1>3, <2>4, <3>1, <3>2, KnowsAsMuch
  <2> QED BY <2>2, <2>3, <2>4
<1>11. Counts(after.operations, C)
  <2>1. Counts(r.operations, B)
    BY DEF Tells
  <2>2. after.operations = IF Opens(b) /\ [process |-> b.process, window |-> b.window] \notin Windows(B)
                           THEN Fold(r.operations, b.window) ELSE r.operations
    BY <1>5, <1>7, <1>9
  <2> QED BY <1>2, <2>1, <2>2, OperationsTold
<1>12. after.named = UNION {RoutesIn(x.window) : x \in Windows(C)}
  <2>1. Windows(C) = Windows(B) \cup (IF Opens(b) THEN {w} ELSE {}) /\ w.window = b.window
    BY <1>2, <1>5, WindowsGrow
  <2>2. r.named = UNION {RoutesIn(x.window) : x \in Windows(B)}
    BY DEF Tells
  <2>3. CASE opens
    <3>1. Windows(C) = Windows(B) \cup {w} /\ after.named = r.named \cup RoutesIn(w.window)
      BY <1>7, <1>9, <2>1, <2>3
    <3> QED BY <2>2, <3>1
  <2>4. CASE ~opens
    <3>1. Windows(C) = Windows(B) /\ after.named = r.named
      BY <1>7, <1>9, <2>1, <2>4
    <3> QED BY <2>2, <3>1
  <2> QED BY <1>6, <2>3, <2>4
<1>13. Tells(after, C)
  BY <1>7, <1>10, <1>11, <1>12 DEF Tells
<1> QED BY <1>1, <1>2, <1>13

\* What is known of the intervals is each that a line says.
LEMMA IntervalsTold ==
  ASSUME NEW r, NEW B \in SUBSET Batch, Tells(r, B)
  PROVE  Intervals(r) = Recorded(B)
<1>1. ASSUME NEW p \in DOMAIN r.processes, NEW t \in DOMAIN r.processes[p].intervals
      PROVE  [process |-> p, interval |-> r.processes[p].intervals[t]] \in Recorded(B)
  <2>1. PICK l \in B : \E k \in Good(l.intervals) :
          l.process = p /\ l.intervals[k].start = t /\ r.processes[p].intervals[t] = l.intervals[k]
    BY <1>1 DEF Tells, Knows
  <2>2. PICK k \in Good(l.intervals) : l.process = p /\ r.processes[p].intervals[t] = l.intervals[k]
    BY <2>1
  <2>3. [process |-> l.process, interval |-> l.intervals[k]] \in Recorded(B)
    BY <2>2 DEF Recorded
  <2> QED BY <2>2, <2>3
<1>2. ASSUME NEW l \in B, NEW k \in Good(l.intervals)
      PROVE  [process |-> l.process, interval |-> l.intervals[k]] \in Intervals(r)
  <2>1. PICK p : p = l.process
    OBVIOUS
  <2>2. PICK t : t = l.intervals[k].start
    OBVIOUS
  <2>3. p \in DOMAIN r.processes
    BY <2>1 DEF Tells
  <2>4. t \in DOMAIN r.processes[p].intervals
    BY <2>1, <2>2, <2>3 DEF Tells, Knows
  <2>5. PICK m \in B : \E j \in Good(m.intervals) :
          m.process = p /\ m.intervals[j].start = t /\ r.processes[p].intervals[t] = m.intervals[j]
    BY <2>3, <2>4 DEF Tells, Knows
  <2>6. PICK j \in Good(m.intervals) :
          m.process = p /\ m.intervals[j].start = t /\ r.processes[p].intervals[t] = m.intervals[j]
    BY <2>5
  <2>7. WrittenAgain(m, l)
    BY <2>1, <2>6, ReadAssumption DEF Batch
  <2>8. m.intervals[j] = l.intervals[k]
    BY <2>2, <2>6, <2>7 DEF WrittenAgain
  <2>9. [process |-> p, interval |-> r.processes[p].intervals[t]] \in Intervals(r)
    BY <2>3, <2>4 DEF Intervals
  <2> QED BY <2>1, <2>6, <2>8, <2>9
<1>3. Intervals(r) \subseteq Recorded(B)
  BY <1>1 DEF Intervals
<1>4. Recorded(B) \subseteq Intervals(r)
  BY <1>2 DEF Recorded
<1> QED BY <1>3, <1>4

\* There are finitely many intervals, of finitely many endpoints each.
LEMMA RecordedFinite ==
  ASSUME NEW B \in SUBSET Batch, IsFiniteSet(B)
  PROVE  /\ IsFiniteSet(Recorded(B))
         /\ \A x \in Recorded(B) : /\ IsList(x.interval.endpoints)
                                   /\ \A k \in Good(x.interval.endpoints) : IsEndpoint(x.interval.endpoints[k])
<1>1. ASSUME NEW l \in B
      PROVE  /\ IsFiniteSet({[process |-> l.process, interval |-> l.intervals[k]] : k \in Good(l.intervals)})
             /\ \A i \in Good(l.intervals) :
                  /\ IsList(l.intervals[i].endpoints)
                  /\ \A k \in Good(l.intervals[i].endpoints) : IsEndpoint(l.intervals[i].endpoints[k])
  <2>1. IsBatch(l)
    BY ReadAssumption DEF Batch
  <2>2. IsFiniteSet(Good(l.intervals))
    BY <2>1, FiniteList DEF IsBatch
  <2>3. PICK f : f = [k \in Good(l.intervals) |-> [process |-> l.process, interval |-> l.intervals[k]]]
    OBVIOUS
  <2>4. IsFiniteSet(DOMAIN f) /\ {f[k] : k \in DOMAIN f}
          = {[process |-> l.process, interval |-> l.intervals[k]] : k \in Good(l.intervals)}
    BY <2>2, <2>3
  <2>5. \A i \in Good(l.intervals) :
          /\ IsList(l.intervals[i].endpoints)
          /\ \A k \in Good(l.intervals[i].endpoints) : IsEndpoint(l.intervals[i].endpoints[k])
    BY <2>1, Zenon DEF IsBatch
  <2> QED BY <2>4, <2>5, FiniteImage
<1>2. PICK f : f = [l \in B |-> {[process |-> l.process, interval |-> l.intervals[k]] : k \in Good(l.intervals)}]
  OBVIOUS
<1>3. PICK S : S = {f[l] : l \in DOMAIN f}
  OBVIOUS
<1>4. IsFiniteSet(S) /\ \A T \in S : IsFiniteSet(T)
  <2>1. IsFiniteSet(S)
    BY <1>2, <1>3, FiniteImage
  <2>2. \A l \in B : IsFiniteSet(f[l])
    BY <1>1, <1>2, Zenon
  <2> QED BY <1>2, <1>3, <2>1, <2>2
<1>5. UNION S = Recorded(B)
  BY <1>2, <1>3 DEF Recorded
<1>6. IsFiniteSet(Recorded(B))
  BY <1>4, <1>5, FS_UNION
<1>7. \A x \in Recorded(B) : \E l \in B : \E i \in Good(l.intervals) : x.interval = l.intervals[i]
  BY DEF Recorded
<1>8. ASSUME NEW x \in Recorded(B)
      PROVE  /\ IsList(x.interval.endpoints)
             /\ \A k \in Good(x.interval.endpoints) : IsEndpoint(x.interval.endpoints[k])
  <2>1. PICK l \in B : \E i \in Good(l.intervals) : x.interval = l.intervals[i]
    BY <1>7
  <2>2. PICK i \in Good(l.intervals) : x.interval = l.intervals[i]
    BY <2>1
  <2> QED BY <1>1, <2>2, Zenon
<1> QED BY <1>6, <1>8

\* The places of an interval's entries for a route.
PlacesOf(x, route) == {k \in Good(x.interval.endpoints) : x.interval.endpoints[k].route = route}

\* They are finitely many, and each an endpoint's.
LEMMA PlacesFinite ==
  ASSUME NEW B \in SUBSET Batch, IsFiniteSet(B), NEW x \in Recorded(B), NEW route
  PROVE  /\ IsFiniteSet(PlacesOf(x, route))
         /\ \A k \in PlacesOf(x, route) : IsEndpoint(x.interval.endpoints[k])
<1>1. PICK list : list = x.interval.endpoints
  OBVIOUS
<1>2. IsList(list) /\ \A k \in Good(list) : IsEndpoint(list[k])
  BY <1>1, RecordedFinite
<1>3. IsFiniteSet(Good(list))
  BY <1>2, FiniteList
<1>4. PlacesOf(x, route) \in SUBSET Good(list)
  BY <1>1 DEF PlacesOf
<1> QED BY <1>1, <1>2, <1>3, <1>4, FS_Subset

\* A route's entries, each of an interval and at a place of it.
LEMMA EntriesAre ==
  ASSUME NEW B \in SUBSET Batch, IsFiniteSet(B), NEW route
  PROVE  /\ IsFiniteSet(Endpoints(Recorded(B), route))
         /\ \A x \in Recorded(B) : \A k \in PlacesOf(x, route) :
              [of |-> x, at |-> k] \in Endpoints(Recorded(B), route)
         /\ \A e \in Endpoints(Recorded(B), route) :
              /\ e.of \in Recorded(B) /\ e.at \in PlacesOf(e.of, route) /\ e = [of |-> e.of, at |-> e.at]
              /\ IsEndpoint(Endpoint(e))
<1>1. PICK R : R = Recorded(B)
  OBVIOUS
<1>2. Endpoints(R, route) = UNION {{[of |-> x, at |-> k] : k \in PlacesOf(x, route)} : x \in R}
  BY Zenon DEF Endpoints, PlacesOf
<1>3. PICK f : f = [x \in R |-> {[of |-> x, at |-> k] : k \in PlacesOf(x, route)}]
  OBVIOUS
<1>4. PICK S : S = {f[x] : x \in DOMAIN f}
  OBVIOUS
<1>5. IsFiniteSet(S)
  BY <1>1, <1>3, <1>4, RecordedFinite, FiniteImage
<1>6. ASSUME NEW x \in R PROVE IsFiniteSet(f[x])
  <2>1. PICK g : g = [k \in PlacesOf(x, route) |-> [of |-> x, at |-> k]]
    OBVIOUS
  <2>2. IsFiniteSet(DOMAIN g)
    BY <1>1, <2>1, PlacesFinite
  <2>3. {g[k] : k \in DOMAIN g} = f[x]
    BY <1>3, <2>1
  <2> QED BY <2>2, <2>3, FiniteImage
<1>7. UNION S = Endpoints(R, route)
  BY <1>2, <1>3, <1>4
<1>8. IsFiniteSet(Endpoints(R, route))
  <2>1. \A T \in S : IsFiniteSet(T)
    BY <1>3, <1>4, <1>6
  <2> QED BY <1>5, <1>7, <2>1, FS_UNION
<1>9. ASSUME NEW e \in Endpoints(R, route)
      PROVE  /\ e.of \in R /\ e.at \in PlacesOf(e.of, route) /\ e = [of |-> e.of, at |-> e.at]
             /\ IsEndpoint(Endpoint(e))
  <2>1. PICK x \in R : \E k \in PlacesOf(x, route) : e = [of |-> x, at |-> k]
    BY <1>2
  <2>2. PICK k \in PlacesOf(x, route) : e = [of |-> x, at |-> k]
    BY <2>1
  <2>3. e.of = x /\ e.at = k
    BY <2>2
  <2>4. IsEndpoint(x.interval.endpoints[k])
    BY <1>1, PlacesFinite
  <2> QED BY <2>2, <2>3, <2>4 DEF Endpoint
<1>10. \A x \in R : \A k \in PlacesOf(x, route) : [of |-> x, at |-> k] \in Endpoints(R, route)
  BY <1>2
<1> QED BY <1>1, <1>8, <1>9, <1>10

\* Entries of one interval, one for each place of it, and what f and g say of them.
OfOne(x, K, E, f, g) ==
  /\ IsFiniteSet(K) /\ \A k \in K : g[k] \in Nat /\ [of |-> x, at |-> k] \in E
  /\ \A e \in E : e.at \in K /\ e = [of |-> x, at |-> e.at] /\ f[e] = g[e.at]

\* A sum over them is one over their places.
LEMMA SumPlaces ==
  ASSUME NEW x, NEW K, NEW E, NEW f, NEW g, OfOne(x, K, E, f, g)
  PROVE  SumFunctionOnSet(f, E) = SumFunctionOnSet(g, K)
<1>0. /\ IsFiniteSet(K) /\ \A k \in K : g[k] \in Nat /\ [of |-> x, at |-> k] \in E
      /\ \A e \in E : e.at \in K /\ e = [of |-> x, at |-> e.at] /\ f[e] = g[e.at]
  BY DEF OfOne
<1>1. IsFiniteSet(E)
  <2>1. PICK h : h = [k \in K |-> [of |-> x, at |-> k]]
    OBVIOUS
  <2>2. IsFiniteSet(DOMAIN h) /\ {h[k] : k \in DOMAIN h} = E
    BY <1>0, <2>1
  <2> QED BY <2>2, FiniteImage
<1>2. \A e \in E : f[e] \in Nat
  BY <1>0
<1>3. PICK c : c = [e \in E |-> e.at]
  OBVIOUS
<1>4. \A e \in E : c[e] \in K /\ e = [of |-> x, at |-> c[e]]
  BY <1>0, <1>3
<1>5. ASSUME NEW k \in K PROVE g[k] = SumFunctionOnSet(f, Fibre(E, c, k))
  <2>1. PICK e : e = [of |-> x, at |-> k]
    OBVIOUS
  <2>2. e \in E /\ c[e] = k /\ f[e] = g[k]
    BY <1>0, <1>3, <2>1
  <2>3. Fibre(E, c, k) = {e}
    BY <1>4, <2>1, <2>2 DEF Fibre
  <2>4. SumFunctionOnSet(f, {e}) = f[e]
    BY <1>2, <2>2, SumOne
  <2> QED BY <2>2, <2>3, <2>4
<1>6. SumFunctionOnSet(g, K) = SumFunctionOnSet(f, E)
  BY <1>0, <1>1, <1>2, <1>4, <1>5, SumParts
<1> QED BY <1>6

\* Entries of several intervals, one for each place of each; f, n and g say what of each entry, of
\* each place of each interval, and of each interval in all.
OfSeveral(R, K, X, f, n, g) ==
  /\ IsFiniteSet(R) /\ IsFiniteSet(X)
  /\ \A x \in R : /\ IsFiniteSet(K[x]) /\ g[x] = SumFunctionOnSet(n[x], K[x])
                  /\ \A k \in K[x] : n[x][k] \in Nat /\ [of |-> x, at |-> k] \in X
  /\ \A e \in X : e.of \in R /\ e.at \in K[e.of] /\ e = [of |-> e.of, at |-> e.at] /\ f[e] = n[e.of][e.at]

\* A sum over them is the sum of those of each.
LEMMA SumNested ==
  ASSUME NEW R, NEW K, NEW X, NEW f, NEW n, NEW g, OfSeveral(R, K, X, f, n, g)
  PROVE  SumFunctionOnSet(f, X) = SumFunctionOnSet(g, R)
<1>0. /\ IsFiniteSet(R) /\ IsFiniteSet(X)
      /\ \A x \in R : /\ IsFiniteSet(K[x]) /\ g[x] = SumFunctionOnSet(n[x], K[x])
                      /\ \A k \in K[x] : n[x][k] \in Nat /\ [of |-> x, at |-> k] \in X
      /\ \A e \in X : e.of \in R /\ e.at \in K[e.of] /\ e = [of |-> e.of, at |-> e.at] /\ f[e] = n[e.of][e.at]
  BY DEF OfSeveral
<1>1. PICK c : c = [e \in X |-> e.of]
  OBVIOUS
<1>2. ASSUME NEW x \in R PROVE g[x] = SumFunctionOnSet(f, Fibre(X, c, x))
  <2>1. PICK E : E = Fibre(X, c, x)
    OBVIOUS
  <2>2. PICK P : P = K[x]
    OBVIOUS
  <2>3. PICK h : h = n[x]
    OBVIOUS
  <2>4. IsFiniteSet(P) /\ (\A k \in P : h[k] \in Nat) /\ g[x] = SumFunctionOnSet(h, P)
    BY <1>0, <2>2, <2>3
  <2>5. \A e \in E : e \in X /\ e.of = x
    BY <1>1, <2>1 DEF Fibre
  <2>6. \A e \in E : e.at \in P /\ e = [of |-> x, at |-> e.at] /\ f[e] = h[e.at]
    BY <1>0, <2>2, <2>3, <2>5
  <2>7. \A k \in P : [of |-> x, at |-> k] \in E
    BY <1>0, <1>1, <2>1, <2>2 DEF Fibre
  <2>8. OfOne(x, P, E, f, h)
    BY <2>4, <2>6, <2>7 DEF OfOne
  <2> QED BY <2>1, <2>4, <2>8, SumPlaces
<1>3. \A e \in X : f[e] \in Nat
  BY <1>0
<1>4. \A e \in X : c[e] \in R
  BY <1>0, <1>1
<1>5. \A x \in R : g[x] = SumFunctionOnSet(f, Fibre(X, c, x))
  BY <1>2
<1>6. SumFunctionOnSet(g, R) = SumFunctionOnSet(f, X)
  BY <1>0, <1>3, <1>4, <1>5, SumParts
<1> QED BY <1>6

\* What was asked of a route is the sum of its entries' requests.
LEMMA AskedIs ==
  ASSUME NEW B \in SUBSET Batch, IsFiniteSet(B), NEW route,
         NEW f, f = [e \in Endpoints(Recorded(B), route) |-> Endpoint(e).count]
  PROVE  SumFunctionOnSet(f, Endpoints(Recorded(B), route)) = Asked(B, route)
<1>1. PICK R : R = Recorded(B)
  OBVIOUS
<1>2. PICK X : X = Endpoints(R, route)
  OBVIOUS
<1>3. IsFiniteSet(R) /\ IsFiniteSet(X)
  BY <1>1, <1>2, RecordedFinite, EntriesAre
<1>4. /\ \A x \in R : \A k \in PlacesOf(x, route) : [of |-> x, at |-> k] \in X
      /\ \A e \in X : /\ e.of \in R /\ e.at \in PlacesOf(e.of, route) /\ e = [of |-> e.of, at |-> e.at]
                      /\ f[e] \in Nat
  <2>1. \A e \in X : f[e] = Endpoint(e).count
    BY <1>1, <1>2
  <2> QED BY <1>1, <1>2, <2>1, EntriesAre DEF IsEndpoint
<1>5. PICK K : K = [x \in R |-> PlacesOf(x, route)]
  OBVIOUS
<1>6. PICK n : n = [x \in R |-> [k \in PlacesOf(x, route) |-> x.interval.endpoints[k].count]]
  OBVIOUS
<1>7. PICK g : g = [x \in R |-> Total(PlacesOf(x, route), LAMBDA k : x.interval.endpoints[k].count)]
  OBVIOUS
<1>8. Asked(B, route) = SumFunctionOnSet(g, R)
  BY <1>1, <1>7, Zenon DEF Asked, Total, PlacesOf
<1>9. ASSUME NEW x \in R
      PROVE  IsFiniteSet(K[x]) /\ (\A k \in K[x] : n[x][k] \in Nat) /\ g[x] = SumFunctionOnSet(n[x], K[x])
  <2>1. K[x] = PlacesOf(x, route)
    BY <1>5
  <2>2. n[x] = [k \in PlacesOf(x, route) |-> x.interval.endpoints[k].count]
    BY <1>6
  <2>3. IsFiniteSet(K[x]) /\ \A k \in K[x] : n[x][k] \in Nat
    BY <1>1, <2>1, <2>2, PlacesFinite DEF IsEndpoint
  <2>4. g[x] = SumFunctionOnSet(n[x], K[x])
    BY <1>7, <2>1, <2>2, Zenon DEF Total
  <2> QED BY <2>3, <2>4
<1>10. \A x \in R : \A k \in K[x] : [of |-> x, at |-> k] \in X
  BY <1>4, <1>5
<1>11. ASSUME NEW e \in X
       PROVE  e.of \in R /\ e.at \in K[e.of] /\ e = [of |-> e.of, at |-> e.at] /\ f[e] = n[e.of][e.at]
  <2>1. e.of \in R /\ e.at \in PlacesOf(e.of, route) /\ e = [of |-> e.of, at |-> e.at]
    BY <1>4
  <2>2. f[e] = e.of.interval.endpoints[e.at].count
    BY <1>1, <1>2 DEF Endpoint
  <2> QED BY <1>5, <1>6, <2>1, <2>2
<1>12. SumFunctionOnSet(f, X) = SumFunctionOnSet(g, R)
  <2>1. OfSeveral(R, K, X, f, n, g)
    BY <1>3, <1>9, <1>10, <1>11 DEF OfSeveral
  <2> QED BY <2>1, SumNested
<1> QED BY <1>1, <1>2, <1>8, <1>12

\* What is known of an endpoint's queries are all its requests, by how many they made.
LEMMA QueriesAre ==
  ASSUME NEW endpoint, IsEndpoint(endpoint), QueriesOf(endpoint).known
  PROVE  LET buckets == QueriesOf(endpoint).buckets
         IN /\ buckets[1] \in Nat /\ buckets[2] \in Nat /\ buckets[3] \in Nat
            /\ endpoint.count = buckets[1] + buckets[2] + buckets[3]
<1>1. PICK n \in Nat : n = endpoint.count
  BY DEF IsEndpoint
<1>2. PICK list : list = endpoint.databases
  OBVIOUS
<1>3. /\ IsList(list)
      /\ \A d \in Good(list) : /\ list[d].buckets[1] \in Nat /\ list[d].buckets[2] \in Nat
                               /\ list[d].buckets[1] + list[d].buckets[2] <= n
  BY <1>1, <1>2 DEF IsEndpoint
<1>4. Good(list) = DOMAIN list /\ Len(list) <= 1
  BY <1>2 DEF QueriesOf
<1>5. PICK reached : reached = IF Len(list) = 1 THEN list[1].buckets ELSE <<0, 0>>
  OBVIOUS
<1>6. reached[1] \in Nat /\ reached[2] \in Nat /\ reached[1] + reached[2] <= n
  <2>1. CASE Len(list) = 1
    <3>1. 1 \in Good(list)
      BY <1>3, <1>4, <2>1 DEF IsList
    <3> QED BY <1>3, <1>5, <2>1, <3>1
  <2>2. CASE Len(list) # 1
    BY <1>5, <2>2
  <2> QED BY <2>1, <2>2
<1>7. PICK x, y \in Nat : x = reached[1] /\ y = reached[2]
  BY <1>6
<1>8. PICK rest : rest = n - x - y
  OBVIOUS
<1>9. QueriesOf(endpoint).buckets = <<IF rest > 0 THEN rest ELSE 0, x, y>>
  BY <1>1, <1>2, <1>4, <1>5, <1>7, <1>8 DEF QueriesOf
<1>10. rest \in Nat
  BY <1>1, <1>6, <1>7, <1>8
<1>11. (IF rest > 0 THEN rest ELSE 0) = rest
  BY <1>10
<1>12. QueriesOf(endpoint).buckets = <<rest, x, y>>
  BY <1>9, <1>11
<1>13. n = rest + x + y
  BY <1>1, <1>7, <1>8, <1>10
<1> QED BY <1>1, <1>7, <1>10, <1>12, <1>13

\* So are those of a route.
LEMMA BucketsAre ==
  ASSUME NEW X, IsFiniteSet(X), \A e \in X : IsEndpoint(Endpoint(e)), AddBuckets(X).known,
         NEW f, f = [e \in X |-> Endpoint(e).count]
  PROVE  AddBuckets(X).buckets[1] + AddBuckets(X).buckets[2] + AddBuckets(X).buckets[3] = SumFunctionOnSet(f, X)
<1>1. PICK g1, g2, g3 : /\ g1 = [e \in X |-> QueriesOf(Endpoint(e)).buckets[1]]
                        /\ g2 = [e \in X |-> QueriesOf(Endpoint(e)).buckets[2]]
                        /\ g3 = [e \in X |-> QueriesOf(Endpoint(e)).buckets[3]]
  OBVIOUS
<1>2. PICK h : h = [e \in X |-> g1[e] + g2[e]]
  OBVIOUS
<1>3. ASSUME NEW e \in X
      PROVE  /\ g1[e] \in Nat /\ g2[e] \in Nat /\ g3[e] \in Nat /\ h[e] = g1[e] + g2[e] /\ h[e] \in Nat
             /\ f[e] = h[e] + g3[e]
  <2>1. PICK d : d = Endpoint(e)
    OBVIOUS
  <2>2. IsEndpoint(d) /\ QueriesOf(d).known
    BY <2>1 DEF AddBuckets
  <2>3. PICK q : q = QueriesOf(d).buckets
    OBVIOUS
  <2>4. q[1] \in Nat /\ q[2] \in Nat /\ q[3] \in Nat /\ d.count = q[1] + q[2] + q[3]
    BY <2>2, <2>3, QueriesAre
  <2>5. g1[e] = q[1] /\ g2[e] = q[2] /\ g3[e] = q[3] /\ f[e] = d.count
    BY <1>1, <2>1, <2>3
  <2>6. h[e] = g1[e] + g2[e]
    BY <1>2
  <2> QED BY <2>4, <2>5, <2>6
<1>4. SumFunctionOnSet(h, X) = SumFunctionOnSet(g1, X) + SumFunctionOnSet(g2, X)
  BY <1>3, SumPlus
<1>5. SumFunctionOnSet(f, X) = SumFunctionOnSet(h, X) + SumFunctionOnSet(g3, X)
  BY <1>3, SumPlus
<1>6. /\ AddBuckets(X).buckets[1] = SumFunctionOnSet(g1, X)
      /\ AddBuckets(X).buckets[2] = SumFunctionOnSet(g2, X)
      /\ AddBuckets(X).buckets[3] = SumFunctionOnSet(g3, X)
  <2>1. \A b \in 1 .. 3 : AddBuckets(X).buckets[b] = SumFunctionOnSet([e \in X |-> QueriesOf(Endpoint(e)).buckets[b]], X)
    BY Zenon DEF AddBuckets, Total
  <2> QED BY <1>1, <2>1
<1> QED BY <1>4, <1>5, <1>6

\* What is told of a route is what was asked of it and executed for it.
IsTold(tally, B, route) ==
  /\ tally.requests \in Nat /\ tally.requests = Asked(B, route)
  /\ tally.profiled \in Nat /\ tally.unprofiled \in Nat /\ tally.profiled + tally.unprofiled = Asked(B, route)
  /\ tally.queries.known =>
       tally.queries.buckets[1] + tally.queries.buckets[2] + tally.queries.buckets[3] = Asked(B, route)
  /\ DOMAIN tally.operations = {key[2] : key \in {k \in UNION {Keys(w.window) : w \in Windows(B)} : k[1] = route}}
  /\ \A id \in DOMAIN tally.operations : /\ tally.operations[id] = Executed(B, <<route, id>>)
                                         /\ tally.operations[id] \in Nat

\* The sums of read.ts, over the route's entries and over its operations.
LEMMA TallyIs ==
  ASSUME NEW B \in SUBSET Batch, IsFiniteSet(B), NEW r, Counts(r.operations, B), NEW route,
         NEW tally, tally = TallyOf(r, Endpoints(Recorded(B), route), route)
  PROVE  IsTold(tally, B, route)
<1>1. PICK X : X = Endpoints(Recorded(B), route)
  OBVIOUS
<1>2. PICK f : f = [e \in X |-> Endpoint(e).count]
  OBVIOUS
<1>3. SumFunctionOnSet(f, X) = Asked(B, route)
  BY <1>1, <1>2, AskedIs
<1>4. IsFiniteSet(X) /\ \A e \in X : IsEndpoint(Endpoint(e))
  BY <1>1, EntriesAre
<1>5. \A e \in X : f[e] \in Nat
  BY <1>2, <1>4 DEF IsEndpoint
<1>6. PICK P : P = {e \in X : Covered(r, e.of) \/ ~Endpoint(e).calls}
  OBVIOUS
<1>7. PICK U : U = X \ P
  OBVIOUS
<1>8. PICK own : own = {key \in DOMAIN r.operations : key[1] = route}
  OBVIOUS
<1>9. PICK fp, fu : fp = [e \in P |-> Endpoint(e).count] /\ fu = [e \in U |-> Endpoint(e).count]
  OBVIOUS
<1>10. /\ tally.requests = SumFunctionOnSet(f, X)
       /\ tally.profiled = SumFunctionOnSet(fp, P)
       /\ tally.unprofiled = SumFunctionOnSet(fu, U)
       /\ tally.queries = AddBuckets(X)
       /\ tally.operations = [id \in {key[2] : key \in own} |-> r.operations[<<route, id>>]]
  BY <1>1, <1>2, <1>6, <1>7, <1>8, <1>9, Zenon DEF TallyOf, Total
<1>11. IsFiniteSet(P) /\ IsFiniteSet(U) /\ P \cap U = {} /\ P \cup U = X
  BY <1>4, <1>6, <1>7, FS_Subset
<1>12. SumFunctionOnSet(fp, P) = SumFunctionOnSet(f, P)
  <2>1. \A e \in P : fp[e] = f[e]
    BY <1>2, <1>9, <1>11
  <2> QED BY <1>11, <2>1, SumSame
<1>13. SumFunctionOnSet(fu, U) = SumFunctionOnSet(f, U)
  <2>1. \A e \in U : fu[e] = f[e]
    BY <1>2, <1>9, <1>11
  <2> QED BY <1>11, <2>1, SumSame
<1>14. SumFunctionOnSet(f, X) = SumFunctionOnSet(f, P) + SumFunctionOnSet(f, U)
  <2>1. \A e \in P \cup U : f[e] \in Nat
    BY <1>5, <1>11
  <2>2. SumFunctionOnSet(f, P \cup U) = SumFunctionOnSet(f, P) + SumFunctionOnSet(f, U)
    BY <1>11, <2>1, SumUnion
  <2> QED BY <1>11, <2>2
<1>15. SumFunctionOnSet(f, X) \in Nat /\ SumFunctionOnSet(f, P) \in Nat /\ SumFunctionOnSet(f, U) \in Nat
  <2>1. (\A e \in P : f[e] \in Nat) /\ (\A e \in U : f[e] \in Nat)
    BY <1>5, <1>11
  <2> QED BY <1>4, <1>5, <1>11, <2>1, SumType
<1>16. AddBuckets(X).known =>
         AddBuckets(X).buckets[1] + AddBuckets(X).buckets[2] + AddBuckets(X).buckets[3] = SumFunctionOnSet(f, X)
  BY <1>2, <1>4, BucketsAre
<1>17. DOMAIN tally.operations
         = {key[2] : key \in {k \in UNION {Keys(w.window) : w \in Windows(B)} : k[1] = route}}
  <2>1. own = {k \in UNION {Keys(w.window) : w \in Windows(B)} : k[1] = route}
    BY <1>8 DEF Counts
  <2> QED BY <1>10, <2>1
<1>18. ASSUME NEW id \in DOMAIN tally.operations
       PROVE  tally.operations[id] = Executed(B, <<route, id>>) /\ tally.operations[id] \in Nat
  <2>1. PICK key \in own : id = key[2]
    BY <1>10, <1>18
  <2>2. key \in UNION {Keys(w.window) : w \in Windows(B)} /\ key[1] = route
    BY <1>8, <2>1 DEF Counts
  <2>3. PICK w \in Windows(B) : key \in Keys(w.window)
    BY <2>2
  <2>4. PICK x \in Ran(w.window) : key = KeyOf(w.window, x)
    BY <2>3 DEF Keys
  <2>5. key = <<route, id>>
    BY <2>1, <2>2, <2>4 DEF KeyOf
  <2>6. key \in DOMAIN r.operations
    BY <1>8, <2>1
  <2>7. tally.operations[id] = r.operations[<<route, id>>]
    BY <1>10, <1>18
  <2>8. r.operations[key] = Executed(B, key)
    BY <2>6 DEF Counts
  <2>9. Executed(B, key) \in Nat
    BY ExecutedIs
  <2> QED BY <2>5, <2>7, <2>8, <2>9
<1> QED BY <1>3, <1>10, <1>12, <1>13, <1>14, <1>15, <1>16, <1>17, <1>18 DEF IsTold

\* The routes that are named, and what is told of each.
LEMMA FinishIs ==
  ASSUME NEW r, NEW B \in SUBSET Batch, Tells(r, B),
         NEW routes, routes = Finish(r).routes
  PROVE  /\ DOMAIN routes = UNION ({RoutesIn(w.window) : w \in Windows(B)} \cup {RoutesIn(x.interval) : x \in Recorded(B)})
         /\ \A route \in DOMAIN routes : routes[route] = TallyOf(r, Endpoints(Recorded(B), route), route)
<1>1. Intervals(r) = Recorded(B)
  BY IntervalsTold
<1>2. r.named = UNION {RoutesIn(w.window) : w \in Windows(B)}
  BY DEF Tells
<1>3. routes = [route \in r.named \cup UNION {RoutesIn(x.interval) : x \in Intervals(r)} |->
                  TallyOf(r, Endpoints(Intervals(r), route), route)]
  BY DEF Finish
<1>4. DOMAIN routes = r.named \cup UNION {RoutesIn(x.interval) : x \in Intervals(r)}
  BY <1>3
<1>5. \A route \in DOMAIN routes : routes[route] = TallyOf(r, Endpoints(Intervals(r), route), route)
  BY <1>3
<1>6. DOMAIN routes = UNION ({RoutesIn(w.window) : w \in Windows(B)} \cup {RoutesIn(x.interval) : x \in Recorded(B)})
  BY <1>1, <1>2, <1>4
<1>7. \A route \in DOMAIN routes : routes[route] = TallyOf(r, Endpoints(Recorded(B), route), route)
  BY <1>1, <1>5
<1> QED BY <1>6, <1>7

\* Of finitely many lines, finitely many routes.
LEMMA RoutesFinite ==
  ASSUME NEW B \in SUBSET Batch, IsFiniteSet(B)
  PROVE  IsFiniteSet(UNION ({RoutesIn(w.window) : w \in Windows(B)} \cup {RoutesIn(x.interval) : x \in Recorded(B)}))
<1>1. PICK S : S = {RoutesIn(w.window) : w \in Windows(B)}
  OBVIOUS
<1>2. PICK T : T = {RoutesIn(x.interval) : x \in Recorded(B)}
  OBVIOUS
<1>3. IsFiniteSet(S)
  <2>1. PICK f : f = [w \in Windows(B) |-> RoutesIn(w.window)]
    OBVIOUS
  <2>2. IsFiniteSet(DOMAIN f) /\ S = {f[w] : w \in DOMAIN f}
    BY <1>1, <2>1, WindowsFinite
  <2> QED BY <2>2, FiniteImage
<1>4. \A U \in S : IsFiniteSet(U)
  <2>1. ASSUME NEW w \in Windows(B) PROVE IsFiniteSet(RoutesIn(w.window))
    <3>1. PICK b \in Batch : Opens(b) /\ w.window = b.window
      BY WindowsFinite
    <3>2. IsFiniteSet(RoutesIn(b.window))
      BY <3>1, RanIsFinite
    <3> QED BY <3>1, <3>2
  <2> QED BY <1>1, <2>1
<1>5. IsFiniteSet(T)
  <2>1. PICK f : f = [x \in Recorded(B) |-> RoutesIn(x.interval)]
    OBVIOUS
  <2>2. IsFiniteSet(DOMAIN f) /\ T = {f[x] : x \in DOMAIN f}
    BY <1>2, <2>1, RecordedFinite
  <2> QED BY <2>2, FiniteImage
<1>6. \A U \in T : IsFiniteSet(U)
  <2>1. ASSUME NEW x \in Recorded(B) PROVE IsFiniteSet(RoutesIn(x.interval))
    <3>1. PICK list : list = x.interval.endpoints
      OBVIOUS
    <3>2. IsFiniteSet(Good(list))
      BY <3>1, RecordedFinite, FiniteList
    <3>3. PICK f : f = [k \in Good(list) |-> list[k].route]
      OBVIOUS
    <3>4. IsFiniteSet(DOMAIN f)
      BY <3>2, <3>3
    <3>5. RoutesIn(x.interval) = {list[k].route : k \in Good(list)}
      BY <3>1, Zenon DEF RoutesIn
    <3>6. RoutesIn(x.interval) = {f[k] : k \in DOMAIN f}
      BY <3>3, <3>5
    <3> QED BY <3>4, <3>6, FiniteImage
  <2> QED BY <1>2, <2>1
<1>7. IsFiniteSet(S \cup T) /\ \A U \in S \cup T : IsFiniteSet(U)
  <2>1. IsFiniteSet(S \cup T)
    BY <1>3, <1>5, FS_Union
  <2> QED BY <1>4, <1>6, <2>1
<1> QED BY <1>1, <1>2, <1>7, FS_UNION

\* What is told of the lines that were read is what they say.
LEMMA ToldOnce ==
  ASSUME NEW r, NEW B \in SUBSET Batch, IsFiniteSet(B), Tells(r, B)
  PROVE  ReadOnce(r, B) /\ IsRun(Finish(r))
<1>1. PICK routes : routes = Finish(r).routes
  OBVIOUS
<1>3. Counts(r.operations, B)
  BY DEF Tells
<1>4. DOMAIN routes = UNION ({RoutesIn(w.window) : w \in Windows(B)} \cup {RoutesIn(x.interval) : x \in Recorded(B)})
  BY <1>1, FinishIs
<1>5. ASSUME NEW route \in DOMAIN routes
      PROVE  /\ IsTold(routes[route], B, route)
             /\ RunReport(r)[route].repeated # {} => RunReport(r)[route].over > 0
  <2>1. PICK tally : tally = routes[route]
    OBVIOUS
  <2>2. tally = TallyOf(r, Endpoints(Recorded(B), route), route)
    BY <1>1, <2>1, FinishIs
  <2>3. IsTold(tally, B, route)
    BY <1>3, <2>2, TallyIs
  <2>4. RunReport(r)[route] = SummarizeRoute(tally)
    BY <1>1, <2>1 DEF RunReport
  <2>5. /\ SummarizeRoute(tally).over = tally.profiled
        /\ SummarizeRoute(tally).repeated
             = {id \in DOMAIN tally.operations : tally.profiled > 0 /\ tally.operations[id] > tally.profiled}
    BY DEF SummarizeRoute
  <2>6. RunReport(r)[route].repeated # {} => RunReport(r)[route].over > 0
    BY <2>4, <2>5
  <2> QED BY <2>1, <2>3, <2>6
<1>6. ReadOnce(r, B)
  BY <1>1, <1>4, <1>5, Zenon DEF ReadOnce, IsTold
<1>7. IsFiniteSet(DOMAIN routes)
  BY <1>4, RoutesFinite
<1>8. \A route \in DOMAIN routes : IsTally(routes[route])
  BY <1>5 DEF IsTally, IsTold
<1>9. IsRun(Finish(r))
  BY <1>1, <1>7, <1>8 DEF IsRun
<1> QED BY <1>6, <1>9

\* What was read of each side is told, of however many lines.
ReadInv ==
  /\ DOMAIN lines = Side /\ DOMAIN reader = Side
  /\ \A s \in Side : /\ lines[s] \in Seq(Line)
                     /\ IsFiniteSet(Batches(s)) /\ Tells(reader[s], Batches(s))

\* Before any line nothing is told.
LEMMA ReadInitially == ASSUME ReadInit PROVE ReadInv
<1>1. ASSUME NEW s \in Side
      PROVE  lines[s] = <<>> /\ reader[s] = NewReader
  BY DEF ReadInit
<1>2. DOMAIN lines = Side /\ DOMAIN reader = Side
  BY DEF ReadInit
<1>3. ASSUME NEW s \in Side
      PROVE  lines[s] \in Seq(Line) /\ IsFiniteSet(Batches(s)) /\ Tells(reader[s], Batches(s))
  <2>1. Batches(s) = {}
    BY <1>1 DEF Batches, ToSet
  <2>2. Windows({}) = {}
    BY DEF Windows
  <2>3. Counts(<<>>, {})
    BY <2>2 DEF Counts
  <2>4. DOMAIN NewReader = Fields /\ NewReader.processes = <<>> /\ NewReader.operations = <<>> /\ NewReader.named = {}
    BY DEF NewReader, Fields
  <2>5. Tells(NewReader, {})
    BY <2>2, <2>3, <2>4 DEF Tells
  <2>6. <<>> \in Seq(Line)
    OBVIOUS
  <2>7. IsFiniteSet(Batches(s))
    BY <2>1, FS_EmptySet
  <2> QED BY <1>1, <2>1, <2>5, <2>6, <2>7
<1> QED BY <1>2, <1>3 DEF ReadInv

\* A line that is not a batch tells nothing; one that is is told with the others.
LEMMA LineTold ==
  ASSUME NEW r, NEW B \in SUBSET Batch, IsFiniteSet(B), Tells(r, B), NEW line \in Line
  PROVE  Tells(ReadInspection(r, line), IF line.is = "batch" THEN B \cup {line} ELSE B)
<1>1. PICK after : after = ReadInspection(r, line)
  OBVIOUS
<1>2. DOMAIN r = Fields
  BY DEF Tells
<1>3. CASE line.is = "batch"
  <2>1. PICK added : added = ReadBatch(r, line)
    OBVIOUS
  <2>2. Tells(added, B \cup {line})
    BY <1>3, <2>1, TellsMore DEF Batch
  <2>3. LineVerdict(line) = "batch"
    BY <1>3 DEF LineVerdict
  <2>4. AddBatch(r, line) = added
    BY <1>3, <2>1 DEF AddBatch
  <2>5. PICK n : after = [added EXCEPT !.unread = n]
    BY <1>1, <2>3, <2>4, Zenon DEF ReadInspection
  <2>6. DOMAIN added = Fields
    BY <2>2 DEF Tells
  <2>7. DOMAIN after = Fields /\ after.processes = added.processes /\ after.operations = added.operations
        /\ after.named = added.named
    BY <2>5, <2>6 DEF Fields
  <2> QED BY <1>1, <1>3, <2>2, <2>7 DEF Tells
<1>4. CASE line.is # "batch"
  <2>1. DOMAIN after = Fields /\ after.processes = r.processes /\ after.operations = r.operations /\ after.named = r.named
    <3>1. LineVerdict(line) \in {"stop", "skip", "batch"}
      BY DEF LineVerdict
    <3>2. CASE LineVerdict(line) = "stop"
      <4>1. after = [r EXCEPT !.stopped = TRUE]
        BY <1>1, <3>2 DEF ReadInspection
      <4> QED BY <1>2, <4>1 DEF Fields
    <3>3. CASE LineVerdict(line) = "skip"
      <4>1. PICK m, n : after = [r EXCEPT !.skipped = m, !.unread = n]
        BY <1>1, <3>3, Zenon DEF ReadInspection
      <4> QED BY <1>2, <4>1 DEF Fields
    <3>4. CASE LineVerdict(line) = "batch"
      <4>1. PICK added : added = AddBatch(r, line)
        OBVIOUS
      <4>2. PICK m : added = [r EXCEPT !.problems = m]
        BY <1>4, <4>1, Zenon DEF AddBatch
      <4>3. PICK n : after = [added EXCEPT !.unread = n]
        BY <1>1, <3>4, <4>1, Zenon DEF ReadInspection
      <4> QED BY <1>2, <4>2, <4>3 DEF Fields
    <3> QED BY <3>1, <3>2, <3>3, <3>4
  <2> QED BY <1>1, <1>4, <2>1 DEF Tells
<1> QED BY <1>3, <1>4

\* The batches among some lines, one line more.
LEMMA BatchesGrow ==
  ASSUME NEW q \in Seq(Line), NEW line \in Line
  PROVE  /\ Append(q, line) \in Seq(Line)
         /\ {x \in ToSet(Append(q, line)) : x.is = "batch"}
              = {x \in ToSet(q) : x.is = "batch"} \cup (IF line.is = "batch" THEN {line} ELSE {})
<1>1. PICK n \in Nat : n = Len(q) /\ DOMAIN q = 1 .. n
  OBVIOUS
<1>2. PICK p : p = Append(q, line)
  OBVIOUS
<1>3. /\ p \in Seq(Line) /\ DOMAIN p = 1 .. n + 1 /\ p[n + 1] = line
      /\ \A k \in 1 .. n : p[k] = q[k]
  BY <1>1, <1>2
<1>4. 1 .. n + 1 = (1 .. n) \cup {n + 1}
  BY <1>1
<1>5. ToSet(p) = ToSet(q) \cup {line}
  BY <1>1, <1>3, <1>4 DEF ToSet
<1> QED BY <1>2, <1>3, <1>5

\* A line that is read keeps it, whatever it says.
LEMMA ReadingTells ==
  ASSUME ReadInv, NEW side \in Side, NEW line \in Line, ReadLine(side, line)
  PROVE  ReadInv'
<1>1. /\ lines' = [lines EXCEPT ![side] = Append(lines[side], line)]
      /\ reader' = [reader EXCEPT ![side] = ReadInspection(reader[side], line)]
  BY DEF ReadLine
<1>2. DOMAIN lines = Side /\ DOMAIN reader = Side
  BY DEF ReadInv
<1>3. DOMAIN lines' = Side /\ DOMAIN reader' = Side
  BY <1>1, <1>2
<1>4. ASSUME NEW s \in Side
      PROVE  /\ lines'[s] \in Seq(Line) /\ IsFiniteSet({x \in ToSet(lines'[s]) : x.is = "batch"})
             /\ Tells(reader'[s], {x \in ToSet(lines'[s]) : x.is = "batch"})
  <2>1. PICK B : B = {x \in ToSet(lines[s]) : x.is = "batch"}
    OBVIOUS
  <2>2. PICK q \in Seq(Line) : q = lines[s]
    BY DEF ReadInv
  <2>3. IsFiniteSet(B) /\ Tells(reader[s], B)
    BY <2>1 DEF ReadInv, Batches
  <2>4. CASE s # side
    <3>1. lines'[s] = lines[s] /\ reader'[s] = reader[s]
      BY <1>1, <1>2, <2>4
    <3> QED BY <2>1, <2>2, <2>3, <3>1
  <2>5. CASE s = side
    <3>1. PICK r : r = reader[s]
      OBVIOUS
    <3>2. lines'[s] = Append(q, line) /\ reader'[s] = ReadInspection(r, line)
      BY <1>1, <1>2, <2>2, <2>5, <3>1
    <3>3. PICK C : C = IF line.is = "batch" THEN B \cup {line} ELSE B
      OBVIOUS
    <3>4. {x \in ToSet(lines'[s]) : x.is = "batch"} = C /\ lines'[s] \in Seq(Line)
      BY <2>1, <2>2, <3>2, <3>3, BatchesGrow
    <3>5. B \in SUBSET Batch
      BY <2>1, <2>2 DEF ToSet, Batch
    <3>6. IsFiniteSet(C)
      BY <2>3, <3>3, FS_AddElement
    <3>7. Tells(reader'[s], C)
      BY <2>3, <3>1, <3>2, <3>3, <3>5, LineTold
    <3> QED BY <3>4, <3>6, <3>7
  <2> QED BY <2>4, <2>5
<1> QED BY <1>3, <1>4 DEF ReadInv, Batches

\* What a file says is what was told of its lines, and of two files both ways.
LEMMA ReadOnceOfBoth == ASSUME ReadInv PROVE EachLineOnce
<1>1. ASSUME NEW s \in Side PROVE ReadOnce(reader[s], Batches(s)) /\ IsRun(Finish(reader[s]))
  <2>1. Batches(s) \in SUBSET Batch
    <3>1. PICK q \in Seq(Line) : q = lines[s]
      BY DEF ReadInv
    <3>2. {x \in ToSet(q) : x.is = "batch"} \in SUBSET Batch
      BY <3>1 DEF ToSet, Batch
    <3> QED BY <3>1, <3>2 DEF Batches
  <2>2. IsFiniteSet(Batches(s)) /\ Tells(reader[s], Batches(s))
    BY DEF ReadInv
  <2> QED BY <2>1, <2>2, ToldOnce
<1>2. PICK base, change : base = Finish(reader["base"]) /\ change = Finish(reader["change"])
  OBVIOUS
<1>3. IsRun(base) /\ IsRun(change)
  BY <1>1, <1>2 DEF Side
<1>4. PICK there, back, same : /\ there = CompareRuns(base, change) /\ back = CompareRuns(change, base)
                               /\ same = CompareRuns(base, base)
  OBVIOUS
<1>5. /\ \A route \in DOMAIN there :
           /\ there[route].verdict = "not-evaluated" <=> back[route].verdict = "not-evaluated"
           /\ \A id \in DOMAIN there[route].operations :
                back[route].operations[id] = Mirrored[there[route].operations[id]]
      /\ NothingCompared(there) <=> NothingCompared(back)
      /\ \A route \in DOMAIN same : same[route].verdict # "worse"
  BY <1>3, <1>4, ComparesBothWays, CompareAssumption
<1>6. RunCompareExit(reader["base"], reader["change"]) = 2 <=> RunCompareExit(reader["change"], reader["base"]) = 2
  <2>1. PICK r, q : r = reader["base"] /\ q = reader["change"]
    OBVIOUS
  <2>2. there = CompareRuns(Finish(r), Finish(q)) /\ back = CompareRuns(Finish(q), Finish(r))
    BY <1>2, <1>4, <2>1
  <2>3. RunCompareExit(r, q) = 2 <=> Inspected(r) # "ok" \/ Inspected(q) # "ok" \/ NothingCompared(there)
    BY <2>2 DEF RunCompareExit, NothingCompared
  <2>4. RunCompareExit(q, r) = 2 <=> Inspected(q) # "ok" \/ Inspected(r) # "ok" \/ NothingCompared(back)
    BY <2>2 DEF RunCompareExit, NothingCompared
  <2> QED BY <1>5, <2>1, <2>3, <2>4
<1> QED BY <1>1, <1>2, <1>4, <1>5, <1>6, Zenon DEF EachLineOnce

\* For any lines of any two runs, in whatever order those of several processes come and however
\* often one is written, what is said of each run is what its lines say, each once; and the two
\* compare one way as the other (read.ts 292-430, compare.ts 200-336).
THEOREM LinesAreReadOnce == ReadSpec => []EachLineOnce
<1>1. ReadInit => ReadInv
  BY ReadInitially
<1>2. ReadInv /\ [\E side \in Side, line \in Line : ReadLine(side, line)]_readVars => ReadInv'
  <2> SUFFICES ASSUME ReadInv, [\E side \in Side, line \in Line : ReadLine(side, line)]_readVars PROVE ReadInv'
    OBVIOUS
  <2>1. CASE \E side \in Side, line \in Line : ReadLine(side, line)
    BY <2>1, ReadingTells
  <2>2. CASE UNCHANGED readVars
    BY <2>2 DEF readVars, ReadInv, Batches
  <2> QED BY <2>1, <2>2
<1>3. ReadInv => EachLineOnce
  BY ReadOnceOfBoth
<1> QED BY <1>1, <1>2, <1>3, PTL DEF ReadSpec
=============================================================================
