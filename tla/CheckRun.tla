------------------------------- MODULE CheckRun -------------------------------
(***************************************************************************)
(* downtrace check (packages/agent/src/check/run.ts): the base is checked  *)
(* out in a temporary worktree, the command is run on it and on the        *)
(* working tree, and whatever was made is taken away, however it ended.    *)
(* Commands are process groups, stopped by SIGTERM and, after a grace, by  *)
(* SIGKILL, which a process with a group of its own is not reached by; the *)
(* person may interrupt, and git may be stopped, at any step.              *)
(***************************************************************************)
EXTENDS Integers, Sequences, FiniteSets, Advice

CONSTANTS
  Options,  \* what check is asked: its base, a prepare command or none, what it says of links
  Place,    \* the places of the working tree that hold dependencies or an environment file
  LinkDepth

ASSUME CheckAssumption == LinkDepth \in Nat

VARIABLES
  options, \* of these, the one asked
  check,   \* its phase, the side it is at, the failure it stopped with, what each run left
  made,    \* what there is to take away, as check knows it
  left,    \* what there is of it: the directory, the worktree, its entry in git, the links
  command, \* the command that runs: its leader, what it started, its timers
  interrupted, \* the person interrupted
  said,    \* what the report says was left
  trace     \* history: processes that outlived a command, kills left pending, an entry left by a
           \* checkout that was done as git was stopped

checkVars == <<options, check, made, left, command, interrupted, said, trace>>

NoCommand == [of |-> "none", leader |-> "gone", code |-> 1, background |-> "none", timedOut |-> FALSE,
              stopped |-> FALSE, kills |-> 0, timers |-> {}]

CheckInit ==
  /\ options \in Options
  /\ check = [phase |-> "starting", failure |-> "none", ran |-> <<>>, linked |-> {}, notes |-> {}]
  /\ made = [tmp |-> FALSE, worktree |-> FALSE, links |-> {}]
  /\ left = [tmp |-> FALSE, tree |-> FALSE, entry |-> FALSE, links |-> {}]
  /\ command = NoCommand /\ interrupted = FALSE /\ said = {}
  /\ trace = [outlived |-> {}, stray |-> FALSE, raced |-> FALSE]

Goes(phase) == check' = [check EXCEPT !.phase = phase]

\* A failure goes to the cleaning, and is an interruption whatever it was if there was one.
Throws(code) ==
  check' = [check EXCEPT !.phase = "cleaning links", !.failure = IF interrupted THEN "interrupted" ELSE code]

-----------------------------------------------------------------------------
\* The repository, the base and the links

\* A git command: it may fail or be stopped at its timeout, and is once the person interrupted.
Git == IF interrupted THEN {FALSE} ELSE BOOLEAN

FindsBase ==
  /\ check.phase = "starting"
  /\ \E repository, commit \in Git :
       IF ~repository THEN Throws("not-a-repository")
       ELSE IF options.base = "dash" \/ ~commit THEN Throws("bad-ref") ELSE Goes("making")
  /\ UNCHANGED <<options, made, left, command, interrupted, said, trace>>

MakesTmp ==
  /\ check.phase = "making"
  /\ \/ Throws("setup-failed") /\ UNCHANGED <<made, left>>
     \/ /\ made' = [made EXCEPT !.tmp = TRUE] /\ left' = [left EXCEPT !.tmp = TRUE]
        /\ IF options.tmpInside THEN Throws("setup-failed") ELSE Goes("checking out")
  /\ UNCHANGED <<options, command, interrupted, said, trace>>

\* Stopped, by the person or at its timeout, git takes away what it was making, or had made it
\* already.
AddsWorktree ==
  /\ check.phase = "checking out"
  /\ \E added \in Git :
       \/ /\ added /\ made' = [made EXCEPT !.worktree = TRUE]
          /\ left' = [left EXCEPT !.tree = TRUE, !.entry = TRUE]
          /\ IF options.baseHasProject THEN Goes("linking") ELSE Throws("setup-failed")
          /\ UNCHANGED trace
       \/ ~added /\ Throws("setup-failed") /\ UNCHANGED <<made, left, trace>>
       \/ /\ ~added /\ Throws("setup-failed") /\ UNCHANGED made
          /\ left' = [left EXCEPT !.tree = TRUE, !.entry = TRUE]
          /\ trace' = [trace EXCEPT !.raced = TRUE]
  /\ UNCHANGED <<options, command, interrupted, said>>

\* Dependencies and environment files that the base lacks, in directories it has, down to a depth.
Linked(place) == place.depth <= LinkDepth /\ place.inBase /\ place.present = "no"

\* A link of dependencies that leads nowhere is taken for none, and one cannot be made there.
Obstructed(place) == place.depth <= LinkDepth /\ place.inBase /\ place.present = "dangling" /\ place.nodeModules

LinkDependencies ==
  /\ check.phase = "linking" /\ (options.link = "on" \/ (options.link = "unsaid" /\ ~options.prepare))
  /\ \/ \E place \in Place \ made.links :
          /\ Linked(place) /\ UNCHANGED check
          /\ made' = [made EXCEPT !.links = @ \cup {place}] /\ left' = [left EXCEPT !.links = @ \cup {place}]
     \/ Throws("setup-failed") /\ UNCHANGED <<made, left>>
     \/ /\ \A place \in Place : Linked(place) => place \in made.links
        /\ ~\E place \in Place : Obstructed(place)
        /\ Goes("linked") /\ UNCHANGED <<made, left>>
  /\ UNCHANGED <<options, command, interrupted, said, trace>>

LinksNothing ==
  /\ check.phase = "linking" /\ (options.link = "off" \/ (options.link = "unsaid" /\ options.prepare))
  /\ Goes("linked")
  /\ UNCHANGED <<options, made, left, command, interrupted, said, trace>>

-----------------------------------------------------------------------------
\* runCommand: a group of processes, of which the leader may leave some behind.  What it left may
\* hold its streams or not, and may be in a group of its own.

InBackground == {"piped", "redirected", "piped apart", "redirected apart"}
HoldsStreams(background) == background \in {"piped", "piped apart"}
OfItsOwnGroup(background) == background \in {"piped apart", "redirected apart"}

KilledNone(background) == background

\* A signal is for the group of the command.
Killed(background) == IF OfItsOwnGroup(background) THEN background ELSE "none"

NextOf ==
  LET ran == {check.ran[i].of : i \in DOMAIN check.ran}
  IN IF options.prepare /\ ran = {} THEN "prepare" ELSE IF "base" \in ran THEN "change" ELSE "base"

\* One that is started after the interruption is told to stop at once.
CommandStarts ==
  /\ check.phase = "linked"
  /\ \/ /\ \E background \in InBackground \cup {"none"} :
             command' = [NoCommand EXCEPT !.of = NextOf, !.leader = "running", !.background = background,
                           !.timers = {"timeout"} \cup (IF interrupted THEN {"kill"} ELSE {}),
                           !.stopped = interrupted, !.kills = IF interrupted THEN 1 ELSE 0]
        /\ Goes("running")
     \/ Throws("setup-failed") /\ UNCHANGED command
  /\ UNCHANGED <<options, made, left, interrupted, said, trace>>

Running == check.phase = "running"

CommandEnds(code) ==
  /\ Running /\ command.leader = "running"
  /\ command' = [command EXCEPT !.leader = "exited", !.code = code, !.timers = @ \cup {"streams"}]
  /\ UNCHANGED <<options, check, made, left, interrupted, said, trace>>

BackgroundEnds ==
  /\ Running /\ command.background # "none"
  /\ command' = [command EXCEPT !.background = "none"]
  /\ UNCHANGED <<options, check, made, left, interrupted, said, trace>>

\* SIGTERM, and SIGKILL after a grace: once for the timeout and once for the interruption.
Stops(why) ==
  command' = [command EXCEPT !.timers = (@ \ {why}) \cup {"kill"}, !.kills = @ + 1,
                !.timedOut = @ \/ why = "timeout", !.stopped = @ \/ why = "interruption"]

CommandTimesOut ==
  /\ Running /\ "timeout" \in command.timers /\ Stops("timeout")
  /\ UNCHANGED <<options, check, made, left, interrupted, said, trace>>

CommandInterrupted ==
  /\ Running /\ interrupted /\ ~command.stopped /\ Stops("interruption")
  /\ UNCHANGED <<options, check, made, left, interrupted, said, trace>>

SignalGroup ==
  /\ Running /\ "kill" \in command.timers
  /\ command' = [command EXCEPT !.timers = (@ \ {"kill"}) \cup (IF command.leader = "running" THEN {"streams"} ELSE {}),
                   !.background = Killed(@), !.leader = IF @ = "running" THEN "exited" ELSE @]
  /\ UNCHANGED <<options, check, made, left, interrupted, said, trace>>

\* The streams are closed by those that hold them; a process that holds neither goes on.  Of
\* two kills that were set, the end of the command takes back the last.
Finishes ==
  LET outlived == trace.outlived \cup ({command'.background} \ {"none"})
      stray    == trace.stray \/ command.kills = 2
  IN /\ check' = [check EXCEPT !.phase = "ran"]
     /\ trace' = [trace EXCEPT !.stray = stray, !.outlived = outlived]

CommandCloses ==
  /\ Running /\ command.leader = "exited" /\ ~HoldsStreams(command.background)
  /\ UNCHANGED command /\ Finishes
  /\ UNCHANGED <<options, made, left, interrupted, said>>

\* The grace of the streams: the group is killed, and they are not waited for any more.
StreamsGrace ==
  /\ Running /\ command.leader = "exited" /\ "streams" \in command.timers
  /\ command' = [command EXCEPT !.background = Killed(@)]
  /\ Finishes
  /\ UNCHANGED <<options, made, left, interrupted, said>>

-----------------------------------------------------------------------------
\* What each run left, and the comparison

Run(tally) == [of |-> command.of, code |-> command.code, timedOut |-> command.timedOut, tally |-> tally]

Prepared ==
  /\ check.phase = "ran" /\ command.of = "prepare"
  /\ IF command.timedOut \/ command.code # 0
     THEN Throws(IF AdviceForUnlinkedBase(options, options.workingDeps, options.baseDeps)
                 THEN "setup-failed, unlinked" ELSE "setup-failed")
     ELSE check' = [check EXCEPT !.phase = "linked", !.ran = Append(@, Run("none"))]
  /\ UNCHANGED <<options, made, left, command, interrupted, said, trace>>

FailureWhateverTheTime(timedOut, code, requests) ==
  CASE code # 0 -> "command-failed" [] code = 0 /\ requests = 0 -> "no-profile" [] OTHER -> "none"

\* A run counts when it ended, ended well, and was asked something.
RunFailure(timedOut, code, requests) ==
  CASE timedOut -> "timeout"
    [] ~timedOut /\ code # 0 -> "command-failed"
    [] ~timedOut /\ code = 0 /\ requests = 0 -> "no-profile"
    [] OTHER -> "none"

ReadsRun ==
  /\ check.phase = "ran" /\ command.of # "prepare"
  /\ \E n, m \in 0 .. 1 :
       LET tally == [requests |-> n, unprofiled |-> 0, malformed |-> m, observers |-> [pg |-> "active"]]
           failure == RunFailure(command.timedOut, command.code, tally.requests)
       IN IF failure # "none" THEN Throws(failure)
          ELSE check' = [check EXCEPT !.ran = Append(@, Run(tally)),
                           !.phase = IF command.of = "base" THEN "linked" ELSE "judging"]
  /\ UNCHANGED <<options, made, left, command, interrupted, said, trace>>

Judges ==
  /\ check.phase = "judging"
  /\ \E verdict \in {"unchanged", "worse", "not-evaluated"} :
       LET sides  == SubSeq(check.ran, Len(check.ran) - 1, Len(check.ran))
           judged == Judge(sides[1].tally, sides[2].tally, {[verdict |-> verdict, reason |-> "none"]}, {"pg"})
       IN IF judged.failure # "none" THEN Throws(judged.failure)
          ELSE check' = [check EXCEPT !.phase = "cleaning links", !.failure = "compared", !.notes = judged.notes]
  /\ UNCHANGED <<options, made, left, command, interrupted, said, trace>>

-----------------------------------------------------------------------------
\* cleanUp: each thing is taken away or said, and none stops the next

CleansLinks ==
  /\ check.phase = "cleaning links"
  /\ \E kept \in SUBSET made.links :
       /\ left' = [left EXCEPT !.links = kept] /\ said' = said \cup (IF kept = {} THEN {} ELSE {"links"})
  /\ Goes("cleaning worktree")
  /\ UNCHANGED <<options, made, command, interrupted, trace>>

\* git removes it; or its directory is removed and its entry pruned; or it is said.
RemovesWorktree(removed, directory, pruned) ==
  /\ left' = [left EXCEPT !.tree = ~(removed \/ directory), !.entry = ~(removed \/ (directory /\ pruned)),
                          !.links = IF removed \/ directory THEN {} ELSE @]
  /\ said' = IF removed \/ (directory /\ pruned) THEN said ELSE said \cup {"worktree"}

CleansWorktree ==
  /\ check.phase = "cleaning worktree"
  /\ IF made.worktree THEN \E removed, directory, pruned \in BOOLEAN : RemovesWorktree(removed, directory, pruned)
     ELSE UNCHANGED <<left, said>>
  /\ Goes("cleaning tmp")
  /\ UNCHANGED <<options, made, command, interrupted, trace>>

CleansTmp ==
  /\ check.phase = "cleaning tmp"
  /\ \/ ~made.tmp /\ UNCHANGED <<left, said>>
     \/ made.tmp /\ left' = [left EXCEPT !.tmp = FALSE, !.tree = FALSE, !.links = {}] /\ UNCHANGED said
     \/ made.tmp /\ said' = said \cup {"tmp"} /\ UNCHANGED left
  /\ Goes("reported")
  /\ UNCHANGED <<options, made, command, interrupted, trace>>

PersonAborts ==
  /\ ~interrupted /\ check.phase # "reported" /\ interrupted' = TRUE
  /\ UNCHANGED <<options, check, made, left, command, said, trace>>

CheckNext ==
  \/ FindsBase \/ MakesTmp \/ AddsWorktree \/ LinkDependencies \/ LinksNothing
  \/ CommandStarts \/ BackgroundEnds \/ CommandTimesOut \/ CommandInterrupted \/ SignalGroup
  \/ \E code \in 0 .. 1 : CommandEnds(code)
  \/ CommandCloses \/ StreamsGrace \/ Prepared \/ ReadsRun \/ Judges
  \/ CleansLinks \/ CleansWorktree \/ CleansTmp \/ PersonAborts

CheckSpec == CheckInit /\ [][CheckNext]_checkVars

-----------------------------------------------------------------------------
\* Once it has reported, however it ended, check left nothing it does not say it left: neither its
\* directory, nor the worktree, its entry in git or a link; no process of a command's group that
\* holds its streams outlives it; and it compared only two runs that ended in time, ended well and
\* were asked something (run.ts 184-255, 454-498, 623-830).  Two things it may leave unsaid are
\* named below: the entry of a checkout that was done as git was stopped (EntryGoesToo is of that),
\* and a process with a group of its own (WhatHoldsGoesToo).
NothingLeft ==
  /\ "piped" \notin trace.outlived
  /\ check.phase = "reported" =>
       /\ left.tmp => "tmp" \in said
       /\ left.tree => {"worktree", "tmp"} \cap said # {}
       /\ left.entry => "worktree" \in said \/ trace.raced
       /\ left.links # {} => said # {}
       /\ check.failure = "compared" =>
            LET compared == {i \in DOMAIN check.ran : check.ran[i].of # "prepare"}
            IN /\ {check.ran[i].of : i \in compared} = {"base", "change"}
               /\ \A i \in compared : check.ran[i].code = 0 /\ ~check.ran[i].timedOut /\ check.ran[i].tally.requests > 0

\* What a command started and still holds its output goes with it (run.ts 243-245).
\* It does not hold of what made a group of its own.
WhatHoldsGoesToo == \A background \in trace.outlived : ~HoldsStreams(background)

\* The worktree is removed when the runs end, however they ended, or it is said that it was not
\* (guide/check.md 15).  It does not hold of a git that was stopped with its checkout done.
EntryGoesToo == check.phase = "reported" /\ left.entry => "worktree" \in said
=============================================================================
