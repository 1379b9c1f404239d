----------------------------- MODULE InitCommand -----------------------------
(***************************************************************************)
(* downtrace init (packages/agent/src/init/): it reads the project, plans, *)
(* and only then writes, one file after another.  It may fail or be killed *)
(* at any write and run again, while the person saves files of their own.  *)
(***************************************************************************)
EXTENDS Integers, Sequences, FiniteSets

CONSTANTS
  Projects,        \* the projects it is run in: what package.json and the directory say
  \* Bounds of the model:
  MaxRuns, MaxSaves

ASSUME InitAssumption == MaxRuns \in Nat /\ MaxSaves \in Nat

VARIABLES
  project, \* which one
  disk,    \* of each file: what there is of it
  init,    \* the command: its phase, what it read, what is left to write, what it missed
  runs,
  saved,   \* the person: how often each file was saved
  fate     \* history: files that were saved while init held an older text of them, files that a
           \* write was cut in, and how often each was written in full

initVars == <<project, disk, init, runs, saved, fate>>

File == {"package.json", "downtrace.json", "hook", "instrument", "entry"}
Edited == {"package.json", "downtrace.json", "entry"}

\* A text of the person's, at a version, that does or does not already do its part: give the
\* command, load the instrumentation, start it.
Absent == [kind |-> "absent", person |-> 0, ours |-> FALSE]
Cut    == [kind |-> "cut", person |-> 0, ours |-> FALSE]
Text(person, ours) == [kind |-> "text", person |-> person, ours |-> ours]

NotRunning == [phase |-> "ended", read |-> [f \in {} |-> Absent], writes |-> <<>>, missing |-> {}, opened |-> FALSE,
               outcome |-> "none"]

InitInit ==
  /\ project \in Projects
  /\ disk \in [File -> {Absent, Text(1, FALSE), Text(1, TRUE)}]
  /\ disk["package.json"].kind = "text" /\ (disk["entry"].kind = "text") = project.entryThere
  /\ disk["entry"].ours => disk["instrument"].kind = "text"
  /\ init = NotRunning /\ runs = 0
  /\ saved = [f \in File |-> IF disk[f].kind = "text" THEN 1 ELSE 0]
  /\ fate = [overtaken |-> {}, cut |-> {}, written |-> [f \in File |-> 0]]

-----------------------------------------------------------------------------
\* What is read

\* The entry that is named by the start scripts, by main or by NestJS, when it is a source that
\* init can edit; the flag of node in an ES module; nothing where production does not install it.
InstrumentLayout(p) ==
  LET named == IF p.nest THEN "ts" ELSE p.named
  IN CASE p.agent # "production" -> "skipped"
       [] p.agent = "production" /\ p.esm -> "flag"
       [] p.agent = "production" /\ ~p.esm ->
            IF named \notin {"js", "ts"} \/ (named = "js" /\ p.tsconfig) \/ ~p.entryThere THEN "unknown" ELSE "entry"

\* A build that prunes what nothing imports, and what keeps its hook from being written.
NextBuild(p) == p.next /\ p.standalone
Unresolving(p) == p.tsconfig /\ p.resolution = "old"

\* What check's configuration is to be: one that is there is kept, given a command it lacks, or
\* refused when it does not parse.
PlanConfig(existing, command) ==
  CASE existing.kind = "absent" -> IF command THEN "create" ELSE "none"
    [] existing.kind = "cut"    -> "refuse"
    [] existing.ours            -> "keep"
    [] OTHER                    -> IF command THEN "update" ELSE "none"

\* What is missing of the project itself.
MissingOf(p, plan) ==
  {m \in {"no-framework", "no-test-command", "not-a-repository"} :
     CASE m = "no-framework"     -> ~p.framework
       [] m = "no-test-command"  -> plan = "none"
       [] m = "not-a-repository" -> ~p.repository}

Holds(f) == init.read[f]

-----------------------------------------------------------------------------
\* What is written: a file with the text it is to have, in the order of the writes

Write(f, create) == [file |-> f, create |-> create, text |-> Text(Holds(f).person, TRUE)]

ConfigWrites(plan) ==
  IF plan \in {"create", "update"} THEN <<Write("downtrace.json", plan = "create")>> ELSE <<>>

HookPlan(p) ==
  LET existing == Holds("hook").kind # "absent"
      missing  == CASE ~NextBuild(p) -> {}
                    [] existing /\ ~Holds("hook").ours -> {"instrumentation-exists"}
                    [] existing /\ Holds("hook").ours -> {}
                    [] OTHER -> (IF p.agent = "none" THEN {"not-installed"} ELSE {})
                                \cup (IF Unresolving(p) THEN {"module-resolution"} ELSE {})
  IN [missing |-> missing,
      writes  |-> IF NextBuild(p) /\ ~existing /\ missing = {} THEN <<Write("hook", TRUE)>> ELSE <<>>]

LoadsNever(text) == FALSE

\* Each only if it is not there, whatever it says.
LoadsInstrument(text) == text.ours

PlanInstrument(p) ==
  LET layout == InstrumentLayout(p)
      file   == IF Holds("instrument").kind = "absent" THEN <<Write("instrument", TRUE)>> ELSE <<>>
      none   == [missing |-> {}, writes |-> <<>>]
  IN CASE p.next \/ layout = "skipped" -> none
       [] ~p.next /\ layout = "unknown" -> [none EXCEPT !.missing = {"no-entry"}]
       [] ~p.next /\ layout = "entry" ->
            [none EXCEPT !.writes = file \o IF LoadsInstrument(Holds("entry")) THEN <<>> ELSE <<Write("entry", FALSE)>>]
       [] ~p.next /\ layout = "flag" ->
            IF p.start # "node" THEN [writes |-> file, missing |-> {"no-start-script"}]
            ELSE [none EXCEPT !.writes =
                    file \o IF LoadsInstrument(Holds("package.json")) THEN <<>>
                            \* The first place that holds the name and the script is the one that is edited.
                            ELSE <<[Write("package.json", FALSE) EXCEPT !.text.ours = ~p.twin]>>]

-----------------------------------------------------------------------------
\* The command

Ended(outcome) == [init EXCEPT !.phase = "ended", !.outcome = outcome]

InitStarts ==
  /\ init.phase = "ended" /\ runs < MaxRuns /\ runs' = runs + 1
  /\ init' = [NotRunning EXCEPT !.phase = "reading", !.read = [f \in {"package.json"} |-> disk[f]],
                !.outcome = IF disk["package.json"].kind = "cut" THEN "failed" ELSE "none"]
  /\ UNCHANGED <<project, disk, saved, fate>>

\* configure, up to what detect and the configuration say.
InitReads ==
  /\ init.phase = "reading"
  /\ LET plan == PlanConfig(disk["downtrace.json"], project.test)
     IN IF init.outcome = "failed" \/ plan = "refuse" THEN init' = Ended("failed")
        ELSE init' = [init EXCEPT !.phase = "planning", !.missing = MissingOf(project, plan),
                        !.read = [f \in {"package.json", "downtrace.json", "hook"} |->
                                    IF f = "package.json" THEN init.read[f] ELSE disk[f]]]
  /\ UNCHANGED <<project, disk, runs, saved, fate>>

InitPlans ==
  /\ init.phase = "planning"
  /\ init' = [init EXCEPT !.phase = "planned", !.read = [f \in File |-> IF f \in DOMAIN @ THEN @[f] ELSE disk[f]]]
  /\ UNCHANGED <<project, disk, runs, saved, fate>>

\* The hook and the instrument file are settled once everything is read.
InitSettles ==
  /\ init.phase = "planned"
  /\ LET hook == HookPlan(project)
         instrument == PlanInstrument(project)
     IN init' = [init EXCEPT !.phase = "writing", !.missing = @ \cup hook.missing \cup instrument.missing,
                   !.writes = ConfigWrites(PlanConfig(Holds("downtrace.json"), project.test))
                              \o hook.writes \o instrument.writes]
  /\ UNCHANGED <<project, disk, runs, saved, fate>>

\* A write opens the file, which empties it or refuses one that is there, and then fills it.
InitOpens ==
  /\ init.phase = "writing" /\ init.writes # <<>> /\ ~init.opened
  /\ LET write == Head(init.writes)
     IN IF write.create /\ disk[write.file].kind # "absent"
        THEN init' = Ended("failed") /\ UNCHANGED disk
        ELSE init' = [init EXCEPT !.opened = TRUE] /\ disk' = [disk EXCEPT ![write.file] = Cut]
  /\ UNCHANGED <<project, runs, saved, fate>>

InitFills ==
  /\ init.phase = "writing" /\ init.opened
  /\ LET write == Head(init.writes)
     IN /\ disk' = [disk EXCEPT ![write.file] = write.text]
        /\ fate' = [fate EXCEPT !.written[write.file] = @ + 1]
  /\ init' = [init EXCEPT !.opened = FALSE, !.writes = Tail(@)]
  /\ UNCHANGED <<project, runs, saved>>

InitReports ==
  /\ init.phase = "writing" /\ init.writes = <<>>
  /\ init' = Ended(IF init.missing = {} THEN "configured" ELSE "incomplete")
  /\ UNCHANGED <<project, disk, runs, saved, fate>>

\* An error of the disk, or the end of the process, wherever it is.
InitFails ==
  /\ init.phase # "ended" /\ init' = Ended("failed")
  /\ fate' = IF init.opened THEN [fate EXCEPT !.cut = @ \cup {Head(init.writes).file}] ELSE fate
  /\ UNCHANGED <<project, disk, runs, saved>>

PersonSaves(f) ==
  LET all == saved["package.json"] + saved["downtrace.json"] + saved["entry"]
  IN /\ disk[f].kind = "text" /\ all < MaxSaves + 3 /\ saved[f] < MaxSaves + 1
     /\ saved' = [saved EXCEPT ![f] = @ + 1]
     /\ disk' = [disk EXCEPT ![f].person = saved[f] + 1]
     /\ fate' = IF init.phase # "ended" /\ f \in DOMAIN init.read
                THEN [fate EXCEPT !.overtaken = @ \cup {f}] ELSE fate
     /\ UNCHANGED <<project, init, runs>>

InitNext ==
  \/ InitStarts \/ InitReads \/ InitPlans \/ InitSettles
  \/ InitOpens \/ InitFills \/ InitReports \/ InitFails
  \/ \E f \in Edited : PersonSaves(f)

InitSpec == InitInit /\ [][InitNext]_initVars

-----------------------------------------------------------------------------
\* What the person wrote is there as they last saved it, in every file they did not save while
\* init held an older text and in which no write was cut; the entry loads a file that is there,
\* though perhaps cut; and, however many runs failed or were killed at whatever point and whatever
\* was saved beside them, no file is written in full twice, and a project said to be configured is:
\* it has a command, and what loads the instrumentation does so.  Two things are left out, and
\* named below: an instrument file a run was cut in, which the next takes for the person's
\* (ConfiguredIsWhole is of that), and a script whose name and text are earlier in package.json
\* than in its scripts, where the flag is then put instead (command.ts 116-341).
InitKeepsWhatIsThere ==
  /\ \A f \in Edited :
       \/ disk[f].person = saved[f]
       \/ f \in fate.overtaken \cup fate.cut
       \/ init.opened /\ Head(init.writes).file = f
  /\ disk["entry"].ours => disk["instrument"].kind # "absent"
  /\ \A f \in File : fate.written[f] > 1 => f = "package.json" /\ project.twin
  /\ init.phase = "ended" /\ init.outcome = "configured" =>
       /\ disk["downtrace.json"].ours
       /\ NextBuild(project) => disk["hook"].ours
       /\ ~project.next /\ project.agent = "production" =>
            /\ IF project.esm THEN disk["package.json"].ours \/ project.twin ELSE disk["entry"].ours
            /\ disk["instrument"].kind = "text" \/ "instrument" \in fate.cut

\* A project said to be configured has its instrument file whole: a run that was cut is run again,
\* and what it already wrote is kept (command.ts 182-186).  It does not hold of a file that was cut when it was empty.
ConfiguredIsWhole ==
  init.phase = "ended" /\ init.outcome = "configured" /\ ~project.next /\ project.agent = "production" =>
    disk["instrument"].kind = "text"
=============================================================================
