-------------------------------- MODULE Advice --------------------------------
(***************************************************************************)
(* What check says beside its result (packages/agent/src/check/hints.ts    *)
(* and run.ts): which advice a failure carries and which notes a pair of   *)
(* runs does, from what was found on the disk and in the runs' files.      *)
(***************************************************************************)
EXTENDS Integers, FiniteSets

\* The packages each observer looks for a driver in; some of those there are.
ObserverPackages ==
  [pg |-> {"pg", "postgres", "@prisma/adapter-pg"}, mysql |-> {"mysql2", "mysql", "mariadb"},
   mssql |-> {"tedious", "mssql"}, sqlite |-> {"better-sqlite3", "libsql", "sqlite3"},
   mongodb |-> {"mongodb", "mongoose"}, prisma |-> {"@prisma/client"}, redis |-> {"ioredis", "redis"}]

\* A directory, or one above it up to the top, that holds dependencies.
DependenciesFrom(above) == \E at \in above : at.nodeModules

\* The script a command runs drops what check put in NODE_OPTIONS, or the command itself does.
DroppedNodeOptions(command) ==
  \E text \in {command.text, command.script} : text.sets /\ ~text.keeps

\* No process wrote, or none that was asked anything.
NoProfile(command, processes) ==
  [processes |-> processes > 0,
   advice |-> CASE DroppedNodeOptions(command) -> "keep NODE_OPTIONS"
                [] ~DroppedNodeOptions(command) /\ processes = 0 -> "nothing wrote"
                [] OTHER -> "no request reached"]

\* The base has no dependencies because prepare was given, and link was not.
AdviceForUnlinkedBase(options, inWorkingTree, inBase) ==
  options.prepare /\ options.link = "unsaid" /\ ~inBase /\ inWorkingTree

\* The first of the files the output says are missing that is in the base's place, that the
\* base lacks, and that the working tree has.
LackedByBase(missing) ==
  {file \in missing : file.insideBase /\ ~file.inBase /\ file.inWorkingTree}

\* The project's build script, by the manager its package.json or its lockfile names.
BuildCommandIn(package) ==
  IF package.parses /\ package.build
  THEN IF package.manager # "none" THEN package.manager
       ELSE IF package.lockfile # "none" THEN package.lockfile ELSE "npm"
  ELSE "none"

AdviceForUnbuiltBase(options, package) ==
  IF options.prepare THEN "prepare has to build it"
  ELSE IF BuildCommandIn(package) = "none" THEN "prepare with what builds it" ELSE "prepare with the build"

\* Observers that saw nothing though the project has one of their packages, or could not.
UnseenObservers(observers, dependencies) ==
  IF DOMAIN observers = {} THEN {}
  ELSE {o \in DOMAIN ObserverPackages :
          LET said == o \in DOMAIN observers
              unavailable == said /\ observers[o] = "unavailable"
          IN (unavailable \/ ~said) /\ (unavailable \/ ObserverPackages[o] \cap dependencies # {})}

\* Calls no profile covers, lines that could not be read, observers that saw nothing.
TallyNotes(tally, dependencies) ==
  (IF tally.unprofiled > 0 THEN {"unprofiled"} ELSE {})
  \cup (IF tally.malformed > 0 THEN {"malformed"} ELSE {})
  \cup UnseenObservers(tally.observers, dependencies)

NotesOf(base, change, routes, dependencies) ==
  ({"base"} \X TallyNotes(base, dependencies)) \cup ({"change"} \X TallyNotes(change, dependencies))
  \cup (IF \E r \in routes : r.reason = "no-profile" THEN {<<"routes", "no-profile">>} ELSE {})

\* Nothing evaluated is a failure, and no comparison.
Judge(base, change, routes, dependencies) ==
  IF \E r \in routes : r.verdict \in {"worse", "unchanged"}
  THEN [failure |-> "none", notes |-> NotesOf(base, change, routes, dependencies)]
  ELSE [failure |-> "nothing-evaluated", notes |-> {}]
=============================================================================
