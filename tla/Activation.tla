------------------------------ MODULE Activation ------------------------------
(***************************************************************************)
(* Which instrumentations a process starts, and which of them are left     *)
(* (packages/agent/src/register.ts, start.ts, activate.ts, registered.ts): *)
(* from what Node imports before the application, and from the             *)
(* application's own code, in copies of the package that share one slot of *)
(* the process.  A process that downtrace check runs has the environment   *)
(* of run.ts.                                                              *)
(***************************************************************************)
EXTENDS Configuration

CONSTANTS
  Environments,  \* of the person who starts the process, or the check
  InitOptions,   \* what the code calls init with
  Preloads,      \* what NODE_OPTIONS imports already
  Node,          \* versions of Node
  EnvFile,       \* what the application reads from a file into its environment
  \* Bounds of the model:
  MaxStarts, MaxShutdowns

\* An environment has settings, of which the numbers are numbers, and what is no setting.
IsEnvironment(e) ==
  /\ e \in [settings : {e.settings}, versions : {e.versions}, nodeEnv : {e.nodeEnv}, args : {e.args},
            main : {e.main}, checkProject : {e.checkProject}]
  /\ Numbers \subseteq DOMAIN e.settings /\ \A s \in Numbers : e.settings[s] \in Int

ASSUME ActivationAssumption ==
  /\ {MaxStarts, MaxShutdowns} \subseteq Nat
  /\ \A e \in Environments : IsEnvironment(e)
  /\ \A o \in InitOptions : \A s \in Numbers : o.texts[s] \in Int

VARIABLES
  node,      \* the version this process runs on
  checked,   \* check runs it
  env,       \* its environment
  preload,   \* what is still to be imported, in order
  evaluated, \* what was imported already: a module runs once
  agents,    \* those created: their configuration, who by, what became of them
  slot,      \* the one the process remembers, or 0
  draining,  \* the one a shutdown is waiting for, or 0
  shutdowns  \* history: of each call, what it found remembered and whose drain under way, what it
             \* waits for, whether it settled

activationVars == <<node, checked, env, preload, evaluated, agents, slot, draining, shutdowns>>

Load(what, copy) == [what |-> what, copy |-> copy]

\* runEnv: no setting of the caller's is left, and what NODE_OPTIONS imported is imported first.
RunEnv(parent) ==
  [parent EXCEPT !.checkProject = "the project",
     !.settings = [Nothing EXCEPT !["inspect"] = "the run's file", !["env"] = "check", !["version"] = "base",
                                  !["intervalMs"] = MinIntervalMs, !["profileMs"] = MinIntervalMs]]

ActivationInit ==
  /\ node \in Node /\ checked \in BOOLEAN
  /\ \E parent \in Environments : env = IF checked THEN RunEnv(parent) ELSE parent
  /\ \E first \in Preloads : \E copy \in {"application's", "check's"} :
       preload = IF checked THEN Append(first, Load("register", copy)) ELSE first
  /\ evaluated = {} /\ agents = <<>> /\ slot = 0 /\ draining = 0 /\ shutdowns = <<>>

-----------------------------------------------------------------------------
\* The Nodes there is no instrumentation on: those before the first, and 19.
Before(a, b) == \E i \in 1 .. 3 : a[i] < b[i] /\ \A j \in 1 .. i - 1 : a[j] = b[j]
Unsupported(version) == Before(version, <<18, 19, 0>>) \/ version[1] = 19

\* A start that fails leaves nothing, and is not remembered.
Activate(config, by, copy) ==
  /\ Len(agents) < MaxStarts
  /\ IF ~config.ok THEN UNCHANGED <<agents, slot>>
     ELSE \E state \in {"running", "failed"} :
            /\ agents' = Append(agents, [config |-> config, by |-> by, copy |-> copy, state |-> state])
            /\ slot' = IF state = "running" THEN Len(agents) + 1 ELSE slot

RegisteredInCopy(copy) == slot # 0 /\ agents[slot].copy = copy

\* One slot for the process, however many copies of the package it holds.
Registered(copy) == slot # 0

InitCalled(options, copy) ==
  IF Unsupported(node) \/ Registered(copy) THEN UNCHANGED <<agents, slot>>
  ELSE Activate(ConfigFromCode(options, env), "init", copy)

Imports ==
  /\ preload # <<>> /\ preload' = Tail(preload)
  /\ evaluated' = evaluated \cup {Head(preload)}
  /\ LET first == Head(preload)
     IN CASE first \in evaluated -> UNCHANGED <<agents, slot>>
          [] first \notin evaluated /\ first.what = "register" /\ Unsupported(node) -> UNCHANGED <<agents, slot>>
          [] first \notin evaluated /\ first.what = "register" /\ ~Unsupported(node) -> Activate(ConfigFromEnv(env), "register", first.copy)
          [] OTHER -> \E options \in InitOptions : InitCalled(options, first.copy)
  /\ UNCHANGED <<node, checked, env, draining, shutdowns>>

AppInits ==
  /\ preload = <<>> /\ \E options \in InitOptions : InitCalled(options, "application's")
  /\ UNCHANGED <<node, checked, env, preload, evaluated, draining, shutdowns>>

\* An environment file fills what is not set.
AppReadsEnvFile ==
  /\ preload = <<>>
  /\ env' = [env EXCEPT !.settings = [s \in DOMAIN @ |-> IF s \in Texts /\ @[s] = Unset THEN EnvFile[s] ELSE @[s]]]
  /\ UNCHANGED <<node, checked, preload, evaluated, agents, slot, draining, shutdowns>>

\* shutdown without a look at the drain under way, which settles at once: mutant.
AppShutsDownAtOnce ==
  /\ preload = <<>> /\ Len(shutdowns) < MaxShutdowns
  /\ LET drains == slot # 0 /\ agents[slot].state \in {"running", "draining"}
         of     == IF drains THEN slot ELSE 0
     IN /\ shutdowns' = Append(shutdowns, [found |-> slot, under |-> draining, of |-> of, settled |-> of = 0])
        /\ slot' = 0 /\ draining' = IF drains THEN slot ELSE draining
        /\ agents' = IF drains THEN [agents EXCEPT ![slot].state = "draining"] ELSE agents
  /\ UNCHANGED <<node, checked, env, preload, evaluated>>

\* shutdown: whoever finds a drain under way waits for it; else the slot is emptied at once, and
\* what was in it is stopped.
AppShutsDown ==
  /\ preload = <<>> /\ Len(shutdowns) < MaxShutdowns
  /\ LET found(of) == Append(shutdowns, [found |-> slot, under |-> draining, of |-> of, settled |-> of = 0])
     IN IF draining # 0
        THEN shutdowns' = found(draining) /\ UNCHANGED <<agents, slot, draining>>
        ELSE LET drains == slot # 0 /\ agents[slot].state \in {"running", "draining"}
                 of     == IF drains THEN slot ELSE 0
             IN /\ shutdowns' = found(of) /\ slot' = 0 /\ draining' = of
                /\ agents' = IF drains THEN [agents EXCEPT ![slot].state = "draining"] ELSE agents
  /\ UNCHANGED <<node, checked, env, preload, evaluated>>

\* An agent that stops itself stays where it is remembered.
SelfDisables ==
  /\ \E i \in DOMAIN agents : agents[i].state = "running" /\ agents' = [agents EXCEPT ![i].state = "draining"]
  /\ UNCHANGED <<node, checked, env, preload, evaluated, slot, draining, shutdowns>>

DrainEnds ==
  /\ \E i \in DOMAIN agents :
       /\ agents[i].state = "draining" /\ agents' = [agents EXCEPT ![i].state = "stopped"]
       /\ draining' = IF draining = i THEN 0 ELSE draining
       /\ shutdowns' = [w \in DOMAIN shutdowns |-> IF shutdowns[w].of = i THEN [shutdowns[w] EXCEPT !.settled = TRUE]
                                                   ELSE shutdowns[w]]
  /\ UNCHANGED <<node, checked, env, preload, evaluated, slot>>

ActivationNext ==
  Imports \/ AppInits \/ AppReadsEnvFile \/ AppShutsDown \/ SelfDisables \/ DrainEnds

ActivationSpec == ActivationInit /\ [][ActivationNext]_activationVars

-----------------------------------------------------------------------------
\* What runs is what the process remembers, in whatever order and copies it is started, shut down
\* and started again; the only other is what a register that started later made it forget.  In a
\* process of check whose first start is check's own and that shut nothing down yet, no start
\* reaches a cloud, whatever its code and its files say.  A start that reaches one sends to a URL
\* without credentials, and one that reaches none inspects.  While two windows of a profile and
\* their two flushes fit in what the report reads as recent, they do with the profile it was given,
\* so the report holds one at every phase; with a longer interval, a profile is no longer than it.
\* A shutdown that settled saw the end of the drain under way when it was called, or, with none
\* under way, of what the process remembered (activate.ts 51-74, start.ts 12, registered.ts 76-94,
\* config.ts 120-147, run.ts 258-298).
FirstStartRules ==
  LET running == {i \in DOMAIN agents : agents[i].state = "running"}
  IN /\ \A i \in running :
          \/ i = slot
          \/ \E j \in DOMAIN agents : j > i /\ agents[j].by = "register" /\ agents[j].state # "failed"
     /\ checked /\ agents # <<>> /\ agents[1].by = "register" /\ agents[1].state # "failed" /\ shutdowns = <<>> =>
          \A i \in DOMAIN agents : LocalConfig(agents[i].config)
     /\ \A i \in DOMAIN agents :
          LET c == agents[i].config
          IN /\ LocalConfig(c) => c.inspect # Unset
             /\ ~LocalConfig(c) => ~CarriesCredentials(c.url)
             /\ IF 4 * c.intervalMs <= RecentMs THEN 2 * (c.profileMs + c.intervalMs) <= RecentMs
                ELSE c.profileMs <= c.intervalMs
     /\ \A w \in DOMAIN shutdowns :
          LET awaited == IF shutdowns[w].under # 0 THEN shutdowns[w].under ELSE shutdowns[w].found
          IN shutdowns[w].settled /\ awaited # 0 => agents[awaited].state = "stopped"

\* One instrumentation runs at a time: "A process has one instrumentation: a second call, or one
\* after `--import @downtrace/agent/register` started it, changes nothing" (activate.ts 47-49).  A
\* register does not look whether one runs, so it does not hold.
OneInstrumentation == Cardinality({i \in DOMAIN agents : agents[i].state = "running"}) <= 1

\* What a shutdown found running is not running once it settled: it "hands over everything the
\* instrumentation is holding, for an application that is about to exit" (registered.ts 59).  One
\* that finds a drain under way waits for it alone, and not for what was started since, so it does not hold.
ShutdownStopsWhatRuns ==
  \A w \in DOMAIN shutdowns :
    shutdowns[w].settled /\ shutdowns[w].found # 0 => agents[shutdowns[w].found].state # "running"

\* Nothing that runs in a process of check reaches a cloud: "sends nothing anywhere: the runs are
\* given no token and no URL" (guide/check.md 15).
NothingIsSent == checked => \A i \in DOMAIN agents : LocalConfig(agents[i].config)
=============================================================================
