------------------------------ MODULE MCCommands ------------------------------
(***************************************************************************)
(* The commands, the MCP server and the start of a process for TLC: what   *)
(* each is given, and one of them at a time.  They share no state, so      *)
(* their behaviours are checked side by side and never multiplied.         *)
(***************************************************************************)
EXTENDS Session, Login, InitCommand, CheckRun, RunCompare, Activation

CONSTANTS Workloads
VARIABLE workload

ToolsUsed == <<"close_finding", "read_report">>

\* Command lines of login: one that goes on, one to another cloud, one that asks for help
\* after a word that is not understood.
CommandLines ==
  LET shop == [flag |-> "--project", value |-> "shop"]
  IN { <<shop, [flag |-> "--rotate-token", value |-> "none"]>>,
       <<shop, [flag |-> "--url", value |-> "http"]>>,
       <<[flag |-> "--projects", value |-> "none"], [flag |-> "--help", value |-> "none"]>> }

\* Projects init is run in: one with an entry, and those that differ from it.
ProjectsTried ==
  LET plain == [agent |-> "production", esm |-> FALSE, nest |-> FALSE, named |-> "js", tsconfig |-> FALSE,
                entryThere |-> TRUE, next |-> FALSE, standalone |-> FALSE, resolution |-> "bundler",
                framework |-> TRUE, repository |-> TRUE, test |-> TRUE, start |-> "node", twin |-> FALSE]
      next == [plain EXCEPT !.next = TRUE, !.standalone = TRUE, !.tsconfig = TRUE]
  IN { plain,
       [plain EXCEPT !.agent = "dev", !.framework = FALSE],
       [plain EXCEPT !.tsconfig = TRUE, !.repository = FALSE],
       [plain EXCEPT !.nest = TRUE, !.tsconfig = TRUE, !.test = FALSE],
       [plain EXCEPT !.esm = TRUE],
       [plain EXCEPT !.esm = TRUE, !.twin = TRUE],
       [plain EXCEPT !.esm = TRUE, !.start = "other"],
       next, [next EXCEPT !.agent = "none"], [next EXCEPT !.resolution = "old"] }

vars == <<workload, sessionVars, loginVars, initVars, checkVars, readVars, activationVars>>

\* What check is asked: with a prepare command or not, with links or not.
OptionsTried ==
  LET plain == [base |-> "commit", tmpInside |-> FALSE, baseHasProject |-> TRUE, prepare |-> FALSE, link |-> "unsaid",
                workingDeps |-> TRUE, baseDeps |-> FALSE]
  IN { plain, [plain EXCEPT !.base = "dash"], [plain EXCEPT !.tmpInside = TRUE], [plain EXCEPT !.baseHasProject = FALSE],
       [plain EXCEPT !.prepare = TRUE], [plain EXCEPT !.prepare = TRUE, !.link = "on"] }

Places ==
  LET place == [depth |-> 0, nodeModules |-> TRUE, inBase |-> TRUE, present |-> "no"]
  IN { place, [place EXCEPT !.nodeModules = FALSE], [place EXCEPT !.depth = 3, !.inBase = FALSE], [place EXCEPT !.depth = 4] }

\* Lines of two processes: a window and the interval it covers, the interval again beside the
\* next window, another process at the same instants, what no window covers, and what is no batch.
LinesTried ==
  LET query(n) == [ok |-> TRUE, kind |-> "query", hash |-> "q", local |-> FALSE, count |-> n]
      call(port) == [ok |-> TRUE, kind |-> "call", hash |-> port, local |-> TRUE, count |-> 1]
      ran(route, operations) == <<[ok |-> TRUE, route |-> route, operations |-> operations]>>
      asked(start, route, n, databases) ==
        [ok |-> TRUE, start |-> start, end |-> start + 10,
         endpoints |-> <<[ok |-> TRUE, route |-> route, count |-> n, calls |-> databases # <<>>, databases |-> databases]>>]
      one == [ok |-> TRUE, buckets |-> <<1, 0>>]
      window(start, endpoints) == [there |-> TRUE, ok |-> TRUE, start |-> start, end |-> start + 10, endpoints |-> endpoints]
      batch(process, w, intervals) ==
        [is |-> "batch", process |-> process, observers |-> {"pg"}, window |-> w, intervals |-> intervals]
      first == asked(0, "GET /a", 1, <<one>>)
  IN { batch("p", window(0, ran("GET /a", <<query(1)>>)), <<first>>),
       batch("p", window(10, ran("GET /a", <<query(3), call("1")>>)), <<first, asked(10, "GET /a", 2, <<one, one>>)>>),
       batch("q", window(0, ran("GET /a", <<call("1"), call("2")>>)), <<first>>),
       batch("q", NoWindow, <<asked(30, "GET /b", 1, <<>>), asked(40, "GET /a", 1, <<one>>), [ok |-> FALSE]>>),
       [is |-> "not JSON"], [is |-> "another protocol"] }

\* Sources of settings: texts of URLs with what they are made of, an environment and what
\* differs in another, what code gives to init, what a file of the application's sets.
UrlsParsed ==
  LET url == [http |-> TRUE, user |-> "", password |-> FALSE, query |-> FALSE, origin |-> "https://cloud"]
      dsn == [url EXCEPT !.user = "token"]
  IN [text \in {"https://cloud", "https://other"} |-> [url EXCEPT !.origin = text]]
       @@ ("dsn" :> dsn) @@ ("dsn with a password" :> [dsn EXCEPT !.password = TRUE])
       @@ ("dsn with a query" :> [dsn EXCEPT !.query = TRUE]) @@ ("ftp" :> [dsn EXCEPT !.http = FALSE])

EnvironmentsTried ==
  LET plain == [settings |-> Nothing, versions |-> <<"HEAD", "a commit">>, nodeEnv |-> "unset", args |-> <<>>,
                main |-> [given |-> "link", real |-> "entry", readable |-> TRUE], checkProject |-> "unset"]
      with(s, text) == [plain EXCEPT !.settings[s] = text]
  IN { plain, with("token", "token"), [with("token", "token") EXCEPT !.settings["url"] = "dsn"],
       with("dsn", "ftp"), [with("dsn", "dsn") EXCEPT !.settings["profileMs"] = 500],
       [with("inspect", "file") EXCEPT !.args = <<"--preserve-symlinks-main">>, !.settings["intervalMs"] = 100] }

CodeTried ==
  LET plain == [object |-> TRUE, wrong |-> {}, texts |-> Nothing]
      with(s, text) == [plain EXCEPT !.texts[s] = text]
  IN { plain, with("dsn", "dsn"), with("dsn", "dsn with a password"), with("url", "https://other"),
       [plain EXCEPT !.wrong = {"dsn"}], [with("dsn", "dsn") EXCEPT !.texts["profileMs"] = 140, !.texts["intervalMs"] = 20] }

PreloadsTried ==
  LET own(what) == Load(what, "application's")
  IN {<<>>, <<own("register")>>, <<own("instrument")>>}

FileTried == [Nothing EXCEPT !["dsn"] = "dsn"]

NodesTried == {<<18, 18, 2>>, <<18, 19, 0>>, <<19, 9, 0>>, <<22, 1, 0>>}

\* Bound: how much of each file is read.
MaxLines == [base |-> 3, change |-> 2]

Runs(w) == workload \in w /\ UNCHANGED workload

\* The components that do not run start where one of their behaviours does.
Init ==
  /\ workload \in Workloads
  /\ SessionInit /\ LoginInit /\ InitInit
  /\ workload # "login" => login.line = CHOOSE line \in CommandLine : TRUE
  /\ CheckInit /\ ReadInit /\ ActivationInit
  /\ workload # "start" => node = <<18, 18, 2>> /\ ~checked /\ preload = <<>> /\ env = CHOOSE e \in Environments : TRUE
  /\ workload # "check" => options = CHOOSE o \in Options : o.base = "dash"
  /\ workload # "init" => project = CHOOSE p \in Projects : p.esm
  /\ workload # "init" => disk = [f \in File |-> IF f \in Edited THEN Text(1, FALSE) ELSE Absent]

Next ==
  \/ Runs({"ids", "retries"}) /\ SessionNext /\ UNCHANGED <<loginVars, initVars, checkVars, readVars, activationVars>>
  \/ Runs({"login"}) /\ LoginNext /\ UNCHANGED <<sessionVars, initVars, checkVars, readVars, activationVars>>
  \/ Runs({"init"}) /\ InitNext /\ UNCHANGED <<sessionVars, loginVars, checkVars, readVars, activationVars>>
  \/ Runs({"check"}) /\ CheckNext /\ UNCHANGED <<sessionVars, loginVars, initVars, readVars, activationVars>>
  \/ /\ Runs({"read"}) /\ UNCHANGED <<sessionVars, loginVars, initVars, checkVars, activationVars>>
     /\ \E side \in Side, line \in Line : Len(lines[side]) < MaxLines[side] /\ ReadLine(side, line)
  \/ Runs({"start"}) /\ ActivationNext /\ UNCHANGED <<sessionVars, loginVars, initVars, checkVars, readVars>>

Spec == Init /\ [][Next]_vars

\* "ids": calls of a tool that reads, beside anything else.  "retries": calls of one that
\* operates, under one id, and what cancels them.
Within ==
  LET calls == {m \in Messages : messages[m].what = "call"}
  IN /\ \A m \in Messages : messages[m].what \in {"initialize", "junk"} => m = 1
     /\ workload = "ids" => version = 1 /\ \A m \in calls : messages[m].operation = 2
     /\ workload = "retries" =>
          /\ \A m \in calls : messages[m].operation = 1 /\ messages[m].outcome # "refused" /\ messages[m].id = 1
          /\ Messages = calls \cup {m \in Messages : messages[m].what = "cancelled"}
=============================================================================
