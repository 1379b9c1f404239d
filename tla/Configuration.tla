---------------------------- MODULE Configuration ----------------------------
(***************************************************************************)
(* The settings an instrumentation starts with (packages/agent/src/        *)
(* config.ts): from the options the code gives, and from the environment   *)
(* for what they leave out.                                                *)
(*                                                                         *)
(* A source of settings has texts and numbers.  A number that is not one,  *)
(* or no number of milliseconds, is 0.                                     *)
(***************************************************************************)
EXTENDS Integers, Sequences, FiniteSets, TLC

CONSTANTS
  Parsed,  \* texts that are URLs, with the parts a URL has; the others do not parse
  DefaultIntervalMs, MinIntervalMs, ProfileWindowMs,
  RecentMs \* what the report reads as recent

\* A minute and five minutes: two windows of a profile, with their intervals, fit in what is recent.
ASSUME ConfigurationAssumption ==
  /\ {DefaultIntervalMs, MinIntervalMs, ProfileWindowMs, RecentMs} \subseteq Nat \ {0}
  /\ 4 * ProfileWindowMs <= RecentMs

Unset == "unset"
Blank == ""
NoNumber == -1

Connecting == {"dsn", "token", "url"}
Texts   == Connecting \cup {"env", "version", "debug", "instrument", "minimal", "queryText", "inspect", "shed", "pgDepth"}
Numbers == {"intervalMs", "profileMs"}

Nothing == [s \in Texts \cup Numbers |-> IF s \in Texts THEN Unset ELSE NoNumber]

Instruments == {"pg", "mysql", "sqlite", "mssql", "mongodb", "prisma", "http", "redis", "runtime"}

\* What is said is what is neither left out nor blank.
Says(text) == text \notin {Unset, Blank}
First(a, b) == IF a # Unset THEN a ELSE b

-----------------------------------------------------------------------------
\* The connection

NotConnected(reason) == [ok |-> FALSE, token |-> Unset, url |-> Unset, reason |-> reason]
Half(token, url) == [ok |-> TRUE, token |-> token, url |-> url, reason |-> "none"]

\* A URL with the token as its user, and nothing else a DSN does not carry.
SplitDsn(dsn) ==
  IF dsn \notin DOMAIN Parsed THEN NotConnected("not a URL")
  ELSE LET u == Parsed[dsn]
       IN CASE ~u.http     -> NotConnected("no http")
            [] u.http /\ u.user = Blank -> NotConnected("no token")
            [] u.http /\ u.user # Blank /\ u.password -> NotConnected("password")
            [] u.http /\ u.user # Blank /\ ~u.password /\ u.query -> NotConnected("query")
            [] OTHER -> Half(u.user, u.origin)

HalfOf(side) ==
  LET said(text) == IF Says(text) THEN text ELSE Unset
  IN IF Says(side["dsn"]) THEN SplitDsn(side["dsn"]) ELSE Half(said(side["token"]), said(side["url"]))

CarriesCredentials(url) == url \in DOMAIN Parsed /\ (Parsed[url].user # Blank \/ Parsed[url].password)

\* The code's half wins, and the environment fills what it left out; its own is not read when
\* the code left nothing out.
ConnectionOf(given, env) ==
  LET code == HalfOf(given)
      read == IF code.token = Unset \/ code.url = Unset THEN HalfOf(env) ELSE Half(Unset, Unset)
      token == First(code.token, read.token)
      url   == First(code.url, read.url)
  IN CASE ~code.ok -> code
       [] code.ok /\ ~read.ok -> read
       [] code.ok /\ read.ok /\ (token = Unset \/ url = Unset) -> NotConnected("not set")
       [] code.ok /\ read.ok /\ token # Unset /\ url # Unset ->
            IF url \notin DOMAIN Parsed \/ ~Parsed[url].http THEN NotConnected("no http")
            ELSE IF CarriesCredentials(url) THEN NotConnected("credentials") ELSE Half(token, url)

NothingToConnect(given, env) == \A s \in Connecting : given[s] = Unset /\ ~Says(env[s])

-----------------------------------------------------------------------------
\* The windows

ProfileCeilingMs(intervalMs) ==
  LET half == RecentMs \div 2 - intervalMs IN IF intervalMs > half THEN intervalMs ELSE half

IntervalMs(asked) == IF asked >= MinIntervalMs THEN asked ELSE DefaultIntervalMs

\* What is asked for, no shorter than the interval and no longer than the ceiling.
ProfileMs(asked, intervalMs) ==
  LET ceiling == ProfileCeilingMs(intervalMs)
      floored == IF asked > intervalMs THEN asked ELSE intervalMs
  IN IF asked <= 0 THEN ProfileWindowMs ELSE IF floored > ceiling THEN ceiling ELSE floored

-----------------------------------------------------------------------------
\* The other settings

\* The first variable of the chain that names a version; a commit that is not resolved is none.
VersionFromEnv(chain) ==
  LET named == {i \in DOMAIN chain : Says(chain[i]) /\ chain[i] # "HEAD"}
  IN IF named = {} THEN Unset ELSE chain[CHOOSE i \in named : \A j \in named : i <= j]

Clamp(text) == IF Says(text) THEN text ELSE "unknown"

ParseShed(text)    == IF text \in {"fine", "profile"} THEN text ELSE "nothing"
ParsePgDepth(text) == IF text \in {"wrapper", "context"} THEN text ELSE "full"

\* A name that is not an observer's is passed over.
ParseInstruments(text) ==
  CASE text \in {Unset, Blank, "all", "auto"} -> Instruments
    [] text = "none" -> {}
    [] OTHER -> {text} \cap Instruments

\* The last of the flags that say it, those of NODE_OPTIONS before those of the command line.
PreservesSymlinksMain(args) ==
  LET saying == {i \in DOMAIN args : args[i] \in {"--preserve-symlinks-main", "--no-preserve-symlinks-main"}}
  IN saying # {} /\ args[CHOOSE i \in saying : \A j \in saying : j <= i] = "--preserve-symlinks-main"

\* The file the process runs, through its links or not; a directory is looked into.
ApplicationEntry(main, preserves) ==
  CASE main.given = "nothing" -> "the working directory"
    [] main.given # "nothing" /\ (preserves \/ ~main.readable) -> main.given
    [] OTHER -> main.real

ResolutionBases(entry, project) == IF project \in {Unset, entry} THEN {entry} ELSE {entry, project}

-----------------------------------------------------------------------------
\* configFrom.  The environment has settings, and what is no setting: the versions of a chain,
\* what check sets, the file that is run and how.
ConfigFrom(given, env) ==
  LET read(s) == IF s \in Numbers THEN IF given[s] # NoNumber THEN given[s] ELSE env.settings[s]
                 ELSE First(given[s], env.settings[s])
      connection  == ConnectionOf(given, env.settings)
      inspectOnly == Says(read("inspect")) /\ NothingToConnect(given, env.settings)
      interval    == IntervalMs(read("intervalMs"))
      preserves   == PreservesSymlinksMain(env.args)
  IN IF ~connection.ok /\ ~inspectOnly THEN connection
     ELSE [ok |-> TRUE, token |-> connection.token, url |-> connection.url, reason |-> "none",
           environment |-> Clamp(First(read("env"), First(env.nodeEnv, "production"))),
           version     |-> Clamp(First(given["version"], VersionFromEnv(<<env.settings["version"]>> \o env.versions))),
           intervalMs  |-> interval, profileMs |-> ProfileMs(read("profileMs"), interval),
           instrument  |-> ParseInstruments(read("instrument")),
           shed |-> ParseShed(read("shed")), pgDepth |-> ParsePgDepth(read("pgDepth")),
           queryText |-> read("queryText") # "off", minimal |-> read("minimal") = "1", debug |-> read("debug") = "1",
           inspect |-> IF Says(read("inspect")) THEN read("inspect") ELSE Unset,
           bases |-> ResolutionBases(ApplicationEntry(env.main, preserves), env.checkProject)]

ConfigFromEnv(env) == ConfigFrom(Nothing, env)

\* What init() is given is the application's, unchecked: what is of another kind is said and left to
\* the environment, unless it is what connects.  A blank text is left out.
ConfigFromCode(options, env) ==
  LET wrong(s) == s \in options.wrong \/ (s \in Texts /\ options.texts[s] = Blank)
      given == [s \in Texts \cup Numbers |-> IF wrong(s) THEN Nothing[s] ELSE options.texts[s]]
  IN IF ~options.object \/ options.wrong \cap Connecting # {} THEN NotConnected("not of its kind")
     ELSE ConfigFrom(given, env)

\* Nothing can be sent anywhere without both.
LocalConfig(config) == config.token = Unset \/ config.url = Unset
=============================================================================
