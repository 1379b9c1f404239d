-------------------------------- MODULE Login --------------------------------
(***************************************************************************)
(* downtrace login (packages/agent/src/login/command.ts): it asks the      *)
(* cloud for a code, says it to the person, and polls until the code is    *)
(* approved, refused or too old.  The cloud (external) hands the           *)
(* credentials over once; requests and answers may be late or lost, and    *)
(* the person may interrupt at any time.                                   *)
(***************************************************************************)
EXTENDS Integers, Sequences

CONSTANTS
  CommandLine,     \* what may be written after "downtrace login": sequences of words
  RequestTimeout,  \* what a request is waited for
  SlowDown,        \* what "slow_down" adds to the interval
  \* Bounds of the model:
  MaxInterval, MaxExpires, MaxTime

ASSUME LoginAssumption ==
  {RequestTimeout, SlowDown, MaxInterval, MaxExpires, MaxTime} \subseteq Nat \ {0}

VARIABLES
  login,     \* the command: phase, args, interval, deadline, wakeAt, askedAt, outcome
  clock,
  signalled, \* the person interrupted
  wire,      \* the answer on its way, NoAnswer, or that a request is
  grant,     \* the cloud: "none", "pending", "approved", "denied", "collected"
  heard      \* history: when it last polled, what it was told to leave between two polls, lost
             \* credentials, the polls made too soon or beyond the deadline

loginVars == <<login, clock, signalled, wire, grant, heard>>

NoAnswer == [status |-> 0, body |-> "none", interval |-> 0]
Request  == [status |-> 1, body |-> "request", interval |-> 0]

LoginInit ==
  /\ \E line \in CommandLine :
       login = [phase |-> "starting", line |-> line, rotate |-> FALSE, interval |-> 0, deadline |-> 0,
                wakeAt |-> 0, askedAt |-> 0, outcome |-> "none"]
  /\ clock = 0 /\ signalled = FALSE /\ wire = NoAnswer /\ grant = "none"
  /\ heard = [last |-> -1, told |-> 0, lost |-> FALSE, wrong |-> FALSE]

-----------------------------------------------------------------------------
\* The command line

\* A word is an option with its value ("none" when it has none), or a flag.
LoginFlags == {"--project", "--env", "--level", "--name", "--url"}

\* The cloud is reached over https, or over http on this machine.
UnusableUrl(url) == url \notin {"https", "http localhost"}

\* The first word that asks for help or is not understood decides; then what is missing.
ParseLoginArgs(line) ==
  LET bad(w)   == \/ w.flag \notin LoginFlags \cup {"--json", "--rotate-token"}
                  \/ w.flag \in LoginFlags /\ w.value = "none"
      stops    == {i \in DOMAIN line : line[i].flag = "--help" \/ bad(line[i])}
      last(f, default) ==
        LET at == {i \in DOMAIN line : line[i].flag = f}
        IN IF at = {} THEN default ELSE line[CHOOSE i \in at : \A j \in at : j <= i].value
  IN IF stops # {}
     THEN IF line[CHOOSE i \in stops : \A j \in stops : i <= j].flag = "--help" THEN "help" ELSE "error"
     ELSE IF \/ last("--project", "none") = "none"
             \/ UnusableUrl(last("--url", "https"))
             \/ last("--level", "read") \notin {"read", "operate"}
          THEN "error"
          ELSE "login"

Ends(outcome) == login' = [login EXCEPT !.phase = "ended", !.outcome = outcome]

\* runLogin: what it prints, by the code it exits with.
RunLogin(outcome) == CASE outcome \in {"approved", "help"} -> 0 [] outcome = "error" -> 2 [] OTHER -> 1

LoginStarts ==
  /\ login.phase = "starting"
  /\ LET kind == ParseLoginArgs(login.line)
     IN IF kind = "login"
        THEN /\ login' = [login EXCEPT !.phase = "asking", !.askedAt = clock,
                                       !.rotate = \E i \in DOMAIN login.line : login.line[i].flag = "--rotate-token"]
             /\ wire' = Request
        ELSE Ends(kind) /\ UNCHANGED wire
  /\ UNCHANGED <<clock, signalled, grant, heard>>

-----------------------------------------------------------------------------
\* post: an answer, or a failure that is an interruption or an absence.

Answered(phase) == login.phase = phase /\ wire.status > 1

\* The request is given up: nothing came in time, or the connection broke.  What it asked for
\* may be done all the same.
PostFails ==
  /\ login.phase \in {"asking", "polling"}
  /\ grant' \in IF grant = "approved" /\ wire = Request THEN {"approved", "collected"} ELSE {grant}
  /\ heard' = [heard EXCEPT !.lost = @ \/ grant # grant' \/ (login.phase = "polling" /\ wire.status = 200)]
  /\ wire' = NoAnswer
  /\ IF signalled THEN Ends("interrupted")
     ELSE IF login.phase = "asking" THEN Ends("unreachable")
     ELSE login' = [login EXCEPT !.phase = "checking"]
  /\ UNCHANGED <<clock, signalled>>

\* The code is shown to the person, if it is one and sends them to the cloud that was asked.
ReadCode ==
  /\ Answered("asking") /\ wire' = NoAnswer
  /\ IF wire.status # 200 THEN Ends("refused") /\ UNCHANGED heard
     ELSE IF wire.body # "code" THEN Ends("bad-answer") /\ UNCHANGED heard
     ELSE \E expires \in 1 .. MaxExpires :
            /\ login' = [login EXCEPT !.phase = "checking", !.interval = IF wire.interval > 1 THEN wire.interval ELSE 1,
                                      !.deadline = clock + expires]
            /\ heard' = [heard EXCEPT !.told = wire.interval]
  /\ UNCHANGED <<clock, signalled, grant>>

\* The head of the loop, and the sleep before each poll.
Checks ==
  /\ login.phase = "checking"
  /\ IF clock >= login.deadline THEN Ends("expired_token")
     ELSE IF signalled THEN Ends("interrupted")
     ELSE login' = [login EXCEPT !.phase = "sleeping", !.wakeAt = clock + login.interval]
  /\ UNCHANGED <<clock, signalled, wire, grant, heard>>

SleepInterrupted ==
  /\ login.phase = "sleeping" /\ signalled /\ Ends("interrupted")
  /\ UNCHANGED <<clock, signalled, wire, grant, heard>>

Polls ==
  /\ login.phase = "sleeping" /\ clock >= login.wakeAt /\ ~signalled
  /\ login' = [login EXCEPT !.phase = "polling", !.askedAt = clock]
  /\ wire' = Request
  /\ heard' = [heard EXCEPT !.last = clock,
                 !.wrong = \/ @
                           \/ heard.last >= 0 /\ clock < heard.last + heard.told
                           \/ clock >= login.deadline + login.interval]
  /\ UNCHANGED <<clock, signalled, grant>>

RaisedByLimits(answer) ==
  IF answer.status = 429 /\ answer.interval > login.interval THEN answer.interval ELSE login.interval

\* What raises the interval: a limit says how long, "slow_down" adds to what there was.
Raised(answer) ==
  CASE answer.status = 429 /\ answer.interval > login.interval -> answer.interval
    [] answer.body = "slow_down" -> login.interval + SlowDown
    [] OTHER -> login.interval

ReadPoll ==
  /\ Answered("polling") /\ wire' = NoAnswer
  /\ IF wire.status = 200
     THEN Ends(IF wire.body = "credentials" THEN "approved" ELSE "bad-answer")
     ELSE IF wire.status \in {429, 500} \/ wire.body \in {"authorization_pending", "slow_down"}
          THEN login' = [login EXCEPT !.phase = "checking", !.interval = Raised(wire)]
          ELSE Ends("refused")
  /\ heard' = [heard EXCEPT !.told = IF wire.body = "slow_down" THEN @ + SlowDown
                                     ELSE IF wire.status = 429 /\ wire.interval > @ THEN wire.interval ELSE @]
  /\ UNCHANGED <<clock, signalled, grant>>

-----------------------------------------------------------------------------
\* The cloud, the person and the clock

Answer(status, body, interval) == wire' = [status |-> status, body |-> body, interval |-> interval]

CloudGivesCode ==
  /\ login.phase = "asking" /\ wire = Request /\ grant = "none"
  /\ \/ /\ \E interval \in 0 .. MaxInterval : Answer(200, "code", interval)
        /\ grant' = "pending"
     \/ \E body \in {"no code", "another origin"} : Answer(200, body, 0) /\ UNCHANGED grant
     \/ Answer(400, "refused", 0) /\ UNCHANGED grant
  /\ UNCHANGED <<login, clock, signalled, heard>>

\* The credentials are handed over once, and with them the old token stops.
CloudAnswersPoll ==
  /\ login.phase = "polling" /\ wire = Request
  /\ \/ grant = "pending" /\ Answer(400, "authorization_pending", 0) /\ UNCHANGED grant
     \/ grant = "pending" /\ Answer(400, "slow_down", 0) /\ UNCHANGED grant
     \/ \E wait \in 0 .. MaxInterval : Answer(429, "limited", wait) /\ UNCHANGED grant
     \/ Answer(500, "failed", 0) /\ UNCHANGED grant
     \/ grant \in {"denied", "collected"} /\ Answer(400, "refused", 0) /\ UNCHANGED grant
     \/ /\ grant = "approved" /\ grant' = "collected"
        /\ \E body \in {"credentials", "another shape", "another origin"} : Answer(200, body, 0)
  /\ UNCHANGED <<login, clock, signalled, heard>>

PersonDecides ==
  /\ grant = "pending" /\ grant' \in {"approved", "denied"}
  /\ UNCHANGED <<login, clock, signalled, wire, heard>>

PersonInterrupts ==
  /\ login.phase # "ended" /\ ~signalled /\ signalled' = TRUE
  /\ UNCHANGED <<login, clock, wire, grant, heard>>

ClockTicks ==
  /\ clock < MaxTime
  /\ \/ login.phase = "sleeping" /\ clock < login.wakeAt
     \/ login.phase \in {"asking", "polling"} /\ clock < login.askedAt + RequestTimeout
  /\ clock' = clock + 1
  /\ UNCHANGED <<login, signalled, wire, grant, heard>>

LoginNext ==
  \/ LoginStarts \/ PostFails \/ ReadCode \/ Checks \/ SleepInterrupted \/ Polls \/ ReadPoll
  \/ CloudGivesCode \/ CloudAnswersPoll \/ PersonDecides \/ PersonInterrupts \/ ClockTicks

LoginSpec == LoginInit /\ [][LoginNext]_loginVars

-----------------------------------------------------------------------------
\* Polls come as far apart as the cloud's answers asked for, and none beyond an interval after
\* the code's end; the credentials are shown exactly when the command succeeds, and when they were
\* handed over and not shown, either they were lost on the way or the command said that the answer
\* was not good (command.ts 219-290).
CredentialsShownOrLost ==
  /\ ~heard.wrong
  /\ RunLogin(login.outcome) = 0 /\ login.outcome # "help" => grant = "collected"
  /\ login.phase = "ended" /\ grant = "collected" /\ login.outcome # "approved" =>
       heard.lost \/ login.outcome = "bad-answer"
  /\ login.outcome = "expired_token" => clock >= login.deadline
=============================================================================
