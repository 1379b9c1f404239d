--------------------------- MODULE Instrumentation ---------------------------
(***************************************************************************)
(* What the agent sees of the calls its application makes                  *)
(* (packages/agent/src/instrument/*.ts, context.ts), from its start to its *)
(* stop or its self-disable (agent.ts).                                    *)
(*                                                                         *)
(* A request's code runs in an async context: its own, or after a callback *)
(* that the driver calls from its socket, that of whoever opened the       *)
(* connection.  What is written to a context is charged to its request.    *)
(* The drivers differ in how an answer comes back, and that is the form of *)
(* a call:                                                                 *)
(*   promise   a promise settles, in the caller's context (pg, Prisma, its *)
(*             MariaDB adapter, MongoDB)                                   *)
(*   callback  the agent's callback runs the application's in the context  *)
(*             the call was made in (mysql, MariaDB, tedious, pg's pool)   *)
(*   socket    the application's callback runs in the connection's (pg,    *)
(*             sqlite3)                                                    *)
(*   events    nobody is told: counted as it is issued (mysql, MariaDB)    *)
(*   sync      the call returns the answer (better-sqlite3, libsql)        *)
(*   channel   Node announces both ends (redis, node:http, undici)         *)
(*   fetch     undici announces it, unless no connection is had            *)
(***************************************************************************)
EXTENDS Arming, Sequences

CONSTANTS
  Channel,             \* observers that need no driver
  Behaviour,           \* of each part and channel, as Drivers tells it
  Target, Excluded,    \* what calls are made to, and what the operator excluded
  MaxInternalErrors,
  \* Bounds of the model:
  MaxRequests, MaxCalls, MaxStarts

ASSUME InstrumentationAssumption ==
  /\ \A p \in Part \cup Channel :
       /\ Behaviour[p].waits \subseteq {"promise", "callback"} /\ Behaviour[p].nested \in BOOLEAN
       /\ Behaviour[p].forms \subseteq {"promise", "callback", "socket", "events", "sync", "channel", "fetch"}
  /\ Excluded \subseteq Target
  /\ {MaxInternalErrors, MaxRequests, MaxCalls, MaxStarts} \subseteq Nat

VARIABLES
  chosen,          \* the observers the configuration asks for
  started, disabled, starts,
  internalErrors,
  requests,        \* of each request: the contexts its code may run in
  entered,         \* the requests that have a context of their own
  calls,
  work,            \* by context: calls, failures, operations, errors, waits
  everStopped      \* history: the agent was stopped, or stopped itself

vars == <<armingVars, chosen, started, disabled, starts, internalErrors, requests, entered,
          calls, work, everStopped>>

NoContext == 0
NoWork    == [calls |-> 0, failures |-> 0, operations |-> 0, errors |-> 0, waits |-> 0]
Requests  == 1 .. Len(requests)
On        == chosen \cap Driver

Init ==
  /\ ArmingInit
  /\ chosen \in SUBSET (Driver \cup Channel)
  /\ started = FALSE /\ disabled = FALSE /\ starts = 0 /\ internalErrors = 0
  /\ requests = <<>> /\ entered = {} /\ calls = <<>> /\ work = <<>>
  /\ everStopped = FALSE

-----------------------------------------------------------------------------
\* The agent

\* The observers a request context is opened for.
Listed == {"pg", "mysql", "sqlite", "mongodb", "prisma", "http", "redis"}
Instrumented == chosen \cap Listed # {}

Start ==
  /\ ~started /\ ~disabled /\ starts < MaxStarts
  /\ started' = TRUE /\ starts' = starts + 1
  /\ Arm(On)
  /\ UNCHANGED <<chosen, disabled, internalErrors, requests, entered, calls, work, everStopped>>

Stop ==
  /\ started /\ started' = FALSE
  /\ Disarm /\ everStopped' = TRUE
  /\ UNCHANGED <<chosen, disabled, starts, internalErrors, requests, entered, calls, work>>

\* Where the guards end, `n` times in one step: too many, and what start attached is detached.
\* The wrappers on the drivers stay.
Disables(n) == internalErrors + n >= MaxInternalErrors /\ ~disabled

InternalErrors(n) ==
  /\ internalErrors' = internalErrors + n
  /\ disabled' = (disabled \/ Disables(n))
  /\ started' = (started /\ ~Disables(n))
  /\ everStopped' = (everStopped \/ Disables(n))

Detaches == IF started /\ ~started' THEN Disarm ELSE UNCHANGED armingVars

\* requestStarted
RequestStarts(failing) ==
  /\ started /\ Len(requests) < MaxRequests
  /\ AttachAtRequest(On, failing, Disables(Cardinality(failing)))
  /\ InternalErrors(Cardinality(failing))
  /\ LET r == Len(requests) + 1
     IN /\ requests' = Append(requests, {IF Instrumented THEN r ELSE NoContext})
        /\ entered' = IF Instrumented THEN entered \cup {r} ELSE entered
  /\ work' = Append(work, NoWork)
  /\ UNCHANGED <<chosen, starts, calls>>

Environment ==
  /\ \/ \E p \in Part, required \in BOOLEAN : AppLoads(p, required)
     \/ PrismaLoads
  /\ UNCHANGED <<chosen, started, disabled, starts, internalErrors, requests, entered, calls,
                 work, everStopped>>

WatchedLoads ==
  /\ \E p \in Watched, fails \in BOOLEAN :
       /\ AppLoadsWatched(p, IF started THEN On ELSE {}, fails, fails /\ Disables(1))
       /\ InternalErrors(IF fails THEN 1 ELSE 0)
  /\ UNCHANGED <<chosen, starts, requests, entered, calls, work>>

AttachLater ==
  /\ \/ \E failing \in SUBSET Waiting(On) :
          /\ AttachAtLoad(On, failing, Disables(Cardinality(failing)))
          /\ InternalErrors(Cardinality(failing))
     \/ \E p \in Imported, fails \in BOOLEAN :
          /\ ImportSettles(p, fails, fails /\ Disables(1))
          /\ InternalErrors(IF fails THEN 1 ELSE 0)
  /\ UNCHANGED <<chosen, starts, requests, entered, calls, work>>

-----------------------------------------------------------------------------
\* What is written to a context (recordCallIn, recordWaitIn, recordOperationIn, recordErrorIn):
\* an excluded target leaves nothing.

Records(context, target) == context # NoContext /\ target \notin Excluded

RecordIn(context, target, failure, signed, times) ==
  IF ~Records(context, target) THEN work
  ELSE [work EXCEPT ![context] =
          [calls |-> @.calls + times, failures |-> @.failures + IF failure THEN times ELSE 0,
           operations |-> @.operations + times, errors |-> @.errors + IF signed THEN times ELSE 0,
           waits |-> @.waits]]

RecordWaitIn(context, target) ==
  IF ~Records(context, target) THEN work
  ELSE [work EXCEPT ![context].waits = @ + 1]

-----------------------------------------------------------------------------
\* Calls

Unmarked(part, pass) == FALSE

\* What the first pass leaves is seen by a second of the same statement: the depth of a SQLite
\* call inside another, a callback that is already the agent's, a query that was executed.
Marked(part, pass) == pass > 1 /\ Behaviour[part].nested

\* Whoever watches the answer of a call: of its passes through a wrapper, or through the
\* subscription to its channel, those that found no mark.
Watchers(part, passes) == Cardinality({n \in 1 .. passes : ~Marked(part, n)})

Sees(part) == IF part \in Part THEN wraps[part] = 1 ELSE started /\ part \in chosen

\* What a fetch that no wrapper saw was preceded by.
Unwrapped == -1

\* The code of a request asks, in a context it runs in, over a connection that this request or
\* another opened; or a driver asks for itself in that context (`aside`: a handshake, a
\* validation, a pipeline, a client whose driver counts), which is not counted here.  The
\* statement of a driver that is `nested` may pass twice through what the agent wrapped.
Ask(r, part, form, target, opener, wait, aside) ==
  /\ Len(calls) < MaxCalls /\ part \in loaded \cup Channel
  /\ form \in IF wait THEN Behaviour[part].waits ELSE Behaviour[part].forms
  /\ opener \in (IF form = "socket" THEN entered \cup {NoContext} ELSE {NoContext})
  /\ aside => Behaviour[part].aside /\ ~wait /\ form # "fetch"
  /\ \E context \in requests[r], breaks \in BOOLEAN,
        passes \in 1 .. IF Behaviour[part].nested THEN 2 ELSE 1 :
       LET observed == Sees(part) /\ context # NoContext /\ ~aside
           watchers == IF observed /\ ~breaks THEN Watchers(part, passes) ELSE 0
           atOnce   == form = "events" /\ watchers > 0
       IN /\ breaks => observed /\ form # "fetch"
          /\ calls' = Append(calls,
               [by |-> r, part |-> part, form |-> form, target |-> target, context |-> context,
                opener |-> opener, wait |-> wait, aside |-> aside,
                seen |-> Sees(part), watchers |-> watchers, sent |-> FALSE, answer |-> "none",
                since |-> IF form = "channel" /\ watchers > 0 THEN starts ELSE 0,
                before |-> IF watchers > 0 THEN work[context].calls ELSE Unwrapped,
                counted |-> IF atOnce THEN 1 ELSE 0])
          /\ work' = IF atOnce THEN RecordIn(context, target, FALSE, FALSE, watchers) ELSE work
          /\ InternalErrors(IF breaks THEN 1 ELSE 0)
  /\ Detaches
  /\ UNCHANGED <<chosen, starts, requests, entered>>

\* undici announces a request once it has a connection for it, to the subscription of that moment.
Sent(c) ==
  LET call == calls[c]
  IN /\ call.form = "fetch" /\ call.answer = "none" /\ ~call.sent
     /\ \E breaks \in BOOLEAN :
          LET hears == Sees(call.part) /\ call.context # NoContext
              begun == hears /\ ~breaks
          IN /\ breaks => hears
             /\ calls' = [calls EXCEPT ![c] =
                  [call EXCEPT !.sent = TRUE, !.seen = call.seen \/ hears,
                               !.since = IF begun THEN starts ELSE 0,
                               !.watchers = IF begun THEN Watchers(call.part, 1) ELSE call.watchers]]
             /\ InternalErrors(IF breaks THEN 1 ELSE 0)
     /\ Detaches
     /\ UNCHANGED <<chosen, starts, requests, entered, work>>

LandsOutside(call) == call.opener

\* The context in which the application goes on after an answer.
Lands(call) ==
  IF call.form = "socket" THEN call.opener ELSE call.context

\* The second end of a call: an error and then the end of a command, a response and then an
\* error on its socket.
Counted(call) == call.counted > 0

\* The subscription that saw the call begin: what one start knows, the next does not.
Subscribed(call) == started /\ call.since = starts

\* Who is there to write the answer down: of a channel, only the subscription that saw it begin;
\* of a fetch that rejects, the wrapper too, if nothing was counted in its request since.
Heard(call, outcome) ==
  /\ call.watchers > 0
  /\ CASE call.form = "channel" -> Subscribed(call)
       [] call.form = "fetch"   -> \/ Subscribed(call)
                                   \/ outcome = "failed" /\ work[call.context].calls = call.before
       [] OTHER                 -> TRUE

\* How the answer reads: a failure with an error to sign, one that the answer tells (a status
\* of 500, a write that failed inside a reply), or none.
Outcomes(call) ==
  IF call.form = "events" THEN {"ok"}
  ELSE {"ok", "failed"} \cup IF Behaviour[call.part].quiet THEN {"refused"} ELSE {}

Answered(c, outcome) ==
  LET call == calls[c]
      failure == outcome # "ok"
  IN \E breaks \in BOOLEAN :
       LET heard == Heard(call, outcome) /\ ~Counted(call)
           times == IF heard /\ ~breaks THEN call.watchers ELSE 0
       IN /\ breaks => heard
          /\ calls' = [calls EXCEPT ![c] =
               [call EXCEPT !.answer = IF call.answer = "none" THEN outcome ELSE call.answer,
                            !.counted = call.counted + IF heard THEN 1 ELSE 0]]
          /\ work' = IF times = 0 THEN work
                     ELSE IF call.wait THEN RecordWaitIn(call.context, call.target)
                     ELSE RecordIn(call.context, call.target, failure, outcome = "failed", times)
          /\ InternalErrors(IF breaks THEN 1 ELSE 0)

Answer(c, outcome) ==
  LET call == calls[c]
  IN /\ call.answer = "none" /\ outcome \in Outcomes(call)
     /\ call.form = "fetch" /\ ~call.sent => outcome = "failed"
     /\ Answered(c, outcome)
     /\ requests' = [requests EXCEPT ![call.by] = @ \cup {Lands(call)}]
     /\ Detaches
     /\ UNCHANGED <<chosen, starts, entered>>

AnswerAgain(c) ==
  LET call == calls[c]
  IN /\ call.answer # "none" /\ call.form \in {"callback", "channel"}
     /\ Answered(c, "failed")
     /\ Detaches
     /\ UNCHANGED <<chosen, starts, requests, entered>>

Next ==
  \/ Start \/ Stop
  \/ \E failing \in SUBSET Waiting(armed) : RequestStarts(failing)
  \/ Environment
  \/ WatchedLoads
  \/ AttachLater
  \/ \E r \in Requests, part \in loaded \cup Channel :
       \E form \in Behaviour[part].forms \cup Behaviour[part].waits, target \in Target,
          opener \in Requests \cup {NoContext}, wait, aside \in BOOLEAN :
         Ask(r, part, form, target, opener, wait, aside)
  \/ \E c \in DOMAIN calls :
       \/ Sent(c)
       \/ \E outcome \in {"ok", "failed", "refused"} : Answer(c, outcome)
       \/ AnswerAgain(c)

Spec == Init /\ [][Next]_vars

-----------------------------------------------------------------------------
InstrumentationTypeOK ==
  /\ ArmingTypeOK
  /\ {started, disabled} \subseteq BOOLEAN /\ internalErrors \in Nat
  /\ \A r \in Requests : requests[r] \subseteq Requests \cup {NoContext}
  /\ \A c \in DOMAIN calls : calls[c].context \in requests[calls[c].by]

\* From the first request on, what the application has loaded is patched, once the code that
\* loaded it has run to its end or the next request has started; and a Prisma client is found
\* within twice the requests there had been when it was loaded (arm.ts 247-260, prisma.ts
\* 314-321).  MariaDB's callback API is left out: it is not looked for once the rest is there.
LoadedMeansPatched ==
  /\ InstrumentationTypeOK
  /\ started /\ loads # "armed" =>
    /\ \A p \in Required \ Optional :
         /\ DriverOf[p] \in On /\ p \in loaded \ failed
         /\ p \notin unseen
         => wraps[p] = 1
    /\ \A p \in Watched : p \in loaded \ (failed \cup byImport) /\ DriverOf[p] \in On => wraps[p] = 1
    /\ (loads = "listening" /\ announces => \A p \in unseen : done[p] # "waiting" \/ p \in byImport)
    /\ CASE prisma.state = "armed"   -> clientAt = NotLoaded \/ prisma.requests < 2 * Max({clientAt, 1})
         [] prisma.state = "gave up" -> clientAt = NotLoaded \/ clientAt >= LastLook
         [] OTHER -> TRUE

Own(r) == IF r \in entered THEN r ELSE NoContext

\* Call d was answered from the socket of a connection that x opened, and the code of r went on
\* in the context of x: pg and sqlite3 call the application's callback there.
LeftIn(d, r, x) ==
  calls[d].by = r /\ calls[d].form = "socket" /\ calls[d].answer # "none" /\ calls[d].opener = x

\* Each call that was observed, and whose answer was told, is written once to the context it was
\* asked in: not twice where it passes two wrappers or ends twice, not to the request whose
\* connection answers it, and not at all for what is excluded.  What is missing failed inside
\* the agent, ended after it stopped, or was a fetch without a connection.  And that context is
\* the one of the request that asks, unless an earlier call of that request was answered from
\* the socket of a connection that another opened, by a driver whose callback the agent leaves
\* there: what is asked from then on is written to the other (context.ts 158-192, pg.ts 256-287,
\* sqlite.ts 75-80, sqlite3.ts 30-106).
EachCallOnce ==
  LET told(r)  == {c \in DOMAIN calls :
                     /\ calls[c].context = r /\ calls[c].seen /\ ~calls[c].wait /\ ~calls[c].aside
                     /\ calls[c].target \notin Excluded
                     /\ calls[c].answer # "none" \/ calls[c].form = "events"}
      bad(r)   == {c \in told(r) : calls[c].answer \in {"failed", "refused"}}
      whole(r) == /\ internalErrors = 0
                  /\ \A c \in told(r) : /\ calls[c].form = "fetch" => calls[c].sent
                                        /\ everStopped => calls[c].form \notin {"fetch", "channel"}
  IN /\ \A r \in entered :
          /\ work[r].calls <= Cardinality(told(r))
          /\ work[r].failures <= Cardinality(bad(r))
          /\ whole(r) => work[r].calls = Cardinality(told(r)) /\ work[r].failures = Cardinality(bad(r))
     /\ \A c \in DOMAIN calls :
          \/ calls[c].context = Own(calls[c].by)
          \/ \E d \in 1 .. c - 1 : LeftIn(d, calls[c].by, calls[c].context)

\* Each request counts its own work (context.ts 111): what is observed is asked in the context
\* of the request whose code asks it.
EachCountsItsOwn == \A c \in DOMAIN calls : calls[c].watchers > 0 => calls[c].context = calls[c].by

\* An observer that is on has somewhere to write: a request is only opened a context if
\* something is going to record into it, and something is (agent.ts 976).
ObservedMeansRecorded == chosen # {} => entered = Requests
=============================================================================
