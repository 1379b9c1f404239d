------------------------------- MODULE Session -------------------------------
(***************************************************************************)
(* A coding agent's session with the MCP server (packages/mcp/src/rpc.ts   *)
(* and server.ts): messages are handled as they are read, calls wait for   *)
(* the cloud side by side, and their answers are written as they are       *)
(* ready.  The agent may cancel a request, retry an operation, reuse an    *)
(* id, and close its end; the cloud (external) may answer late, in part,   *)
(* or never.                                                               *)
(***************************************************************************)
EXTENDS Integers, Sequences, FiniteSets, Tools

CONSTANTS
  Id,         \* what the agent numbers its requests with
  Operation,  \* what the agent means to do, each once
  ToolOf,     \* the tool it does it with
  HasToken,   \* the server was given a credential
  \* Bounds of the model:
  MaxMessages, MaxVersion

ASSUME SessionAssumption ==
  /\ ToolOf \in [Operation -> ToolNames] /\ HasToken \in BOOLEAN
  /\ {MaxMessages, MaxVersion} \subseteq Nat /\ 0 \notin Id

VARIABLES
  open,       \* the session: "reading", its input "ended", or "served"
  messages,   \* what was read, in order
  inFlight,   \* of each id: the message that is being answered, or 0
  aborted,    \* messages whose signal is aborted
  answers,    \* the answers written, by the message they answer
  revision,   \* the revision of the protocol the session speaks
  applied,    \* the cloud: the operations it applied, with their keys
  version,    \* the cloud: the version of the report
  cancelled,  \* history: messages that were cancelled while they were answered
  blind       \* history: operations asked for again with no key to pass

sessionVars == <<open, messages, inFlight, aborted, answers, revision, applied, version, cancelled, blind>>

NoId  == 0
NoKey == [of |-> "nothing", n |-> 0]
OwnKey(o) == [of |-> "operation", n |-> o]
NewKey(m) == [of |-> "message", n |-> m]
Messages == 1 .. Len(messages)
Revisions == 1 .. 3   \* oldest first

SessionInit ==
  /\ open = "reading" /\ messages = <<>> /\ inFlight = [i \in Id |-> 0]
  /\ aborted = {} /\ answers = <<>> /\ revision = 3
  /\ applied = <<>> /\ version = 1 /\ cancelled = {} /\ blind = {}

-----------------------------------------------------------------------------
\* The server

\* The newest revision that is not later than the one asked for, or else the newest of all.
\* Zero is not a revision.
Negotiated(asked) ==
  LET spoken == {r \in Revisions : r <= asked}
  IN IF asked = 0 \/ spoken = {} THEN 3 ELSE CHOOSE r \in spoken : \A s \in spoken : s <= r

\* What is said at once, with nothing sent: an argument that is missing, a version that is
\* blank, a silence of no finding, an operation without a credential.
Refused(tool, given) ==
  \/ ~(ToolNamed(tool).required \subseteq given)
  \/ ToolNamed(tool).operates /\ ~HasToken

\* The key of an operation: the agent's, or one made here.
KeySent(m) ==
  IF ~ToolNamed(messages[m].tool).operates THEN NoKey
  ELSE IF messages[m].key # NoKey THEN messages[m].key ELSE NewKey(m)

\* The version a decision was made on travels with it.
IfMatch(m) == IF ToolNamed(messages[m].tool).versioned THEN messages[m].version ELSE 0

Message(id, what) ==
  [id |-> id, what |-> what, operation |-> 0, tool |-> "read_credential", key |-> NoKey, version |-> 0,
   stage |-> "ready", outcome |-> "said", sent |-> "no"]

\* serve, of a line that is a message: handled at once, whatever is still being answered.
Reads(message) ==
  /\ open = "reading" /\ Len(messages) < MaxMessages
  /\ messages' = Append(messages, message)
  /\ inFlight' = IF message.id = NoId THEN inFlight
                 ELSE [inFlight EXCEPT ![message.id] = Len(messages) + 1]

ReadInitialize(id, asked) ==
  /\ Reads(Message(id, "initialize")) /\ revision' = Negotiated(asked)
  /\ UNCHANGED <<open, aborted, answers, applied, version, cancelled, blind>>

\* A ping, the list of tools, a method there is not, a notification.
ReadOther(id) ==
  /\ Reads(Message(id, "other"))
  /\ UNCHANGED <<open, aborted, answers, revision, applied, version, cancelled, blind>>

\* A line that is no message is answered with no id, and the session goes on.
ReadJunk ==
  /\ open = "reading" /\ Len(messages) < MaxMessages
  /\ messages' = Append(messages, [Message(NoId, "junk") EXCEPT !.stage = "done"])
  /\ answers' = Append(answers, Len(messages) + 1)
  /\ UNCHANGED <<open, inFlight, aborted, revision, applied, version, cancelled, blind>>

ReadCall(id, o, tool, key, read, given) ==
  LET call == [Message(id, "call") EXCEPT !.operation = o, !.tool = tool, !.key = key, !.version = read]
  IN /\ Reads(IF Refused(tool, given) THEN [call EXCEPT !.outcome = "refused"]
              ELSE [call EXCEPT !.stage = "asked", !.sent = "on its way"])
     /\ UNCHANGED <<open, aborted, answers, revision, applied, version, cancelled>>

\* A cancellation aborts the request that is in flight with that id, and one that names none
\* does nothing.
ReadCancelled(id) ==
  /\ open = "reading" /\ Len(messages) < MaxMessages
  /\ messages' = Append(messages, [Message(NoId, "cancelled") EXCEPT !.stage = "done"])
  /\ aborted' = IF inFlight[id] = 0 THEN aborted ELSE aborted \cup {inFlight[id]}
  /\ LET named == {m \in Messages : messages[m].id = id}
     IN cancelled' = cancelled \cup {m \in named : messages[m].stage # "done" /\ \A n \in named : n <= m}
  /\ UNCHANGED <<open, inFlight, answers, revision, applied, version, blind>>

\* The fetch fails: the cloud was not reached, or its answer was not waited for, or the agent
\* cancelled.  What was sent may still arrive.
CallFails(m) ==
  /\ messages[m].stage \in {"asked", "answering"}
  /\ messages' = [messages EXCEPT ![m].stage = "ready",
                    ![m].outcome = IF messages[m].stage = "asked" THEN "unreachable" ELSE "cut short"]
  /\ UNCHANGED <<open, inFlight, aborted, answers, revision, applied, version, cancelled, blind>>

StatusComes(m) ==
  /\ messages[m].stage = "asked" /\ messages[m].sent \in {"done", "refused"} /\ m \notin aborted
  /\ messages' = [messages EXCEPT ![m].stage = "answering"]
  /\ UNCHANGED <<open, inFlight, aborted, answers, revision, applied, version, cancelled, blind>>

BodyComes(m) ==
  /\ messages[m].stage = "answering" /\ m \notin aborted
  /\ messages' = [messages EXCEPT ![m].stage = "ready", ![m].outcome = messages[m].sent]
  /\ UNCHANGED <<open, inFlight, aborted, answers, revision, applied, version, cancelled, blind>>

ForgetAnyhow(m) == messages[m].id # NoId

\* An id used again is the newer request's.
Forget(m) == messages[m].id # NoId /\ inFlight[messages[m].id] = m

Written(m) ==
  /\ messages[m].stage = "ready"
  /\ messages' = [messages EXCEPT ![m].stage = "done"]
  /\ inFlight' = IF Forget(m) THEN [inFlight EXCEPT ![messages[m].id] = 0] ELSE inFlight
  /\ answers' = IF messages[m].id # NoId /\ m \notin aborted THEN Append(answers, m) ELSE answers
  /\ UNCHANGED <<open, aborted, revision, applied, version, cancelled, blind>>

NoneWaited == TRUE

\* What was asked before the end of the input is waited for.
NoneAnswering == \A m \in Messages : messages[m].stage = "done"

\* serve returns, and the process has nothing left to do.
Returns ==
  /\ open = "ended" /\ NoneAnswering /\ open' = "served"
  /\ UNCHANGED <<messages, inFlight, aborted, answers, revision, applied, version, cancelled, blind>>

-----------------------------------------------------------------------------
\* The cloud

\* What it was sent arrives, perhaps after the server stopped waiting, perhaps never: a key it knows is not
\* applied again, and a decision on another version of the report is refused.
Arrives(m) ==
  LET key == KeySent(m)
      known == key # NoKey /\ \E i \in DOMAIN applied : applied[i].key = key
      stale == IfMatch(m) # 0 /\ IfMatch(m) # version
      applies == key # NoKey /\ ~known /\ ~stale
  IN /\ messages[m].sent = "on its way"
     /\ messages' = [messages EXCEPT ![m].sent = IF stale /\ ~known THEN "refused" ELSE "done"]
     /\ applied' = IF applies
                   THEN Append(applied, [operation |-> messages[m].operation, key |-> key, message |-> m, on |-> version])
                   ELSE applied
     /\ version' = IF applies /\ version < MaxVersion THEN version + 1 ELSE version
     /\ UNCHANGED <<open, inFlight, aborted, answers, revision, cancelled, blind>>

ReportMoves ==
  /\ version < MaxVersion /\ version' = version + 1
  /\ UNCHANGED <<open, messages, inFlight, aborted, answers, revision, applied, cancelled, blind>>

-----------------------------------------------------------------------------
\* The agent

\* The calls it made for an operation, and what it was told of them.
Calls(o) == {m \in Messages : messages[m].what = "call" /\ messages[m].operation = o}
Told(m)  == \E i \in DOMAIN answers : answers[i] = m

\* It asks once, and again after what it was told was a failure or once it cancelled, with the
\* key it passed or was told.
MayAsk(o) ==
  \A m \in Calls(o) \ cancelled : Told(m) /\ messages[m].outcome \in {"unreachable", "cut short"}

KnownKeys(o) ==
  LET cut == {m \in Calls(o) : Told(m) /\ messages[m].outcome = "cut short"}
  IN ({messages[m].key : m \in Calls(o)} \cup {KeySent(m) : m \in cut}) \ {NoKey}

AgentCalls(id, o, given, read) ==
  LET known == KnownKeys(o)
  IN /\ MayAsk(o) /\ read \in 1 .. version
     /\ \E key \in IF known # {} THEN known ELSE IF Calls(o) = {} THEN {NoKey, OwnKey(o)} ELSE {NoKey} :
          /\ ReadCall(id, o, ToolOf[o], key, read, given)
          /\ blind' = IF key = NoKey /\ Calls(o) # {} THEN blind \cup {o} ELSE blind

AgentCloses ==
  /\ open = "reading" /\ open' = "ended"
  /\ UNCHANGED <<messages, inFlight, aborted, answers, revision, applied, version, cancelled, blind>>

SessionNext ==
  \/ \E id \in Id \cup {NoId} :
       \/ \E asked \in 0 .. 3 : ReadInitialize(id, asked)
       \/ ReadOther(id)
       \/ \E o \in Operation, read \in 1 .. MaxVersion :
            \E given \in {{}, ToolNamed(ToolOf[o]).required} : AgentCalls(id, o, given, read)
  \/ ReadJunk
  \/ \E id \in Id : ReadCancelled(id)
  \/ \E m \in Messages :
       CallFails(m) \/ StatusComes(m) \/ BodyComes(m) \/ Written(m) \/ Arrives(m)
  \/ Returns \/ ReportMoves \/ AgentCloses

SessionSpec == SessionInit /\ [][SessionNext]_sessionVars

-----------------------------------------------------------------------------
\* A request is answered once, unless it was cancelled while it was being answered, and then
\* never; when the session has returned every request of it was, those of which the answer was
\* still waited for as the agent closed its end with them; an operation asked for again with the
\* key the agent passed or was told is applied once, and a versioned one on the version it was
\* decided on.  An operation asked for again with no key, of which the agent was told none, may be
\* applied again: it is RetriedIsNotRepeated that is of those (rpc.ts 97-165, server.ts 117-171).
EachAskOnce ==
  LET count(m) == Cardinality({i \in DOMAIN answers : answers[i] = m})
  IN /\ \A m \in Messages :
          /\ count(m) <= 1
          /\ m \in cancelled => count(m) = 0
          /\ messages[m].stage = "done" \/ open = "served" =>
               count(m) = 1 \/ m \in cancelled \/ messages[m].id = NoId
     /\ \A i, j \in DOMAIN applied :
          /\ applied[i].operation = applied[j].operation /\ i # j => applied[i].operation \in blind
          /\ ToolNamed(ToolOf[applied[i].operation]).versioned => messages[applied[i].message].version = applied[i].on

\* An operation the agent retries, with the key it knows of when it knows of one, is applied once,
\* also when the connection dropped before the status and no key was told (server.ts 119-124).
\* It does not hold of a key that was never told.
RetriedIsNotRepeated ==
  \A i, j \in DOMAIN applied : applied[i].operation = applied[j].operation => i = j
=============================================================================
