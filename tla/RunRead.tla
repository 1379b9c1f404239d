------------------------------- MODULE RunRead -------------------------------
(***************************************************************************)
(* Reading the file a run wrote (packages/agent/src/check/read.ts and      *)
(* inspection.ts): one line per batch, of several processes side by side,  *)
(* some of them twice, some not to be read.  Folded line by line.          *)
(***************************************************************************)
EXTENDS Integers, Sequences, FiniteSets, SequencesExt

CONSTANTS
  Line,      \* what may be on a line
  Tolerance  \* how far beyond a window an interval's middle may be

VARIABLES
  lines,  \* of each side: the lines of its file that were read
  reader  \* and what was folded from them

readVars == <<lines, reader>>

Side == {"base", "change"}
NoWindow == [ok |-> FALSE, there |-> FALSE]
Owned == [windows |-> <<>>, intervals |-> <<>>, observers |-> {}]
NewReader == [problems |-> 0, batches |-> 0, processes |-> <<>>, operations |-> <<>>, named |-> {},
              unread |-> 0, skipped |-> 0, stopped |-> FALSE]

ReadInit == lines = [s \in Side |-> <<>>] /\ reader = [s \in Side |-> NewReader]

\* A function at one more place, or as it is where it has one.
Plus(f, key, value) == [k \in DOMAIN f \cup {key} |-> IF k \in DOMAIN f THEN f[k] ELSE value]
Changed(f, key, value) == [k \in DOMAIN f \cup {key} |-> IF k = key THEN value ELSE f[k]]
At(f, key, default) == IF key \in DOMAIN f THEN f[key] ELSE default
Total(S, of(_)) == SumFunctionOnSet([x \in S |-> of(x)], S)

-----------------------------------------------------------------------------
\* The parts of a batch

\* An operation's name: calls and commands to this machine are one, whatever the port.
Identify(operation) ==
  IF operation.kind # "query" /\ operation.local THEN <<operation.kind, "this machine">>
  ELSE <<operation.kind, operation.hash>>

\* The places of a list's entries that can be read, and how many cannot.
Good(entries) == {k \in DOMAIN entries : entries[k].ok}
Bad(entries)  == Cardinality(DOMAIN entries \ Good(entries))

\* The routes a window or an interval names.
RoutesIn(part) == {part.endpoints[k].route : k \in Good(part.endpoints)}

\* The operations of a window that can be read, each by its place and its endpoint's, what each
\* is of, and how often its route ran it.
Ran(window) == UNION {{<<e, o>> : o \in Good(window.endpoints[e].operations)} : e \in Good(window.endpoints)}
RanAt(window, x) == window.endpoints[x[1]].operations[x[2]]
KeyOf(window, x) == <<window.endpoints[x[1]].route, Identify(RanAt(window, x))>>
Keys(window) == {KeyOf(window, x) : x \in Ran(window)}
Executions(window, key) == Total({x \in Ran(window) : KeyOf(window, x) = key}, LAMBDA x : RanAt(window, x).count)

WindowProblems(window) ==
  IF ~window.ok THEN 1
  ELSE Bad(window.endpoints) + Total(Good(window.endpoints), LAMBDA e : Bad(window.endpoints[e].operations))

\* How many of a route's requests made how many queries, by buckets of which the first is none;
\* not known when they reached more than one database, or when one cannot be read.
QueriesOf(endpoint) ==
  LET known   == Good(endpoint.databases) = DOMAIN endpoint.databases /\ Len(endpoint.databases) <= 1
      reached == IF known /\ Len(endpoint.databases) = 1 THEN endpoint.databases[1].buckets ELSE <<0, 0>>
      rest    == endpoint.count - reached[1] - reached[2]
  IN [known |-> known, buckets |-> <<IF rest > 0 THEN rest ELSE 0, reached[1], reached[2]>>]

IntervalProblems(interval) ==
  IF ~interval.ok THEN 1
  ELSE Bad(interval.endpoints) + Total(Good(interval.endpoints), LAMBDA e : Bad(interval.endpoints[e].databases))

\* A batch may have a window, and it may be one that can be read.
Opens(batch) == batch.window.there /\ batch.window.ok

IsList(list) == Len(list) \in Nat /\ DOMAIN list = 1 .. Len(list)

\* What is counted is a number, and an endpoint had no fewer requests than reached its database.
IsEndpoint(endpoint) ==
  /\ endpoint.count \in Nat /\ IsList(endpoint.databases)
  /\ \A d \in Good(endpoint.databases) :
       LET buckets == endpoint.databases[d].buckets
       IN {buckets[1], buckets[2]} \subseteq Nat /\ buckets[1] + buckets[2] <= endpoint.count

IsBatch(batch) ==
  /\ Opens(batch) =>
       /\ IsList(batch.window.endpoints)
       /\ \A e \in Good(batch.window.endpoints) : IsList(batch.window.endpoints[e].operations)
       /\ \A x \in Ran(batch.window) : RanAt(batch.window, x).count \in Nat
  /\ IsList(batch.intervals)
  /\ \A i \in Good(batch.intervals) :
       LET endpoints == batch.intervals[i].endpoints
       IN IsList(endpoints) /\ \A k \in Good(endpoints) : IsEndpoint(endpoints[k])

\* A process writes again what it wrote as it was, and its windows and intervals have each an
\* instant they start at.
WrittenAgain(batch, other) ==
  /\ Opens(batch) /\ Opens(other) /\ batch.window.start = other.window.start => batch.window = other.window
  /\ \A i \in Good(batch.intervals), j \in Good(other.intervals) :
       batch.intervals[i].start = other.intervals[j].start => batch.intervals[i] = other.intervals[j]

ASSUME ReadAssumption ==
  LET batches == {line \in Line : line.is = "batch"}
  IN /\ Tolerance \in Nat
     /\ \A batch \in batches : IsBatch(batch)
     /\ \A batch, other \in batches : batch.process = other.process => WrittenAgain(batch, other)

-----------------------------------------------------------------------------
\* RunReader: what a line adds

\* The operations of a window are added to their routes.
Fold(operations, window) ==
  [key \in DOMAIN operations \cup Keys(window) |-> At(operations, key, 0) + Executions(window, key)]

CountedOfAny(owned, window) == FALSE

\* One that was written twice is told by its process and the instant it starts at.
Counted(owned, window) == window.start \in DOMAIN owned.windows

\* So are intervals, and the first that is written is kept.
Kept(known, intervals) ==
  LET at(t) == {k \in Good(intervals) : intervals[k].start = t}
  IN [t \in DOMAIN known \cup {intervals[k].start : k \in Good(intervals)} |->
        IF t \in DOMAIN known THEN known[t] ELSE intervals[Min(at(t))]]

ReadBatch(r, batch) ==
  LET owned   == At(r.processes, batch.process, Owned)
      window  == batch.window
      opens   == Opens(batch) /\ ~Counted(owned, window)
      now     == [windows |-> IF opens THEN Plus(owned.windows, window.start, window.end) ELSE owned.windows,
                  intervals |-> Kept(owned.intervals, batch.intervals),
                  observers |-> owned.observers \cup batch.observers]
  IN [r EXCEPT !.batches = @ + 1,
        !.processes = Changed(@, batch.process, now),
        !.operations = IF opens THEN Fold(@, window) ELSE @,
        !.named = @ \cup (IF opens THEN RoutesIn(window) ELSE {}),
        !.problems = @ + (IF window.there THEN WindowProblems(window) ELSE 0)
                       + Total(DOMAIN batch.intervals, LAMBDA k : IntervalProblems(batch.intervals[k]))]

AddBatch(r, line) == IF line.is = "batch" THEN ReadBatch(r, line) ELSE [r EXCEPT !.problems = @ + 1]

\* A file of the person's is read as far as its protocol is this one's.
LineVerdict(line) ==
  CASE line.is \in {"not JSON", "no protocol"} -> "skip" [] line.is = "another protocol" -> "stop" [] OTHER -> "batch"

ReadInspection(r, line) ==
  CASE LineVerdict(line) = "stop"  -> [r EXCEPT !.stopped = TRUE]
    [] LineVerdict(line) = "skip"  -> [r EXCEPT !.skipped = @ + 1, !.unread = @ + 1]
    [] LineVerdict(line) = "batch" ->
         LET added == AddBatch(r, line)
         IN [added EXCEPT !.unread = @ + IF added.problems > r.problems THEN 1 ELSE 0]

ReadLine(side, line) ==
  /\ ~reader[side].stopped
  /\ lines' = [lines EXCEPT ![side] = Append(@, line)]
  /\ reader' = [reader EXCEPT ![side] = ReadInspection(@, line)]

ReadSpec == ReadInit /\ [][\E side \in Side, line \in Line : ReadLine(side, line)]_readVars

-----------------------------------------------------------------------------
\* What the file says

\* The intervals of every process, and those a window of the same process covers.
Intervals(r) ==
  UNION {{[process |-> p, interval |-> r.processes[p].intervals[t]] : t \in DOMAIN r.processes[p].intervals} :
           p \in DOMAIN r.processes}

Covered(r, x) ==
  LET windows == r.processes[x.process].windows
  IN \E start \in DOMAIN windows :
       /\ x.interval.start + x.interval.end >= 2 * (start - Tolerance)
       /\ x.interval.start + x.interval.end <= 2 * (windows[start] + Tolerance)

\* A route's entries in them.
Endpoints(intervals, route) ==
  UNION {{[of |-> x, at |-> k] : k \in {j \in Good(x.interval.endpoints) : x.interval.endpoints[j].route = route}} :
           x \in intervals}

Endpoint(e) == e.of.interval.endpoints[e.at]

\* The buckets of a route's requests are added, and once unknown they stay so.
AddBuckets(entries) ==
  [known |-> \A e \in entries : QueriesOf(Endpoint(e)).known,
   buckets |-> [b \in 1 .. 3 |-> Total(entries, LAMBDA e : QueriesOf(Endpoint(e)).buckets[b])]]

\* Only processes that answered say what was observed, when one did.
ObserversOf(r) ==
  LET answered == {x.process : x \in {y \in Intervals(r) : \E k \in Good(y.interval.endpoints) :
                                                             y.interval.endpoints[k].count > 0}}
  IN UNION {r.processes[p].observers : p \in IF answered = {} THEN DOMAIN r.processes ELSE answered}

TallyOf(r, entries, route) ==
  LET counted(e) == Endpoint(e).count
      profiled   == {e \in entries : Covered(r, e.of) \/ ~Endpoint(e).calls}
      own        == {key \in DOMAIN r.operations : key[1] = route}
  IN [requests |-> Total(entries, counted), profiled |-> Total(profiled, counted),
      unprofiled |-> Total(entries \ profiled, counted), queries |-> AddBuckets(entries),
      operations |-> [id \in {key[2] : key \in own} |-> r.operations[<<route, id>>]]]

Finish(r) ==
  LET intervals == Intervals(r)
      routes    == r.named \cup UNION {RoutesIn(x.interval) : x \in intervals}
  IN [malformed |-> r.problems + r.skipped, batches |-> r.batches, observers |-> ObserversOf(r),
      routes |-> [route \in routes |-> TallyOf(r, Endpoints(intervals, route), route)]]

Requests(tally) == Total(DOMAIN tally.routes, LAMBDA route : tally.routes[route].requests)

\* What keeps a file from being reported.
Inspected(r) ==
  CASE r.stopped -> "unreadable-protocol"
    [] ~r.stopped /\ r.batches = 0 -> "not-inspection-file"
    [] ~r.stopped /\ r.batches > 0 /\ Requests(Finish(r)) = 0 -> "no-requests"
    [] OTHER -> "ok"
=============================================================================
