------------------------------ MODULE RunCompare ------------------------------
(***************************************************************************)
(* Comparing two runs, route by route (packages/agent/src/check/           *)
(* compare.ts and compare-command.ts, report-command.ts): what each        *)
(* request ran, on the base and on the change.                             *)
(***************************************************************************)
EXTENDS RunRead

CONSTANTS Declared  \* routes that are declared, called or not

ASSUME CompareAssumption == IsFiniteSet(Declared)

\* Rates are compared as fractions: executions over the requests a profile covers.
\* A rise is at least a quarter of what there was, and at least half an operation a request.
Rises(from, of, to, over) ==
  /\ 4 * to * of >= 5 * from * over
  /\ 2 * (to * of - from * over) >= of * over

Classify(was, of, is, over) ==
  CASE was = 0 /\ is = 0 -> "unchanged"
    [] was = 0 /\ is > 0 -> "appeared"
    [] was > 0 /\ is = 0 -> "disappeared"
    [] was > 0 /\ is > 0 /\ Rises(was, of, is, over) -> "multiplied"
    [] was > 0 /\ is > 0 /\ Rises(is, over, was, of) -> "reduced"
    [] OTHER -> "unchanged"

\* What a driver sends to its session is shown and never judged.
IsSessionSetting(id) == id[1] = "query" /\ id[2] = "SET"

Buckets == {"(unmatched)", "(other)"}

NotCalled == [requests |-> 0, profiled |-> 0, unprofiled |-> 0, operations |-> <<>>]

NotEvaluated(reason) == [verdict |-> "not-evaluated", reason |-> reason, operations |-> <<>>]

EvaluateOperations(base, change) ==
  LET moved(id) == Classify(At(base.operations, id, 0), base.profiled, At(change.operations, id, 0), change.profiled)
      all == [id \in DOMAIN base.operations \cup DOMAIN change.operations |-> moved(id)]
      worse(id) == all[id] \in {"appeared", "multiplied"} /\ ~IsSessionSetting(id)
  IN IF DOMAIN all = {} THEN NotEvaluated("nothing-observed")
     ELSE [verdict |-> IF \E id \in DOMAIN all : worse(id) THEN "worse" ELSE "unchanged",
           reason |-> "none", operations |-> all]

EvaluateRoute(route, base, change) ==
  CASE route \in Buckets -> NotEvaluated("bucket")
    [] route \notin Buckets /\ base.requests = 0 ->
         NotEvaluated(IF change.requests = 0 THEN "not-called" ELSE "not-called-in-base")
    [] route \notin Buckets /\ base.requests > 0 /\ change.requests = 0 -> NotEvaluated("not-called-in-change")
    [] route \notin Buckets /\ base.requests > 0 /\ change.requests > 0 ->
         IF base.profiled = 0 \/ change.profiled = 0 THEN NotEvaluated("no-profile") ELSE EvaluateOperations(base, change)

CompareRuns(base, change) ==
  [route \in Declared \cup DOMAIN base.routes \cup DOMAIN change.routes |->
     EvaluateRoute(route, At(base.routes, route, NotCalled), At(change.routes, route, NotCalled))]

Summarize(results) ==
  [verdict \in {"worse", "unchanged", "not-evaluated"} |->
     Cardinality({route \in DOMAIN results : results[route].verdict = verdict})]

\* The command's exit code: nothing compared, something worse, or neither.
RunCompareExit(base, change) ==
  LET summary == Summarize(CompareRuns(Finish(base), Finish(change)))
  IN IF Inspected(base) # "ok" \/ Inspected(change) # "ok" \/ summary["worse"] + summary["unchanged"] = 0 THEN 2
     ELSE IF summary["worse"] > 0 THEN 1 ELSE 0

\* The bucket that half of the requests reach.
MedianBucket(buckets) ==
  LET upTo(b) == Total(1 .. b, LAMBDA k : buckets[k])
      halves  == {b \in DOMAIN buckets : 2 * upTo(b) >= upTo(Len(buckets))}
  IN CHOOSE b \in halves : \A c \in halves : b <= c

\* A route's report: its queries over the requests a profile covers, and their median; the
\* operations it repeats.
SummarizeRoute(tally) ==
  [queries  |-> Total({id \in DOMAIN tally.operations : id[1] = "query"}, LAMBDA id : tally.operations[id]),
   over     |-> tally.profiled,
   several  |-> ~tally.queries.known,
   median   |-> IF tally.queries.known /\ tally.requests > 0 THEN MedianBucket(tally.queries.buckets) ELSE 0,
   repeated |-> {id \in DOMAIN tally.operations : tally.profiled > 0 /\ tally.operations[id] > tally.profiled}]

RunReport(r) == [route \in DOMAIN Finish(r).routes |-> SummarizeRoute(Finish(r).routes[route])]

-----------------------------------------------------------------------------
\* What the lines say, taken all together

Batches(s) == {line \in ToSet(lines[s]) : line.is = "batch"}

\* Each window and each interval once, of the process it is of; what was executed and what was
\* asked are sums over those.
Windows(batches) == {[process |-> l.process, window |-> l.window] : l \in {x \in batches : Opens(x)}}

Recorded(batches) ==
  UNION {{[process |-> l.process, interval |-> l.intervals[k]] : k \in Good(l.intervals)} : l \in batches}

Executed(batches, key) == Total(Windows(batches), LAMBDA w : Executions(w.window, key))

Asked(batches, route) ==
  LET of(x) == {k \in Good(x.interval.endpoints) : x.interval.endpoints[k].route = route}
  IN Total(Recorded(batches), LAMBDA x : Total(of(x), LAMBDA k : x.interval.endpoints[k].count))

Mirrored ==
  [appeared |-> "disappeared", disappeared |-> "appeared", multiplied |-> "reduced", reduced |-> "multiplied",
   unchanged |-> "unchanged"]

\* What a run's file says is what its lines say, each window and interval once, in whatever order
\* the lines of several processes come and however often one is written (read.ts 292-430).
ReadOnce(r, batches) ==
  LET routes == Finish(r).routes
      ran    == UNION {Keys(w.window) : w \in Windows(batches)}
  IN /\ DOMAIN routes = UNION ({RoutesIn(w.window) : w \in Windows(batches)}
                                 \cup {RoutesIn(x.interval) : x \in Recorded(batches)})
     /\ \A route \in DOMAIN routes :
          LET tally == routes[route]
          IN /\ tally.requests = Asked(batches, route)
             /\ tally.profiled + tally.unprofiled = Asked(batches, route)
             /\ DOMAIN tally.operations = {key[2] : key \in {k \in ran : k[1] = route}}
             /\ \A id \in DOMAIN tally.operations : tally.operations[id] = Executed(batches, <<route, id>>)
             /\ tally.queries.known =>
                  tally.queries.buckets[1] + tally.queries.buckets[2] + tally.queries.buckets[3] = Asked(batches, route)
             /\ RunReport(r)[route].repeated # {} => RunReport(r)[route].over > 0

\* So it is of either run; what rose from one run to the other fell from the other to the one, and
\* a run is not worse than itself (compare.ts 200-324).
EachLineOnce ==
  LET base == Finish(reader["base"]) change == Finish(reader["change"])
      there == CompareRuns(base, change) back == CompareRuns(change, base) same == CompareRuns(base, base)
  IN /\ \A s \in Side : ReadOnce(reader[s], Batches(s))
     /\ \A route \in DOMAIN there :
          /\ there[route].verdict = "not-evaluated" <=> back[route].verdict = "not-evaluated"
          /\ \A id \in DOMAIN there[route].operations :
               back[route].operations[id] = Mirrored[there[route].operations[id]]
     /\ \A route \in DOMAIN same : same[route].verdict # "worse"
     /\ RunCompareExit(reader["base"], reader["change"]) = 2 <=> RunCompareExit(reader["change"], reader["base"]) = 2
=============================================================================
