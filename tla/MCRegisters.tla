----------------------------- MODULE MCRegisters -----------------------------
(***************************************************************************)
(* Registers for TLC: what its requests do, and the bounds of one of       *)
(* several workloads.                                                      *)
(***************************************************************************)
EXTENDS Registers, TLC

CONSTANTS get, post, a, b, hidden, db, api, x, y

Operations ==
  {[kind |-> "error", hash |-> 1], [kind |-> "query", hash |-> 2],
   [kind |-> "query", hash |-> 3], [kind |-> "call", hash |-> 4]}

To(kind, name)  == [kind |-> kind, name |-> name]
Spent(ms, wait) == [ms |-> ms, wait |-> wait]
Took(S, ms)     == [op \in {o \in Operations : o.hash \in S} |-> ms]

Endpoints ==
  {[method |-> get, route |-> a], [method |-> get, route |-> b],
   [method |-> post, route |-> a], [method |-> get, route |-> hidden]}

\* A request that fails, one that waits for a connection, one that runs operations of two
\* kinds, and one that talks to more targets than are kept.
RequestBodies ==
  { [failed |-> TRUE,  work |-> <<>>, operations |-> <<>>],
    [failed |-> FALSE, work |-> To(db, y) :> Spent(1, 2), operations |-> <<>>],
    [failed |-> FALSE, work |-> <<>>, operations |-> Took({2, 4}, 2)],
    [failed |-> FALSE, work |-> To(db, x) :> Spent(2, 0) @@ To(db, y) :> Spent(1, 0)
                                  @@ To(api, x) :> Spent(1, 0),
     operations |-> Took({1, 2, 3}, 1)] }

\* Two labels share a summary, and one has none that can be told from an empty slot.
Summaries ==
  [l \in Label |-> IF l.method = get THEN 7 ELSE IF l.route = a THEN 0 ELSE 8]

Plain      == \A l \in Label : ran[l] = 0 /\ \A k \in Kind : served[l].ms[k] = 0
Only(S)    == \A h \in hits : h.label.route \in S
Still      == now = 0 /\ sampled = {} /\ rotations = 0
OneByOne   == Cardinality(Open) <= 1 /\ \A r \in Begun : state[r] # "gone"
Unhindered == level = "nothing" /\ ~paused /\ ~everPaused
Quiet      == over = 0 /\ asks = {}

\* One workload at a time, chosen with the initial state.
VARIABLE workload

Within ==
  CASE workload = "folded" ->
         Still /\ ~checking /\ Unhindered /\ OneByOne /\ Len(state) <= 3
    \* requests beside each other, and a reference that stands still
    [] workload = "beside" ->
         /\ Still /\ Plain /\ Quiet /\ Len(state) <= 3 /\ Only({a}) /\ level = "nothing"
         /\ (checking => ~paused /\ ~everPaused /\ Len(state) <= 2)
    \* more requests than a reference keeps
    [] workload = "sampled" ->
         Still /\ Plain /\ Unhindered /\ OneByOne /\ ~checking /\ Only({a})
    \* the meter, and a file under check
    [] workload = "shed" ->
         /\ Still /\ Len(state) <= 2 /\ Only({a}) /\ ~paused /\ ~everPaused /\ Quiet
         /\ (checking => level # "profile")
    [] workload = "seconds" ->
         /\ Plain /\ ~checking /\ Len(state) <= 2 /\ Unhindered /\ OneByOne /\ rotations = 0
         /\ Cardinality(sampled) <= 2 /\ Only({a})
    [] workload = "windows" ->
         /\ Plain /\ Len(state) <= 2 /\ sampled = {} /\ Unhindered /\ OneByOne /\ Only({a})
         /\ Quiet /\ now <= 4 /\ rotations <= 2 /\ (checking => Len(state) <= 1)
    \* signals that stay
    [] workload = "signals" ->
         /\ sampled = {} /\ Unhindered /\ OneByOne /\ ~checking /\ now <= 2 /\ Len(state) <= 3
         /\ windowStart = 0
         /\ \A l \in Label : ran[l] = 0 /\ served[l].errors = 0 /\ Only({a})

MCInit == Init /\ workload \in {"folded", "beside", "sampled", "shed", "seconds", "windows", "signals"}
MCNext == Next /\ UNCHANGED workload
MCSpec == MCInit /\ [][MCNext]_<<vars, workload>>
=============================================================================
