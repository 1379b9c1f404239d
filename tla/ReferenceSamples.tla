-------------------------- MODULE ReferenceSamples ---------------------------
(***************************************************************************)
(* The reference register (packages/agent/src/reference.ts): a uniform     *)
(* reservoir of finished requests per endpoint, which stands still while a *)
(* capture is live.                                                        *)
(*                                                                         *)
(* A sample is the request it is of, numbered as the agent counts them.    *)
(* The random number is any that it may be.  What a sample copies of its   *)
(* operations is in FineRegister.                                          *)
(***************************************************************************)
EXTENDS Observed

CONSTANTS
  ReferenceRoutes,    \* endpoints it keeps samples of
  PerRoute,           \* samples of each
  Digest,             \* the 32-bit summary of a label: two labels may share one, and it may be 0
  MaxReferenceDropped \* summaries it remembers

ASSUME ReferenceAssumption ==
  /\ {ReferenceRoutes, PerRoute, MaxReferenceDropped} \subseteq Nat \ {0}
  /\ Digest \in [Label -> Nat]

VARIABLES
  seen,          \* requests considered, by endpoint
  samples,       \* by endpoint and slot: the request, or none
  summaries,     \* of the endpoints it had no room for
  paused, everPaused,
  considered,    \* history: the requests that were offered while it was renewed, by endpoint
  refused        \* history: the endpoints it had no room for

referenceVars == <<seen, samples, summaries, paused, everPaused, considered, refused>>

NoSample == 0

ReferenceInit ==
  /\ seen = [l \in Label |-> 0]
  /\ samples = [l \in Label |-> [i \in 1 .. PerRoute |-> NoSample]]
  /\ summaries = {}
  /\ paused = FALSE /\ everPaused = FALSE
  /\ considered = [l \in Label |-> {}] /\ refused = {}

Sampled == {l \in Label : seen[l] > 0}

\* noteDropped: an empty slot reads 0, so a summary of 0 is taken for one already there.
Note(label) ==
  IF Digest[label] = 0 \/ Cardinality(summaries) >= MaxReferenceDropped THEN summaries
  ELSE summaries \cup {Digest[label]}

SlotsForPastTheEnd(n) == {at + 1 : at \in 0 .. n - 1}

\* Algorithm R: the first are kept, and the nth replaces one of them or none.
SlotsFor(n) ==
  IF n <= PerRoute THEN {n} ELSE {at + 1 : at \in 0 .. n - 1}

\* ReferenceRegister.consider
Consider(label, request) ==
  IF paused
  THEN /\ everPaused' = TRUE
       /\ UNCHANGED <<seen, samples, summaries, paused, considered, refused>>
  ELSE IF label \notin Sampled /\ Cardinality(Sampled) >= ReferenceRoutes
  THEN /\ summaries' = Note(label) /\ refused' = refused \cup {label}
       /\ UNCHANGED <<seen, samples, paused, everPaused, considered>>
  ELSE /\ seen' = [seen EXCEPT ![label] = @ + 1]
       /\ considered' = [considered EXCEPT ![label] = @ \cup {request}]
       /\ \E slot \in SlotsFor(seen[label] + 1) :
            samples' = [samples EXCEPT ![label] =
                          [i \in 1 .. PerRoute |-> IF i = slot THEN request ELSE @[i]]]
       /\ UNCHANGED <<summaries, paused, everPaused, refused>>

\* The agent's renewReference: as orders arrive, and at the end of a flush.
RenewReference(live) ==
  /\ paused' = live
  /\ UNCHANGED <<seen, samples, summaries, everPaused, considered, refused>>

-----------------------------------------------------------------------------
\* snapshot

Filled(label) == {i \in 1 .. PerRoute : samples[label][i] # NoSample}
Population    == SumOver(Sampled, LAMBDA l : seen[l])

ReferenceTypeOK ==
  /\ seen \in [Label -> Nat]
  /\ samples \in [Label -> [1 .. PerRoute -> Nat]]
  /\ Cardinality(Sampled) <= ReferenceRoutes
  /\ Cardinality(summaries) <= MaxReferenceDropped
  /\ {paused, everPaused} \subseteq BOOLEAN

\* The reservoir is as full as the endpoint was busy, with distinct requests of its own; none
\* of them was served while it stood still; and the endpoints it says it had no room for are
\* no more than there were (reference.ts 104-123, 236-242).
SamplesTell ==
  /\ \A l \in Label :
       /\ Cardinality(Filled(l)) = Min({seen[l], PerRoute})
       /\ seen[l] = Cardinality(considered[l])
       /\ \A i \in Filled(l) : samples[l][i] \in considered[l]
       /\ \A i, j \in Filled(l) : samples[l][i] = samples[l][j] => i = j
  /\ Cardinality(summaries) <= Cardinality(refused)
=============================================================================
