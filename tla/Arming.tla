------------------------------- MODULE Arming --------------------------------
(***************************************************************************)
(* How the agent puts its wrappers on drivers the application may not have *)
(* loaded yet (packages/agent/src/instrument/arm.ts, the arm of each       *)
(* driver beside it, and what agent.ts attaches as requests start).        *)
(*                                                                         *)
(* A part is a class of a copy of a driver: one that `require` loads, or   *)
(* one that the agent imports itself.  A part that was resolved from two   *)
(* places is one part.                                                     *)
(***************************************************************************)
EXTENDS Integers, FiniteSets, FiniteSetsExt

CONSTANTS
  Part, Driver, DriverOf,
  Imported,       \* the parts of ES modules, which no module cache holds
  AwaitsImports,  \* drivers whose load is not settled before their imports are
  Watched,        \* parts patched as they are required
  Optional,       \* parts no driver waits for: MariaDB's callback API
  LastLook        \* the last request at which a Prisma client is looked for

ASSUME ArmingAssumption ==
  /\ IsFiniteSet(Part) /\ DriverOf \in [Part -> Driver]
  /\ Imported \subseteq Part /\ Watched \subseteq Part \ Imported /\ Optional \subseteq Part /\ AwaitsImports \subseteq Driver
  /\ LastLook \in Nat

VARIABLES
  announces,  \* Node announces what is required (22.4), or does not
  early,      \* under `check`: the imports start with the agent
  loaded,     \* parts the application has loaded
  done,       \* of each part: waiting, importing, done
  imports,    \* imports under way, one for each time the agent asked
  wraps,      \* wrappers on each part
  armed,      \* drivers asked at each request
  loads,      \* what hears the application load: armed, listening, queued, off
  prisma,     \* the requests at which the module cache is searched
  clientAt,   \* history: the request after which the Prisma client was loaded
  unseen,     \* history: parts loaded since the agent last looked
  byImport,   \* history: parts whose load Node does not announce
  failed      \* history: parts whose patch failed

armingVars == <<announces, early, loaded, done, imports, wraps, armed, loads, prisma,
                clientAt, unseen, byImport, failed>>

Required == Part \ (Imported \cup Watched)
PartsOf(d) == {p \in Part \ Watched : DriverOf[p] = d}

NotLoaded  == -1
Unsearched == [state |-> "off", requests |-> 0, next |-> 1]

ArmingInit ==
  /\ announces \in BOOLEAN /\ early \in BOOLEAN
  /\ loaded = {}
  /\ done = [p \in Part |-> "waiting"] /\ imports = [p \in Part |-> 0]
  /\ wraps = [p \in Part |-> 0]
  /\ armed = {} /\ loads = "off"
  /\ prisma = Unsearched /\ clientAt = NotLoaded
  /\ unseen = {} /\ byImport = {} /\ failed = {}

-----------------------------------------------------------------------------
\* A class carries a mark, and one that carries it is left as it is.
Wraps(p) == IF wraps[p] > 0 THEN wraps[p] ELSE 1

\* The parts of `ds` that the application has loaded and nobody has patched: each is patched once,
\* and a patch that fails is not tried again.
Waiting(ds) == {p \in Required : DriverOf[p] \in ds /\ p \in loaded /\ done[p] = "waiting"}
ToImport(ds) == {p \in Imported : DriverOf[p] \in ds /\ done[p] = "waiting"}

Attach(ds, importing, failing) ==
  /\ failing \subseteq Waiting(ds) /\ failed' = failed \cup failing
  /\ wraps' = [p \in Part |-> IF p \in Waiting(ds) \ failing THEN Wraps(p) ELSE wraps[p]]
  /\ done' = [p \in Part |-> IF p \in Waiting(ds) THEN "done"
                             ELSE IF p \in importing THEN "importing" ELSE done[p]]
  /\ imports' = [p \in Part |-> imports[p] + IF p \in importing THEN 1 ELSE 0]
  /\ unseen' = {}

CompleteWhenSome(d) == \E p \in PartsOf(d) : done'[p] = "done"

\* A driver is asked at each request until all it waits for is there.
Complete(d) == \A p \in PartsOf(d) \ Optional : done'[p] = "done"

\* Nothing the application may still load is waited for.
LoadsSettled(on) ==
  \A d \in on : \A p \in PartsOf(d) :
    p \in Required \ Optional \/ d \in AwaitsImports => done'[p] = "done"

SearchedOnce(n) == n = 1

\* armPrisma: the cache is searched at the requests that are powers of two.
Searched(n) == n >= prisma.next

Search(stops) ==
  LET n == prisma.requests + 1
  IN prisma' = IF stops THEN [prisma EXCEPT !.state = "off"]
               ELSE IF prisma.state # "armed" THEN prisma
               ELSE IF ~Searched(n) THEN [prisma EXCEPT !.requests = n]
               ELSE [state |-> IF clientAt # NotLoaded THEN "patched"
                               ELSE IF n < LastLook THEN "armed" ELSE "gave up",
                     requests |-> n, next |-> 2 * prisma.next]

\* requestStarted: each armed driver attaches, until its parts are done; and from the first
\* request on what the application loads is heard of.  Its failures may stop the agent.
AttachAtRequest(on, failing, stops) ==
  /\ Attach(armed, ToImport(armed), failing)
  /\ armed' = {d \in armed : ~stops /\ ~Complete(d)}
  /\ loads' = IF stops THEN "off" ELSE IF loads = "armed" THEN IF LoadsSettled(on) THEN "off" ELSE "listening" ELSE loads
  /\ Search(stops)
  /\ UNCHANGED <<announces, early, loaded, clientAt, byImport>>

\* The application requires a driver, or imports it.  What Node announces is heard, and the
\* attach waits for the microtask, so that the code that required it has run to its end.
AppLoads(p, required) ==
  /\ p \notin loaded \cup Watched /\ loaded' = loaded \cup {p}
  /\ loads' = IF loads = "listening" /\ announces /\ required THEN "queued" ELSE loads
  /\ unseen' = unseen \cup {p}
  /\ byImport' = IF announces /\ required THEN byImport ELSE byImport \cup {p}
  /\ UNCHANGED <<announces, early, done, imports, wraps, armed, prisma, clientAt, failed>>

\* whenRequired: what is watched is patched in the end of its `require`, if Node announces it.
AppLoadsWatched(p, on, fails, stops) ==
  /\ p \in Watched \ loaded /\ loaded' = loaded \cup {p}
  /\ LET heard == announces /\ DriverOf[p] \in on
     IN /\ fails => heard
        /\ wraps' = IF heard /\ ~fails THEN [wraps EXCEPT ![p] = Wraps(p)] ELSE wraps
        /\ failed' = IF fails THEN failed \cup {p} ELSE failed
        /\ byImport' = IF announces THEN byImport ELSE byImport \cup {p}
  /\ armed' = IF stops THEN {} ELSE armed
  /\ loads' = IF stops THEN "off" ELSE loads
  /\ prisma' = IF stops THEN [prisma EXCEPT !.state = "off"] ELSE prisma
  /\ UNCHANGED <<announces, early, done, imports, clientAt, unseen>>

PrismaLoads ==
  /\ clientAt = NotLoaded /\ clientAt' = prisma.requests
  /\ UNCHANGED <<announces, early, loaded, done, imports, wraps, armed, loads, prisma,
                 unseen, byImport, failed>>

\* whenLoaded, in its microtask.
AttachAtLoad(on, failing, stops) ==
  /\ loads = "queued"
  /\ Attach(on, {}, failing)
  /\ loads' = IF stops \/ LoadsSettled(on) THEN "off" ELSE "listening"
  /\ armed' = IF stops THEN {} ELSE armed
  /\ prisma' = IF stops THEN [prisma EXCEPT !.state = "off"] ELSE prisma
  /\ UNCHANGED <<announces, early, loaded, clientAt, byImport>>

\* An import settles, whether or not the agent that asked for it was stopped since.
ImportSettles(p, fails, stops) ==
  /\ imports[p] > 0 /\ imports' = [imports EXCEPT ![p] = @ - 1]
  /\ done' = IF imports[p] = 1 /\ done[p] = "importing" THEN [done EXCEPT ![p] = "done"] ELSE done
  /\ wraps' = IF fails THEN wraps ELSE [wraps EXCEPT ![p] = Wraps(p)]
  /\ failed' = IF fails THEN failed \cup {p} ELSE failed
  /\ armed' = IF stops THEN {} ELSE armed
  /\ loads' = IF stops THEN "off" ELSE loads
  /\ prisma' = IF stops THEN [prisma EXCEPT !.state = "off"] ELSE prisma
  /\ UNCHANGED <<announces, early, loaded, clientAt, unseen, byImport>>

\* Start: the drivers of `on` are resolved, and none is loaded.
Arm(on) ==
  /\ armed' = on /\ loads' = "armed"
  /\ LET first == {p \in Imported : early /\ DriverOf[p] \in on}
     IN /\ done' = [p \in Part |-> IF p \in first THEN "importing" ELSE "waiting"]
        /\ imports' = [p \in Part |-> imports[p] + IF p \in first THEN 1 ELSE 0]
  /\ prisma' = [Unsearched EXCEPT !.state = "armed"]
  /\ clientAt' = IF clientAt = NotLoaded THEN NotLoaded ELSE 0
  /\ wraps' = [p \in Part |-> IF p \in Watched \cap loaded /\ DriverOf[p] \in on
                             THEN Wraps(p) ELSE wraps[p]]
  /\ unseen' = loaded /\ failed' = {} /\ byImport' = byImport \ Watched
  /\ UNCHANGED <<announces, early, loaded>>

Disarm ==
  /\ armed' = {} /\ loads' = "off" /\ prisma' = [prisma EXCEPT !.state = "off"]
  /\ UNCHANGED <<announces, early, loaded, done, imports, wraps, clientAt, unseen, byImport, failed>>

-----------------------------------------------------------------------------
ArmingTypeOK ==
  /\ {announces, early} \subseteq BOOLEAN /\ loaded \subseteq Part
  /\ done \in [Part -> {"waiting", "importing", "done"}]
  /\ imports \in [Part -> Nat] /\ wraps \in [Part -> 0 .. 1]
  /\ armed \subseteq Driver /\ loads \in {"armed", "listening", "queued", "off"}
  /\ prisma \in [state : {"off", "armed", "patched", "gave up"}, requests : Nat, next : Nat \ {0}]
=============================================================================
