------------------------ MODULE InstrumentationProofs ------------------------
(***************************************************************************)
(* Proofs about what the agent puts on drivers and what it writes of the   *)
(* calls it sees.                                                          *)
(*                                                                         *)
(* What is patched: a driver leaves the list of those that are asked only  *)
(* when all it waits for is done, and what is done is patched or failed;   *)
(* so whatever was loaded before the agent last looked is patched.         *)
(*                                                                         *)
(* What is written: a call is counted when somebody hears its first end,   *)
(* and then nobody hears another.  The work of a context is at most the    *)
(* number of its counted calls, and is that number while nothing fails     *)
(* inside the agent.                                                       *)
(***************************************************************************)
EXTENDS Instrumentation, Lemmas

-----------------------------------------------------------------------------
\* What is patched

FlagsOK ==
  /\ started \in BOOLEAN /\ disabled \in BOOLEAN /\ internalErrors \in Nat
  /\ starts \in Nat /\ everStopped \in BOOLEAN

TypesOK ==
  /\ ArmingTypeOK /\ FlagsOK
  /\ unseen \subseteq Part /\ clientAt \in Nat \cup {NotLoaded}

\* What is done of a driver that is required is there, and patched unless that failed.
DoneOK ==
  /\ \A p \in Part : imports[p] > 0 => p \in Imported
  /\ \A p \in Required : /\ done[p] \in {"waiting", "done"}
                         /\ done[p] = "done" => p \in loaded /\ (wraps[p] = 1 \/ p \in failed)

\* A driver that is not asked any more has all it waits for; what the agent has looked at is done;
\* what is watched is patched; and what it listens for without hearing of it was imported.
ArmedOK ==
  /\ started =>
       /\ \A p \in Part \ (Watched \cup Optional) : DriverOf[p] \in On \ armed => done[p] = "done"
       /\ \A p \in Watched : p \in loaded \ (failed \cup byImport) /\ DriverOf[p] \in On => wraps[p] = 1
  /\ started /\ loads # "armed" =>
       \A p \in Required \ Optional : DriverOf[p] \in On /\ p \in loaded \ unseen => done[p] = "done"
  /\ loads = "listening" /\ announces => unseen \subseteq byImport

\* The next search is within twice the requests there are, and so within twice those there were
\* when the client was loaded.
AtLeastOne(n) == IF n = 0 THEN 1 ELSE n

PrismaOK ==
  /\ prisma.state = "armed" =>
       /\ prisma.requests < prisma.next /\ prisma.next <= 2 * AtLeastOne(prisma.requests)
       /\ clientAt # NotLoaded => prisma.next <= 2 * AtLeastOne(clientAt)
  /\ prisma.state = "gave up" =>
       prisma.requests >= LastLook /\ (clientAt = NotLoaded \/ clientAt >= LastLook)

ArmingIInv == TypesOK /\ DoneOK /\ ArmedOK /\ PrismaOK

-----------------------------------------------------------------------------
\* What is written

Form == {"promise", "callback", "socket", "events", "sync", "channel", "fetch"}

WorkType == [calls : Nat, failures : Nat, operations : Nat, errors : Nat, waits : Nat]
CallType ==
  [by : Nat, part : Part \cup Channel, form : Form, target : Target, context : Nat, opener : Nat,
   wait : BOOLEAN, aside : BOOLEAN, seen : BOOLEAN, watchers : 0 .. 1, sent : BOOLEAN,
   answer : {"none", "ok", "failed", "refused"}, since : Nat, before : Int, counted : Nat]

\* A request's code runs in contexts there are.
ContextsOK ==
  /\ requests \in Seq(SUBSET Nat) /\ \A r \in Requests : requests[r] \subseteq Requests \cup {NoContext}
  /\ entered \subseteq Requests
  /\ requests # <<>> => started \/ everStopped
  /\ calls \in Seq(CallType)
  /\ \A c \in DOMAIN calls :
       /\ calls[c].by \in Requests /\ calls[c].context \in requests[calls[c].by]
       /\ calls[c].opener \in Requests \cup {NoContext}

\* The contexts the code of a request runs in are its own and those its calls left it in; and
\* what it asked in another's came after a call that left it there.
StrayOK ==
  /\ \A r \in Requests : \A x \in requests[r] :
       x = Own(r) \/ \E d \in DOMAIN calls : LeftIn(d, r, x)
  /\ \A c \in DOMAIN calls :
       \/ calls[c].context = Own(calls[c].by)
       \/ \E d \in 1 .. c - 1 : LeftIn(d, calls[c].by, calls[c].context)

\* A call is watched where it is seen, and counted once it is heard; and what could hear its
\* second end has heard its first, or is no longer there.
WatchedOK(call) ==
  /\ call.watchers = 1 => call.seen /\ ~call.aside /\ call.context # NoContext
  /\ call.counted > 0 => call.watchers = 1 /\ (call.answer # "none" \/ call.form = "events")
  /\ call.form = "events" => /\ call.watchers = 1 => call.counted > 0
                             /\ ~call.wait /\ call.answer \in {"none", "ok"}
  /\ call.form = "fetch" => ~call.aside
  /\ call.form \in {"callback", "channel"} /\ call.answer # "none" =>
       \/ call.counted > 0 \/ call.watchers = 0
       \/ call.form = "channel" /\ ~Subscribed(call)
  /\ call.since <= starts

\* While nothing fails inside the agent, what is seen is watched, and heard while it runs.
HeardOK(call) ==
  /\ call.seen /\ ~everStopped => Sees(call.part)
  /\ internalErrors = 0 =>
       /\ call.seen /\ ~call.aside /\ call.context # NoContext => call.watchers = 1
       /\ call.watchers = 1 /\ ~everStopped =>
            /\ call.form = "channel" => call.since = starts
            /\ call.form = "fetch" /\ call.sent => call.since = starts
       /\ call.watchers = 1 /\ call.answer # "none" =>
            \/ call.counted > 0
            \/ call.form \in {"channel", "fetch"} /\ everStopped
            \/ call.form = "fetch" /\ ~call.sent

CallsOK == \A c \in DOMAIN calls : WatchedOK(calls[c]) /\ HeardOK(calls[c])

\* The calls that may have been written to a context, and those that failed.
MayBeWritten(call) == call.counted > 0 /\ ~call.wait /\ call.target \notin Excluded
WrittenTo(cs, r) == {c \in DOMAIN cs : cs[c].context = r /\ MayBeWritten(cs[c])}
FailedIn(cs, r)  == {c \in WrittenTo(cs, r) : cs[c].answer \in {"failed", "refused"}}

WorkOK ==
  /\ work \in Seq(WorkType) /\ Len(work) = Len(requests)
  /\ \A r \in Requests :
       /\ work[r].calls <= Cardinality(WrittenTo(calls, r))
       /\ work[r].failures <= Cardinality(FailedIn(calls, r))
       /\ internalErrors = 0 => /\ work[r].calls = Cardinality(WrittenTo(calls, r))
                                /\ work[r].failures = Cardinality(FailedIn(calls, r))

CountingIInv == ContextsOK /\ StrayOK /\ CallsOK /\ WorkOK


-----------------------------------------------------------------------------
\* The larger of a number and one.
LEMMA MaxIs == ASSUME NEW n \in Nat PROVE Max({n, 1}) = AtLeastOne(n)
<1>1. \A x \in {n, 1} : (\A y \in {n, 1} : x >= y) <=> x = AtLeastOne(n)
  BY DEF AtLeastOne
<1>2. AtLeastOne(n) \in {n, 1}
  <2>1. CASE n = 0
    BY <2>1 DEF AtLeastOne
  <2>2. CASE n # 0
    BY <2>2 DEF AtLeastOne
  <2> QED BY <2>1, <2>2
<1>3. \E x \in {n, 1} : \A y \in {n, 1} : x >= y
  BY <1>1, <1>2
<1>4. Max({n, 1}) = CHOOSE x \in {n, 1} : \A y \in {n, 1} : x >= y
  BY DEF Max
<1>5. Max({n, 1}) \in {n, 1} /\ \A y \in {n, 1} : Max({n, 1}) >= y
  BY <1>3, <1>4
<1> QED BY <1>1, <1>5

\* A mark is one wrapper.
LEMMA WrapsIs == ASSUME TypesOK, NEW p \in Part PROVE Wraps(p) = 1
<1>1. wraps[p] \in 0 .. 1
  BY DEF TypesOK, ArmingTypeOK
<1> QED BY <1>1 DEF Wraps

\* Guards that end stop the agent, or leave it as it was.
LEMMA InternalErrorsIs ==
  ASSUME TypesOK, NEW n \in Nat, InternalErrors(n)
  PROVE  /\ starts' = starts => FlagsOK'
         /\ started' => started /\ ~Disables(n)
         /\ started /\ ~started' => everStopped'
         /\ everStopped => everStopped'
         /\ internalErrors' = 0 => n = 0 /\ internalErrors = 0
<1>1. internalErrors' \in Nat /\ (internalErrors' = 0 => n = 0 /\ internalErrors = 0)
  BY DEF TypesOK, FlagsOK, InternalErrors
<1>2. started \in BOOLEAN /\ disabled \in BOOLEAN /\ everStopped \in BOOLEAN
  BY DEF TypesOK, FlagsOK
<1>3. PICK ends \in BOOLEAN : ends = Disables(n)
  BY DEF Disables
<1>4. /\ disabled' = (disabled \/ ends) /\ started' = (started /\ ~ends)
      /\ everStopped' = (everStopped \/ ends)
  BY <1>3 DEF InternalErrors
<1>5. starts' = starts => FlagsOK'
  BY <1>1, <1>2, <1>4 DEF TypesOK, FlagsOK
<1> QED BY <1>1, <1>2, <1>3, <1>4, <1>5

\* It holds before the agent starts.
LEMMA ArmingStarts == Init => ArmingIInv
<1> SUFFICES ASSUME Init PROVE ArmingIInv
  OBVIOUS
<1>1. TypesOK
  <2>1. ArmingTypeOK
    BY DEF Init, ArmingInit, ArmingTypeOK, Unsearched
  <2>2. /\ started = FALSE /\ disabled = FALSE /\ internalErrors = 0 /\ starts = 0
        /\ everStopped = FALSE /\ unseen = {} /\ clientAt = NotLoaded
    BY DEF Init, ArmingInit
  <2> QED BY <2>1, <2>2 DEF TypesOK, FlagsOK
<1>2. DoneOK
  BY DEF Init, ArmingInit, DoneOK, Required
<1>3. ArmedOK
  BY DEF Init, ArmingInit, ArmedOK
<1>4. PrismaOK
  BY DEF Init, ArmingInit, PrismaOK, Unsearched
<1> QED BY <1>1, <1>2, <1>3, <1>4 DEF ArmingIInv

\* Attaching does all that was loaded and waited for, and undoes nothing.
LEMMA AttachIs ==
  ASSUME TypesOK, DoneOK, loaded' = loaded, NEW ds, NEW importing \in SUBSET Imported, NEW failing,
         \A p \in importing : done[p] = "waiting",
         Attach(ds, importing, failing)
  PROVE  /\ done' \in [Part -> {"waiting", "importing", "done"}] /\ imports' \in [Part -> Nat]
         /\ wraps' \in [Part -> 0 .. 1]
         /\ DoneOK'
         /\ \A p \in Part : done[p] = "done" => done'[p] = "done"
         /\ \A p \in Required : DriverOf[p] \in ds /\ p \in loaded => done'[p] = "done"
         /\ \A p \in Watched : wraps'[p] = wraps[p]
         /\ failed \subseteq failed' /\ unseen' = {}
<1>1. /\ done \in [Part -> {"waiting", "importing", "done"}] /\ imports \in [Part -> Nat]
      /\ wraps \in [Part -> 0 .. 1]
  BY DEF TypesOK, ArmingTypeOK
<1>2. \A p \in Part : Wraps(p) = 1
  BY WrapsIs
<1>3. /\ Required \subseteq Part /\ Waiting(ds) \subseteq Required /\ Watched \subseteq Part
      /\ Imported \subseteq Part /\ \A p \in Required : p \notin Imported /\ p \notin Watched
      /\ \A p \in Waiting(ds) : p \in loaded /\ done[p] = "waiting"
      /\ \A p \in Required : DriverOf[p] \in ds /\ p \in loaded /\ done[p] = "waiting" => p \in Waiting(ds)
  BY ArmingAssumption DEF Required, Waiting
<1>4. /\ failed' = failed \cup failing /\ unseen' = {}
      /\ \A p \in Part : wraps'[p] = IF p \in Waiting(ds) \ failing THEN 1 ELSE wraps[p]
      /\ \A p \in Part : done'[p] = IF p \in Waiting(ds) THEN "done"
                                    ELSE IF p \in importing THEN "importing" ELSE done[p]
      /\ \A p \in Part : imports'[p] = imports[p] + IF p \in importing THEN 1 ELSE 0
  BY <1>2 DEF Attach
<1>5. /\ done' \in [Part -> {"waiting", "importing", "done"}] /\ imports' \in [Part -> Nat]
      /\ wraps' \in [Part -> 0 .. 1]
  <2>1. done' \in [Part -> {"waiting", "importing", "done"}]
    BY <1>1 DEF Attach
  <2>2. imports' \in [Part -> Nat]
    BY <1>1 DEF Attach
  <2>3. wraps' \in [Part -> 0 .. 1]
    BY <1>1, <1>2 DEF Attach
  <2> QED BY <2>1, <2>2, <2>3
<1>6. \A p \in Part : done[p] = "done" => done'[p] = "done"
  BY <1>3, <1>4
<1>7. \A p \in Required : done'[p] = IF p \in Waiting(ds) THEN "done" ELSE done[p]
  BY <1>3, <1>4
<1>8. \A p \in Required : DriverOf[p] \in ds /\ p \in loaded => done'[p] = "done"
  BY <1>3, <1>7 DEF DoneOK
<1>9. DoneOK'
  <2>1. ASSUME NEW p \in Part, imports'[p] > 0 PROVE p \in Imported
    <3>1. imports[p] \in Nat
      BY <1>1
    <3> QED BY <2>1, <3>1, <1>4 DEF DoneOK
  <2>2. ASSUME NEW p \in Required
        PROVE  /\ done'[p] \in {"waiting", "done"}
               /\ done'[p] = "done" => p \in loaded' /\ (wraps'[p] = 1 \/ p \in failed')
    BY <1>3, <1>4, <1>7 DEF DoneOK
  <2>3. Required' = Required
    BY DEF Required
  <2> QED BY <2>1, <2>2, <2>3 DEF DoneOK
<1>10. \A p \in Watched : wraps'[p] = wraps[p]
  BY <1>3, <1>4
<1> QED BY <1>4, <1>5, <1>6, <1>8, <1>9, <1>10

\* What start leaves is waited for, and nothing has been asked yet.
LEMMA ArmKeeps ==
  ASSUME ArmingIInv, Arm(On), FlagsOK', chosen' = chosen
  PROVE  ArmingIInv'
<1>1. TypesOK /\ DoneOK /\ ArmedOK
  BY DEF ArmingIInv
<1>2. On' = On /\ Required' = Required
  BY DEF On, Required
<1>3. PICK first : first = {p \in Imported : early /\ DriverOf[p] \in On}
  OBVIOUS
<1>4. /\ done' = [p \in Part |-> IF p \in first THEN "importing" ELSE "waiting"]
      /\ imports' = [p \in Part |-> imports[p] + IF p \in first THEN 1 ELSE 0]
  BY <1>3 DEF Arm
<1>5. \A p \in Part : Wraps(p) = 1
  BY <1>1, WrapsIs
<1>6. TypesOK'
  <2>1. done' \in [Part -> {"waiting", "importing", "done"}]
    BY <1>4
  <2>2. imports' \in [Part -> Nat]
    <3>1. \A p \in Part : imports[p] \in Nat
      BY <1>1 DEF TypesOK, ArmingTypeOK
    <3> QED BY <1>4, <3>1
  <2>3. wraps' \in [Part -> 0 .. 1]
    <3>1. \A p \in Part : wraps[p] \in 0 .. 1
      BY <1>1 DEF TypesOK, ArmingTypeOK
    <3>2. wraps' = [p \in Part |-> IF p \in Watched \cap loaded /\ DriverOf[p] \in On
                                  THEN Wraps(p) ELSE wraps[p]]
      BY DEF Arm
    <3> QED BY <1>5, <3>1, <3>2
  <2>4. armed' \subseteq Driver /\ loads' = "armed"
    BY DEF Arm, On
  <2>5. prisma' = [state |-> "armed", requests |-> 0, next |-> 1]
    BY DEF Arm, Unsearched
  <2>6. /\ announces' = announces /\ early' = early /\ loaded' = loaded /\ unseen' = loaded
        /\ clientAt' = IF clientAt = NotLoaded THEN NotLoaded ELSE 0
    BY DEF Arm
  <2>7. ArmingTypeOK'
    <3>1. prisma' \in [state : {"off", "armed", "patched", "gave up"}, requests : Nat, next : Nat \ {0}]
      BY <2>5
    <3>2. announces' \in BOOLEAN /\ early' \in BOOLEAN /\ loaded' \subseteq Part
      BY <1>1, <2>6 DEF TypesOK, ArmingTypeOK
    <3> QED BY <2>1, <2>2, <2>3, <2>4, <3>1, <3>2 DEF ArmingTypeOK
  <2>8. unseen' \subseteq Part /\ clientAt' \in Nat \cup {NotLoaded}
    BY <1>1, <2>6 DEF TypesOK, ArmingTypeOK
  <2> QED BY <2>7, <2>8 DEF TypesOK
<1>7. DoneOK'
  <2>1. ASSUME NEW p \in Part, imports'[p] > 0 PROVE p \in Imported
    <3>1. imports[p] \in Nat
      BY <1>1 DEF TypesOK, ArmingTypeOK
    <3> QED BY <1>1, <1>3, <1>4, <2>1, <3>1 DEF DoneOK
  <2>2. ASSUME NEW p \in Required PROVE done'[p] = "waiting"
    BY <1>3, <1>4 DEF Required
  <2> QED BY <1>2, <2>1, <2>2 DEF DoneOK
<1>8. ArmedOK'
  <2>1. /\ armed' = On /\ loads' = "armed" /\ loaded' = loaded
        /\ wraps' = [p \in Part |-> IF p \in Watched \cap loaded /\ DriverOf[p] \in On
                                    THEN Wraps(p) ELSE wraps[p]]
    BY DEF Arm
  <2>2. Watched \subseteq Part
    BY ArmingAssumption
  <2>3. \A p \in Watched : p \in loaded /\ DriverOf[p] \in On => wraps'[p] = 1
    BY <1>5, <2>1, <2>2
  <2> QED BY <1>2, <2>1, <2>3 DEF ArmedOK
<1>9. PrismaOK'
  <2>1. /\ prisma' = [state |-> "armed", requests |-> 0, next |-> 1]
        /\ clientAt' = IF clientAt = NotLoaded THEN NotLoaded ELSE 0
    BY DEF Arm, Unsearched
  <2> QED BY <2>1 DEF PrismaOK, AtLeastOne, NotLoaded
<1> QED BY <1>6, <1>7, <1>8, <1>9 DEF ArmingIInv

\* A stop detaches what start attached, and leaves the wrappers.
LEMMA DisarmKeeps ==
  ASSUME ArmingIInv, Disarm, FlagsOK', ~started', chosen' = chosen
  PROVE  ArmingIInv'
<1>1. /\ armed' = {} /\ loads' = "off" /\ prisma' = [prisma EXCEPT !.state = "off"]
      /\ UNCHANGED <<announces, early, loaded, done, imports, wraps, clientAt, unseen, byImport, failed>>
  BY DEF Disarm
<1>2. On' = On /\ Required' = Required
  BY DEF On, Required
<1>3. TypesOK'
  BY <1>1 DEF ArmingIInv, TypesOK, ArmingTypeOK
<1>4. DoneOK'
  BY <1>1, <1>2 DEF ArmingIInv, DoneOK
<1>5. ArmedOK'
  BY <1>1 DEF ArmedOK
<1>6. prisma'.state = "off"
  BY <1>1 DEF ArmingIInv, TypesOK, ArmingTypeOK
<1>7. PrismaOK'
  BY <1>6 DEF PrismaOK
<1> QED BY <1>3, <1>4, <1>5, <1>7 DEF ArmingIInv

\* What is armed stands where a step leaves it, and does not start the agent.
LEMMA ArmingStands ==
  ASSUME ArmingIInv, UNCHANGED armingVars, FlagsOK', started' => started, chosen' = chosen
  PROVE  ArmingIInv'
<1>1. /\ announces' = announces /\ early' = early /\ loaded' = loaded /\ done' = done
      /\ imports' = imports /\ wraps' = wraps /\ armed' = armed /\ loads' = loads
      /\ prisma' = prisma /\ clientAt' = clientAt /\ unseen' = unseen
      /\ byImport' = byImport /\ failed' = failed
  BY DEF armingVars
<1>2. On' = On /\ Required' = Required
  BY DEF On, Required
<1>3. TypesOK'
  BY <1>1 DEF ArmingIInv, TypesOK, ArmingTypeOK
<1>4. DoneOK'
  BY <1>1, <1>2 DEF ArmingIInv, DoneOK
<1>5. ArmedOK'
  BY <1>1, <1>2 DEF ArmingIInv, ArmedOK
<1>6. PrismaOK'
  BY <1>1 DEF ArmingIInv, PrismaOK
<1> QED BY <1>3, <1>4, <1>5, <1>6 DEF ArmingIInv

\* A step inside a call, which may end the agent.
LEMMA DetachesKeeps ==
  ASSUME ArmingIInv, NEW n \in Nat, InternalErrors(n), Detaches, starts' = starts, chosen' = chosen
  PROVE  ArmingIInv'
<1>1. FlagsOK' /\ (started' => started)
  BY InternalErrorsIs DEF ArmingIInv
<1>2. CASE started /\ ~started'
  BY <1>1, <1>2, DisarmKeeps DEF Detaches
<1>3. CASE ~(started /\ ~started')
  BY <1>1, <1>3, ArmingStands DEF Detaches
<1> QED BY <1>2, <1>3

\* The search for a Prisma client, at a request.
LEMMA SearchKeeps ==
  ASSUME TypesOK, PrismaOK, NEW stops \in BOOLEAN, Search(stops), clientAt' = clientAt
  PROVE  /\ prisma' \in [state : {"off", "armed", "patched", "gave up"}, requests : Nat, next : Nat \ {0}]
         /\ PrismaOK'
<1>1. PICK s, r, m : /\ s \in {"off", "armed", "patched", "gave up"} /\ r \in Nat /\ m \in Nat \ {0}
                     /\ prisma = [state |-> s, requests |-> r, next |-> m]
  BY DEF TypesOK, ArmingTypeOK
<1>2. clientAt \in Nat \cup {-1}
  BY DEF TypesOK, NotLoaded
<1>3. s = "armed" => /\ r < m /\ m <= 2 * AtLeastOne(r)
                     /\ clientAt # -1 => m <= 2 * AtLeastOne(clientAt)
  BY <1>1 DEF PrismaOK, NotLoaded
<1>4. s = "gave up" => r >= LastLook /\ (clientAt = -1 \/ clientAt >= LastLook)
  BY <1>1 DEF PrismaOK, NotLoaded
<1>5. CASE stops
  <2>1. prisma' = [state |-> "off", requests |-> r, next |-> m]
    BY <1>1, <1>5 DEF Search
  <2> QED BY <1>1, <2>1 DEF PrismaOK
<1>6. CASE ~stops /\ s # "armed"
  <2>1. prisma' = [state |-> s, requests |-> r, next |-> m]
    BY <1>1, <1>6 DEF Search
  <2> QED BY <1>1, <1>4, <1>6, <2>1 DEF PrismaOK, NotLoaded
<1>7. CASE ~stops /\ s = "armed" /\ ~(r + 1 >= m)
  <2>1. prisma' = [state |-> s, requests |-> r + 1, next |-> m]
    BY <1>1, <1>7 DEF Search, Searched
  <2>2. m <= 2 * AtLeastOne(r + 1) /\ r + 1 < m
    BY <1>1, <1>3, <1>7 DEF AtLeastOne
  <2> QED BY <1>1, <1>3, <1>7, <2>1, <2>2 DEF PrismaOK, NotLoaded
<1>8. CASE ~stops /\ s = "armed" /\ r + 1 >= m
  <2>1. prisma' = [state |-> IF clientAt # -1 THEN "patched"
                             ELSE IF r + 1 < LastLook THEN "armed" ELSE "gave up",
                   requests |-> r + 1, next |-> 2 * m]
    BY <1>1, <1>8 DEF Search, Searched, NotLoaded
  <2>2. r + 1 < 2 * m /\ 2 * m <= 2 * AtLeastOne(r + 1) /\ 2 * m \in Nat \ {0} /\ r + 1 \in Nat
    BY <1>1, <1>3, <1>8 DEF AtLeastOne
  <2>3. CASE clientAt # -1
    BY <2>1, <2>2, <2>3 DEF PrismaOK
  <2>4. CASE clientAt = -1 /\ r + 1 < LastLook
    BY <2>1, <2>2, <2>4 DEF PrismaOK, NotLoaded
  <2>5. CASE clientAt = -1 /\ ~(r + 1 < LastLook)
    <3>1. r + 1 >= LastLook
      <4>1. LastLook \in Nat
        BY ArmingAssumption
      <4>2. r \in Nat /\ ~(r + 1 < LastLook)
        BY <1>1, <2>5
      <4> QED BY <4>1, <4>2
    <3>2. prisma' = [state |-> "gave up", requests |-> r + 1, next |-> 2 * m]
      BY <2>1, <2>5
    <3>3. PrismaOK'
      <4>1. prisma'.state = "gave up" /\ prisma'.requests = r + 1
        BY <3>2
      <4>2. clientAt' = -1
        BY <2>5
      <4> QED BY <3>1, <4>1, <4>2 DEF PrismaOK, NotLoaded
    <3>4. "gave up" \in {"off", "armed", "patched", "gave up"}
      OBVIOUS
    <3> QED BY <2>2, <3>2, <3>3, <3>4
  <2> QED BY <2>3, <2>4, <2>5
<1> QED BY <1>1, <1>5, <1>6, <1>7, <1>8

\* A request attaches what was loaded before it.
LEMMA AttachAtRequestKeeps ==
  ASSUME ArmingIInv, NEW stops \in BOOLEAN, NEW failing, AttachAtRequest(On, failing, stops),
         FlagsOK', started, started' => ~stops, chosen' = chosen
  PROVE  ArmingIInv'
<1>0. TypesOK /\ DoneOK /\ ArmedOK /\ PrismaOK
  BY DEF ArmingIInv
<1>1. On' = On /\ Required' = Required
  BY DEF On, Required
<1>2. /\ Attach(armed, ToImport(armed), failing) /\ Search(stops)
      /\ armed' = {d \in armed : ~stops /\ ~Complete(d)}
      /\ UNCHANGED <<announces, early, loaded, clientAt, byImport>>
      /\ loads' \in {"armed", "listening", "queued", "off"} /\ loads' # "armed"
  BY <1>0 DEF AttachAtRequest, TypesOK, ArmingTypeOK
<1>3. ToImport(armed) \in SUBSET Imported /\ \A p \in ToImport(armed) : done[p] = "waiting"
  BY DEF ToImport
<1>4. /\ done' \in [Part -> {"waiting", "importing", "done"}] /\ imports' \in [Part -> Nat]
      /\ wraps' \in [Part -> 0 .. 1]
      /\ DoneOK'
      /\ \A p \in Part : done[p] = "done" => done'[p] = "done"
      /\ \A p \in Required : DriverOf[p] \in armed /\ p \in loaded => done'[p] = "done"
      /\ \A p \in Watched : wraps'[p] = wraps[p]
      /\ failed \subseteq failed' /\ unseen' = {}
  BY <1>0, <1>2, <1>3, AttachIs
<1>5. /\ prisma' \in [state : {"off", "armed", "patched", "gave up"}, requests : Nat, next : Nat \ {0}]
      /\ PrismaOK'
  BY <1>0, <1>2, SearchKeeps
<1>6. TypesOK'
  <2>1. announces' \in BOOLEAN /\ early' \in BOOLEAN /\ loaded' \subseteq Part /\ armed' \subseteq Driver
    BY <1>0, <1>2 DEF TypesOK, ArmingTypeOK
  <2>2. ArmingTypeOK'
    BY <1>2, <1>4, <1>5, <2>1 DEF ArmingTypeOK
  <2>3. unseen' \subseteq Part /\ clientAt' \in Nat \cup {NotLoaded}
    BY <1>0, <1>2, <1>4 DEF TypesOK
  <2> QED BY <2>2, <2>3 DEF TypesOK
<1>7. ArmedOK'
  <2>1. ASSUME started', NEW p \in Part \ (Watched \cup Optional), DriverOf[p] \in On \ armed'
        PROVE  done'[p] = "done"
    <3>1. CASE DriverOf[p] \notin armed
      BY <1>0, <1>4, <2>1, <3>1 DEF ArmedOK
    <3>2. CASE DriverOf[p] \in armed
      <4>1. Complete(DriverOf[p])
        BY <1>2, <2>1, <3>2
      <4>2. p \in PartsOf(DriverOf[p]) \ Optional
        BY DEF PartsOf
      <4> QED BY <4>1, <4>2 DEF Complete
    <3> QED BY <3>1, <3>2
  <2>2. ASSUME NEW p \in Watched, p \in loaded \ (failed' \cup byImport), DriverOf[p] \in On
        PROVE  wraps'[p] = 1
    BY <1>0, <1>4, <2>2 DEF ArmedOK
  <2>3. ASSUME started', NEW p \in Required \ Optional, DriverOf[p] \in On, p \in loaded
        PROVE  done'[p] = "done"
    <3>1. CASE DriverOf[p] \notin armed
      BY <1>0, <1>4, <2>3, <3>1 DEF ArmedOK, Required
    <3>2. CASE DriverOf[p] \in armed
      BY <1>4, <2>3, <3>2
    <3> QED BY <3>1, <3>2
  <2>4. loaded' = loaded /\ byImport' = byImport /\ unseen' = {}
    BY <1>2, <1>4
  <2> QED BY <1>1, <2>1, <2>2, <2>3, <2>4 DEF ArmedOK
<1> QED BY <1>4, <1>5, <1>6, <1>7 DEF ArmingIInv

\* An attach in a microtask, after the application loaded.
LEMMA AttachAtLoadKeeps ==
  ASSUME ArmingIInv, NEW stops \in BOOLEAN, NEW failing, AttachAtLoad(On, failing, stops),
         FlagsOK', started' => started /\ ~stops, chosen' = chosen
  PROVE  ArmingIInv'
<1>0. TypesOK /\ DoneOK /\ ArmedOK /\ PrismaOK
  BY DEF ArmingIInv
<1>1. On' = On /\ Required' = Required
  BY DEF On, Required
<1>2. /\ Attach(On, {}, failing) /\ loads = "queued" /\ loads' \in {"listening", "off"}
      /\ armed' = (IF stops THEN {} ELSE armed)
      /\ prisma' = (IF stops THEN [prisma EXCEPT !.state = "off"] ELSE prisma)
      /\ UNCHANGED <<announces, early, loaded, clientAt, byImport>>
  BY DEF AttachAtLoad
<1>3. {} \in SUBSET Imported /\ \A p \in {} : done[p] = "waiting"
  OBVIOUS
<1>4. /\ done' \in [Part -> {"waiting", "importing", "done"}] /\ imports' \in [Part -> Nat]
      /\ wraps' \in [Part -> 0 .. 1]
      /\ DoneOK'
      /\ \A p \in Part : done[p] = "done" => done'[p] = "done"
      /\ \A p \in Required : DriverOf[p] \in On /\ p \in loaded => done'[p] = "done"
      /\ \A p \in Watched : wraps'[p] = wraps[p]
      /\ failed \subseteq failed' /\ unseen' = {}
  BY <1>0, <1>2, <1>3, AttachIs
<1>5. TypesOK'
  <2>1. /\ announces' \in BOOLEAN /\ early' \in BOOLEAN /\ loaded' \subseteq Part
        /\ armed' \subseteq Driver
    BY <1>0, <1>2 DEF TypesOK, ArmingTypeOK
  <2>2. prisma' \in [state : {"off", "armed", "patched", "gave up"}, requests : Nat, next : Nat \ {0}]
    BY <1>0, <1>2 DEF TypesOK, ArmingTypeOK
  <2>3. ArmingTypeOK'
    BY <1>2, <1>4, <2>1, <2>2 DEF ArmingTypeOK
  <2>4. unseen' \subseteq Part /\ clientAt' \in Nat \cup {NotLoaded}
    BY <1>0, <1>2, <1>4 DEF TypesOK
  <2> QED BY <2>3, <2>4 DEF TypesOK
<1>6. ArmedOK'
  <2>1. ASSUME started', NEW p \in Part \ (Watched \cup Optional), DriverOf[p] \in On \ armed'
        PROVE  done'[p] = "done"
    BY <1>0, <1>2, <1>4, <2>1 DEF ArmedOK
  <2>2. ASSUME started', NEW p \in Watched, p \in loaded \ (failed' \cup byImport), DriverOf[p] \in On
        PROVE  wraps'[p] = 1
    BY <1>0, <1>4, <2>2 DEF ArmedOK
  <2>3. loaded' = loaded /\ byImport' = byImport /\ unseen' = {}
    BY <1>2, <1>4
  <2>4. ASSUME started', NEW p \in Required \ Optional, DriverOf[p] \in On, p \in loaded
        PROVE  done'[p] = "done"
    BY <1>4, <2>4
  <2> QED BY <1>1, <2>1, <2>2, <2>3, <2>4 DEF ArmedOK
<1>7. PrismaOK'
  <2>1. CASE stops
    <3>1. prisma'.state = "off"
      BY <1>0, <1>2, <2>1 DEF TypesOK, ArmingTypeOK
    <3> QED BY <3>1 DEF PrismaOK
  <2>2. CASE ~stops
    BY <1>0, <1>2, <2>2 DEF PrismaOK
  <2> QED BY <2>1, <2>2
<1> QED BY <1>4, <1>5, <1>6, <1>7 DEF ArmingIInv

\* The application loads a driver, and what the agent has looked at stays as it was.
LEMMA AppLoadsKeeps ==
  ASSUME ArmingIInv, NEW p \in Part, NEW required \in BOOLEAN, AppLoads(p, required),
         UNCHANGED <<chosen, started, disabled, starts, internalErrors, everStopped>>
  PROVE  ArmingIInv'
<1>0. TypesOK /\ DoneOK /\ ArmedOK /\ PrismaOK
  BY DEF ArmingIInv
<1>1. On' = On /\ Required' = Required /\ FlagsOK'
  BY <1>0 DEF On, Required, TypesOK, FlagsOK
<1>2. /\ p \notin Watched /\ loaded' = loaded \cup {p} /\ unseen' = unseen \cup {p}
      /\ loads' = (IF loads = "listening" /\ announces /\ required THEN "queued" ELSE loads)
      /\ byImport' = (IF announces /\ required THEN byImport ELSE byImport \cup {p})
      /\ announces' = announces /\ early' = early /\ done' = done /\ imports' = imports
      /\ wraps' = wraps /\ armed' = armed /\ prisma' = prisma /\ clientAt' = clientAt
      /\ failed' = failed
  BY DEF AppLoads
<1>3. TypesOK'
  <2>1. /\ loaded' \subseteq Part /\ unseen' \subseteq Part
        /\ loads' \in {"armed", "listening", "queued", "off"}
    BY <1>0, <1>2 DEF TypesOK, ArmingTypeOK
  <2> QED BY <1>0, <1>1, <1>2, <2>1 DEF TypesOK, ArmingTypeOK
<1>4. DoneOK'
  BY <1>0, <1>1, <1>2 DEF DoneOK
<1>5. ArmedOK'
  <2>1. started' = started
    OBVIOUS
  <2>2. ASSUME started, NEW q \in Watched, q \in loaded' \ (failed \cup byImport'), DriverOf[q] \in On
        PROVE  wraps[q] = 1
    BY <1>0, <1>2, <2>2 DEF ArmedOK
  <2>3. ASSUME started, loads' # "armed", NEW q \in Required \ Optional, DriverOf[q] \in On,
               q \in loaded' \ unseen'
        PROVE  done[q] = "done"
    <3>1. loads # "armed" /\ q \in loaded \ unseen
      BY <1>2, <2>3
    <3> QED BY <1>0, <2>3, <3>1 DEF ArmedOK
  <2>4. ASSUME loads' = "listening", announces PROVE unseen' \subseteq byImport'
    <3>1. loads = "listening" /\ ~required
      BY <1>2, <2>4
    <3> QED BY <1>0, <1>2, <2>4, <3>1 DEF ArmedOK
  <2>5. ASSUME started, NEW q \in Part \ (Watched \cup Optional), DriverOf[q] \in On \ armed
        PROVE  done[q] = "done"
    BY <1>0, <2>5 DEF ArmedOK
  <2> QED BY <1>1, <1>2, <2>1, <2>2, <2>3, <2>4, <2>5 DEF ArmedOK
<1>6. PrismaOK'
  BY <1>0, <1>2 DEF PrismaOK
<1> QED BY <1>3, <1>4, <1>5, <1>6 DEF ArmingIInv

\* The application loads a Prisma client.
LEMMA PrismaLoadsKeeps ==
  ASSUME ArmingIInv, PrismaLoads,
         UNCHANGED <<chosen, started, disabled, starts, internalErrors, everStopped>>
  PROVE  ArmingIInv'
<1>0. TypesOK /\ DoneOK /\ ArmedOK /\ PrismaOK
  BY DEF ArmingIInv
<1>1. On' = On /\ Required' = Required /\ FlagsOK'
  BY <1>0 DEF On, Required, TypesOK, FlagsOK
<1>2. /\ clientAt' = prisma.requests
      /\ announces' = announces /\ early' = early /\ loaded' = loaded /\ done' = done
      /\ imports' = imports /\ wraps' = wraps /\ armed' = armed /\ loads' = loads
      /\ prisma' = prisma /\ unseen' = unseen /\ byImport' = byImport /\ failed' = failed
  BY DEF PrismaLoads
<1>3. TypesOK'
  <2>1. clientAt' \in Nat
    BY <1>0, <1>2 DEF TypesOK, ArmingTypeOK
  <2> QED BY <1>0, <1>1, <1>2, <2>1 DEF TypesOK, ArmingTypeOK
<1>4. DoneOK'
  BY <1>0, <1>1, <1>2 DEF DoneOK
<1>5. ArmedOK'
  BY <1>0, <1>1, <1>2 DEF ArmedOK
<1>6. PrismaOK'
  BY <1>0, <1>2 DEF PrismaOK
<1> QED BY <1>3, <1>4, <1>5, <1>6 DEF ArmingIInv

\* What is watched is patched as it is required.
LEMMA AppLoadsWatchedKeeps ==
  ASSUME ArmingIInv, NEW p \in Watched, NEW fails \in BOOLEAN, NEW stops \in BOOLEAN,
         AppLoadsWatched(p, IF started THEN On ELSE {}, fails, stops),
         FlagsOK', started' => started /\ ~stops, chosen' = chosen
  PROVE  ArmingIInv'
<1>0. TypesOK /\ DoneOK /\ ArmedOK /\ PrismaOK
  BY DEF ArmingIInv
<1>1. On' = On /\ Required' = Required
  BY DEF On, Required
<1>2. PICK heard \in BOOLEAN : heard = (announces /\ started /\ DriverOf[p] \in On)
  OBVIOUS
<1>3. /\ loaded' = loaded \cup {p} /\ (fails => heard)
      /\ wraps' = (IF heard /\ ~fails THEN [wraps EXCEPT ![p] = Wraps(p)] ELSE wraps)
      /\ failed' = (IF fails THEN failed \cup {p} ELSE failed)
      /\ byImport' = (IF announces THEN byImport ELSE byImport \cup {p})
      /\ armed' = (IF stops THEN {} ELSE armed)
      /\ loads' = (IF stops THEN "off" ELSE loads)
      /\ prisma' = (IF stops THEN [prisma EXCEPT !.state = "off"] ELSE prisma)
      /\ UNCHANGED <<announces, early, done, imports, clientAt, unseen>>
  BY <1>2 DEF AppLoadsWatched
<1>4. Watched \subseteq Part /\ \A q \in Required : q # p
  BY ArmingAssumption DEF Required
<1>5. Wraps(p) = 1
  BY <1>0, <1>4, WrapsIs
<1>6. /\ wraps' \in [Part -> 0 .. 1] /\ (heard /\ ~fails => wraps'[p] = 1)
      /\ \A q \in Part : q # p => wraps'[q] = wraps[q]
      /\ wraps[p] = 1 => wraps'[p] = 1
  <2>1. wraps \in [Part -> 0 .. 1] /\ p \in Part
    BY <1>0, <1>4 DEF TypesOK, ArmingTypeOK
  <2> QED BY <1>3, <1>5, <2>1
<1>7. TypesOK'
  <2>1. /\ announces' \in BOOLEAN /\ early' \in BOOLEAN /\ loaded' \subseteq Part
        /\ armed' \subseteq Driver /\ loads' \in {"armed", "listening", "queued", "off"}
        /\ done' \in [Part -> {"waiting", "importing", "done"}] /\ imports' \in [Part -> Nat]
    BY <1>0, <1>3, <1>4 DEF TypesOK, ArmingTypeOK
  <2>2. prisma' \in [state : {"off", "armed", "patched", "gave up"}, requests : Nat, next : Nat \ {0}]
    BY <1>0, <1>3 DEF TypesOK, ArmingTypeOK
  <2>3. ArmingTypeOK'
    BY <1>6, <2>1, <2>2 DEF ArmingTypeOK
  <2>4. unseen' \subseteq Part /\ clientAt' \in Nat \cup {NotLoaded}
    BY <1>0, <1>3 DEF TypesOK
  <2> QED BY <2>3, <2>4 DEF TypesOK
<1>8. DoneOK'
  <2>1. ASSUME NEW q \in Required
        PROVE  /\ done[q] \in {"waiting", "done"}
               /\ done[q] = "done" => q \in loaded' /\ (wraps'[q] = 1 \/ q \in failed')
    <3>1. q \in Part /\ q # p
      BY <1>4 DEF Required
    <3> QED BY <1>0, <1>3, <1>6, <3>1 DEF DoneOK
  <2> QED BY <1>0, <1>1, <1>3, <2>1 DEF DoneOK
<1>9. ArmedOK'
  <2>1. ASSUME started', NEW q \in Watched, q \in loaded' \ (failed' \cup byImport'), DriverOf[q] \in On
        PROVE  wraps'[q] = 1
    <3>1. CASE q # p
      BY <1>0, <1>3, <1>4, <1>6, <2>1, <3>1 DEF ArmedOK
    <3>2. CASE q = p /\ announces
      BY <1>2, <1>3, <1>6, <2>1, <3>2
    <3>3. CASE q = p /\ ~announces
      BY <1>3, <2>1, <3>3
    <3> QED BY <3>1, <3>2, <3>3
  <2>2. ASSUME started', loads' # "armed", NEW q \in Required \ Optional, DriverOf[q] \in On,
               q \in loaded' \ unseen
        PROVE  done[q] = "done"
    BY <1>0, <1>3, <1>4, <2>2 DEF ArmedOK
  <2>3. ASSUME loads' = "listening", announces PROVE unseen \subseteq byImport'
    BY <1>0, <1>3, <2>3 DEF ArmedOK
  <2>4. ASSUME started', NEW q \in Part \ (Watched \cup Optional), DriverOf[q] \in On \ armed'
        PROVE  done[q] = "done"
    BY <1>0, <1>3, <2>4 DEF ArmedOK
  <2> QED BY <1>1, <1>3, <2>1, <2>2, <2>3, <2>4 DEF ArmedOK
<1>10. PrismaOK'
  <2>1. CASE stops
    <3>1. prisma'.state = "off"
      BY <1>0, <1>3, <2>1 DEF TypesOK, ArmingTypeOK
    <3> QED BY <3>1 DEF PrismaOK
  <2>2. CASE ~stops
    BY <1>0, <1>3, <2>2 DEF PrismaOK
  <2> QED BY <2>1, <2>2
<1> QED BY <1>7, <1>8, <1>9, <1>10 DEF ArmingIInv

\* An import settles: of those that are imported alone.
LEMMA ImportSettlesKeeps ==
  ASSUME ArmingIInv, NEW p \in Imported, NEW fails \in BOOLEAN, NEW stops \in BOOLEAN,
         ImportSettles(p, fails, stops),
         FlagsOK', started' => started /\ ~stops, chosen' = chosen
  PROVE  ArmingIInv'
<1>0. TypesOK /\ DoneOK /\ ArmedOK /\ PrismaOK
  BY DEF ArmingIInv
<1>1. On' = On /\ Required' = Required
  BY DEF On, Required
<1>2. /\ imports[p] > 0 /\ imports' = [imports EXCEPT ![p] = @ - 1]
      /\ done' = (IF imports[p] = 1 /\ done[p] = "importing" THEN [done EXCEPT ![p] = "done"] ELSE done)
      /\ wraps' = (IF fails THEN wraps ELSE [wraps EXCEPT ![p] = Wraps(p)])
      /\ failed' = (IF fails THEN failed \cup {p} ELSE failed)
      /\ armed' = (IF stops THEN {} ELSE armed)
      /\ loads' = (IF stops THEN "off" ELSE loads)
      /\ prisma' = (IF stops THEN [prisma EXCEPT !.state = "off"] ELSE prisma)
      /\ UNCHANGED <<announces, early, loaded, clientAt, unseen, byImport>>
  BY DEF ImportSettles
<1>3. Imported \subseteq Part /\ (\A q \in Required : q # p) /\ (\A q \in Watched : q # p)
  BY ArmingAssumption DEF Required
<1>4. Wraps(p) = 1 /\ p \in Part
  BY <1>0, <1>3, WrapsIs
<1>5. /\ wraps' \in [Part -> 0 .. 1] /\ \A q \in Part : wraps[q] = 1 => wraps'[q] = 1
  <2>1. wraps \in [Part -> 0 .. 1]
    BY <1>0 DEF TypesOK, ArmingTypeOK
  <2> QED BY <1>2, <1>4, <2>1
<1>6. imports' \in [Part -> Nat] /\ \A q \in Part : imports'[q] > 0 => imports[q] > 0
  <2>1. imports \in [Part -> Nat]
    BY <1>0 DEF TypesOK, ArmingTypeOK
  <2> QED BY <1>2, <1>4, <2>1
<1>7. /\ done' \in [Part -> {"waiting", "importing", "done"}]
      /\ \A q \in Part : q # p => done'[q] = done[q]
      /\ \A q \in Part : done[q] = "done" => done'[q] = "done"
  <2>1. done \in [Part -> {"waiting", "importing", "done"}]
    BY <1>0 DEF TypesOK, ArmingTypeOK
  <2> QED BY <1>2, <1>4, <2>1
<1>8. TypesOK'
  <2>1. /\ announces' \in BOOLEAN /\ early' \in BOOLEAN /\ loaded' \subseteq Part
        /\ armed' \subseteq Driver /\ loads' \in {"armed", "listening", "queued", "off"}
    BY <1>0, <1>2 DEF TypesOK, ArmingTypeOK
  <2>2. prisma' \in [state : {"off", "armed", "patched", "gave up"}, requests : Nat, next : Nat \ {0}]
    BY <1>0, <1>2 DEF TypesOK, ArmingTypeOK
  <2>3. ArmingTypeOK'
    BY <1>5, <1>6, <1>7, <2>1, <2>2 DEF ArmingTypeOK
  <2>4. unseen' \subseteq Part /\ clientAt' \in Nat \cup {NotLoaded}
    BY <1>0, <1>2 DEF TypesOK
  <2> QED BY <2>3, <2>4 DEF TypesOK
<1>9. DoneOK'
  <2>1. ASSUME NEW q \in Required
        PROVE  /\ done'[q] \in {"waiting", "done"}
               /\ done'[q] = "done" => q \in loaded /\ (wraps'[q] = 1 \/ q \in failed')
    <3>1. q \in Part /\ q # p
      BY <1>3 DEF Required
    <3> QED BY <1>0, <1>2, <1>5, <1>7, <3>1 DEF DoneOK
  <2> QED BY <1>0, <1>1, <1>2, <1>6, <2>1 DEF DoneOK
<1>10. ArmedOK'
  <2>1. ASSUME started', NEW q \in Watched, q \in loaded \ (failed' \cup byImport), DriverOf[q] \in On
        PROVE  wraps'[q] = 1
    <3>1. q \in Part
      BY ArmingAssumption
    <3> QED BY <1>0, <1>2, <1>5, <2>1, <3>1 DEF ArmedOK
  <2>2. ASSUME started', loads' # "armed", NEW q \in Required \ Optional, DriverOf[q] \in On,
               q \in loaded \ unseen
        PROVE  done'[q] = "done"
    <3>1. q \in Part
      BY DEF Required
    <3> QED BY <1>0, <1>2, <1>7, <2>2, <3>1 DEF ArmedOK
  <2>3. ASSUME loads' = "listening", announces PROVE unseen \subseteq byImport
    BY <1>0, <1>2, <2>3 DEF ArmedOK
  <2>4. ASSUME started', NEW q \in Part \ (Watched \cup Optional), DriverOf[q] \in On \ armed'
        PROVE  done'[q] = "done"
    BY <1>0, <1>2, <1>7, <2>4 DEF ArmedOK
  <2> QED BY <1>1, <1>2, <2>1, <2>2, <2>3, <2>4 DEF ArmedOK
<1>11. PrismaOK'
  <2>1. CASE stops
    <3>1. prisma'.state = "off"
      BY <1>0, <1>2, <2>1 DEF TypesOK, ArmingTypeOK
    <3> QED BY <3>1 DEF PrismaOK
  <2>2. CASE ~stops
    BY <1>0, <1>2, <2>2 DEF PrismaOK
  <2> QED BY <2>1, <2>2
<1> QED BY <1>8, <1>9, <1>10, <1>11 DEF ArmingIInv

-----------------------------------------------------------------------------
\* A request starts.
LEMMA RequestKeeps ==
  ASSUME ArmingIInv, NEW failing, RequestStarts(failing)
  PROVE  ArmingIInv'
<1>1. failing \subseteq Part /\ IsFiniteSet(failing)
  <2>1. failing \subseteq Waiting(armed) /\ Waiting(armed) \subseteq Part
    BY DEF RequestStarts, AttachAtRequest, Attach, Waiting, Required
  <2>2. IsFiniteSet(Part)
    BY ArmingAssumption
  <2> QED BY <2>1, <2>2, FS_Subset
<1>2. PICK n \in Nat : n = Cardinality(failing)
  BY <1>1, FS_CardinalityType
<1>3. PICK stops \in BOOLEAN : stops = Disables(n)
  BY DEF Disables
<1>4. /\ AttachAtRequest(On, failing, stops) /\ InternalErrors(n) /\ started
      /\ starts' = starts /\ chosen' = chosen
  BY <1>2, <1>3 DEF RequestStarts
<1>5. FlagsOK' /\ (started' => ~stops)
  BY <1>3, <1>4, InternalErrorsIs DEF ArmingIInv
<1> QED BY <1>4, <1>5, AttachAtRequestKeeps

\* The application loads what the agent watches.
LEMMA WatchedKeeps == ASSUME ArmingIInv, WatchedLoads PROVE ArmingIInv'
<1>1. PICK p \in Watched, fails \in BOOLEAN :
        /\ AppLoadsWatched(p, IF started THEN On ELSE {}, fails, fails /\ Disables(1))
        /\ InternalErrors(IF fails THEN 1 ELSE 0)
  BY DEF WatchedLoads
<1>2. PICK stops \in BOOLEAN : stops = (fails /\ Disables(1))
  BY DEF Disables
<1>3. AppLoadsWatched(p, IF started THEN On ELSE {}, fails, stops)
  BY <1>1, <1>2
<1>4. starts' = starts /\ chosen' = chosen
  BY DEF WatchedLoads
<1>5. FlagsOK' /\ (started' => started /\ ~stops)
  <2>1. CASE fails
    <3>1. InternalErrors(1)
      BY <1>1, <2>1
    <3> QED BY <1>2, <1>4, <3>1, InternalErrorsIs DEF ArmingIInv
  <2>2. CASE ~fails
    <3>1. InternalErrors(0)
      BY <1>1, <2>2
    <3> QED BY <1>2, <1>4, <2>2, <3>1, InternalErrorsIs DEF ArmingIInv
  <2> QED BY <2>1, <2>2
<1> QED BY <1>3, <1>4, <1>5, AppLoadsWatchedKeeps

\* An attach ends, after the application loaded or when an import settled.
LEMMA AttachLaterKeeps == ASSUME ArmingIInv, AttachLater PROVE ArmingIInv'
<1>0. starts' = starts /\ chosen' = chosen
  BY DEF AttachLater
<1>1. ASSUME NEW failing \in SUBSET Waiting(On),
             AttachAtLoad(On, failing, Disables(Cardinality(failing))),
             InternalErrors(Cardinality(failing))
      PROVE  ArmingIInv'
  <2>1. IsFiniteSet(failing)
    <3>1. failing \subseteq Part
      BY DEF Waiting, Required
    <3>2. IsFiniteSet(Part)
      BY ArmingAssumption
    <3> QED BY <3>1, <3>2, FS_Subset
  <2>2. PICK n \in Nat : n = Cardinality(failing)
    BY <2>1, FS_CardinalityType
  <2>3. PICK stops \in BOOLEAN : stops = Disables(n)
    BY DEF Disables
  <2>4. AttachAtLoad(On, failing, stops) /\ InternalErrors(n)
    BY <1>1, <2>2, <2>3
  <2>5. FlagsOK' /\ (started' => started /\ ~stops)
    BY <1>0, <2>3, <2>4, InternalErrorsIs DEF ArmingIInv
  <2> QED BY <1>0, <2>4, <2>5, AttachAtLoadKeeps
<1>2. ASSUME NEW p \in Imported, NEW fails \in BOOLEAN,
             ImportSettles(p, fails, fails /\ Disables(1)),
             InternalErrors(IF fails THEN 1 ELSE 0)
      PROVE  ArmingIInv'
  <2>1. PICK stops \in BOOLEAN : stops = (fails /\ Disables(1))
    BY DEF Disables
  <2>2. ImportSettles(p, fails, stops)
    BY <1>2, <2>1
  <2>3. FlagsOK' /\ (started' => started /\ ~stops)
    <3>1. CASE fails
      <4>1. InternalErrors(1)
        BY <1>2, <3>1
      <4> QED BY <1>0, <2>1, <4>1, InternalErrorsIs DEF ArmingIInv
    <3>2. CASE ~fails
      <4>1. InternalErrors(0)
        BY <1>2, <3>2
      <4> QED BY <1>0, <2>1, <3>2, <4>1, InternalErrorsIs DEF ArmingIInv
    <3> QED BY <3>1, <3>2
  <2> QED BY <1>0, <2>2, <2>3, ImportSettlesKeeps
<1> QED BY <1>1, <1>2 DEF AttachLater

\* The steps of a call.
CallSteps ==
  \/ \E r \in Requests, part \in loaded \cup Channel :
       \E form \in Behaviour[part].forms \cup Behaviour[part].waits, target \in Target,
          opener \in Requests \cup {NoContext}, wait, aside \in BOOLEAN :
         Ask(r, part, form, target, opener, wait, aside)
  \/ \E c \in DOMAIN calls :
       \/ Sent(c)
       \/ \E outcome \in {"ok", "failed", "refused"} : Answer(c, outcome)
       \/ AnswerAgain(c)

\* The guard that ends in one may end the agent.
LEMMA CallErrs ==
  ASSUME CallSteps
  PROVE  /\ \E n \in Nat : InternalErrors(n)
         /\ Detaches /\ starts' = starts /\ chosen' = chosen
<1>1. ASSUME NEW breaks \in BOOLEAN, InternalErrors(IF breaks THEN 1 ELSE 0)
      PROVE  \E n \in Nat : InternalErrors(n)
  <2>1. (IF breaks THEN 1 ELSE 0) \in Nat
    OBVIOUS
  <2> QED BY <1>1, <2>1
<1>2. ASSUME NEW r, NEW part, NEW form, NEW target, NEW opener, NEW wait, NEW aside,
             Ask(r, part, form, target, opener, wait, aside)
      PROVE  /\ \E n \in Nat : InternalErrors(n)
             /\ Detaches /\ starts' = starts /\ chosen' = chosen
  <2>1. \E breaks \in BOOLEAN : InternalErrors(IF breaks THEN 1 ELSE 0)
    BY <1>2 DEF Ask
  <2> QED BY <1>1, <1>2, <2>1 DEF Ask
<1>3. ASSUME NEW c, Sent(c)
      PROVE  /\ \E n \in Nat : InternalErrors(n)
             /\ Detaches /\ starts' = starts /\ chosen' = chosen
  <2>1. \E breaks \in BOOLEAN : InternalErrors(IF breaks THEN 1 ELSE 0)
    BY <1>3 DEF Sent
  <2> QED BY <1>1, <1>3, <2>1 DEF Sent
<1>4. ASSUME NEW c, NEW outcome, Answered(c, outcome) PROVE \E n \in Nat : InternalErrors(n)
  <2>1. \E breaks \in BOOLEAN : InternalErrors(IF breaks THEN 1 ELSE 0)
    BY <1>4 DEF Answered
  <2> QED BY <1>1, <2>1
<1>5. ASSUME NEW c, NEW outcome, Answer(c, outcome)
      PROVE  /\ \E n \in Nat : InternalErrors(n)
             /\ Detaches /\ starts' = starts /\ chosen' = chosen
  BY <1>4, <1>5 DEF Answer
<1>6. ASSUME NEW c, AnswerAgain(c)
      PROVE  /\ \E n \in Nat : InternalErrors(n)
             /\ Detaches /\ starts' = starts /\ chosen' = chosen
  BY <1>4, <1>6 DEF AnswerAgain
<1> QED BY <1>2, <1>3, <1>5, <1>6 DEF CallSteps

\* Every step keeps it.
LEMMA ArmingStep == ASSUME ArmingIInv, [Next]_vars PROVE ArmingIInv'
<1>1. CASE Start
  <2>1. FlagsOK'
    BY <1>1 DEF Start, ArmingIInv, TypesOK, FlagsOK
  <2> QED BY <1>1, <2>1, ArmKeeps DEF Start
<1>2. CASE Stop
  <2>1. FlagsOK'
    BY <1>2 DEF Stop, ArmingIInv, TypesOK, FlagsOK
  <2> QED BY <1>2, <2>1, DisarmKeeps DEF Stop
<1>3. CASE \E failing \in SUBSET Waiting(armed) : RequestStarts(failing)
  BY <1>3, RequestKeeps
<1>4. CASE Environment
  BY <1>4, AppLoadsKeeps, PrismaLoadsKeeps DEF Environment
<1>5. CASE WatchedLoads
  BY <1>5, WatchedKeeps
<1>6. CASE AttachLater
  BY <1>6, AttachLaterKeeps
<1>7. CASE CallSteps
  <2>1. PICK n \in Nat : InternalErrors(n)
    BY <1>7, CallErrs
  <2> QED BY <1>7, <2>1, CallErrs, DetachesKeeps
<1>8. CASE UNCHANGED vars
  <2>1. UNCHANGED armingVars /\ UNCHANGED <<chosen, started, disabled, starts, internalErrors, everStopped>>
    BY <1>8 DEF vars
  <2>2. FlagsOK'
    BY <2>1 DEF ArmingIInv, TypesOK, FlagsOK
  <2> QED BY <2>1, <2>2, ArmingStands
<1> QED BY <1>1, <1>2, <1>3, <1>4, <1>5, <1>6, <1>7, <1>8 DEF Next, CallSteps

\* So it always holds.
LEMMA ArmingHolds == Spec => []ArmingIInv
<1>1. Init => ArmingIInv
  BY ArmingStarts
<1>2. ArmingIInv /\ [Next]_vars => ArmingIInv'
  BY ArmingStep
<1> QED BY <1>1, <1>2, PTL DEF Spec

-----------------------------------------------------------------------------
\* What every step leaves of what a call rests on.

Frame ==
  /\ FlagsOK /\ FlagsOK' /\ chosen' = chosen
  /\ \A p \in Part : wraps[p] = 1 => wraps'[p] = 1
  /\ internalErrors' = 0 => internalErrors = 0
  /\ everStopped => everStopped'
  /\ started => started' \/ everStopped'
  /\ \/ starts' = starts /\ (started' => started)
     \/ starts' = starts + 1 /\ ~started /\ started' /\ everStopped' = everStopped

\* No step takes a wrapper off.
LEMMA WrapsStay ==
  ASSUME TypesOK, [Next]_vars
  PROVE  \A p \in Part : wraps[p] = 1 => wraps'[p] = 1
<1>1. /\ \A p \in Part : Wraps(p) = 1
      /\ wraps \in [Part -> 0 .. 1]
      /\ Watched \subseteq Part /\ Imported \subseteq Part
  BY WrapsIs, ArmingAssumption DEF TypesOK, ArmingTypeOK
<1>2. CASE wraps' = wraps
  BY <1>2
<1>3. ASSUME NEW q \in Part, wraps' = [wraps EXCEPT ![q] = Wraps(q)]
      PROVE  \A p \in Part : wraps[p] = 1 => wraps'[p] = 1
  BY <1>1, <1>3
<1>4. ASSUME NEW ds, NEW importing, NEW failing, Attach(ds, importing, failing)
      PROVE  \A p \in Part : wraps[p] = 1 => wraps'[p] = 1
  BY <1>1, <1>4 DEF Attach
<1>5. CASE Start
  BY <1>1, <1>5 DEF Start, Arm
<1>6. CASE Stop
  BY <1>6, <1>2 DEF Stop, Disarm
<1>7. CASE \E failing \in SUBSET Waiting(armed) : RequestStarts(failing)
  BY <1>4, <1>7 DEF RequestStarts, AttachAtRequest
<1>8. CASE Environment
  BY <1>2, <1>8 DEF Environment, AppLoads, PrismaLoads
<1>9. CASE WatchedLoads
  <2>1. PICK p \in Watched : wraps' = wraps \/ wraps' = [wraps EXCEPT ![p] = Wraps(p)]
    BY <1>9 DEF WatchedLoads, AppLoadsWatched
  <2> QED BY <1>1, <1>2, <1>3, <2>1
<1>10. CASE AttachLater
  <2>1. \/ \E ds, importing, failing : Attach(ds, importing, failing)
        \/ \E p \in Imported : wraps' = wraps \/ wraps' = [wraps EXCEPT ![p] = Wraps(p)]
    BY <1>10 DEF AttachLater, AttachAtLoad, ImportSettles
  <2> QED BY <1>1, <1>2, <1>3, <1>4, <2>1
<1>11. CASE CallSteps
  <2>1. Detaches
    BY <1>11, CallErrs
  <2> QED BY <1>2, <2>1 DEF Detaches, Disarm, armingVars
<1>12. CASE UNCHANGED vars
  BY <1>2, <1>12 DEF vars, armingVars
<1> QED BY <1>5, <1>6, <1>7, <1>8, <1>9, <1>10, <1>11, <1>12 DEF Next, CallSteps

\* Nor does one start the agent, but a start.
LEMMA FrameOfStep ==
  ASSUME ArmingIInv, [Next]_vars
  PROVE  Frame
<1>1. TypesOK /\ FlagsOK /\ FlagsOK'
  BY ArmingStep DEF ArmingIInv, TypesOK
<1>2. \A p \in Part : wraps[p] = 1 => wraps'[p] = 1
  BY <1>1, WrapsStay
<1>3. ASSUME NEW n \in Nat, InternalErrors(n), starts' = starts, chosen' = chosen PROVE Frame
  BY <1>1, <1>2, <1>3, InternalErrorsIs DEF Frame
<1>4. ASSUME NEW b \in BOOLEAN, InternalErrors(IF b THEN 1 ELSE 0), starts' = starts, chosen' = chosen
      PROVE  Frame
  <2>1. (IF b THEN 1 ELSE 0) \in Nat
    OBVIOUS
  <2> QED BY <1>3, <1>4, <2>1
<1>5. ASSUME NEW S, S \subseteq Part, InternalErrors(Cardinality(S)), starts' = starts, chosen' = chosen
      PROVE  Frame
  <2>1. IsFiniteSet(S)
    BY <1>5, FS_Subset, ArmingAssumption
  <2>2. Cardinality(S) \in Nat
    BY <2>1, FS_CardinalityType
  <2> QED BY <1>3, <1>5, <2>2
<1>6. CASE Start
  BY <1>1, <1>2, <1>6 DEF Start, Frame
<1>7. CASE Stop
  BY <1>1, <1>2, <1>7 DEF Stop, Frame
<1>8. CASE \E failing \in SUBSET Waiting(armed) : RequestStarts(failing)
  <2>1. PICK failing \in SUBSET Waiting(armed) : RequestStarts(failing)
    BY <1>8
  <2>2. failing \subseteq Part
    BY DEF Waiting, Required
  <2> QED BY <1>5, <2>1, <2>2 DEF RequestStarts
<1>9. CASE Environment
  BY <1>1, <1>2, <1>9 DEF Environment, Frame
<1>10. CASE WatchedLoads
  BY <1>4, <1>10 DEF WatchedLoads
<1>11. CASE AttachLater
  <2>1. starts' = starts /\ chosen' = chosen
    BY <1>11 DEF AttachLater
  <2>2. CASE \E failing \in SUBSET Waiting(On) : InternalErrors(Cardinality(failing))
    <3>1. Waiting(On) \subseteq Part
      BY DEF Waiting, Required
    <3> QED BY <1>5, <2>1, <2>2, <3>1
  <2>3. CASE \E fails \in BOOLEAN : InternalErrors(IF fails THEN 1 ELSE 0)
    BY <1>4, <2>1, <2>3
  <2>4. \/ \E failing \in SUBSET Waiting(On) : InternalErrors(Cardinality(failing))
        \/ \E fails \in BOOLEAN : InternalErrors(IF fails THEN 1 ELSE 0)
    BY <1>11 DEF AttachLater
  <2> QED BY <2>2, <2>3, <2>4
<1>12. CASE CallSteps
  BY <1>3, <1>12, CallErrs
<1>13. CASE UNCHANGED vars
  BY <1>1, <1>2, <1>13 DEF vars, Frame
<1> QED BY <1>6, <1>7, <1>8, <1>9, <1>10, <1>11, <1>12, <1>13 DEF Next, CallSteps

\* What is seen stays so while nothing stops.
LEMMA SeesStays ==
  ASSUME Frame, ~everStopped', NEW part, Sees(part)
  PROVE  Sees(part)'
BY DEF Frame, FlagsOK, Sees

\* A subscription that is gone does not come back.
LEMMA SubscriptionGone ==
  ASSUME Frame, NEW call, call.since \in Nat, call.since <= starts, ~Subscribed(call)
  PROVE  ~Subscribed(call)' /\ call.since <= starts'
BY DEF Frame, FlagsOK, Subscribed

\* A call that a step leaves alone stays as it was.
LEMMA CallStands ==
  ASSUME Frame, NEW call \in CallType, WatchedOK(call), HeardOK(call),
         starts' = starts \/ everStopped'
  PROVE  WatchedOK(call)' /\ HeardOK(call)'
<1>1. call.since \in Nat /\ call.since <= starts /\ call.since <= starts'
  BY DEF Frame, FlagsOK, CallType, WatchedOK
<1>2. WatchedOK(call)'
  BY <1>1, SubscriptionGone DEF WatchedOK
<1>3. HeardOK(call)'
  BY SeesStays DEF HeardOK, Frame
<1> QED BY <1>2, <1>3

-----------------------------------------------------------------------------
\* The calls that were written, when one is added or changed.

Failing(call) == call.answer \in {"failed", "refused"}

\* One that was not written may be now.
Grows(cs, ds, k) ==
  \A r : /\ k \notin WrittenTo(cs, r) /\ k \notin FailedIn(cs, r)
         /\ WrittenTo(ds, r) = IF MayBeWritten(ds[k]) /\ ds[k].context = r
                               THEN WrittenTo(cs, r) \cup {k} ELSE WrittenTo(cs, r)
         /\ FailedIn(ds, r) = IF MayBeWritten(ds[k]) /\ ds[k].context = r /\ Failing(ds[k])
                              THEN FailedIn(cs, r) \cup {k} ELSE FailedIn(cs, r)

LEMMA OneMore ==
  ASSUME NEW cs, NEW ds, NEW k, DOMAIN ds = DOMAIN cs \cup {k},
         \A c \in DOMAIN cs : c # k => ds[c] = cs[c],
         k \in DOMAIN cs => ~MayBeWritten(cs[k])
  PROVE  Grows(cs, ds, k)
<1>1. \A r : k \notin WrittenTo(cs, r)
  BY DEF WrittenTo
<1>3. \A c \in DOMAIN ds : c = k \/ (c \in DOMAIN cs /\ ds[c] = cs[c])
  OBVIOUS
<1>4. \A c \in DOMAIN cs : c = k \/ ds[c] = cs[c]
  OBVIOUS
<1>5. ASSUME NEW r
      PROVE  WrittenTo(ds, r) = IF MayBeWritten(ds[k]) /\ ds[k].context = r
                                THEN WrittenTo(cs, r) \cup {k} ELSE WrittenTo(cs, r)
  BY <1>1, <1>3, <1>4 DEF WrittenTo
<1>6. ASSUME NEW r
      PROVE  FailedIn(ds, r) = IF MayBeWritten(ds[k]) /\ ds[k].context = r /\ Failing(ds[k])
                               THEN FailedIn(cs, r) \cup {k} ELSE FailedIn(cs, r)
  <2>1. \A c : c \in FailedIn(ds, r) <=> c \in WrittenTo(ds, r) /\ Failing(ds[c])
    BY DEF FailedIn, Failing
  <2>2. \A c : c \in FailedIn(cs, r) <=> c \in WrittenTo(cs, r) /\ Failing(cs[c])
    BY DEF FailedIn, Failing
  <2>3. \A c \in WrittenTo(cs, r) : c # k /\ ds[c] = cs[c]
    BY <1>1, <1>4 DEF WrittenTo
  <2>4. \A c : c \in WrittenTo(ds, r) <=>
                 \/ c \in WrittenTo(cs, r)
                 \/ c = k /\ MayBeWritten(ds[k]) /\ ds[k].context = r
    BY <1>5
  <2>5. \A c : c \in FailedIn(ds, r) <=>
                 \/ c \in FailedIn(cs, r)
                 \/ c = k /\ MayBeWritten(ds[k]) /\ ds[k].context = r /\ Failing(ds[k])
    BY <2>1, <2>2, <2>3, <2>4
  <2>6. CASE MayBeWritten(ds[k]) /\ ds[k].context = r /\ Failing(ds[k])
    <3>1. \A c : c \in FailedIn(ds, r) <=> c \in FailedIn(cs, r) \cup {k}
      BY <2>5, <2>6
    <3> QED BY <2>6, <3>1
  <2>7. CASE ~(MayBeWritten(ds[k]) /\ ds[k].context = r /\ Failing(ds[k]))
    <3>1. \A c : c \in FailedIn(ds, r) <=> c \in FailedIn(cs, r)
      BY <2>5, <2>7
    <3>2. FailedIn(ds, r) = FailedIn(cs, r)
      BY <3>1 DEF FailedIn
    <3> QED BY <2>7, <3>2
  <2> QED BY <2>6, <2>7
<1>7. \A r : k \notin FailedIn(cs, r)
  BY <1>1 DEF FailedIn
<1> QED BY <1>1, <1>5, <1>6, <1>7 DEF Grows

\* One that changes nothing of what is written.
LEMMA NoMore ==
  ASSUME NEW cs, NEW ds, DOMAIN ds = DOMAIN cs,
         \A c \in DOMAIN cs : /\ ds[c].context = cs[c].context
                              /\ MayBeWritten(ds[c]) <=> MayBeWritten(cs[c])
                              /\ MayBeWritten(cs[c]) => (Failing(ds[c]) <=> Failing(cs[c]))
  PROVE  \A r : WrittenTo(ds, r) = WrittenTo(cs, r) /\ FailedIn(ds, r) = FailedIn(cs, r)
<1>1. ASSUME NEW r PROVE WrittenTo(ds, r) = WrittenTo(cs, r)
  BY DEF WrittenTo
<1>2. ASSUME NEW r PROVE FailedIn(ds, r) = FailedIn(cs, r)
  <2>1. \A c : c \in FailedIn(ds, r) <=> c \in WrittenTo(ds, r) /\ Failing(ds[c])
    BY DEF FailedIn, Failing
  <2>2. \A c : c \in FailedIn(cs, r) <=> c \in WrittenTo(cs, r) /\ Failing(cs[c])
    BY DEF FailedIn, Failing
  <2>3. \A c \in WrittenTo(cs, r) : Failing(ds[c]) <=> Failing(cs[c])
    BY DEF WrittenTo
  <2>4. \A c : c \in FailedIn(ds, r) <=> c \in FailedIn(cs, r)
    BY <1>1, <2>1, <2>2, <2>3
  <2> QED BY <2>4 DEF FailedIn
<1> QED BY <1>1, <1>2

\* They are finitely many.
LEMMA FewAreWritten ==
  ASSUME NEW cs \in Seq(CallType)
  PROVE  \A r : /\ IsFiniteSet(WrittenTo(cs, r)) /\ Cardinality(WrittenTo(cs, r)) \in Nat
                /\ IsFiniteSet(FailedIn(cs, r)) /\ Cardinality(FailedIn(cs, r)) \in Nat
<1>1. DOMAIN cs = 1 .. Len(cs) /\ Len(cs) \in Nat
  OBVIOUS
<1>2. IsFiniteSet(DOMAIN cs)
  BY <1>1, FS_Interval
<1>3. ASSUME NEW S, S \subseteq DOMAIN cs PROVE IsFiniteSet(S) /\ Cardinality(S) \in Nat
  BY <1>2, <1>3, FS_Subset, FS_CardinalityType
<1>4. \A r : WrittenTo(cs, r) \subseteq DOMAIN cs /\ FailedIn(cs, r) \subseteq DOMAIN cs
  BY DEF WrittenTo, FailedIn
<1> QED BY <1>3, <1>4

-----------------------------------------------------------------------------
\* What the steps do to the work of the contexts.

\* A sequence of which one is another.
LEMMA OneChanged ==
  ASSUME NEW T, NEW s \in Seq(T), NEW i \in DOMAIN s, NEW e \in T, NEW t, t = [s EXCEPT ![i] = e]
  PROVE  /\ t \in Seq(T) /\ Len(t) = Len(s) /\ t[i] = e
         /\ \A j \in DOMAIN s : j # i => t[j] = s[j]
OBVIOUS

\* A call that is written adds one to its context, and to its failures if it failed.
LEMMA RecordInIs ==
  ASSUME work \in Seq(WorkType), NEW context \in DOMAIN work, NEW target, target \notin Excluded,
         NEW failure \in BOOLEAN, NEW signed \in BOOLEAN,
         NEW w, w = RecordIn(context, target, failure, signed, 1)
  PROVE  /\ w \in Seq(WorkType) /\ Len(w) = Len(work) /\ DOMAIN w = DOMAIN work
         /\ \A r \in DOMAIN work : r # context => w[r] = work[r]
         /\ w[context].calls = work[context].calls + 1
         /\ w[context].failures = work[context].failures + IF failure THEN 1 ELSE 0
<1>1. context # NoContext
  BY DEF NoContext
<1>2. PICK a, b, c, d, e \in Nat :
        work[context] = [calls |-> a, failures |-> b, operations |-> c, errors |-> d, waits |-> e]
  <2>1. work[context] \in WorkType
    OBVIOUS
  <2> QED BY <2>1 DEF WorkType
<1>3. PICK f \in Nat, s \in Nat : f = (IF failure THEN 1 ELSE 0) /\ s = IF signed THEN 1 ELSE 0
  OBVIOUS
<1>4. PICK i, j, k, l \in Nat : i = a + 1 /\ j = b + f /\ k = c + 1 /\ l = d + s
  <2>1. a + 1 \in Nat /\ b + f \in Nat /\ c + 1 \in Nat /\ d + s \in Nat
    OBVIOUS
  <2> QED BY <2>1
<1>8. PICK x \in WorkType :
        x = [calls |-> i, failures |-> j, operations |-> k, errors |-> l, waits |-> e]
  BY DEF WorkType
<1>9. w = [work EXCEPT ![context] = x]
  <2>1. Records(context, target)
    BY <1>1 DEF Records
  <2>2. w = [work EXCEPT ![context] =
               [calls |-> work[context].calls + 1,
                failures |-> work[context].failures + IF failure THEN 1 ELSE 0,
                operations |-> work[context].operations + 1,
                errors |-> work[context].errors + IF signed THEN 1 ELSE 0,
                waits |-> work[context].waits]]
    BY <2>1 DEF RecordIn
  <2>3. /\ work[context].calls + 1 = i
        /\ work[context].failures + (IF failure THEN 1 ELSE 0) = j
        /\ work[context].operations + 1 = k
        /\ work[context].errors + (IF signed THEN 1 ELSE 0) = l /\ work[context].waits = e
    BY <1>2, <1>3, <1>4
  <2>4. x = [calls |-> work[context].calls + 1,
             failures |-> work[context].failures + IF failure THEN 1 ELSE 0,
             operations |-> work[context].operations + 1,
             errors |-> work[context].errors + IF signed THEN 1 ELSE 0,
             waits |-> work[context].waits]
    BY <1>8, <2>3, Zenon
  <2> QED BY <2>2, <2>4, Zenon
<1>5. /\ w \in Seq(WorkType) /\ Len(w) = Len(work) /\ DOMAIN w = DOMAIN work
      /\ \A r \in DOMAIN work : r # context => w[r] = work[r]
      /\ w[context] = x
  <2>1. DOMAIN w = DOMAIN work
    BY <1>9
  <2> QED BY <1>9, <2>1, OneChanged
<1>6. x.calls = a + 1 /\ x.failures = b + IF failure THEN 1 ELSE 0
  BY <1>3, <1>4, <1>8
<1>7. work[context].calls = a /\ work[context].failures = b
  BY <1>2
<1> QED BY <1>5, <1>6, <1>7

\* A wait adds to the waits alone.
LEMMA RecordWaitIs ==
  ASSUME work \in Seq(WorkType), NEW context, context \in DOMAIN work \cup {NoContext}, NEW target,
         NEW w, w = RecordWaitIn(context, target)
  PROVE  /\ w \in Seq(WorkType) /\ Len(w) = Len(work) /\ DOMAIN w = DOMAIN work
         /\ \A r \in DOMAIN work : w[r].calls = work[r].calls /\ w[r].failures = work[r].failures
<1>1. CASE ~Records(context, target)
  BY <1>1 DEF RecordWaitIn
<1>2. CASE Records(context, target)
  <2>1. context \in DOMAIN work
    BY <1>2 DEF Records
  <2>2. work[context] \in WorkType
    BY <2>1
  <2>3. PICK x \in WorkType : /\ x = [work[context] EXCEPT !.waits = @ + 1]
                              /\ x.calls = work[context].calls /\ x.failures = work[context].failures
    <3>1. PICK a, b, c, d, e \in Nat :
            work[context] = [calls |-> a, failures |-> b, operations |-> c, errors |-> d, waits |-> e]
      BY <2>2 DEF WorkType
    <3>2. [calls |-> a, failures |-> b, operations |-> c, errors |-> d, waits |-> e + 1] \in WorkType
      BY DEF WorkType
    <3> QED BY <3>1, <3>2
  <2>4. w = [work EXCEPT ![context] = x]
    BY <1>2, <2>3 DEF RecordWaitIn
  <2>5. /\ w \in Seq(WorkType) /\ Len(w) = Len(work) /\ DOMAIN w = DOMAIN work
        /\ \A r \in DOMAIN work : r # context => w[r] = work[r]
        /\ w[context] = x
    BY <2>1, <2>4
  <2> QED BY <2>3, <2>5
<1> QED BY <1>1, <1>2

\* Nothing is written.
LEMMA NothingWritten ==
  ASSUME ContextsOK, WorkOK, Frame, Len(requests') = Len(requests),
         work' \in Seq(WorkType), Len(work') = Len(work),
         \A r \in DOMAIN work : work'[r].calls = work[r].calls /\ work'[r].failures = work[r].failures,
         \A r : WrittenTo(calls', r) = WrittenTo(calls, r) /\ FailedIn(calls', r) = FailedIn(calls, r)
  PROVE  WorkOK'
<1>1. work \in Seq(WorkType) /\ Len(work) = Len(requests)
  BY DEF WorkOK
<1>2. DOMAIN work = Requests /\ DOMAIN work' = Requests /\ Requests' = Requests
  BY <1>1 DEF Requests
<1>3. ASSUME NEW r \in Requests
      PROVE  /\ work'[r].calls <= Cardinality(WrittenTo(calls', r))
             /\ work'[r].failures <= Cardinality(FailedIn(calls', r))
             /\ internalErrors' = 0 => /\ work'[r].calls = Cardinality(WrittenTo(calls', r))
                                       /\ work'[r].failures = Cardinality(FailedIn(calls', r))
  BY <1>2 DEF WorkOK, Frame
<1> QED BY <1>1, <1>2, <1>3 DEF WorkOK

\* One call more may be written, to one context, among the failures or not.
Written(k, context, fails) ==
  \A r : /\ k \notin WrittenTo(calls, r) /\ k \notin FailedIn(calls, r)
         /\ WrittenTo(calls', r) = IF r = context THEN WrittenTo(calls, r) \cup {k}
                                   ELSE WrittenTo(calls, r)
         /\ FailedIn(calls', r) = IF r = context /\ fails THEN FailedIn(calls, r) \cup {k}
                                  ELSE FailedIn(calls, r)

\* One call may be written now: and it is, unless that failed.
LEMMA OneWritten ==
  ASSUME ContextsOK, WorkOK, Frame, Len(requests') = Len(requests),
         work' \in Seq(WorkType), Len(work') = Len(work),
         NEW k, NEW context \in Requests, NEW fails \in BOOLEAN, NEW n \in 0 .. 1,
         internalErrors' = 0 => n = 1,
         \A r \in DOMAIN work : r # context =>
           work'[r].calls = work[r].calls /\ work'[r].failures = work[r].failures,
         work'[context].calls = work[context].calls + n,
         work'[context].failures = work[context].failures + IF fails THEN n ELSE 0,
         Written(k, context, fails)
  PROVE  WorkOK'
<1>0. \A r : /\ k \notin WrittenTo(calls, r) /\ k \notin FailedIn(calls, r)
             /\ WrittenTo(calls', r) = IF r = context THEN WrittenTo(calls, r) \cup {k}
                                       ELSE WrittenTo(calls, r)
             /\ FailedIn(calls', r) = IF r = context /\ fails THEN FailedIn(calls, r) \cup {k}
                                      ELSE FailedIn(calls, r)
  BY DEF Written
<1>1. work \in Seq(WorkType) /\ Len(work) = Len(requests) /\ calls \in Seq(CallType)
  BY DEF WorkOK, ContextsOK
<1>2. DOMAIN work = Requests /\ DOMAIN work' = Requests /\ Requests' = Requests
  BY <1>1 DEF Requests
<1>3. \A r : /\ IsFiniteSet(WrittenTo(calls, r)) /\ Cardinality(WrittenTo(calls, r)) \in Nat
             /\ IsFiniteSet(FailedIn(calls, r)) /\ Cardinality(FailedIn(calls, r)) \in Nat
  BY <1>1, FewAreWritten
<1>4. /\ \A r : Cardinality(WrittenTo(calls, r) \cup {k}) = Cardinality(WrittenTo(calls, r)) + 1
      /\ \A r : Cardinality(FailedIn(calls, r) \cup {k}) = Cardinality(FailedIn(calls, r)) + 1
  BY <1>0, <1>3, FS_AddElement
<1>5. \A r \in Requests : work[r].calls \in Nat /\ work[r].failures \in Nat
  <2>1. \A r \in Requests : work[r] \in WorkType
    BY <1>1, <1>2
  <2> QED BY <2>1 DEF WorkType
<1>6. ASSUME NEW r \in Requests
      PROVE  /\ work'[r].calls <= Cardinality(WrittenTo(calls', r))
             /\ work'[r].failures <= Cardinality(FailedIn(calls', r))
             /\ internalErrors' = 0 => /\ work'[r].calls = Cardinality(WrittenTo(calls', r))
                                       /\ work'[r].failures = Cardinality(FailedIn(calls', r))
  <2>1. /\ work[r].calls <= Cardinality(WrittenTo(calls, r))
        /\ work[r].failures <= Cardinality(FailedIn(calls, r))
        /\ internalErrors = 0 => /\ work[r].calls = Cardinality(WrittenTo(calls, r))
                                 /\ work[r].failures = Cardinality(FailedIn(calls, r))
        /\ internalErrors' = 0 => internalErrors = 0
    BY DEF WorkOK, Frame
  <2>2. CASE r # context
    BY <1>0, <1>2, <2>1, <2>2
  <2>3. CASE r = context
    <3>1. Cardinality(WrittenTo(calls', r)) = Cardinality(WrittenTo(calls, r)) + 1
      BY <1>0, <1>4, <2>3
    <3>2. Cardinality(FailedIn(calls', r)) = Cardinality(FailedIn(calls, r)) + IF fails THEN 1 ELSE 0
      <4>1. CASE fails
        <5>1. FailedIn(calls', r) = FailedIn(calls, r) \cup {k}
          BY <1>0, <2>3, <4>1
        <5> QED BY <1>4, <4>1, <5>1
      <4>2. CASE ~fails
        <5>1. FailedIn(calls', r) = FailedIn(calls, r)
          BY <1>0, <4>2
        <5>2. Cardinality(FailedIn(calls, r)) \in Nat
          BY <1>3
        <5> QED BY <4>2, <5>1, <5>2
      <4> QED BY <4>1, <4>2
    <3>3. PICK a, b, c, d \in Nat : /\ a = work[r].calls /\ b = work[r].failures
                                    /\ c = Cardinality(WrittenTo(calls, r))
                                    /\ d = Cardinality(FailedIn(calls, r))
      BY <1>3, <1>5
    <3>4. work'[r].calls = a + n /\ work'[r].failures = b + IF fails THEN n ELSE 0
      BY <2>3, <3>3
    <3>5. a <= c /\ b <= d /\ (internalErrors' = 0 => a = c /\ b = d /\ n = 1)
      BY <2>1, <3>3
    <3>6. CASE fails
      <4>1. work'[r].failures = b + n /\ Cardinality(FailedIn(calls', r)) = d + 1
        BY <3>2, <3>3, <3>4, <3>6
      <4>2. work'[r].calls = a + n /\ Cardinality(WrittenTo(calls', r)) = c + 1
        BY <3>1, <3>3, <3>4
      <4>3. n <= 1
        OBVIOUS
      <4> QED BY <3>5, <4>1, <4>2, <4>3
    <3>7. CASE ~fails
      <4>1. work'[r].failures = b /\ Cardinality(FailedIn(calls', r)) = d
        BY <3>2, <3>3, <3>4, <3>7
      <4>2. work'[r].calls = a + n /\ Cardinality(WrittenTo(calls', r)) = c + 1
        BY <3>1, <3>3, <3>4
      <4>3. n <= 1
        OBVIOUS
      <4> QED BY <3>5, <4>1, <4>2, <4>3
    <3> QED BY <3>6, <3>7
  <2> QED BY <2>2, <2>3
<1> QED BY <1>1, <1>2, <1>6 DEF WorkOK

-----------------------------------------------------------------------------
\* A call begins.

\* What a new call is, when the code of request `r` asks.
Asks(r, new, breaks) ==
  /\ new \in CallType /\ new.by = r /\ new.context \in requests[r]
  /\ new.opener \in Requests \cup {NoContext}
  /\ new.answer = "none" /\ ~new.sent /\ new.seen = Sees(new.part)
  /\ new.form \in {"events", "channel"} => ~new.wait
  /\ new.form = "fetch" => ~new.aside
  /\ new.watchers = IF new.seen /\ new.context # NoContext /\ ~new.aside /\ ~breaks THEN 1 ELSE 0
  /\ new.since = IF new.form = "channel" /\ new.watchers = 1 THEN starts ELSE 0
  /\ new.counted = IF new.form = "events" /\ new.watchers = 1 THEN 1 ELSE 0
  /\ calls' = Append(calls, new)
  /\ work' = IF new.counted = 1 THEN RecordIn(new.context, new.target, FALSE, FALSE, 1) ELSE work
  /\ InternalErrors(IF breaks THEN 1 ELSE 0)

\* However often a statement passes through what the agent wrapped, one pass watches it.
LEMMA OneWatches ==
  ASSUME NEW part \in Part \cup Channel, NEW most, most = (IF Behaviour[part].nested THEN 2 ELSE 1),
         NEW passes \in 1 .. most
  PROVE  Watchers(part, passes) = 1
<1>1. Behaviour[part].nested \in BOOLEAN
  BY InstrumentationAssumption
<1>2. {n \in 1 .. passes : ~Marked(part, n)} = {1}
  <2>1. CASE Behaviour[part].nested
    BY <2>1 DEF Marked
  <2>2. CASE ~Behaviour[part].nested
    <3>1. passes = 1
      BY <2>2
    <3> QED BY <2>2, <3>1 DEF Marked
  <2> QED BY <1>1, <2>1, <2>2
<1> QED BY <1>2, FS_Singleton DEF Watchers

\* What a call that asks does of the calls and of its context.
LEMMA AskIs ==
  ASSUME TypesOK, ContextsOK, WorkOK,
         NEW r \in Requests, NEW part \in loaded \cup Channel,
         NEW form, NEW target \in Target, NEW opener \in Requests \cup {NoContext},
         NEW wait \in BOOLEAN, NEW aside \in BOOLEAN,
         Ask(r, part, form, target, opener, wait, aside)
  PROVE  \E new \in CallType, breaks \in BOOLEAN : Asks(r, new, breaks)
<1>1. /\ part \in Part \cup Channel /\ r \in Nat /\ opener \in Nat
      /\ form \in (IF wait THEN Behaviour[part].waits ELSE Behaviour[part].forms)
      /\ aside => ~wait /\ form # "fetch"
  <2>1. part \in Part \cup Channel
    BY DEF TypesOK, ArmingTypeOK
  <2>2. r \in Nat /\ opener \in Nat
    BY DEF Requests, NoContext
  <2>3. /\ form \in (IF wait THEN Behaviour[part].waits ELSE Behaviour[part].forms)
        /\ aside => ~wait /\ form # "fetch"
    BY DEF Ask
  <2> QED BY <2>1, <2>2, <2>3
<1>2. /\ Behaviour[part].waits \subseteq {"promise", "callback"}
      /\ Behaviour[part].forms
           \subseteq {"promise", "callback", "socket", "events", "sync", "channel", "fetch"}
  BY <1>1, InstrumentationAssumption
<1>3. form \in Form /\ (form \in {"events", "channel"} => ~wait) /\ (form = "fetch" => ~aside)
  BY <1>1, <1>2 DEF Form
<1>4. PICK sees \in BOOLEAN : sees = Sees(part)
  BY DEF Sees, TypesOK, FlagsOK
<1>5. PICK context \in requests[r], breaks \in BOOLEAN,
           passes \in 1 .. IF Behaviour[part].nested THEN 2 ELSE 1 :
       LET observed == Sees(part) /\ context # NoContext /\ ~aside
           watchers == IF observed /\ ~breaks THEN Watchers(part, passes) ELSE 0
           atOnce   == form = "events" /\ watchers > 0
       IN /\ breaks => observed /\ form # "fetch"
          /\ calls' = Append(calls,
               [by |-> r, part |-> part, form |-> form, target |-> target, context |-> context,
                opener |-> opener, wait |-> wait, aside |-> aside,
                seen |-> Sees(part), watchers |-> watchers, sent |-> FALSE, answer |-> "none",
                since |-> IF form = "channel" /\ watchers > 0 THEN starts ELSE 0,
                before |-> IF watchers > 0 THEN work[context].calls ELSE Unwrapped,
                counted |-> IF atOnce THEN 1 ELSE 0])
          /\ work' = IF atOnce THEN RecordIn(context, target, FALSE, FALSE, watchers) ELSE work
          /\ InternalErrors(IF breaks THEN 1 ELSE 0)
  BY DEF Ask
<1>6. PICK w \in 0 .. 1 : w = IF sees /\ context # NoContext /\ ~aside /\ ~breaks THEN 1 ELSE 0
  OBVIOUS
<1>7. PICK since \in Nat : since = IF form = "channel" /\ w = 1 THEN starts ELSE 0
  BY DEF TypesOK, FlagsOK
<1>8. PICK counted \in 0 .. 1 : counted = IF form = "events" /\ w = 1 THEN 1 ELSE 0
  OBVIOUS
<1>9. PICK before \in Int : before = IF w > 0 THEN work[context].calls ELSE Unwrapped
  <2>1. CASE w > 0
    <3>1. context # NoContext /\ context \in Requests \cup {NoContext}
      BY <1>6, <2>1 DEF ContextsOK
    <3>2. work[context] \in WorkType
      BY <3>1 DEF WorkOK, Requests
    <3> QED BY <2>1, <3>2 DEF WorkType
  <2>2. CASE ~(w > 0)
    BY <2>2 DEF Unwrapped
  <2> QED BY <2>1, <2>2
<1>10. /\ calls' = Append(calls,
            [by |-> r, part |-> part, form |-> form, target |-> target, context |-> context,
             opener |-> opener, wait |-> wait, aside |-> aside,
             seen |-> sees, watchers |-> w, sent |-> FALSE, answer |-> "none",
             since |-> since, before |-> before, counted |-> counted])
       /\ work' = IF counted = 1 THEN RecordIn(context, target, FALSE, FALSE, 1) ELSE work
       /\ InternalErrors(IF breaks THEN 1 ELSE 0)
  <2>1. PICK v : v = IF (Sees(part) /\ context # NoContext /\ ~aside) /\ ~breaks
                     THEN Watchers(part, passes) ELSE 0
    OBVIOUS
  <2>2. v = w
    <3>1. Watchers(part, passes) = 1
      BY <1>1, OneWatches
    <3> QED BY <1>4, <1>6, <2>1, <3>1
  <2>3. (w > 0) <=> (w = 1)
    OBVIOUS
  <2>4. /\ calls' = Append(calls,
              [by |-> r, part |-> part, form |-> form, target |-> target, context |-> context,
               opener |-> opener, wait |-> wait, aside |-> aside,
               seen |-> Sees(part), watchers |-> v, sent |-> FALSE, answer |-> "none",
               since |-> IF form = "channel" /\ v > 0 THEN starts ELSE 0,
               before |-> IF v > 0 THEN work[context].calls ELSE Unwrapped,
               counted |-> IF form = "events" /\ v > 0 THEN 1 ELSE 0])
        /\ work' = IF form = "events" /\ v > 0 THEN RecordIn(context, target, FALSE, FALSE, v) ELSE work
        /\ InternalErrors(IF breaks THEN 1 ELSE 0)
    BY <1>5, <2>1
  <2>5. /\ since = (IF form = "channel" /\ v > 0 THEN starts ELSE 0)
        /\ before = (IF v > 0 THEN work[context].calls ELSE Unwrapped)
        /\ counted = (IF form = "events" /\ v > 0 THEN 1 ELSE 0)
        /\ (counted = 1) <=> (form = "events" /\ v > 0)
        /\ v > 0 => v = 1
    BY <1>7, <1>8, <1>9, <2>2, <2>3
  <2>6. calls' = Append(calls,
              [by |-> r, part |-> part, form |-> form, target |-> target, context |-> context,
               opener |-> opener, wait |-> wait, aside |-> aside,
               seen |-> sees, watchers |-> w, sent |-> FALSE, answer |-> "none",
               since |-> since, before |-> before, counted |-> counted])
    BY <1>4, <2>2, <2>4, <2>5, Zenon
  <2>7. work' = IF counted = 1 THEN RecordIn(context, target, FALSE, FALSE, 1) ELSE work
    <3>1. CASE counted = 1
      BY <2>4, <2>5, <3>1
    <3>2. CASE counted # 1
      BY <2>4, <2>5, <3>2
    <3> QED BY <3>1, <3>2
  <2> QED BY <2>4, <2>6, <2>7
<1>11. PICK new : new =
            [by |-> r, part |-> part, form |-> form, target |-> target, context |-> context,
             opener |-> opener, wait |-> wait, aside |-> aside,
             seen |-> sees, watchers |-> w, sent |-> FALSE, answer |-> "none",
             since |-> since, before |-> before, counted |-> counted]
  OBVIOUS
<1>12. context \in Nat
  BY DEF ContextsOK, Requests, NoContext
<1>13. new \in CallType
  BY <1>1, <1>3, <1>11, <1>12 DEF CallType
<1>14. /\ new.by = r /\ new.part = part /\ new.form = form /\ new.target = target
       /\ new.context = context /\ new.opener = opener /\ new.wait = wait /\ new.aside = aside
       /\ new.seen = sees /\ new.watchers = w /\ new.sent = FALSE /\ new.answer = "none"
       /\ new.since = since /\ new.counted = counted
  BY <1>11
<1>15. Asks(r, new, breaks)
  BY <1>3, <1>4, <1>6, <1>7, <1>8, <1>10, <1>11, <1>13, <1>14 DEF Asks
<1> QED BY <1>13, <1>15

\* A new call is as it should be.
LEMMA NewCallIsOK ==
  ASSUME Frame, NEW r, NEW new, NEW breaks \in BOOLEAN, Asks(r, new, breaks),
         starts' = starts
  PROVE  WatchedOK(new)' /\ HeardOK(new)'
<1>1. /\ new.watchers \in 0 .. 1 /\ new.seen \in BOOLEAN /\ new.aside \in BOOLEAN
      /\ new.wait \in BOOLEAN /\ new.sent \in BOOLEAN /\ starts \in Nat
  BY DEF Asks, CallType, Frame, FlagsOK
<1>2. new.watchers = 1 <=> new.seen /\ new.context # NoContext /\ ~new.aside /\ ~breaks
  BY <1>1 DEF Asks
<1>3. new.since <= starts /\ (new.form = "channel" /\ new.watchers = 1 => new.since = starts)
  BY <1>1 DEF Asks
<1>4. new.counted > 0 <=> new.form = "events" /\ new.watchers = 1
  BY DEF Asks
<1>5. /\ new.answer = "none" /\ ~new.sent /\ new.seen = Sees(new.part)
      /\ new.form \in {"events", "channel"} => ~new.wait
      /\ new.form = "fetch" => ~new.aside
  BY DEF Asks
<1>6. WatchedOK(new)'
  BY <1>1, <1>2, <1>3, <1>4, <1>5 DEF WatchedOK
<1>7. internalErrors' = 0 => ~breaks
  <2>1. internalErrors' = internalErrors + (IF breaks THEN 1 ELSE 0) /\ internalErrors \in Nat
    BY DEF Asks, InternalErrors, Frame, FlagsOK
  <2> QED BY <2>1
<1>8. new.seen /\ ~everStopped' => Sees(new.part)'
  BY <1>5, SeesStays
<1>9. HeardOK(new)'
  BY <1>1, <1>2, <1>3, <1>4, <1>5, <1>7, <1>8 DEF HeardOK
<1> QED BY <1>6, <1>9

\* Where the code of a request runs is what was said of it, when calls are added.
LEMMA ContextsStand ==
  ASSUME ContextsOK, Frame, UNCHANGED <<requests, entered>>, starts' = starts,
         calls' \in Seq(CallType),
         \A c \in DOMAIN calls' :
           /\ calls'[c].by \in Requests /\ calls'[c].context \in requests[calls'[c].by]
           /\ calls'[c].opener \in Requests \cup {NoContext}
  PROVE  ContextsOK'
<1>1. Requests' = Requests
  BY DEF Requests
<1>2. requests' # <<>> => started' \/ everStopped'
  BY DEF ContextsOK, Frame, FlagsOK
<1> QED BY <1>1, <1>2 DEF ContextsOK

\* A call is, after a step, what it is of the calls there are then.
LEMMA Then ==
  ASSUME NEW call, NEW c, call = calls'[c], WatchedOK(call)', HeardOK(call)'
  PROVE  WatchedOK(calls[c])' /\ HeardOK(calls[c])'
<1>1. WatchedOK(calls[c])'
  BY Zenon DEF WatchedOK, Subscribed
<1>2. HeardOK(calls[c])'
  BY Zenon DEF HeardOK, Sees
<1> QED BY <1>1, <1>2

\* What was said of where the code of a request runs stands, when calls are added or answered
\* and a context is added where one left it.
LEMMA StrayStands ==
  ASSUME ContextsOK, StrayOK, calls' \in Seq(CallType), Requests \subseteq Requests',
         \A r \in Requests : r \in entered' <=> r \in entered,
         \A d \in DOMAIN calls :
           /\ d \in DOMAIN calls' /\ calls'[d].by = calls[d].by
           /\ calls'[d].form = calls[d].form /\ calls'[d].opener = calls[d].opener
           /\ calls'[d].context = calls[d].context
           /\ calls[d].answer # "none" => calls'[d].answer # "none",
         \A r \in Requests' : \A x \in requests'[r] :
           \/ r \in Requests /\ x \in requests[r]
           \/ x = Own(r)' \/ \E d \in DOMAIN calls' : LeftIn(d, r, x)',
         \A c \in DOMAIN calls' \ DOMAIN calls :
           \/ calls'[c].context = Own(calls[c].by)'
           \/ \E d \in 1 .. c - 1 : LeftIn(d, calls[c].by, calls[c].context)'
  PROVE  StrayOK'
<1>1. \A d \in DOMAIN calls : \A r, x : LeftIn(d, r, x) => LeftIn(d, r, x)'
  BY DEF LeftIn
<1>2. \A r \in Requests : Own(r)' = Own(r)
  BY DEF Own
<1>3. \A r \in Requests' : \A x \in requests'[r] :
        x = Own(r)' \/ \E d \in DOMAIN calls' : LeftIn(d, r, x)'
  BY <1>1, <1>2 DEF StrayOK
<1>4. ASSUME NEW c \in DOMAIN calls'
      PROVE  \/ calls'[c].context = Own(calls[c].by)'
             \/ \E d \in 1 .. c - 1 : LeftIn(d, calls[c].by, calls[c].context)'
  <2>1. CASE c \in DOMAIN calls
    <3>1. PICK by, context : by \in Requests /\ by = calls[c].by /\ context = calls[c].context
      BY <2>1 DEF ContextsOK
    <3>2. calls'[c].by = by /\ calls'[c].context = context
      BY <2>1, <3>1
    <3>3. context = Own(by) \/ \E d \in 1 .. c - 1 : LeftIn(d, by, context)
      BY <2>1, <3>1 DEF StrayOK
    <3>4. \A d \in 1 .. c - 1 : d \in DOMAIN calls
      BY <2>1 DEF ContextsOK
    <3>5. context = Own(by)' \/ \E d \in 1 .. c - 1 : LeftIn(d, by, context)'
      BY <1>1, <1>2, <3>1, <3>3, <3>4 DEF Own, LeftIn
    <3> QED BY <3>2, <3>5 DEF Own, LeftIn
  <2> QED BY <2>1
<1> QED BY <1>3, <1>4 DEF StrayOK

\* It keeps the counting invariant.
LEMMA AskKeeps ==
  ASSUME CountingIInv, Frame, NEW r \in Requests, NEW new, NEW breaks \in BOOLEAN,
         Asks(r, new, breaks),
         UNCHANGED <<starts, requests, entered>>
  PROVE  CountingIInv'
<1>0. ContextsOK /\ StrayOK /\ CallsOK /\ WorkOK
  BY DEF CountingIInv
<1>1. calls \in Seq(CallType) /\ new \in CallType /\ calls' = Append(calls, new)
  BY <1>0 DEF ContextsOK, Asks
<1>2. PICK k : k = Len(calls) + 1
  OBVIOUS
<1>3. /\ calls' \in Seq(CallType) /\ DOMAIN calls' = DOMAIN calls \cup {k} /\ calls'[k] = new
      /\ k \notin DOMAIN calls /\ \A c \in DOMAIN calls : calls'[c] = calls[c]
  BY <1>1, <1>2
<1>4. ContextsOK'
  <2>1. ASSUME NEW c \in DOMAIN calls'
        PROVE  /\ calls'[c].by \in Requests /\ calls'[c].context \in requests[calls'[c].by]
               /\ calls'[c].opener \in Requests \cup {NoContext}
    <3>1. CASE c = k
      BY <1>3, <3>1 DEF Asks
    <3>2. CASE c \in DOMAIN calls
      BY <1>0, <1>3, <3>2 DEF ContextsOK
    <3> QED BY <1>3, <3>1, <3>2
  <2> QED BY <1>0, <1>3, <2>1, ContextsStand
<1>5. CallsOK'
  <2>1. ASSUME NEW c \in DOMAIN calls' PROVE WatchedOK(calls[c])' /\ HeardOK(calls[c])'
    <3>1. PICK call : call = calls'[c]
      OBVIOUS
    <3>2. WatchedOK(call)' /\ HeardOK(call)'
      <4>1. CASE c = k
        BY <1>3, <3>1, <4>1, NewCallIsOK
      <4>2. CASE c \in DOMAIN calls
        <5>1. call = calls[c] /\ call \in CallType
          BY <1>1, <1>3, <3>1, <4>2
        <5>2. WatchedOK(call) /\ HeardOK(call)
          BY <1>0, <4>2, <5>1 DEF CallsOK
        <5> QED BY <5>1, <5>2, CallStands
      <4> QED BY <1>3, <4>1, <4>2
    <3> QED BY <3>1, <3>2, Then
  <2> QED BY <2>1 DEF CallsOK
<1>6. WorkOK'
  <2>1. PICK cs, ds : cs = calls /\ ds = calls'
    OBVIOUS
  <2>2. /\ DOMAIN ds = DOMAIN cs \cup {k}
        /\ \A c \in DOMAIN cs : c # k => ds[c] = cs[c]
        /\ k \in DOMAIN cs => ~MayBeWritten(cs[k])
        /\ ds[k] = new
    BY <1>3, <2>1
  <2>3. Grows(cs, ds, k)
    BY <2>2, OneMore
  <2>4. ~Failing(new)
    BY DEF Asks, Failing
  <2>5. work \in Seq(WorkType) /\ DOMAIN work = Requests /\ Len(requests') = Len(requests)
    BY <1>0 DEF WorkOK, Requests
  <2>6. CASE ~MayBeWritten(new)
    <3>1. work' = work
      <4>1. CASE new.counted # 1
        BY <4>1 DEF Asks
      <4>2. CASE new.counted = 1
        <5>1. new.target \in Excluded
          BY <2>6, <4>2 DEF MayBeWritten, Asks
        <5> QED BY <4>2, <5>1 DEF Asks, RecordIn, Records
      <4> QED BY <4>1, <4>2
    <3>2. \A q : WrittenTo(ds, q) = WrittenTo(cs, q) /\ FailedIn(ds, q) = FailedIn(cs, q)
      BY <2>2, <2>3, <2>6 DEF Grows
    <3>3. \A q : WrittenTo(calls', q) = WrittenTo(calls, q) /\ FailedIn(calls', q) = FailedIn(calls, q)
      BY <2>1, <3>2
    <3> QED BY <1>0, <2>5, <3>1, <3>3, NothingWritten
  <2>7. CASE MayBeWritten(new)
    <3>1. new.counted = 1 /\ new.target \notin Excluded /\ new.context # NoContext
      <4>1. new.counted > 0 /\ new.target \notin Excluded
        BY <2>7 DEF MayBeWritten
      <4>2. new.counted = 1 /\ new.watchers = 1
        BY <4>1 DEF Asks
      <4> QED BY <4>1, <4>2 DEF Asks
    <3>2. PICK context \in Requests : context = new.context
      BY <1>0, <3>1 DEF Asks, ContextsOK
    <3>3. work' = RecordIn(context, new.target, FALSE, FALSE, 1)
      BY <3>1, <3>2 DEF Asks
    <3>9. PICK fails \in BOOLEAN : ~fails
      OBVIOUS
    <3>4. /\ work' \in Seq(WorkType) /\ Len(work') = Len(work)
          /\ \A q \in DOMAIN work : q # context => work'[q] = work[q]
          /\ work'[context].calls = work[context].calls + 1
          /\ work'[context].failures = work[context].failures + IF fails THEN 1 ELSE 0
      <4>1. work' = RecordIn(context, new.target, fails, fails, 1)
        <5>1. fails = FALSE
          BY <3>9
        <5> QED BY <3>3, <5>1, Zenon
      <4> QED BY <2>5, <3>1, <3>2, <4>1, RecordInIs
    <3>5. PICK n \in 0 .. 1 : n = 1
      OBVIOUS
    <3>6. Written(k, context, fails)
      BY <2>1, <2>2, <2>3, <2>4, <2>7, <3>2, <3>9 DEF Written, Grows
    <3>7. /\ work'[context].calls = work[context].calls + n
          /\ work'[context].failures = work[context].failures + IF fails THEN n ELSE 0
      BY <3>4, <3>5
    <3> QED BY <1>0, <2>5, <3>4, <3>5, <3>6, <3>7, <3>9, OneWritten
  <2> QED BY <2>6, <2>7
<1>7. StrayOK'
  <2>1. new.by = r /\ new.context \in requests[r] /\ r \in Requests /\ Requests' = Requests
    BY DEF Asks, Requests
  <2>2. \/ new.context = Own(r)'
        \/ \E d \in 1 .. k - 1 : LeftIn(d, r, new.context)'
    <3>1. new.context = Own(r) \/ \E d \in DOMAIN calls : LeftIn(d, r, new.context)
      BY <1>0, <2>1 DEF StrayOK
    <3>2. \A d \in DOMAIN calls : d \in 1 .. k - 1
      BY <1>1, <1>2
    <3>3. \A d \in DOMAIN calls : LeftIn(d, r, new.context) => LeftIn(d, r, new.context)'
      BY <1>3 DEF LeftIn
    <3> QED BY <3>1, <3>2, <3>3 DEF Own
  <2>3. \A c \in DOMAIN calls' \ DOMAIN calls :
          \/ calls'[c].context = Own(calls[c].by)'
          \/ \E d \in 1 .. c - 1 : LeftIn(d, calls[c].by, calls[c].context)'
    BY <1>3, <2>1, <2>2 DEF Own, LeftIn
  <2> QED BY <1>0, <1>3, <2>1, <2>3, StrayStands
<1> QED BY <1>4, <1>5, <1>6, <1>7 DEF CountingIInv

-----------------------------------------------------------------------------
\* A call changes.

\* The others stand.
LEMMA OthersStand ==
  ASSUME CountingIInv, Frame, starts' = starts, NEW c \in DOMAIN calls, NEW new \in CallType,
         calls' = [calls EXCEPT ![c] = new], WatchedOK(new)', HeardOK(new)'
  PROVE  /\ calls' \in Seq(CallType) /\ DOMAIN calls' = DOMAIN calls /\ calls'[c] = new
         /\ \A d \in DOMAIN calls : d # c => calls'[d] = calls[d]
         /\ CallsOK'
<1>1. calls \in Seq(CallType)
  BY DEF CountingIInv, ContextsOK
<1>2. /\ calls' \in Seq(CallType) /\ DOMAIN calls' = DOMAIN calls /\ calls'[c] = new
      /\ \A d \in DOMAIN calls : d # c => calls'[d] = calls[d]
  BY <1>1
<1>3. ASSUME NEW d \in DOMAIN calls' PROVE WatchedOK(calls[d])' /\ HeardOK(calls[d])'
  <2>1. PICK call : call = calls'[d]
    OBVIOUS
  <2>2. WatchedOK(call)' /\ HeardOK(call)'
    <3>1. CASE d = c
      BY <1>2, <2>1, <3>1
    <3>2. CASE d # c
      <4>1. call = calls[d] /\ call \in CallType
        BY <1>1, <1>2, <2>1, <3>2
      <4>2. WatchedOK(call) /\ HeardOK(call)
        BY <1>2, <4>1 DEF CountingIInv, CallsOK
      <4> QED BY <4>1, <4>2, CallStands
    <3> QED BY <3>1, <3>2
  <2> QED BY <2>1, <2>2, Then
<1>4. CallsOK'
  BY <1>3 DEF CallsOK
<1> QED BY <1>2, <1>4

\* What undici's announcement makes of a call.
Begins(call, new, hears, breaks) ==
  /\ new \in CallType
  /\ new.by = call.by /\ new.part = call.part /\ new.form = call.form /\ new.target = call.target
  /\ new.context = call.context /\ new.opener = call.opener /\ new.wait = call.wait
  /\ new.aside = call.aside /\ new.answer = call.answer /\ new.counted = call.counted
  /\ new.sent /\ new.seen = (call.seen \/ hears)
  /\ new.since = IF hears /\ ~breaks THEN starts ELSE 0
  /\ new.watchers = IF hears /\ ~breaks THEN 1 ELSE call.watchers

\* What a call that is sent does.
LEMMA SentIs ==
  ASSUME TypesOK, ContextsOK, NEW c \in DOMAIN calls, Sent(c)
  PROVE  \E new \in CallType, hears \in BOOLEAN, breaks \in BOOLEAN :
           /\ Begins(calls[c], new, hears, breaks)
           /\ hears = (Sees(calls[c].part) /\ calls[c].context # NoContext)
           /\ calls' = [calls EXCEPT ![c] = new]
           /\ InternalErrors(IF breaks THEN 1 ELSE 0)
<1>1. PICK call \in CallType : call = calls[c]
  BY DEF ContextsOK
<1>2. PICK hears \in BOOLEAN : hears = (Sees(call.part) /\ call.context # NoContext)
  OBVIOUS
<1>3. PICK breaks \in BOOLEAN :
        /\ calls' = [calls EXCEPT ![c] =
             [calls[c] EXCEPT !.sent = TRUE, !.seen = calls[c].seen \/ hears,
                              !.since = IF hears /\ ~breaks THEN starts ELSE 0,
                              !.watchers = IF hears /\ ~breaks THEN 1 ELSE calls[c].watchers]]
        /\ InternalErrors(IF breaks THEN 1 ELSE 0)
  <2>1. PICK breaks \in BOOLEAN :
          LET heard == Sees(calls[c].part) /\ calls[c].context # NoContext
          IN /\ calls' = [calls EXCEPT ![c] =
                  [calls[c] EXCEPT !.sent = TRUE, !.seen = calls[c].seen \/ heard,
                                   !.since = IF heard /\ ~breaks THEN starts ELSE 0,
                                   !.watchers = IF heard /\ ~breaks THEN 1 ELSE calls[c].watchers]]
             /\ InternalErrors(IF breaks THEN 1 ELSE 0)
    <3>1. Watchers(calls[c].part, 1) = 1
      <4>1. calls[c].part \in Part \cup Channel
        BY <1>1 DEF CallType
      <4>2. 1 \in 1 .. IF Behaviour[calls[c].part].nested THEN 2 ELSE 1
        OBVIOUS
      <4> QED BY <4>1, <4>2, OneWatches
    <3> QED BY <3>1 DEF Sent
  <2>2. hears = (Sees(calls[c].part) /\ calls[c].context # NoContext)
    BY <1>1, <1>2
  <2> QED BY <2>1, <2>2, Zenon
<1>4. PICK s \in BOOLEAN : s = (call.seen \/ hears)
  OBVIOUS
<1>5. PICK n \in Nat : n = IF hears /\ ~breaks THEN starts ELSE 0
  BY DEF TypesOK, FlagsOK
<1>6. PICK w \in 0 .. 1 : w = IF hears /\ ~breaks THEN 1 ELSE call.watchers
  BY DEF CallType
<1>7. calls' = [calls EXCEPT ![c] =
                 [call EXCEPT !.sent = TRUE, !.seen = s, !.since = n, !.watchers = w]]
  <2>1. calls' = [calls EXCEPT ![c] =
          [calls[c] EXCEPT !.sent = TRUE, !.seen = calls[c].seen \/ hears,
                           !.since = IF hears /\ ~breaks THEN starts ELSE 0,
                           !.watchers = IF hears /\ ~breaks THEN 1 ELSE calls[c].watchers]]
    BY <1>3
  <2>2. /\ s = (calls[c].seen \/ hears) /\ w = IF hears /\ ~breaks THEN 1 ELSE calls[c].watchers
        /\ call = calls[c]
    BY <1>1, <1>4, <1>6
  <2> QED BY <1>5, <2>1, <2>2, Zenon
<1>8. PICK new \in CallType :
        new = [call EXCEPT !.sent = TRUE, !.seen = s, !.since = n, !.watchers = w]
  <2>1. [call EXCEPT !.sent = TRUE, !.seen = s, !.since = n, !.watchers = w] \in CallType
    BY DEF CallType
  <2> QED BY <2>1
<1>9. Begins(call, new, hears, breaks)
  BY <1>4, <1>5, <1>6, <1>8 DEF Begins, CallType
<1>10. calls' = [calls EXCEPT ![c] = new] /\ InternalErrors(IF breaks THEN 1 ELSE 0)
  BY <1>3, <1>7, <1>8
<1> QED BY <1>1, <1>2, <1>8, <1>9, <1>10

\* It keeps the invariant.
LEMMA SentKeeps ==
  ASSUME TypesOK, CountingIInv, Frame, NEW c \in DOMAIN calls, Sent(c)
  PROVE  CountingIInv'
<1>0. ContextsOK /\ StrayOK /\ CallsOK /\ WorkOK /\ starts' = starts /\ starts \in Nat
  BY DEF CountingIInv, Sent, TypesOK, FlagsOK
<1>1. PICK call \in CallType : call = calls[c]
  BY <1>0 DEF ContextsOK
<1>2. PICK new \in CallType, hears \in BOOLEAN, breaks \in BOOLEAN :
         /\ Begins(call, new, hears, breaks)
         /\ hears = (Sees(call.part) /\ call.context # NoContext)
         /\ calls' = [calls EXCEPT ![c] = new]
         /\ InternalErrors(IF breaks THEN 1 ELSE 0)
  BY <1>0, <1>1, SentIs
<1>3. call.form = "fetch" /\ call.answer = "none" /\ ~call.sent
  BY <1>1 DEF Sent
<1>4. WatchedOK(call) /\ HeardOK(call)
  BY <1>0, <1>1 DEF CallsOK
<1>5. call.counted = 0 /\ ~call.aside
  BY <1>3, <1>4 DEF WatchedOK, CallType
<1>6. /\ new.form = "fetch" /\ new.answer = "none" /\ new.sent /\ new.counted = 0 /\ ~new.aside
      /\ new.context = call.context /\ new.part = call.part /\ new.by = call.by
      /\ new.opener = call.opener
      /\ new.seen = (call.seen \/ hears) /\ new.since \in Nat /\ new.since <= starts
      /\ new.since = (IF hears /\ ~breaks THEN starts ELSE 0)
      /\ new.watchers = IF hears /\ ~breaks THEN 1 ELSE call.watchers
  BY <1>0, <1>2, <1>3, <1>5 DEF Begins
<1>7. WatchedOK(new)'
  <2>1. new.watchers = 1 => new.seen /\ new.context # NoContext
    BY <1>2, <1>4, <1>6 DEF WatchedOK
  <2> QED BY <1>0, <1>6, <2>1 DEF WatchedOK
<1>8. HeardOK(new)'
  <2>1. internalErrors' = 0 => ~breaks /\ internalErrors = 0
    <3>1. internalErrors' = internalErrors + (IF breaks THEN 1 ELSE 0) /\ internalErrors \in Nat
      BY <1>2 DEF InternalErrors, Frame, FlagsOK
    <3> QED BY <3>1
  <2>2. everStopped => everStopped'
    BY DEF Frame
  <2>3. new.seen /\ ~everStopped' => Sees(new.part)'
    <3>1. call.seen /\ ~everStopped => Sees(call.part)
      BY <1>4 DEF HeardOK
    <3>2. new.seen /\ ~everStopped' => Sees(new.part)
      BY <1>2, <1>6, <2>2, <3>1
    <3> QED BY <3>2, SeesStays
  <2>4. internalErrors' = 0 /\ new.seen /\ new.context # NoContext => new.watchers = 1
    BY <1>4, <1>5, <1>6, <2>1 DEF HeardOK
  <2>5. internalErrors' = 0 /\ new.watchers = 1 /\ ~everStopped' => new.since = starts'
    <3>1. call.watchers = 1 /\ ~everStopped' => hears
      BY <1>2, <1>4, <2>2 DEF WatchedOK, HeardOK
    <3> QED BY <1>0, <1>6, <2>1, <3>1
  <2> QED BY <1>6, <2>3, <2>4, <2>5 DEF HeardOK
<1>9. /\ calls' \in Seq(CallType) /\ DOMAIN calls' = DOMAIN calls /\ calls'[c] = new
      /\ \A d \in DOMAIN calls : d # c => calls'[d] = calls[d]
      /\ CallsOK'
  BY <1>0, <1>2, <1>7, <1>8, OthersStand
<1>10. UNCHANGED <<requests, entered, work>>
  BY DEF Sent
<1>11. ContextsOK'
  <2>1. ASSUME NEW d \in DOMAIN calls'
        PROVE  /\ calls'[d].by \in Requests /\ calls'[d].context \in requests[calls'[d].by]
               /\ calls'[d].opener \in Requests \cup {NoContext}
    <3>1. CASE d = c
      BY <1>0, <1>1, <1>6, <1>9, <3>1 DEF ContextsOK
    <3>2. CASE d # c
      BY <1>0, <1>9, <3>2 DEF ContextsOK
    <3> QED BY <3>1, <3>2
  <2> QED BY <1>0, <1>9, <1>10, <2>1, ContextsStand
<1>12. WorkOK'
  <2>1. PICK cs, ds : cs = calls /\ ds = calls'
    OBVIOUS
  <2>2. \A d \in DOMAIN cs : /\ ds[d].context = cs[d].context
                             /\ MayBeWritten(ds[d]) <=> MayBeWritten(cs[d])
                             /\ MayBeWritten(cs[d]) => (Failing(ds[d]) <=> Failing(cs[d]))
    <3>1. ~MayBeWritten(call) /\ ~MayBeWritten(new)
      BY <1>5, <1>6 DEF MayBeWritten
    <3>2. ASSUME NEW d \in DOMAIN cs
          PROVE  /\ ds[d].context = cs[d].context
                 /\ MayBeWritten(ds[d]) <=> MayBeWritten(cs[d])
                 /\ MayBeWritten(cs[d]) => (Failing(ds[d]) <=> Failing(cs[d]))
      <4>1. CASE d = c
        BY <1>1, <1>6, <1>9, <2>1, <3>1, <4>1
      <4>2. CASE d # c
        <5>1. ds[d] = cs[d]
          BY <1>9, <2>1, <4>2
        <5> QED BY <5>1
      <4> QED BY <4>1, <4>2
    <3> QED BY <3>2
  <2>3. \A r : WrittenTo(ds, r) = WrittenTo(cs, r) /\ FailedIn(ds, r) = FailedIn(cs, r)
    BY <1>9, <2>1, <2>2, NoMore
  <2>4. \A r : WrittenTo(calls', r) = WrittenTo(calls, r) /\ FailedIn(calls', r) = FailedIn(calls, r)
    BY <2>1, <2>3
  <2>5. work' = work /\ work \in Seq(WorkType) /\ Len(requests') = Len(requests)
    BY <1>0, <1>10 DEF WorkOK
  <2> QED BY <1>0, <2>4, <2>5, NothingWritten
<1>13. StrayOK'
  <2>1. \A d \in DOMAIN calls :
          /\ d \in DOMAIN calls' /\ calls'[d].by = calls[d].by
          /\ calls'[d].form = calls[d].form /\ calls'[d].opener = calls[d].opener
          /\ calls'[d].context = calls[d].context
          /\ calls[d].answer # "none" => calls'[d].answer # "none"
    <3>1. new.form = call.form /\ new.answer = call.answer
      BY <1>2 DEF Begins
    <3> QED BY <1>1, <1>6, <1>9, <3>1
  <2>2. Requests' = Requests
    BY <1>10 DEF Requests
  <2> QED BY <1>0, <1>9, <1>10, <2>1, <2>2, StrayStands
<1> QED BY <1>9, <1>11, <1>12, <1>13 DEF CountingIInv

-----------------------------------------------------------------------------
\* A call ends.

\* What the end of a call makes of it.
Ends(call, new, outcome, heard, breaks) ==
  /\ new \in CallType
  /\ new.by = call.by /\ new.part = call.part /\ new.form = call.form /\ new.target = call.target
  /\ new.context = call.context /\ new.opener = call.opener /\ new.wait = call.wait
  /\ new.aside = call.aside /\ new.seen = call.seen /\ new.watchers = call.watchers
  /\ new.sent = call.sent /\ new.since = call.since /\ new.before = call.before
  /\ new.answer = IF call.answer = "none" THEN outcome ELSE call.answer
  /\ new.counted = call.counted + IF heard THEN 1 ELSE 0

\* What an answer does.
LEMMA AnsweredIs ==
  ASSUME ContextsOK, NEW c \in DOMAIN calls, NEW outcome \in {"ok", "failed", "refused"},
         Answered(c, outcome)
  PROVE  \E new \in CallType, heard \in BOOLEAN, breaks \in BOOLEAN :
           /\ Ends(calls[c], new, outcome, heard, breaks)
           /\ heard <=> Heard(calls[c], outcome) /\ ~Counted(calls[c])
           /\ breaks => heard
           /\ calls' = [calls EXCEPT ![c] = new]
           /\ heard /\ ~breaks =>
                work' = IF calls[c].wait THEN RecordWaitIn(calls[c].context, calls[c].target)
                        ELSE RecordIn(calls[c].context, calls[c].target, outcome # "ok",
                                      outcome = "failed", 1)
           /\ ~(heard /\ ~breaks) => work' = work
           /\ InternalErrors(IF breaks THEN 1 ELSE 0)
<1>1. PICK call \in CallType : call = calls[c]
  BY DEF ContextsOK
<1>2. PICK heard \in BOOLEAN : heard = (Heard(calls[c], outcome) /\ ~Counted(calls[c]))
  OBVIOUS
<1>3. PICK breaks \in BOOLEAN :
        /\ breaks => heard
        /\ calls' = [calls EXCEPT ![c] =
             [calls[c] EXCEPT !.answer = IF calls[c].answer = "none" THEN outcome ELSE calls[c].answer,
                              !.counted = calls[c].counted + IF heard THEN 1 ELSE 0]]
        /\ work' = IF (IF heard /\ ~breaks THEN calls[c].watchers ELSE 0) = 0 THEN work
                   ELSE IF calls[c].wait THEN RecordWaitIn(calls[c].context, calls[c].target)
                   ELSE RecordIn(calls[c].context, calls[c].target, outcome # "ok", outcome = "failed",
                                 IF heard /\ ~breaks THEN calls[c].watchers ELSE 0)
        /\ InternalErrors(IF breaks THEN 1 ELSE 0)
  <2>1. PICK breaks \in BOOLEAN :
          LET hears == Heard(calls[c], outcome) /\ ~Counted(calls[c])
          IN /\ breaks => hears
             /\ calls' = [calls EXCEPT ![c] =
                  [calls[c] EXCEPT !.answer = IF calls[c].answer = "none" THEN outcome ELSE calls[c].answer,
                                   !.counted = calls[c].counted + IF hears THEN 1 ELSE 0]]
             /\ work' = IF (IF hears /\ ~breaks THEN calls[c].watchers ELSE 0) = 0 THEN work
                        ELSE IF calls[c].wait THEN RecordWaitIn(calls[c].context, calls[c].target)
                        ELSE RecordIn(calls[c].context, calls[c].target, outcome # "ok",
                                      outcome = "failed", IF hears /\ ~breaks THEN calls[c].watchers ELSE 0)
             /\ InternalErrors(IF breaks THEN 1 ELSE 0)
    BY DEF Answered
  <2> QED BY <1>2, <2>1, Zenon
<1>4. PICK a \in {"none", "ok", "failed", "refused"} :
        a = IF call.answer = "none" THEN outcome ELSE call.answer
  BY DEF CallType
<1>5. PICK n \in Nat : n = call.counted + IF heard THEN 1 ELSE 0
  BY DEF CallType
<1>6. calls' = [calls EXCEPT ![c] = [call EXCEPT !.answer = a, !.counted = n]]
  <2>1. /\ a = (IF calls[c].answer = "none" THEN outcome ELSE calls[c].answer)
        /\ n = (calls[c].counted + IF heard THEN 1 ELSE 0) /\ call = calls[c]
    BY <1>1, <1>4, <1>5
  <2> QED BY <1>3, <2>1, Zenon
<1>7. PICK new \in CallType : new = [call EXCEPT !.answer = a, !.counted = n]
  <2>1. [call EXCEPT !.answer = a, !.counted = n] \in CallType
    BY DEF CallType
  <2> QED BY <2>1
<1>8. Ends(call, new, outcome, heard, breaks)
  BY <1>4, <1>5, <1>7 DEF Ends, CallType
<1>9. heard => calls[c].watchers = 1
  <2>1. heard => call.watchers > 0
    BY <1>1, <1>2 DEF Heard
  <2>2. call.watchers \in 0 .. 1
    BY DEF CallType
  <2> QED BY <1>1, <2>1, <2>2
<1>10. /\ heard /\ ~breaks =>
            work' = IF calls[c].wait THEN RecordWaitIn(calls[c].context, calls[c].target)
                    ELSE RecordIn(calls[c].context, calls[c].target, outcome # "ok", outcome = "failed", 1)
       /\ ~(heard /\ ~breaks) => work' = work
  <2>1. CASE heard /\ ~breaks
    <3>1. (IF heard /\ ~breaks THEN calls[c].watchers ELSE 0) = 1
      BY <1>9, <2>1
    <3> QED BY <1>3, <2>1, <3>1
  <2>2. CASE ~(heard /\ ~breaks)
    <3>1. (IF heard /\ ~breaks THEN calls[c].watchers ELSE 0) = 0
      BY <2>2
    <3> QED BY <1>3, <2>2, <3>1
  <2> QED BY <2>1, <2>2
<1> QED BY <1>1, <1>2, <1>3, <1>6, <1>7, <1>8, <1>10

\* A call is what its fields are.
LEMMA SameCall ==
  ASSUME NEW call \in CallType, NEW new \in CallType,
         new.by = call.by, new.part = call.part, new.form = call.form, new.target = call.target,
         new.context = call.context, new.opener = call.opener, new.wait = call.wait,
         new.aside = call.aside, new.seen = call.seen, new.watchers = call.watchers,
         new.sent = call.sent, new.answer = call.answer, new.since = call.since,
         new.before = call.before, new.counted = call.counted
  PROVE  new = call
BY DEF CallType

\* A second end is not heard.
LEMMA AnswerAgainKeeps ==
  ASSUME TypesOK, CountingIInv, Frame, NEW c \in DOMAIN calls, AnswerAgain(c)
  PROVE  /\ UNCHANGED <<calls, work, requests, entered>> /\ starts' = starts
<1>1. ContextsOK /\ CallsOK
  BY DEF CountingIInv
<1>2. PICK call \in CallType : call = calls[c]
  BY <1>1 DEF ContextsOK
<1>3. call.answer # "none" /\ call.form \in {"callback", "channel"} /\ Answered(c, "failed")
  BY <1>2 DEF AnswerAgain
<1>4. PICK outcome \in {"ok", "failed", "refused"} : outcome = "failed"
  OBVIOUS
<1>5. PICK new \in CallType, heard \in BOOLEAN, breaks \in BOOLEAN :
           /\ Ends(call, new, outcome, heard, breaks)
           /\ heard <=> Heard(call, outcome) /\ ~Counted(call)
           /\ breaks => heard
           /\ calls' = [calls EXCEPT ![c] = new]
           /\ ~(heard /\ ~breaks) => work' = work
  <2>1. Answered(c, outcome)
    BY <1>3, <1>4
  <2> QED BY <1>1, <1>2, <2>1, AnsweredIs
<1>6. ~heard
  <2>1. WatchedOK(call)
    BY <1>1, <1>2 DEF CallsOK
  <2>2. call.counted \in Nat /\ call.watchers \in 0 .. 1
    BY DEF CallType
  <2>3. \/ call.counted > 0 \/ call.watchers = 0
        \/ call.form = "channel" /\ ~Subscribed(call)
    BY <1>3, <2>1 DEF WatchedOK
  <2>4. CASE call.counted > 0
    BY <1>5, <2>4 DEF Counted
  <2>5. CASE call.watchers = 0
    BY <1>5, <2>5 DEF Heard
  <2>6. CASE call.form = "channel" /\ ~Subscribed(call)
    BY <1>5, <2>6 DEF Heard
  <2> QED BY <2>3, <2>4, <2>5, <2>6
<1>7. new = call
  <2>1. /\ new.by = call.by /\ new.part = call.part /\ new.form = call.form /\ new.target = call.target
        /\ new.context = call.context /\ new.opener = call.opener /\ new.wait = call.wait
        /\ new.aside = call.aside /\ new.seen = call.seen /\ new.watchers = call.watchers
        /\ new.sent = call.sent /\ new.since = call.since /\ new.before = call.before
        /\ new.answer = call.answer /\ new.counted = call.counted
    <3>1. call.counted \in Nat
      BY DEF CallType
    <3> QED BY <1>3, <1>5, <1>6, <3>1 DEF Ends
  <2> QED BY <2>1, SameCall
<1>8. calls' = calls /\ work' = work
  BY <1>1, <1>2, <1>5, <1>6, <1>7 DEF ContextsOK
<1> QED BY <1>8 DEF AnswerAgain

\* The call itself, after its answer: it is counted if somebody was there to hear it.
LEMMA AnsweredCallIsOK ==
  ASSUME Frame, starts' = starts, NEW call \in CallType, WatchedOK(call), HeardOK(call),
         started \/ everStopped,
         NEW outcome \in {"ok", "failed", "refused"}, outcome \in Outcomes(call),
         call.answer = "none", call.form = "fetch" /\ ~call.sent => outcome = "failed",
         NEW new \in CallType, NEW heard \in BOOLEAN, NEW breaks \in BOOLEAN,
         Ends(call, new, outcome, heard, breaks),
         heard <=> Heard(call, outcome) /\ ~Counted(call),
         InternalErrors(IF breaks THEN 1 ELSE 0)
  PROVE  WatchedOK(new)' /\ HeardOK(new)'
<1>1. /\ new.part = call.part /\ new.form = call.form
      /\ new.context = call.context /\ new.wait = call.wait
      /\ new.aside = call.aside /\ new.seen = call.seen /\ new.watchers = call.watchers
      /\ new.sent = call.sent /\ new.since = call.since
      /\ new.answer = outcome /\ new.answer # "none"
      /\ new.counted = call.counted + IF heard THEN 1 ELSE 0
      /\ new.counted \in Nat /\ call.counted \in Nat /\ call.watchers \in 0 .. 1
      /\ call.since \in Nat /\ starts \in Nat
  BY DEF Ends, CallType, Frame, FlagsOK
<1>2. new.counted > 0 <=> call.counted > 0 \/ heard
  BY <1>1
<1>3. heard => call.watchers = 1
  <2>1. heard => call.watchers > 0
    BY DEF Heard
  <2> QED BY <1>1, <2>1
<1>4. Counted(call) <=> call.counted > 0
  BY DEF Counted
<1>5. /\ call.form \notin {"channel", "fetch"} /\ call.watchers = 1 => new.counted > 0
      /\ call.form \in {"channel", "fetch"} /\ call.watchers = 1 /\ Subscribed(call) => new.counted > 0
  <2>1. CASE call.form = "channel"
    BY <1>1, <1>2, <1>4, <2>1 DEF Heard
  <2>2. CASE call.form = "fetch"
    BY <1>1, <1>2, <1>4, <2>2 DEF Heard
  <2>3. CASE call.form \notin {"channel", "fetch"}
    BY <1>1, <1>2, <1>4, <2>3 DEF Heard
  <2> QED BY <2>1, <2>2, <2>3
<1>6. ~Subscribed(call) => ~Subscribed(new)'
  BY <1>1 DEF Frame, FlagsOK, Subscribed
<1>7. WatchedOK(new)'
  <2>1. new.watchers = 1 => new.seen /\ ~new.aside /\ new.context # NoContext
    BY <1>1 DEF WatchedOK
  <2>2. new.counted > 0 => new.watchers = 1 /\ (new.answer # "none" \/ new.form = "events")
    BY <1>1, <1>2, <1>3 DEF WatchedOK
  <2>3. new.form = "events" => /\ new.watchers = 1 => new.counted > 0
                               /\ ~new.wait /\ new.answer \in {"none", "ok"}
    <3>1. call.form = "events" => outcome = "ok" /\ ~call.wait
      BY DEF Outcomes, WatchedOK
    <3> QED BY <1>1, <1>5, <3>1
  <2>4. new.form \in {"callback", "channel"} /\ new.answer # "none" =>
          \/ new.counted > 0 \/ new.watchers = 0
          \/ new.form = "channel" /\ ~Subscribed(new)'
    BY <1>1, <1>5, <1>6
  <2>5. new.since <= starts'
    BY <1>1 DEF WatchedOK
  <2>6. new.form = "fetch" => ~new.aside
    BY <1>1 DEF WatchedOK
  <2> QED BY <2>1, <2>2, <2>3, <2>4, <2>5, <2>6 DEF WatchedOK
<1>8. HeardOK(new)'
  <2>1. internalErrors' = 0 => internalErrors = 0
    BY DEF Frame
  <2>2. everStopped => everStopped'
    BY DEF Frame
  <2>3. new.seen /\ ~everStopped' => Sees(new.part)'
    <3>1. new.seen /\ ~everStopped' => Sees(new.part)
      BY <1>1, <2>2 DEF HeardOK
    <3> QED BY <3>1, SeesStays
  <2>4. internalErrors' = 0 =>
          /\ new.seen /\ ~new.aside /\ new.context # NoContext => new.watchers = 1
          /\ new.watchers = 1 /\ ~everStopped' =>
               /\ new.form = "channel" => new.since = starts'
               /\ new.form = "fetch" /\ new.sent => new.since = starts'
    BY <1>1, <2>1, <2>2 DEF HeardOK
  <2>5. ASSUME internalErrors' = 0, new.watchers = 1
        PROVE  \/ new.counted > 0
               \/ new.form \in {"channel", "fetch"} /\ everStopped'
               \/ new.form = "fetch" /\ ~new.sent
    <3>1. CASE call.form \notin {"channel", "fetch"}
      BY <1>1, <1>5, <2>5, <3>1
    <3>2. CASE call.form = "channel" \/ (call.form = "fetch" /\ call.sent)
      <4>1. CASE everStopped'
        BY <1>1, <3>2, <4>1
      <4>2. CASE ~everStopped'
        <5>1. call.since = starts /\ started
          BY <1>1, <2>2, <2>4, <2>5, <3>2, <4>2
        <5> QED BY <1>1, <1>5, <2>5, <3>2, <5>1 DEF Subscribed
      <4> QED BY <4>1, <4>2
    <3>3. CASE call.form = "fetch" /\ ~call.sent
      BY <1>1, <3>3
    <3> QED BY <3>1, <3>2, <3>3
  <2> QED BY <2>3, <2>4, <2>5 DEF HeardOK
<1> QED BY <1>7, <1>8

\* Where the code of the request goes on.
LEMMA AnswerContexts ==
  ASSUME ContextsOK, Frame, NEW c \in DOMAIN calls,
         NEW call \in CallType, call = calls[c],
         requests' = [requests EXCEPT ![call.by] = @ \cup {Lands(call)}],
         entered' = entered, starts' = starts,
         calls' \in Seq(CallType), DOMAIN calls' = DOMAIN calls,
         \A d \in DOMAIN calls : /\ calls'[d].by = calls[d].by
                                 /\ calls'[d].context = calls[d].context
                                 /\ calls'[d].opener = calls[d].opener
  PROVE  ContextsOK' /\ Len(requests') = Len(requests)
<1>1. PICK b \in Requests : b = call.by
  BY DEF ContextsOK
<1>2. PICK x \in Requests \cup {NoContext} : x = Lands(call)
  BY DEF ContextsOK, Lands
<1>3. requests \in Seq(SUBSET Nat) /\ b \in DOMAIN requests /\ x \in Nat
  BY DEF ContextsOK, Requests, NoContext
<1>4. requests' = [requests EXCEPT ![b] = @ \cup {x}]
  BY <1>1, <1>2
<1>5. /\ requests' \in Seq(SUBSET Nat) /\ Len(requests') = Len(requests)
      /\ requests'[b] = requests[b] \cup {x}
      /\ \A r \in DOMAIN requests : r # b => requests'[r] = requests[r]
  <2>1. PICK T : T = SUBSET Nat
    OBVIOUS
  <2>2. requests \in Seq(T) /\ b \in DOMAIN requests
    BY <1>3, <2>1
  <2>3. requests[b] \in T
    BY <2>2
  <2>4. requests[b] \cup {x} \in T
    BY <1>3, <2>1, <2>3
  <2>5. PICK s \in T : s = requests[b] \cup {x}
    BY <2>4
  <2>6. requests' = [requests EXCEPT ![b] = s]
    BY <1>4, <2>5
  <2>7. /\ requests' \in Seq(T) /\ Len(requests') = Len(requests) /\ requests'[b] = s
        /\ \A r \in DOMAIN requests : r # b => requests'[r] = requests[r]
    <3>1. PICK q \in Seq(T) : q = requests
      BY <2>2
    <3>2. PICK t : t = requests'
      OBVIOUS
    <3>3. b \in DOMAIN q /\ t = [q EXCEPT ![b] = s]
      BY <2>2, <2>6, <3>1, <3>2
    <3>4. /\ t \in Seq(T) /\ Len(t) = Len(q) /\ t[b] = s
          /\ \A r \in DOMAIN q : r # b => t[r] = q[r]
      BY <3>3, OneChanged
    <3> QED BY <3>1, <3>2, <3>4
  <2> QED BY <2>1, <2>5, <2>7
<1>6. Requests' = Requests /\ Requests = DOMAIN requests
  BY <1>3, <1>5 DEF Requests
<1>7. \A r \in Requests : requests'[r] \subseteq Requests \cup {NoContext}
  BY <1>2, <1>5, <1>6 DEF ContextsOK
<1>9. requests' # <<>> => started' \/ everStopped'
  <2>1. requests # <<>>
    BY <1>3
  <2> QED BY <2>1 DEF ContextsOK, Frame, FlagsOK
<1>10. \A d \in DOMAIN calls' :
         /\ calls'[d].by \in Requests /\ calls'[d].context \in requests'[calls'[d].by]
         /\ calls'[d].opener \in Requests \cup {NoContext}
  <2>1. ASSUME NEW d \in DOMAIN calls
        PROVE  /\ calls'[d].by \in Requests /\ calls'[d].context \in requests'[calls'[d].by]
               /\ calls'[d].opener \in Requests \cup {NoContext}
    <3>1. /\ calls[d].by \in Requests /\ calls[d].context \in requests[calls[d].by]
          /\ calls[d].opener \in Requests \cup {NoContext}
      BY DEF ContextsOK
    <3>2. requests[calls[d].by] \subseteq requests'[calls[d].by]
      BY <1>5, <1>6, <3>1
    <3> QED BY <3>1, <3>2
  <2> QED BY <2>1
<1> QED BY <1>5, <1>6, <1>7, <1>9, <1>10 DEF ContextsOK

\* What is written of the call: as much as is heard of its end.
LEMMA AnswerWork ==
  ASSUME CountingIInv, Frame, NEW c \in DOMAIN calls, Len(requests') = Len(requests),
         NEW call \in CallType, call = calls[c], call.answer = "none",
         NEW outcome \in {"ok", "failed", "refused"}, outcome \in Outcomes(call),
         NEW new \in CallType, NEW heard \in BOOLEAN, NEW breaks \in BOOLEAN,
         Ends(call, new, outcome, heard, breaks),
         heard <=> Heard(call, outcome) /\ ~Counted(call),
         breaks => heard,
         DOMAIN calls' = DOMAIN calls, calls'[c] = new,
         \A d \in DOMAIN calls : d # c => calls'[d] = calls[d],
         heard /\ ~breaks =>
           work' = IF call.wait THEN RecordWaitIn(call.context, call.target)
                   ELSE RecordIn(call.context, call.target, outcome # "ok", outcome = "failed", 1),
         ~(heard /\ ~breaks) => work' = work,
         InternalErrors(IF breaks THEN 1 ELSE 0)
  PROVE  WorkOK'
<1>0. ContextsOK /\ CallsOK /\ WorkOK
  BY DEF CountingIInv
<1>1. /\ new.context = call.context /\ new.target = call.target /\ new.wait = call.wait
      /\ new.answer = outcome /\ new.counted = call.counted + IF heard THEN 1 ELSE 0
      /\ call.counted \in Nat /\ call.wait \in BOOLEAN /\ call.watchers \in 0 .. 1
  BY DEF Ends, CallType
<1>2. WatchedOK(call)
  BY <1>0 DEF CallsOK
<1>3. heard => call.counted = 0 /\ call.watchers = 1 /\ call.context # NoContext
  BY <1>1, <1>2 DEF Heard, Counted, WatchedOK
<1>4. call.counted > 0 => call.form = "events" /\ outcome = "ok"
  BY <1>2 DEF WatchedOK, Outcomes
<1>5. PICK cs, ds : cs = calls /\ ds = calls'
  OBVIOUS
<1>6. /\ DOMAIN ds = DOMAIN cs /\ ds[c] = new /\ cs[c] = call /\ c \in DOMAIN cs
      /\ \A d \in DOMAIN cs : d # c => ds[d] = cs[d]
  BY <1>5
<1>7. work \in Seq(WorkType) /\ DOMAIN work = Requests
  BY <1>0 DEF WorkOK, Requests
<1>8. PICK context \in DOMAIN work \cup {NoContext} : context = call.context
  BY <1>0, <1>7 DEF ContextsOK
<1>9. PICK target : target = call.target
  OBVIOUS
<1>10. CASE ~(heard /\ ~call.wait /\ call.target \notin Excluded)
  <2>1. (MayBeWritten(new) <=> MayBeWritten(call)) /\ (MayBeWritten(call) => (Failing(new) <=> Failing(call)))
    <3>1. CASE heard
      BY <1>1, <1>3, <1>10, <3>1 DEF MayBeWritten
    <3>2. CASE ~heard
      BY <1>1, <1>4, <3>2 DEF MayBeWritten, Failing
    <3> QED BY <3>1, <3>2
  <2>2. ASSUME NEW d \in DOMAIN cs
        PROVE  /\ ds[d].context = cs[d].context
               /\ MayBeWritten(ds[d]) <=> MayBeWritten(cs[d])
               /\ MayBeWritten(cs[d]) => (Failing(ds[d]) <=> Failing(cs[d]))
    <3>1. CASE d = c
      BY <1>1, <1>6, <2>1, <3>1
    <3>2. CASE d # c
      <4>1. ds[d] = cs[d]
        BY <1>6, <3>2
      <4> QED BY <4>1
    <3> QED BY <3>1, <3>2
  <2>3. \A r : WrittenTo(ds, r) = WrittenTo(cs, r) /\ FailedIn(ds, r) = FailedIn(cs, r)
    BY <1>6, <2>2, NoMore
  <2>4. \A r : WrittenTo(calls', r) = WrittenTo(calls, r) /\ FailedIn(calls', r) = FailedIn(calls, r)
    BY <1>5, <2>3
  <2>5. /\ work' \in Seq(WorkType) /\ Len(work') = Len(work)
        /\ \A r \in DOMAIN work : work'[r].calls = work[r].calls /\ work'[r].failures = work[r].failures
    <3>1. CASE work' = work
      BY <1>7, <3>1
    <3>2. CASE heard /\ ~breaks /\ call.wait
      <4>1. work' = RecordWaitIn(context, target)
        BY <1>8, <1>9, <3>2
      <4>2. PICK w : w = work'
        OBVIOUS
      <4>3. /\ w \in Seq(WorkType) /\ Len(w) = Len(work) /\ DOMAIN w = DOMAIN work
            /\ \A r \in DOMAIN work : w[r].calls = work[r].calls /\ w[r].failures = work[r].failures
        BY <1>7, <1>8, <4>1, <4>2, RecordWaitIs
      <4> QED BY <4>2, <4>3
    <3>3. CASE heard /\ ~breaks /\ ~call.wait
      <4>1. work' = work
        BY <1>10, <3>3 DEF RecordIn, Records
      <4> QED BY <1>7, <4>1
    <3> QED BY <3>1, <3>2, <3>3
  <2> QED BY <1>0, <2>4, <2>5, NothingWritten
<1>11. CASE heard /\ ~call.wait /\ call.target \notin Excluded
  <2>1. ~MayBeWritten(call) /\ MayBeWritten(new)
    BY <1>1, <1>3, <1>11 DEF MayBeWritten
  <2>2. Grows(cs, ds, c)
    <3>1. DOMAIN ds = DOMAIN cs \cup {c}
      BY <1>6
    <3>2. c \in DOMAIN cs => ~MayBeWritten(cs[c])
      BY <1>6, <2>1
    <3> QED BY <1>6, <3>1, <3>2, OneMore
  <2>3. context \in Requests /\ new.context = context
    BY <1>1, <1>3, <1>7, <1>8, <1>11
  <2>4. PICK fails \in BOOLEAN : fails <=> outcome # "ok"
    OBVIOUS
  <2>5. Failing(new) <=> fails
    BY <1>1, <2>4 DEF Failing
  <2>6. Written(c, context, fails)
    BY <1>5, <1>6, <2>1, <2>2, <2>3, <2>5 DEF Written, Grows
  <2>7. work[context] \in WorkType
    BY <1>7, <2>3
  <2>8. CASE breaks
    <3>1. work' = work
      BY <2>8
    <3>2. internalErrors' # 0
      <4>1. internalErrors' = internalErrors + (IF breaks THEN 1 ELSE 0) /\ internalErrors \in Nat
        BY DEF InternalErrors, Frame, FlagsOK
      <4> QED BY <2>8, <4>1
    <3>3. PICK n \in 0 .. 1 : n = 0
      OBVIOUS
    <3>4. /\ work'[context].calls = work[context].calls + n
          /\ work'[context].failures = work[context].failures + IF fails THEN n ELSE 0
      <4>1. PICK a \in Nat, b \in Nat : a = work[context].calls /\ b = work[context].failures
        BY <2>7 DEF WorkType
      <4>2. a + n = a /\ b + (IF fails THEN n ELSE 0) = b
        BY <3>3
      <4>3. work'[context].calls = a /\ work'[context].failures = b
        BY <3>1, <4>1
      <4> QED BY <4>1, <4>2, <4>3
    <3> QED BY <1>0, <1>7, <2>3, <2>6, <3>1, <3>2, <3>4, OneWritten, ZenonT(40)
  <2>9. CASE ~breaks
    <3>1. PICK signed \in BOOLEAN : signed <=> outcome = "failed"
      OBVIOUS
    <3>2. work' = RecordIn(context, target, fails, signed, 1)
      <4>1. work' = RecordIn(call.context, call.target, outcome # "ok", outcome = "failed", 1)
        BY <1>11, <2>9
      <4>2. fails = (outcome # "ok") /\ signed = (outcome = "failed")
        BY <2>4, <3>1
      <4> QED BY <1>8, <1>9, <4>1, <4>2, Zenon
    <3>3. /\ work' \in Seq(WorkType) /\ Len(work') = Len(work)
          /\ \A r \in DOMAIN work : r # context => work'[r] = work[r]
          /\ work'[context].calls = work[context].calls + 1
          /\ work'[context].failures = work[context].failures + IF fails THEN 1 ELSE 0
      BY <1>7, <1>9, <1>11, <2>3, <3>2, RecordInIs
    <3>4. PICK n \in 0 .. 1 : n = 1
      OBVIOUS
    <3>5. /\ work'[context].calls = work[context].calls + n
          /\ work'[context].failures = work[context].failures + IF fails THEN n ELSE 0
      BY <3>3, <3>4
    <3> QED BY <1>0, <2>3, <2>6, <3>3, <3>4, <3>5, OneWritten
  <2> QED BY <2>8, <2>9
<1> QED BY <1>10, <1>11

\* It keeps the invariant.
LEMMA AnswerKeeps ==
  ASSUME TypesOK, CountingIInv, Frame, NEW c \in DOMAIN calls,
         NEW outcome \in {"ok", "failed", "refused"}, Answer(c, outcome)
  PROVE  CountingIInv'
<1>0. ContextsOK /\ StrayOK /\ CallsOK /\ WorkOK
  BY DEF CountingIInv
<1>1. PICK call \in CallType : call = calls[c]
  BY <1>0 DEF ContextsOK
<1>2. /\ call.answer = "none" /\ outcome \in Outcomes(call)
      /\ call.form = "fetch" /\ ~call.sent => outcome = "failed"
      /\ Answered(c, outcome)
      /\ requests' = [requests EXCEPT ![call.by] = @ \cup {Lands(call)}]
      /\ entered' = entered /\ starts' = starts
  BY <1>1 DEF Answer
<1>3. PICK new \in CallType, heard \in BOOLEAN, breaks \in BOOLEAN :
        /\ Ends(call, new, outcome, heard, breaks)
        /\ heard <=> Heard(call, outcome) /\ ~Counted(call)
        /\ breaks => heard
        /\ calls' = [calls EXCEPT ![c] = new]
        /\ heard /\ ~breaks =>
             work' = IF call.wait THEN RecordWaitIn(call.context, call.target)
                     ELSE RecordIn(call.context, call.target, outcome # "ok", outcome = "failed", 1)
        /\ ~(heard /\ ~breaks) => work' = work
        /\ InternalErrors(IF breaks THEN 1 ELSE 0)
  BY <1>0, <1>1, <1>2, AnsweredIs
<1>4. started \/ everStopped
  <2>1. call.by \in Requests
    BY <1>0, <1>1 DEF ContextsOK
  <2>2. requests # <<>>
    BY <2>1 DEF Requests
  <2> QED BY <1>0, <2>2 DEF ContextsOK
<1>5. WatchedOK(call) /\ HeardOK(call)
  BY <1>0, <1>1 DEF CallsOK
<1>6. WatchedOK(new)' /\ HeardOK(new)'
  BY <1>2, <1>3, <1>4, <1>5, AnsweredCallIsOK
<1>7. /\ calls' \in Seq(CallType) /\ DOMAIN calls' = DOMAIN calls /\ calls'[c] = new
      /\ \A d \in DOMAIN calls : d # c => calls'[d] = calls[d]
      /\ CallsOK'
  BY <1>2, <1>3, <1>6, OthersStand
<1>8. \A d \in DOMAIN calls : /\ calls'[d].by = calls[d].by
                              /\ calls'[d].context = calls[d].context
                              /\ calls'[d].opener = calls[d].opener
  <2>1. new.by = call.by /\ new.context = call.context /\ new.opener = call.opener
    BY <1>3 DEF Ends
  <2> QED BY <1>1, <1>7, <2>1
<1>9. ContextsOK' /\ Len(requests') = Len(requests)
  BY <1>0, <1>1, <1>2, <1>7, <1>8, AnswerContexts
<1>10. WorkOK'
  BY <1>1, <1>2, <1>3, <1>7, <1>9, AnswerWork
<1>11. StrayOK'
  <2>1. PICK b, x : b \in Requests /\ b = call.by /\ x = Lands(call)
    BY <1>0, <1>1 DEF ContextsOK
  <2>2. /\ Requests' = Requests /\ b \in DOMAIN requests
        /\ \A r \in Requests : requests'[r] = IF r = b THEN requests[r] \cup {x} ELSE requests[r]
    <3>1. PICK q, t : q = requests /\ t = requests'
      OBVIOUS
    <3>2. q \in Seq(SUBSET Nat) /\ b \in DOMAIN q /\ t = [q EXCEPT ![b] = @ \cup {x}]
      BY <1>0, <1>2, <2>1, <3>1 DEF Requests, ContextsOK
    <3>3. Len(t) = Len(q) /\ DOMAIN q = 1 .. Len(q)
      BY <1>9, <3>1, <3>2
    <3>4. \A r \in DOMAIN q : t[r] = IF r = b THEN q[r] \cup {x} ELSE q[r]
      BY <3>2
    <3> QED BY <3>1, <3>2, <3>3, <3>4 DEF Requests
  <2>3. \A d \in DOMAIN calls :
          /\ d \in DOMAIN calls' /\ calls'[d].by = calls[d].by
          /\ calls'[d].form = calls[d].form /\ calls'[d].opener = calls[d].opener
          /\ calls'[d].context = calls[d].context
          /\ calls[d].answer # "none" => calls'[d].answer # "none"
    <3>1. new.form = call.form /\ new.answer = outcome /\ outcome # "none"
      BY <1>2, <1>3 DEF Ends
    <3> QED BY <1>1, <1>7, <1>8, <3>1
  <2>4. x \in requests[b] \/ LeftIn(c, b, x)'
    <3>1. CASE call.form = "socket"
      <4>1. new.by = b /\ new.form = "socket" /\ new.answer # "none" /\ new.opener = x
        BY <1>2, <1>3, <2>1, <3>1 DEF Ends, Lands
      <4> QED BY <1>7, <4>1 DEF LeftIn
    <3>2. CASE call.form # "socket"
      BY <1>0, <1>1, <2>1, <3>2 DEF Lands, ContextsOK
    <3> QED BY <3>1, <3>2
  <2>5. \A r \in Requests' : \A y \in requests'[r] :
          \/ r \in Requests /\ y \in requests[r]
          \/ \E d \in DOMAIN calls' : LeftIn(d, r, y)'
    BY <1>7, <2>2, <2>4
  <2> QED BY <1>0, <1>2, <1>7, <2>2, <2>3, <2>5, StrayStands
<1> QED BY <1>7, <1>9, <1>10, <1>11 DEF CountingIInv

-----------------------------------------------------------------------------
\* The steps that leave the calls alone.

\* A step that changes none of what is counted keeps it.
LEMMA CountingFrame ==
  ASSUME CountingIInv, Frame, UNCHANGED <<calls, work, requests, entered>>
  PROVE  CountingIInv'
<1>0. ContextsOK /\ StrayOK /\ CallsOK /\ WorkOK
  BY DEF CountingIInv
<1>1. Requests' = Requests
  BY DEF Requests
<1>2. ContextsOK'
  <2>1. requests' # <<>> => started' \/ everStopped'
    BY <1>0 DEF ContextsOK, Frame, FlagsOK
  <2> QED BY <1>0, <1>1, <2>1 DEF ContextsOK
<1>3. CallsOK'
  <2>1. ASSUME NEW c \in DOMAIN calls' PROVE WatchedOK(calls[c])' /\ HeardOK(calls[c])'
    <3>1. PICK call \in CallType : call = calls'[c] /\ call = calls[c]
      BY <1>0 DEF ContextsOK
    <3>2. WatchedOK(call) /\ HeardOK(call)
      BY <1>0, <3>1 DEF CallsOK
    <3>3. starts' = starts \/ everStopped'
      <4>1. call.by \in Requests
        BY <1>0, <3>1 DEF ContextsOK
      <4>2. started \/ everStopped
        BY <1>0, <4>1 DEF ContextsOK, Requests
      <4> QED BY <4>2 DEF Frame, FlagsOK
    <3>4. WatchedOK(call)' /\ HeardOK(call)'
      BY <3>2, <3>3, CallStands
    <3> QED BY <3>1, <3>4, Then
  <2> QED BY <2>1 DEF CallsOK
<1>4. WorkOK'
  <2>1. /\ work' \in Seq(WorkType) /\ Len(work') = Len(work) /\ Len(requests') = Len(requests)
        /\ \A r \in DOMAIN work : work'[r].calls = work[r].calls /\ work'[r].failures = work[r].failures
        /\ \A r : WrittenTo(calls', r) = WrittenTo(calls, r) /\ FailedIn(calls', r) = FailedIn(calls, r)
    BY <1>0 DEF WorkOK
  <2> QED BY <1>0, <2>1, NothingWritten
<1>5. StrayOK'
  BY <1>0, <1>1 DEF StrayOK, Own, LeftIn
<1> QED BY <1>2, <1>3, <1>4, <1>5 DEF CountingIInv

\* A request starts with nothing written.
LEMMA RequestCounts ==
  ASSUME CountingIInv, Frame, NEW failing, RequestStarts(failing)
  PROVE  CountingIInv'
<1>0. ContextsOK /\ StrayOK /\ CallsOK /\ WorkOK
  BY DEF CountingIInv
<1>1. PICK q \in Seq(SUBSET Nat), n \in Nat : q = requests /\ n = Len(requests)
  BY <1>0 DEF ContextsOK
<1>2. PICK r \in Nat : r = n + 1
  OBVIOUS
<1>3. PICK own \in {r, NoContext} : own = IF Instrumented THEN r ELSE NoContext
  OBVIOUS
<1>4. /\ requests' = Append(q, {own}) /\ entered' = IF Instrumented THEN entered \cup {r} ELSE entered
      /\ work' = Append(work, NoWork)
      /\ calls' = calls /\ starts' = starts
      /\ started
  BY <1>1, <1>2, <1>3 DEF RequestStarts
<1>5. /\ requests' \in Seq(SUBSET Nat) /\ Len(requests') = r /\ requests'[r] = {own}
      /\ \A p \in Requests : requests'[p] = requests[p]
      /\ Requests = 1 .. n /\ Requests' = Requests \cup {r} /\ r \notin Requests
  <2>1. {own} \in SUBSET Nat
    BY DEF NoContext
  <2>2. PICK s \in SUBSET Nat : s = {own}
    BY <2>1
  <2>3. PICK t : t = requests'
    OBVIOUS
  <2>4. t = Append(q, s)
    BY <1>4, <2>2, <2>3
  <2>5. PICK T : T = SUBSET Nat
    OBVIOUS
  <2>6. q \in Seq(T) /\ s \in T /\ Len(q) = n
    BY <1>1, <2>5
  <2>7. t \in Seq(T) /\ Len(t) = r /\ t[r] = s /\ \A p \in 1 .. n : t[p] = q[p]
    BY <1>2, <2>4, <2>6
  <2>8. Requests = 1 .. n /\ Requests' = 1 .. r
    BY <1>1, <2>3, <2>7 DEF Requests
  <2>9. 1 .. r = (1 .. n) \cup {r} /\ r \notin 1 .. n
    BY <1>2
  <2> QED BY <1>1, <2>2, <2>3, <2>5, <2>7, <2>8, <2>9
<1>6. ContextsOK'
  <2>1. ASSUME NEW p \in Requests' PROVE requests'[p] \subseteq Requests' \cup {NoContext}
    BY <1>0, <1>3, <1>5 DEF ContextsOK
  <2>2. entered' \subseteq Requests'
    BY <1>0, <1>4, <1>5 DEF ContextsOK
  <2>4. requests' # <<>> => started' \/ everStopped'
    BY <1>4 DEF Frame
  <2>5. \A c \in DOMAIN calls' :
          /\ calls'[c].by \in Requests' /\ calls'[c].context \in requests'[calls'[c].by]
          /\ calls'[c].opener \in Requests' \cup {NoContext}
    BY <1>0, <1>4, <1>5 DEF ContextsOK
  <2>6. calls' \in Seq(CallType)
    BY <1>0, <1>4 DEF ContextsOK
  <2> QED BY <1>5, <2>1, <2>2, <2>4, <2>5, <2>6 DEF ContextsOK
<1>7. CallsOK'
  <2>1. ASSUME NEW c \in DOMAIN calls' PROVE WatchedOK(calls[c])' /\ HeardOK(calls[c])'
    <3>1. PICK call \in CallType : call = calls'[c] /\ call = calls[c]
      BY <1>0, <1>4 DEF ContextsOK
    <3>2. WatchedOK(call) /\ HeardOK(call)
      BY <1>0, <1>4, <3>1 DEF CallsOK
    <3>3. WatchedOK(call)' /\ HeardOK(call)'
      BY <1>4, <3>2, CallStands
    <3> QED BY <3>1, <3>3, Then
  <2> QED BY <2>1 DEF CallsOK
<1>8. WorkOK'
  <2>1. work \in Seq(WorkType) /\ Len(work) = n
    BY <1>0, <1>1 DEF WorkOK
  <2>2. PICK v \in Seq(WorkType) : v = work
    BY <2>1
  <2>3. PICK w : w = Append(v, NoWork)
    OBVIOUS
  <2>4. w \in Seq(WorkType)
    <3>1. PICK x \in WorkType : x = NoWork
      BY DEF NoWork, WorkType
    <3> QED BY <2>3, <3>1
  <2>10. work' = w /\ v = work /\ Len(v) = n
    BY <1>4, <2>1, <2>2, <2>3
  <2>5. Len(w) = r /\ w[r] = NoWork /\ \A p \in 1 .. n : w[p] = v[p]
    BY <1>2, <2>2, <2>3, <2>10
  <2>6. WrittenTo(calls, r) = {} /\ FailedIn(calls, r) = {}
    <3>1. \A c \in DOMAIN calls : calls[c].context \in Requests \cup {NoContext}
      BY <1>0 DEF ContextsOK
    <3>2. r # NoContext
      BY <1>2 DEF NoContext
    <3> QED BY <1>5, <3>1, <3>2 DEF WrittenTo, FailedIn
  <2>7. Cardinality(WrittenTo(calls, r)) = 0 /\ Cardinality(FailedIn(calls, r)) = 0
    BY <2>6, FS_EmptySet
  <2>8. ASSUME NEW p \in Requests'
        PROVE  /\ work'[p].calls <= Cardinality(WrittenTo(calls', p))
               /\ work'[p].failures <= Cardinality(FailedIn(calls', p))
               /\ internalErrors' = 0 => /\ work'[p].calls = Cardinality(WrittenTo(calls', p))
                                         /\ work'[p].failures = Cardinality(FailedIn(calls', p))
    <3>1. CASE p = r
      <4>1. work'[p].calls = 0 /\ work'[p].failures = 0
        BY <2>10, <2>5, <3>1 DEF NoWork
      <4> QED BY <1>4, <2>7, <3>1, <4>1
    <3>2. CASE p \in Requests
      <4>1. work'[p] = work[p]
        BY <1>5, <2>10, <2>5, <3>2
      <4> QED BY <1>0, <1>4, <3>2, <4>1 DEF WorkOK, Frame
    <3> QED BY <1>5, <3>1, <3>2
  <2> QED BY <1>5, <2>10, <2>4, <2>5, <2>8 DEF WorkOK
<1>9. StrayOK'
  <2>1. \A p \in Requests : p \in entered' <=> p \in entered
    BY <1>4, <1>5
  <2>2. own = Own(r)'
    <3>1. r \notin entered
      BY <1>0, <1>5 DEF ContextsOK
    <3> QED BY <1>3, <1>4, <3>1 DEF Own
  <2>3. \A p \in Requests' : \A x \in requests'[p] :
          \/ p \in Requests /\ x \in requests[p]
          \/ x = Own(p)'
    BY <1>5, <2>2
  <2>4. calls \in Seq(CallType)
    BY <1>0 DEF ContextsOK
  <2> QED BY <1>0, <1>4, <1>5, <2>1, <2>3, <2>4, StrayStands
<1> QED BY <1>6, <1>7, <1>8, <1>9 DEF CountingIInv

-----------------------------------------------------------------------------

IInv == ArmingIInv /\ CountingIInv

\* The counting invariant holds at first.
LEMMA CountingInit ==
  ASSUME Init
  PROVE  CountingIInv
<1>1. /\ requests = <<>> /\ entered = {} /\ calls = <<>> /\ work = <<>> /\ Requests = {}
  BY DEF Init, Requests
<1>2. ContextsOK /\ CallsOK
  BY <1>1 DEF ContextsOK, CallsOK
<1>3. WorkOK /\ StrayOK
  BY <1>1 DEF WorkOK, StrayOK
<1> QED BY <1>2, <1>3 DEF CountingIInv

\* Every step keeps it.
LEMMA CountingStep ==
  ASSUME IInv, [Next]_vars
  PROVE  IInv'
<1>0. ArmingIInv /\ CountingIInv /\ TypesOK /\ ContextsOK /\ WorkOK
  BY DEF IInv, ArmingIInv, CountingIInv
<1>1. SUFFICES CountingIInv'
  BY <1>0, ArmingStep DEF IInv
<1>2. Frame
  BY <1>0, FrameOfStep
<1>3. ASSUME UNCHANGED <<calls, work, requests, entered>>
      PROVE  CountingIInv'
  BY <1>0, <1>2, <1>3, CountingFrame
<1>4. CASE Start
  BY <1>3, <1>4 DEF Start
<1>5. CASE Stop
  BY <1>3, <1>5 DEF Stop
<1>6. CASE \E failing \in SUBSET Waiting(armed) : RequestStarts(failing)
  BY <1>0, <1>2, <1>6, RequestCounts
<1>7. CASE Environment
  BY <1>3, <1>7 DEF Environment
<1>8. CASE WatchedLoads
  <2>1. UNCHANGED <<requests, entered, calls, work>>
    BY <1>8 DEF WatchedLoads
  <2> QED BY <1>3, <2>1
<1>9. CASE AttachLater
  <2>1. UNCHANGED <<requests, entered, calls, work>>
    BY <1>9 DEF AttachLater
  <2> QED BY <1>3, <2>1
<1>10. ASSUME NEW r \in Requests, NEW part \in loaded \cup Channel,
              NEW form, NEW target \in Target,
              NEW opener \in Requests \cup {NoContext}, NEW wait \in BOOLEAN, NEW aside \in BOOLEAN,
              Ask(r, part, form, target, opener, wait, aside)
       PROVE  CountingIInv'
  <2>1. PICK new \in CallType, breaks \in BOOLEAN : Asks(r, new, breaks)
    BY <1>0, <1>10, AskIs
  <2>2. UNCHANGED <<starts, requests, entered>>
    BY <1>10 DEF Ask
  <2> QED BY <1>0, <1>2, <2>1, <2>2, AskKeeps
<1>11. ASSUME NEW c \in DOMAIN calls, Sent(c)
       PROVE  CountingIInv'
  BY <1>0, <1>2, <1>11, SentKeeps
<1>12. ASSUME NEW c \in DOMAIN calls, NEW outcome \in {"ok", "failed", "refused"}, Answer(c, outcome)
       PROVE  CountingIInv'
  BY <1>0, <1>2, <1>12, AnswerKeeps
<1>13. ASSUME NEW c \in DOMAIN calls, AnswerAgain(c)
       PROVE  CountingIInv'
  BY <1>0, <1>2, <1>3, <1>13, AnswerAgainKeeps
<1>14. CASE UNCHANGED vars
  BY <1>3, <1>14 DEF vars
<1> QED BY <1>4, <1>5, <1>6, <1>7, <1>8, <1>9, <1>10, <1>11, <1>12, <1>13, <1>14 DEF Next

\* So they always hold.
LEMMA CountingHolds == Spec => []IInv
<1>1. Init => IInv
  BY ArmingStarts, CountingInit DEF IInv
<1>2. IInv /\ [Next]_vars => IInv'
  BY CountingStep
<1> QED BY <1>1, <1>2, PTL DEF Spec

-----------------------------------------------------------------------------
\* What the runs check.

\* What the arming invariant shows.
LEMMA ArmingShows ==
  ASSUME IInv
  PROVE  LoadedMeansPatched
<1>0. TypesOK /\ DoneOK /\ ArmedOK /\ PrismaOK /\ ContextsOK
  BY DEF IInv, ArmingIInv, CountingIInv
<1>1. InstrumentationTypeOK
  BY <1>0 DEF InstrumentationTypeOK, TypesOK, FlagsOK, ContextsOK
<1>2. ASSUME started, loads # "armed", NEW p \in Required \ Optional,
             DriverOf[p] \in On, p \in loaded \ failed, p \notin unseen
      PROVE  wraps[p] = 1
  <2>1. done[p] = "done"
    BY <1>0, <1>2 DEF ArmedOK
  <2> QED BY <1>0, <1>2, <2>1 DEF DoneOK
<1>3. ASSUME started, NEW p \in Watched, p \in loaded \ (failed \cup byImport), DriverOf[p] \in On
      PROVE  wraps[p] = 1
  BY <1>0, <1>3 DEF ArmedOK
<1>4. loads = "listening" /\ announces => unseen \subseteq byImport
  BY <1>0 DEF ArmedOK
<1>5. CASE prisma.state = "armed"
  <2>1. clientAt = NotLoaded \/ prisma.requests < 2 * Max({clientAt, 1})
    <3>1. CASE clientAt # NotLoaded
      <4>1. clientAt \in Nat
        BY <1>0, <3>1 DEF TypesOK
      <4>2. Max({clientAt, 1}) = AtLeastOne(clientAt)
        BY <4>1, MaxIs DEF AtLeastOne
      <4>3. AtLeastOne(clientAt) \in Nat /\ prisma.requests \in Nat /\ prisma.next \in Nat
        BY <1>0, <4>1 DEF TypesOK, ArmingTypeOK, AtLeastOne
      <4>4. prisma.requests < prisma.next /\ prisma.next <= 2 * AtLeastOne(clientAt)
        BY <1>0, <1>5, <3>1 DEF PrismaOK
      <4> QED BY <4>2, <4>3, <4>4
    <3> QED BY <3>1
  <2> QED BY <1>1, <1>2, <1>3, <1>4, <1>5, <2>1 DEF LoadedMeansPatched
<1>6. CASE prisma.state = "gave up"
  <2>1. clientAt = NotLoaded \/ clientAt >= LastLook
    BY <1>0, <1>6 DEF PrismaOK
  <2> QED BY <1>1, <1>2, <1>3, <1>4, <1>6, <2>1 DEF LoadedMeansPatched
<1>7. CASE prisma.state \notin {"armed", "gave up"}
  BY <1>1, <1>2, <1>3, <1>4, <1>7 DEF LoadedMeansPatched
<1> QED BY <1>5, <1>6, <1>7

\* From the first request on, what the application loads of a driver that is observed is
\* patched when the code that loaded it has run, or with the next request; what is watched at
\* its loading at once; and a Prisma client within twice the requests there had been
\* (arm.ts 116-301, prisma.ts 300-360).
THEOREM LoadedIsPatched == Spec => []LoadedMeansPatched
BY CountingHolds, ArmingShows, PTL

\* A call whose end was told to the code that asked, and that is observed.
IsTold(call) ==
  /\ call.seen /\ ~call.wait /\ ~call.aside /\ call.target \notin Excluded
  /\ call.answer # "none" \/ call.form = "events"

\* What is written of a call was told.
LEMMA WrittenIsTold ==
  ASSUME NEW call \in CallType, WatchedOK(call), MayBeWritten(call)
  PROVE  IsTold(call)
<1>1. call.watchers = 1 /\ (call.answer # "none" \/ call.form = "events")
  BY DEF WatchedOK, MayBeWritten
<1> QED BY <1>1 DEF WatchedOK, MayBeWritten, IsTold

\* What is told is written, if nothing failed and nothing stopped that had to hear it.
LEMMA ToldIsWritten ==
  ASSUME NEW call \in CallType, WatchedOK(call), HeardOK(call), IsTold(call),
         internalErrors = 0, call.context # NoContext,
         call.form = "fetch" => call.sent,
         everStopped => call.form \notin {"fetch", "channel"}
  PROVE  MayBeWritten(call)
<1>1. call.seen /\ ~call.aside /\ ~call.wait /\ call.target \notin Excluded
  BY DEF IsTold
<1>2. call.watchers = 1
  BY <1>1 DEF HeardOK
<1>3. call.counted > 0
  <2>1. CASE call.answer # "none"
    BY <1>2, <2>1 DEF HeardOK
  <2>2. CASE call.form = "events"
    BY <1>2, <2>2 DEF WatchedOK
  <2> QED BY <2>1, <2>2 DEF IsTold
<1> QED BY <1>1, <1>3 DEF MayBeWritten

\* What the counting invariant shows.
LEMMA CountingShows ==
  ASSUME IInv
  PROVE  EachCallOnce
<1>0. ContextsOK /\ StrayOK /\ CallsOK /\ WorkOK
  BY DEF IInv, CountingIInv
<1> DEFINE told(r)  == {c \in DOMAIN calls :
                          /\ calls[c].context = r /\ calls[c].seen /\ ~calls[c].wait /\ ~calls[c].aside
                          /\ calls[c].target \notin Excluded
                          /\ calls[c].answer # "none" \/ calls[c].form = "events"}
           bad(r)   == {c \in told(r) : calls[c].answer \in {"failed", "refused"}}
           whole(r) == /\ internalErrors = 0
                       /\ \A c \in told(r) : /\ calls[c].form = "fetch" => calls[c].sent
                                             /\ everStopped => calls[c].form \notin {"fetch", "channel"}
<1>1. \A r : told(r) = {c \in DOMAIN calls : calls[c].context = r /\ IsTold(calls[c])}
  BY DEF IsTold
<1>2. \A c \in DOMAIN calls : calls[c] \in CallType /\ WatchedOK(calls[c]) /\ HeardOK(calls[c])
  BY <1>0 DEF ContextsOK, CallsOK
<1>3. \A c \in DOMAIN calls : MayBeWritten(calls[c]) => IsTold(calls[c])
  BY <1>2, WrittenIsTold
<1>4. ASSUME NEW S, S \subseteq DOMAIN calls PROVE IsFiniteSet(S) /\ Cardinality(S) \in Nat
  <2>1. DOMAIN calls = 1 .. Len(calls) /\ Len(calls) \in Nat
    BY <1>0 DEF ContextsOK
  <2>2. IsFiniteSet(DOMAIN calls)
    BY <2>1, FS_Interval
  <2> QED BY <1>4, <2>2, FS_Subset, FS_CardinalityType
<1>5. ASSUME NEW r \in entered
      PROVE  /\ work[r].calls <= Cardinality(told(r))
             /\ work[r].failures <= Cardinality(bad(r))
             /\ whole(r) => work[r].calls = Cardinality(told(r)) /\ work[r].failures = Cardinality(bad(r))
  <2>1. r \in Requests /\ r # NoContext
    BY <1>0 DEF ContextsOK, Requests, NoContext
  <2>2. PICK O, B : O = told(r) /\ B = bad(r)
    OBVIOUS
  <2>3. \A c : c \in O <=> c \in DOMAIN calls /\ calls[c].context = r /\ IsTold(calls[c])
    BY <1>1, <2>2
  <2>4. \A c : c \in B <=> c \in O /\ calls[c].answer \in {"failed", "refused"}
    BY <2>2
  <2>5. PICK W, F : W = WrittenTo(calls, r) /\ F = FailedIn(calls, r)
    OBVIOUS
  <2>6. /\ \A c : c \in W <=> c \in DOMAIN calls /\ calls[c].context = r /\ MayBeWritten(calls[c])
        /\ \A c : c \in F <=> c \in W /\ calls[c].answer \in {"failed", "refused"}
    BY <2>5 DEF WrittenTo, FailedIn
  <2>7. W \subseteq O
    BY <1>3, <2>3, <2>6
  <2>8. F \subseteq B
    BY <2>4, <2>6, <2>7
  <2>9. O \subseteq DOMAIN calls /\ B \subseteq DOMAIN calls /\ W \subseteq DOMAIN calls /\ F \subseteq DOMAIN calls
    BY <2>3, <2>4, <2>6
  <2>10. /\ IsFiniteSet(O) /\ IsFiniteSet(B)
         /\ Cardinality(O) \in Nat /\ Cardinality(B) \in Nat
         /\ Cardinality(W) \in Nat /\ Cardinality(F) \in Nat
    BY <1>4, <2>9
  <2>11. Cardinality(W) <= Cardinality(O) /\ Cardinality(F) <= Cardinality(B)
    BY <2>7, <2>8, <2>10, FS_Subset
  <2>12. /\ work[r].calls <= Cardinality(W) /\ work[r].failures <= Cardinality(F)
         /\ internalErrors = 0 => work[r].calls = Cardinality(W) /\ work[r].failures = Cardinality(F)
         /\ work[r].calls \in Nat /\ work[r].failures \in Nat
    <3>1. work[r] \in WorkType
      BY <1>0, <2>1 DEF WorkOK, Requests
    <3> QED BY <1>0, <2>1, <2>5, <3>1 DEF WorkOK, WorkType
  <2>13. ASSUME whole(r) PROVE W = O /\ F = B
    <3>1. ASSUME NEW c \in O PROVE c \in W
      <4>1. /\ c \in DOMAIN calls /\ calls[c].context = r /\ IsTold(calls[c])
            /\ calls[c] \in CallType /\ WatchedOK(calls[c]) /\ HeardOK(calls[c])
        BY <1>2, <2>3
      <4>2. /\ internalErrors = 0 /\ (calls[c].form = "fetch" => calls[c].sent)
            /\ everStopped => calls[c].form \notin {"fetch", "channel"}
        BY <2>2, <2>13
      <4>3. MayBeWritten(calls[c])
        BY <2>1, <4>1, <4>2, ToldIsWritten
      <4> QED BY <2>6, <4>1, <4>3
    <3> QED BY <2>4, <2>6, <2>7, <3>1
  <2>14. whole(r) => work[r].calls = Cardinality(O) /\ work[r].failures = Cardinality(B)
    BY <2>12, <2>13
  <2>15. work[r].calls <= Cardinality(O) /\ work[r].failures <= Cardinality(B)
    BY <2>10, <2>11, <2>12
  <2> QED BY <2>2, <2>14, <2>15
<1>6. \A c \in DOMAIN calls :
        \/ calls[c].context = Own(calls[c].by)
        \/ \E d \in 1 .. c - 1 : LeftIn(d, calls[c].by, calls[c].context)
  BY <1>0 DEF StrayOK
<1> HIDE DEF told, bad, whole
<1>7. \A r \in entered :
        /\ work[r].calls <= Cardinality(told(r))
        /\ work[r].failures <= Cardinality(bad(r))
        /\ whole(r) => work[r].calls = Cardinality(told(r)) /\ work[r].failures = Cardinality(bad(r))
  BY <1>5
<1> USE DEF told, bad, whole
<1> QED BY <1>6, <1>7, Zenon DEF EachCallOnce

\* What a request is charged with is the calls asked in its context that were observed and whose
\* answers were told, each once however many wrappers it passed and however often it ended, and
\* failures as failures; all of them while nothing fails inside the agent and nothing that heard
\* them stopped.  A call is asked in the context of the request that asks it, unless an earlier
\* call of that request was answered from the socket of a connection another opened, as pg and
\* sqlite3 leave it (context.ts 158-192, the observers of instrument/*.ts).
THEOREM CallsAreCountedOnce == Spec => []EachCallOnce
BY CountingHolds, CountingShows, PTL
=============================================================================
