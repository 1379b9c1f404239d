------------------------- MODULE MCInstrumentation -------------------------
(***************************************************************************)
(* Instrumentation for TLC: the drivers, and the bounds of one of several  *)
(* workloads.                                                              *)
(***************************************************************************)
EXTENDS Instrumentation, Drivers

\* The parts of each workload are enough of them to meet each form and each way of loading.
Parts == {"pg", "pg beside an adapter", "neon, imported", "mysql2", "mariadb connection",
          "mariadb callback", "postgres.js", "libsql", "sqlite3", "tedious",
          "mssql pool", "prisma adapter", "mongodb"}

ClassOf(p) ==
  CASE p \in PgParts \cup NeonParts -> [PgClient EXCEPT !.waits = PgPool.waits]
    [] p \in MysqlParts -> [Mysql EXCEPT !.waits = MysqlPool.waits]
    [] p = "mariadb connection" -> MariadbConnection
    [] p = "mariadb callback" -> MariadbCallback
    [] p = "prisma adapter" -> MariadbAdapter
    [] p = "tedious" -> Tedious
    [] p = "mssql pool" -> MssqlPool
    [] p \in PostgresParts -> PostgresJs
    [] p \in MongodbParts -> Mongodb
    [] p \in {"better-sqlite3", "libsql"} -> BetterSqlite
    [] p = "sqlite3" -> Sqlite3
    [] p = "redis" -> Redis
    [] p = "http" -> Http

Owner == [p \in Parts |-> ObserverOf(p)]
Acts  == [p \in Parts \cup {"http", "redis"} |-> ClassOf(p)]

\* One workload at a time, chosen with the initial state.
VARIABLE workload

\* The drivers are there before the agent is, and nothing goes wrong with them.
Ready    == /\ early /\ announces /\ byImport = {} /\ clientAt = NotLoaded
            /\ starts <= 1 /\ failed = {}
            /\ starts = 1 => loaded = {p \in Required : DriverOf[p] \in chosen}
            /\ requests # <<>> => imports["neon, imported"] = 0
Untroubled == internalErrors = 0 /\ ~everStopped
Asked(S) == \A c \in DOMAIN calls : calls[c].form \in S
Of(T)    == \A c \in DOMAIN calls : calls[c].target \in T
Few      == /\ Len(calls) <= 2
            /\ \A c \in DOMAIN calls : calls[c].part \in Channel => calls[c].part \in chosen
            /\ (Len(calls) = 2 => Untroubled /\ Of({"a"}) /\ \A c \in DOMAIN calls : ~calls[c].aside)

Within ==
  CASE workload = "arming" ->
         /\ calls = <<>> /\ chosen = {"pg"} /\ clientAt = NotLoaded /\ loaded \subseteq PgParts
         /\ Len(requests) <= 3 /\ (starts = 2 => internalErrors = 0)
    [] workload = "apart" ->
         /\ calls = <<>> /\ chosen = {"mysql"} /\ clientAt = NotLoaded
         /\ loaded \subseteq MysqlParts \cup MariadbParts /\ Len(requests) <= 2 /\ starts <= 1
    [] workload = "prisma" ->
         /\ calls = <<>> /\ chosen = {"http"} /\ loaded = {} /\ starts <= 1
    [] workload = "chains" ->
         /\ chosen = {"pg", "mysql"} /\ Ready /\ Untroubled /\ Len(requests) <= 2
         /\ Asked({"promise", "socket", "callback"}) /\ Of({"a"})
         /\ (calls # <<>> => Len(requests) = 2)
         /\ \A c \in DOMAIN calls :
              /\ ~calls[c].wait /\ ~calls[c].aside /\ calls[c].part \notin Channel
              /\ calls[c].part \in {"pg", "mysql2"} /\ calls[c].answer \in {"none", "ok"}
    [] workload = "forms" ->
         /\ chosen = {"mysql", "sqlite", "mssql"} /\ Ready /\ Len(requests) <= 1
         /\ Few
    [] workload = "alone" ->
         /\ chosen = {"mssql"} /\ calls = <<>> /\ clientAt = NotLoaded
         /\ loaded \subseteq {"tedious", "mssql pool"} /\ Len(requests) <= 2
    [] workload = "replies" ->
         /\ chosen = {"mongodb"} /\ Ready /\ Len(requests) <= 1
         /\ Few
    [] workload = "channels" ->
         /\ chosen \in {{"http"}, {"redis"}} /\ Ready /\ Len(requests) <= 1
         /\ Few
    [] workload = "restarts" ->
         /\ chosen \in {{"http"}, {"redis"}} /\ early /\ announces /\ clientAt = NotLoaded /\ loaded = {}
         /\ Len(requests) <= 1 /\ Len(calls) <= 2 /\ Of({"a"})
         /\ \A c \in DOMAIN calls : calls[c].part \in chosen /\ ~calls[c].aside

MCInit == Init /\ workload \in {"arming", "apart", "prisma", "chains", "forms", "replies", "alone", "channels", "restarts"}
MCNext == Next /\ UNCHANGED workload
MCSpec == MCInit /\ [][MCNext]_<<vars, workload>>
=============================================================================
