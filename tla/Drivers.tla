------------------------------- MODULE Drivers -------------------------------
(***************************************************************************)
(* What the agent knows of each driver (packages/agent/src/instrument):    *)
(* the classes it patches, how their calls are answered (the forms are     *)
(* explained in Instrumentation), and how the drivers are loaded.          *)
(*                                                                         *)
(* Of a class: `forms`, of its statements; `waits`, of the wait for a      *)
(* connection of its pool; `aside`, whether statements pass through it     *)
(* that are not the request's or that another class counts; `nested`,      *)
(* whether one statement passes through it twice; `quiet`, whether an      *)
(* answer may say that it failed with no error to sign.                    *)
(***************************************************************************)
EXTENDS TLC

LOCAL Class(forms, waits, marks) ==
  [forms |-> forms, waits |-> waits, aside |-> "aside" \in marks,
   nested |-> "nested" \in marks, quiet |-> "quiet" \in marks]

\* What is not a promise when it is asked, a cursor, is counted there and then.
PgClient == Class({"promise", "socket", "events"}, {}, {})
PgPool   == Class({}, {"promise", "callback"}, {})

\* MariaDB's pool is waited for as MySQL's is.
Mysql     == Class({"callback", "events"}, {}, {})
MysqlPool == Class({}, {"callback"}, {})

\* MariaDB hands its statements a pair of functions.  Those of a connection that is not made
\* yet are its handshake's.
MariadbConnection == Class({"callback"}, {}, {"aside"})
MariadbCallback   == Class({"callback", "events"}, {}, {"aside"})
MariadbAdapter    == Class({"promise"}, {}, {})

\* A pool validates a connection in the context of the request that takes it.  A request that is
\* run again is a call of its own, with the application's callback and not the last wrapper.
Tedious   == Class({"callback"}, {}, {"aside"})
MssqlPool == Class({}, {}, {})

\* A query's handle is called by each `then`, and runs it once.
PostgresJs == Class({"promise"}, {}, {"nested"})

\* Its handshake and its heartbeat are commands too, and a write may fail inside a reply.
Mongodb == Class({"promise"}, {}, {"aside", "quiet"})

\* A statement runs others, in libsql and in a user's function; and a database's methods run
\* those of a statement with the callback they were given.
BetterSqlite == Class({"sync"}, {}, {"nested"})
Sqlite3      == Class({"socket"}, {}, {"nested"})

\* A pipeline is not a command, and its commands are.
Redis == Class({"channel"}, {}, {"aside"})

\* What an error tracker sends is not the application's, and a status of 500 is a failure.
Http == Class({"channel", "fetch"}, {}, {"aside", "quiet"})

-----------------------------------------------------------------------------
\* What each driver is armed with.  A part is what is patched together.

PgParts       == {"pg", "pg beside an adapter"}
NeonParts     == {"neon", "neon, imported"}
MysqlParts    == {"mysql2", "mysql"}
MariadbParts  == {"mariadb connection", "mariadb pool", "mariadb callback", "mariadb, imported"}
MssqlParts    == {"tedious"}
PostgresParts == {"postgres.js", "postgres.js, imported"}
MongodbParts  == {"mongodb"}
SqliteParts   == {"better-sqlite3", "libsql", "sqlite3"}

\* What is patched as it is required, wherever from.
WatchedParts  == {"prisma adapter", "mssql pool"}

\* What the configuration calls the driver of a part, and start arms together.
ObserverOf(p) ==
  CASE p \in PgParts \cup NeonParts \cup PostgresParts -> "pg"
    [] p \in MysqlParts \cup MariadbParts \cup {"prisma adapter"} -> "mysql"
    [] p \in MssqlParts \cup {"mssql pool"} -> "mssql"
    [] p \in MongodbParts -> "mongodb"
    [] p \in SqliteParts -> "sqlite"
=============================================================================
