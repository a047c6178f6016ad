------------------------------- MODULE Startup ------------------------------
(***************************************************************************)
(* From the start of the process to the server that listens: configuration *)
(* from the environment, the database opened and migrated, the cache       *)
(* hydrated, worker and scheduler started.  A step that fails ends the     *)
(* process, which its supervisor then starts again (restart:               *)
(* unless-stopped in the documented deployment).                           *)
(*                                                                         *)
(* The database outlives the process; a transaction that is open when the  *)
(* process ends is rolled back.  What Hydrate reads is StateCache's        *)
(* subject, the way from a signal to the end of main.run is Lifecycle's.   *)
(***************************************************************************)
EXTENDS Integers, Sequences, FiniteSets

CONSTANTS
    Objects,      \* the tables and indexes the migrations create
    Files,        \* the embedded files by name, each the objects it creates
    ChecksTable,  \* the table Hydrate reads
    Intervals,    \* values of SCHEDULER_INTERVAL
    Second,       \* time.Second in the unit of time.Duration
    MaxDuration   \* the largest time.Duration

ASSUME FilesAssumption ==
    /\ Files \in Seq(Seq(Objects))
    /\ \A f, g \in DOMAIN Files :
          \A i \in DOMAIN Files[f], j \in DOMAIN Files[g] :
              Files[f][i] = Files[g][j] => f = g /\ i = j
ASSUME ChecksTableAssumption ==
    \E f \in DOMAIN Files : \E i \in DOMAIN Files[f] : Files[f][i] = ChecksTable
ASSUME IntervalsAssumption   == Intervals \subseteq Int
ASSUME SecondAssumption      == Second \in Nat \ {0}
ASSUME DurationAssumption    == MaxDuration \in Nat

VARIABLES
    env,        \* the environment variables of the deployment
    main,       \* where main.run is; "down" without a process
    file,       \* the entry Migrate is at
    stmt,       \* how many of its statements the transaction has executed
    tx,         \* the open transaction
    tracked,    \* schema_migrations exists
    applied,    \* rows of schema_migrations
    objects,    \* the tables and indexes that exist
    calm        \* nothing is killed, refused or stopped any more

database     == <<tracked, applied, objects>>
startupVars  == <<env, main, file, stmt, tx, database, calm>>

(***************************************************************************)
(* BASE_URL and ADMIN_PASS as valid or not, the SMTP variables as set or   *)
(* not, SMTP_HOST as what the checks on it tell apart: "localhost" as Go's *)
(* PlainAuth accepts it, any other loopback name, any other host,          *)
(* SMTP_FROM as a bare mail address or anything else, and dialable, which  *)
(* is not checked: whether SMTP_HOST:SMTP_PORT can be dialled at all (the  *)
(* port is a number or the name of a service, the host a possible name).   *)
(***************************************************************************)
Environments ==
    [baseURL : BOOLEAN, adminPass : BOOLEAN, interval : Intervals,
     host : {"unset", "localhost", "loopback", "remote"}, dialable : BOOLEAN,
     user : BOOLEAN, pass : BOOLEAN,
     from : {"unset", "address", "other"}, tls : BOOLEAN]

NoTx == [open |-> FALSE, objects |-> {}, versions |-> {}]

Creates(f) == {Files[f][i] : i \in DOMAIN Files[f]}

Phases == {"down", "config", "open", "track", "check", "begin", "exec",
           "record", "commit", "hydrate", "start", "listen", "serving",
           "stopping"}

(* Only Migrate has transactions, and only for a file there is. *)
StartupTypeOK ==
    /\ env \in Environments
    /\ main \in Phases
    /\ file \in 1..(Len(Files) + 1)
    /\ stmt \in Nat
    /\ tx \in [open : BOOLEAN, objects : SUBSET Objects,
               versions : SUBSET DOMAIN Files]
    /\ tracked \in BOOLEAN
    /\ applied \subseteq DOMAIN Files
    /\ objects \subseteq Objects
    /\ calm \in BOOLEAN
    /\ tx.open <=> main \in {"exec", "record", "commit"}
    /\ tx.open \/ main = "begin" => file \in DOMAIN Files

(* A new file, or one that an earlier build with fewer migrations left. *)
StartupInit ==
    /\ env \in Environments
    /\ main = "down" /\ file = 1 /\ stmt = 0 /\ tx = NoTx
    /\ \E n \in 0..Len(Files) :
          /\ tracked \in BOOLEAN /\ (n > 0 => tracked)
          /\ applied = 1..n
          /\ objects = UNION {Creates(f) : f \in 1..n}
    /\ calm = FALSE

-----------------------------------------------------------------------------
(* Configuration. *)

SMTPAnySet(e) == e.host # "unset" \/ e.user \/ e.pass \/ e.from # "unset"

ValidateHostOnly(e) ==    \* mutation: SMTP_FROM is not required
    /\ e.baseURL /\ e.adminPass
    /\ e.interval >= 10
    /\ SMTPAnySet(e) => e.host # "unset"

Validate(e) ==
    /\ e.baseURL /\ e.adminPass
    /\ e.interval >= 10
    /\ SMTPAnySet(e) => e.host # "unset" /\ e.from # "unset"

(* time.Duration(n) * time.Second in two's complement. *)
Duration(n) ==
    ((n * Second + MaxDuration + 1) % (2 * (MaxDuration + 1))) - (MaxDuration + 1)

-----------------------------------------------------------------------------
(* The process. *)

(* It ends: the connection is closed, what was not committed is undone. *)
Gone ==
    /\ main' = "down" /\ file' = 1 /\ stmt' = 0 /\ tx' = NoTx
    /\ UNCHANGED <<env, database, calm>>

(* A statement, a system call or a read of a file fails; run returns. *)
Refused == ~calm /\ Gone

GoTo(place) == main' = place

(* The supervisor starts it with the same variables each time. *)
Start ==
    /\ main = "down" /\ GoTo("config")
    /\ UNCHANGED <<env, file, stmt, tx, database, calm>>

LoadConfig ==
    /\ main = "config"
    /\ \/ /\ Validate(env)
          /\ GoTo("open")
          /\ UNCHANGED <<env, file, stmt, tx, database, calm>>
       \/ ~Validate(env) /\ Gone
       \/ Refused

OpenDB ==
    /\ main = "open"
    /\ \/ /\ GoTo("track")
          /\ UNCHANGED <<env, file, stmt, tx, database, calm>>
       \/ Refused

-----------------------------------------------------------------------------
(* Migrate.  The pool has one connection, which an open transaction holds. *)

CreateTracking ==
    /\ main = "track"
    /\ \/ /\ GoTo("check")
          /\ tracked' = TRUE
          /\ UNCHANGED <<env, file, stmt, tx, applied, objects, calm>>
       \/ Refused

CheckVersionUnused ==    \* mutation: a recorded version is not skipped
    /\ main = "check" /\ ~tx.open
    /\ \/ /\ file > Len(Files)
          /\ GoTo("hydrate") /\ UNCHANGED file
          /\ UNCHANGED <<env, stmt, tx, database, calm>>
       \/ /\ file <= Len(Files)
          /\ GoTo("begin") /\ UNCHANGED file
          /\ UNCHANGED <<env, stmt, tx, database, calm>>
       \/ Refused

CheckVersion ==
    /\ main = "check" /\ ~tx.open
    /\ \/ /\ \/ file > Len(Files) /\ GoTo("hydrate") /\ UNCHANGED file
             \/ file \in applied /\ file' = file + 1 /\ UNCHANGED main
             \/ /\ file \in DOMAIN Files \ applied
                /\ GoTo("begin") /\ UNCHANGED file
          /\ UNCHANGED <<env, stmt, tx, database, calm>>
       \/ Refused

Begin ==
    /\ main = "begin"
    /\ \/ /\ GoTo("exec")
          /\ tx' = [NoTx EXCEPT !.open = TRUE]
          /\ UNCHANGED <<env, file, stmt, database, calm>>
       \/ Refused

ExecOnConnection ==    \* mutation: statements commit one by one
    /\ main = "exec"
    /\ \/ /\ stmt < Len(Files[file])
          /\ Files[file][stmt + 1] \notin objects
          /\ objects' = objects \cup {Files[file][stmt + 1]}
          /\ stmt' = stmt + 1
          /\ UNCHANGED <<env, main, file, tx, tracked, applied, calm>>
       \/ /\ stmt < Len(Files[file])
          /\ Files[file][stmt + 1] \in objects
          /\ Gone
       \/ /\ stmt = Len(Files[file]) /\ GoTo("record")
          /\ UNCHANGED <<env, file, stmt, tx, database, calm>>
       \/ Refused

ExecContinues ==    \* mutation: a file that fails is logged and passed over
    /\ main = "exec"
    /\ \/ /\ stmt < Len(Files[file])
          /\ tx' = [tx EXCEPT !.objects = @ \cup {Files[file][stmt + 1]}]
          /\ stmt' = stmt + 1
          /\ UNCHANGED <<env, main, file, database, calm>>
       \/ /\ stmt = Len(Files[file]) /\ GoTo("record")
          /\ UNCHANGED <<env, file, stmt, tx, database, calm>>
       \/ /\ ~calm
          /\ GoTo("check") /\ file' = file + 1 /\ stmt' = 0 /\ tx' = NoTx
          /\ UNCHANGED <<env, database, calm>>

(* execStatements, one statement at a time; creating what exists fails. *)
ExecStatements ==
    /\ main = "exec"
    /\ \/ /\ stmt < Len(Files[file])
          /\ LET o == Files[file][stmt + 1]
             IN  IF o \in objects \cup tx.objects
                 THEN Gone
                 ELSE /\ tx' = [tx EXCEPT !.objects = @ \cup {o}]
                      /\ stmt' = stmt + 1
                      /\ UNCHANGED <<env, main, file, database, calm>>
       \/ /\ stmt = Len(Files[file]) /\ GoTo("record")
          /\ UNCHANGED <<env, file, stmt, tx, database, calm>>
       \/ Refused

(* The version is the primary key. *)
RecordVersion ==
    /\ main = "record"
    /\ \/ IF file \in applied \cup tx.versions
          THEN Gone
          ELSE /\ GoTo("commit")
               /\ tx' = [tx EXCEPT !.versions = @ \cup {file}]
               /\ UNCHANGED <<env, file, stmt, database, calm>>
       \/ Refused

CommitForgotten ==    \* mutation: the transaction is left open
    /\ main = "commit"
    /\ \/ /\ GoTo("check")
          /\ file' = file + 1 /\ stmt' = 0
          /\ UNCHANGED <<env, tx, database, calm>>
       \/ Refused

Commit ==
    /\ main = "commit"
    /\ \/ /\ GoTo("check")
          /\ applied' = applied \cup tx.versions
          /\ objects' = objects \cup tx.objects
          /\ tx' = NoTx /\ file' = file + 1 /\ stmt' = 0
          /\ UNCHANGED <<env, tracked, calm>>
       \/ Refused

-----------------------------------------------------------------------------
(* After db.Open. *)

Hydrate ==
    /\ main = "hydrate"
    /\ \/ IF ChecksTable \notin objects
          THEN Gone
          ELSE /\ GoTo("start")
               /\ UNCHANGED <<env, file, stmt, tx, database, calm>>
       \/ Refused

(* The worker, then the scheduler: scheduler.New panics on an interval that *)
(* is not positive.                                                         *)
StartGoroutines ==
    /\ main = "start"
    /\ \/ /\ Duration(env.interval) > 0
          /\ GoTo("listen")
          /\ UNCHANGED <<env, file, stmt, tx, database, calm>>
       \/ Duration(env.interval) <= 0 /\ Gone

(* The port may be taken: the serve error sends main.run to its end. *)
Listen ==
    /\ main = "listen"
    /\ \/ GoTo("serving")
       \/ ~calm /\ GoTo("stopping")
    /\ UNCHANGED <<env, file, stmt, tx, database, calm>>

(* A signal, or a serve error later on. *)
Stop ==
    /\ main \in {"listen", "serving"} /\ ~calm
    /\ GoTo("stopping")
    /\ UNCHANGED <<env, file, stmt, tx, database, calm>>

(* Stop, close, Wait, and the database is closed. *)
Return == main = "stopping" /\ Gone

Kill == main # "down" /\ Refused

Settle ==
    /\ ~calm /\ calm' = TRUE
    /\ UNCHANGED <<env, main, file, stmt, tx, database>>

Proceed ==
    \/ Start \/ LoadConfig \/ OpenDB \/ CreateTracking \/ CheckVersion
    \/ Begin \/ ExecStatements \/ RecordVersion \/ Commit
    \/ Hydrate \/ StartGoroutines \/ Listen

-----------------------------------------------------------------------------
(* Properties. *)

(***************************************************************************)
(* The record of a migration is exact: whatever was killed or refused at   *)
(* whatever statement, in this start or an earlier one, a version is       *)
(* recorded exactly when everything its file creates exists, and a file    *)
(* that is not recorded has left nothing behind.                           *)
(***************************************************************************)
RecordedIsComplete ==
    \A f \in DOMAIN Files :
        IF f \in applied THEN tracked /\ Creates(f) \subseteq objects
                         ELSE Creates(f) \cap objects = {}

(***************************************************************************)
(* Nothing runs on half a schema: when the cache is hydrated, goroutines   *)
(* are started and requests are served, everything that the migrations of  *)
(* this build create is in the database.                                   *)
(***************************************************************************)
RunsOnFullSchema ==
    main \in {"hydrate", "start", "listen", "serving", "stopping"} =>
        \A f \in DOMAIN Files : Creates(f) \subseteq objects

Startable == calm /\ Validate(env) /\ Duration(env.interval) > 0

(***************************************************************************)
(* No history of kills, refused statements and failed starts leaves a      *)
(* database or a configuration behind that keeps the service down: once    *)
(* they end, a supervised process with an environment Validate accepts     *)
(* comes to serve, and stays.  An interval whose time.Duration overflows   *)
(* to nothing or below is excluded: Validate sets no upper bound, and      *)
(* scheduler.New panics at every start.                                    *)
(***************************************************************************)
ComesUp == Startable ~> [](main = "serving")

(***************************************************************************)
(* How far a start has come: its phase, then the entry Migrate is at, then *)
(* the phase of that entry, then its statement.                            *)
(***************************************************************************)
Phase == [p \in Phases |->
    CASE p \in {"down", "stopping"} -> 0
      [] p = "config" -> 1 [] p = "open"  -> 2 [] p = "track"  -> 3
      [] p \in {"check", "begin", "exec", "record", "commit"} -> 4
      [] p = "hydrate" -> 5 [] p = "start" -> 6 [] p = "listen" -> 7
      [] p = "serving" -> 8]

EntryPhase == [p \in Phases |->
    CASE p = "begin" -> 1 [] p = "exec" -> 2 [] p = "record" -> 3
      [] p = "commit" -> 4 [] OTHER -> 0]

Further ==
    \/ Phase[main'] > Phase[main]
    \/ Phase[main'] = Phase[main] /\ file' > file
    \/ /\ Phase[main'] = Phase[main] /\ file' = file
       /\ \/ EntryPhase[main'] > EntryPhase[main]
          \/ main' = main /\ stmt' > stmt

(***************************************************************************)
(* What ComesUp rests on: no database that kills and refusals left behind  *)
(* makes a start fail or go back.  Once they end, each step of Migrate     *)
(* finds its tables free and its version unrecorded, Hydrate finds its     *)
(* table, and every step is one further on the way to serving.             *)
(***************************************************************************)
StartGoesOn ==
    [][Startable /\ main # "stopping" =>
          Further \/ UNCHANGED <<main, file, stmt>>]_startupVars
=============================================================================
