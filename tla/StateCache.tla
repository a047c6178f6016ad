----------------------------- MODULE StateCache -----------------------------
(***************************************************************************)
(* The write-through state cache at the grain of its lock and of the       *)
(* database connection: a map of checks under a sync.RWMutex in front of   *)
(* the checks table, with every write going to the table first, under the  *)
(* lock, through the one connection the pool has (SetMaxOpenConns(1)).     *)
(* Repository calls that do not involve the cache compete for the same     *)
(* connection.  The process may be killed between any two steps; what is   *)
(* left is the table.                                                      *)
(*                                                                         *)
(* The module implements CheckStore: see ImplementsStore.                  *)
(***************************************************************************)
EXTENDS Checks

CONSTANTS
    Callers,      \* goroutines calling the cache or a repository
    Inputs,       \* checks callers pass to Create and Set
    MaxCrashes    \* bound on the crashes

ASSUME InputsAssumption     == Inputs \subseteq ConsistentRecords
ASSUME CallersAssumption    == Nil \notin Callers
ASSUME MaxCrashesAssumption == MaxCrashes \in Nat

VARIABLES
    rows,       \* the checks table, committed
    issued,     \* history: the UUIDs ever inserted
    cache,      \* sc.checks
    hydrated,   \* FALSE from the start of the process until Hydrate is done
    writer,     \* who has called mu.Lock and not yet mu.Unlock, or Nil
    readers,    \* who holds mu.RLock
    conn,       \* who has the database connection, or Nil
    call,       \* caller -> what its goroutine is doing
    crashes

vars == <<rows, issued, cache, hydrated, writer, readers, conn, call, crashes>>

-----------------------------------------------------------------------------

Writes == {"set", "create", "delete", "pass"}

(***************************************************************************)
(* Where a call is.  Readers: "blocked" in RLock behind a writer, "read"   *)
(* with the lock held.  Writers: "lock" before mu.Lock, "drain" while      *)
(* earlier readers leave, "next" between two updates of a pass, "exec"     *)
(* before their statement, "stmt" with the connection, "map" with the      *)
(* statement committed and the map still to be changed.  Other statements: *)
(* "query" and "busy".  todo is what is left of a WithWriteLock pass.      *)
(***************************************************************************)
CallRecords ==
    [pc    : {"idle", "blocked", "read", "lock", "drain", "next", "exec",
              "stmt", "map", "query", "busy"},
     op    : Writes \cup {Nil},
     check : Checks \cup {Nil},
     arg   : CheckRecords \cup {Nil},
     todo  : SUBSET Checks]

Idle == [pc |-> "idle", op |-> Nil, check |-> Nil, arg |-> Nil, todo |-> {}]

TypeOK ==
    /\ issued \subseteq Checks
    /\ DOMAIN rows \subseteq issued
    /\ rows \in [DOMAIN rows -> CheckRecords]
    /\ DOMAIN cache \subseteq Checks
    /\ cache \in [DOMAIN cache -> CheckRecords]
    /\ hydrated \in BOOLEAN
    /\ writer \in Callers \cup {Nil}
    /\ readers \subseteq Callers
    /\ conn \in Callers \cup {Nil}
    /\ call \in [Callers -> CallRecords]
    /\ crashes \in 0..MaxCrashes

NoChecks == [c \in {} |-> Nil]

Init ==
    /\ rows = NoChecks
    /\ issued = {}
    /\ cache = NoChecks
    /\ hydrated = FALSE
    /\ writer = Nil
    /\ readers = {}
    /\ conn = Nil
    /\ call = [p \in Callers |-> Idle]
    /\ crashes = 0

-----------------------------------------------------------------------------

(* Maps with a check put in, or taken out. *)
With(map, c, check) ==
    [x \in DOMAIN map \cup {c} |-> IF x = c THEN check ELSE map[x]]
Without(map, c) == [x \in DOMAIN map \ {c} |-> map[x]]

At(p, pc)   == call[p].pc = pc
GoTo(p, pc) == call' = [call EXCEPT ![p].pc = pc]

dbVars   == <<rows, issued>>
lockVars == <<writer, readers>>

(***************************************************************************)
(* Hydrate: runs before anything else is started.                          *)
(***************************************************************************)
Hydrate ==
    /\ ~hydrated
    /\ hydrated' = TRUE
    /\ cache' = rows
    /\ UNCHANGED <<dbVars, lockVars, conn, call, crashes>>

(* A goroutine makes a call. *)
Begin(p, locals) ==
    /\ hydrated /\ At(p, "idle")
    /\ call' = [call EXCEPT ![p] = locals]
    /\ UNCHANGED <<dbVars, cache, hydrated, conn, crashes>>

-----------------------------------------------------------------------------
(* Get and Snapshot. *)

(* RLock: at once, or blocked behind a writer that is in or draining. *)
BeginRead(p) ==
    /\ Begin(p, [Idle EXCEPT !.pc = IF writer = Nil THEN "read" ELSE "blocked"])
    /\ readers' = IF writer = Nil THEN readers \cup {p} ELSE readers
    /\ UNCHANGED writer

(* The copies are made; RUnlock. *)
EndRead(p) ==
    /\ At(p, "read")
    /\ call' = [call EXCEPT ![p] = Idle]
    /\ readers' = readers \ {p}
    /\ UNCHANGED <<dbVars, cache, hydrated, writer, conn, crashes>>

-----------------------------------------------------------------------------
(* Set, Create, Delete, and WithWriteLock as evaluateAll uses it. *)

BeginSet(p) ==
    /\ \E c \in Checks, check \in Inputs :
          Begin(p, [Idle EXCEPT !.pc = "lock", !.op = "set", !.check = c,
                                !.arg = check])
    /\ UNCHANGED lockVars

(* uuid.New: not the id of any check there was or is about to be. *)
Fresh == {c \in Checks \ issued :
             \A p \in Callers : ~(call[p].op = "create" /\ call[p].check = c)}

BeginCreate(p) ==
    /\ \E c \in Fresh, check \in Inputs :
          Begin(p, [Idle EXCEPT !.pc = "lock", !.op = "create", !.check = c,
                                !.arg = check])
    /\ UNCHANGED lockVars

BeginDelete(p) ==
    /\ \E c \in Checks :
          Begin(p, [Idle EXCEPT !.pc = "lock", !.op = "delete", !.check = c])
    /\ UNCHANGED lockVars

BeginPass(p) ==
    /\ Begin(p, [Idle EXCEPT !.pc = "lock", !.op = "pass"])
    /\ UNCHANGED lockVars

(* mu.Lock: first among writers, then the readers that were there leave. *)
Lock(p) ==
    /\ At(p, "lock") /\ writer = Nil
    /\ writer' = p
    /\ GoTo(p, "drain")
    /\ UNCHANGED <<dbVars, cache, hydrated, readers, conn, crashes>>

(* The lock is held; a pass picks the up checks that are overdue by now. *)
Locked(p) ==
    /\ At(p, "drain") /\ readers = {}
    /\ IF call[p].op = "pass"
       THEN \E due \in SUBSET {c \in DOMAIN cache : cache[c].status = "up"} :
               call' = [call EXCEPT ![p] = [@ EXCEPT !.pc = "next",
                                                     !.todo = due]]
       ELSE GoTo(p, "exec")
    /\ UNCHANGED <<dbVars, cache, hydrated, lockVars, conn, crashes>>

(* The pass calls update on the next overdue check. *)
PassNext(p) ==
    /\ At(p, "next")
    /\ \E c \in call[p].todo :
          call' = [call EXCEPT ![p] = [@ EXCEPT !.pc    = "exec",
                                                !.check = c,
                                                !.arg   = MarkDown(cache[c]),
                                                !.todo  = call[p].todo \ {c}]]
    /\ UNCHANGED <<dbVars, cache, hydrated, lockVars, conn, crashes>>

(* The statement gets the connection. *)
Acquire(p) ==
    /\ At(p, "exec") /\ conn = Nil
    /\ conn' = p
    /\ GoTo(p, "stmt")
    /\ UNCHANGED <<dbVars, cache, hydrated, lockVars, crashes>>

ExecuteUpsert(q) ==    \* mutation: an UPDATE that inserts a missing row
    \/ /\ q.op = "create" /\ q.check \notin DOMAIN rows
       /\ rows' = With(rows, q.check, Stored(q.arg))
       /\ issued' = issued \cup {q.check}
    \/ /\ q.op \in {"set", "pass"}
       /\ rows' = With(rows, q.check, Stored(q.arg))
       /\ UNCHANGED issued
    \/ /\ q.op = "delete" /\ q.check \in DOMAIN rows
       /\ rows' = Without(rows, q.check)
       /\ UNCHANGED issued

(* INSERT, UPDATE and DELETE; the last two find no row when it is gone. *)
Execute(q) ==
    \/ /\ q.op = "create" /\ q.check \notin DOMAIN rows
       /\ rows' = With(rows, q.check, Stored(q.arg))
       /\ issued' = issued \cup {q.check}
    \/ /\ q.op \in {"set", "pass"} /\ q.check \in DOMAIN rows
       /\ rows' = With(rows, q.check, Stored(q.arg))
       /\ UNCHANGED issued
    \/ /\ q.op = "delete" /\ q.check \in DOMAIN rows
       /\ rows' = Without(rows, q.check)
       /\ UNCHANGED issued

Commit(p) ==
    /\ At(p, "stmt")
    /\ Execute(call[p])
    /\ conn' = Nil
    /\ GoTo(p, "map")
    /\ UNCHANGED <<cache, hydrated, lockVars, crashes>>

(* mu.Unlock lets in every reader that was blocked behind this writer. *)
Unlock(p) ==
    LET admitted == {q \in Callers : At(q, "blocked")}
    IN  /\ writer' = Nil
        /\ readers' = readers \cup admitted
        /\ call' = [q \in Callers |->
                       IF q = p THEN Idle
                       ELSE IF q \in admitted
                            THEN [call[q] EXCEPT !.pc = "read"]
                            ELSE call[q]]

(* A pass goes on whatever becomes of one update; other calls return. *)
AfterUpdateOf(p) ==
    IF call[p].op = "pass"
    THEN GoTo(p, "next") /\ UNCHANGED lockVars
    ELSE Unlock(p)

FailIgnored(p) ==    \* mutation: the map is changed despite the error
    /\ At(p, "stmt")
    /\ conn' = Nil
    /\ GoTo(p, "map")
    /\ UNCHANGED <<dbVars, cache, hydrated, lockVars, crashes>>

FailRetried(p) ==    \* mutation: a pass repeats an update until it succeeds
    /\ At(p, "stmt")
    /\ conn' = Nil
    /\ IF call[p].op = "pass"
       THEN /\ call' = [call EXCEPT ![p].pc = "next",
                                    ![p].todo = @ \cup {call[p].check}]
            /\ UNCHANGED lockVars
       ELSE Unlock(p)
    /\ UNCHANGED <<dbVars, cache, hydrated, crashes>>

FailHoldingLock(p) ==    \* mutation: an error path without mu.Unlock
    /\ At(p, "stmt")
    /\ conn' = Nil
    /\ IF call[p].op = "pass" THEN GoTo(p, "next")
                              ELSE call' = [call EXCEPT ![p] = Idle]
    /\ UNCHANGED <<dbVars, cache, hydrated, lockVars, crashes>>

(* The statement fails or finds no row: the map is left alone. *)
Fail(p) ==
    /\ At(p, "stmt")
    /\ conn' = Nil
    /\ AfterUpdateOf(p)
    /\ UNCHANGED <<dbVars, cache, hydrated, crashes>>

(* The context is cancelled while the statement waits for the connection. *)
Cancel(p) ==
    /\ At(p, "exec")
    /\ AfterUpdateOf(p)
    /\ UNCHANGED <<dbVars, cache, hydrated, conn, crashes>>

ChangeMapKeepingDeleted(p) ==    \* mutation: Delete forgets the map
    /\ At(p, "map")
    /\ cache' = IF call[p].op = "delete"
                THEN cache
                ELSE With(cache, call[p].check, call[p].arg)
    /\ AfterUpdateOf(p)
    /\ UNCHANGED <<dbVars, hydrated, conn, crashes>>

(* The row is written: now the map. *)
ChangeMap(p) ==
    /\ At(p, "map")
    /\ cache' = IF call[p].op = "delete"
                THEN Without(cache, call[p].check)
                ELSE With(cache, call[p].check, call[p].arg)
    /\ AfterUpdateOf(p)
    /\ UNCHANGED <<dbVars, hydrated, conn, crashes>>

EndPass(p) ==
    /\ At(p, "next") /\ call[p].todo = {}
    /\ Unlock(p)
    /\ UNCHANGED <<dbVars, cache, hydrated, conn, crashes>>

-----------------------------------------------------------------------------
(* Repository calls outside the cache: pings, channels, notifications. *)

BeginQuery(p) ==
    /\ Begin(p, [Idle EXCEPT !.pc = "query"])
    /\ UNCHANGED lockVars

AcquireQuery(p) ==
    /\ At(p, "query") /\ conn = Nil
    /\ conn' = p
    /\ GoTo(p, "busy")
    /\ UNCHANGED <<dbVars, cache, hydrated, lockVars, crashes>>

EndQuery(p) ==
    /\ At(p, "busy")
    /\ conn' = Nil
    /\ call' = [call EXCEPT ![p] = Idle]
    /\ UNCHANGED <<dbVars, cache, hydrated, lockVars, crashes>>

-----------------------------------------------------------------------------

(* The process is killed; started again, it has the table only. *)
Crash ==
    /\ crashes < MaxCrashes
    /\ crashes' = crashes + 1
    /\ cache' = NoChecks
    /\ hydrated' = FALSE
    /\ writer' = Nil /\ readers' = {} /\ conn' = Nil
    /\ call' = [p \in Callers |-> Idle]
    /\ UNCHANGED dbVars

Start(p) ==
    \/ BeginRead(p) \/ BeginQuery(p)
    \/ BeginSet(p) \/ BeginCreate(p) \/ BeginDelete(p) \/ BeginPass(p)

Step(p) ==
    \/ EndRead(p)
    \/ Locked(p) \/ PassNext(p) \/ EndPass(p)
    \/ Commit(p) \/ Fail(p) \/ ChangeMap(p)
    \/ EndQuery(p)

Next ==
    \/ Hydrate
    \/ \E p \in Callers :
          Start(p) \/ Lock(p) \/ Acquire(p) \/ Cancel(p) \/ AcquireQuery(p)
             \/ Step(p)
    \/ Crash

Spec == Init /\ [][Next]_vars

(***************************************************************************)
(* Goroutines are scheduled; sync.Mutex and the connection pool both hand  *)
(* over to the one that has waited longest, so neither starves a caller.   *)
(* Nobody is obliged to make calls.                                        *)
(***************************************************************************)
Fairness ==
    /\ WF_vars(Hydrate)
    /\ \A p \in Callers :
          /\ WF_vars(Step(p))
          /\ SF_vars(Lock(p))
          /\ SF_vars(Acquire(p) \/ AcquireQuery(p))

FairSpec == Spec /\ Fairness

-----------------------------------------------------------------------------

(***************************************************************************)
(* Whoever holds the read lock sees a cache that agrees with the table on  *)
(* every check, up to the fraction of a second the table drops: no reader  *)
(* ever observes a write the table has and the map has not.                *)
(***************************************************************************)
ReadersSeeTheTable ==
    (\E p \in Callers : At(p, "read"))
        => /\ DOMAIN cache = DOMAIN rows
           /\ \A c \in DOMAIN cache : rows[c] = Stored(cache[c])

(* Whom a call waits for: the lock's holders, or the connection's. *)
WaitsFor(p) ==
    CASE call[p].pc \in {"blocked", "lock"} -> {writer} \ {Nil}
      [] At(p, "drain")                    -> readers
      [] call[p].pc \in {"exec", "query"}  -> {conn} \ {Nil}
      [] OTHER                             -> {}

(* A call that waits for nobody. *)
Runs(p) == ~At(p, "idle") /\ WaitsFor(p) = {}

(***************************************************************************)
(* No deadlock and no lost wake-up, though one mutex and one connection    *)
(* are taken in a row: whoever is waited for is inside a call that runs,   *)
(* or itself waits only for calls that run; and a reader that sleeps has a *)
(* writer ahead of it that will let it in.                                 *)
(***************************************************************************)
WaitingEnds ==
    \A p \in Callers :
        /\ At(p, "blocked") => WaitsFor(p) # {}
        /\ \A q \in WaitsFor(p) :
              \/ Runs(q)
              \/ ~At(q, "idle") /\ \A r \in WaitsFor(q) : Runs(r)

(***************************************************************************)
(* What the store is while a committed write has yet to reach the map, and *)
(* while the map has yet to be read back after a restart.                  *)
(***************************************************************************)
AbstractChecks ==
    IF ~hydrated THEN rows
    ELSE IF \E p \in Callers : At(p, "map")
    THEN LET q == call[CHOOSE p \in Callers : At(p, "map")]
         IN  IF q.op = "delete" THEN Without(cache, q.check)
                                ELSE With(cache, q.check, q.arg)
    ELSE cache

(***************************************************************************)
(* Every call takes effect at one instant, when its row is committed; a    *)
(* crash between the commit and the map loses nothing; a refused write     *)
(* changes nothing.                                                        *)
(***************************************************************************)
Store == INSTANCE CheckStore WITH checks <- AbstractChecks

ImplementsStore == Store!StoreSpec

(***************************************************************************)
(* What Hydrate will find after a crash at any instant, also in the middle *)
(* of a write: a table of consistent checks, so that a paused check has a  *)
(* status to go back to and an up one a deadline to miss.                  *)
(***************************************************************************)
TableConsistent == \A c \in DOMAIN rows : Consistent(rows[c])

(***************************************************************************)
(* No call and no restart brings back a check that was deleted: a Set, or  *)
(* a pass, that was under way when its row went finds no row to update.    *)
(***************************************************************************)
DeletedRowsStayDeleted ==
    [][\A c \in issued : c \notin DOMAIN rows => c \notin DOMAIN rows']_vars

(***************************************************************************)
(* Nobody waits for ever: the lock is always taken before the connection,  *)
(* every path out of a write gives both back, and a pass ends.             *)
(***************************************************************************)
CallsReturn == \A p \in Callers : ~At(p, "idle") ~> At(p, "idle")
=============================================================================
