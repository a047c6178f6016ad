----------------------------- MODULE CheckStore -----------------------------
(***************************************************************************)
(* What the state cache and the checks table promise together: one map     *)
(* from UUID to check on which every operation is atomic.  A write that    *)
(* has returned survives a crash, except for the fraction of a second of   *)
(* its times; an id whose check is gone never comes back.                  *)
(*                                                                         *)
(* StateCache implements this with a lock, a database connection and a     *)
(* map; Monitor builds the handlers and the scheduler on top of it.        *)
(***************************************************************************)
EXTENDS Checks

VARIABLES
    checks,    \* UUID -> check, for the checks that exist
    issued     \* UUIDs that have been given to a check, now or earlier

storeVars == <<checks, issued>>

StoreTypeOK ==
    /\ issued \subseteq Checks
    /\ DOMAIN checks \subseteq issued
    /\ checks \in [DOMAIN checks -> CheckRecords]

StoreInit ==
    /\ checks = [c \in {} |-> Nil]
    /\ issued = {}

(* INSERT of a fresh UUID. *)
Create(c, check) ==
    /\ c \in Checks \ issued
    /\ checks' = [x \in DOMAIN checks \cup {c} |->
                     IF x = c THEN check ELSE checks[x]]
    /\ issued' = issued \cup {c}

SetOrInsert(c, check) ==    \* mutation: an upsert
    /\ checks' = [x \in DOMAIN checks \cup {c} |->
                     IF x = c THEN check ELSE checks[x]]
    /\ UNCHANGED issued

(* UPDATE of the whole row; of a row that is gone, ErrNotFound. *)
Set(c, check) ==
    /\ c \in DOMAIN checks
    /\ checks' = [checks EXCEPT ![c] = check]
    /\ UNCHANGED issued

(* The writes of one WithWriteLock callback, seen as one. *)
SetAll(written) ==
    /\ DOMAIN written \subseteq DOMAIN checks
    /\ checks' = [c \in DOMAIN checks |->
                     IF c \in DOMAIN written THEN written[c] ELSE checks[c]]
    /\ UNCHANGED issued

Delete(c) ==
    /\ c \in DOMAIN checks
    /\ checks' = [x \in DOMAIN checks \ {c} |-> checks[x]]
    /\ UNCHANGED issued

(* The process dies and the cache is hydrated from the table. *)
Reload ==
    /\ checks' = [c \in DOMAIN checks |-> Stored(checks[c])]
    /\ UNCHANGED issued

(* A handler inserts or overwrites one check, always with a consistent one. *)
WriteOne ==
    \E c \in DOMAIN checks' :
        /\ checks'[c] \in ConsistentRecords
        /\ Create(c, checks'[c]) \/ Set(c, checks'[c])

(* The scheduler takes some of the checks that are up to down. *)
WriteDown ==
    \E D \in SUBSET {c \in DOMAIN checks : checks[c].status = "up"} :
        SetAll([c \in D |-> MarkDown(checks[c])])

StoreNext ==
    \/ WriteOne
    \/ WriteDown
    \/ \E c \in DOMAIN checks : Delete(c)
    \/ Reload

StoreSpec == StoreInit /\ [][StoreNext]_storeVars
=============================================================================
