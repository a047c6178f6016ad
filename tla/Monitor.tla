------------------------------ MODULE Monitor -------------------------------
(***************************************************************************)
(* The monitoring core of CronMon: HTTP handlers for pings and for check   *)
(* management, the scheduler, and the alert queue between them and the     *)
(* notifier worker.                                                        *)
(*                                                                         *)
(* Every request runs in a goroutine of its own.  A handler takes a copy   *)
(* of a check with cache.Get, edits it, and writes the whole copy back     *)
(* with cache.Set; each of the two is atomic (CheckStore, implemented by   *)
(* StateCache) but nothing is held between them, and the scheduler and     *)
(* other requests may run there.  Every repository call may fail: SQLite   *)
(* may refuse it, or the client may have gone and cancelled its context;   *)
(* a call that fails changes nothing.                                      *)
(*                                                                         *)
(* Elsewhere: the pings table (PingHistory), what the worker does with an  *)
(* event (AlertPipeline), shutdown by signal (Lifecycle).                  *)
(***************************************************************************)
EXTENDS CheckStore, Sequences, FiniteSets

CONSTANTS
    Channels,      \* notification channels
    Requests,      \* identities of the requests served concurrently
    Operations,    \* the handlers clients call (an input bound)
    QueueCap,      \* capacity of alertCh
    MaxCrashes     \* bound on the crashes

PingOps == {"success", "start", "fail"}
AllOps  == PingOps \cup {"create", "update", "pause", "delete", "attach",
                       "detach"}

ASSUME OperationsAssumption == Operations \subseteq AllOps
ASSUME QueueCapAssumption   == QueueCap \in Nat \ {0}
ASSUME MaxCrashesAssumption == MaxCrashes \in Nat
ASSUME NoNilOperation       == Nil \notin AllOps

VARIABLES
    now,       \* the clock
    subs,      \* UUID -> channels attached to the check (check_channels)
    queue,     \* alertCh
    req,       \* request -> the goroutine serving it
    sched,     \* the scheduler goroutine
    crashes,   \* crashes so far
    fellDown   \* history: the checks whose up -> down was ever persisted

vars == <<checks, issued, now, subs, queue, req, sched, crashes, fellDown>>

-----------------------------------------------------------------------------

(* AlertEvent: the check and the channel it copies are named by their ids. *)
Events == [check : Checks, channel : Channels, type : {"down", "up", "fail"}]

(***************************************************************************)
(* A handler's locals: the operation, the UUID of its URL, the time it     *)
(* read from the clock, its copy of the check, the alert types it has to   *)
(* enqueue once the copy is saved, and the channels left of the list it    *)
(* fetched for the first of them.                                          *)
(***************************************************************************)
RequestRecords ==
    [pc     : {"idle", "get", "parse", "create", "set", "list", "send"},
     op     : AllOps \cup {Nil},
     check  : Checks \cup {Nil},
     at     : Nat \cup {Nil},
     copy   : CheckRecords \cup {Nil},
     alerts : Seq({"up", "fail"}),
     chans  : SUBSET Channels]

Idle == [pc |-> "idle", op |-> Nil, check |-> Nil, at |-> Nil, copy |-> Nil,
         alerts |-> <<>>, chans |-> {}]

(***************************************************************************)
(* The scheduler: "wait" in its select, "list" and "send" in phase 2.      *)
(* tick is the time in the ticker's one-place buffer, or Nil; todo the     *)
(* transitioned checks phase 2 has yet to look up, chans what is left of   *)
(* the channels of check.  The reconciliation pass run makes before its    *)
(* first select is a tick that is there when the process starts.           *)
(***************************************************************************)
SchedulerRecords ==
    [pc    : {"wait", "list", "send"},
     tick  : Nat \cup {Nil},
     todo  : SUBSET Checks,
     check : Checks \cup {Nil},
     chans : SUBSET Channels]

Waiting(tick) ==
    [pc |-> "wait", tick |-> tick, todo |-> {}, check |-> Nil, chans |-> {}]

TypeOK ==
    /\ StoreTypeOK
    /\ now \in Times
    /\ subs \in [Checks -> SUBSET Channels]
    /\ queue \in Seq(Events) /\ Len(queue) <= QueueCap
    /\ req \in [Requests -> RequestRecords]
    /\ sched \in SchedulerRecords
    /\ crashes \in 0..MaxCrashes
    /\ fellDown \subseteq Checks

Init ==
    /\ StoreInit
    /\ now = 0
    /\ subs = [c \in Checks |-> {}]
    /\ queue = <<>>
    /\ req = [r \in Requests |-> Idle]
    /\ sched = Waiting(now)
    /\ crashes = 0
    /\ fellDown = {}

-----------------------------------------------------------------------------
(* What several steps share. *)

(* Variables only the scheduler, the clock and a crash touch. *)
backVars == <<now, sched, crashes, fellDown>>

(* The next step of request r's goroutine. *)
Continue(r, locals) == req' = [req EXCEPT ![r] = locals]
Return(r)           == Continue(r, Idle)

(* Mutations of TrySend: a queue without a bound; a send that blocks. *)
TrySendUnbounded(c, ch, type) ==
    queue' = Append(queue, [check |-> c, channel |-> ch, type |-> type])

SendBlocking(c, ch, type) ==
    Len(queue) < QueueCap /\ TrySendUnbounded(c, ch, type)

(* A send in a select with a default: a full queue drops the event. *)
TrySend(c, ch, type) ==
    queue' = IF Len(queue) < QueueCap
             THEN Append(queue, [check |-> c, channel |-> ch, type |-> type])
             ELSE queue

-----------------------------------------------------------------------------
(* Pings: GET /ping/{uuid}, /start and /fail. *)

(* The clock is read before the check is looked up. *)
PingArrive(r) ==
    /\ req[r].pc = "idle"
    /\ \E op \in PingOps \cap Operations, c \in Checks :
          Continue(r, [Idle EXCEPT !.pc = "get", !.op = op, !.check = c,
                                   !.at = now])
    /\ UNCHANGED <<storeVars, subs, queue, backVars>>

(* handleStart and handleComplete up to their cache.Set. *)
Pinged(op, check, at) ==
    IF op = "start" THEN AfterStart(check, at) ELSE AfterComplete(check, at)

(* The alerts handleComplete raises once its Set has succeeded. *)
AlertsOwed(op, check) ==
    (IF op # "start" /\ check.status = "down" THEN <<"up">> ELSE <<>>) \o
    (IF op = "fail" /\ check.notifyOnFail THEN <<"fail">> ELSE <<>>)

(* An unknown or a paused check ends the request silently. *)
PingGet(r) ==
    LET q == req[r]
    IN  /\ q.pc = "get" /\ q.op \in PingOps
        /\ IF q.check \in DOMAIN checks /\ checks[q.check].status # "paused"
           THEN Continue(r, [Idle EXCEPT
                                !.pc     = "set",
                                !.op     = q.op,
                                !.check  = q.check,
                                !.copy   = Pinged(q.op, checks[q.check], q.at),
                                !.alerts = AlertsOwed(q.op, checks[q.check])])
           ELSE Return(r)
        /\ UNCHANGED <<storeVars, subs, queue, backVars>>

(***************************************************************************)
(* cache.Set of the handler's copy, for every handler that saves one.  It  *)
(* fails when the row is gone, or when the statement fails; the handler    *)
(* then returns without raising its alerts.                                *)
(***************************************************************************)
SaveCheck(r) ==
    LET q == req[r]
    IN  /\ q.pc = "set"
        /\ \/ /\ Set(q.check, q.copy)
              /\ IF q.alerts = <<>>
                 THEN Return(r)
                 ELSE Continue(r, [q EXCEPT !.pc = "list", !.copy = Nil])
           \/ Return(r) /\ UNCHANGED storeVars
        /\ UNCHANGED <<subs, queue, backVars>>

(* The first alert type is done with; the next one lists channels anew. *)
NextAlert(r) ==
    IF Len(req[r].alerts) > 1
    THEN Continue(r, [req[r] EXCEPT !.pc = "list", !.chans = {},
                                    !.alerts = Tail(req[r].alerts)])
    ELSE Return(r)

(* enqueueAlerts: an error or an empty list gives the alert type up. *)
AlertList(r) ==
    LET attached == subs[req[r].check]
    IN  /\ req[r].pc = "list"
        /\ \/ /\ attached # {}
              /\ Continue(r, [req[r] EXCEPT !.pc = "send", !.chans = attached])
           \/ NextAlert(r)
        /\ UNCHANGED <<storeVars, subs, queue, backVars>>

AlertSend(r) ==
    LET q == req[r]
    IN  /\ q.pc = "send"
        /\ \E ch \in q.chans :
              /\ TrySend(q.check, ch, Head(q.alerts))
              /\ IF q.chans = {ch}
                 THEN NextAlert(r)
                 ELSE Continue(r, [q EXCEPT !.chans = @ \ {ch}])
        /\ UNCHANGED <<storeVars, subs, backVars>>

-----------------------------------------------------------------------------
(* Check management: the POST handlers under /checks. *)

(* HandleCreate: the form and the clock first, then cache.Create. *)
CreateParse(r) ==
    /\ req[r].pc = "idle" /\ "create" \in Operations
    /\ \E form \in Forms :
          Continue(r, [Idle EXCEPT !.pc = "create", !.op = "create",
                                   !.copy = NewCheck(form, now)])
    /\ UNCHANGED <<storeVars, subs, queue, backVars>>

CreateStore(r) ==
    /\ req[r].pc = "create"
    /\ Return(r)
    /\ \/ \E c \in Checks : Create(c, req[r].copy)
       \/ UNCHANGED storeVars
    /\ UNCHANGED <<subs, queue, backVars>>

(* HandleUpdate copies the check before it reads the form and the clock. *)
UpdateGet(r) ==
    /\ req[r].pc = "idle" /\ "update" \in Operations
    /\ \E c \in DOMAIN checks :
          Continue(r, [Idle EXCEPT !.pc = "parse", !.op = "update",
                                   !.check = c, !.copy = checks[c]])
    /\ UNCHANGED <<storeVars, subs, queue, backVars>>

UpdateParse(r) ==
    /\ req[r].pc = "parse"
    /\ \/ \E form \in Forms :
             Continue(r, [req[r] EXCEPT
                             !.pc   = "set",
                             !.copy = AfterUpdate(req[r].copy, form, now)])
       \/ Return(r)    \* 400: the form is invalid
    /\ UNCHANGED <<storeVars, subs, queue, backVars>>

(* HandlePause toggles its copy. *)
PauseGet(r) ==
    /\ req[r].pc = "idle" /\ "pause" \in Operations
    /\ \E c \in DOMAIN checks :
          Continue(r, [Idle EXCEPT !.pc = "set", !.op = "pause", !.check = c,
                                   !.copy = TogglePause(checks[c])])
    /\ UNCHANGED <<storeVars, subs, queue, backVars>>

(* HandleDelete is one cache call; check_channels rows go by cascade. *)
DeleteCheck(c) ==
    /\ "delete" \in Operations
    /\ Delete(c)
    /\ subs' = [subs EXCEPT ![c] = {}]
    /\ UNCHANGED <<queue, req, backVars>>

(* The statements of HandleAttachDetach, one at a time. *)
AttachToCheck(c, ch) ==
    /\ "attach" \in Operations
    /\ c \in DOMAIN checks /\ ch \notin subs[c]
    /\ subs' = [subs EXCEPT ![c] = @ \cup {ch}]
    /\ UNCHANGED <<storeVars, queue, req, backVars>>

DetachFromCheck(c, ch) ==
    /\ "detach" \in Operations
    /\ ch \in subs[c]
    /\ subs' = [subs EXCEPT ![c] = @ \ {ch}]
    /\ UNCHANGED <<storeVars, queue, req, backVars>>

-----------------------------------------------------------------------------
(* The scheduler. *)

schedOnly == UNCHANGED <<now, subs, req, crashes>>

(* time.Ticker drops ticks while one is waiting in its buffer. *)
TickerFires ==
    /\ sched.tick = Nil
    /\ sched' = [sched EXCEPT !.tick = now]
    /\ schedOnly /\ UNCHANGED <<storeVars, queue, fellDown>>

(***************************************************************************)
(* Phase 1 of evaluateAll, under the write lock: the overdue checks are    *)
(* written down one by one; the write of those in failed is refused, and   *)
(* they stay up and out of phase 2.  A crash between two of the writes is  *)
(* this step with the writes not reached in failed, then Crash.            *)
(***************************************************************************)
DueChecks == {c \in DOMAIN checks : Overdue(checks[c], sched.tick)}

PassKeepingFailed(failed) ==    \* mutation: alerts also for refused writes
    LET gone == DueChecks \ failed
    IN  /\ sched.pc = "wait" /\ sched.tick # Nil
        /\ SetAll([c \in gone |-> MarkDown(checks[c])])
        /\ fellDown' = fellDown \cup gone
        /\ sched' = [Waiting(Nil) EXCEPT
                        !.pc   = IF DueChecks = {} THEN "wait" ELSE "list",
                        !.todo = DueChecks]
        /\ schedOnly /\ UNCHANGED queue

Pass(failed) ==
    LET gone == DueChecks \ failed
    IN  /\ sched.pc = "wait" /\ sched.tick # Nil
        /\ SetAll([c \in gone |-> MarkDown(checks[c])])
        /\ fellDown' = fellDown \cup gone
        /\ sched' = [Waiting(Nil) EXCEPT
                        !.pc   = IF gone = {} THEN "wait" ELSE "list",
                        !.todo = gone]
        /\ schedOnly /\ UNCHANGED queue

Evaluate ==
    /\ sched.pc = "wait" /\ sched.tick # Nil
    /\ \E failed \in SUBSET DueChecks : Pass(failed)

(* Phase 2 has handled one check and goes on with todo. *)
NextTransitioned(todo) ==
    sched' = [sched EXCEPT !.pc    = IF todo = {} THEN "wait" ELSE "list",
                           !.todo  = todo,
                           !.check = Nil,
                           !.chans = {}]

(* An error from ListByCheckID, or an empty list, skips the check. *)
SchedulerList ==
    /\ sched.pc = "list"
    /\ \E c \in sched.todo :
          \/ /\ subs[c] # {}
             /\ sched' = [sched EXCEPT !.pc = "send", !.todo = @ \ {c},
                                       !.check = c, !.chans = subs[c]]
          \/ NextTransitioned(sched.todo \ {c})
    /\ schedOnly /\ UNCHANGED <<storeVars, queue, fellDown>>

SchedulerSend ==
    /\ sched.pc = "send"
    /\ \E ch \in sched.chans :
          /\ TrySend(sched.check, ch, "down")
          /\ IF sched.chans = {ch}
             THEN NextTransitioned(sched.todo)
             ELSE sched' = [sched EXCEPT !.chans = @ \ {ch}]
    /\ schedOnly /\ UNCHANGED <<storeVars, fellDown>>

-----------------------------------------------------------------------------
(* The worker, the clock, and the end of the process. *)

(* The worker receives an event; what it does with it is AlertPipeline's. *)
WorkerReceive ==
    /\ queue # <<>>
    /\ queue' = Tail(queue)
    /\ UNCHANGED <<storeVars, subs, req, backVars>>

Tick ==
    /\ now < MaxTime
    /\ now' = now + 1
    /\ UNCHANGED <<storeVars, subs, queue, req, sched, crashes, fellDown>>

(***************************************************************************)
(* The process is killed and started again: the database is all that is    *)
(* left, and the cache is hydrated from it before anything else starts.    *)
(***************************************************************************)
Crash ==
    /\ crashes < MaxCrashes
    /\ crashes' = crashes + 1
    /\ Reload
    /\ queue' = <<>>
    /\ req' = [r \in Requests |-> Idle]
    /\ sched' = Waiting(now)
    /\ UNCHANGED <<now, subs, fellDown>>

-----------------------------------------------------------------------------

Handler(r) ==
    \/ PingArrive(r) \/ PingGet(r)
    \/ SaveCheck(r) \/ AlertList(r) \/ AlertSend(r)
    \/ CreateParse(r) \/ CreateStore(r)
    \/ UpdateGet(r) \/ UpdateParse(r) \/ PauseGet(r)

Scheduler ==
    \/ TickerFires
    \/ Evaluate
    \/ SchedulerList
    \/ SchedulerSend

Next ==
    \/ \E r \in Requests : Handler(r)
    \/ \E c \in Checks : DeleteCheck(c)
    \/ \E c \in Checks, ch \in Channels :
          AttachToCheck(c, ch) \/ DetachFromCheck(c, ch)
    \/ Scheduler
    \/ WorkerReceive
    \/ Tick
    \/ Crash

Spec == Init /\ [][Next]_vars

(***************************************************************************)
(* The scheduler goroutine is never starved and its ticker keeps firing;   *)
(* a pass whose writes all succeed is not put off for ever.  Nothing is    *)
(* assumed of clients, of the worker or of the clock.                      *)
(***************************************************************************)
SchedulerFairness ==
    /\ WF_vars(TickerFires)
    /\ SF_vars(Pass({}))
    /\ WF_vars(SchedulerList)
    /\ WF_vars(SchedulerSend)

FairSpec == Spec /\ SchedulerFairness

(* The same with a worker that keeps receiving. *)
ServedSpec == FairSpec /\ WF_vars(WorkerReceive)

-----------------------------------------------------------------------------
(* Safety. *)

(***************************************************************************)
(* However handlers, scheduler and crashes interleave, every check in the  *)
(* cache and every copy a handler is about to save keeps the relations     *)
(* between its fields: a stale copy may undo another write but never       *)
(* leaves a check half paused, new after a ping, or without a deadline.    *)
(***************************************************************************)
RecordsConsistent ==
    /\ \A c \in DOMAIN checks : Consistent(checks[c])
    /\ \A r \in Requests : req[r].copy # Nil => Consistent(req[r].copy)

(***************************************************************************)
(* No down or recovery alert is queued, or about to be, for a check that   *)
(* was never persisted as down: the scheduler's phase 2 works from writes  *)
(* that succeeded, and a ping sees "down" only after such a write, also    *)
(* through a pause, a stale copy or a restart.                             *)
(***************************************************************************)
AlertsBacked ==
    /\ \A c \in DOMAIN checks :
          EffectiveStatus(checks[c]) = "down" => c \in fellDown
    /\ \A i \in DOMAIN queue :
          queue[i].type \in {"down", "up"} => queue[i].check \in fellDown
    /\ sched.todo \subseteq fellDown
    /\ sched.pc = "send" => sched.check \in fellDown
    /\ \A r \in Requests :
          (\E i \in DOMAIN req[r].alerts : req[r].alerts[i] = "up")
             => req[r].check \in fellDown

(***************************************************************************)
(* A deleted check stays deleted, although handlers that copied it before  *)
(* still save their copy afterwards (Set updates a row and never inserts). *)
(***************************************************************************)
NoResurrection ==
    [][\A c \in issued : c \notin DOMAIN checks => c \notin DOMAIN checks']_vars

(***************************************************************************)
(* The handlers and the scheduler use the store only in the ways the       *)
(* abstract store allows, and leave a consistent record behind each time.  *)
(***************************************************************************)
ImplementsStore == StoreSpec

(* Liveness. *)

(***************************************************************************)
(* A check that missed its deadline is noticed: it does not stay up and    *)
(* overdue for ever, whatever the queue, the worker, failing queries and   *)
(* crashes do to the scheduler.                                            *)
(***************************************************************************)
MissedIsDetected ==
    \A c \in Checks :
        (c \in DOMAIN checks /\ Overdue(checks[c], now))
            ~> ~(c \in DOMAIN checks /\ Overdue(checks[c], now))

-----------------------------------------------------------------------------
(* What the documentation says and the code does not do. *)

(***************************************************************************)
(* doc/ARCHITECTURE.md, transition rules: a success or fail ping that      *)
(* takes a check from down to up raises a recovery alert.                  *)
(***************************************************************************)
RecoveryAlerted ==
    [][\A r \in Requests :
          LET q == req[r]
          IN  /\ q.pc = "set" /\ q.op \in {"success", "fail"}
              /\ q.check \in DOMAIN checks /\ checks[q.check].status = "down"
              /\ req'[r] # q /\ checks' # checks
              => req'[r].alerts # <<>> /\ Head(req'[r].alerts) = "up"]_vars

(***************************************************************************)
(* doc/ARCHITECTURE.md on the alert queue: an event dropped on a full      *)
(* queue is queued again by a later tick while the check is still down.    *)
(***************************************************************************)
DroppedIsRequeued ==
    \A c \in Checks, ch \in Channels :
        (/\ sched.pc = "send" /\ sched.check = c /\ ch \in sched.chans
         /\ Len(queue) = QueueCap)
        ~> (\/ c \notin DOMAIN checks \/ checks[c].status # "down"
            \/ [check |-> c, channel |-> ch, type |-> "down"] \in
                   {queue[i] : i \in DOMAIN queue})
=============================================================================
