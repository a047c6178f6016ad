# CronMon in TLA+

A specification of CronMon, the cron-job monitor in `src/`: jobs ping a URL, a
scheduler notices the pings that do not come, and a worker notifies channels.
The modules are written from the Go source; `PROJECT.json` maps each definition
to the lines it stands for, lists the runs, the mutations that show each
property can fail, the hazards and the theorems. Paths below are relative to
`src/`.

Check a run with `tlc -workers 2 -config <cfg> <module>`, a proof module with
`tlapm <module>.tla`.

## 1. Inventory

One process, one SQLite file. Goroutines: one per HTTP request, the scheduler,
the notifier worker, the HTTP server, and `main.run`.

| Component | State | Operations |
|---|---|---|
| Check record (`model`, `schedule`, parts of `handler` and `scheduler`) | none: the record and pure edits of it | `NextAfter`, `NextExpectedAt`, the edits of ping, create, update, pause, mark down |
| State cache (`cache/check_cache.go`) | map UUID -> check under a `sync.RWMutex`, the `checks` table behind it | `Hydrate`, `Get`, `Snapshot`, `Create`, `Set`, `Delete`, `WithWriteLock` |
| Ping handlers (`handler/ping.go`) | locals: the time of arrival, a copy of the check | success, start, fail |
| Check management (`handler/check.go`) | locals: a copy of the check, the form | create, update, delete, pause |
| Scheduler (`scheduler/scheduler.go`) | ticker buffers, stop channel, context | reconciliation and evaluation passes (two phases), hourly cleanup, `Stop` |
| Alert queue and worker (`notify/worker.go`, `repository/notification_repo.go`) | `alertCh` (64 places), the `notifications` table | non-blocking send, receive, notify, insert, insert again without the channel |
| Start-up and shutdown (`main.go`) | where `run` is | load, open, hydrate, start, listen; `Shutdown`, `Close`, `Stop`, `close(alertCh)`, `Wait` |
| Channel subscriptions (`handler/channel.go`, `repository/channel_repo.go`) | tables `channels`, `check_channels` | create, delete, attach/detach from a form |
| Ping history (`repository/ping_repo.go`) | table `pings` | insert, list, prune to the newest 1000 |
| Database (`db/db.go`, `migrations/`) | the one pooled connection, `schema_migrations`, an open transaction | open, migrate |
| Notifiers, dialling checks (`notify/*.go`, `netutil`) | the connection of the delivery under way | `Send`, the checked `DialContext` |
| Dashboard (`handler/dashboard.go`) | locals: what the page has read so far | read-only pages |
| Middleware (`middleware/`) | none | basic auth, logging, `MethodOverride` |
| Configuration (`config`) | none after start | `Load`, `Validate` |

How they interact. Handlers and scheduler share the cache; a handler calls
`Get`, edits its copy and calls `Set`, and each is a critical section of its
own. The cache writes the table first and its map second, both under the write
lock. The scheduler's pass marks overdue checks down inside one
`WithWriteLock` (phase 1), then looks up channels and sends to `alertCh`
without the lock (phase 2). Ping handlers send to the same channel. Every
repository call of everyone goes through a single database connection. The
worker alone receives, and alone writes `notifications`; between the two it
talks to a mail server or an HTTP endpoint, one delivery at a time for all
channels. Foreign keys cascade deletions into `pings`, `check_channels` and
`notifications`. A start opens and migrates the database before anything else
runs, and ends the process when a step of it fails; a supervisor starts the
process again (`restart: unless-stopped`, `doc/ARCHITECTURE.md:656`).

What is hard: lost updates between `Get` and `Set`; phase 2 working from what
phase 1 saw; a bounded queue that drops; two locks (mutex and connection) taken
in a row; statements refused half way through a handler; kill and restart, with
times that lose their fraction of a second in the table; requests that outlive
the shutdown timeout; pings whose times and ids are ordered differently, read
by a page that has read the check before; submissions of the same form page
interleaving; a migration cut off between its statements and the record of its
version; a peer that hangs up, falls silent, or takes an alert and then loses
the answer. `PROJECT.json` lists each of
these at its line, with the properties aimed at it.

What makes each component correct:

* check record: the saved status exists exactly while paused, "new" exactly
  without a completed ping, always a deadline (`Consistent`);
* cache: each call atomic, no reader sees map and table disagree, every call
  returns, a deleted check stays deleted;
* handlers and scheduler: records stay consistent under any interleaving, down
  and recovery alerts only for checks that were persisted as down, a missed
  deadline is always noticed;
* pipeline: an accepted event is neither lost nor recorded twice, a row tells
  what happened;
* start: a migration is recorded exactly when it is complete, nothing runs on
  half a schema, and no failed start keeps the next one from coming up;
* shutdown: orderly and certain;
* delivery: what is reported as sent was taken, what failed has a cause outside
  the program or a configuration known not to be deliverable, and no peer holds
  the worker up for good;
* subscriptions: a form is applied exactly when nothing interferes, a channel
  everybody selects is never taken away;
* history: it explains `last_ping_at`, but for the pings whose insert is under
  way, was refused or was cut off by the end of the process; it stays bounded,
  and the page made of it contradicts itself by those pings only.

## 2. Modules

| Module | Extends / instance of | Models |
|---|---|---|
| `Checks` | | the record, its pure edits, the rounding of stored times |
| `CheckStore` | `Checks` | **abstract**: cache and table as one map, each operation atomic |
| `StateCache` | `Checks`; `INSTANCE CheckStore` | the cache at the grain of the RWMutex and the connection; refines `CheckStore` |
| `Monitor` | `CheckStore` | handlers, scheduler and queue on top of the atomic store |
| `AlertPipeline` | | queue, worker, `notifications` |
| `Lifecycle` | `AlertPipeline` | requests, scheduler and `main.run` around the pipeline at the end of the process |
| `Subscriptions` | | `check_channels` and `HandleAttachDetach` |
| `PingHistory` | | `pings`, the cleanup, copies of `last_ping_at`, the page of one check |
| `Startup` | | `main.run` up to the listening server: configuration, database, migrations |
| `Delivery` | `Startup` | the worker's `Send` of each notifier, call by call, in a started process |
| `ChecksProofs`, `MonitorProofs`, `StateCacheProofs`, `LifecycleProofs`, `SubscriptionsProofs`, `PingHistoryProofs`, `DeliveryProofs` | the module they prove about | theorems |
| `MCMonitor`, `MCStateCache`, `MCPingHistory`, `MCDelivery` | the module they instantiate | values of constants for TLC |

The layers meet at `CheckStore`: `StateCache` shows that the cache implements
it, `Monitor` uses nothing of the cache but it, and `Monitor` is itself shown
to drive it only in permitted ways (`ImplementsStore`, there and here).
`AlertPipeline` takes up the queue where `Monitor` leaves it, and `Lifecycle`
composes it with what happens around it at shutdown. `Delivery` opens up the
one step that a `Send` is there, and composes it with `Startup`, because what a
notifier may do depends on the environment the start let through.

### Correspondence with the code

**Monitor.** `req[r]` is the goroutine serving a request: `pc` is the next call
that touches shared state, the other fields are its Go locals. `PingArrive` is
`handle` up to `time.Now`; `PingGet` is `cache.Get` and the pure edit;
`SaveCheck` is every handler's `cache.Set`; `AlertList` and `AlertSend` are
`enqueueAlerts`. `CreateParse`/`CreateStore`, `UpdateGet`/`UpdateParse`,
`PauseGet` and `DeleteCheck` are the handlers of `check.go`. `sched` is the
scheduler: `tick` is the one-place buffer of `time.Ticker`, `Pass(failed)` is
phase 1 with the writes in `failed` refused, `SchedulerList`/`SchedulerSend` are
phase 2. `fellDown` is a history variable. The reconciliation pass at start is
a tick that is present when the process starts.

**StateCache.** `call[p].pc` walks through `mu.Lock`, the wait for readers, the
wait for the connection, the statement, the map. `writer` and `readers` follow
`sync.RWMutex` (a waiting writer blocks new readers; `Unlock` admits the
readers that waited). A pass over the checks is a loop of updates under one
lock.

**AlertPipeline / Lifecycle.** `worker` is the worker goroutine; events carry
the number under which the queue took them, which stands for nothing in the
code and lets rows be traced. `main` is the place of `main.run`. Cutting
connections (`srv.Close`) puts the requests still being served in `cancelled`:
their next repository call fails, but a send does not look at the context.

**Subscriptions.** One action per SQL statement of `HandleAttachDetach`.
`Read` is what `ParseForm` finds after `MethodOverride` has parsed the body
through its 1,024-byte reader: beyond that limit an empty form, without error.

**PingHistory.** `Arrive`, `Get`, `Set`, `Record` are the ping handler seen from
the table; `EditGet` stands for the other handlers that write `last_ping_at`
back as part of their copy; `CleanupOldPings`/`DeleteOldest` are the hourly
pass. `PageGet` and `PageList` are `HandleCheckDetail` between its `cache.Get` and
its query for the pings; `Row` is a row of that query by its ORDER BY, `Squares`
what `buildPingSquares` makes of the rows. `Restart` is the end of the process at
any point, by kill or otherwise, and the next one's `Hydrate`: what handlers,
cleanup and pages had still to do is gone, and a ping between `cache.Set` and
its insert joins the `lost` ones.

**Startup.** `main` is the next thing `main.run` and `db.Migrate` do, one
statement of SQL at a time. `tx` is the open transaction: what it did is
invisible to the database until `Commit`, and lost with the process. `Gone` is
every way out of the process, `Refused` a way out because something outside
failed, `Kill` one at any point. `Start` is the supervisor. `env` is the
environment, by what `Validate` and the notifiers tell apart, and whether
`SMTP_HOST:SMTP_PORT` can be dialled at all, which nothing checks; it never changes,
as the supervisor passes it on. `calm` is a history variable: after `Settle`,
nothing outside fails or interferes any more, so that coming up can be claimed.
A signal that arrives while the start goes on waits in its channel and is seen
at `listen`.

**Delivery.** `job` is one `dispatch`: `calls` is what `Send` has still to do
that waits for somebody else (`MailCalls`, `HTTPCalls`), `addrs` the addresses
the checked dialler has left, `post` whether the HTTP request still is the POST
that carries the alert. `Fault` and `TimeOut` may end any call; `taken` and
`fault` are history. `Stored` is what `HandleCreate` lets into the table. A
redirect dials again, so the dialler checks the new host. The program's own
refusals, `MailDial` of a port that is none and `Resolve` of a name with a
private address, are not `fault`; a redirect to a private address is, as the
other end has asked for it.

### Modelling decisions

* A statement that fails has changed nothing. A commit whose outcome the
  caller cannot know is not modelled.
* A schedule is the distance between its run times, or `Never`. The program
  asks of a cron expression only its next run time after an instant, and an
  expression such as `0 0 30 2 *`, which `Validate` accepts, has none: it gets
  Go's zero time. Whether an expression has a run time is taken to be the same
  whenever it is asked (for the 29th of February around 2100 it is not).
* Any statement may fail at any time; this covers cancelled contexts, too.
* A crash between two writes of phase 1 is `Pass` with the rest refused, then
  `Crash`. In `StateCache`, a pass picks any set of up checks as overdue.
* Snapshots of the check and the channel inside an event are their ids; alert
  type and wording matter only in `Monitor`, which keeps the type. `Delivery`
  keeps the channel's type and target.
* `time.Duration` has its width: `Duration` (the scheduler's interval) and
  `GraceDuration` (the grace, without an upper bound in `parseCheckForm`)
  multiply in two's complement, with fewer bits in the runs and any number of
  them in the proofs. A form with both a schedule without run times and a grace
  that overflows to below zero is left out (`ReadableAssumption`): its deadline
  may lie before the year 0, `parseTimePtr` refuses the row, and no later start
  gets past `Hydrate`.
* Mail servers, endpoints and Go's `net/http` and `net/smtp` are external: they
  are modelled by the answers the code tells apart.
* Name, slug, tags and the created/updated times are left out; no decision
  reads them.

## 3. Runs

The bounds are small, so each was chosen for the case it has to contain.

| Run | Bounds | Why they are enough | Shows |
|---|---|---|---|
| `races` | 1 check, 1 channel, 2 requests, queue of 1, clock to 2 | a start ping puts the deadline at now + 1, so a check can fall and recover within two ticks; two handlers and the scheduler are the actors of every lost update; a queue of one is full after one alert | `TypeOK`, `RecordsConsistent`, `AlertsBacked`, `NoResurrection`, `ImplementsStore` |
| `restart` | 1 request, seconds of 2 ticks, clock to 5, 1 crash, 3 forms, durations below 4 ticks | a time that is odd loses its fraction on reload; a ping at 0 or 1 sets the deadline to 4, so a check is overdue at 5; one form has no run time, one a grace of 4 ticks that overflows to -4, and an update moves a check from one form to another | records through a reload; `MissedIsDetected` (liveness) |
| `cache` | 2 callers, 2 checks, 1 crash | every pair of calls, with a reader behind a draining writer | `TypeOK`, `ReadersSeeTheTable`, `WaitingEnds`, refinement of `CheckStore`, `CallsReturn` (liveness) |
| `lifecycle` | 1 check, 2 channels, 1 with a notifier, 1 request, queue of 2 | two events wait behind a third that fails, is recorded without its channel or is given up; the next one finds the queue full; request, scheduler and worker are all in flight at shutdown | `TypeOK`, `EventsAccountedFor`, `FirstInFirstOut`, `RowsTruthful`, `OrderlyEnd`, `Terminates` (liveness) |
| `subscriptions` | 1 check, 3 channels, 2 submissions, forms of at most 2 fit | kept, added and removed channels in one form; an oversized form | `TypeOK` (with the foreign keys), `AloneIsExact`, `SelectedStaysAttached` |
| `pings` | 1 check, 2 requests, keep 2, a page of 2, seconds of 2 ticks, clock to 2, 3 inserts | two pings out of order, equal stored times, one of three pruned while a page is open, restarts at any step; keep may not be below the page, as 1000 is not below 30 | `TypeOK`, `HistoryCoversLastPing`, `PrunedStaysBounded`, `PageExplainsLastPing`, `CleanupLeavesThePage` |
| `delivery` | 2 files with 3 objects, 5 intervals and all values of the other variables, 2 addresses, 1 redirect | a cut inside a file, between two files, and before the record; 7 bits and 4 ticks to the second make one interval overflow to below zero and one to above; the first address dead and the second up; a redirect and the refusal of one more | `TypeOK`, `RecordedIsComplete`, `RunsOnFullSchema`, `SentMeansTaken`, `FailureHasACause`, `StartGoesOn`, `SendShrinks`, `ComesUp` and `DispatchEnds` (liveness) |

`cache` and `delivery` check for deadlock. The other runs turn that check off,
because their systems really stop: the clock, the checks or the requests run
out, or the process ends.

In `races` and `pings` the two requests are interchangeable and `SYMMETRY` is
used; no liveness is checked there. In `races`, `success` is left out because a
`fail` ping makes the same change to the record and owes one alert more, and
`detach` because an empty list is also what a failed query gives. `restart` has
these two, and leaves out `fail` for the same reason and `start`, which moves
the deadline as an update does and takes no other field with it.

### Where code and documents disagree

Five runs end in a counterexample, each for one sentence of the repository:

* `recovery`: the scheduler marks a check down between a ping's `Get` and
  `Set`; the `Set` takes it up and no recovery alert follows
  (`doc/ARCHITECTURE.md:454`, and `:382` on one critical section). By the same
  race a start ping, which is to leave the status alone
  (`internal/handler/ping.go:61`), takes a check up; no property is about that.
* `dropped`: a down alert dropped on a full queue is never queued again,
  because later passes look at up checks only (`doc/ARCHITECTURE.md:401`). The
  run assumes a worker that keeps receiving.
* `send_on_closed`: a signal, `Shutdown` times out on a handler, `srv.Close`
  cancels its context but does not wait for it, `Stop` and `close(alertCh)`
  follow, and the handler sends on the closed channel (`main.go:127`). net/http
  recovers the panic; the alert is lost. The run leaves out `ServeError`, which
  reaches the same end without any shutdown of the server.
* `down_at_exit`: `Stop` between the phases of a pass leaves a check down that
  was never alerted, now or after the restart (`doc/ARCHITECTURE.md:467`).
* `large_form`: a form above 1,024 bytes is read as an empty selection
  (`internal/handler/channel.go:128`). The trace starts without attached
  channels and shows the channel that is not attached; by the same reading,
  whatever is attached is detached. No error is reported in either case.

### Fairness

* `Monitor`: the scheduler goroutine is scheduled and its ticker fires (weak);
  a pass whose writes all succeed is not put off for ever (strong, as failing
  writes and crashes may disable it again and again). Nothing is assumed of
  clients, the worker or the clock. `ServedSpec` adds a worker that keeps
  receiving, for `dropped` only.
* `StateCache`: goroutines are scheduled; `sync.RWMutex` serves its waiters in
  order, hence strong fairness for taking it. For the connection `database/sql`
  promises no order: it hands a freed connection to one of those waiting, in
  some versions of Go to one picked at random. Strong fairness for taking it is
  an assumption that then holds with probability one. Nobody has to call, and a
  statement may always fail, but it ends (`busy_timeout`).
* `Lifecycle`: `main`, scheduler and worker are scheduled, the ten-second
  shutdown context expires, `Send` ends by its deadline. Requests have no
  fairness: one may hang for ever.
* `Delivery`: a start goes on, `Send` ends by its deadline, the row is written
  or given up. `Wait` returns (strong): the worker may find further events in
  the closed queue, but they are finitely many. Nothing is assumed of the other
  end, and kills and refusals may go on for ever; `ComesUp` speaks of what
  follows `Settle`, which need not come.
* `Subscriptions` and `PingHistory` have safety properties only.

### What some properties exclude

`SentMeansTaken` leaves out an endpoint that answers the POST with 301, 302 or
303: `http.Client` then fetches another page with a GET and no body, and the
2xx of that page is recorded as sent. `ComesUp` leaves out an interval whose
`time.Duration` overflows to nothing or below: `Validate` has no upper bound
(`internal/config/config.go`), and `scheduler.New` panics at every start. No
document speaks of either, so they are stated where the property is and not as
findings. `Undeliverable` lists, for `FailureHasACause`, the configurations
that pass all checks and for which a `Send` may, and mostly must, fail although
network and other end do their part: mail that was never configured, an
`SMTP_PORT` that cannot be dialled, a sender or recipient with a display name, a
login over plain text, a Slack URL of which only the prefix is right, and a
webhook host whose name resolves to a private address.

`HistoryCoversLastPing` and `PageExplainsLastPing` count as explained what they
name: pings whose insert is under way, refused, or cut off by the end of the
process. `SelectedStaysAttached` leaves out a channel whose `GetByID` failed.

## 4. Proofs

`ChecksProofs` proves facts about the operators of `Checks`: every edit,
rounding to seconds included, keeps a record consistent, and `PingBuysGrace`,
what a completed ping is worth. If the schedule has a run time and the grace
fits a `time.Duration`, the scheduler does not find the check overdue before
the grace is over, after a restart less one second; without a run time the
check is overdue at once, whatever the grace. It rests on `NextAfterIsLater`,
`GraceDurationIsExact` (two's complement is exact for what fits),
`DeadlineLeavesGrace` and `TruncateIsTime`.

`MonitorProofs` proves, for any sets of checks, channels and requests, any
forms, width of a duration, queue capacity, precision of times, bound on the clock and number of
crashes:

| Theorem | Statement |
|---|---|
| `TypeCorrect` | `Spec => []TypeOK` |
| `ConsistentAlways` | `Spec => []RecordsConsistent` |
| `AlertsAlwaysBacked` | `Spec => []AlertsBacked` |
| `StoreImplemented` | `Spec => ImplementsStore` |
| `DeletedStaysDeleted` | `Spec => NoResurrection` |

The three invariants follow from one inductive invariant, `IInv`. None of them
is inductive alone, since a save is only as good as the copy in flight:
`LocalsInv` therefore says, per program counter, what a handler's locals
promise (the copy is consistent; if it is down behind its pause, its check is
in `fellDown`; an "up" alert is only owed for such a check), and `SchedulerInv`
and `QueueInv` say the same of phase 2 and of the queue. Each action has a
lemma `...Keeps`, split by the conjunct it can disturb. `StoreImplemented`
shows that each action changes `checks` and `issued` by a step of `StoreNext`
or not at all, which needs `IInv` for the consistency of what is written;
`DeletedStaysDeleted` uses that no store step re-issues an id.

`SubscriptionsProofs` proves, for any sets of checks, channels and submissions
and any limit on a form, `TypeCorrect` (with the foreign keys),
`SubmissionIsExact` (`Spec => []AloneIsExact`) and `SelectedNeverDetached`
(`Spec => SelectedStaysAttached`). Its `IInv` adds to the type that a handler's
`desired` set keeps every channel its form selects and is disjoint from what it
still has to detach, and, for a submission nothing has interfered with, how far
the table is from the form in each loop (`Progress`).

`StateCacheProofs` proves, for any callers, checks and inputs, any precision of
times and any number of crashes:

| Theorem | Statement |
|---|---|
| `TypeCorrect` | `Spec => []TypeOK` |
| `ReadersSeeTheTableAlways` | `Spec => []ReadersSeeTheTable` |
| `WaitingAlwaysEnds` | `Spec => []WaitingEnds` |
| `CacheImplementsStore` | `Spec => ImplementsStore` |
| `TableAlwaysConsistent` | `Spec => []TableConsistent` |
| `DeletedRowsAlwaysStayDeleted` | `Spec => DeletedRowsStayDeleted` |

`IInv` has three parts. `LocksInv` ties write lock, read locks and connection
to the program counters, with no reader during a critical section. `LocalsInv`
is what the locals of a call promise: a pass still holds only checks that are
up in the map, an id about to be created is fresh and no other caller's.
`CoherenceInv` says that the table is the rounding of the abstract map, and
that rounding it again changes nothing. The abstract map is the cache, except
between statement and map update, where it already has the new value; so only
`Commit` and `Crash` change it. `QuietKeeps` disposes of every other step, and
`CommitImplements` and `CrashImplements` find the step of `StoreNext` those two
are. The last two theorems use the refinement for what it is there for: they
prove a property of `CheckStore` once, where every operation is atomic, and
carry it down to the table of the cache, where `Stored` of the store's map is
the table.

`WaitingEnds` is the absence of deadlock: a caller that holds the lock may wait
for the connection, but the one with the connection never waits for the lock,
so every chain of waiting ends at a call that runs. It needs one invariant
more, `BlockedInv`: a reader sleeps only while a writer holds or waits for the
lock, which `Unlock` must hand on to all sleeping readers (`UnlockWakes`).

`LifecycleProofs` proves, for any checks, channels, notifiers, requests and any
capacity of the queue, `TypeCorrect`, `EventsAreAccountedFor`,
`AlertsKeepTheirOrder` (`Spec => []FirstInFirstOut`), `RowsAreTruthful` and
`EndIsOrderly`. `PipelineInv` says where an event is: its
number is in the queue, in the worker's hands or in a row, once; the worker
holds an event exactly while busy, has delivered it or has an error exactly
from `insert` on, and leaves only an empty closed queue behind. `OrderInv` is
the order of main: scheduler gone before the close, worker gone before the end.
`FirstInFirstOut` is inductive on top of `PipelineInv`: what is done has lower
numbers than what the worker holds, and that a lower one than the queue, which
ascends; as every number is in one place, the worker has passed over none.

`PingHistoryProofs` proves, for any checks, requests, clock, number of pings and
any sizes of history and page with the page the smaller one, `TypeCorrect`,
`HistoryExplainsLastPing`, `PrunedBounded`, `PageConsistent` and
`CleanupKeepsPage`. It rests on facts about the order of the two queries: it is
strict and total on pings with different ids, every finite non-empty set has a
newest ping, pruning keeps it and keeps row i for every i up to what is kept,
and leaves no more than that. What is inductive is not the invariant about the
table but one about every copy of `last_ping_at` in flight (a handler's, the
page's): each is covered by a ping in the table, one about to be inserted, or
one that was lost: refused, or cut off by the end of the process.

`DeliveryProofs` proves, for any files that create each object once, any
intervals and width of a duration, any number of addresses and redirects,
`TypeCorrect`, `MigrationsExact`, `FullSchema`, `SentIsTaken`,
`FailureExplained`, `StartAlwaysGoesOn`, `SendAlwaysShrinks` and
`DurationIsExact`. `StartupInv` adds to the type that every file before the
current one is recorded (`LoopInv`), and that the transaction has done the
statements up to `stmt` of the current file and nothing else (`TxInv`);
`ConfigInv` that a process beyond `config` has a valid environment; `JobInv`
that the calls left are a rest of `MailCalls` or `HTTPCalls`, and that one of
the addresses left to dial answers unless a fault has shown already. `AddrsInv`
bounds the addresses and says that there are none but between the resolving of
a name and the connection; without it the bound on a redirect's new addresses
would not count.

Liveness itself is out of the prover's reach, but what it rests on besides
fairness is proved: that no step goes back. Each of these is a measure that the
steps in question only bring closer to the end.

| Theorem | Measure | Beneath |
|---|---|---|
| `StartAlwaysGoesOn` (`Spec => StartGoesOn`) | phase of `main.run`, entry of `Migrate`, phase of the entry, statement; a start with nothing against it never meets an existing table, a recorded version or a missing table | `ComesUp` |
| `SendAlwaysShrinks` (`Spec => SendShrinks`) | redirects left, calls left, addresses left | `DispatchEnds` |
| `DrainAlwaysGoesOn` (`Spec => DrainGoesOn /\ []DrainBounded`) | events queued and steps left for the one in hand, at most `4 * QueueCap + 4` once the queue is closed | `Terminates` |
| `StopAlwaysGoesOn` (`Spec => StopGoesOn`) | checks and channels the pass has still to see once the context is cancelled | `Terminates` |
| `WaitingAlwaysEnds` | the chain of callers that wait for each other | `CallsReturn` |

`StartGoesOn` needs all of `StartupInv`, most of all `RecordedIsComplete`: a
file that is not recorded must have left nothing behind. `DurationIsExact`
shows that `Startable` leaves out no interval but those too long for a
`time.Duration`.

The assumptions are the ASSUMEs of the modules: seconds, minutes, the queue's
capacity and what cleanup keeps are positive, a minute is a whole number of
seconds, forms are what `parseCheckForm` lets through (less those of
`ReadableAssumption`), a duration has some width, no object is created by
two files, the table `Hydrate` reads is in one of them (`checks`, in
`internal/db/migrations/001_initial.sql`), `Nil` is none of the values it is
compared with. TLC evaluates them
in every run.

Every invariant of a passing run, every action property and both refinements
are thus proved. `TableConsistent`, `DeletedRowsStayDeleted`, `DrainGoesOn`,
`DrainBounded` and `StopGoesOn` are proved without a run of their own. Only
model-checked are the liveness properties (`MissedIsDetected`, `CallsReturn`,
`Terminates`, `ComesUp`, `DispatchEnds`), whose fairness and ENABLED the prover
does not handle. Nothing here needs induction over data: no module declares a
RECURSIVE operator.

## 5. Plan

Done: the modules, runs and proofs above.

To model, in this order:

1. In `Monitor`: the order of a down and a recovery alert from two producers,
   and a client that goes away between `Set` and the lookup of channels. No
   document promises anything for either, so what to state comes first.
2. `Delivery` between `WorkerReceive` and the insert of `AlertPipeline`, as a
   refinement of its one-step `WorkerSend`.

To prove: what `MissedIsDetected` rests on besides fairness, as for the other
liveness properties (phase 2 only shrinks, and a tick is never ahead of the
clock), and the refinement of item 2.

Not modelled, and why:

* cron syntax and calendars: robfig/cron's; callers ask only `NextAfter`;
* text of messages, headers and payloads, templates, the dashboard's lists of
  checks, channels and notifications, logging: formatting, or one query each;
* basic auth and the other switches of the configuration (port, paths, log
  level, proxy, HTTPS): no state;
* which address ranges count as private: a table; in `Resolve`, a private
  address is one of the reasons to refuse;
* reuse of an idle HTTP connection, and DNS lookups that outlive their context:
  inside `net/http` and the resolver;
* pragmas on a connection the driver would reopen: `db.Open` sets them once on
  the pool; when the driver gives up a connection is outside the repository.
