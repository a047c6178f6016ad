---------------------------- MODULE AlertPipeline ---------------------------
(***************************************************************************)
(* From alertCh to the notifications table: the queue, the notifier worker *)
(* and the rows it writes, while channels and checks are deleted.          *)
(*                                                                         *)
(* The worker takes one event at a time, hands it to the notifier of its   *)
(* channel's type (the channel travels inside the event: a deleted channel *)
(* is still notified), and writes the outcome to the notifications table.  *)
(* If the insert is refused, for whatever reason, it is tried once more    *)
(* without the channel; after that the outcome is only logged.             *)
(*                                                                         *)
(* The events the queue takes are numbered, so that a row can be traced    *)
(* back to its event; the alert's type and the snapshot of the check take  *)
(* no part.                                                                *)
(***************************************************************************)
EXTENDS Integers, Sequences, FiniteSets

CONSTANTS
    Checks,
    Channels,
    Registered,    \* the channels whose type has a notifier (buildNotifiers)
    QueueCap,      \* capacity of alertCh
    Nil            \* a nil pointer

ASSUME RegisteredAssumption == Registered \subseteq Channels
ASSUME QueueCapAssumption   == QueueCap \in Nat \ {0}
ASSUME NilAssumption        == Nil \notin Channels

VARIABLES
    checkRows,        \* the checks that exist
    channelRows,      \* the channels that exist
    notifications,    \* rows of the notifications table
    alertCh,          \* the queue
    closed,           \* close(alertCh) was called
    worker,           \* the worker goroutine
    accepted,         \* history: how many events the queue took
    delivered,        \* history: numbers of the events a notifier delivered
    unrecorded        \* history: numbers of the events both inserts failed for

tables  == <<checkRows, channelRows, notifications>>
history == <<accepted, delivered, unrecorded>>
pipelineVars == <<tables, alertCh, closed, worker, history>>

Events == [number : Nat, check : Checks, channel : Channels]

(* error is what the row's error column says: TRUE when it is not NULL. *)
Rows == [number : Nat, check : Checks, channel : Channels \cup {Nil},
         error : BOOLEAN]

(* event is the one being dispatched, <<>> between two of them. *)
Workers == [pc : {"receive", "send", "insert", "retry", "exited"},
            event : Events \cup {<<>>}, error : BOOLEAN]

Receiving == [pc |-> "receive", event |-> <<>>, error |-> FALSE]

PipelineTypeOK ==
    /\ checkRows \subseteq Checks
    /\ channelRows \subseteq Channels
    /\ notifications \subseteq Rows
    /\ alertCh \in Seq(Events) /\ Len(alertCh) <= QueueCap
    /\ closed \in BOOLEAN
    /\ worker \in Workers
    /\ accepted \in Nat
    /\ delivered \subseteq 1..accepted
    /\ unrecorded \subseteq 1..accepted

PipelineInit ==
    /\ checkRows = Checks
    /\ channelRows = Channels
    /\ notifications = {}
    /\ alertCh = <<>>
    /\ closed = FALSE
    /\ worker = Receiving
    /\ accepted = 0 /\ delivered = {} /\ unrecorded = {}

-----------------------------------------------------------------------------
(* Producers: the scheduler and the ping handlers. *)

OfferUnbounded(c, ch) ==    \* mutation: a queue without a bound
    /\ ~closed
    /\ alertCh' = Append(alertCh, [number |-> accepted + 1, check |-> c,
                                   channel |-> ch])
    /\ accepted' = accepted + 1
    /\ UNCHANGED <<tables, closed, worker, delivered, unrecorded>>

(* The select with a default: queued, or dropped when the queue is full. *)
Offer(c, ch) ==
    /\ ~closed
    /\ IF Len(alertCh) < QueueCap
       THEN /\ alertCh' = Append(alertCh, [number  |-> accepted + 1,
                                           check   |-> c,
                                           channel |-> ch])
            /\ accepted' = accepted + 1
       ELSE UNCHANGED <<alertCh, accepted>>
    /\ UNCHANGED <<tables, closed, worker, delivered, unrecorded>>

CloseQueue ==
    /\ closed' = TRUE
    /\ UNCHANGED <<tables, alertCh, worker, history>>

-----------------------------------------------------------------------------
(* The worker. *)

WorkerReceive ==
    /\ worker.pc = "receive" /\ alertCh # <<>>
    /\ worker' = [Receiving EXCEPT !.pc = "send", !.event = Head(alertCh)]
    /\ alertCh' = Tail(alertCh)
    /\ UNCHANGED <<tables, closed, history>>

(* range over a closed channel ends when the channel is empty. *)
WorkerExit ==
    /\ worker.pc = "receive" /\ closed /\ alertCh = <<>>
    /\ worker' = [worker EXCEPT !.pc = "exited"]
    /\ UNCHANGED <<tables, alertCh, closed, history>>

WorkerSendSilent ==    \* mutation: a missing notifier leaves n.Error unset
    /\ worker.pc = "send"
    /\ \E error \in BOOLEAN :
          /\ worker.event.channel \notin Registered => ~error
          /\ worker' = [worker EXCEPT !.pc = "insert", !.error = error]
          /\ delivered' = IF error \/ worker.event.channel \notin Registered
                          THEN delivered
                          ELSE delivered \cup {worker.event.number}
    /\ UNCHANGED <<tables, alertCh, closed, accepted, unrecorded>>

(* notifier.Send succeeds, or fails, or runs into its deadline; a channel  *)
(* whose type has no notifier is an error.                                 *)
WorkerSend ==
    /\ worker.pc = "send"
    /\ \E error \in BOOLEAN :
          /\ worker.event.channel \notin Registered => error
          /\ worker' = [worker EXCEPT !.pc = "insert", !.error = error]
          /\ delivered' = IF error THEN delivered
                                   ELSE delivered \cup {worker.event.number}
    /\ UNCHANGED <<tables, alertCh, closed, accepted, unrecorded>>

RowOf(channel) ==
    [number |-> worker.event.number, check |-> worker.event.check,
     channel |-> channel, error |-> worker.error]

WorkerInsertOnce ==    \* mutation: a refused insert is not tried again
    /\ worker.pc = "insert"
    /\ worker' = Receiving
    /\ \/ /\ worker.event.check \in checkRows
          /\ worker.event.channel \in channelRows
          /\ notifications' = notifications \cup {RowOf(worker.event.channel)}
       \/ UNCHANGED notifications
    /\ UNCHANGED <<checkRows, channelRows, alertCh, closed, history>>

(* notifRepo.Create: both foreign keys must hold; it may also just fail. *)
WorkerInsert ==
    /\ worker.pc = "insert"
    /\ \/ /\ worker.event.check \in checkRows
          /\ worker.event.channel \in channelRows
          /\ notifications' = notifications \cup {RowOf(worker.event.channel)}
          /\ worker' = Receiving
       \/ /\ worker' = [worker EXCEPT !.pc = "retry"]
          /\ UNCHANGED notifications
    /\ UNCHANGED <<checkRows, channelRows, alertCh, closed, history>>

WorkerRetryRequeued ==    \* mutation: a refused event goes back to the queue
    /\ worker.pc = "retry"
    /\ worker' = Receiving
    /\ \/ /\ worker.event.check \in checkRows
          /\ notifications' = notifications \cup {RowOf(Nil)}
          /\ UNCHANGED alertCh
       \/ /\ Len(alertCh) < QueueCap
          /\ alertCh' = Append(alertCh, worker.event)
          /\ UNCHANGED notifications
    /\ UNCHANGED <<checkRows, channelRows, closed, history>>

(* The second try leaves the channel out; if that fails too, only a log. *)
WorkerRetry ==
    /\ worker.pc = "retry"
    /\ worker' = Receiving
    /\ \/ /\ worker.event.check \in checkRows
          /\ notifications' = notifications \cup {RowOf(Nil)}
          /\ UNCHANGED unrecorded
       \/ /\ unrecorded' = unrecorded \cup {worker.event.number}
          /\ UNCHANGED notifications
    /\ UNCHANGED <<checkRows, channelRows, alertCh, closed, accepted,
                   delivered>>

Worker == WorkerReceive \/ WorkerExit \/ WorkerSend \/ WorkerInsert \/ WorkerRetry

-----------------------------------------------------------------------------
(* Deletions, and what the schema makes of them. *)

(* ON DELETE SET NULL for notifications.channel_id. *)
DeleteChannel(ch) ==
    /\ ch \in channelRows
    /\ channelRows' = channelRows \ {ch}
    /\ notifications' = {IF row.channel = ch THEN [row EXCEPT !.channel = Nil]
                                             ELSE row : row \in notifications}
    /\ UNCHANGED <<checkRows, alertCh, closed, worker, history>>

(* ON DELETE CASCADE for notifications.check_id. *)
DeleteCheck(c) ==
    /\ c \in checkRows
    /\ checkRows' = checkRows \ {c}
    /\ notifications' = {row \in notifications : row.check # c}
    /\ UNCHANGED <<channelRows, alertCh, closed, worker, history>>

Deletions ==
    \/ \E ch \in Channels : DeleteChannel(ch)
    \/ \E c \in Checks : DeleteCheck(c)

-----------------------------------------------------------------------------
(* Properties. *)

InQueue  == {alertCh[i].number : i \in DOMAIN alertCh}
InWorker == IF worker.event = <<>> THEN {} ELSE {worker.event.number}
Recorded == {row.number : row \in notifications}

(***************************************************************************)
(* No event the queue took is forgotten or handled twice: until its check  *)
(* is deleted it is in the queue, or with the worker, or has a row, or was *)
(* given up after both inserts failed, and in one of these places only.    *)
(***************************************************************************)
EventsAccountedFor ==
    /\ checkRows = Checks =>
          1..accepted = InQueue \cup InWorker \cup Recorded \cup unrecorded
    /\ InQueue \cap InWorker = {}
    /\ (InQueue \cup InWorker) \cap (Recorded \cup unrecorded) = {}
    /\ Recorded \cap unrecorded = {}

(***************************************************************************)
(* First in, first out, through every failed insert: the queue holds its   *)
(* events in the order it took them, all later than any event the worker   *)
(* has or has had; and when the worker takes an event it is done with all  *)
(* the earlier ones, delivered, recorded or given up.                      *)
(***************************************************************************)
FirstInFirstOut ==
    LET done == Recorded \cup unrecorded \cup (delivered \ InWorker)
    IN  /\ \A i, j \in DOMAIN alertCh :
              i < j => alertCh[i].number < alertCh[j].number
        /\ \A n \in InQueue  : \A m \in InWorker \cup done : m < n
        /\ \A n \in InWorker : \A m \in done : m < n

(***************************************************************************)
(* The table tells the truth, once: an event has one row at most although  *)
(* its insert may be tried twice, the row says delivered exactly when a    *)
(* notifier delivered it, and it names a channel and a check that exist.   *)
(***************************************************************************)
RowsTruthful ==
    /\ \A a, b \in notifications : a.number = b.number => a = b
    /\ \A row \in notifications :
          /\ ~row.error <=> row.number \in delivered
          /\ row.check \in checkRows
          /\ row.channel \in channelRows \cup {Nil}
=============================================================================
