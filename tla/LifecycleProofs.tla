--------------------------- MODULE LifecycleProofs --------------------------
(***************************************************************************)
(* Theorems about AlertPipeline and Lifecycle, for any sets of checks,     *)
(* channels and requests and any capacity of the queue.                    *)
(***************************************************************************)
EXTENDS Lifecycle, TLAPS

Busy == worker.pc \in {"send", "insert", "retry"}

(* The queue holds distinct events, numbered as they were accepted. *)
QueueInv ==
    /\ InQueue \subseteq 1..accepted
    /\ InQueue \cap delivered = {}
    /\ \A i, j \in DOMAIN alertCh :
          alertCh[i].number = alertCh[j].number => i = j

(* What the worker's locals promise between two of its steps. *)
WorkerInv ==
    /\ Busy => /\ worker.event \in Events
               /\ worker.event.number \in 1..accepted
    /\ ~Busy => worker.event = <<>>
    /\ worker.pc = "send" => worker.event.number \notin delivered
    /\ worker.pc \in {"insert", "retry"} =>
          (~worker.error <=> worker.event.number \in delivered)
    /\ worker.pc = "exited" => closed /\ alertCh = <<>>

PipelineInv ==
    /\ PipelineTypeOK
    /\ QueueInv
    /\ WorkerInv
    /\ Recorded \subseteq 1..accepted
    /\ EventsAccountedFor
    /\ RowsTruthful

(* Who may be where while main.run brings the process to rest. *)
MainInv ==
    /\ main \in {"serving", "shutdown", "stop", "join", "close", "drain", "done"}
    /\ accepting \in BOOLEAN
    /\ handler \in [Requests -> Handlers]
    /\ \A r \in Requests : handler[r].pc = "send" => handler[r].check \in Checks
    /\ cancelled \subseteq Requests
    /\ sched \in Schedulers
    /\ sched.pc = "send" => sched.check \in Checks
    /\ stopping \in BOOLEAN
    /\ down \subseteq Checks
    /\ fell \subseteq Checks /\ alerted \subseteq fell
    /\ sched.todo \subseteq fell
    /\ panicked \subseteq Requests

OrderInv ==
    /\ closed <=> main \in {"drain", "done"}
    /\ main \in {"close", "drain", "done"} => sched.pc = "exited"
    /\ main = "done" => worker.pc = "exited"

IInv == PipelineInv /\ MainInv /\ OrderInv

-----------------------------------------------------------------------------
(* The queue as a set of numbers. *)

LEMMA EventIsNotNone ==
    ASSUME NEW e \in Events
    PROVE  e # <<>>
<1>1. DOMAIN e = {"number", "check", "channel"}
    BY DEF Events
<1> QED
    BY <1>1

LEMMA WorkerHolds ==
    ASSUME WorkerInv
    PROVE  /\ Busy => InWorker = {worker.event.number}
           /\ ~Busy => InWorker = {}
    BY EventIsNotNone DEF WorkerInv, InWorker

LEMMA Accepting ==
    ASSUME PipelineInv, NEW c \in Checks, NEW ch \in Channels,
           alertCh' = Append(alertCh, [number |-> accepted + 1, check |-> c,
                                       channel |-> ch]),
           accepted' = accepted + 1
    PROVE  /\ alertCh' \in Seq(Events)
           /\ Len(alertCh') = Len(alertCh) + 1
           /\ InQueue' = InQueue \cup {accepted + 1}
           /\ \A i, j \in DOMAIN alertCh' :
                 alertCh'[i].number = alertCh'[j].number => i = j
<1> DEFINE e == [number |-> accepted + 1, check |-> c, channel |-> ch]
<1>1. accepted \in Nat /\ alertCh \in Seq(Events)
    BY DEF PipelineInv, PipelineTypeOK
<1>2. e \in Events /\ e.number = accepted + 1
    BY <1>1 DEF Events
<1> HIDE DEF e
<1>3. alertCh' = Append(alertCh, e)
    BY DEF e
<1>4. /\ alertCh' \in Seq(Events)
      /\ Len(alertCh') = Len(alertCh) + 1
      /\ DOMAIN alertCh = 1..Len(alertCh)
      /\ DOMAIN alertCh' = 1..(Len(alertCh) + 1)
      /\ \A i \in 1..Len(alertCh) : alertCh'[i] = alertCh[i]
      /\ alertCh'[Len(alertCh) + 1] = e
      /\ Len(alertCh) \in Nat
    BY <1>1, <1>2, <1>3
<1>5. InQueue' = InQueue \cup {accepted + 1}
    BY <1>2, <1>4 DEF InQueue
<1>6. ASSUME NEW i \in DOMAIN alertCh', NEW j \in DOMAIN alertCh',
             alertCh'[i].number = alertCh'[j].number
      PROVE  i = j
  <2>1. \A k \in 1..Len(alertCh) : alertCh'[k].number \in 1..accepted
      BY <1>4 DEF PipelineInv, QueueInv, InQueue
  <2>2. alertCh'[Len(alertCh) + 1].number \notin 1..accepted
      BY <1>1, <1>2, <1>4
  <2>3. CASE i \in 1..Len(alertCh) /\ j \in 1..Len(alertCh)
      BY <1>4, <1>6, <2>3 DEF PipelineInv, QueueInv
  <2>4. CASE i = Len(alertCh) + 1 /\ j \in 1..Len(alertCh)
      BY <1>6, <2>1, <2>2, <2>4
  <2>5. CASE j = Len(alertCh) + 1 /\ i \in 1..Len(alertCh)
      BY <1>6, <2>1, <2>2, <2>5
  <2>6. CASE i = Len(alertCh) + 1 /\ j = Len(alertCh) + 1
      BY <2>6
  <2> QED
      BY <1>4, <2>3, <2>4, <2>5, <2>6
<1> QED
    BY <1>4, <1>5, <1>6

LEMMA Taking ==
    ASSUME PipelineInv, alertCh # <<>>, alertCh' = Tail(alertCh)
    PROVE  /\ alertCh' \in Seq(Events) /\ Len(alertCh') <= QueueCap
           /\ Head(alertCh) \in Events
           /\ InQueue = InQueue' \cup {Head(alertCh).number}
           /\ Head(alertCh).number \notin InQueue'
           /\ \A i, j \in DOMAIN alertCh' :
                 alertCh'[i].number = alertCh'[j].number => i = j
<1>1. /\ alertCh \in Seq(Events) /\ Len(alertCh) <= QueueCap
      /\ QueueCap \in Nat
    BY QueueCapAssumption DEF PipelineInv, PipelineTypeOK
<1>2. /\ DOMAIN alertCh = 1..Len(alertCh) /\ Len(alertCh) \in Nat \ {0}
      /\ Head(alertCh) = alertCh[1] /\ alertCh[1] \in Events
      /\ alertCh' \in Seq(Events)
      /\ Len(alertCh') = Len(alertCh) - 1
      /\ DOMAIN alertCh' = 1..(Len(alertCh) - 1)
      /\ \A i \in 1..(Len(alertCh) - 1) : alertCh'[i] = alertCh[i + 1]
    BY <1>1
<1>3. \A i, j \in DOMAIN alertCh : alertCh[i].number = alertCh[j].number => i = j
    BY DEF PipelineInv, QueueInv
<1>4. InQueue = InQueue' \cup {Head(alertCh).number}
  <2>1. ASSUME NEW i \in DOMAIN alertCh
        PROVE  alertCh[i].number \in InQueue' \cup {Head(alertCh).number}
    <3>1. CASE i = 1
        BY <1>2, <3>1
    <3>2. CASE i # 1
      <4>1. i - 1 \in DOMAIN alertCh' /\ alertCh'[i - 1] = alertCh[i]
          BY <1>2, <3>2
      <4> QED
          BY <4>1 DEF InQueue
    <3> QED
        BY <3>1, <3>2
  <2>2. ASSUME NEW i \in DOMAIN alertCh'
        PROVE  alertCh'[i].number \in InQueue
    <3>1. i + 1 \in DOMAIN alertCh /\ alertCh'[i] = alertCh[i + 1]
        BY <1>2
    <3> QED
        BY <3>1 DEF InQueue
  <2>3. Head(alertCh).number \in InQueue
      BY <1>2 DEF InQueue
  <2>4. \A n \in InQueue : n \in InQueue' \cup {Head(alertCh).number}
      BY <2>1 DEF InQueue
  <2>5. \A n \in InQueue' : n \in InQueue
      BY <2>2 DEF InQueue
  <2> QED
      BY <2>3, <2>4, <2>5
<1>5. Head(alertCh).number \notin InQueue'
  <2> SUFFICES ASSUME NEW i \in DOMAIN alertCh',
                      alertCh'[i].number = alertCh[1].number
               PROVE  FALSE
      BY <1>2 DEF InQueue
  <2>1. i + 1 \in DOMAIN alertCh /\ 1 \in DOMAIN alertCh
        /\ alertCh[i + 1].number = alertCh[1].number
      BY <1>2
  <2>2. i + 1 = 1
      BY <1>3, <2>1
  <2> QED
      BY <1>2, <2>2
<1>6. ASSUME NEW i \in DOMAIN alertCh', NEW j \in DOMAIN alertCh',
             alertCh'[i].number = alertCh'[j].number
      PROVE  i = j
  <2>1. /\ i + 1 \in DOMAIN alertCh /\ j + 1 \in DOMAIN alertCh
        /\ alertCh[i + 1].number = alertCh[j + 1].number
      BY <1>2, <1>6
  <2>2. i + 1 = j + 1
      BY <1>3, <2>1
  <2> QED
      BY <1>2, <2>2
<1> QED
    BY <1>1, <1>2, <1>4, <1>5, <1>6

-----------------------------------------------------------------------------
(* The steps of the pipeline. *)

LEMMA PipelineStarts ==
    ASSUME PipelineInit
    PROVE  PipelineInv
<1>1. InQueue = {} /\ InWorker = {} /\ Recorded = {} /\ ~Busy
    BY DEF PipelineInit, InQueue, InWorker, Recorded, Receiving, Busy
<1>2. PipelineTypeOK
  <2>1. Receiving \in Workers
      BY DEF Receiving, Workers
  <2>2. <<>> \in Seq(Events) /\ Len(<<>>) <= QueueCap
      BY QueueCapAssumption
  <2> QED
      BY <2>1, <2>2 DEF PipelineInit, PipelineTypeOK
<1>3. QueueInv /\ WorkerInv
    BY <1>1 DEF PipelineInit, QueueInv, WorkerInv, Receiving
<1>4. EventsAccountedFor /\ RowsTruthful
    BY <1>1 DEF PipelineInit, EventsAccountedFor, RowsTruthful
<1> QED
    BY <1>1, <1>2, <1>3, <1>4 DEF PipelineInv

LEMMA PipelineStutters ==
    ASSUME PipelineInv, UNCHANGED pipelineVars
    PROVE  PipelineInv'
<1>1. /\ UNCHANGED <<checkRows, channelRows, notifications, alertCh, closed>>
      /\ UNCHANGED <<worker, accepted, delivered, unrecorded>>
    BY DEF pipelineVars, tables, history
<1>2. InQueue' = InQueue /\ InWorker' = InWorker /\ Recorded' = Recorded
    BY <1>1 DEF InQueue, InWorker, Recorded
<1>3. PipelineTypeOK' /\ QueueInv' /\ WorkerInv'
    BY <1>1, <1>2 DEF PipelineInv, PipelineTypeOK, QueueInv, WorkerInv, Busy
<1>4. EventsAccountedFor' /\ RowsTruthful'
    BY <1>1, <1>2 DEF PipelineInv, EventsAccountedFor, RowsTruthful
<1> QED
    BY <1>1, <1>2, <1>3, <1>4 DEF PipelineInv

LEMMA OfferKeeps ==
    ASSUME PipelineInv, NEW c \in Checks, NEW ch \in Channels, Offer(c, ch)
    PROVE  PipelineInv'
<1>1. CASE Len(alertCh) < QueueCap
  <2>1. /\ alertCh' = Append(alertCh, [number |-> accepted + 1, check |-> c,
                                       channel |-> ch])
        /\ accepted' = accepted + 1
        /\ ~closed
        /\ UNCHANGED <<tables, closed, worker, delivered, unrecorded>>
      BY <1>1 DEF Offer
  <2>2. /\ alertCh' \in Seq(Events)
        /\ Len(alertCh') = Len(alertCh) + 1
        /\ InQueue' = InQueue \cup {accepted + 1}
        /\ \A i, j \in DOMAIN alertCh' :
              alertCh'[i].number = alertCh'[j].number => i = j
      BY <2>1, Accepting
  <2>3. accepted \in Nat /\ Len(alertCh') <= QueueCap
      BY <1>1, <2>2, QueueCapAssumption DEF PipelineInv, PipelineTypeOK
  <2>4. /\ 1..accepted' = 1..accepted \cup {accepted + 1}
        /\ accepted + 1 \notin 1..accepted
      BY <2>1, <2>3
  <2>5. InWorker' = InWorker /\ Recorded' = Recorded
      BY <2>1 DEF InWorker, Recorded, tables
  <2>6. InWorker \subseteq 1..accepted
      BY WorkerHolds DEF PipelineInv, WorkerInv
  <2>7. PipelineTypeOK'
      BY <2>1, <2>2, <2>3, <2>4 DEF PipelineInv, PipelineTypeOK, tables
  <2>8. QueueInv'
      BY <2>1, <2>2, <2>4 DEF PipelineInv, PipelineTypeOK, QueueInv
  <2>9. WorkerInv' /\ Recorded' \subseteq 1..accepted'
      BY <2>1, <2>4, <2>5 DEF PipelineInv, WorkerInv, Busy
  <2>10. EventsAccountedFor'
      BY <2>1, <2>2, <2>4, <2>5, <2>6
      DEF PipelineInv, PipelineTypeOK, EventsAccountedFor, tables
  <2>11. RowsTruthful'
      BY <2>1 DEF PipelineInv, RowsTruthful, tables
  <2> QED
      BY <2>7, <2>8, <2>9, <2>10, <2>11 DEF PipelineInv
<1>2. CASE ~(Len(alertCh) < QueueCap)
  <2>1. UNCHANGED pipelineVars
      BY <1>2 DEF Offer, pipelineVars, tables, history
  <2> QED
      BY <2>1, PipelineStutters
<1> QED
    BY <1>1, <1>2

LEMMA CloseQueueKeeps ==
    ASSUME PipelineInv, CloseQueue
    PROVE  PipelineInv'
BY DEF PipelineInv, CloseQueue, tables, history, PipelineTypeOK, QueueInv,
       WorkerInv, Busy, EventsAccountedFor, RowsTruthful, InQueue, InWorker,
       Recorded

LEMMA ReceiveKeeps ==
    ASSUME PipelineInv, WorkerReceive
    PROVE  PipelineInv'
<1> DEFINE h == Head(alertCh)
<1>1. /\ alertCh # <<>> /\ alertCh' = Tail(alertCh)
      /\ worker.pc = "receive"
      /\ worker' = [pc |-> "send", event |-> h, error |-> FALSE]
      /\ UNCHANGED <<tables, closed, history>>
    BY DEF WorkerReceive, Receiving
<1>2. /\ alertCh' \in Seq(Events) /\ Len(alertCh') <= QueueCap
      /\ h \in Events
      /\ InQueue = InQueue' \cup {h.number}
      /\ h.number \notin InQueue'
      /\ \A i, j \in DOMAIN alertCh' :
            alertCh'[i].number = alertCh'[j].number => i = j
    BY <1>1, Taking
<1> HIDE DEF h
<1>3. /\ Busy' /\ ~Busy
      /\ worker'.event = h /\ worker'.pc = "send" /\ worker'.error = FALSE
    BY <1>1 DEF Busy
<1>4. PipelineTypeOK'
    BY <1>1, <1>2 DEF PipelineInv, PipelineTypeOK, Workers, tables, history
<1>5. QueueInv'
    BY <1>1, <1>2 DEF PipelineInv, QueueInv, history
<1>6. WorkerInv'
    BY <1>1, <1>2, <1>3 DEF PipelineInv, QueueInv, WorkerInv, history
<1>7. InWorker = {} /\ InWorker' = {h.number}
    BY <1>2, <1>3, WorkerHolds, EventIsNotNone DEF PipelineInv, InWorker
<1>8. Recorded' = Recorded
    BY <1>1 DEF Recorded, tables
<1>9. EventsAccountedFor'
    BY <1>1, <1>2, <1>7, <1>8
    DEF PipelineInv, EventsAccountedFor, tables, history
<1>10. RowsTruthful'
    BY <1>1 DEF PipelineInv, RowsTruthful, tables, history
<1> QED
    BY <1>1, <1>4, <1>5, <1>6, <1>8, <1>9, <1>10 DEF PipelineInv, history

LEMMA ExitKeeps ==
    ASSUME PipelineInv, WorkerExit
    PROVE  PipelineInv'
<1>1. /\ worker.pc = "receive" /\ closed /\ alertCh = <<>>
      /\ worker' = [worker EXCEPT !.pc = "exited"]
      /\ UNCHANGED <<tables, alertCh, closed, history>>
      /\ worker \in Workers
    BY DEF WorkerExit, PipelineInv, PipelineTypeOK
<1>2. /\ worker' \in Workers /\ worker'.pc = "exited"
      /\ worker'.event = worker.event
      /\ ~Busy /\ ~Busy'
    BY <1>1 DEF Workers, Busy
<1>3. PipelineTypeOK'
    BY <1>1, <1>2 DEF PipelineInv, PipelineTypeOK, tables, history
<1>4. QueueInv' /\ InQueue' = InQueue
    BY <1>1 DEF PipelineInv, QueueInv, InQueue, history
<1>5. WorkerInv'
    BY <1>1, <1>2 DEF PipelineInv, WorkerInv
<1>6. InWorker' = InWorker /\ Recorded' = Recorded
    BY <1>1, <1>2 DEF InWorker, Recorded, tables
<1>7. EventsAccountedFor' /\ RowsTruthful'
    BY <1>1, <1>4, <1>6
    DEF PipelineInv, EventsAccountedFor, RowsTruthful, tables, history
<1> QED
    BY <1>1, <1>3, <1>4, <1>5, <1>6, <1>7 DEF PipelineInv, history

LEMMA SendKeeps ==
    ASSUME PipelineInv, WorkerSend
    PROVE  PipelineInv'
<1>1. PICK error \in BOOLEAN :
         /\ worker' = [worker EXCEPT !.pc = "insert", !.error = error]
         /\ delivered' = IF error THEN delivered
                                  ELSE delivered \cup {worker.event.number}
    BY DEF WorkerSend
<1>2. /\ worker.pc = "send" /\ worker \in Workers
      /\ UNCHANGED <<tables, alertCh, closed, accepted, unrecorded>>
    BY DEF WorkerSend, PipelineInv, PipelineTypeOK
<1>3. /\ worker' \in Workers /\ worker'.pc = "insert"
      /\ worker'.event = worker.event
      /\ Busy /\ Busy'
    BY <1>1, <1>2 DEF Workers, Busy
<1>4. worker'.error = error
    BY <1>1, <1>2 DEF Workers
<1>5. /\ worker.event \in Events /\ worker.event.number \in 1..accepted
      /\ worker.event.number \notin delivered
    BY <1>2, <1>3 DEF PipelineInv, WorkerInv
<1>6. /\ InWorker = {worker.event.number} /\ InWorker' = InWorker
      /\ InQueue' = InQueue /\ Recorded' = Recorded
    BY <1>2, <1>3, WorkerHolds
    DEF PipelineInv, InWorker, InQueue, Recorded, tables
<1>7. /\ worker.event.number \notin InQueue
      /\ worker.event.number \notin Recorded
    BY <1>6 DEF PipelineInv, EventsAccountedFor
<1>8. PipelineTypeOK'
    BY <1>1, <1>2, <1>3, <1>5 DEF PipelineInv, PipelineTypeOK, tables
<1>9. QueueInv'
    BY <1>1, <1>2, <1>6, <1>7 DEF PipelineInv, QueueInv
<1>10. ~worker'.error <=> worker'.event.number \in delivered'
    BY <1>1, <1>3, <1>4, <1>5
<1>11. WorkerInv'
    BY <1>2, <1>3, <1>5, <1>10 DEF PipelineInv, WorkerInv
<1>12. EventsAccountedFor'
    BY <1>2, <1>6 DEF PipelineInv, EventsAccountedFor, tables
<1>13. RowsTruthful'
  <2>1. \A row \in notifications : row.number # worker.event.number
      BY <1>7 DEF Recorded
  <2>2. \A row \in notifications :
           row.number \in delivered' <=> row.number \in delivered
      BY <1>1, <2>1
  <2> QED
      BY <1>2, <2>2 DEF PipelineInv, RowsTruthful, tables
<1> QED
    BY <1>2, <1>6, <1>8, <1>9, <1>11, <1>12, <1>13 DEF PipelineInv

(* A worker that has an event and puts it down. *)
LEMMA PuttingDown ==
    ASSUME PipelineInv, worker.pc \in {"insert", "retry"},
           worker' = Receiving, UNCHANGED <<alertCh, closed, accepted, delivered>>
    PROVE  /\ worker.event \in Events /\ worker.event.number \in 1..accepted
           /\ ~worker.error <=> worker.event.number \in delivered
           /\ worker.error \in BOOLEAN
           /\ worker' \in Workers
           /\ QueueInv' /\ WorkerInv'
           /\ InWorker = {worker.event.number} /\ InWorker' = {}
           /\ InQueue' = InQueue
<1>1. Busy /\ worker \in Workers
    BY DEF Busy, PipelineInv, PipelineTypeOK
<1>2. /\ worker' \in Workers /\ ~Busy'
      /\ worker'.pc = "receive" /\ worker'.event = <<>>
    BY DEF Receiving, Workers, Busy
<1>3. InQueue' = InQueue
    BY DEF InQueue
<1>4. QueueInv' /\ WorkerInv'
    BY <1>2, <1>3 DEF PipelineInv, QueueInv, WorkerInv
<1>5. InWorker = {worker.event.number} /\ InWorker' = {}
    BY <1>1, <1>2, WorkerHolds DEF PipelineInv, InWorker
<1> QED
    BY <1>1, <1>2, <1>3, <1>4, <1>5 DEF PipelineInv, WorkerInv, Workers

(* It writes a row. *)
LEMMA RecordingKeeps ==
    ASSUME PipelineInv, worker.pc \in {"insert", "retry"},
           worker.event.check \in checkRows,
           NEW channel \in channelRows \cup {Nil},
           notifications' = notifications \cup {RowOf(channel)},
           worker' = Receiving,
           UNCHANGED <<checkRows, channelRows, alertCh, closed, history>>
    PROVE  PipelineInv'
<1> DEFINE n == worker.event.number
<1>1. UNCHANGED <<accepted, delivered, unrecorded>>
    BY DEF history
<1>2. /\ worker.event \in Events /\ n \in 1..accepted
      /\ ~worker.error <=> n \in delivered
      /\ worker.error \in BOOLEAN
      /\ worker' \in Workers
      /\ QueueInv' /\ WorkerInv'
      /\ InWorker = {n} /\ InWorker' = {}
      /\ InQueue' = InQueue
    BY <1>1, PuttingDown
<1>3. /\ RowOf(channel).number = n
      /\ RowOf(channel).check = worker.event.check
      /\ RowOf(channel).channel = channel
    BY DEF RowOf
<1>4. ~RowOf(channel).error <=> n \in delivered
    BY <1>2 DEF RowOf
<1>5. RowOf(channel) \in Rows
    BY <1>2 DEF RowOf, Rows, Events, PipelineInv, PipelineTypeOK
<1> HIDE DEF n
<1>6. Recorded' = Recorded \cup {n}
    BY <1>3 DEF Recorded
<1>7. n \notin Recorded /\ n \notin InQueue /\ n \notin unrecorded
    BY <1>2 DEF PipelineInv, EventsAccountedFor
<1>8. PipelineTypeOK'
    BY <1>1, <1>2, <1>5 DEF PipelineInv, PipelineTypeOK
<1>9. EventsAccountedFor'
    BY <1>1, <1>2, <1>6, <1>7 DEF PipelineInv, EventsAccountedFor
<1>10. RowsTruthful'
  <2>1. \A row \in notifications : row.number # n
      BY <1>7 DEF Recorded
  <2>2. \A a, b \in notifications' : a.number = b.number => a = b
      BY <1>3, <2>1 DEF PipelineInv, RowsTruthful
  <2>3. ASSUME NEW row \in notifications'
        PROVE  /\ ~row.error <=> row.number \in delivered
               /\ row.check \in checkRows
               /\ row.channel \in channelRows \cup {Nil}
    <3>1. CASE row \in notifications
        BY <3>1 DEF PipelineInv, RowsTruthful
    <3>2. CASE row = RowOf(channel)
        BY <1>3, <1>4, <3>2
    <3> QED
        BY <3>1, <3>2
  <2> QED
      BY <1>1, <2>2, <2>3 DEF RowsTruthful
<1> QED
    BY <1>1, <1>2, <1>6, <1>8, <1>9, <1>10 DEF PipelineInv

LEMMA InsertKeeps ==
    ASSUME PipelineInv, WorkerInsert
    PROVE  PipelineInv'
<1>1. /\ worker.pc = "insert" /\ worker \in Workers
      /\ UNCHANGED <<checkRows, channelRows, alertCh, closed, history>>
    BY DEF WorkerInsert, PipelineInv, PipelineTypeOK
<1>2. CASE /\ worker.event.check \in checkRows
           /\ worker.event.channel \in channelRows
           /\ notifications' = notifications \cup {RowOf(worker.event.channel)}
           /\ worker' = Receiving
    BY <1>1, <1>2, RecordingKeeps
<1>3. CASE /\ worker' = [worker EXCEPT !.pc = "retry"]
           /\ UNCHANGED notifications
  <2>1. /\ worker' \in Workers /\ worker'.pc = "retry"
        /\ worker'.event = worker.event /\ worker'.error = worker.error
        /\ Busy /\ Busy'
      BY <1>1, <1>3 DEF Workers, Busy
  <2>2. InWorker' = InWorker /\ InQueue' = InQueue /\ Recorded' = Recorded
      BY <1>1, <1>3, <2>1 DEF InWorker, InQueue, Recorded
  <2>3. PipelineTypeOK' /\ QueueInv'
      BY <1>1, <1>3, <2>1, <2>2
      DEF PipelineInv, PipelineTypeOK, QueueInv, history
  <2>4. WorkerInv'
      BY <1>1, <2>1 DEF PipelineInv, WorkerInv, history
  <2>5. EventsAccountedFor' /\ RowsTruthful'
      BY <1>1, <1>3, <2>2
      DEF PipelineInv, EventsAccountedFor, RowsTruthful, history
  <2> QED
      BY <1>1, <2>2, <2>3, <2>4, <2>5 DEF PipelineInv, history
<1> QED
    BY <1>2, <1>3 DEF WorkerInsert

LEMMA RetryKeeps ==
    ASSUME PipelineInv, WorkerRetry
    PROVE  PipelineInv'
<1>1. /\ worker.pc = "retry" /\ worker' = Receiving
      /\ UNCHANGED <<checkRows, channelRows, alertCh, closed, accepted,
                     delivered>>
    BY DEF WorkerRetry
<1>2. CASE /\ worker.event.check \in checkRows
           /\ notifications' = notifications \cup {RowOf(Nil)}
           /\ UNCHANGED unrecorded
    BY <1>1, <1>2, RecordingKeeps DEF history
<1>3. CASE /\ unrecorded' = unrecorded \cup {worker.event.number}
           /\ UNCHANGED notifications
  <2>1. /\ worker.event.number \in 1..accepted
        /\ worker' \in Workers
        /\ QueueInv' /\ WorkerInv'
        /\ InWorker = {worker.event.number} /\ InWorker' = {}
        /\ InQueue' = InQueue
      BY <1>1, PuttingDown
  <2>2. Recorded' = Recorded
      BY <1>3 DEF Recorded
  <2>3. PipelineTypeOK'
      BY <1>1, <1>3, <2>1 DEF PipelineInv, PipelineTypeOK
  <2>4. EventsAccountedFor'
      BY <1>1, <1>3, <2>1, <2>2 DEF PipelineInv, EventsAccountedFor
  <2>5. RowsTruthful'
      BY <1>1, <1>3 DEF PipelineInv, RowsTruthful
  <2> QED
      BY <1>1, <2>1, <2>2, <2>3, <2>4, <2>5 DEF PipelineInv
<1> QED
    BY <1>2, <1>3 DEF WorkerRetry

LEMMA DeleteChannelKeeps ==
    ASSUME PipelineInv, NEW ch \in Channels, DeleteChannel(ch)
    PROVE  PipelineInv'
<1> DEFINE f(row) == IF row.channel = ch THEN [row EXCEPT !.channel = Nil]
                                         ELSE row
<1>1. /\ channelRows' = channelRows \ {ch}
      /\ notifications' = {f(row) : row \in notifications}
      /\ UNCHANGED <<checkRows, alertCh, closed, worker>>
      /\ UNCHANGED <<accepted, delivered, unrecorded>>
    BY DEF DeleteChannel, history
<1>2. notifications \subseteq Rows
    BY DEF PipelineInv, PipelineTypeOK
<1>3. \A row \in Rows : /\ f(row) \in Rows
                        /\ f(row).number = row.number
                        /\ f(row).check = row.check
                        /\ f(row).error = row.error
                        /\ f(row).channel # ch \/ f(row).channel = Nil
                        /\ f(row).channel \in {row.channel, Nil}
    BY DEF Rows
<1> HIDE DEF f
<1>4. Recorded' = Recorded
    BY <1>1, <1>2, <1>3 DEF Recorded
<1>5. InQueue' = InQueue /\ InWorker' = InWorker
    BY <1>1 DEF InQueue, InWorker
<1>6. PipelineTypeOK'
    BY <1>1, <1>2, <1>3 DEF PipelineInv, PipelineTypeOK
<1>7. QueueInv' /\ WorkerInv' /\ EventsAccountedFor'
    BY <1>1, <1>4, <1>5
    DEF PipelineInv, QueueInv, WorkerInv, Busy, EventsAccountedFor
<1>8. RowsTruthful'
  <2>1. ASSUME NEW a \in notifications', NEW b \in notifications',
               a.number = b.number
        PROVE  a = b
    <3>1. PICK x \in notifications, y \in notifications : a = f(x) /\ b = f(y)
        BY <1>1
    <3>2. x.number = y.number
        BY <1>2, <1>3, <2>1, <3>1
    <3> QED
        BY <3>1, <3>2 DEF PipelineInv, RowsTruthful
  <2>2. ASSUME NEW a \in notifications'
        PROVE  /\ ~a.error <=> a.number \in delivered
               /\ a.check \in checkRows
               /\ a.channel \in channelRows' \cup {Nil}
    <3>1. PICK x \in notifications : a = f(x)
        BY <1>1
    <3>2. /\ ~x.error <=> x.number \in delivered
          /\ x.check \in checkRows
          /\ x.channel \in channelRows \cup {Nil}
        BY DEF PipelineInv, RowsTruthful
    <3>3. x \in Rows
        BY <1>2
    <3>4. /\ a.number = x.number /\ a.check = x.check
          /\ a.channel # ch \/ a.channel = Nil
          /\ a.channel \in {x.channel, Nil}
        BY <1>3, <3>1, <3>3
    <3>5. ~a.error <=> ~x.error
        BY <1>3, <3>1, <3>3
    <3> QED
        BY <1>1, <3>2, <3>4, <3>5
  <2> QED
      BY <1>1, <2>1, <2>2 DEF RowsTruthful
<1> QED
    BY <1>1, <1>4, <1>6, <1>7, <1>8 DEF PipelineInv

LEMMA DeleteCheckKeeps ==
    ASSUME PipelineInv, NEW c \in Checks, DeleteCheck(c)
    PROVE  PipelineInv'
<1>1. /\ c \in checkRows /\ checkRows' = checkRows \ {c}
      /\ notifications' = {row \in notifications : row.check # c}
      /\ UNCHANGED <<channelRows, alertCh, closed, worker>>
      /\ UNCHANGED <<accepted, delivered, unrecorded>>
    BY DEF DeleteCheck, history
<1>2. Recorded' \subseteq Recorded
    BY <1>1 DEF Recorded
<1>3. InQueue' = InQueue /\ InWorker' = InWorker
    BY <1>1 DEF InQueue, InWorker
<1>4. PipelineTypeOK' /\ QueueInv' /\ WorkerInv'
    BY <1>1, <1>3 DEF PipelineInv, PipelineTypeOK, QueueInv, WorkerInv, Busy
<1>5. checkRows' # Checks
    BY <1>1
<1>6. EventsAccountedFor'
    BY <1>1, <1>2, <1>3, <1>5 DEF PipelineInv, EventsAccountedFor
<1>7. RowsTruthful'
    BY <1>1 DEF PipelineInv, RowsTruthful
<1> QED
    BY <1>1, <1>2, <1>4, <1>6, <1>7 DEF PipelineInv

LEMMA WorkerKeeps ==
    ASSUME PipelineInv, Worker
    PROVE  PipelineInv'
BY ReceiveKeeps, ExitKeeps, SendKeeps, InsertKeeps, RetryKeeps DEF Worker

LEMMA DeletionsKeep ==
    ASSUME PipelineInv, Deletions
    PROVE  PipelineInv'
BY DeleteChannelKeeps, DeleteCheckKeeps DEF Deletions

-----------------------------------------------------------------------------
(* The steps of the process. *)

LEMMA Starts ==
    ASSUME Init
    PROVE  IInv
<1>1. IdleHandler \in Handlers /\ IdleHandler.pc = "idle"
    BY DEF IdleHandler, Handlers
<1>2. Waiting \in Schedulers /\ Waiting.pc = "wait" /\ Waiting.todo = {}
    BY DEF Waiting, Schedulers
<1>3. MainInv
    BY <1>1, <1>2 DEF Init, MainInv
<1>4. OrderInv
    BY DEF Init, PipelineInit, OrderInv
<1> QED
    BY <1>3, <1>4, PipelineStarts DEF Init, IInv

(* One handler moves on, nothing else of the process does. *)
LEMMA HandlerMoves ==
    ASSUME IInv, NEW r \in Requests, NEW locals \in Handlers,
           locals.pc = "send" => locals.check \in Checks,
           Go(r, locals), handlerOnly,
           down' \subseteq down, panicked' \in SUBSET Requests,
           UNCHANGED <<closed, worker>>
    PROVE  MainInv' /\ OrderInv'
<1>1. /\ handler' \in [Requests -> Handlers]
      /\ \A q \in Requests : handler'[q] = IF q = r THEN locals ELSE handler[q]
    BY DEF Go, IInv, MainInv
<1>2. \A q \in Requests : handler'[q].pc = "send" => handler'[q].check \in Checks
    BY <1>1 DEF IInv, MainInv
<1>3. MainInv'
    BY <1>1, <1>2 DEF IInv, MainInv, handlerOnly
<1> QED
    BY <1>3 DEF IInv, OrderInv, handlerOnly

LEMMA HandlerKeeps ==
    ASSUME IInv, NEW r \in Requests, Handler(r)
    PROVE  IInv'
<1>1. handler[r] \in Handlers /\ Returned \in Handlers /\ Returned.pc = "returned"
    BY DEF IInv, MainInv, Returned, IdleHandler, Handlers
<1>2. checkRows \subseteq Checks /\ channelRows \subseteq Channels
      /\ down \subseteq Checks /\ panicked \subseteq Requests
    BY DEF IInv, MainInv, PipelineInv, PipelineTypeOK
<1>3. CASE Request(r)
  <2>1. PICK c \in down \cap checkRows :
           Go(r, [IdleHandler EXCEPT !.pc = "save", !.check = c])
      BY <1>3 DEF Request
  <2>2. /\ [IdleHandler EXCEPT !.pc = "save", !.check = c] \in Handlers
        /\ [IdleHandler EXCEPT !.pc = "save", !.check = c].pc = "save"
      BY <1>2 DEF IdleHandler, Handlers
  <2>3. handlerOnly /\ UNCHANGED <<pipelineVars, down, panicked>>
      BY <1>3 DEF Request
  <2>4. MainInv' /\ OrderInv'
      BY <1>2, <2>1, <2>2, <2>3, HandlerMoves DEF pipelineVars
  <2> QED
      BY <2>3, <2>4, PipelineStutters DEF IInv
<1>4. CASE Save(r)
  <2>1. /\ handlerOnly /\ UNCHANGED <<pipelineVars, panicked>>
        /\ handler[r].pc = "save"
      BY <1>4 DEF Save
  <2>2. /\ [handler[r] EXCEPT !.pc = "list"] \in Handlers
        /\ [handler[r] EXCEPT !.pc = "list"].pc = "list"
      BY <1>1 DEF Handlers
  <2>3. MainInv' /\ OrderInv'
    <3>1. CASE /\ Go(r, [handler[r] EXCEPT !.pc = "list"])
               /\ down' = down \ {handler[r].check}
        BY <1>2, <2>1, <2>2, <3>1, HandlerMoves DEF pipelineVars
    <3>2. CASE Go(r, Returned) /\ UNCHANGED down
        BY <1>1, <1>2, <2>1, <3>2, HandlerMoves DEF pipelineVars
    <3> QED
        BY <1>4, <3>1, <3>2 DEF Save
  <2> QED
      BY <2>1, <2>3, PipelineStutters DEF IInv
<1>5. CASE List(r)
  <2>1. /\ handlerOnly /\ UNCHANGED <<pipelineVars, down, panicked>>
        /\ handler[r].pc = "list"
      BY <1>5 DEF List
  <2>2. MainInv' /\ OrderInv'
    <3>1. ASSUME handler[r].check \in checkRows,
                 NEW chans \in SUBSET channelRows,
                 Go(r, [handler[r] EXCEPT !.pc = "send", !.chans = chans])
          PROVE  MainInv' /\ OrderInv'
      <4>1. /\ [handler[r] EXCEPT !.pc = "send", !.chans = chans] \in Handlers
            /\ [handler[r] EXCEPT !.pc = "send", !.chans = chans].check
                  = handler[r].check
          BY <1>1, <1>2 DEF Handlers
      <4> QED
          BY <1>2, <2>1, <3>1, <4>1, HandlerMoves DEF pipelineVars
    <3>2. CASE Go(r, Returned)
        BY <1>1, <1>2, <2>1, <3>2, HandlerMoves DEF pipelineVars
    <3> QED
        BY <1>5, <3>1, <3>2 DEF List
  <2> QED
      BY <2>1, <2>2, PipelineStutters DEF IInv
<1>6. CASE Send(r)
  <2>1. /\ handlerOnly /\ UNCHANGED <<down, panicked>>
        /\ handler[r].pc = "send"
      BY <1>6 DEF Send
  <2>2. PICK ch \in handler[r].chans :
           Offer(handler[r].check, ch) /\ AfterSend(r, ch)
      BY <1>6 DEF Send
  <2>3. handler[r].check \in Checks /\ ch \in Channels
      BY <1>1, <2>1 DEF IInv, MainInv, Handlers
  <2>4. UNCHANGED <<closed, worker>>
      BY <2>2 DEF Offer
  <2>5. PipelineInv'
      BY <2>2, <2>3, OfferKeeps DEF IInv
  <2>6. /\ [handler[r] EXCEPT !.chans = @ \ {ch}] \in Handlers
        /\ [handler[r] EXCEPT !.chans = @ \ {ch}].check = handler[r].check
      BY <1>1 DEF Handlers
  <2>7. MainInv' /\ OrderInv'
    <3>1. CASE handler[r].chans = {ch}
      <4>1. Go(r, Returned)
          BY <2>2, <3>1 DEF AfterSend
      <4> QED
          BY <1>1, <1>2, <2>1, <2>4, <4>1, HandlerMoves
    <3>2. CASE handler[r].chans # {ch}
      <4>1. Go(r, [handler[r] EXCEPT !.chans = @ \ {ch}])
          BY <2>2, <3>2 DEF AfterSend
      <4> QED
          BY <1>2, <2>1, <2>3, <2>4, <2>6, <4>1, HandlerMoves
    <3> QED
        BY <3>1, <3>2
  <2> QED
      BY <2>5, <2>7 DEF IInv
<1>7. CASE SendOnClosed(r)
  <2>1. /\ handlerOnly /\ UNCHANGED <<pipelineVars, down>>
        /\ Go(r, Returned) /\ panicked' = panicked \cup {r}
      BY <1>7 DEF SendOnClosed
  <2>2. MainInv' /\ OrderInv'
      BY <1>1, <1>2, <2>1, HandlerMoves DEF pipelineVars
  <2> QED
      BY <2>1, <2>2, PipelineStutters DEF IInv
<1> QED
    BY <1>3, <1>4, <1>5, <1>6, <1>7 DEF Handler

(* The scheduler moves on; it only ever does so before it has exited. *)
LEMMA SchedulerMoves ==
    ASSUME IInv, sched.pc # "exited", NEW locals \in Schedulers,
           locals.pc = "send" => locals.check \in Checks,
           sched' = locals, schedOnly,
           locals.todo \subseteq fell', alerted' \subseteq fell',
           fell' \subseteq Checks, down' \subseteq Checks,
           UNCHANGED <<closed, worker>>
    PROVE  MainInv' /\ OrderInv'
<1>1. MainInv'
    BY DEF IInv, MainInv, schedOnly
<1>2. OrderInv'
    BY DEF IInv, OrderInv, schedOnly
<1> QED
    BY <1>1, <1>2

LEMMA NextTransitionedIs ==
    ASSUME NEW todo \in SUBSET Checks, NextTransitioned(todo)
    PROVE  /\ sched' \in Schedulers /\ sched'.pc # "send"
           /\ sched'.todo = todo
BY DEF NextTransitioned, Waiting, Schedulers

LEMMA SchedulerKeeps ==
    ASSUME IInv, Scheduler
    PROVE  IInv'
<1>1. /\ sched \in Schedulers /\ sched.todo \subseteq fell
      /\ fell \subseteq Checks /\ alerted \subseteq fell /\ down \subseteq Checks
      /\ checkRows \subseteq Checks /\ channelRows \subseteq Channels
    BY DEF IInv, MainInv, PipelineInv, PipelineTypeOK
<1>2. CASE Evaluate
  <2>1. PICK gone \in SUBSET (checkRows \ (down \cup fell)) \ {{}} :
           /\ down' = down \cup gone
           /\ fell' = fell \cup gone
           /\ sched' = [Waiting EXCEPT !.pc = "list", !.todo = gone]
      BY <1>2 DEF Evaluate
  <2>2. /\ sched.pc = "wait" /\ schedOnly
        /\ UNCHANGED <<pipelineVars, alerted>>
      BY <1>2 DEF Evaluate
  <2>3. /\ sched' \in Schedulers /\ sched'.pc = "list" /\ sched'.todo = gone
      BY <1>1, <2>1 DEF Waiting, Schedulers
  <2>4. MainInv' /\ OrderInv'
      BY <1>1, <2>1, <2>2, <2>3, SchedulerMoves DEF pipelineVars
  <2> QED
      BY <2>2, <2>4, PipelineStutters DEF IInv
<1>3. CASE SchedulerList
  <2>1. /\ sched.pc = "list" /\ schedOnly
        /\ UNCHANGED <<pipelineVars, down, fell>>
      BY <1>3 DEF SchedulerList
  <2>2. ASSUME NEW c \in sched.todo, NextTransitioned(sched.todo \ {c}),
               alerted' \in {alerted, alerted \cup {c}}
        PROVE  MainInv' /\ OrderInv'
    <3>1. /\ sched' \in Schedulers /\ sched'.pc # "send"
          /\ sched'.todo = sched.todo \ {c}
        BY <1>1, <2>2, NextTransitionedIs DEF Schedulers
    <3> QED
        BY <1>1, <2>1, <2>2, <3>1, SchedulerMoves DEF pipelineVars
  <2>3. ASSUME NEW c \in sched.todo, NEW chans \in SUBSET channelRows,
               alerted' = alerted \cup {c},
               sched' = [sched EXCEPT !.pc = "send", !.todo = @ \ {c},
                                      !.check = c, !.chans = chans]
        PROVE  MainInv' /\ OrderInv'
    <3>1. /\ sched' \in Schedulers /\ sched'.check = c /\ c \in Checks
          /\ sched'.todo = sched.todo \ {c}
        BY <1>1, <2>3 DEF Schedulers
    <3> QED
        BY <1>1, <2>1, <2>3, <3>1, SchedulerMoves DEF pipelineVars
  <2>4. MainInv' /\ OrderInv'
      BY <1>3, <2>2, <2>3 DEF SchedulerList
  <2> QED
      BY <2>1, <2>4, PipelineStutters DEF IInv
<1>4. CASE SchedulerSend
  <2>1. PICK ch \in sched.chans :
           /\ Offer(sched.check, ch)
           /\ IF sched.chans = {ch}
              THEN NextTransitioned(sched.todo)
              ELSE sched' = [sched EXCEPT !.chans = @ \ {ch}]
      BY <1>4 DEF SchedulerSend
  <2>2. /\ sched.pc = "send" /\ schedOnly
        /\ UNCHANGED <<down, fell, alerted>>
      BY <1>4 DEF SchedulerSend
  <2>3. sched.check \in Checks /\ ch \in Channels
      BY <1>1, <2>2 DEF IInv, MainInv, Schedulers
  <2>4. UNCHANGED <<closed, worker>>
      BY <2>1 DEF Offer
  <2>5. PipelineInv'
      BY <2>1, <2>3, OfferKeeps DEF IInv
  <2>6. /\ sched' \in Schedulers /\ sched'.todo = sched.todo
        /\ sched'.pc = "send" => sched'.check \in Checks
    <3>1. CASE NextTransitioned(sched.todo)
        BY <1>1, <3>1, NextTransitionedIs DEF Schedulers
    <3>2. CASE sched' = [sched EXCEPT !.chans = @ \ {ch}]
        BY <1>1, <2>3, <3>2 DEF Schedulers
    <3> QED
        BY <2>1, <3>1, <3>2
  <2>7. MainInv' /\ OrderInv'
      BY <1>1, <2>2, <2>4, <2>6, SchedulerMoves
  <2> QED
      BY <2>5, <2>7 DEF IInv
<1>5. CASE SchedulerExit
  <2>1. /\ sched.pc = "wait" /\ schedOnly
        /\ sched' = [sched EXCEPT !.pc = "exited"]
        /\ UNCHANGED <<pipelineVars, down, fell, alerted>>
      BY <1>5 DEF SchedulerExit
  <2>2. /\ sched' \in Schedulers /\ sched'.pc = "exited"
        /\ sched'.todo = sched.todo
      BY <1>1, <2>1 DEF Schedulers
  <2>3. MainInv' /\ OrderInv'
      BY <1>1, <2>1, <2>2, SchedulerMoves DEF pipelineVars
  <2> QED
      BY <2>1, <2>3, PipelineStutters DEF IInv
<1> QED
    BY <1>2, <1>3, <1>4, <1>5 DEF Scheduler

(* The worker and the deletions leave the process as it is; an exited      *)
(* worker stays so.                                                        *)
LEMMA PipelineStepKeeps ==
    ASSUME IInv, Worker \/ Deletions, UNCHANGED mainVars
    PROVE  IInv'
<1>1. PipelineInv'
    BY WorkerKeeps, DeletionsKeep DEF IInv
<1>2. UNCHANGED <<main, accepting, handler, cancelled, sched, stopping, down,
                  fell, alerted, panicked>>
    BY DEF mainVars
<1>3. MainInv'
    BY <1>2 DEF IInv, MainInv
<1>4. closed' = closed /\ (worker.pc = "exited" => worker' = worker)
    BY DEF Worker, WorkerReceive, WorkerExit, WorkerSend, WorkerInsert,
           WorkerRetry, Deletions, DeleteChannel, DeleteCheck
<1>5. OrderInv'
    BY <1>2, <1>4 DEF IInv, OrderInv
<1> QED
    BY <1>1, <1>3, <1>5 DEF IInv

(* main.run: each step but the closing leaves the pipeline alone. *)
LEMMA MainKeeps ==
    ASSUME IInv, Signal \/ ServeError \/ Main
    PROVE  IInv'
<1> USE DEF MainGoes, mainOnly
<1>1. MainInv'
    BY DEF IInv, MainInv, Signal, ServeError, Main, ShutdownReturns,
           ShutdownTimeout, StopScheduler, SchedulerJoined, CloseAlertCh,
           WorkerJoined, Serving
<1>2. CASE CloseAlertCh
  <2>1. PipelineInv'
      BY <1>2, CloseQueueKeeps DEF CloseAlertCh, IInv
  <2>2. OrderInv'
      BY <1>2 DEF CloseAlertCh, CloseQueue, IInv, OrderInv
  <2> QED
      BY <1>1, <2>1, <2>2 DEF IInv
<1>3. CASE ~CloseAlertCh
  <2>1. UNCHANGED pipelineVars
      BY <1>3 DEF Signal, ServeError, Main, ShutdownReturns, ShutdownTimeout,
                  StopScheduler, SchedulerJoined, WorkerJoined
  <2>2. OrderInv'
      BY <1>3, <2>1
      DEF IInv, OrderInv, pipelineVars, Signal, ServeError, Main,
          ShutdownReturns, ShutdownTimeout, StopScheduler, SchedulerJoined,
          WorkerJoined
  <2> QED
      BY <1>1, <2>1, <2>2, PipelineStutters DEF IInv
<1> QED
    BY <1>2, <1>3

LEMMA Inductive ==
    ASSUME IInv, [Next]_vars
    PROVE  IInv'
<1>1. CASE Signal \/ ServeError \/ Main
    BY <1>1, MainKeeps
<1>2. CASE Scheduler
    BY <1>2, SchedulerKeeps
<1>3. CASE \E r \in Requests : Handler(r)
    BY <1>3, HandlerKeeps
<1>4. CASE (Worker \/ Deletions) /\ UNCHANGED mainVars
    BY <1>4, PipelineStepKeeps
<1>5. CASE UNCHANGED vars
  <2>1. UNCHANGED pipelineVars /\ UNCHANGED mainVars
      BY <1>5 DEF vars
  <2>2. PipelineInv'
      BY <2>1, PipelineStutters DEF IInv
  <2>3. MainInv' /\ OrderInv'
      BY <2>1 DEF IInv, MainInv, OrderInv, mainVars, pipelineVars
  <2> QED
      BY <2>2, <2>3 DEF IInv
<1> QED
    BY <1>1, <1>2, <1>3, <1>4, <1>5 DEF Next

LEMMA Invariance == Spec => []IInv
<1> QED
    BY Starts, Inductive, PTL DEF Spec

-----------------------------------------------------------------------------

(* The variables of the queue, the worker, main.run, the handlers and the  *)
(* scheduler keep their types; the queue keeps within alertCh's capacity.  *)
THEOREM TypeCorrect == Spec => []TypeOK
<1>1. IInv => TypeOK
    BY DEF IInv, PipelineInv, MainInv, TypeOK
<1> QED
    BY <1>1, Invariance, PTL

(* An event alertCh took is in exactly one place until its check goes: in  *)
(* the queue, with the worker, in a row, or given up after two inserts.    *)
THEOREM EventsAreAccountedFor == Spec => []EventsAccountedFor
<1>1. IInv => EventsAccountedFor
    BY DEF IInv, PipelineInv
<1> QED
    BY <1>1, Invariance, PTL

(* A row of notifications says delivered exactly when a notifier delivered *)
(* its event, although the worker may insert twice and rows lose channels. *)
THEOREM RowsAreTruthful == Spec => []RowsTruthful
<1>1. IInv => RowsTruthful
    BY DEF IInv, PipelineInv
<1> QED
    BY <1>1, Invariance, PTL

(* main.run closes alertCh after the scheduler has gone, and returns with  *)
(* the worker gone and nothing left in the queue.                          *)
THEOREM EndIsOrderly == Spec => []OrderlyEnd
<1>1. ASSUME IInv
      PROVE  OrderlyEnd
  <2>1. main = "done" => ~Busy /\ worker.pc = "exited"
      BY <1>1 DEF IInv, OrderInv, Busy
  <2>2. main = "done" => alertCh = <<>> /\ worker.event = <<>>
      BY <1>1, <2>1 DEF IInv, PipelineInv, WorkerInv
  <2> QED
      BY <1>1, <2>1, <2>2 DEF IInv, OrderInv, OrderlyEnd
<1> QED
    BY <1>1, Invariance, PTL
-----------------------------------------------------------------------------
(* The order of the queue. *)

(* What a step of the process does to the pipeline. *)
PipelineStep ==
    \/ UNCHANGED pipelineVars
    \/ \E c \in Checks, ch \in Channels : Offer(c, ch)
    \/ CloseQueue
    \/ Worker
    \/ Deletions

LEMMA StepsOfThePipeline ==
    ASSUME IInv, [Next]_vars
    PROVE  PipelineStep
<1>1. CASE Signal \/ ServeError \/ Main
    BY <1>1 DEF Signal, ServeError, Main, ShutdownReturns, ShutdownTimeout,
                StopScheduler, SchedulerJoined, CloseAlertCh, WorkerJoined,
                PipelineStep
<1>2. CASE Scheduler
  <2>1. CASE SchedulerSend
    <3>1. PICK ch \in sched.chans : Offer(sched.check, ch)
        BY <2>1 DEF SchedulerSend
    <3>2. sched.check \in Checks /\ ch \in Channels
        BY <2>1 DEF SchedulerSend, IInv, MainInv, Schedulers
    <3> QED
        BY <3>1, <3>2 DEF PipelineStep
  <2> QED
      BY <1>2, <2>1 DEF Scheduler, Evaluate, SchedulerList, SchedulerExit,
                        PipelineStep
<1>3. ASSUME NEW r \in Requests, Handler(r)
      PROVE  PipelineStep
  <2>1. CASE Send(r)
    <3>1. PICK ch \in handler[r].chans : Offer(handler[r].check, ch)
        BY <2>1 DEF Send
    <3>2. handler[r] \in Handlers /\ handler[r].check \in Checks
        BY <2>1 DEF Send, IInv, MainInv
    <3>3. ch \in Channels
        BY <3>2 DEF Handlers
    <3> QED
        BY <3>1, <3>2, <3>3 DEF PipelineStep
  <2> QED
      BY <1>3, <2>1 DEF Handler, Request, Save, List, SendOnClosed,
                        PipelineStep
<1>4. CASE UNCHANGED vars
    BY <1>4 DEF vars, PipelineStep
<1> QED
    BY <1>1, <1>2, <1>3, <1>4 DEF Next, PipelineStep

(* The events the worker has had. *)
Done == Recorded \cup unrecorded \cup (delivered \ InWorker)

LEMMA FifoIs ==
    FirstInFirstOut <=>
        /\ \A i, j \in DOMAIN alertCh :
              i < j => alertCh[i].number < alertCh[j].number
        /\ \A n \in InQueue  : \A m \in InWorker \cup Done : m < n
        /\ \A n \in InWorker : \A m \in Done : m < n
BY DEF FirstInFirstOut, Done

LEMMA FifoNext ==
    FirstInFirstOut' <=>
        /\ \A i, j \in DOMAIN alertCh' :
              i < j => alertCh'[i].number < alertCh'[j].number
        /\ \A n \in InQueue'  : \A m \in (InWorker \cup Done)' : m < n
        /\ \A n \in InWorker' : \A m \in Done' : m < n
BY DEF FirstInFirstOut, Done

(* The queue stays; the worker keeps its event or is done with it. *)
LEMMA QueueStays ==
    ASSUME FirstInFirstOut, alertCh' = alertCh,
           \/ InWorker' = InWorker /\ Done' \subseteq Done
           \/ InWorker' = {} /\ Done' \subseteq Done \cup InWorker
    PROVE  FirstInFirstOut'
<1>1. /\ \A n \in InQueue  : \A m \in InWorker \cup Done : m < n
      /\ \A n \in InWorker : \A m \in Done : m < n
      /\ \A i, j \in DOMAIN alertCh :
            i < j => alertCh[i].number < alertCh[j].number
    BY FifoIs
<1>2. InQueue' = InQueue
    BY DEF InQueue
<1>3. /\ \A i, j \in DOMAIN alertCh' :
            i < j => alertCh'[i].number < alertCh'[j].number
      /\ \A n \in InQueue'  : \A m \in (InWorker \cup Done)' : m < n
      /\ \A n \in InWorker' : \A m \in Done' : m < n
    BY <1>1, <1>2
<1> QED
    BY <1>3, FifoNext

LEMMA OfferIsFifo ==
    ASSUME PipelineInv, FirstInFirstOut,
           NEW c \in Checks, NEW ch \in Channels, Offer(c, ch)
    PROVE  FirstInFirstOut'
<1> USE DEF PipelineInv, PipelineTypeOK
<1>1. UNCHANGED <<worker, notifications, delivered, unrecorded>>
    BY DEF Offer, tables
<1>2. InWorker' = InWorker /\ Done' = Done
    BY <1>1 DEF InWorker, Done, Recorded
<1>3. CASE alertCh' = alertCh
    BY <1>2, <1>3, QueueStays
<1>4. CASE alertCh' # alertCh
  <2> DEFINE e == [number |-> accepted + 1, check |-> c, channel |-> ch]
  <2>1. /\ alertCh' = Append(alertCh, e) /\ accepted' = accepted + 1
        /\ accepted \in Nat /\ alertCh \in Seq(Events)
      BY <1>4 DEF Offer
  <2>2. InQueue' = InQueue \cup {accepted + 1}
      BY <2>1, Accepting
  <2>3. e \in Events /\ e.number = accepted + 1
      BY <2>1 DEF Events
  <2> HIDE DEF e
  <2>4. /\ DOMAIN alertCh = 1..Len(alertCh) /\ Len(alertCh) \in Nat
        /\ DOMAIN alertCh' = 1..(Len(alertCh) + 1)
        /\ \A i \in 1..Len(alertCh) : alertCh'[i] = alertCh[i]
        /\ alertCh'[Len(alertCh) + 1] = e
      BY <2>1, <2>3
  <2>5. /\ InQueue \subseteq 1..accepted /\ Done \subseteq 1..accepted
        /\ InWorker \subseteq 1..accepted
      BY WorkerHolds DEF QueueInv, Done, WorkerInv
  <2>6. \A i \in 1..Len(alertCh) : alertCh[i].number \in 1..accepted
      BY <2>4, <2>5 DEF InQueue
  <2>7. \A i, j \in DOMAIN alertCh' :
           i < j => alertCh'[i].number < alertCh'[j].number
    <3> SUFFICES ASSUME NEW i \in DOMAIN alertCh', NEW j \in DOMAIN alertCh',
                        i < j
                 PROVE  alertCh'[i].number < alertCh'[j].number
        OBVIOUS
    <3>1. i \in 1..Len(alertCh) /\ alertCh'[i] = alertCh[i]
        BY <2>4
    <3>2. CASE j = Len(alertCh) + 1
        BY <2>1, <2>3, <2>4, <2>6, <3>1, <3>2
    <3>3. CASE j # Len(alertCh) + 1
        BY <2>4, <3>1, <3>3, FifoIs
    <3> QED
        BY <3>2, <3>3
  <2>8. \A n \in InQueue' : \A m \in InWorker \cup Done : m < n
      BY <2>1, <2>2, <2>5, FifoIs
  <2>9. \A n \in InWorker' : \A m \in Done' : m < n
      BY <1>2, FifoIs
  <2> QED
      BY <1>2, <2>7, <2>8, <2>9, FifoNext
<1> QED
    BY <1>3, <1>4

LEMMA ReceiveIsFifo ==
    ASSUME PipelineInv, FirstInFirstOut, WorkerReceive
    PROVE  FirstInFirstOut'
<1> USE DEF PipelineInv, PipelineTypeOK
<1> DEFINE h == Head(alertCh)
<1>1. /\ alertCh # <<>> /\ alertCh' = Tail(alertCh)
      /\ worker' = [pc |-> "send", event |-> h, error |-> FALSE]
      /\ worker.pc = "receive"
      /\ UNCHANGED <<notifications, delivered, unrecorded>>
    BY DEF WorkerReceive, Receiving, tables, history
<1>2. /\ DOMAIN alertCh = 1..Len(alertCh) /\ Len(alertCh) \in Nat \ {0}
      /\ h = alertCh[1] /\ h \in Events
      /\ DOMAIN alertCh' = 1..(Len(alertCh) - 1)
      /\ \A i \in 1..(Len(alertCh) - 1) : alertCh'[i] = alertCh[i + 1]
    BY <1>1
<1>3. InWorker = {} /\ InWorker' = {h.number} /\ Done' \subseteq Done
  <2>1. InWorker = {}
      BY <1>1, WorkerHolds DEF Busy
  <2>2. InWorker' = {h.number}
      BY <1>1, <1>2, EventIsNotNone DEF InWorker
  <2> QED
      BY <1>1, <2>1, <2>2 DEF Done, Recorded
<1> HIDE DEF h
<1>4. \A i, j \in DOMAIN alertCh :
         i < j => alertCh[i].number < alertCh[j].number
    BY FifoIs
<1>5. \A i, j \in DOMAIN alertCh' :
         i < j => alertCh'[i].number < alertCh'[j].number
  <2> SUFFICES ASSUME NEW i \in DOMAIN alertCh', NEW j \in DOMAIN alertCh', i < j
               PROVE  alertCh'[i].number < alertCh'[j].number
      OBVIOUS
  <2>1. /\ i + 1 \in DOMAIN alertCh /\ j + 1 \in DOMAIN alertCh
        /\ i + 1 < j + 1
        /\ alertCh'[i] = alertCh[i + 1] /\ alertCh'[j] = alertCh[j + 1]
      BY <1>2
  <2> QED
      BY <1>4, <2>1
<1>6. \A n \in InQueue' : n \in InQueue /\ h.number < n
  <2> SUFFICES ASSUME NEW i \in DOMAIN alertCh'
               PROVE  /\ alertCh'[i].number \in InQueue
                      /\ h.number < alertCh'[i].number
      BY DEF InQueue
  <2>1. /\ i + 1 \in DOMAIN alertCh /\ 1 \in DOMAIN alertCh /\ 1 < i + 1
        /\ alertCh'[i] = alertCh[i + 1]
      BY <1>2
  <2> QED
      BY <1>2, <1>4, <2>1 DEF InQueue
<1>7. h.number \in InQueue
    BY <1>2 DEF InQueue
<1>8. \A n \in InQueue' : \A m \in (InWorker \cup Done)' : m < n
    BY <1>3, <1>6, FifoIs
<1>9. \A n \in InWorker' : \A m \in Done' : m < n
    BY <1>3, <1>7, FifoIs
<1> QED
    BY <1>5, <1>8, <1>9, FifoNext

(* What the worker writes down, or gives up, is the event it holds. *)
LEMMA WorkerIsFifo ==
    ASSUME PipelineInv, FirstInFirstOut, Worker
    PROVE  FirstInFirstOut'
<1> USE DEF PipelineInv, PipelineTypeOK
<1>1. CASE WorkerReceive
    BY <1>1, ReceiveIsFifo
<1>2. CASE WorkerExit
  <2>1. /\ worker'.event = worker.event
        /\ UNCHANGED <<alertCh, notifications, delivered, unrecorded>>
      BY <1>2 DEF WorkerExit, Workers, tables, history
  <2>2. InWorker' = InWorker /\ Done' = Done
      BY <2>1 DEF InWorker, Done, Recorded
  <2> QED
      BY <2>1, <2>2, QueueStays
<1>3. CASE WorkerSend
  <2>1. /\ worker'.event = worker.event
        /\ UNCHANGED <<alertCh, notifications, unrecorded>>
        /\ delivered' \subseteq delivered \cup {worker.event.number}
      BY <1>3 DEF WorkerSend, Workers, tables
  <2>2. InWorker = {worker.event.number} /\ InWorker' = InWorker
      BY <1>3, <2>1, WorkerHolds DEF WorkerSend, Busy, InWorker
  <2>3. Done' \subseteq Done
      BY <2>1, <2>2 DEF Done, Recorded
  <2> QED
      BY <2>1, <2>2, <2>3, QueueStays
<1>4. CASE WorkerInsert \/ WorkerRetry
  <2>1. /\ UNCHANGED <<alertCh, delivered>>
        /\ worker.pc \in {"insert", "retry"}
      BY <1>4 DEF WorkerInsert, WorkerRetry, history
  <2>2. InWorker = {worker.event.number}
      BY <2>1, WorkerHolds DEF Busy
  <2>3. CASE /\ worker' = [worker EXCEPT !.pc = "retry"]
             /\ UNCHANGED <<notifications, unrecorded>>
    <3>1. InWorker' = InWorker /\ Done' = Done
        BY <2>1, <2>3 DEF InWorker, Workers, Done, Recorded
    <3> QED
        BY <2>1, <3>1, QueueStays
  <2>4. ASSUME worker' = Receiving,
               Recorded' \cup unrecorded'
                  \subseteq Recorded \cup unrecorded \cup {worker.event.number}
        PROVE  FirstInFirstOut'
    <3>1. InWorker' = {}
        BY <2>4 DEF InWorker, Receiving
    <3>2. Done' \subseteq Done \cup InWorker
        BY <2>1, <2>2, <2>4, <3>1 DEF Done
    <3> QED
        BY <2>1, <3>1, <3>2, QueueStays
  <2>5. \A channel : RowOf(channel).number = worker.event.number
      BY DEF RowOf
  <2>6. CASE WorkerInsert
      BY <2>3, <2>4, <2>5, <2>6 DEF WorkerInsert, Recorded, history
  <2>7. CASE WorkerRetry
      BY <2>4, <2>5, <2>7 DEF WorkerRetry, Recorded
  <2> QED
      BY <1>4, <2>6, <2>7
<1> QED
    BY <1>1, <1>2, <1>3, <1>4 DEF Worker

LEMMA DeletionsAreFifo ==
    ASSUME PipelineInv, FirstInFirstOut, Deletions
    PROVE  FirstInFirstOut'
<1>1. UNCHANGED <<alertCh, worker, delivered, unrecorded>>
    BY DEF Deletions, DeleteChannel, DeleteCheck, history
<1>2. Recorded' \subseteq Recorded
  <2>1. ASSUME NEW c \in Checks, DeleteCheck(c)
        PROVE  Recorded' \subseteq Recorded
      BY <2>1 DEF DeleteCheck, Recorded
  <2>2. ASSUME NEW ch \in Channels, DeleteChannel(ch)
        PROVE  Recorded' \subseteq Recorded
    <3>1. \A row \in notifications :
             [row EXCEPT !.channel = Nil].number = row.number
        BY DEF PipelineInv, PipelineTypeOK, Rows
    <3> QED
        BY <2>2, <3>1 DEF DeleteChannel, Recorded
  <2> QED
      BY <2>1, <2>2 DEF Deletions
<1>3. InWorker' = InWorker /\ Done' \subseteq Done
    BY <1>1, <1>2 DEF InWorker, Done
<1> QED
    BY <1>1, <1>3, QueueStays

(***************************************************************************)
(* Alerts leave alertCh in the order it took them, and the worker is done  *)
(* with every earlier event when it takes one, whatever inserts fail and   *)
(* whatever is deleted meanwhile: a check's down alert is never dispatched *)
(* after the recovery alert that was queued behind it.                     *)
(***************************************************************************)
THEOREM AlertsKeepTheirOrder == Spec => []FirstInFirstOut
<1>1. Init => FirstInFirstOut
  <2> SUFFICES ASSUME Init
               PROVE  FirstInFirstOut
      OBVIOUS
  <2>1. InQueue = {} /\ InWorker = {} /\ DOMAIN alertCh = {}
      BY DEF Init, PipelineInit, InQueue, InWorker, Receiving
  <2> QED
      BY <2>1, FifoIs
<1>2. IInv /\ FirstInFirstOut /\ [Next]_vars => FirstInFirstOut'
  <2> SUFFICES ASSUME PipelineInv, FirstInFirstOut, PipelineStep
               PROVE  FirstInFirstOut'
      BY StepsOfThePipeline DEF IInv
  <2>1. CASE UNCHANGED pipelineVars \/ CloseQueue
    <3>1. UNCHANGED <<alertCh, worker, notifications, delivered, unrecorded>>
        BY <2>1 DEF pipelineVars, CloseQueue, tables, history
    <3>2. InWorker' = InWorker /\ Done' = Done
        BY <3>1 DEF InWorker, Done, Recorded
    <3> QED
        BY <3>1, <3>2, QueueStays
  <2> QED
      BY <2>1, OfferIsFifo, WorkerIsFifo, DeletionsAreFifo DEF PipelineStep
<1> QED
    BY <1>1, <1>2, Invariance, PTL DEF Spec

-----------------------------------------------------------------------------
(* The draining of the queue. *)

LEMMA RankIs ==
    ASSUME PipelineInv
    PROVE  /\ alertCh \in Seq(Events) /\ Len(alertCh) \in 0..QueueCap
           /\ worker \in Workers
           /\ StepsLeft[worker.pc] \in 0..4
           /\ DrainRank \in 0..(4 * QueueCap + 4)
<1>1. /\ alertCh \in Seq(Events) /\ Len(alertCh) <= QueueCap
      /\ worker \in Workers
    BY DEF PipelineInv, PipelineTypeOK
<1>2. Len(alertCh) \in 0..QueueCap
    BY <1>1, QueueCapAssumption
<1>3. StepsLeft[worker.pc] \in 0..4
    BY <1>1 DEF Workers, StepsLeft
<1>4. DrainRank \in 0..(4 * QueueCap + 4)
    BY <1>2, <1>3, QueueCapAssumption DEF DrainRank
<1> QED
    BY <1>1, <1>2, <1>3, <1>4

LEMMA WorkerDrains ==
    ASSUME PipelineInv, Worker
    PROVE  DrainRank' < DrainRank
<1>1. /\ alertCh \in Seq(Events) /\ Len(alertCh) \in Nat
      /\ worker \in Workers
    BY RankIs
<1>2. CASE WorkerReceive
  <2>1. /\ worker.pc = "receive" /\ worker'.pc = "send"
        /\ Len(alertCh') = Len(alertCh) - 1
      BY <1>1, <1>2 DEF WorkerReceive, Receiving
  <2> QED
      BY <1>1, <2>1 DEF DrainRank, StepsLeft
<1>3. CASE WorkerExit \/ WorkerSend \/ WorkerInsert \/ WorkerRetry
  <2>1. /\ alertCh' = alertCh
        /\ \/ worker.pc = "receive" /\ worker'.pc = "exited"
           \/ worker.pc = "send" /\ worker'.pc = "insert"
           \/ worker.pc = "insert" /\ worker'.pc \in {"retry", "receive"}
           \/ worker.pc = "retry" /\ worker'.pc = "receive"
    <3>1. CASE WorkerExit
        BY <1>1, <3>1 DEF WorkerExit, Workers
    <3>2. CASE WorkerSend
        BY <1>1, <3>2 DEF WorkerSend, Workers
    <3>3. CASE WorkerInsert
      <4>1. /\ worker.pc = "insert" /\ alertCh' = alertCh
            /\ \/ worker' = Receiving
               \/ worker' = [worker EXCEPT !.pc = "retry"]
          BY <3>3 DEF WorkerInsert
      <4> QED
          BY <1>1, <4>1 DEF Receiving, Workers
    <3>4. CASE WorkerRetry
        BY <3>4 DEF WorkerRetry, Receiving
    <3> QED
        BY <1>3, <3>1, <3>2, <3>3, <3>4
  <2> QED
      BY <1>1, <2>1 DEF DrainRank, StepsLeft
<1> QED
    BY <1>2, <1>3 DEF Worker

(***************************************************************************)
(* After close(alertCh) the worker comes nearer to its exit with every     *)
(* step it takes, from a distance that alertCh's capacity bounds: what     *)
(* Terminates needs of the worker, beyond its being scheduled.             *)
(***************************************************************************)
THEOREM DrainAlwaysGoesOn == Spec => DrainGoesOn /\ []DrainBounded
<1> DEFINE GoesOn == closed => \/ UNCHANGED <<alertCh, worker>>
                               \/ DrainRank' < DrainRank
<1>1. ASSUME IInv, [Next]_vars
      PROVE  GoesOn
  <2>1. CASE Worker
      BY <1>1, <2>1, WorkerDrains DEF IInv
  <2>2. CASE UNCHANGED pipelineVars
      BY <2>2 DEF pipelineVars
  <2>3. CASE \E c \in Checks, ch \in Channels : Offer(c, ch)
      BY <2>3 DEF Offer
  <2>4. CASE CloseQueue \/ Deletions
      BY <2>4 DEF CloseQueue, Deletions, DeleteChannel, DeleteCheck
  <2> QED
      BY <1>1, <2>1, <2>2, <2>3, <2>4, StepsOfThePipeline DEF PipelineStep
<1>2. IInv => DrainBounded
    BY RankIs DEF IInv, DrainBounded
<1> QED
    BY <1>1, <1>2, Invariance, PTL DEF Spec, DrainGoesOn

LEMMA StoppedPassShrinks ==
    ASSUME IInv, Scheduler, stopping
    PROVE  PassShrinks
<1>1. sched \in Schedulers
    BY DEF IInv, MainInv
<1>2. \A todo : NextTransitioned(todo) =>
                  sched'.todo = todo /\ sched'.pc # "send"
    BY DEF NextTransitioned, Waiting
<1>3. CASE SchedulerList
  <2>1. PICK c \in sched.todo : NextTransitioned(sched.todo \ {c})
      BY <1>3 DEF SchedulerList
  <2> QED
      BY <1>2, <2>1 DEF PassShrinks
<1>4. CASE SchedulerSend
  <2>1. sched.pc = "send"
      BY <1>4 DEF SchedulerSend
  <2>2. PICK ch \in sched.chans :
           IF sched.chans = {ch}
           THEN NextTransitioned(sched.todo)
           ELSE sched' = [sched EXCEPT !.chans = @ \ {ch}]
      BY <1>4 DEF SchedulerSend
  <2>3. CASE NextTransitioned(sched.todo)
      BY <1>2, <2>1, <2>3 DEF PassShrinks
  <2>4. CASE sched' = [sched EXCEPT !.chans = @ \ {ch}]
    <3>1. sched'.todo = sched.todo /\ sched'.chans = sched.chans \ {ch}
        BY <1>1, <2>4 DEF Schedulers
    <3> QED
        BY <2>1, <3>1 DEF PassShrinks
  <2> QED
      BY <2>2, <2>3, <2>4
<1>5. CASE SchedulerExit
  <2>1. sched'.pc = "exited"
      BY <1>1, <1>5 DEF SchedulerExit, Schedulers
  <2> QED
      BY <2>1 DEF PassShrinks
<1> QED
    BY <1>3, <1>4, <1>5 DEF Scheduler, Evaluate

(***************************************************************************)
(* After sched.Stop has cancelled the context the pass under way shrinks   *)
(* with every step of the scheduler: what Terminates needs of it.          *)
(***************************************************************************)
THEOREM StopAlwaysGoesOn == Spec => StopGoesOn
<1>1. ASSUME IInv, [Next]_vars
      PROVE  stopping => UNCHANGED sched \/ PassShrinks
  <2>1. CASE Signal \/ ServeError \/ Main
      BY <2>1 DEF Signal, ServeError, Main, ShutdownReturns, ShutdownTimeout,
                  StopScheduler, SchedulerJoined, CloseAlertCh, WorkerJoined,
                  mainOnly
  <2>2. ASSUME NEW r \in Requests, Handler(r)
        PROVE  UNCHANGED sched
      BY <2>2 DEF Handler, Request, Save, List, Send, SendOnClosed, handlerOnly
  <2>3. CASE UNCHANGED mainVars \/ UNCHANGED vars
      BY <2>3 DEF mainVars, vars
  <2> QED
      BY <1>1, <2>1, <2>2, <2>3, StoppedPassShrinks DEF Next
<1> QED
    BY <1>1, Invariance, PTL DEF Spec, StopGoesOn
=============================================================================
