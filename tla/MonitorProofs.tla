---------------------------- MODULE MonitorProofs ---------------------------
(***************************************************************************)
(* Theorems about Monitor, for any number of checks, channels and          *)
(* concurrent requests, any queue capacity and any number of crashes.      *)
(*                                                                         *)
(* TypeOK, RecordsConsistent and AlertsBacked follow from one inductive    *)
(* invariant, IInv.  None of them is inductive alone: a save is only as    *)
(* good as the copy in flight, so IInv says of every handler's locals what *)
(* its program counter promises about them, and of every down or recovery  *)
(* alert in flight that its check has been persisted as down.              *)
(***************************************************************************)
EXTENDS Monitor, ChecksProofs, SequenceTheorems

-----------------------------------------------------------------------------
(* The inductive invariant. *)

(* A check, or a copy of it, is down behind its pause only if it fell down. *)
Backed(c, check, fallen) == EffectiveStatus(check) = "down" => c \in fallen

StoreInv ==
    /\ issued \subseteq Checks
    /\ DOMAIN checks \subseteq issued
    /\ checks \in [DOMAIN checks -> ConsistentRecords]
    /\ \A c \in DOMAIN checks : Backed(c, checks[c], fellDown)

(* What a request's locals owe, where fallen are the checks that fell down. *)
LocalsInv(q, fallen) ==
    /\ q \in RequestRecords
    /\ q.copy # Nil => q.copy \in ConsistentRecords
    /\ q.pc = "get" => q.check \in Checks /\ q.at \in Nat
    /\ q.pc \in {"parse", "set"} =>
          /\ q.check \in Checks
          /\ q.copy \in ConsistentRecords
          /\ Backed(q.check, q.copy, fallen)
    /\ q.pc = "create" =>
          /\ q.copy \in ConsistentRecords
          /\ EffectiveStatus(q.copy) = "new"
    /\ q.pc \in {"list", "send"} => q.check \in Checks /\ q.alerts # <<>>
    /\ (\E i \in DOMAIN q.alerts : q.alerts[i] = "up") => q.check \in fallen

RequestsInv ==
    /\ req \in [Requests -> RequestRecords]
    /\ \A r \in Requests : LocalsInv(req[r], fellDown)

SchedulerInv ==
    /\ sched \in SchedulerRecords
    /\ sched.todo \subseteq fellDown
    /\ sched.pc = "send" => sched.check \in fellDown

QueueInv ==
    /\ queue \in Seq(Events)
    /\ Len(queue) <= QueueCap
    /\ \A i \in DOMAIN queue :
          queue[i].type \in {"down", "up"} => queue[i].check \in fellDown

OthersInv ==
    /\ now \in Times
    /\ subs \in [Checks -> SUBSET Channels]
    /\ crashes \in 0..MaxCrashes
    /\ fellDown \subseteq Checks

IInv == StoreInv /\ RequestsInv /\ SchedulerInv /\ QueueInv /\ OthersInv

-----------------------------------------------------------------------------
(* The inductive invariant implies what the runs check. *)

LEMMA IInvImplies == IInv => TypeOK /\ RecordsConsistent /\ AlertsBacked
<1> SUFFICES ASSUME IInv
             PROVE  TypeOK /\ RecordsConsistent /\ AlertsBacked
    OBVIOUS
<1> USE DEF IInv
<1>1. TypeOK
    BY DEF StoreInv, RequestsInv, SchedulerInv, QueueInv, OthersInv, TypeOK,
           StoreTypeOK, ConsistentRecords
<1>2. RecordsConsistent
    BY DEF StoreInv, RequestsInv, LocalsInv, RecordsConsistent,
           ConsistentRecords
<1>3. AlertsBacked
    BY DEF StoreInv, RequestsInv, LocalsInv, SchedulerInv, QueueInv,
           AlertsBacked, Backed
<1> QED
    BY <1>1, <1>2, <1>3

-----------------------------------------------------------------------------
(* Facts about what handlers share. *)

(* A goroutine that serves nothing satisfies its invariant. *)
LEMMA IdleInv == ASSUME NEW fallen PROVE LocalsInv(Idle, fallen)
<1>1. Idle \in RequestRecords
    BY DEF Idle, RequestRecords
<1> QED
    BY <1>1 DEF Idle, LocalsInv

(* Locals remain good while more checks fall down. *)
LEMMA LocalsMonotone ==
    ASSUME NEW q, NEW F, NEW G, F \subseteq G, LocalsInv(q, F)
    PROVE  LocalsInv(q, G)
BY DEF LocalsInv, Backed

(* A step of one request keeps the invariant of all when its own is kept. *)
LEMMA ContinueKeeps ==
    ASSUME RequestsInv, NEW r \in Requests, NEW locals,
           LocalsInv(locals, fellDown), Continue(r, locals),
           UNCHANGED fellDown
    PROVE  RequestsInv'
BY DEF RequestsInv, Continue, LocalsInv

LEMMA ReturnKeeps ==
    ASSUME RequestsInv, NEW r \in Requests, Return(r), UNCHANGED fellDown
    PROVE  RequestsInv'
BY ContinueKeeps, IdleInv DEF Return

(* The parts of the invariant a handler leaves alone. *)
LEMMA BackKeeps ==
    ASSUME IInv, UNCHANGED <<subs, backVars>>
    PROVE  SchedulerInv' /\ OthersInv'
BY DEF IInv, SchedulerInv, OthersInv, backVars

(* Writing back a consistent copy that is backed keeps the store's part. *)
LEMMA SetKeeps ==
    ASSUME StoreInv, NEW c, NEW check \in ConsistentRecords,
           Backed(c, check, fellDown), Set(c, check), UNCHANGED fellDown
    PROVE  StoreInv'
BY DEF StoreInv, Set

(* A send to the queue, dropped or not. *)
LEMMA TrySendKeeps ==
    ASSUME QueueInv, NEW c \in Checks, NEW ch \in Channels,
           NEW type \in {"down", "up", "fail"},
           type \in {"down", "up"} => c \in fellDown,
           TrySend(c, ch, type), UNCHANGED fellDown
    PROVE  QueueInv'
<1> DEFINE e == [check |-> c, channel |-> ch, type |-> type]
<1>1. e \in Events
    BY DEF Events
<1>2. CASE Len(queue) < QueueCap
  <2>1. queue' = Append(queue, e)
      BY <1>2 DEF TrySend
  <2>2. /\ queue' \in Seq(Events)
        /\ Len(queue') = Len(queue) + 1
        /\ \A i \in 1..Len(queue) : queue'[i] = queue[i]
        /\ queue'[Len(queue) + 1] = e
      BY <1>1, <2>1 DEF QueueInv
  <2> QED
      BY <1>2, <2>2, QueueCapAssumption DEF QueueInv
<1>3. CASE ~(Len(queue) < QueueCap)
    BY <1>3 DEF TrySend, QueueInv
<1> QED
    BY <1>2, <1>3

-----------------------------------------------------------------------------
(* The handlers. *)

LEMMA PingArriveKeeps ==
    ASSUME IInv, NEW r \in Requests, PingArrive(r)
    PROVE  IInv'
<1>1. UNCHANGED <<storeVars, subs, queue, backVars>>
    BY DEF PingArrive
<1>2. PICK op \in PingOps \cap Operations, c \in Checks :
         Continue(r, [Idle EXCEPT !.pc = "get", !.op = op, !.check = c,
                                  !.at = now])
    BY DEF PingArrive
<1> DEFINE locals == [Idle EXCEPT !.pc = "get", !.op = op, !.check = c,
                                  !.at = now]
<1>3. LocalsInv(locals, fellDown)
  <2>1. now \in Nat /\ op \in AllOps
      BY MaxTimeAssumption DEF IInv, OthersInv, Times, AllOps
  <2>2. /\ locals.pc = "get" /\ locals.op = op /\ locals.check = c
        /\ locals.at = now /\ locals.copy = Nil /\ locals.alerts = <<>>
      BY DEF Idle
  <2>3. Idle \in RequestRecords
      BY IdleInv DEF LocalsInv
  <2>4. locals \in RequestRecords
      BY <2>1, <2>3 DEF RequestRecords
  <2> HIDE DEF locals
  <2> QED
      BY <2>1, <2>2, <2>4 DEF LocalsInv
<1>4. RequestsInv'
    BY <1>1, <1>2, <1>3, ContinueKeeps DEF IInv, backVars
<1> QED
    BY <1>1, <1>4, BackKeeps DEF IInv, StoreInv, QueueInv, storeVars, backVars

(* The alerts a ping owes: at most a recovery and a fail alert. *)
LEMMA AlertsOwedType ==
    ASSUME NEW op, NEW check
    PROVE  /\ AlertsOwed(op, check) \in Seq({"up", "fail"})
           /\ (\E i \in DOMAIN AlertsOwed(op, check) :
                  AlertsOwed(op, check)[i] = "up") => check.status = "down"
<1> DEFINE up   == op # "start" /\ check.status = "down"
           fail == op = "fail" /\ check.notifyOnFail
<1>1. CASE up /\ fail
    BY <1>1 DEF AlertsOwed
<1>2. CASE up /\ ~fail
    BY <1>2 DEF AlertsOwed
<1>3. CASE ~up /\ fail
    BY <1>3 DEF AlertsOwed
<1>4. CASE ~up /\ ~fail
    BY <1>4 DEF AlertsOwed
<1> QED
    BY <1>1, <1>2, <1>3, <1>4

LEMMA PingGetKeeps ==
    ASSUME IInv, NEW r \in Requests, PingGet(r)
    PROVE  IInv'
<1> DEFINE q == req[r]
<1>1. UNCHANGED <<storeVars, subs, queue, backVars>>
    BY DEF PingGet
<1>2. q \in RequestRecords /\ q.check \in Checks /\ q.at \in Nat
    BY DEF PingGet, IInv, RequestsInv, LocalsInv
<1>3. ASSUME q.check \in DOMAIN checks /\ checks[q.check].status # "paused"
      PROVE  RequestsInv'
  <2> DEFINE check  == checks[q.check]
             copy   == Pinged(q.op, check, q.at)
             alerts == AlertsOwed(q.op, check)
             locals == [Idle EXCEPT !.pc = "set", !.op = q.op,
                                    !.check = q.check, !.copy = copy,
                                    !.alerts = alerts]
  <2>1. check \in ConsistentRecords /\ check.status # "paused"
        /\ Backed(q.check, check, fellDown)
      BY <1>3 DEF IInv, StoreInv
  <2>2. copy \in ConsistentRecords /\ Backed(q.check, copy, fellDown)
      BY <1>2, <2>1, AfterStartConsistent, AfterCompleteConsistent
      DEF Pinged, Backed
  <2>3. /\ alerts \in Seq({"up", "fail"})
        /\ (\E i \in DOMAIN alerts : alerts[i] = "up") => q.check \in fellDown
      BY <2>1, AlertsOwedType DEF Backed, EffectiveStatus
  <2> HIDE DEF copy, alerts, check
  <2>4. LocalsInv(locals, fellDown)
      BY <1>2, <2>2, <2>3
      DEF LocalsInv, Idle, RequestRecords, ConsistentRecords
  <2>5. Continue(r, locals)
      BY <1>3 DEF PingGet, copy, alerts, check
  <2> QED
      BY <1>1, <2>4, <2>5, ContinueKeeps DEF IInv, backVars
<1>4. ASSUME ~(q.check \in DOMAIN checks /\ checks[q.check].status # "paused")
      PROVE  RequestsInv'
  <2>1. Return(r)
      BY <1>4 DEF PingGet
  <2> QED
      BY <1>1, <2>1, ReturnKeeps DEF IInv, backVars
<1>5. RequestsInv'
    BY <1>3, <1>4
<1> QED
    BY <1>1, <1>5, BackKeeps DEF IInv, StoreInv, QueueInv, storeVars, backVars

LEMMA SaveCheckKeeps ==
    ASSUME IInv, NEW r \in Requests, SaveCheck(r)
    PROVE  IInv'
<1> DEFINE q == req[r]
<1>1. UNCHANGED <<subs, queue, backVars>> /\ q.pc = "set"
    BY DEF SaveCheck
<1>2. LocalsInv(q, fellDown)
    BY DEF IInv, RequestsInv
<1>3. CASE Set(q.check, q.copy) /\ q.alerts = <<>> /\ Return(r)
  <2>1. RequestsInv'
      BY <1>1, <1>3, ReturnKeeps DEF IInv, backVars
  <2>2. StoreInv'
      BY <1>1, <1>2, <1>3, SetKeeps DEF IInv, LocalsInv, backVars
  <2> QED
      BY <1>1, <2>1, <2>2, BackKeeps DEF IInv, QueueInv, backVars
<1>4. CASE /\ Set(q.check, q.copy) /\ q.alerts # <<>>
           /\ Continue(r, [q EXCEPT !.pc = "list", !.copy = Nil])
  <2>1. LocalsInv([q EXCEPT !.pc = "list", !.copy = Nil], fellDown)
      BY <1>1, <1>2, <1>4 DEF LocalsInv, RequestRecords
  <2>2. RequestsInv'
      BY <1>1, <1>4, <2>1, ContinueKeeps DEF IInv, backVars
  <2>3. StoreInv'
      BY <1>1, <1>2, <1>4, SetKeeps DEF IInv, LocalsInv, backVars
  <2> QED
      BY <1>1, <2>2, <2>3, BackKeeps DEF IInv, QueueInv, backVars
<1>5. CASE Return(r) /\ UNCHANGED storeVars
  <2>1. RequestsInv'
      BY <1>1, <1>5, ReturnKeeps DEF IInv, backVars
  <2> QED
      BY <1>1, <1>5, <2>1, BackKeeps
      DEF IInv, StoreInv, QueueInv, storeVars, backVars
<1> QED
    BY <1>3, <1>4, <1>5 DEF SaveCheck

LEMMA NextAlertKeeps ==
    ASSUME IInv, NEW r \in Requests, req[r].pc \in {"list", "send"},
           NextAlert(r), UNCHANGED fellDown
    PROVE  RequestsInv'
<1> DEFINE q == req[r]
           locals == [q EXCEPT !.pc = "list", !.chans = {},
                               !.alerts = Tail(q.alerts)]
<1>1. LocalsInv(q, fellDown)
    BY DEF IInv, RequestsInv
<1>2. CASE Len(q.alerts) > 1
  <2>1. q.alerts \in Seq({"up", "fail"})
      BY <1>1 DEF LocalsInv, RequestRecords
  <2>2. /\ Tail(q.alerts) \in Seq({"up", "fail"})
        /\ Len(Tail(q.alerts)) = Len(q.alerts) - 1
        /\ \A i \in 1..Len(Tail(q.alerts)) : Tail(q.alerts)[i] = q.alerts[i + 1]
      BY <1>2, <2>1, HeadTailProperties
  <2>3. /\ Tail(q.alerts) # <<>>
        /\ DOMAIN Tail(q.alerts) = 1..(Len(q.alerts) - 1)
        /\ DOMAIN q.alerts = 1..Len(q.alerts)
        /\ Len(q.alerts) \in Nat
      BY <1>2, <2>1, <2>2, EmptySeq, LenProperties
  <2>4. \A i \in DOMAIN Tail(q.alerts) : /\ i + 1 \in DOMAIN q.alerts
                                         /\ Tail(q.alerts)[i] = q.alerts[i + 1]
      BY <2>2, <2>3
  <2>5. LocalsInv(locals, fellDown)
      BY <1>1, <2>2, <2>3, <2>4 DEF LocalsInv, RequestRecords
  <2> QED
      BY <1>2, <2>5, ContinueKeeps DEF NextAlert, IInv
<1>3. CASE ~(Len(q.alerts) > 1)
    BY <1>3, ReturnKeeps DEF NextAlert, IInv
<1> QED
    BY <1>2, <1>3

LEMMA AlertListKeeps ==
    ASSUME IInv, NEW r \in Requests, AlertList(r)
    PROVE  IInv'
<1> DEFINE q == req[r]
           locals == [q EXCEPT !.pc = "send", !.chans = subs[q.check]]
<1>1. UNCHANGED <<storeVars, subs, queue, backVars>> /\ q.pc = "list"
    BY DEF AlertList
<1>2. ASSUME Continue(r, locals) PROVE RequestsInv'
  <2>1. LocalsInv(q, fellDown) /\ subs[q.check] \in SUBSET Channels
      BY <1>1 DEF IInv, RequestsInv, OthersInv, LocalsInv
  <2>2. LocalsInv(locals, fellDown)
      BY <1>1, <2>1 DEF LocalsInv, RequestRecords
  <2> QED
      BY <1>1, <1>2, <2>2, ContinueKeeps DEF IInv, backVars
<1>3. ASSUME NextAlert(r) PROVE RequestsInv'
    BY <1>1, <1>3, NextAlertKeeps DEF backVars
<1>4. RequestsInv'
    BY <1>2, <1>3 DEF AlertList
<1> QED
    BY <1>1, <1>4, BackKeeps DEF IInv, StoreInv, QueueInv, storeVars, backVars

LEMMA AlertSendKeeps ==
    ASSUME IInv, NEW r \in Requests, AlertSend(r)
    PROVE  IInv'
<1> DEFINE q == req[r]
<1>1. UNCHANGED <<storeVars, subs, backVars>> /\ q.pc = "send"
    BY DEF AlertSend
<1>2. PICK ch \in q.chans :
         /\ TrySend(q.check, ch, Head(q.alerts))
         /\ IF q.chans = {ch}
            THEN NextAlert(r)
            ELSE Continue(r, [q EXCEPT !.chans = @ \ {ch}])
    BY DEF AlertSend
<1>3. LocalsInv(q, fellDown)
    BY DEF IInv, RequestsInv
<1>4. QueueInv'
  <2>1. q.check \in Checks /\ ch \in Channels
      BY <1>1, <1>3 DEF LocalsInv, RequestRecords
  <2>2. /\ q.alerts \in Seq({"up", "fail"}) /\ q.alerts # <<>>
      BY <1>1, <1>3 DEF LocalsInv, RequestRecords
  <2>3. /\ Head(q.alerts) \in {"up", "fail"}
        /\ 1 \in DOMAIN q.alerts /\ q.alerts[1] = Head(q.alerts)
      BY <2>2
  <2>4. Head(q.alerts) = "up" => q.check \in fellDown
      BY <1>3, <2>3 DEF LocalsInv
  <2> QED
      BY <1>1, <1>2, <2>1, <2>3, <2>4, TrySendKeeps DEF IInv, backVars
<1>5. RequestsInv'
  <2>1. CASE NextAlert(r)
      BY <1>1, <2>1, NextAlertKeeps DEF backVars
  <2>2. CASE Continue(r, [q EXCEPT !.chans = @ \ {ch}])
    <3>1. LocalsInv([q EXCEPT !.chans = @ \ {ch}], fellDown)
        BY <1>3 DEF LocalsInv, RequestRecords
    <3> QED
        BY <1>1, <2>2, <3>1, ContinueKeeps DEF IInv, backVars
  <2> QED
      BY <1>2, <2>1, <2>2
<1> QED
    BY <1>1, <1>4, <1>5, BackKeeps DEF IInv, StoreInv, storeVars, backVars

LEMMA CreateParseKeeps ==
    ASSUME IInv, NEW r \in Requests, CreateParse(r)
    PROVE  IInv'
<1>1. UNCHANGED <<storeVars, subs, queue, backVars>>
    BY DEF CreateParse
<1>2. PICK form \in Forms :
         Continue(r, [Idle EXCEPT !.pc = "create", !.op = "create",
                                  !.copy = NewCheck(form, now)])
    BY DEF CreateParse
<1> DEFINE copy   == NewCheck(form, now)
           locals == [Idle EXCEPT !.pc = "create", !.op = "create",
                                  !.copy = copy]
<1>3. copy \in ConsistentRecords /\ EffectiveStatus(copy) = "new"
    BY NewCheckConsistent, MaxTimeAssumption DEF IInv, OthersInv, Times
<1> HIDE DEF copy
<1>4. Idle \in RequestRecords /\ "create" \in AllOps
    BY IdleInv DEF LocalsInv, AllOps
<1>5. LocalsInv(locals, fellDown)
  <2>1. locals \in RequestRecords
      BY <1>3, <1>4 DEF RequestRecords, ConsistentRecords
  <2>2. /\ locals.pc = "create" /\ locals.check = Nil
        /\ locals.copy = copy /\ locals.alerts = <<>>
      BY DEF Idle
  <2> HIDE DEF locals
  <2> QED
      BY <1>3, <2>1, <2>2 DEF LocalsInv
<1>6. RequestsInv'
    BY <1>1, <1>2, <1>5, ContinueKeeps DEF IInv, backVars, copy
<1> QED
    BY <1>1, <1>6, BackKeeps DEF IInv, StoreInv, QueueInv, storeVars, backVars

LEMMA CreateStoreKeeps ==
    ASSUME IInv, NEW r \in Requests, CreateStore(r)
    PROVE  IInv'
<1>1. UNCHANGED <<subs, queue, backVars>> /\ Return(r) /\ req[r].pc = "create"
    BY DEF CreateStore
<1>2. StoreInv'
  <2>1. CASE UNCHANGED storeVars
      BY <1>1, <2>1 DEF IInv, StoreInv, storeVars, backVars
  <2>2. ASSUME NEW c \in Checks, Create(c, req[r].copy)
        PROVE  StoreInv'
    <3>1. /\ req[r].copy \in ConsistentRecords
          /\ EffectiveStatus(req[r].copy) = "new"
        BY <1>1 DEF IInv, RequestsInv, LocalsInv
    <3> QED
        BY <1>1, <2>2, <3>1
        DEF IInv, StoreInv, Create, Backed, backVars
  <2> QED
      BY <2>1, <2>2 DEF CreateStore
<1>3. RequestsInv'
    BY <1>1, ReturnKeeps DEF IInv, backVars
<1> QED
    BY <1>1, <1>2, <1>3, BackKeeps DEF IInv, QueueInv, backVars

LEMMA UpdateGetKeeps ==
    ASSUME IInv, NEW r \in Requests, UpdateGet(r)
    PROVE  IInv'
<1>1. UNCHANGED <<storeVars, subs, queue, backVars>>
    BY DEF UpdateGet
<1>2. PICK c \in DOMAIN checks :
         Continue(r, [Idle EXCEPT !.pc = "parse", !.op = "update",
                                  !.check = c, !.copy = checks[c]])
    BY DEF UpdateGet
<1> DEFINE copy   == checks[c]
           locals == [Idle EXCEPT !.pc = "parse", !.op = "update",
                                  !.check = c, !.copy = copy]
<1>3. /\ c \in Checks /\ copy \in ConsistentRecords
      /\ Backed(c, copy, fellDown)
    BY DEF IInv, StoreInv
<1> HIDE DEF copy
<1>4. Idle \in RequestRecords /\ "update" \in AllOps
    BY IdleInv DEF LocalsInv, AllOps
<1>5. LocalsInv(locals, fellDown)
  <2>1. locals \in RequestRecords
      BY <1>3, <1>4 DEF RequestRecords, ConsistentRecords
  <2>2. /\ locals.pc = "parse" /\ locals.check = c
        /\ locals.copy = copy /\ locals.alerts = <<>>
      BY DEF Idle
  <2> HIDE DEF locals
  <2> QED
      BY <1>3, <2>1, <2>2 DEF LocalsInv
<1>6. RequestsInv'
    BY <1>1, <1>2, <1>5, ContinueKeeps DEF IInv, backVars, copy
<1> QED
    BY <1>1, <1>6, BackKeeps DEF IInv, StoreInv, QueueInv, storeVars, backVars

LEMMA UpdateParseKeeps ==
    ASSUME IInv, NEW r \in Requests, UpdateParse(r)
    PROVE  IInv'
<1> DEFINE q == req[r]
<1>1. UNCHANGED <<storeVars, subs, queue, backVars>> /\ q.pc = "parse"
    BY DEF UpdateParse
<1>2. ASSUME NEW form \in Forms,
             Continue(r, [q EXCEPT !.pc   = "set",
                                   !.copy = AfterUpdate(q.copy, form, now)])
      PROVE  RequestsInv'
  <2> DEFINE copy   == AfterUpdate(q.copy, form, now)
             locals == [q EXCEPT !.pc = "set", !.copy = copy]
  <2>1. LocalsInv(q, fellDown)
      BY DEF IInv, RequestsInv
  <2>2. now \in Nat
      BY MaxTimeAssumption DEF IInv, OthersInv, Times
  <2>3. copy \in ConsistentRecords /\ Backed(q.check, copy, fellDown)
      BY <1>1, <2>1, <2>2, AfterUpdateConsistent DEF LocalsInv, Backed
  <2> HIDE DEF copy
  <2>4. LocalsInv(locals, fellDown)
      BY <1>1, <2>1, <2>3 DEF LocalsInv, RequestRecords, ConsistentRecords
  <2> QED
      BY <1>1, <1>2, <2>4, ContinueKeeps DEF IInv, backVars, copy
<1>3. ASSUME Return(r) PROVE RequestsInv'
    BY <1>1, <1>3, ReturnKeeps DEF IInv, backVars
<1>4. RequestsInv'
    BY <1>2, <1>3 DEF UpdateParse
<1> QED
    BY <1>1, <1>4, BackKeeps DEF IInv, StoreInv, QueueInv, storeVars, backVars

LEMMA PauseGetKeeps ==
    ASSUME IInv, NEW r \in Requests, PauseGet(r)
    PROVE  IInv'
<1>1. UNCHANGED <<storeVars, subs, queue, backVars>>
    BY DEF PauseGet
<1>2. PICK c \in DOMAIN checks :
         Continue(r, [Idle EXCEPT !.pc = "set", !.op = "pause", !.check = c,
                                  !.copy = TogglePause(checks[c])])
    BY DEF PauseGet
<1> DEFINE copy   == TogglePause(checks[c])
           locals == [Idle EXCEPT !.pc = "set", !.op = "pause",
                                  !.check = c, !.copy = copy]
<1>3. /\ c \in Checks /\ copy \in ConsistentRecords
      /\ Backed(c, copy, fellDown)
    BY TogglePauseConsistent DEF IInv, StoreInv, Backed
<1> HIDE DEF copy
<1>4. Idle \in RequestRecords /\ "pause" \in AllOps
    BY IdleInv DEF LocalsInv, AllOps
<1>5. LocalsInv(locals, fellDown)
  <2>1. locals \in RequestRecords
      BY <1>3, <1>4 DEF RequestRecords, ConsistentRecords
  <2>2. /\ locals.pc = "set" /\ locals.check = c
        /\ locals.copy = copy /\ locals.alerts = <<>>
      BY DEF Idle
  <2> HIDE DEF locals
  <2> QED
      BY <1>3, <2>1, <2>2 DEF LocalsInv
<1>6. RequestsInv'
    BY <1>1, <1>2, <1>5, ContinueKeeps DEF IInv, backVars, copy
<1> QED
    BY <1>1, <1>6, BackKeeps DEF IInv, StoreInv, QueueInv, storeVars, backVars

LEMMA DeleteCheckKeeps ==
    ASSUME IInv, NEW c \in Checks, DeleteCheck(c)
    PROVE  IInv'
BY DEF IInv, DeleteCheck, Delete, StoreInv, RequestsInv, SchedulerInv,
       QueueInv, OthersInv, backVars

LEMMA ChannelsKeep ==
    ASSUME IInv, NEW c \in Checks, NEW ch \in Channels,
           AttachToCheck(c, ch) \/ DetachFromCheck(c, ch)
    PROVE  IInv'
BY DEF IInv, AttachToCheck, DetachFromCheck, StoreInv, RequestsInv,
       SchedulerInv, QueueInv, OthersInv, backVars, storeVars

-----------------------------------------------------------------------------
(* The scheduler. *)

LEMMA TickerFiresKeeps ==
    ASSUME IInv, TickerFires
    PROVE  IInv'
<1>1. now \in Nat
    BY MaxTimeAssumption DEF IInv, OthersInv, Times
<1>2. SchedulerInv'
    BY <1>1 DEF IInv, SchedulerInv, TickerFires, SchedulerRecords
<1> QED
    BY <1>2 DEF IInv, TickerFires, schedOnly, StoreInv, RequestsInv, QueueInv,
                OthersInv, storeVars

LEMMA PassKeeps ==
    ASSUME IInv, NEW failed, Pass(failed)
    PROVE  IInv'
<1> DEFINE gone == DueChecks \ failed
<1>1. /\ SetAll([c \in gone |-> MarkDown(checks[c])])
      /\ fellDown' = fellDown \cup gone
      /\ sched' = [Waiting(Nil) EXCEPT
                       !.pc   = IF gone = {} THEN "wait" ELSE "list",
                       !.todo = gone]
      /\ schedOnly /\ UNCHANGED queue
    BY DEF Pass
<1>2. /\ gone \subseteq DOMAIN checks /\ DOMAIN checks \subseteq Checks
      /\ \A c \in gone : checks[c].status = "up"
    BY DEF DueChecks, Overdue, IInv, StoreInv
<1> HIDE DEF gone
<1>3. fellDown \subseteq fellDown' /\ gone \subseteq fellDown'
    BY <1>1
<1>4. StoreInv'
  <2>1. \A c \in gone : /\ MarkDown(checks[c]) \in ConsistentRecords
                        /\ Backed(c, MarkDown(checks[c]), fellDown')
      BY <1>2, <1>3, MarkDownConsistent DEF IInv, StoreInv, Backed
  <2>2. \A c \in DOMAIN checks : /\ checks[c] \in ConsistentRecords
                                 /\ Backed(c, checks[c], fellDown')
      BY <1>3 DEF IInv, StoreInv, Backed
  <2>3. /\ checks' = [c \in DOMAIN checks |->
                         IF c \in gone THEN MarkDown(checks[c])
                                       ELSE checks[c]]
        /\ issued' = issued
      BY <1>1, <1>2 DEF SetAll
  <2> QED
      BY <2>1, <2>2, <2>3 DEF IInv, StoreInv
<1>5. RequestsInv'
    BY <1>1, <1>3, LocalsMonotone DEF IInv, RequestsInv, schedOnly
<1>6. SchedulerInv'
  <2>1. Waiting(Nil) \in SchedulerRecords
      BY DEF Waiting, SchedulerRecords
  <2>2. sched' \in SchedulerRecords
      BY <1>1, <1>2, <2>1 DEF SchedulerRecords
  <2>3. sched'.todo = gone /\ sched'.pc # "send"
      BY <1>1 DEF Waiting
  <2> QED
      BY <1>3, <2>2, <2>3 DEF SchedulerInv
<1>7. QueueInv'
    BY <1>1, <1>3 DEF IInv, QueueInv
<1>8. OthersInv'
    BY <1>1, <1>2 DEF IInv, OthersInv, schedOnly
<1> QED
    BY <1>4, <1>5, <1>6, <1>7, <1>8 DEF IInv

(* The scheduler goes on with some of the checks it has to handle. *)
LEMMA NextTransitionedKeeps ==
    ASSUME SchedulerInv, NEW todo, todo \subseteq sched.todo,
           NextTransitioned(todo), UNCHANGED fellDown
    PROVE  SchedulerInv'
BY DEF SchedulerInv, NextTransitioned, SchedulerRecords

LEMMA SchedulerListKeeps ==
    ASSUME IInv, SchedulerList
    PROVE  IInv'
<1>1. schedOnly /\ UNCHANGED <<storeVars, queue, fellDown>>
    BY DEF SchedulerList
<1>2. PICK c \in sched.todo :
         \/ /\ subs[c] # {}
            /\ sched' = [sched EXCEPT !.pc = "send", !.todo = @ \ {c},
                                      !.check = c, !.chans = subs[c]]
         \/ NextTransitioned(sched.todo \ {c})
    BY DEF SchedulerList
<1>3. c \in Checks /\ c \in fellDown /\ subs[c] \in SUBSET Channels
    BY DEF IInv, SchedulerInv, SchedulerRecords, OthersInv
<1>4. SchedulerInv'
  <2>1. CASE sched' = [sched EXCEPT !.pc = "send", !.todo = @ \ {c},
                                    !.check = c, !.chans = subs[c]]
      BY <1>1, <1>3, <2>1 DEF IInv, SchedulerInv, SchedulerRecords
  <2>2. CASE NextTransitioned(sched.todo \ {c})
      BY <1>1, <2>2, NextTransitionedKeeps DEF IInv
  <2> QED
      BY <1>2, <2>1, <2>2
<1> QED
    BY <1>1, <1>4 DEF IInv, schedOnly, StoreInv, RequestsInv, QueueInv,
                      OthersInv, storeVars

LEMMA SchedulerSendKeeps ==
    ASSUME IInv, SchedulerSend
    PROVE  IInv'
<1>1. schedOnly /\ UNCHANGED <<storeVars, fellDown>> /\ sched.pc = "send"
    BY DEF SchedulerSend
<1>2. PICK ch \in sched.chans :
         /\ TrySend(sched.check, ch, "down")
         /\ IF sched.chans = {ch}
            THEN NextTransitioned(sched.todo)
            ELSE sched' = [sched EXCEPT !.chans = @ \ {ch}]
    BY DEF SchedulerSend
<1>3. sched.check \in Checks /\ sched.check \in fellDown /\ ch \in Channels
    BY <1>1 DEF IInv, SchedulerInv, OthersInv, SchedulerRecords
<1>4. QueueInv'
    BY <1>1, <1>2, <1>3, TrySendKeeps DEF IInv
<1>5. SchedulerInv'
  <2>1. CASE NextTransitioned(sched.todo)
      BY <1>1, <2>1, NextTransitionedKeeps DEF IInv
  <2>2. CASE sched' = [sched EXCEPT !.chans = @ \ {ch}]
      BY <1>1, <2>2 DEF IInv, SchedulerInv, SchedulerRecords
  <2> QED
      BY <1>2, <2>1, <2>2
<1> QED
    BY <1>1, <1>4, <1>5
    DEF IInv, schedOnly, StoreInv, RequestsInv, OthersInv, storeVars

-----------------------------------------------------------------------------
(* The worker, the clock and the crash. *)

LEMMA WorkerReceiveKeeps ==
    ASSUME IInv, WorkerReceive
    PROVE  IInv'
<1>1. /\ queue # <<>> /\ queue' = Tail(queue)
      /\ UNCHANGED <<storeVars, subs, req, backVars>>
    BY DEF WorkerReceive
<1>2. QueueInv'
  <2>1. queue \in Seq(Events) /\ Len(queue) <= QueueCap
      BY DEF IInv, QueueInv
  <2>2. /\ queue' \in Seq(Events)
        /\ Len(queue') = Len(queue) - 1
        /\ \A i \in 1..Len(queue') : queue'[i] = queue[i + 1]
      BY <1>1, <2>1, HeadTailProperties
  <2>3. /\ DOMAIN queue' = 1..(Len(queue) - 1)
        /\ DOMAIN queue = 1..Len(queue) /\ Len(queue) \in Nat
      BY <2>1, <2>2, LenProperties
  <2>4. \A i \in DOMAIN queue' : i + 1 \in DOMAIN queue /\ queue'[i] = queue[i + 1]
      BY <2>2, <2>3
  <2> QED
      BY <1>1, <2>1, <2>2, <2>3, <2>4, QueueCapAssumption
      DEF IInv, QueueInv, backVars
<1> QED
    BY <1>1, <1>2 DEF IInv, StoreInv, RequestsInv, SchedulerInv, OthersInv,
                      storeVars, backVars

LEMMA TickKeeps ==
    ASSUME IInv, Tick
    PROVE  IInv'
<1>1. OthersInv'
    BY MaxTimeAssumption DEF IInv, OthersInv, Tick, Times
<1> QED
    BY <1>1 DEF IInv, Tick, StoreInv, RequestsInv, SchedulerInv, QueueInv,
                storeVars

LEMMA CrashKeeps ==
    ASSUME IInv, Crash
    PROVE  IInv'
<1>1. StoreInv'
  <2>1. \A c \in DOMAIN checks :
           /\ Stored(checks[c]) \in ConsistentRecords
           /\ Backed(c, Stored(checks[c]), fellDown)
      BY StoredConsistent DEF IInv, StoreInv, Backed
  <2> QED
      BY <2>1 DEF IInv, StoreInv, Crash, Reload
<1>2. RequestsInv'
  <2>1. req' = [r \in Requests |-> Idle]
      BY DEF Crash
  <2>2. Idle \in RequestRecords /\ LocalsInv(Idle, fellDown')
      BY IdleInv DEF LocalsInv
  <2> QED
      BY <2>1, <2>2 DEF RequestsInv
<1>3. SchedulerInv'
  <2>1. now \in Nat
      BY MaxTimeAssumption DEF IInv, OthersInv, Times
  <2> QED
      BY <2>1 DEF Crash, Waiting, SchedulerInv, SchedulerRecords
<1>4. QueueInv'
  <2>1. queue' = <<>>
      BY DEF Crash
  <2>2. <<>> \in Seq(Events) /\ Len(<<>>) = 0 /\ DOMAIN <<>> = {}
      BY EmptySeq
  <2> QED
      BY <2>1, <2>2, QueueCapAssumption DEF QueueInv
<1>5. OthersInv'
    BY MaxCrashesAssumption DEF IInv, OthersInv, Crash
<1> QED
    BY <1>1, <1>2, <1>3, <1>4, <1>5 DEF IInv

-----------------------------------------------------------------------------
(* The theorems. *)

LEMMA InitIInv == Init => IInv
<1> SUFFICES ASSUME Init PROVE IInv
    OBVIOUS
<1>1. StoreInv
    BY DEF Init, StoreInit, StoreInv
<1>2. RequestsInv
  <2>1. Idle \in RequestRecords /\ LocalsInv(Idle, fellDown)
      BY IdleInv DEF LocalsInv
  <2> QED
      BY <2>1 DEF Init, RequestsInv
<1>3. SchedulerInv
    BY DEF Init, Waiting, SchedulerInv, SchedulerRecords
<1>4. QueueInv
  <2>1. <<>> \in Seq(Events) /\ Len(<<>>) = 0 /\ DOMAIN <<>> = {}
      BY EmptySeq
  <2> QED
      BY <2>1, QueueCapAssumption DEF Init, QueueInv
<1>5. OthersInv
    BY MaxTimeAssumption, MaxCrashesAssumption DEF Init, OthersInv, Times
<1> QED
    BY <1>1, <1>2, <1>3, <1>4, <1>5 DEF IInv

LEMMA StepIInv == IInv /\ [Next]_vars => IInv'
<1> SUFFICES ASSUME IInv, [Next]_vars PROVE IInv'
    OBVIOUS
<1>1. ASSUME NEW r \in Requests, Handler(r) PROVE IInv'
    BY <1>1, PingArriveKeeps, PingGetKeeps, SaveCheckKeeps, AlertListKeeps,
       AlertSendKeeps, CreateParseKeeps, CreateStoreKeeps, UpdateGetKeeps,
       UpdateParseKeeps, PauseGetKeeps DEF Handler
<1>2. ASSUME NEW c \in Checks, DeleteCheck(c) PROVE IInv'
    BY <1>2, DeleteCheckKeeps
<1>3. ASSUME NEW c \in Checks, NEW ch \in Channels,
             AttachToCheck(c, ch) \/ DetachFromCheck(c, ch)
      PROVE  IInv'
    BY <1>3, ChannelsKeep
<1>4. CASE Scheduler
    BY <1>4, TickerFiresKeeps, PassKeeps, SchedulerListKeeps,
       SchedulerSendKeeps DEF Scheduler, Evaluate
<1>5. CASE WorkerReceive
    BY <1>5, WorkerReceiveKeeps
<1>6. CASE Tick
    BY <1>6, TickKeeps
<1>7. CASE Crash
    BY <1>7, CrashKeeps
<1>8. CASE UNCHANGED vars
    BY <1>8 DEF vars, IInv, StoreInv, RequestsInv, SchedulerInv, QueueInv,
                OthersInv
<1> QED
    BY <1>1, <1>2, <1>3, <1>4, <1>5, <1>6, <1>7, <1>8 DEF Next

LEMMA Invariant == Spec => []IInv
BY InitIInv, StepIInv, PTL DEF Spec

(***************************************************************************)
(* The state is well typed and the queue never holds more than alertCh can.*)
(***************************************************************************)
THEOREM TypeCorrect == Spec => []TypeOK
BY Invariant, IInvImplies, PTL

(***************************************************************************)
(* Whatever overlaps, no handler, scheduler pass or restart leaves or is   *)
(* about to save a check whose fields contradict each other.               *)
(***************************************************************************)
THEOREM ConsistentAlways == Spec => []RecordsConsistent
BY Invariant, IInvImplies, PTL

(***************************************************************************)
(* No down or recovery alert without a persisted outage of its check.      *)
(***************************************************************************)
THEOREM AlertsAlwaysBacked == Spec => []AlertsBacked
BY Invariant, IInvImplies, PTL

(***************************************************************************)
(* Each step of the handlers, the scheduler or a crash is a step of the    *)
(* abstract store, or leaves the store alone.                              *)
(***************************************************************************)
LEMMA StepIsStoreStep == IInv /\ [Next]_vars => [StoreNext]_storeVars
<1> SUFFICES ASSUME IInv, [Next]_vars, ~UNCHANGED storeVars PROVE StoreNext
    OBVIOUS
<1>1. ASSUME NEW r \in Requests, SaveCheck(r) PROVE StoreNext
  <2> DEFINE q == req[r]
  <2>1. Set(q.check, q.copy) /\ q.copy \in ConsistentRecords
      BY <1>1 DEF SaveCheck, IInv, RequestsInv, LocalsInv
  <2>2. q.check \in DOMAIN checks' /\ checks'[q.check] = q.copy
      BY <2>1 DEF Set, IInv, StoreInv
  <2> QED
      BY <2>1, <2>2 DEF StoreNext, WriteOne
<1>2. ASSUME NEW r \in Requests, CreateStore(r) PROVE StoreNext
  <2>1. PICK c \in Checks : Create(c, req[r].copy)
      BY <1>2 DEF CreateStore
  <2>2. req[r].copy \in ConsistentRecords
      BY <1>2 DEF CreateStore, IInv, RequestsInv, LocalsInv
  <2>3. c \in DOMAIN checks' /\ checks'[c] = req[r].copy
      BY <2>1 DEF Create
  <2> QED
      BY <2>1, <2>2, <2>3 DEF StoreNext, WriteOne
<1>3. ASSUME NEW r \in Requests, Handler(r) PROVE StoreNext
    BY <1>1, <1>2, <1>3
    DEF Handler, PingArrive, PingGet, AlertList, AlertSend, CreateParse,
        UpdateGet, UpdateParse, PauseGet, storeVars
<1>4. ASSUME NEW c \in Checks, DeleteCheck(c) PROVE StoreNext
    BY <1>4 DEF DeleteCheck, StoreNext, Delete
<1>5. CASE Evaluate
  <2>1. PICK failed : Pass(failed)
      BY <1>5 DEF Evaluate
  <2> DEFINE gone == DueChecks \ failed
  <2>2. gone \in SUBSET {c \in DOMAIN checks : checks[c].status = "up"}
      BY DEF DueChecks, Overdue
  <2>3. SetAll([c \in gone |-> MarkDown(checks[c])])
      BY <2>1 DEF Pass
  <2> HIDE DEF gone
  <2> QED
      BY <2>2, <2>3 DEF StoreNext, WriteDown
<1>6. CASE Crash
    BY <1>6 DEF Crash, StoreNext
<1> QED
    BY <1>3, <1>4, <1>5, <1>6
    DEF Next, Scheduler, TickerFires, SchedulerList, SchedulerSend,
        AttachToCheck, DetachFromCheck, WorkerReceive, Tick, vars, storeVars

(***************************************************************************)
(* The handlers and the scheduler implement the abstract store.            *)
(***************************************************************************)
THEOREM StoreImplemented == Spec => ImplementsStore
<1>1. Init => StoreInit
    BY DEF Init
<1> QED
    BY <1>1, Invariant, StepIsStoreStep, PTL
    DEF Spec, ImplementsStore, StoreSpec

(***************************************************************************)
(* A check that was deleted never comes back, stale copies or not.         *)
(***************************************************************************)
THEOREM DeletedStaysDeleted == Spec => NoResurrection
<1> DEFINE Stays == \A c \in issued :
                       c \notin DOMAIN checks => c \notin DOMAIN checks'
<1>1. [StoreNext]_storeVars => Stays
  <2> SUFFICES ASSUME [StoreNext]_storeVars PROVE Stays
      OBVIOUS
  <2>1. CASE WriteOne
      BY <2>1 DEF WriteOne, Create, Set
  <2>2. CASE WriteDown
      BY <2>2 DEF WriteDown, SetAll
  <2>3. CASE \E c \in DOMAIN checks : Delete(c)
      BY <2>3 DEF Delete
  <2>4. CASE Reload
      BY <2>4 DEF Reload
  <2>5. CASE UNCHANGED storeVars
      BY <2>5 DEF storeVars
  <2> QED
      BY <2>1, <2>2, <2>3, <2>4, <2>5 DEF StoreNext
<1>2. IInv /\ [Next]_vars => [Stays]_vars
    BY <1>1, StepIsStoreStep
<1> QED
    BY <1>2, Invariant, PTL DEF Spec, NoResurrection
=============================================================================
