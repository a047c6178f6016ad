----------------------------- MODULE PingHistory ----------------------------
(***************************************************************************)
(* The pings table and what it has to do with last_ping_at: the ping       *)
(* handlers, which save the check first and insert the ping afterwards,    *)
(* the handlers that save a copy of the check for other reasons, and the   *)
(* scheduler's hourly cleanup, which prunes one check after another from a *)
(* snapshot taken when it began, and the dashboard's page of one check,    *)
(* which reads the check and then its latest pings.  The process may end   *)
(* between any two of these steps and another one takes over the tables.   *)
(*                                                                         *)
(* A ping's time is the handler's, read on arrival and kept to the second; *)
(* its id is the order of the inserts.  The two orders may differ.         *)
(***************************************************************************)
EXTENDS Integers, FiniteSets

CONSTANTS
    Checks,
    Requests,
    KeepN,       \* how many pings cleanup keeps per check (1000)
    GridSize,    \* how many pings the page shows (30)
    Second,      \* ticks per second
    MaxTime,     \* bound on the clock
    MaxPings,    \* bound on the inserts
    Nil

ASSUME KeepNAssumption    == KeepN \in Nat \ {0}
ASSUME GridAssumption     == GridSize \in 1..KeepN
ASSUME SecondAssumption   == Second \in Nat \ {0}
ASSUME MaxTimeAssumption  == MaxTime \in Nat
ASSUME MaxPingsAssumption == MaxPings \in Nat
ASSUME NilAssumption      == Nil \notin Checks \cup Nat
ASSUME NilPingAssumption  == Nil \notin [id : Nat, check : Checks, at : Nat]

VARIABLES
    now,
    checkRows,    \* the checks that exist
    lastPingAt,   \* check -> last_ping_at, Nil without a completed ping
    pings,        \* rows of the pings table
    lastId,       \* the table's AUTOINCREMENT counter
    req,          \* request -> the goroutine serving it
    cleanup,      \* the checks cleanupOldPings has yet to prune
    page,         \* the request for the page of one check
    lost,         \* history: check -> times of pings never recorded
    since         \* history: check -> pings recorded since it was last pruned

vars == <<now, checkRows, lastPingAt, pings, lastId, req, cleanup, page, lost,
          since>>

Pings == [id : 1..MaxPings, check : Checks, at : 0..MaxTime]

(***************************************************************************)
(* A request is a success or fail ping ("complete"), a start ping, or an   *)
(* edit (update, pause); lastPing is last_ping_at in its copy of the check.*)
(***************************************************************************)
RequestRecords ==
    [pc : {"idle", "get", "set", "record"}, check : Checks \cup {Nil},
     kind : {"complete", "start", "edit"}, at : 0..MaxTime,
     lastPing : 0..MaxTime \cup {Nil}]

Idle == [pc |-> "idle", check |-> Nil, kind |-> "edit", at |-> 0,
         lastPing |-> Nil]

(***************************************************************************)
(* The page: open from cache.Get, which returned the check with lastPing,  *)
(* to the query for its pings.                                             *)
(***************************************************************************)
PageRecords ==
    [open : BOOLEAN, check : Checks \cup {Nil},
     lastPing : 0..MaxTime \cup {Nil}]

Closed == [open |-> FALSE, check |-> Nil, lastPing |-> Nil]

(* The foreign key and the uniqueness of ids are part of the type. *)
TypeOK ==
    /\ now \in 0..MaxTime
    /\ checkRows \subseteq Checks
    /\ lastPingAt \in [Checks -> 0..MaxTime \cup {Nil}]
    /\ pings \subseteq Pings
    /\ \A p \in pings : p.id <= lastId /\ p.check \in checkRows
    /\ \A p, q \in pings : p.id = q.id => p = q
    /\ lastId \in 0..MaxPings
    /\ req \in [Requests -> RequestRecords]
    /\ cleanup \subseteq Checks
    /\ page \in PageRecords
    /\ lost \in [Checks -> SUBSET (0..MaxTime)]
    /\ since \in [Checks -> Nat]

Init ==
    /\ now = 0
    /\ checkRows = Checks
    /\ lastPingAt = [c \in Checks |-> Nil]
    /\ pings = {}
    /\ lastId = 0
    /\ req = [r \in Requests |-> Idle]
    /\ cleanup = {}
    /\ page = Closed
    /\ lost = [c \in Checks |-> {}]
    /\ since = [c \in Checks |-> 0]

PingsOf(c)  == {p \in pings : p.check = c}
Truncate(t) == t - (t % Second)

-----------------------------------------------------------------------------
(* The ping handlers. *)

Go(r, locals) == req' = [req EXCEPT ![r] = locals]

reqOnly == UNCHANGED <<now, checkRows, cleanup, page>>

Arrive(r) ==
    /\ req[r].pc = "idle"
    /\ \E c \in Checks, kind \in {"complete", "start"} :
          Go(r, [Idle EXCEPT !.pc = "get", !.check = c, !.at = now,
                             !.kind = kind])
    /\ reqOnly /\ UNCHANGED <<lastPingAt, pings, lastId, lost, since>>

(* An unknown check, or one that is paused, ends the request. *)
Get(r) ==
    LET q == req[r]
    IN  /\ q.pc = "get"
        /\ \/ /\ q.check \in checkRows
              /\ Go(r, [q EXCEPT !.pc = "set",
                                 !.lastPing = IF q.kind = "complete"
                                              THEN q.at
                                              ELSE lastPingAt[q.check]])
           \/ Go(r, Idle)
        /\ reqOnly /\ UNCHANGED <<lastPingAt, pings, lastId, lost, since>>

(* HandleUpdate and HandlePause copy the check and touch other fields. *)
EditGet(r) ==
    /\ req[r].pc = "idle"
    /\ \E c \in checkRows :
          Go(r, [Idle EXCEPT !.pc = "set", !.check = c,
                             !.lastPing = lastPingAt[c]])
    /\ reqOnly /\ UNCHANGED <<lastPingAt, pings, lastId, lost, since>>

(* cache.Set writes the whole copy; a ping is recorded even if it fails. *)
Set(r) ==
    LET q == req[r]
    IN  /\ q.pc = "set"
        /\ Go(r, IF q.kind = "edit" THEN Idle ELSE [q EXCEPT !.pc = "record"])
        /\ \/ /\ q.check \in checkRows
              /\ lastPingAt' = [lastPingAt EXCEPT ![q.check] = q.lastPing]
           \/ UNCHANGED lastPingAt
        /\ reqOnly /\ UNCHANGED <<pings, lastId, lost, since>>

Insert(c, at) ==
    /\ lastId < MaxPings
    /\ lastId' = lastId + 1
    /\ pings' = pings \cup {[id |-> lastId + 1, check |-> c,
                             at |-> Truncate(at)]}
    /\ since' = [since EXCEPT ![c] = @ + 1]

Lose(c, at) == lost' = [lost EXCEPT ![c] = @ \cup {at}]

RecordUnchecked(r) ==    \* mutation: the foreign key is not enforced
    LET q == req[r]
    IN  /\ q.pc = "record"
        /\ Go(r, Idle)
        /\ \/ /\ Insert(q.check, q.at)
              /\ UNCHANGED lost
           \/ /\ Lose(q.check, q.at)
              /\ UNCHANGED <<pings, lastId, since>>
        /\ reqOnly /\ UNCHANGED lastPingAt

(* pingRepo.Create; an error, such as a check deleted since, is logged. *)
Record(r) ==
    LET q == req[r]
    IN  /\ q.pc = "record"
        /\ Go(r, Idle)
        /\ \/ /\ q.check \in checkRows
              /\ Insert(q.check, q.at)
              /\ UNCHANGED lost
           \/ /\ Lose(q.check, q.at)
              /\ UNCHANGED <<pings, lastId, since>>
        /\ reqOnly /\ UNCHANGED lastPingAt

-----------------------------------------------------------------------------
(* Cleanup. *)

cleanupOnly ==
    UNCHANGED <<now, checkRows, lastPingAt, lastId, req, page, lost>>

(* The cleanup ticker fires: Snapshot. *)
CleanupOldPings ==
    /\ cleanup = {}
    /\ cleanup' = checkRows
    /\ cleanupOnly /\ UNCHANGED <<pings, since>>

(* ORDER BY created_at DESC, id DESC. *)
Newer(p, q) == p.at > q.at \/ (p.at = q.at /\ p.id > q.id)

NewestOldestFirst(c, n) ==    \* mutation: ORDER BY created_at ASC
    {p \in PingsOf(c) : Cardinality({q \in PingsOf(c) : Newer(p, q)}) < n}

NewestByInsertion(c, n) ==    \* mutation: ORDER BY id DESC
    {p \in PingsOf(c) : Cardinality({q \in PingsOf(c) : q.id > p.id}) < n}

NewestOneMore(c, n) ==    \* mutation: an off-by-one in LIMIT
    {p \in PingsOf(c) : Cardinality({q \in PingsOf(c) : Newer(q, p)}) <= n}

Newest(c, n) ==
    {p \in PingsOf(c) : Cardinality({q \in PingsOf(c) : Newer(q, p)}) < n}

(* DeleteOldest for one check of the snapshot; an error skips the check. *)
DeleteOldest ==
    \E c \in cleanup :
        /\ cleanup' = cleanup \ {c}
        /\ \/ /\ pings' = (pings \ PingsOf(c)) \cup Newest(c, KeepN)
              /\ since' = [since EXCEPT ![c] = 0]
           \/ UNCHANGED <<pings, since>>
        /\ cleanupOnly

-----------------------------------------------------------------------------
(***************************************************************************)
(* The page of one check.  Channels and notifications, which the page also *)
(* reads, take no part here.                                               *)
(***************************************************************************)

pageOnly ==
    UNCHANGED <<now, checkRows, lastPingAt, pings, lastId, req, cleanup, lost,
                since>>

(* cache.Get; without a check there is no page. *)
PageGet ==
    /\ ~page.open
    /\ \E c \in checkRows :
          page' = [open |-> TRUE, check |-> c, lastPing |-> lastPingAt[c]]
    /\ pageOnly

RowByInsertion(c, i) ==    \* mutation: ORDER BY id DESC
    {p \in PingsOf(c) : Cardinality({q \in PingsOf(c) : q.id > p.id}) = i - 1}

(* Row i of ListByCheckID, if there is one: the ping with i - 1 newer ones. *)
Row(c, i) ==
    {p \in PingsOf(c) : Cardinality({q \in PingsOf(c) : Newer(q, p)}) = i - 1}

The(row) == CHOOSE p \in row : TRUE

(***************************************************************************)
(* buildPingSquares, of what ListByCheckID returns now: the newest ping in *)
(* the last square, empty squares (Nil) in front.                          *)
(***************************************************************************)
Squares(c) ==
    [i \in 1..GridSize |->
        LET row == Row(c, GridSize - i + 1)
        IN  IF row = {} THEN Nil ELSE The(row)]

(* The query; the page then shows Squares(page.check), or an error. *)
PageList ==
    /\ page.open
    /\ page' = Closed
    /\ pageOnly

-----------------------------------------------------------------------------

(* cache.Delete; the check's pings go by cascade. *)
DeleteCheck(c) ==
    /\ c \in checkRows
    /\ checkRows' = checkRows \ {c}
    /\ pings' = pings \ PingsOf(c)
    /\ UNCHANGED <<now, lastPingAt, lastId, req, cleanup, page, lost, since>>

UnderWay(c) == {r \in Requests : req[r].pc = "record" /\ req[r].check = c}

(***************************************************************************)
(* The process ends, killed or having shut down, with whatever its         *)
(* handlers had still to do, and another one starts: what was in memory is *)
(* read from the checks table, where times are kept to the second.         *)
(***************************************************************************)
Restart ==
    /\ req' = [r \in Requests |-> Idle]
    /\ cleanup' = {}
    /\ page' = Closed
    /\ lastPingAt' = [c \in Checks |->
                         IF lastPingAt[c] = Nil THEN Nil
                         ELSE Truncate(lastPingAt[c])]
    /\ lost' = [c \in Checks |-> lost[c] \cup {req[r].at : r \in UnderWay(c)}]
    /\ UNCHANGED <<now, checkRows, pings, lastId, since>>

Tick ==
    /\ now < MaxTime
    /\ now' = now + 1
    /\ UNCHANGED <<checkRows, lastPingAt, pings, lastId, req, cleanup, page,
                   lost, since>>

Next ==
    \/ \E r \in Requests :
          Arrive(r) \/ Get(r) \/ EditGet(r) \/ Set(r) \/ Record(r)
    \/ CleanupOldPings \/ DeleteOldest
    \/ PageGet \/ PageList
    \/ \E c \in Checks : DeleteCheck(c)
    \/ Restart
    \/ Tick

Spec == Init /\ [][Next]_vars

-----------------------------------------------------------------------------
(* Properties. *)

(***************************************************************************)
(* The history falls behind last_ping_at only by a ping that was never     *)
(* recorded: what a check says of its last ping is explained by a ping at  *)
(* least as new that the table still has, or a handler is about to insert, *)
(* or whose insert was refused or cut off by the end of the process.       *)
(* Copies written back late and cleanup passes in between do not break it. *)
(***************************************************************************)
HistoryCoversLastPing ==
    \A c \in checkRows :
        lastPingAt[c] # Nil =>
            \/ \E p \in PingsOf(c) : p.at >= Truncate(lastPingAt[c])
            \/ \E r \in Requests : /\ req[r].pc = "record"
                                   /\ req[r].check = c
                                   /\ req[r].at >= lastPingAt[c]
            \/ \E t \in lost[c] : t >= lastPingAt[c]

(***************************************************************************)
(* The table stays bounded: a check has KeepN pings and those recorded     *)
(* since it was last pruned, no more, whatever is inserted or deleted      *)
(* between the snapshot of a pass and its last statement.                  *)
(***************************************************************************)
PrunedStaysBounded ==
    \A c \in checkRows : Cardinality(PingsOf(c)) <= KeepN + since[c]

(***************************************************************************)
(* Cleanup never takes a ping off the page: what a page opened before a    *)
(* DELETE of the hourly pass would show, it shows after it, because        *)
(* retention and the page agree on which pings are the newest.             *)
(***************************************************************************)
CleanupLeavesThePage ==
    [][DeleteOldest => \A c \in checkRows : Squares(c) = Squares(c)']_vars

(***************************************************************************)
(* The page does not contradict itself: although the check is read before  *)
(* the pings, and pings are pruned and inserted in between, its last       *)
(* square is at least as new as its "last ping", unless that ping's insert *)
(* is still to come or was never done, or the check has been deleted.      *)
(***************************************************************************)
PageExplainsLastPing ==
    page.open /\ page.lastPing # Nil /\ page.check \in checkRows =>
        \/ LET newest == Squares(page.check)[GridSize]
           IN  newest # Nil /\ newest.at >= Truncate(page.lastPing)
        \/ \E r \in Requests : /\ req[r].pc = "record"
                               /\ req[r].check = page.check
                               /\ req[r].at >= page.lastPing
        \/ \E t \in lost[page.check] : t >= page.lastPing
=============================================================================
