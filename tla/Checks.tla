------------------------------- MODULE Checks -------------------------------
(***************************************************************************)
(* The data of CronMon: the check record, the statuses it moves through,   *)
(* and the pure functions the handlers and the scheduler apply to a copy   *)
(* of it.  No module variable is declared here; the modules that keep      *)
(* checks (CheckStore, StateCache, Monitor) extend this one.               *)
(*                                                                         *)
(* Time is counted in ticks from 0.  SQLite keeps whole seconds only, so a *)
(* second is Second ticks long and a minute a whole number of seconds.  A  *)
(* schedule is abstracted to the distance between two of its run times, or *)
(* Never: all the handlers ask of it is the first run time after an        *)
(* instant.  A time.Duration is a signed integer of limited width.         *)
(*                                                                         *)
(* Name, slug, tags, created_at and updated_at are left out: no decision   *)
(* of the program reads them.                                              *)
(***************************************************************************)
EXTENDS Integers

CONSTANTS
    Checks,        \* the UUIDs uuid.New may return
    Forms,         \* what a valid form may ask for (see FormRecords)
    Second,        \* ticks per second: the precision formatTime keeps
    Minute,        \* ticks per minute
    MaxDuration,   \* the largest time.Duration, in ticks
    MaxTime,       \* bound on the clock
    Nil            \* a nil pointer

Positive == Nat \ {0}

(* The schedule of an expression with no run time in the next five years,  *)
(* which Validate accepts: 0 0 30 2 * is the 30th of February.             *)
Never == 0

(***************************************************************************)
(* Go's zero time, year 1: before every time the clock shows by more than  *)
(* a time.Duration can hold, and a whole second.                           *)
(***************************************************************************)
ZeroTime == -((MaxDuration + 1) * Second)

(* time.Duration(grace) * time.Minute, in two's complement. *)
GraceDuration(grace) ==
    ((grace * Minute + MaxDuration + 1) % (2 * (MaxDuration + 1)))
        - (MaxDuration + 1)

(* What parseCheckForm lets through: a schedule, and a grace of at least a *)
(* minute, in minutes, without an upper bound.                             *)
FormRecords ==
    [schedule : Nat, grace : Positive, notifyOnFail : BOOLEAN]

(***************************************************************************)
(* Of a schedule without run times and a grace that overflows to below     *)
(* zero the deadline may lie before the year 0, which parseTime cannot     *)
(* read back: the next Hydrate fails.  Forms with both are left out.       *)
(***************************************************************************)
ASSUME ReadableAssumption ==
    \A form \in Forms : form.schedule = Never => GraceDuration(form.grace) >= 0

ASSUME FormsAssumption    == Forms \subseteq FormRecords
ASSUME DurationAssumption == MaxDuration \in Nat
ASSUME SecondAssumption   == Second \in Positive
ASSUME MinuteAssumption   == Minute \in Positive /\ Minute % Second = 0
ASSUME MaxTimeAssumption  == MaxTime \in Nat
ASSUME NilAssumption      == /\ Nil \notin Int
                             /\ Nil \notin {"new", "up", "down", "paused"}
                             /\ Nil \notin Checks

-----------------------------------------------------------------------------

Times == 0..MaxTime

Status == {"new", "up", "down", "paused"}

CheckRecords ==
    [schedule       : Nat,
     grace          : Positive,
     notifyOnFail   : BOOLEAN,
     status         : Status,
     prePauseStatus : Status \cup {Nil},
     lastPingAt     : Nat \cup {Nil},
     nextExpectedAt : Int \cup {Nil}]

(***************************************************************************)
(* robfig/cron's Schedule.Next: the first run time strictly after t, or    *)
(* the zero time when it finds none.                                       *)
(***************************************************************************)
NextAfter(schedule, t) ==
    IF schedule = Never THEN ZeroTime
                        ELSE ((t \div schedule) + 1) * schedule

NextExpectedAt(schedule, grace, t) ==
    NextAfter(schedule, t) + GraceDuration(grace)

(***************************************************************************)
(* What a check becomes when it is written to the checks table and read    *)
(* back: formatTime keeps RFC 3339 whole seconds.                          *)
(***************************************************************************)
Truncate(t) == IF t = Nil THEN Nil ELSE t - (t % Second)

StoredWithoutPause(check) ==    \* mutation: pre_pause_status is not read back
    [check EXCEPT !.prePauseStatus = Nil,
                  !.lastPingAt     = Truncate(@),
                  !.nextExpectedAt = Truncate(@)]

Stored(check) ==
    [check EXCEPT !.lastPingAt     = Truncate(@),
                  !.nextExpectedAt = Truncate(@)]

-----------------------------------------------------------------------------
(* The edits the handlers make to their copy of a check. *)

NewCheck(form, now) ==
    [schedule       |-> form.schedule,
     grace          |-> form.grace,
     notifyOnFail   |-> form.notifyOnFail,
     status         |-> "new",
     prePauseStatus |-> Nil,
     lastPingAt     |-> Nil,
     nextExpectedAt |-> NextExpectedAt(form.schedule, form.grace, now)]

AfterStart(check, now) ==
    [check EXCEPT !.nextExpectedAt = now + GraceDuration(check.grace)]

AfterComplete(check, now) ==
    [check EXCEPT
        !.status         = IF @ \in {"new", "down"} THEN "up" ELSE @,
        !.lastPingAt     = now,
        !.nextExpectedAt = NextExpectedAt(check.schedule, check.grace, now)]

AfterUpdate(check, form, now) ==
    LET ref == IF check.lastPingAt = Nil THEN now ELSE check.lastPingAt
    IN  [check EXCEPT
            !.schedule       = form.schedule,
            !.grace          = form.grace,
            !.notifyOnFail   = form.notifyOnFail,
            !.nextExpectedAt = NextExpectedAt(form.schedule, form.grace, ref)]

Paused(check) ==
    [check EXCEPT !.prePauseStatus = check.status, !.status = "paused"]

Unpaused(check) ==
    [check EXCEPT
        !.status = IF check.prePauseStatus # Nil THEN check.prePauseStatus
                                                 ELSE "new",
        !.prePauseStatus = Nil]

TogglePauseKeepingSaved(check) ==    \* mutation: the saved status stays
    IF check.status = "paused"
    THEN [check EXCEPT !.status = check.prePauseStatus]
    ELSE Paused(check)

TogglePause(check) ==
    IF check.status = "paused" THEN Unpaused(check) ELSE Paused(check)

MarkDown(check) == [check EXCEPT !.status = "down"]

OverdueWhateverStatus(check, now) ==    \* mutation: no test for "up"
    check.nextExpectedAt # Nil /\ now > check.nextExpectedAt

(* The scheduler's test: an up check whose deadline is strictly past. *)
Overdue(check, now) ==
    /\ check.status = "up"
    /\ check.nextExpectedAt # Nil
    /\ now > check.nextExpectedAt

-----------------------------------------------------------------------------
(* The status behind a pause, and what the fields of a check owe each other. *)

EffectiveStatus(check) ==
    IF check.status = "paused" THEN check.prePauseStatus ELSE check.status

(***************************************************************************)
(* The relations every check the program stores or holds a copy of obeys,  *)
(* although none is enforced by the schema: a saved status exists exactly  *)
(* while paused and is never itself "paused"; a check is new exactly while *)
(* it has no completed ping; it always has a deadline.                     *)
(***************************************************************************)
Consistent(check) ==
    /\ (check.prePauseStatus # Nil) <=> (check.status = "paused")
    /\ check.prePauseStatus # "paused"
    /\ (check.lastPingAt = Nil) <=> (EffectiveStatus(check) = "new")
    /\ check.nextExpectedAt # Nil

ConsistentRecords == {check \in CheckRecords : Consistent(check)}
=============================================================================
