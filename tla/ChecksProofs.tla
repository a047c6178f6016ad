---------------------------- MODULE ChecksProofs ----------------------------
(***************************************************************************)
(* Every edit the program makes to a check keeps it a check, and keeps the *)
(* relations between its fields.                                           *)
(***************************************************************************)
EXTENDS Checks, TLAPS

(***************************************************************************)
(* The next run time is strictly later than the instant asked about when   *)
(* the schedule has one, and the zero time when it has none.               *)
(***************************************************************************)
LEMMA NextAfterIsLater ==
    ASSUME NEW p \in Nat, NEW t \in Nat
    PROVE  /\ NextAfter(p, t) \in Int
           /\ p # Never => NextAfter(p, t) > t
           /\ p = Never => NextAfter(p, t) = ZeroTime
<1>1. CASE p = Never
  <2>1. ZeroTime \in Int
      BY DurationAssumption, SecondAssumption DEF ZeroTime, Positive
  <2> QED
      BY <1>1, <2>1 DEF NextAfter
<1>2. CASE p # Never
  <2>1. /\ p \in Nat \ {0}
        /\ t \div p \in Nat /\ t % p \in 0..(p - 1)
        /\ t = p * (t \div p) + (t % p)
      BY <1>2 DEF Never
  <2>2. ((t \div p) + 1) * p = p * (t \div p) + p
      BY <2>1
  <2>3. p * (t \div p) \in Nat
      BY <2>1
  <2> QED
      BY <1>2, <2>1, <2>2, <2>3 DEF NextAfter
<1> QED
    BY <1>1, <1>2

(***************************************************************************)
(* A number between -n and n - 1 is its own remainder in two's complement, *)
(* and every remainder lies there.                                         *)
(***************************************************************************)
LEMMA Wraps ==
    ASSUME NEW n \in Nat \ {0}, NEW i \in Int
    PROVE  /\ ((i + n) % (2 * n)) - n \in (-n)..(n - 1)
           /\ i \in (-n)..(n - 1) => ((i + n) % (2 * n)) - n = i
<1> DEFINE w == 2 * n
<1>1. w \in Nat \ {0} /\ i + n \in Int
    OBVIOUS
<1>2. (i + n) % w \in 0..(w - 1)
    BY <1>1
<1>3. ASSUME i \in (-n)..(n - 1) PROVE (i + n) % w = i + n
  <2>1. i + n \in 0..(w - 1)
      BY <1>3
  <2> HIDE DEF w
  <2> QED
      BY <1>1, <2>1
<1> QED
    BY <1>2, <1>3

(***************************************************************************)
(* The grace as a time.Duration: exact when it fits, never longer than the *)
(* longest.                                                                *)
(***************************************************************************)
LEMMA GraceDurationIsExact ==
    ASSUME NEW g \in Positive
    PROVE  /\ GraceDuration(g) \in Int /\ GraceDuration(g) <= MaxDuration
           /\ g * Minute <= MaxDuration => GraceDuration(g) = g * Minute
<1> DEFINE n == MaxDuration + 1
           i == g * Minute
<1>1. n \in Nat \ {0} /\ i \in Nat
    BY DurationAssumption, MinuteAssumption DEF Positive
<1>2. GraceDuration(g) = ((i + n) % (2 * n)) - n
    BY <1>1, DurationAssumption DEF GraceDuration
<1>3. i <= MaxDuration => i \in (-n)..(n - 1)
    BY <1>1, DurationAssumption
<1> HIDE DEF n, i
<1>4. GraceDuration(g) \in (-n)..(n - 1)
    BY <1>1, <1>2, Wraps
<1>5. ASSUME i <= MaxDuration PROVE GraceDuration(g) = i
  <2>1. i \in (-n)..(n - 1) /\ i \in Int
      BY <1>1, <1>3, <1>5
  <2>2. ((i + n) % (2 * n)) - n = i
      BY <1>1, <2>1, Wraps
  <2> QED
      BY <1>2, <2>2
<1> QED
    BY <1>1, <1>4, <1>5, DurationAssumption DEF n, i

(***************************************************************************)
(* A deadline leaves more than the whole grace after the instant it is     *)
(* computed from, if there is a run time and the grace fits a duration.    *)
(* Without a run time it is before every time the clock can show.          *)
(***************************************************************************)
LEMMA DeadlineLeavesGrace ==
    ASSUME NEW p \in Nat, NEW g \in Positive, NEW t \in Nat
    PROVE  /\ NextExpectedAt(p, g, t) \in Int
           /\ p # Never /\ g * Minute <= MaxDuration
                 => NextExpectedAt(p, g, t) > t + g * Minute
           /\ p = Never => NextExpectedAt(p, g, t) < 0
<1>1. /\ NextAfter(p, t) \in Int
      /\ p # Never => NextAfter(p, t) > t
      /\ p = Never => NextAfter(p, t) = ZeroTime
    BY NextAfterIsLater
<1>2. /\ GraceDuration(g) \in Int /\ GraceDuration(g) <= MaxDuration
      /\ g * Minute <= MaxDuration => GraceDuration(g) = g * Minute
    BY GraceDurationIsExact
<1>3. ZeroTime \in Int /\ ZeroTime <= -(MaxDuration + 1)
  <2>1. (MaxDuration + 1) * Second >= MaxDuration + 1
      BY DurationAssumption, SecondAssumption DEF Positive
  <2> QED
      BY <2>1, DurationAssumption, SecondAssumption DEF ZeroTime, Positive
<1>4. NextExpectedAt(p, g, t) = NextAfter(p, t) + GraceDuration(g)
    BY DEF NextExpectedAt
<1>5. g * Minute \in Nat
    BY MinuteAssumption DEF Positive
<1> QED
    BY <1>1, <1>2, <1>3, <1>4, <1>5, DurationAssumption

(***************************************************************************)
(* Writing a time to the table and reading it back moves it less than a    *)
(* second, and never forward.                                              *)
(***************************************************************************)
LEMMA TruncateIsTime ==
    ASSUME NEW t \in Int
    PROVE  /\ Truncate(t) \in Int
           /\ t \in Nat => Truncate(t) \in Nat
           /\ Truncate(t) <= t /\ t < Truncate(t) + Second
<1>1. t % Second \in 0..(Second - 1)
    BY SecondAssumption DEF Positive
<1>2. t \in Nat => t % Second <= t
    BY SecondAssumption DEF Positive
<1>3. t # Nil
    BY NilAssumption
<1> QED
    BY <1>1, <1>2, <1>3, SecondAssumption DEF Truncate, Positive

-----------------------------------------------------------------------------

(***************************************************************************)
(* HandleCreate builds a consistent check, which is new.                   *)
(***************************************************************************)
LEMMA NewCheckConsistent ==
    ASSUME NEW form \in Forms, NEW t \in Nat
    PROVE  /\ NewCheck(form, t) \in ConsistentRecords
           /\ EffectiveStatus(NewCheck(form, t)) = "new"
<1>1. form \in FormRecords
    BY FormsAssumption
<1>2. NextExpectedAt(form.schedule, form.grace, t) \in Int
    BY <1>1, DeadlineLeavesGrace DEF FormRecords
<1> QED
    BY <1>1, <1>2, NilAssumption
    DEF NewCheck, ConsistentRecords, CheckRecords, Consistent,
        EffectiveStatus, FormRecords, Status

(***************************************************************************)
(* A start ping keeps a check consistent and its status as it is.          *)
(***************************************************************************)
LEMMA AfterStartConsistent ==
    ASSUME NEW check \in ConsistentRecords, NEW t \in Nat
    PROVE  /\ AfterStart(check, t) \in ConsistentRecords
           /\ EffectiveStatus(AfterStart(check, t)) = EffectiveStatus(check)
<1>1. GraceDuration(check.grace) \in Int
    BY GraceDurationIsExact DEF ConsistentRecords, CheckRecords
<1> DEFINE next == t + GraceDuration(check.grace)
<1>2. next \in Int /\ next # Nil
    BY <1>1, NilAssumption
<1>3. AfterStart(check, t) = [check EXCEPT !.nextExpectedAt = next]
    BY DEF AfterStart
<1> HIDE DEF next
<1>4. AfterStart(check, t) \in CheckRecords
    BY <1>2, <1>3 DEF ConsistentRecords, CheckRecords
<1> QED
    BY <1>2, <1>3, <1>4
    DEF ConsistentRecords, CheckRecords, Consistent, EffectiveStatus

(***************************************************************************)
(* A success or fail ping leaves a check that is not paused up, with a     *)
(* last ping.                                                              *)
(***************************************************************************)
LEMMA AfterCompleteConsistent ==
    ASSUME NEW check \in ConsistentRecords, check.status # "paused",
           NEW t \in Nat
    PROVE  /\ AfterComplete(check, t) \in ConsistentRecords
           /\ EffectiveStatus(AfterComplete(check, t)) = "up"
<1>1. NextExpectedAt(check.schedule, check.grace, t) \in Int
    BY DeadlineLeavesGrace DEF ConsistentRecords, CheckRecords
<1> DEFINE next == NextExpectedAt(check.schedule, check.grace, t)
<1>2. next \in Int /\ next # Nil /\ t # Nil
    BY <1>1, NilAssumption
<1>3. check.status \in {"new", "down", "up"}
    BY DEF ConsistentRecords, CheckRecords, Status
<1>4. AfterComplete(check, t) = [check EXCEPT !.status = "up",
                                              !.lastPingAt = t,
                                              !.nextExpectedAt = next]
    BY <1>3 DEF AfterComplete, ConsistentRecords, CheckRecords
<1> HIDE DEF next
<1>5. AfterComplete(check, t) \in CheckRecords
    BY <1>2, <1>4 DEF ConsistentRecords, CheckRecords, Status
<1>6. check.prePauseStatus = Nil
    BY <1>3 DEF ConsistentRecords, Consistent
<1>7. /\ AfterComplete(check, t).status = "up"
      /\ AfterComplete(check, t).prePauseStatus = Nil
      /\ AfterComplete(check, t).lastPingAt = t
      /\ AfterComplete(check, t).nextExpectedAt = next
    BY <1>4, <1>6 DEF ConsistentRecords, CheckRecords
<1>8. Nil # "paused"
    BY NilAssumption
<1> QED
    BY <1>2, <1>5, <1>7, <1>8
    DEF ConsistentRecords, Consistent, EffectiveStatus

(***************************************************************************)
(* HandleUpdate changes schedule, grace, opt-in and deadline only.         *)
(***************************************************************************)
LEMMA AfterUpdateConsistent ==
    ASSUME NEW check \in ConsistentRecords, NEW form \in Forms, NEW t \in Nat
    PROVE  /\ AfterUpdate(check, form, t) \in ConsistentRecords
           /\ EffectiveStatus(AfterUpdate(check, form, t))
                 = EffectiveStatus(check)
<1> DEFINE ref == IF check.lastPingAt = Nil THEN t ELSE check.lastPingAt
<1>1. form \in FormRecords
    BY FormsAssumption
<1>2. ref \in Nat
    BY DEF ConsistentRecords, CheckRecords
<1>3. NextExpectedAt(form.schedule, form.grace, ref) \in Int
    BY <1>1, <1>2, DeadlineLeavesGrace DEF FormRecords
<1> DEFINE next == NextExpectedAt(form.schedule, form.grace, ref)
<1>4. next \in Int /\ next # Nil
    BY <1>3, NilAssumption
<1>5. AfterUpdate(check, form, t) =
         [check EXCEPT !.schedule       = form.schedule,
                       !.grace          = form.grace,
                       !.notifyOnFail   = form.notifyOnFail,
                       !.nextExpectedAt = next]
    BY DEF AfterUpdate
<1> HIDE DEF next, ref
<1>6. AfterUpdate(check, form, t) \in CheckRecords
    BY <1>1, <1>4, <1>5 DEF ConsistentRecords, CheckRecords, FormRecords
<1>7. /\ AfterUpdate(check, form, t).status = check.status
      /\ AfterUpdate(check, form, t).prePauseStatus = check.prePauseStatus
      /\ AfterUpdate(check, form, t).lastPingAt = check.lastPingAt
      /\ AfterUpdate(check, form, t).nextExpectedAt = next
    BY <1>5 DEF ConsistentRecords, CheckRecords
<1> QED
    BY <1>4, <1>6, <1>7 DEF ConsistentRecords, Consistent, EffectiveStatus

(***************************************************************************)
(* Pausing and unpausing keep the status behind the pause; the branch of   *)
(* HandlePause for a missing pre-pause status is never needed.             *)
(***************************************************************************)
LEMMA TogglePauseConsistent ==
    ASSUME NEW check \in ConsistentRecords
    PROVE  /\ TogglePause(check) \in ConsistentRecords
           /\ EffectiveStatus(TogglePause(check)) = EffectiveStatus(check)
<1>1. CASE check.status = "paused"
    BY <1>1, NilAssumption
    DEF TogglePause, Unpaused, ConsistentRecords, CheckRecords, Consistent,
        EffectiveStatus, Status
<1>2. CASE check.status # "paused"
    BY <1>2, NilAssumption
    DEF TogglePause, Paused, ConsistentRecords, CheckRecords, Consistent,
        EffectiveStatus, Status
<1> QED
    BY <1>1, <1>2

(***************************************************************************)
(* The scheduler only marks up checks, and leaves them consistent.         *)
(***************************************************************************)
LEMMA MarkDownConsistent ==
    ASSUME NEW check \in ConsistentRecords, check.status = "up"
    PROVE  /\ MarkDown(check) \in ConsistentRecords
           /\ EffectiveStatus(MarkDown(check)) = "down"
BY NilAssumption
DEF MarkDown, ConsistentRecords, CheckRecords, Consistent, EffectiveStatus,
    Status

(***************************************************************************)
(* A restart keeps every check consistent and its status as it was.        *)
(***************************************************************************)
LEMMA StoredConsistent ==
    ASSUME NEW check \in ConsistentRecords
    PROVE  /\ Stored(check) \in ConsistentRecords
           /\ EffectiveStatus(Stored(check)) = EffectiveStatus(check)
<1>1. check.lastPingAt \in Nat \cup {Nil} /\ check.nextExpectedAt \in Int \cup {Nil}
    BY DEF ConsistentRecords, CheckRecords
<1>2. /\ Truncate(check.lastPingAt) \in Nat \cup {Nil}
      /\ Truncate(check.lastPingAt) = Nil <=> check.lastPingAt = Nil
  <2>1. CASE check.lastPingAt = Nil
      BY <2>1 DEF Truncate
  <2>2. CASE check.lastPingAt \in Nat
      BY <2>2, TruncateIsTime, NilAssumption
  <2> QED
      BY <1>1, <2>1, <2>2
<1>3. /\ Truncate(check.nextExpectedAt) \in Int \cup {Nil}
      /\ Truncate(check.nextExpectedAt) = Nil <=> check.nextExpectedAt = Nil
  <2>1. CASE check.nextExpectedAt = Nil
      BY <2>1 DEF Truncate
  <2>2. CASE check.nextExpectedAt \in Int
      BY <2>2, TruncateIsTime, NilAssumption
  <2> QED
      BY <1>1, <2>1, <2>2
<1> QED
    BY <1>2, <1>3
    DEF Stored, ConsistentRecords, CheckRecords, Consistent, EffectiveStatus,
        Status

(***************************************************************************)
(* What a completed ping buys a check that is not paused: whatever its     *)
(* status was, the scheduler will not find it overdue before the whole     *)
(* grace is over, in the running process or, less a second, after a        *)
(* restart; provided the schedule has a run time and the grace fits a      *)
(* time.Duration.  Without a run time it buys nothing: the check is        *)
(* overdue at once.                                                        *)
(***************************************************************************)
THEOREM PingBuysGrace ==
    ASSUME NEW check \in ConsistentRecords, check.status # "paused",
           NEW t \in Nat
    PROVE  LET pinged == AfterComplete(check, t)
               g      == check.grace * Minute
           IN  /\ check.schedule # Never /\ g <= MaxDuration =>
                    /\ \A now \in Nat : now <= t + g => ~Overdue(pinged, now)
                    /\ \A now \in Nat :
                          now + Second <= t + g => ~Overdue(Stored(pinged), now)
               /\ check.schedule = Never =>
                    \A now \in Nat : /\ Overdue(pinged, now)
                                     /\ Overdue(Stored(pinged), now)
<1> DEFINE pinged == AfterComplete(check, t)
           g      == check.grace * Minute
           next   == NextExpectedAt(check.schedule, check.grace, t)
           kept   == Truncate(next)
<1>1. /\ check.schedule \in Nat /\ check.grace \in Positive
      /\ check.status \in {"new", "up", "down"}
    BY DEF ConsistentRecords, CheckRecords, Status
<1>2. /\ next \in Int /\ g \in Nat
      /\ check.schedule # Never /\ g <= MaxDuration => next > t + g
      /\ check.schedule = Never => next < 0
  <2>1. g \in Nat
      BY <1>1, MinuteAssumption DEF Positive
  <2> QED
      BY <1>1, <2>1, DeadlineLeavesGrace
<1>3. kept \in Int /\ kept <= next /\ next < kept + Second
    BY <1>2, TruncateIsTime
<1>4. pinged.status = "up" /\ pinged.nextExpectedAt = next
    BY <1>1 DEF AfterComplete, ConsistentRecords, CheckRecords
<1>5. Stored(pinged).status = "up" /\ Stored(pinged).nextExpectedAt = kept
  <2>1. pinged \in CheckRecords
      BY AfterCompleteConsistent DEF ConsistentRecords
  <2> HIDE DEF pinged, next
  <2> QED
      BY <1>4, <2>1 DEF Stored, CheckRecords
<1>6. next # Nil /\ kept # Nil
    BY <1>2, <1>3, NilAssumption
<1>7. Second \in Nat
    BY SecondAssumption DEF Positive
<1> HIDE DEF pinged, next, kept, g
<1>8. /\ \A now \in Nat : Overdue(pinged, now) <=> now > next
      /\ \A now \in Nat : Overdue(Stored(pinged), now) <=> now > kept
    BY <1>4, <1>5, <1>6 DEF Overdue
<1>9. ASSUME check.schedule # Never, g <= MaxDuration
      PROVE  /\ \A now \in Nat : now <= t + g => ~Overdue(pinged, now)
             /\ \A now \in Nat :
                   now + Second <= t + g => ~Overdue(Stored(pinged), now)
    BY <1>2, <1>3, <1>7, <1>8, <1>9
<1>10. ASSUME check.schedule = Never
       PROVE  \A now \in Nat : /\ Overdue(pinged, now)
                               /\ Overdue(Stored(pinged), now)
    BY <1>2, <1>3, <1>8, <1>10
<1> QED
    BY <1>9, <1>10 DEF pinged, g
=============================================================================
