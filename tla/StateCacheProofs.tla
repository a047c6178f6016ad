-------------------------- MODULE StateCacheProofs --------------------------
(***************************************************************************)
(* StateCache implements CheckStore, for any sets of checks and callers,   *)
(* any inputs, any precision of times and any number of crashes.           *)
(***************************************************************************)
EXTENDS StateCache, ChecksProofs

Writing  == {"lock", "drain", "next", "exec", "stmt", "map"}
Critical == {"next", "exec", "stmt", "map"}

Up == {c \in DOMAIN cache : cache[c].status = "up"}

(* Who holds the write lock, the read lock and the connection. *)
LocksInv ==
    /\ ~hydrated => \A p \in Callers : call[p] = Idle
    /\ \A p \in Callers :
          /\ writer = p <=> call[p].pc \in Critical \cup {"drain"}
          /\ p \in readers <=> At(p, "read")
          /\ conn = p <=> call[p].pc \in {"stmt", "busy"}
          /\ call[p].pc \in Critical => readers = {}

Creating(p) == call[p].pc \in Writing /\ call[p].op = "create"

(* What the locals of a call promise; a pass knows the checks it has still *)
(* to write to be up in the map.                                           *)
LocalsInv(p) ==
    /\ call[p].pc \in Writing => call[p].op \in Writes
    /\ call[p].pc = "next" => call[p].op = "pass"
    /\ call[p].pc \in Writing /\ call[p].op # "pass" => call[p].check \in Checks
    /\ call[p].pc \in Writing /\ call[p].op \in {"set", "create"} =>
          call[p].arg \in Inputs
    /\ Creating(p) /\ call[p].pc # "map" => call[p].check \notin issued
    /\ Creating(p) => \A q \in Callers \ {p} :
                         Creating(q) => call[q].check # call[p].check
    /\ call[p].pc = "next" => call[p].todo \subseteq Up
    /\ call[p].pc \in {"exec", "stmt", "map"} /\ call[p].op = "pass" =>
          /\ call[p].check \in Up
          /\ call[p].arg = MarkDown(cache[call[p].check])
          /\ call[p].todo \subseteq Up \ {call[p].check}

(* The table is the store, but for the fraction of a second. *)
Matches(table, map) ==
    /\ DOMAIN table = DOMAIN map
    /\ \A c \in DOMAIN map : table[c] = Stored(map[c])

CoherenceInv ==
    /\ Matches(rows, AbstractChecks)
    /\ Matches(rows, rows)

IInv ==
    /\ TypeOK
    /\ LocksInv
    /\ \A p \in Callers : LocalsInv(p)
    /\ CoherenceInv

-----------------------------------------------------------------------------
(* Records and maps. *)

LEMMA Distributes ==
    ASSUME NEW a \in Int, NEW b \in Int, NEW c \in Int
    PROVE  a * (b - c) = a * b - a * c
OBVIOUS

LEMMA TruncateTwice ==
    ASSUME NEW t \in Int
    PROVE  Truncate(Truncate(t)) = Truncate(t)
<1> DEFINE q == t \div Second
<1>1. /\ Second \in Nat \ {0} /\ q \in Int
      /\ t % Second \in 0..(Second - 1) /\ t = Second * q + (t % Second)
    BY SecondAssumption DEF Positive
<1>2. Truncate(t) = Second * q /\ Truncate(t) \in Int
    BY <1>1, NilAssumption, TruncateIsTime DEF Truncate
<1> HIDE DEF q
<1> DEFINE u == Second * q
<1>3. u % Second = 0
  <2> DEFINE r == u % Second
             k == u \div Second
  <2>1. k \in Int /\ r \in 0..(Second - 1) /\ u = Second * k + r
      BY <1>1, <1>2
  <2> HIDE DEF r, k
  <2>2. Second * (q - k) = r
    <3>1. Second * (q - k) = Second * q - Second * k
        BY <1>1, <2>1, Distributes
    <3>2. Second * q \in Int /\ Second * k \in Int
        BY <1>1, <2>1
    <3> QED
        BY <2>1, <3>1, <3>2
  <2>3. CASE q - k >= 1
    <3>1. Second * (q - k) >= Second
        BY <1>1, <2>1, <2>3
    <3> QED
        BY <1>1, <2>1, <2>2, <3>1
  <2>4. CASE q - k <= -1
    <3>1. Second * (q - k) < 0
        BY <1>1, <2>1, <2>4
    <3> QED
        BY <1>1, <2>1, <2>2, <3>1
  <2>5. CASE q = k
    <3>1. r = 0
        BY <1>1, <2>1, <2>2, <2>5
    <3> QED
        BY <3>1 DEF r
  <2> QED
      BY <1>1, <2>1, <2>3, <2>4, <2>5
<1> QED
    BY <1>2, <1>3, NilAssumption DEF Truncate

LEMMA StoredType ==
    ASSUME NEW check \in CheckRecords
    PROVE  Stored(check) \in CheckRecords /\ Stored(Stored(check)) = Stored(check)
<1>1. \A t \in Int \cup {Nil} : /\ Truncate(t) \in Int \cup {Nil}
                                /\ t \in Nat => Truncate(t) \in Nat
                                /\ Truncate(Truncate(t)) = Truncate(t)
  <2>1. Truncate(Nil) = Nil /\ Nil \notin Nat
      BY NilAssumption DEF Truncate
  <2>2. \A t \in Int : /\ Truncate(t) \in Int
                       /\ t \in Nat => Truncate(t) \in Nat
                       /\ Truncate(Truncate(t)) = Truncate(t)
      BY TruncateIsTime, TruncateTwice
  <2> QED
      BY <2>1, <2>2
<1> DEFINE l == Truncate(check.lastPingAt)
           n == Truncate(check.nextExpectedAt)
<1>2. /\ l \in Nat \cup {Nil} /\ Truncate(l) = l
      /\ n \in Int \cup {Nil} /\ Truncate(n) = n
  <2>1. /\ check.lastPingAt \in Nat \cup {Nil}
        /\ check.nextExpectedAt \in Int \cup {Nil}
      BY DEF CheckRecords
  <2>2. Truncate(Nil) = Nil
      BY DEF Truncate
  <2> QED
      BY <1>1, <2>1, <2>2
<1>3. Stored(check) = [check EXCEPT !.lastPingAt = l, !.nextExpectedAt = n]
    BY DEF Stored
<1> HIDE DEF l, n
<1>4. /\ Stored(check) \in CheckRecords
      /\ Stored(check).lastPingAt = l /\ Stored(check).nextExpectedAt = n
    BY <1>2, <1>3 DEF CheckRecords
<1>5. Stored(Stored(check))
         = [Stored(check) EXCEPT !.lastPingAt = l, !.nextExpectedAt = n]
    BY <1>2, <1>4 DEF Stored
<1> QED
    BY <1>4, <1>5 DEF CheckRecords

LEMMA MarkDownType ==
    ASSUME NEW check \in CheckRecords
    PROVE  MarkDown(check) \in CheckRecords
BY DEF MarkDown, CheckRecords, Status

IsMap(m) == DOMAIN m \subseteq Checks /\ m \in [DOMAIN m -> CheckRecords]

LEMMA WithIs ==
    ASSUME NEW m, IsMap(m), NEW c \in Checks, NEW check \in CheckRecords
    PROVE  /\ IsMap(With(m, c, check))
           /\ DOMAIN With(m, c, check) = DOMAIN m \cup {c}
           /\ With(m, c, check)[c] = check
           /\ \A x \in DOMAIN m \ {c} : With(m, c, check)[x] = m[x]
BY DEF With, IsMap

LEMMA WithoutIs ==
    ASSUME NEW m, IsMap(m), NEW c
    PROVE  /\ IsMap(Without(m, c))
           /\ DOMAIN Without(m, c) = DOMAIN m \ {c}
           /\ \A x \in DOMAIN m \ {c} : Without(m, c)[x] = m[x]
BY DEF Without, IsMap

(* Table and map stay alike when both get a check, or both lose it. *)
LEMMA MatchesWith ==
    ASSUME NEW t, IsMap(t), NEW m, IsMap(m), Matches(t, m), NEW c \in Checks,
           NEW check \in CheckRecords
    PROVE  Matches(With(t, c, Stored(check)), With(m, c, check))
<1> DEFINE T == With(t, c, Stored(check))
           M == With(m, c, check)
<1>1. /\ DOMAIN T = DOMAIN t \cup {c} /\ T[c] = Stored(check)
      /\ \A x \in DOMAIN t \ {c} : T[x] = t[x]
    BY DEF With, IsMap
<1>2. /\ DOMAIN M = DOMAIN m \cup {c} /\ M[c] = check
      /\ \A x \in DOMAIN m \ {c} : M[x] = m[x]
    BY DEF With, IsMap
<1> HIDE DEF T, M
<1>3. Matches(T, M)
    BY <1>1, <1>2 DEF Matches
<1> QED
    BY <1>3 DEF T, M

LEMMA MatchesWithout ==
    ASSUME NEW t, IsMap(t), NEW m, IsMap(m), Matches(t, m), NEW c
    PROVE  Matches(Without(t, c), Without(m, c))
<1> DEFINE T == Without(t, c)
           M == Without(m, c)
<1>1. /\ DOMAIN T = DOMAIN t \ {c} /\ DOMAIN M = DOMAIN m \ {c}
      /\ \A x \in DOMAIN t \ {c} : T[x] = t[x]
      /\ \A x \in DOMAIN m \ {c} : M[x] = m[x]
    BY WithoutIs
<1> HIDE DEF T, M
<1>2. Matches(T, M)
    BY <1>1 DEF Matches
<1> QED
    BY <1>2 DEF T, M

-----------------------------------------------------------------------------
(* What the store is, by what the calls are doing. *)

Applied(map, q) == IF q.op = "delete" THEN Without(map, q.check)
                                      ELSE With(map, q.check, q.arg)

AbstractCases ==
    /\ ~hydrated => AbstractChecks = rows
    /\ hydrated /\ (\A p \in Callers : ~At(p, "map")) => AbstractChecks = cache
    /\ \A p \in Callers :
          hydrated /\ At(p, "map") => AbstractChecks = Applied(cache, call[p])

LEMMA AbstractIs == LocksInv => AbstractCases
<1> SUFFICES ASSUME LocksInv
             PROVE  AbstractCases
    OBVIOUS
<1>1. ASSUME NEW p \in Callers, hydrated, At(p, "map")
      PROVE  AbstractChecks = Applied(cache, call[p])
  <2>1. \A q \in Callers : At(q, "map") => q = p
      BY <1>1 DEF LocksInv, At, Critical
  <2>2. (CHOOSE q \in Callers : At(q, "map")) = p
      BY <1>1, <2>1
  <2> QED
      BY <1>1, <2>2 DEF AbstractChecks, Applied
<1> QED
    BY <1>1 DEF AbstractCases, AbstractChecks

(***************************************************************************)
(* A step of one caller between commits: neither table nor map changes,    *)
(* and of the others at most some are let in to read.                      *)
(***************************************************************************)
Others(p) ==
    \A q \in Callers \ {p} :
        \/ call'[q] = call[q]
        \/ /\ At(q, "blocked")
           /\ call'[q] = [call[q] EXCEPT !.pc = "read"]

LEMMA OthersPc ==
    ASSUME TypeOK, NEW p \in Callers, Others(p), NEW q \in Callers \ {p}
    PROVE  /\ \/ call'[q].pc = call[q].pc
              \/ call[q].pc = "blocked" /\ call'[q].pc = "read"
           /\ call'[q].op = call[q].op /\ call'[q].check = call[q].check
           /\ call'[q].arg = call[q].arg /\ call'[q].todo = call[q].todo
BY DEF TypeOK, Others, At, CallRecords

LEMMA OthersLocals ==
    ASSUME IInv, NEW p \in Callers, Others(p), NEW q \in Callers \ {p},
           LocalsInv(p)', issued' = issued, cache' = cache
    PROVE  LocalsInv(q)'
<1>1. \A x \in Callers \ {p} :
         /\ \/ call'[x].pc = call[x].pc
            \/ call[x].pc = "blocked" /\ call'[x].pc = "read"
         /\ call'[x].op = call[x].op /\ call'[x].check = call[x].check
         /\ call'[x].arg = call[x].arg /\ call'[x].todo = call[x].todo
    BY OthersPc DEF IInv
<1>2. LocalsInv(q)
    BY DEF IInv
<1>3. \A x \in Callers \ {p} : Creating(x)' => Creating(x)
    BY <1>1 DEF Creating, Writing
<1>4. ASSUME Creating(q)', NEW x \in Callers \ {q}, Creating(x)'
      PROVE  call'[x].check # call'[q].check
  <2>1. CASE x = p
      BY <1>4, <2>1 DEF LocalsInv
  <2>2. CASE x # p
      BY <1>1, <1>2, <1>3, <1>4, <2>2 DEF LocalsInv
  <2> QED
      BY <2>1, <2>2
<1>5. /\ call[q].pc \in Writing \/ call'[q].pc \notin Writing
      /\ call'[q].pc \in Writing => call'[q].pc = call[q].pc
    BY <1>1 DEF Writing
<1>6. Up' = Up
    BY DEF Up
<1> QED
    BY <1>1, <1>2, <1>3, <1>4, <1>5, <1>6 DEF LocalsInv, Writing

LEMMA QuietStep ==
    ASSUME IInv, NEW p \in Callers, hydrated, Others(p),
           UNCHANGED <<rows, issued, cache, hydrated, crashes>>,
           call' \in [Callers -> CallRecords],
           writer' \in Callers \cup {Nil}, readers' \subseteq Callers,
           conn' \in Callers \cup {Nil},
           LocksInv', LocalsInv(p)',
           ~At(p, "map"), ~At(p, "map")'
    PROVE  IInv' /\ AbstractChecks' = AbstractChecks
<1>1. TypeOK'
    BY DEF IInv, TypeOK
<1>2. \A q \in Callers : LocalsInv(q)'
    BY OthersLocals
<1>3. AbstractChecks' = AbstractChecks
  <2>1. \A q \in Callers : /\ At(q, "map")' <=> At(q, "map")
                           /\ At(q, "map") => call'[q] = call[q]
    <3> SUFFICES ASSUME NEW q \in Callers \ {p}
                 PROVE  /\ At(q, "map")' <=> At(q, "map")
                        /\ At(q, "map") => call'[q] = call[q]
        OBVIOUS
    <3> QED
        BY OthersPc DEF At, IInv, Others
  <2>2. AbstractCases
      BY AbstractIs DEF IInv
  <2>3. AbstractCases'
    <3>1. LocksInv' => AbstractCases'
        BY AbstractIs, PTL
    <3> QED
        BY <3>1
  <2>4. CASE \A q \in Callers : ~At(q, "map")
    <3>1. \A q \in Callers : ~At(q, "map")'
        BY <2>1, <2>4
    <3> QED
        BY <2>2, <2>3, <2>4, <3>1 DEF AbstractCases
  <2>5. ASSUME NEW q \in Callers, At(q, "map")
        PROVE  AbstractChecks' = AbstractChecks
    <3>1. At(q, "map")' /\ call'[q] = call[q]
        BY <2>1, <2>5
    <3>2. AbstractChecks' = Applied(cache', call'[q])
        BY <2>3, <3>1 DEF AbstractCases
    <3> QED
        BY <2>2, <2>5, <3>1, <3>2 DEF AbstractCases, Applied
  <2> QED
      BY <2>4, <2>5
<1>4. CoherenceInv'
    BY <1>3 DEF IInv, CoherenceInv
<1> QED
    BY <1>1, <1>2, <1>3, <1>4 DEF IInv

(***************************************************************************)
(* The quiet steps that change the locals of the caller alone.             *)
(***************************************************************************)
LEMMA QuietMove ==
    ASSUME IInv, NEW p \in Callers, hydrated, NEW locals \in CallRecords,
           call' = [call EXCEPT ![p] = locals],
           UNCHANGED <<rows, issued, cache, hydrated, crashes>>,
           writer' \in Callers \cup {Nil}, readers' \subseteq Callers,
           conn' \in Callers \cup {Nil},
           \A q \in Callers \ {p} : /\ writer' = q <=> writer = q
                                    /\ conn' = q <=> conn = q
                                    /\ q \in readers' <=> q \in readers,
           p \in readers' => writer = Nil,
           writer' = p <=> locals.pc \in Critical \cup {"drain"},
           p \in readers' <=> locals.pc = "read",
           conn' = p <=> locals.pc \in {"stmt", "busy"},
           locals.pc \in Critical => readers' = {},
           LocalsInv(p)', call[p].pc # "map", locals.pc # "map"
    PROVE  IInv' /\ AbstractChecks' = AbstractChecks
<1>1. /\ call' \in [Callers -> CallRecords] /\ call'[p] = locals
      /\ \A q \in Callers \ {p} : call'[q] = call[q]
    BY DEF IInv, TypeOK
<1>2. Others(p)
    BY <1>1 DEF Others
<1>3. LocksInv'
  <2> SUFFICES ASSUME NEW q \in Callers
               PROVE  /\ writer' = q <=> call'[q].pc \in Critical \cup {"drain"}
                      /\ q \in readers' <=> At(q, "read")'
                      /\ conn' = q <=> call'[q].pc \in {"stmt", "busy"}
                      /\ call'[q].pc \in Critical => readers' = {}
      BY DEF LocksInv
  <2>1. CASE q = p
      BY <1>1, <2>1 DEF At
  <2>2. CASE q # p
    <3>1. /\ writer = q <=> call[q].pc \in Critical \cup {"drain"}
          /\ q \in readers <=> At(q, "read")
          /\ conn = q <=> call[q].pc \in {"stmt", "busy"}
          /\ call[q].pc \in Critical => readers = {}
        BY DEF IInv, LocksInv
    <3>2. call'[q] = call[q]
        BY <1>1, <2>2
    <3>3. ASSUME call[q].pc \in Critical
          PROVE  readers' = {}
      <4>1. readers = {} /\ writer = q /\ writer # Nil
          BY <3>1, <3>3, CallersAssumption
      <4>2. \A x \in Callers : x \notin readers'
          BY <4>1
      <4> QED
          BY <4>2
    <3>4. writer' = q <=> call'[q].pc \in Critical \cup {"drain"}
        BY <2>2, <3>1, <3>2
    <3>5. q \in readers' <=> At(q, "read")'
        BY <2>2, <3>1, <3>2 DEF At
    <3>6. conn' = q <=> call'[q].pc \in {"stmt", "busy"}
        BY <2>2, <3>1, <3>2
    <3> QED
        BY <3>2, <3>3, <3>4, <3>5, <3>6
  <2> QED
      BY <2>1, <2>2
<1>4. ~At(p, "map") /\ ~At(p, "map")'
    BY <1>1 DEF At
<1> QED
    BY <1>1, <1>2, <1>3, <1>4, QuietStep

(* A call begins without a lock. *)
LEMMA BeginKeeps ==
    ASSUME IInv, NEW p \in Callers, NEW locals \in CallRecords,
           Begin(p, locals), UNCHANGED lockVars,
           locals.pc \in {"lock", "blocked", "query"}, LocalsInv(p)'
    PROVE  IInv' /\ AbstractChecks' = AbstractChecks
<1>1. /\ hydrated /\ call[p].pc = "idle"
      /\ call' = [call EXCEPT ![p] = locals]
      /\ UNCHANGED <<rows, issued, cache, hydrated, conn, crashes>>
      /\ UNCHANGED <<writer, readers>>
    BY DEF Begin, At, dbVars, lockVars
<1>2. /\ writer \in Callers \cup {Nil} /\ readers \subseteq Callers
      /\ conn \in Callers \cup {Nil}
      /\ writer # p /\ p \notin readers /\ conn # p
    BY <1>1 DEF IInv, TypeOK, LocksInv, At, Critical
<1>3. /\ writer' = p <=> locals.pc \in Critical \cup {"drain"}
      /\ p \in readers' <=> locals.pc = "read"
      /\ conn' = p <=> locals.pc \in {"stmt", "busy"}
      /\ locals.pc \in Critical => readers' = {}
      /\ p \in readers' => writer = Nil
    BY <1>1, <1>2 DEF Critical
<1>4. \A q \in Callers \ {p} : /\ writer' = q <=> writer = q
                               /\ conn' = q <=> conn = q
                               /\ q \in readers' <=> q \in readers
    BY <1>1
<1>5. /\ writer' \in Callers \cup {Nil} /\ readers' \subseteq Callers
      /\ conn' \in Callers \cup {Nil}
      /\ call[p].pc # "map" /\ locals.pc # "map"
    BY <1>1, <1>2
<1> QED
    BY <1>1, <1>3, <1>4, <1>5, QuietMove

(* The locals of a call that is not a write promise nothing. *)
LEMMA NoPromises ==
    ASSUME NEW p, call[p].pc \notin Writing
    PROVE  LocalsInv(p)
BY DEF LocalsInv, Creating, Writing

LEMMA IdleType == Idle \in CallRecords /\ Idle.pc = "idle"
BY DEF Idle, CallRecords

LEMMA BeginCallKeeps ==
    ASSUME IInv, NEW p \in Callers,
           BeginQuery(p) \/ BeginSet(p) \/ BeginCreate(p) \/ BeginDelete(p)
              \/ BeginPass(p)
    PROVE  IInv' /\ AbstractChecks' = AbstractChecks
<1>1. call \in [Callers -> CallRecords]
    BY DEF IInv, TypeOK
<1>2. Inputs \subseteq CheckRecords
    BY InputsAssumption DEF ConsistentRecords
<1>3. CASE BeginQuery(p)
  <2> DEFINE locals == [Idle EXCEPT !.pc = "query"]
  <2>1. locals \in CallRecords /\ locals.pc = "query"
      BY DEF Idle, CallRecords
  <2>2. Begin(p, locals) /\ UNCHANGED lockVars
      BY <1>3 DEF BeginQuery
  <2>3. call'[p] = locals
      BY <1>1, <2>2 DEF Begin
  <2>4. LocalsInv(p)'
      BY <2>1, <2>3 DEF LocalsInv, Creating, Writing
  <2> QED
      BY <2>1, <2>2, <2>4, BeginKeeps
<1>4. CASE BeginSet(p)
  <2>1. PICK c \in Checks, check \in Inputs :
           Begin(p, [Idle EXCEPT !.pc = "lock", !.op = "set", !.check = c,
                                 !.arg = check])
      BY <1>4 DEF BeginSet
  <2> DEFINE locals == [Idle EXCEPT !.pc = "lock", !.op = "set", !.check = c,
                                    !.arg = check]
  <2>2. /\ locals \in CallRecords /\ locals.pc = "lock" /\ locals.op = "set"
        /\ locals.check = c /\ locals.arg = check
      BY <1>2 DEF Idle, CallRecords, Writes
  <2>3. Begin(p, locals) /\ UNCHANGED lockVars
      BY <1>4, <2>1 DEF BeginSet
  <2>4. call'[p] = locals
      BY <1>1, <2>3 DEF Begin
  <2> HIDE DEF locals
  <2>5. LocalsInv(p)'
      BY <2>2, <2>4 DEF LocalsInv, Creating, Writing, Writes
  <2> QED
      BY <2>2, <2>3, <2>5, BeginKeeps
<1>5. CASE BeginCreate(p)
  <2>1. PICK c \in Fresh, check \in Inputs :
           Begin(p, [Idle EXCEPT !.pc = "lock", !.op = "create", !.check = c,
                                 !.arg = check])
      BY <1>5 DEF BeginCreate
  <2> DEFINE locals == [Idle EXCEPT !.pc = "lock", !.op = "create",
                                    !.check = c, !.arg = check]
  <2>2. /\ locals \in CallRecords /\ locals.pc = "lock" /\ locals.op = "create"
        /\ locals.check = c /\ locals.arg = check
      BY <1>2 DEF Idle, CallRecords, Writes, Fresh
  <2>3. Begin(p, locals) /\ UNCHANGED lockVars
      BY <1>5, <2>1 DEF BeginCreate
  <2>4. /\ call'[p] = locals /\ issued' = issued
        /\ \A q \in Callers \ {p} : call'[q] = call[q]
      BY <1>1, <2>3 DEF Begin, dbVars
  <2> HIDE DEF locals
  <2>5. c \notin issued /\ c \in Checks
      BY DEF Fresh
  <2>6. \A q \in Callers \ {p} : Creating(q)' => call'[q].check # c
      BY <2>4 DEF Creating, Fresh
  <2>7. LocalsInv(p)'
      BY <2>2, <2>4, <2>5, <2>6 DEF LocalsInv, Writing, Writes
  <2> QED
      BY <2>2, <2>3, <2>7, BeginKeeps
<1>6. CASE BeginDelete(p)
  <2>1. PICK c \in Checks :
           Begin(p, [Idle EXCEPT !.pc = "lock", !.op = "delete", !.check = c])
      BY <1>6 DEF BeginDelete
  <2> DEFINE locals == [Idle EXCEPT !.pc = "lock", !.op = "delete", !.check = c]
  <2>2. /\ locals \in CallRecords /\ locals.pc = "lock" /\ locals.op = "delete"
        /\ locals.check = c
      BY DEF Idle, CallRecords, Writes
  <2>3. Begin(p, locals) /\ UNCHANGED lockVars
      BY <1>6, <2>1 DEF BeginDelete
  <2>4. call'[p] = locals
      BY <1>1, <2>3 DEF Begin
  <2> HIDE DEF locals
  <2>5. LocalsInv(p)'
      BY <2>2, <2>4 DEF LocalsInv, Creating, Writing, Writes
  <2> QED
      BY <2>2, <2>3, <2>5, BeginKeeps
<1>7. CASE BeginPass(p)
  <2> DEFINE locals == [Idle EXCEPT !.pc = "lock", !.op = "pass"]
  <2>1. /\ locals \in CallRecords /\ locals.pc = "lock" /\ locals.op = "pass"
      BY DEF Idle, CallRecords, Writes
  <2>2. Begin(p, locals) /\ UNCHANGED lockVars
      BY <1>7 DEF BeginPass
  <2>3. call'[p] = locals
      BY <1>1, <2>2 DEF Begin
  <2> HIDE DEF locals
  <2>4. LocalsInv(p)'
      BY <2>1, <2>3 DEF LocalsInv, Creating, Writing, Writes
  <2> QED
      BY <2>1, <2>2, <2>4, BeginKeeps
<1> QED
    BY <1>3, <1>4, <1>5, <1>6, <1>7

LEMMA BeginReadKeeps ==
    ASSUME IInv, NEW p \in Callers, BeginRead(p)
    PROVE  IInv' /\ AbstractChecks' = AbstractChecks
<1>1. /\ hydrated /\ call[p].pc = "idle"
      /\ UNCHANGED <<rows, issued, cache, hydrated, conn, crashes, writer>>
      /\ call' = [call EXCEPT ![p] =
                    [Idle EXCEPT !.pc = IF writer = Nil THEN "read"
                                                        ELSE "blocked"]]
      /\ readers' = IF writer = Nil THEN readers \cup {p} ELSE readers
    BY DEF BeginRead, Begin, At, dbVars
<1>2. /\ writer \in Callers \cup {Nil} /\ readers \subseteq Callers
      /\ conn \in Callers \cup {Nil}
      /\ writer # p /\ p \notin readers /\ conn # p
      /\ call \in [Callers -> CallRecords]
    BY <1>1 DEF IInv, TypeOK, LocksInv, At, Critical
<1>3. CASE writer = Nil
  <2> DEFINE locals == [Idle EXCEPT !.pc = "read"]
  <2>1. /\ locals \in CallRecords /\ locals.pc = "read"
        /\ call' = [call EXCEPT ![p] = locals] /\ readers' = readers \cup {p}
      BY <1>1, <1>3 DEF Idle, CallRecords
  <2>2. LocalsInv(p)'
      BY <1>2, <2>1 DEF LocalsInv, Creating, Writing
  <2> HIDE DEF locals
  <2>3. /\ writer' = p <=> locals.pc \in Critical \cup {"drain"}
        /\ p \in readers' <=> locals.pc = "read"
        /\ conn' = p <=> locals.pc \in {"stmt", "busy"}
        /\ locals.pc \in Critical => readers' = {}
        /\ p \in readers' => writer = Nil
      BY <1>1, <1>2, <1>3, <2>1 DEF Critical
  <2>4. \A q \in Callers \ {p} : /\ writer' = q <=> writer = q
                                 /\ conn' = q <=> conn = q
                                 /\ q \in readers' <=> q \in readers
      BY <1>1, <2>1
  <2>5. /\ writer' \in Callers \cup {Nil} /\ readers' \subseteq Callers
        /\ conn' \in Callers \cup {Nil}
        /\ call[p].pc # "map" /\ locals.pc # "map"
      BY <1>1, <1>2, <2>1
  <2> QED
      BY <1>1, <2>1, <2>2, <2>3, <2>4, <2>5, QuietMove
<1>4. CASE writer # Nil
  <2> DEFINE locals == [Idle EXCEPT !.pc = "blocked"]
  <2>1. /\ locals \in CallRecords /\ locals.pc = "blocked"
        /\ call' = [call EXCEPT ![p] = locals] /\ readers' = readers
      BY <1>1, <1>4 DEF Idle, CallRecords
  <2>2. LocalsInv(p)'
      BY <1>2, <2>1 DEF LocalsInv, Creating, Writing
  <2> HIDE DEF locals
  <2>3. /\ writer' = p <=> locals.pc \in Critical \cup {"drain"}
        /\ p \in readers' <=> locals.pc = "read"
        /\ conn' = p <=> locals.pc \in {"stmt", "busy"}
        /\ locals.pc \in Critical => readers' = {}
        /\ p \in readers' => writer = Nil
      BY <1>1, <1>2, <2>1 DEF Critical
  <2>4. \A q \in Callers \ {p} : /\ writer' = q <=> writer = q
                                 /\ conn' = q <=> conn = q
                                 /\ q \in readers' <=> q \in readers
      BY <1>1, <2>1
  <2>5. /\ writer' \in Callers \cup {Nil} /\ readers' \subseteq Callers
        /\ conn' \in Callers \cup {Nil}
        /\ call[p].pc # "map" /\ locals.pc # "map"
      BY <1>1, <1>2, <2>1
  <2> QED
      BY <1>1, <2>1, <2>2, <2>3, <2>4, <2>5, QuietMove
<1> QED
    BY <1>3, <1>4

(* What the invariant says of one caller. *)
LEMMA OwnFacts ==
    ASSUME IInv, NEW p \in Callers
    PROVE  /\ call \in [Callers -> CallRecords] /\ call[p] \in CallRecords
           /\ writer \in Callers \cup {Nil} /\ readers \subseteq Callers
           /\ conn \in Callers \cup {Nil}
           /\ writer = p <=> call[p].pc \in Critical \cup {"drain"}
           /\ p \in readers <=> call[p].pc = "read"
           /\ conn = p <=> call[p].pc \in {"stmt", "busy"}
           /\ call[p].pc \in Critical => readers = {}
           /\ call[p].pc # "idle" => hydrated
           /\ LocalsInv(p)
           /\ p # Nil
BY IdleType, CallersAssumption DEF IInv, TypeOK, LocksInv, At

(* A call that goes on keeps its promises when they are the same. *)
LEMMA GoOnKeeps ==
    ASSUME IInv, NEW p \in Callers, NEW pc,
           call' = [call EXCEPT ![p] = [@ EXCEPT !.pc = pc]],
           UNCHANGED <<issued, cache>>,
           \/ call[p].pc \in {"lock", "drain"} /\ pc \in {"lock", "drain"}
           \/ call[p].pc = "drain" /\ pc = "exec" /\ call[p].op # "pass"
           \/ call[p].pc = "exec" /\ pc = "stmt"
    PROVE  /\ LocalsInv(p)'
           /\ [call[p] EXCEPT !.pc = pc] \in CallRecords
           /\ call' = [call EXCEPT ![p] = [call[p] EXCEPT !.pc = pc]]
           /\ [call[p] EXCEPT !.pc = pc].pc = pc
<1>1. /\ call \in [Callers -> CallRecords] /\ call[p] \in CallRecords
      /\ LocalsInv(p)
    BY OwnFacts
<1>2. /\ [call[p] EXCEPT !.pc = pc] \in CallRecords
      /\ [call[p] EXCEPT !.pc = pc].pc = pc
      /\ call' = [call EXCEPT ![p] = [call[p] EXCEPT !.pc = pc]]
    BY <1>1 DEF CallRecords
<1>3. /\ call'[p].pc = pc /\ call'[p].op = call[p].op
      /\ call'[p].check = call[p].check /\ call'[p].arg = call[p].arg
      /\ call'[p].todo = call[p].todo
      /\ \A q \in Callers \ {p} : call'[q] = call[q]
    BY <1>1 DEF CallRecords
<1>4. Up' = Up
    BY DEF Up
<1>5. /\ Creating(p)' => Creating(p)
      /\ \A q \in Callers \ {p} : Creating(q)' <=> Creating(q)
    BY <1>3 DEF Creating, Writing
<1>6. LocalsInv(p)'
    BY <1>1, <1>3, <1>4, <1>5 DEF LocalsInv, Writing
<1> QED
    BY <1>2, <1>6

LEMMA LockKeeps ==
    ASSUME IInv, NEW p \in Callers, Lock(p)
    PROVE  IInv' /\ AbstractChecks' = AbstractChecks
<1>1. /\ call[p].pc = "lock" /\ writer = Nil /\ writer' = p
      /\ call' = [call EXCEPT ![p] = [@ EXCEPT !.pc = "drain"]]
      /\ UNCHANGED <<rows, issued, cache, hydrated, readers, conn, crashes>>
    BY DEF Lock, At, GoTo, dbVars
<1> DEFINE locals == [call[p] EXCEPT !.pc = "drain"]
<1>2. /\ LocalsInv(p)' /\ locals \in CallRecords /\ locals.pc = "drain"
      /\ call' = [call EXCEPT ![p] = locals]
    BY <1>1, GoOnKeeps
<1> HIDE DEF locals
<1>3. /\ hydrated /\ readers \subseteq Callers /\ conn \in Callers \cup {Nil}
      /\ p \notin readers /\ conn # p /\ p # Nil
    BY <1>1, OwnFacts
<1>4. \A q \in Callers \ {p} : writer' = q <=> writer = q
    BY <1>1, CallersAssumption
<1>5. \A q \in Callers \ {p} : /\ writer' = q <=> writer = q
                               /\ conn' = q <=> conn = q
                               /\ q \in readers' <=> q \in readers
    BY <1>1, <1>4
<1>6. /\ writer' = p <=> locals.pc \in Critical \cup {"drain"}
      /\ p \in readers' <=> locals.pc = "read"
      /\ conn' = p <=> locals.pc \in {"stmt", "busy"}
      /\ locals.pc \in Critical => readers' = {}
      /\ p \in readers' => writer = Nil
    BY <1>1, <1>2, <1>3 DEF Critical
<1> QED
    BY <1>1, <1>2, <1>3, <1>5, <1>6, QuietMove

(* A writer goes on inside its lock, perhaps to take the connection. *)
LEMMA InsideKeeps ==
    ASSUME IInv, NEW p \in Callers, NEW locals \in CallRecords,
           call' = [call EXCEPT ![p] = locals],
           UNCHANGED <<rows, issued, cache, hydrated, writer, readers, crashes>>,
           writer = p, call[p].pc # "map", readers = {},
           locals.pc \in {"next", "exec", "stmt"}, LocalsInv(p)',
           \/ conn' = conn /\ conn # p /\ locals.pc # "stmt"
           \/ conn = Nil /\ conn' = p /\ locals.pc = "stmt"
           \/ conn = p /\ conn' = Nil /\ locals.pc # "stmt"
    PROVE  IInv' /\ AbstractChecks' = AbstractChecks
<1>1. /\ readers \subseteq Callers /\ conn \in Callers \cup {Nil} /\ p # Nil
      /\ call[p].pc # "idle" /\ hydrated
    BY OwnFacts DEF Critical
<1>2. \A q \in Callers \ {p} : conn' = q <=> conn = q
    BY CallersAssumption
<1>3. \A q \in Callers \ {p} : /\ writer' = q <=> writer = q
                               /\ conn' = q <=> conn = q
                               /\ q \in readers' <=> q \in readers
    BY <1>2
<1>4. conn' = p <=> locals.pc \in {"stmt", "busy"}
    BY <1>1
<1>5. /\ writer' = p <=> locals.pc \in Critical \cup {"drain"}
      /\ p \in readers' <=> locals.pc = "read"
      /\ locals.pc \in Critical => readers' = {}
      /\ p \in readers' => writer = Nil
    BY DEF Critical
<1>6. /\ writer' \in Callers \cup {Nil} /\ readers' \subseteq Callers
      /\ conn' \in Callers \cup {Nil} /\ locals.pc # "map"
    BY <1>1
<1> QED
    BY <1>1, <1>3, <1>4, <1>5, <1>6, QuietMove

LEMMA LockedKeeps ==
    ASSUME IInv, NEW p \in Callers, Locked(p)
    PROVE  IInv' /\ AbstractChecks' = AbstractChecks
<1>1. /\ call[p].pc = "drain" /\ readers = {}
      /\ UNCHANGED <<rows, issued, cache, hydrated, conn, crashes>>
      /\ UNCHANGED <<writer, readers>>
    BY DEF Locked, At, dbVars, lockVars
<1>2. /\ writer = p /\ conn # p /\ LocalsInv(p)
      /\ call \in [Callers -> CallRecords] /\ call[p] \in CallRecords
    BY <1>1, OwnFacts
<1>3. CASE call[p].op = "pass"
  <2>1. PICK due \in SUBSET Up :
           call' = [call EXCEPT ![p] = [@ EXCEPT !.pc = "next", !.todo = due]]
      BY <1>3 DEF Locked, Up
  <2> DEFINE locals == [call[p] EXCEPT !.pc = "next", !.todo = due]
  <2>2. due \subseteq Checks
      BY DEF Up, IInv, TypeOK
  <2>3. /\ locals \in CallRecords /\ locals.pc = "next" /\ locals.op = "pass"
        /\ locals.todo = due
        /\ call' = [call EXCEPT ![p] = locals]
      BY <1>2, <1>3, <2>1, <2>2 DEF CallRecords
  <2>4. call'[p] = locals /\ Up' = Up
      BY <1>1, <1>2, <2>3 DEF Up
  <2> HIDE DEF locals
  <2>5. LocalsInv(p)'
      BY <2>3, <2>4 DEF LocalsInv, Creating, Writing, Writes
  <2> QED
      BY <1>1, <1>2, <2>3, <2>5, InsideKeeps
<1>4. CASE call[p].op # "pass"
  <2>1. call' = [call EXCEPT ![p] = [@ EXCEPT !.pc = "exec"]]
      BY <1>4 DEF Locked, GoTo
  <2> DEFINE locals == [call[p] EXCEPT !.pc = "exec"]
  <2>2. /\ LocalsInv(p)' /\ locals \in CallRecords /\ locals.pc = "exec"
        /\ call' = [call EXCEPT ![p] = locals]
      BY <1>1, <1>4, <2>1, GoOnKeeps
  <2> HIDE DEF locals
  <2> QED
      BY <1>1, <1>2, <2>2, InsideKeeps
<1> QED
    BY <1>3, <1>4

LEMMA PassNextKeeps ==
    ASSUME IInv, NEW p \in Callers, PassNext(p)
    PROVE  IInv' /\ AbstractChecks' = AbstractChecks
<1>1. /\ call[p].pc = "next"
      /\ UNCHANGED <<rows, issued, cache, hydrated, conn, crashes>>
      /\ UNCHANGED <<writer, readers>>
    BY DEF PassNext, At, dbVars, lockVars
<1>2. /\ writer = p /\ conn # p /\ LocalsInv(p) /\ readers = {}
      /\ call \in [Callers -> CallRecords] /\ call[p] \in CallRecords
    BY <1>1, OwnFacts DEF Critical
<1>3. call[p].op = "pass" /\ call[p].todo \subseteq Up
    BY <1>1, <1>2 DEF LocalsInv
<1>4. PICK c \in call[p].todo :
         call' = [call EXCEPT ![p] = [@ EXCEPT !.pc    = "exec",
                                               !.check = c,
                                               !.arg   = MarkDown(cache[c]),
                                               !.todo  = call[p].todo \ {c}]]
    BY DEF PassNext
<1> DEFINE locals == [call[p] EXCEPT !.pc    = "exec",
                                     !.check = c,
                                     !.arg   = MarkDown(cache[c]),
                                     !.todo  = call[p].todo \ {c}]
<1>5. MarkDown(cache[c]) \in CheckRecords /\ c \in Checks /\ c \in Up
    BY <1>3, MarkDownType DEF IInv, TypeOK, Up
<1>6. /\ locals \in CallRecords /\ locals.pc = "exec" /\ locals.op = "pass"
      /\ locals.check = c /\ locals.arg = MarkDown(cache[c])
      /\ locals.todo = call[p].todo \ {c}
      /\ call' = [call EXCEPT ![p] = locals]
    BY <1>2, <1>3, <1>4, <1>5 DEF CallRecords
<1>7. call'[p] = locals /\ Up' = Up
    BY <1>1, <1>2, <1>6 DEF Up
<1> HIDE DEF locals
<1>8. LocalsInv(p)'
    BY <1>1, <1>3, <1>5, <1>6, <1>7 DEF LocalsInv, Creating, Writing, Writes
<1> QED
    BY <1>1, <1>2, <1>6, <1>8, InsideKeeps

LEMMA AcquireKeeps ==
    ASSUME IInv, NEW p \in Callers, Acquire(p)
    PROVE  IInv' /\ AbstractChecks' = AbstractChecks
<1>1. /\ call[p].pc = "exec" /\ conn = Nil /\ conn' = p
      /\ call' = [call EXCEPT ![p] = [@ EXCEPT !.pc = "stmt"]]
      /\ UNCHANGED <<rows, issued, cache, hydrated, writer, readers, crashes>>
    BY DEF Acquire, At, GoTo, dbVars, lockVars
<1>2. writer = p /\ readers = {}
    BY <1>1, OwnFacts DEF Critical
<1> DEFINE locals == [call[p] EXCEPT !.pc = "stmt"]
<1>3. /\ LocalsInv(p)' /\ locals \in CallRecords /\ locals.pc = "stmt"
      /\ call' = [call EXCEPT ![p] = locals]
    BY <1>1, GoOnKeeps
<1> HIDE DEF locals
<1> QED
    BY <1>1, <1>2, <1>3, InsideKeeps

(* A call that holds no write lock returns, or takes the connection. *)
LEMMA OutsideKeeps ==
    ASSUME IInv, NEW p \in Callers, NEW locals \in CallRecords,
           call' = [call EXCEPT ![p] = locals],
           UNCHANGED <<rows, issued, cache, hydrated, writer, crashes>>,
           call[p].pc \in {"read", "query", "busy"},
           readers' = readers \ {p},
           \/ locals.pc = "idle" /\ conn' = IF conn = p THEN Nil ELSE conn
           \/ locals.pc = "busy" /\ conn = Nil /\ conn' = p
    PROVE  IInv' /\ AbstractChecks' = AbstractChecks
<1>1. /\ readers \subseteq Callers /\ conn \in Callers \cup {Nil} /\ p # Nil
      /\ writer \in Callers \cup {Nil} /\ writer # p /\ hydrated
      /\ call \in [Callers -> CallRecords]
    BY OwnFacts DEF Critical
<1>2. \A q \in Callers \ {p} : conn' = q <=> conn = q
    BY CallersAssumption
<1>3. \A q \in Callers \ {p} : /\ writer' = q <=> writer = q
                               /\ conn' = q <=> conn = q
                               /\ q \in readers' <=> q \in readers
    BY <1>2
<1>4. conn' = p <=> locals.pc \in {"stmt", "busy"}
    BY <1>1
<1>5. /\ writer' = p <=> locals.pc \in Critical \cup {"drain"}
      /\ p \in readers' <=> locals.pc = "read"
      /\ locals.pc \in Critical => readers' = {}
      /\ p \in readers' => writer = Nil
    BY <1>1 DEF Critical
<1>6. /\ writer' \in Callers \cup {Nil} /\ readers' \subseteq Callers
      /\ conn' \in Callers \cup {Nil} /\ locals.pc # "map"
      /\ call[p].pc # "map"
    BY <1>1
<1>7. LocalsInv(p)'
  <2>1. call'[p] = locals
      BY <1>1
  <2> QED
      BY <2>1 DEF LocalsInv, Creating, Writing
<1> QED
    BY <1>1, <1>3, <1>4, <1>5, <1>6, <1>7, QuietMove

LEMMA EndReadKeeps ==
    ASSUME IInv, NEW p \in Callers, EndRead(p)
    PROVE  IInv' /\ AbstractChecks' = AbstractChecks
<1>1. /\ call[p].pc = "read" /\ readers' = readers \ {p}
      /\ call' = [call EXCEPT ![p] = Idle]
      /\ UNCHANGED <<rows, issued, cache, hydrated, writer, conn, crashes>>
    BY DEF EndRead, At, dbVars
<1>2. conn # p
    BY <1>1, OwnFacts
<1> QED
    BY <1>1, <1>2, IdleType, OutsideKeeps

LEMMA QueryKeeps ==
    ASSUME IInv, NEW p \in Callers, AcquireQuery(p) \/ EndQuery(p)
    PROVE  IInv' /\ AbstractChecks' = AbstractChecks
<1>1. /\ call[p].pc \in {"query", "busy"}
      /\ UNCHANGED <<rows, issued, cache, hydrated, writer, crashes, readers>>
    BY DEF AcquireQuery, EndQuery, At, dbVars, lockVars
<1>2. /\ readers = readers \ {p}
      /\ call \in [Callers -> CallRecords] /\ call[p] \in CallRecords
    BY <1>1, OwnFacts
<1>3. CASE AcquireQuery(p)
  <2> DEFINE locals == [call[p] EXCEPT !.pc = "busy"]
  <2>1. /\ locals \in CallRecords /\ locals.pc = "busy"
        /\ call' = [call EXCEPT ![p] = locals] /\ conn = Nil /\ conn' = p
      BY <1>2, <1>3 DEF AcquireQuery, GoTo, CallRecords
  <2> HIDE DEF locals
  <2> QED
      BY <1>1, <1>2, <2>1, OutsideKeeps
<1>4. CASE EndQuery(p)
  <2>1. /\ call[p].pc = "busy" /\ conn' = Nil
        /\ call' = [call EXCEPT ![p] = Idle]
      BY <1>4 DEF EndQuery, At
  <2>2. conn = p
      BY <2>1, OwnFacts
  <2> QED
      BY <1>1, <1>2, <2>1, <2>2, IdleType, OutsideKeeps
<1> QED
    BY <1>3, <1>4

-----------------------------------------------------------------------------
(* mu.Unlock. *)

LEMMA UnlockIs ==
    ASSUME IInv, NEW p \in Callers, Unlock(p), writer = p
    PROVE  /\ call' \in [Callers -> CallRecords] /\ call'[p] = Idle
           /\ Others(p)
           /\ writer' = Nil /\ readers' \subseteq Callers
           /\ LocalsInv(p)'
           /\ \A q \in Callers \ {p} : q \in readers' <=> At(q, "read")'
           /\ p \notin readers'
           /\ \A q \in Callers \ {p} : call[q].pc \notin Critical \cup {"drain"}
<1> DEFINE admitted == {q \in Callers : At(q, "blocked")}
<1>1. /\ writer' = Nil
      /\ readers' = readers \cup admitted
      /\ call' = [q \in Callers |->
                     IF q = p THEN Idle
                     ELSE IF q \in admitted
                          THEN [call[q] EXCEPT !.pc = "read"]
                          ELSE call[q]]
    BY DEF Unlock
<1>2. /\ call \in [Callers -> CallRecords]
      /\ readers \subseteq Callers
    BY OwnFacts
<1>3. \A q \in Callers : [call[q] EXCEPT !.pc = "read"] \in CallRecords
    BY <1>2 DEF CallRecords
<1>4. /\ call' \in [Callers -> CallRecords] /\ call'[p] = Idle
      /\ Others(p)
    BY <1>1, <1>2, <1>3, IdleType DEF Others
<1>5. LocalsInv(p)'
    BY <1>4, IdleType DEF LocalsInv, Creating, Writing
<1>6. call[p].pc \in Critical \cup {"drain"}
    BY OwnFacts
<1>7. \A q \in Callers \ {p} : call[q].pc \notin Critical \cup {"drain"}
    BY OwnFacts
<1>8. ASSUME NEW q \in Callers \ {p}
      PROVE  q \in readers' <=> At(q, "read")'
  <2>1. q \in readers <=> call[q].pc = "read"
      BY OwnFacts
  <2>2. CASE q \in admitted
      BY <1>1, <1>2, <2>2 DEF At, CallRecords
  <2>3. CASE q \notin admitted
      BY <1>1, <2>1, <2>3 DEF At
  <2> QED
      BY <2>2, <2>3
<1>9. p \notin readers'
  <2>1. p \notin readers /\ p \notin admitted
      BY <1>6, OwnFacts DEF At, Critical
  <2> QED
      BY <1>1, <2>1
<1> QED
    BY <1>1, <1>2, <1>4, <1>5, <1>7, <1>8, <1>9

LEMMA UnlockLocks ==
    ASSUME IInv, NEW p \in Callers, Unlock(p), writer = p,
           hydrated, hydrated' = hydrated,
           conn' \in {Nil, conn}, conn' # p,
           \A q \in Callers \ {p} : conn' = q <=> conn = q
    PROVE  LocksInv'
<1>1. /\ call'[p] = Idle /\ Others(p)
      /\ writer' = Nil
      /\ \A q \in Callers \ {p} : q \in readers' <=> At(q, "read")'
      /\ p \notin readers'
      /\ \A q \in Callers \ {p} : call[q].pc \notin Critical \cup {"drain"}
    BY UnlockIs
<1> SUFFICES ASSUME NEW q \in Callers
             PROVE  /\ writer' = q <=> call'[q].pc \in Critical \cup {"drain"}
                    /\ q \in readers' <=> At(q, "read")'
                    /\ conn' = q <=> call'[q].pc \in {"stmt", "busy"}
                    /\ call'[q].pc \in Critical => readers' = {}
    BY DEF LocksInv
<1>2. CASE q = p
    BY <1>1, <1>2, IdleType, CallersAssumption DEF At, Critical
<1>3. CASE q # p
  <2>1. \/ call'[q].pc = call[q].pc
        \/ call[q].pc = "blocked" /\ call'[q].pc = "read"
      BY <1>1, <1>3, OthersPc DEF IInv
  <2>2. call'[q].pc \notin Critical \cup {"drain"}
      BY <1>1, <1>3, <2>1 DEF Critical
  <2>3. conn' = q <=> conn = q
      BY <1>3
  <2>4. conn' = q <=> call'[q].pc \in {"stmt", "busy"}
      BY <2>1, <2>3, OwnFacts
  <2>5. q \in readers' <=> At(q, "read")'
      BY <1>1, <1>3
  <2>6. writer' # q
      BY <1>1, CallersAssumption
  <2> QED
      BY <2>2, <2>4, <2>5, <2>6
<1> QED
    BY <1>2, <1>3

LEMMA UnlockKeeps ==
    ASSUME IInv, NEW p \in Callers, Unlock(p), writer = p, call[p].pc # "map",
           UNCHANGED <<rows, issued, cache, hydrated, crashes>>,
           conn' = IF conn = p THEN Nil ELSE conn
    PROVE  IInv' /\ AbstractChecks' = AbstractChecks
<1>1. hydrated /\ conn \in Callers \cup {Nil} /\ p # Nil
    BY OwnFacts DEF Critical
<1>2. \A q \in Callers \ {p} : conn' = q <=> conn = q
    BY CallersAssumption
<1>3. LocksInv'
    BY <1>1, <1>2, UnlockLocks
<1>4. ~At(p, "map") /\ ~At(p, "map")'
    BY UnlockIs, IdleType DEF At
<1>5. writer' \in Callers \cup {Nil} /\ conn' \in Callers \cup {Nil}
    BY <1>1, UnlockIs
<1> QED
    BY <1>1, <1>3, <1>4, <1>5, UnlockIs, QuietStep

(* An update that was refused, of a pass or of a call that returns. *)
LEMMA RefusedKeeps ==
    ASSUME IInv, NEW p \in Callers, call[p].pc \in {"exec", "stmt"},
           AfterUpdateOf(p),
           UNCHANGED <<rows, issued, cache, hydrated, crashes>>,
           conn' = IF conn = p THEN Nil ELSE conn
    PROVE  IInv' /\ AbstractChecks' = AbstractChecks
<1>1. /\ writer = p /\ LocalsInv(p) /\ readers = {} /\ p # Nil
      /\ call \in [Callers -> CallRecords] /\ call[p] \in CallRecords
      /\ conn \in Callers \cup {Nil}
    BY OwnFacts DEF Critical
<1>2. CASE call[p].op = "pass"
  <2> DEFINE locals == [call[p] EXCEPT !.pc = "next"]
  <2>1. /\ locals \in CallRecords /\ locals.pc = "next" /\ locals.op = "pass"
        /\ locals.todo = call[p].todo
        /\ call' = [call EXCEPT ![p] = locals]
        /\ UNCHANGED <<writer, readers>>
      BY <1>1, <1>2 DEF AfterUpdateOf, GoTo, lockVars, CallRecords
  <2>2. call'[p] = locals /\ Up' = Up
      BY <1>1, <2>1 DEF Up
  <2> HIDE DEF locals
  <2>3. call[p].todo \subseteq Up
      BY <1>1, <1>2 DEF LocalsInv
  <2>4. LocalsInv(p)'
      BY <2>1, <2>2, <2>3 DEF LocalsInv, Creating, Writing, Writes
  <2>5. \/ conn' = conn /\ conn # p
        \/ conn = p /\ conn' = Nil
      OBVIOUS
  <2> QED
      BY <1>1, <2>1, <2>4, <2>5, InsideKeeps
<1>3. CASE call[p].op # "pass"
    BY <1>1, <1>3, UnlockKeeps DEF AfterUpdateOf
<1> QED
    BY <1>2, <1>3

LEMMA FailKeeps ==
    ASSUME IInv, NEW p \in Callers, Fail(p) \/ Cancel(p)
    PROVE  IInv' /\ AbstractChecks' = AbstractChecks
<1>1. /\ call[p].pc \in {"exec", "stmt"} /\ AfterUpdateOf(p)
      /\ UNCHANGED <<rows, issued, cache, hydrated, crashes>>
    BY DEF Fail, Cancel, At, dbVars
<1>2. conn' = IF conn = p THEN Nil ELSE conn
    BY OwnFacts DEF Fail, Cancel, At
<1> QED
    BY <1>1, <1>2, RefusedKeeps

LEMMA EndPassKeeps ==
    ASSUME IInv, NEW p \in Callers, EndPass(p)
    PROVE  IInv' /\ AbstractChecks' = AbstractChecks
<1>1. /\ call[p].pc = "next" /\ Unlock(p)
      /\ UNCHANGED <<rows, issued, cache, hydrated, conn, crashes>>
    BY DEF EndPass, At, dbVars
<1>2. writer = p /\ conn # p
    BY <1>1, OwnFacts DEF Critical
<1> QED
    BY <1>1, <1>2, UnlockKeeps

-----------------------------------------------------------------------------
(* The commit: here a write takes effect. *)

LEMMA TablesAreMaps ==
    ASSUME TypeOK
    PROVE  IsMap(rows) /\ IsMap(cache)
BY DEF TypeOK, IsMap

(* What a write under the lock is about to do, or has just done. *)
LEMMA WriteFacts ==
    ASSUME IInv, NEW p \in Callers, call[p].pc \in {"stmt", "map"}
    PROVE  /\ hydrated /\ writer = p /\ readers = {}
           /\ call[p].op \in Writes /\ call[p].check \in Checks
           /\ call[p].op # "delete" => call[p].arg \in CheckRecords
           /\ call[p].op \in {"set", "create"} =>
                 call[p].arg \in ConsistentRecords
           /\ \A q \in Callers \ {p} : call[q].pc \notin Critical \cup {"drain"}
<1>1. /\ hydrated /\ writer = p /\ readers = {} /\ LocalsInv(p)
    BY OwnFacts DEF Critical
<1>2. \A q \in Callers \ {p} : call[q].pc \notin Critical \cup {"drain"}
    BY <1>1, OwnFacts
<1>3. call[p].op \in Writes
    BY <1>1 DEF LocalsInv, Writing
<1>4. CASE call[p].op = "pass"
  <2>1. call[p].check \in Up /\ call[p].arg = MarkDown(cache[call[p].check])
      BY <1>1, <1>4 DEF LocalsInv
  <2>2. call[p].check \in Checks /\ call[p].arg \in CheckRecords
      BY <2>1, MarkDownType DEF IInv, TypeOK, Up
  <2> QED
      BY <1>1, <1>2, <1>4, <2>2 DEF Writes
<1>5. CASE call[p].op = "delete"
    BY <1>1, <1>2, <1>5 DEF LocalsInv, Writing, Writes
<1>6. CASE call[p].op \in {"set", "create"}
  <2>1. call[p].check \in Checks /\ call[p].arg \in Inputs
      BY <1>1, <1>6 DEF LocalsInv, Writing
  <2> QED
      BY <1>1, <1>2, <1>6, <2>1, InputsAssumption DEF ConsistentRecords, Writes
<1> QED
    BY <1>3, <1>4, <1>5, <1>6 DEF Writes

LEMMA CommitIs ==
    ASSUME IInv, NEW p \in Callers, Commit(p)
    PROVE  /\ AbstractChecks = cache
           /\ call'[p] = [call[p] EXCEPT !.pc = "map"]
           /\ \A q \in Callers \ {p} : call'[q] = call[q]
           /\ call' \in [Callers -> CallRecords]
           /\ rows' = IF call[p].op = "delete"
                      THEN Without(rows, call[p].check)
                      ELSE With(rows, call[p].check, Stored(call[p].arg))
           /\ issued' = IF call[p].op = "create"
                        THEN issued \cup {call[p].check} ELSE issued
           /\ call[p].op \in {"set", "pass", "delete"} =>
                 call[p].check \in DOMAIN rows
           /\ UNCHANGED <<cache, hydrated, writer, readers, crashes>>
           /\ conn = p /\ conn' = Nil
<1>1. /\ call[p].pc = "stmt" /\ Execute(call[p]) /\ conn' = Nil
      /\ call' = [call EXCEPT ![p].pc = "map"]
      /\ UNCHANGED <<cache, hydrated, writer, readers, crashes>>
    BY DEF Commit, At, GoTo, lockVars
<1>2. /\ call \in [Callers -> CallRecords] /\ call[p] \in CallRecords
      /\ conn = p
    BY <1>1, OwnFacts
<1>3. /\ call'[p] = [call[p] EXCEPT !.pc = "map"]
      /\ \A q \in Callers \ {p} : call'[q] = call[q]
      /\ call' \in [Callers -> CallRecords]
    BY <1>1, <1>2 DEF CallRecords
<1>4. AbstractChecks = cache
  <2>1. hydrated /\ \A q \in Callers : ~At(q, "map")
      BY <1>1, WriteFacts DEF At, Critical
  <2>2. AbstractCases
      BY AbstractIs DEF IInv
  <2> QED
      BY <2>1, <2>2 DEF AbstractCases
<1>5. /\ rows' = IF call[p].op = "delete"
                 THEN Without(rows, call[p].check)
                 ELSE With(rows, call[p].check, Stored(call[p].arg))
      /\ issued' = IF call[p].op = "create"
                   THEN issued \cup {call[p].check} ELSE issued
      /\ call[p].op \in {"set", "pass", "delete"} =>
            call[p].check \in DOMAIN rows
    BY <1>1 DEF Execute
<1> QED
    BY <1>1, <1>2, <1>3, <1>4, <1>5

LEMMA CommitKeeps ==
    ASSUME IInv, NEW p \in Callers, Commit(p)
    PROVE  IInv' /\ AbstractChecks' = Applied(cache, call[p])
<1> DEFINE q == call[p]
<1>1. /\ AbstractChecks = cache
      /\ call'[p] = [q EXCEPT !.pc = "map"]
      /\ \A x \in Callers \ {p} : call'[x] = call[x]
      /\ call' \in [Callers -> CallRecords]
      /\ rows' = IF q.op = "delete" THEN Without(rows, q.check)
                                    ELSE With(rows, q.check, Stored(q.arg))
      /\ issued' = IF q.op = "create" THEN issued \cup {q.check} ELSE issued
      /\ q.op \in {"set", "pass", "delete"} => q.check \in DOMAIN rows
      /\ UNCHANGED <<cache, hydrated, writer, readers, crashes>>
      /\ conn = p /\ conn' = Nil
    BY CommitIs
<1>2. q.pc = "stmt" /\ q \in CallRecords
    BY OwnFacts DEF Commit, At
<1>3. /\ hydrated /\ writer = p /\ readers = {}
      /\ q.op \in Writes /\ q.check \in Checks
      /\ q.op # "delete" => q.arg \in CheckRecords
      /\ \A x \in Callers \ {p} : call[x].pc \notin Critical \cup {"drain"}
    BY <1>2, WriteFacts
<1>4. /\ call'[p].pc = "map" /\ call'[p].op = q.op
      /\ call'[p].check = q.check /\ call'[p].arg = q.arg
      /\ call'[p].todo = q.todo
    BY <1>1, <1>2 DEF CallRecords
<1>5. IsMap(rows) /\ IsMap(cache) /\ Matches(rows, cache) /\ Matches(rows, rows)
    BY <1>1, TablesAreMaps DEF IInv, CoherenceInv
<1>6. LocalsInv(p)
    BY OwnFacts
<1> HIDE DEF q
<1>7. /\ IsMap(rows')
      /\ DOMAIN rows' \subseteq issued'
      /\ Matches(rows', Applied(cache, q))
      /\ Matches(rows', rows')
  <2>1. CASE q.op = "delete"
    <3>1. rows' = Without(rows, q.check) /\ issued' = issued
        BY <1>1, <2>1
    <3>2. /\ IsMap(Without(rows, q.check))
          /\ DOMAIN Without(rows, q.check) = DOMAIN rows \ {q.check}
        BY <1>5, WithoutIs
    <3>3. Matches(Without(rows, q.check), Without(cache, q.check))
        BY <1>5, MatchesWithout
    <3>4. Matches(Without(rows, q.check), Without(rows, q.check))
        BY <1>5, MatchesWithout
    <3>5. DOMAIN rows \subseteq issued
        BY DEF IInv, TypeOK
    <3> QED
        BY <2>1, <3>1, <3>2, <3>3, <3>4, <3>5 DEF Applied
  <2>2. CASE q.op # "delete"
    <3>1. rows' = With(rows, q.check, Stored(q.arg)) /\ q.arg \in CheckRecords
        BY <1>1, <1>3, <2>2
    <3>2. Stored(q.arg) \in CheckRecords /\ Stored(Stored(q.arg)) = Stored(q.arg)
        BY <3>1, StoredType
    <3>3. /\ IsMap(rows')
          /\ DOMAIN rows' = DOMAIN rows \cup {q.check}
        BY <1>3, <1>5, <3>1, <3>2, WithIs
    <3>4. Matches(rows', With(cache, q.check, q.arg))
        BY <1>3, <1>5, <3>1, MatchesWith
    <3>5. Matches(With(rows, q.check, Stored(Stored(q.arg))),
                  With(rows, q.check, Stored(q.arg)))
        BY <1>3, <1>5, <3>2, MatchesWith
    <3>6. DOMAIN rows \subseteq issued
        BY DEF IInv, TypeOK
    <3>7. q.check \in issued'
        BY <1>1, <1>3, <2>2, <3>6 DEF Writes
    <3>8. issued \subseteq issued'
        BY <1>1
    <3> QED
        BY <2>2, <3>1, <3>2, <3>3, <3>4, <3>5, <3>6, <3>7, <3>8 DEF Applied
  <2> QED
      BY <2>1, <2>2
<1>8. TypeOK'
  <2>1. issued' \subseteq Checks
      BY <1>1, <1>3 DEF IInv, TypeOK
  <2> QED
      BY <1>1, <1>7, <2>1 DEF IInv, TypeOK, IsMap
<1>9. LocksInv'
  <2> SUFFICES ASSUME NEW x \in Callers
               PROVE  /\ writer' = x <=> call'[x].pc \in Critical \cup {"drain"}
                      /\ x \in readers' <=> At(x, "read")'
                      /\ conn' = x <=> call'[x].pc \in {"stmt", "busy"}
                      /\ call'[x].pc \in Critical => readers' = {}
      BY <1>1, <1>3 DEF LocksInv
  <2>1. CASE x = p
      BY <1>1, <1>3, <1>4, <2>1, CallersAssumption DEF At, Critical
  <2>2. CASE x # p
    <3>1. call'[x] = call[x]
        BY <1>1, <2>2
    <3>2. writer' # x /\ call'[x].pc \notin Critical \cup {"drain"}
        BY <1>1, <1>3, <2>2, <3>1
    <3>3. conn # x /\ conn' # x /\ call'[x].pc \notin {"stmt", "busy"}
        BY <1>1, <2>2, <3>1, OwnFacts
    <3>4. x \in readers' <=> At(x, "read")'
        BY <1>1, <3>1, OwnFacts DEF At
    <3> QED
        BY <3>2, <3>3, <3>4
  <2> QED
      BY <2>1, <2>2
<1>10. Up' = Up
    BY <1>1 DEF Up
<1>11. \A x \in Callers : Creating(x)' <=> Creating(x)
    BY <1>1, <1>2, <1>4 DEF Creating, Writing, q
<1>12. \A x \in Callers : call'[x].check = call[x].check
    BY <1>1, <1>4 DEF q
<1>13. LocalsInv(p)'
    BY <1>2, <1>4, <1>6, <1>10, <1>11, <1>12, <1>1 DEF LocalsInv, Writing, q
<1>14. ASSUME NEW x \in Callers \ {p}
       PROVE  LocalsInv(x)'
  <2>1. LocalsInv(x) /\ call'[x] = call[x]
      BY <1>1, OwnFacts
  <2>2. ASSUME Creating(x), call[x].check = q.check
        PROVE  q.op # "create"
    <3>1. Creating(p) => call[x].check # call[p].check
        BY <1>6, <2>2 DEF LocalsInv
    <3> QED
        BY <1>2, <2>2, <3>1 DEF Creating, Writing, q
  <2>3. Creating(x) /\ call[x].pc # "map" => call[x].check \notin issued'
      BY <1>1, <2>1, <2>2 DEF LocalsInv
  <2> QED
      BY <1>1, <1>10, <1>11, <1>12, <2>1, <2>3 DEF LocalsInv
<1>15. AbstractChecks' = Applied(cache, q)
  <2>1. LocksInv' => AbstractCases'
      BY AbstractIs, PTL
  <2>2. hydrated' /\ At(p, "map")'
      BY <1>1, <1>3, <1>4 DEF At
  <2>3. AbstractChecks' = Applied(cache', call'[p])
      BY <1>9, <2>1, <2>2 DEF AbstractCases
  <2> QED
      BY <1>1, <1>4, <2>3 DEF Applied
<1>16. CoherenceInv'
    BY <1>7, <1>15 DEF CoherenceInv
<1> QED
    BY <1>8, <1>9, <1>13, <1>14, <1>15, <1>16 DEF IInv, q

(***************************************************************************)
(* The map follows.  The store has had the write since the commit.         *)
(***************************************************************************)
LEMMA ChangeMapIs ==
    ASSUME IInv, NEW p \in Callers, ChangeMap(p)
    PROVE  /\ call[p].pc = "map" /\ AfterUpdateOf(p)
           /\ cache' = Applied(cache, call[p])
           /\ AbstractChecks = cache' /\ IsMap(cache')
           /\ UNCHANGED <<rows, issued, hydrated, conn, crashes>>
<1>1. /\ call[p].pc = "map" /\ AfterUpdateOf(p)
      /\ cache' = Applied(cache, call[p])
      /\ UNCHANGED <<rows, issued, hydrated, conn, crashes>>
    BY DEF ChangeMap, At, Applied, dbVars
<1>2. AbstractCases
    BY AbstractIs DEF IInv
<1>3. AbstractChecks = cache'
    BY <1>1, <1>2, WriteFacts DEF AbstractCases, At
<1>4. IsMap(cache)
    BY TablesAreMaps DEF IInv
<1>5. IsMap(Applied(cache, call[p]))
  <2>1. CASE call[p].op = "delete"
      BY <1>4, <2>1, WithoutIs DEF Applied
  <2>2. CASE call[p].op # "delete"
    <3>1. call[p].check \in Checks /\ call[p].arg \in CheckRecords
        BY <1>1, <2>2, WriteFacts
    <3> QED
        BY <1>4, <2>2, <3>1, WithIs DEF Applied
  <2> QED
      BY <2>1, <2>2
<1> QED
    BY <1>1, <1>3, <1>5

(* The map changes under a lock no other call depends on. *)
LEMMA MapStep ==
    ASSUME IInv, NEW p \in Callers, ChangeMap(p), Others(p),
           call' \in [Callers -> CallRecords],
           writer' \in Callers \cup {Nil}, readers' \subseteq Callers,
           LocksInv', LocalsInv(p)', ~At(p, "map")'
    PROVE  IInv' /\ AbstractChecks' = AbstractChecks
<1>1. /\ call[p].pc = "map"
      /\ AbstractChecks = cache' /\ IsMap(cache')
      /\ UNCHANGED <<rows, issued, hydrated, conn, crashes>>
    BY ChangeMapIs
<1>2. /\ hydrated
      /\ \A q \in Callers \ {p} : call[q].pc \notin Critical \cup {"drain"}
    BY <1>1, WriteFacts
<1>3. TypeOK'
    BY <1>1 DEF IInv, TypeOK, IsMap
<1>4. \A x \in Callers \ {p} :
         /\ \/ call'[x].pc = call[x].pc
            \/ call[x].pc = "blocked" /\ call'[x].pc = "read"
         /\ call'[x].op = call[x].op /\ call'[x].check = call[x].check
         /\ call'[x].arg = call[x].arg /\ call'[x].todo = call[x].todo
    BY OthersPc DEF IInv
<1>5. \A x \in Callers \ {p} : Creating(x)' => Creating(x)
    BY <1>4 DEF Creating, Writing
<1>6. ASSUME NEW q \in Callers \ {p}
      PROVE  LocalsInv(q)'
  <2>1. LocalsInv(q)
      BY OwnFacts
  <2>2. ASSUME Creating(q)', NEW x \in Callers \ {q}, Creating(x)'
        PROVE  call'[x].check # call'[q].check
    <3>1. CASE x = p
        BY <2>2, <3>1 DEF LocalsInv
    <3>2. CASE x # p
        BY <1>4, <1>5, <2>1, <2>2, <3>2 DEF LocalsInv
    <3> QED
        BY <3>1, <3>2
  <2>3. /\ call'[q].pc \notin Critical
        /\ call'[q].pc \in Writing => call'[q].pc = call[q].pc
      BY <1>2, <1>4 DEF Critical, Writing
  <2> QED
      BY <1>1, <1>4, <1>5, <2>1, <2>2, <2>3 DEF LocalsInv, Writing, Critical
<1>7. AbstractChecks' = cache'
  <2>1. LocksInv' => AbstractCases'
      BY AbstractIs, PTL
  <2>2. \A q \in Callers : ~At(q, "map")'
      BY <1>2, <1>4 DEF At, Critical
  <2> QED
      BY <1>1, <1>2, <2>1, <2>2 DEF AbstractCases
<1>8. CoherenceInv'
    BY <1>1, <1>7 DEF IInv, CoherenceInv
<1> QED
    BY <1>1, <1>3, <1>6, <1>7, <1>8 DEF IInv

LEMMA ChangeMapKeeps ==
    ASSUME IInv, NEW p \in Callers, ChangeMap(p)
    PROVE  IInv' /\ AbstractChecks' = AbstractChecks
<1>1. /\ call[p].pc = "map" /\ AfterUpdateOf(p)
      /\ cache' = Applied(cache, call[p])
      /\ UNCHANGED <<rows, issued, hydrated, conn, crashes>>
    BY ChangeMapIs
<1>2. /\ call \in [Callers -> CallRecords] /\ call[p] \in CallRecords
      /\ LocalsInv(p) /\ conn # p
      /\ writer \in Callers \cup {Nil} /\ readers \subseteq Callers
    BY <1>1, OwnFacts
<1>3. /\ hydrated /\ writer = p /\ readers = {}
      /\ call[p].check \in Checks
      /\ call[p].op # "delete" => call[p].arg \in CheckRecords
      /\ \A q \in Callers \ {p} : call[q].pc \notin Critical \cup {"drain"}
    BY <1>1, WriteFacts
<1>4. CASE call[p].op = "pass"
  <2>1. /\ call' = [call EXCEPT ![p] = [@ EXCEPT !.pc = "next"]]
        /\ UNCHANGED <<writer, readers>>
      BY <1>1, <1>4 DEF AfterUpdateOf, GoTo, lockVars
  <2>2. /\ call' \in [Callers -> CallRecords]
        /\ call'[p].pc = "next" /\ call'[p].op = "pass"
        /\ call'[p].todo = call[p].todo
        /\ \A q \in Callers \ {p} : call'[q] = call[q]
      BY <1>2, <1>4, <2>1 DEF CallRecords
  <2>3. call[p].todo \subseteq Up'
    <3>1. call[p].todo \subseteq Up \ {call[p].check}
        BY <1>1, <1>2, <1>4 DEF LocalsInv
    <3>2. IsMap(cache)
        BY TablesAreMaps DEF IInv
    <3>3. /\ cache' = With(cache, call[p].check, call[p].arg)
          /\ call[p].arg \in CheckRecords
        BY <1>1, <1>3, <1>4 DEF Applied
    <3>4. \A x \in DOMAIN cache \ {call[p].check} :
             x \in DOMAIN cache' /\ cache'[x] = cache[x]
        BY <3>2, <3>3 DEF With, IsMap
    <3> QED
        BY <3>1, <3>4 DEF Up
  <2>4. LocalsInv(p)'
      BY <2>2, <2>3 DEF LocalsInv, Creating, Writing, Writes
  <2>5. LocksInv'
    <3> SUFFICES ASSUME NEW x \in Callers
                 PROVE  /\ writer' = x <=> call'[x].pc \in Critical \cup {"drain"}
                        /\ x \in readers' <=> At(x, "read")'
                        /\ conn' = x <=> call'[x].pc \in {"stmt", "busy"}
                        /\ call'[x].pc \in Critical => readers' = {}
        BY <1>1, <1>3 DEF LocksInv
    <3>1. CASE x = p
        BY <1>1, <1>2, <1>3, <2>1, <2>2, <3>1 DEF At, Critical
    <3>2. CASE x # p
      <4>1. call'[x] = call[x]
          BY <2>2, <3>2
      <4>2. writer' # x /\ call'[x].pc \notin Critical \cup {"drain"}
          BY <1>3, <2>1, <3>2, <4>1
      <4>3. conn' = x <=> call'[x].pc \in {"stmt", "busy"}
          BY <1>1, <4>1, OwnFacts
      <4>4. x \in readers' <=> At(x, "read")'
          BY <2>1, <4>1, OwnFacts DEF At
      <4> QED
          BY <4>2, <4>3, <4>4
    <3> QED
        BY <3>1, <3>2
  <2>6. Others(p) /\ ~At(p, "map")'
      BY <2>2 DEF Others, At
  <2> QED
      BY <1>2, <2>1, <2>2, <2>4, <2>5, <2>6, MapStep
<1>5. CASE call[p].op # "pass"
  <2>1. Unlock(p)
      BY <1>1, <1>5 DEF AfterUpdateOf
  <2>2. LocksInv'
      BY <1>1, <1>2, <1>3, <2>1, UnlockLocks
  <2>3. ~At(p, "map")'
      BY <1>3, <2>1, UnlockIs, IdleType DEF At
  <2> QED
      BY <1>3, <2>1, <2>2, <2>3, UnlockIs, MapStep
<1> QED
    BY <1>4, <1>5

-----------------------------------------------------------------------------
(* Start and crash. *)

LEMMA NoChecksMap == IsMap(NoChecks) /\ DOMAIN NoChecks = {}
BY DEF NoChecks, IsMap

LEMMA Starts ==
    ASSUME Init
    PROVE  IInv /\ AbstractChecks = NoChecks
<1>1. TypeOK
  <2>1. IsMap(rows) /\ IsMap(cache) /\ DOMAIN rows = {} /\ issued = {}
      BY NoChecksMap DEF Init
  <2>2. call \in [Callers -> CallRecords] /\ crashes \in 0..MaxCrashes
      BY IdleType, MaxCrashesAssumption DEF Init
  <2> QED
      BY <2>1, <2>2 DEF Init, TypeOK, IsMap
<1>2. LocksInv
    BY IdleType, CallersAssumption DEF Init, LocksInv, At, Critical
<1>3. \A p \in Callers : LocalsInv(p)
    BY IdleType DEF Init, LocalsInv, Creating, Writing
<1>4. AbstractChecks = NoChecks
    BY DEF Init, AbstractChecks
<1>5. CoherenceInv
    BY <1>4, NoChecksMap DEF Init, CoherenceInv, Matches
<1> QED
    BY <1>1, <1>2, <1>3, <1>4, <1>5 DEF IInv

LEMMA HydrateKeeps ==
    ASSUME IInv, Hydrate
    PROVE  IInv' /\ AbstractChecks' = AbstractChecks
<1>1. /\ ~hydrated /\ hydrated' /\ cache' = rows
      /\ UNCHANGED <<rows, issued, writer, readers, conn, call, crashes>>
    BY DEF Hydrate, dbVars, lockVars
<1>2. \A p \in Callers : call'[p] = Idle
    BY <1>1 DEF IInv, LocksInv
<1>3. TypeOK'
    BY <1>1 DEF IInv, TypeOK
<1>4. LocksInv'
    BY <1>1, <1>2 DEF IInv, LocksInv, At
<1>5. \A p \in Callers : LocalsInv(p)'
    BY <1>2, IdleType DEF LocalsInv, Creating, Writing
<1>6. AbstractChecks = rows
    BY <1>1 DEF AbstractChecks
<1>7. AbstractChecks' = rows
    BY <1>1, <1>2, IdleType DEF AbstractChecks, At
<1>8. CoherenceInv'
    BY <1>1, <1>7 DEF IInv, CoherenceInv
<1> QED
    BY <1>3, <1>4, <1>5, <1>6, <1>7, <1>8 DEF IInv

LEMMA CrashKeeps ==
    ASSUME IInv, Crash
    PROVE  /\ IInv' /\ AbstractChecks' = rows /\ issued' = issued
<1>1. /\ ~hydrated' /\ cache' = NoChecks
      /\ crashes < MaxCrashes /\ crashes' = crashes + 1
      /\ writer' = Nil /\ readers' = {} /\ conn' = Nil
      /\ call' = [p \in Callers |-> Idle]
      /\ UNCHANGED <<rows, issued>>
    BY DEF Crash, dbVars
<1>2. hydrated' = FALSE
    BY DEF Crash
<1>3. TypeOK'
  <2>1. crashes' \in 0..MaxCrashes
      BY <1>1, MaxCrashesAssumption DEF IInv, TypeOK
  <2> QED
      BY <1>1, <1>2, <2>1, NoChecksMap, IdleType DEF IInv, TypeOK, IsMap
<1>4. LocksInv'
    BY <1>1, IdleType, CallersAssumption DEF LocksInv, At, Critical
<1>5. \A p \in Callers : LocalsInv(p)'
    BY <1>1, IdleType DEF LocalsInv, Creating, Writing
<1>6. AbstractChecks' = rows
    BY <1>1 DEF AbstractChecks
<1>7. CoherenceInv'
    BY <1>1, <1>6 DEF IInv, CoherenceInv
<1> QED
    BY <1>1, <1>3, <1>4, <1>5, <1>6, <1>7 DEF IInv

-----------------------------------------------------------------------------

(* Every step but a commit and a crash is invisible from the store. *)
LEMMA QuietKeeps ==
    ASSUME IInv, NEW p \in Callers,
           \/ Start(p) \/ Lock(p) \/ Acquire(p) \/ Cancel(p) \/ AcquireQuery(p)
           \/ Step(p) /\ ~Commit(p)
    PROVE  IInv' /\ AbstractChecks' = AbstractChecks /\ issued' = issued
<1>1. IInv' /\ AbstractChecks' = AbstractChecks
    BY BeginReadKeeps, BeginCallKeeps, LockKeeps, AcquireKeeps, FailKeeps,
       QueryKeeps, EndReadKeeps, LockedKeeps, PassNextKeeps, EndPassKeeps,
       ChangeMapKeeps
    DEF Start, Step
<1>2. issued' = issued
    BY DEF Start, Step, BeginRead, BeginQuery, BeginSet, BeginCreate,
           BeginDelete, BeginPass, Begin, Lock, Acquire, Cancel, AcquireQuery,
           EndRead, Locked, PassNext, EndPass, Fail, ChangeMap, EndQuery, dbVars
<1> QED
    BY <1>1, <1>2

LEMMA StutterKeeps ==
    ASSUME IInv, UNCHANGED vars
    PROVE  IInv' /\ AbstractChecks' = AbstractChecks /\ issued' = issued
<1>1. UNCHANGED <<rows, issued, cache, hydrated, writer, readers, conn, call,
                  crashes>>
    BY DEF vars
<1>2. AbstractChecks' = AbstractChecks
    BY <1>1 DEF AbstractChecks, At
<1>3. TypeOK' /\ LocksInv' /\ CoherenceInv'
    BY <1>1, <1>2 DEF IInv, TypeOK, LocksInv, At, CoherenceInv
<1>4. \A p \in Callers : LocalsInv(p)'
    BY <1>1 DEF IInv, LocalsInv, Creating, Up
<1> QED
    BY <1>1, <1>2, <1>3, <1>4 DEF IInv

LEMMA Inductive ==
    ASSUME IInv, [Next]_vars
    PROVE  IInv'
<1>1. CASE Hydrate
    BY <1>1, HydrateKeeps
<1>2. ASSUME NEW p \in Callers,
             Start(p) \/ Lock(p) \/ Acquire(p) \/ Cancel(p) \/ AcquireQuery(p)
                \/ Step(p)
      PROVE  IInv'
    BY <1>2, QuietKeeps, CommitKeeps
<1>3. CASE Crash
    BY <1>3, CrashKeeps
<1>4. CASE UNCHANGED vars
    BY <1>4, StutterKeeps
<1> QED
    BY <1>1, <1>2, <1>3, <1>4 DEF Next

LEMMA Invariance == Spec => []IInv
<1>1. Init => IInv
    BY Starts
<1> QED
    BY <1>1, Inductive, PTL DEF Spec

(* CheckStore's records and edits are those of Checks, by another name. *)
LEMMA SameData ==
    /\ Store!ConsistentRecords = ConsistentRecords
    /\ \A check : Store!MarkDown(check) = MarkDown(check)
    /\ \A check : Store!Stored(check) = Stored(check)
<1>1. Store!ConsistentRecords = ConsistentRecords
    BY DEF Store!ConsistentRecords, ConsistentRecords, Store!CheckRecords,
           CheckRecords, Store!Consistent, Consistent, Store!EffectiveStatus,
           EffectiveStatus, Store!Positive, Positive, Store!Status, Status
<1>2. \A check : Store!MarkDown(check) = MarkDown(check)
    BY DEF Store!MarkDown, MarkDown
<1>3. \A check : Store!Stored(check) = Stored(check)
    BY DEF Store!Stored, Stored, Store!Truncate, Truncate
<1> QED
    BY <1>1, <1>2, <1>3

(* A commit is one operation of the store. *)
LEMMA CommitImplements ==
    ASSUME IInv, NEW p \in Callers, Commit(p)
    PROVE  Store!StoreNext
<1> DEFINE c == call[p].check
           a == call[p].arg
<1>1. /\ AbstractChecks = cache
      /\ AbstractChecks' = Applied(cache, call[p])
      /\ issued' = IF call[p].op = "create" THEN issued \cup {c} ELSE issued
      /\ call[p].op \in {"set", "pass", "delete"} => c \in DOMAIN rows
    BY CommitIs, CommitKeeps
<1>2. /\ call[p].pc = "stmt" /\ LocalsInv(p)
    BY OwnFacts DEF Commit, At
<1>3. /\ call[p].op \in Writes /\ c \in Checks
      /\ call[p].op # "delete" => a \in CheckRecords
      /\ call[p].op \in {"set", "create"} => a \in ConsistentRecords
    BY <1>2, WriteFacts
<1>4. /\ IsMap(AbstractChecks) /\ DOMAIN AbstractChecks = DOMAIN rows
    BY <1>1, TablesAreMaps DEF IInv, CoherenceInv, Matches
<1>5. CASE call[p].op = "create"
  <2>1. c \notin issued
      BY <1>2, <1>5 DEF LocalsInv, Creating, Writing
  <2>2. /\ AbstractChecks' = With(AbstractChecks, c, a)
        /\ issued' = issued \cup {c}
      BY <1>1, <1>5 DEF Applied
  <2>3. c \in DOMAIN AbstractChecks' /\ AbstractChecks'[c] = a
      BY <2>2 DEF With
  <2>4. Store!Create(c, AbstractChecks'[c])
      BY <1>3, <2>1, <2>2, <2>3 DEF Store!Create, With
  <2>5. Store!WriteOne
      BY <1>3, <1>5, <2>3, <2>4, SameData DEF Store!WriteOne
  <2> QED
      BY <2>5 DEF Store!StoreNext
<1>6. CASE call[p].op = "set"
  <2>1. /\ AbstractChecks' = With(AbstractChecks, c, a)
        /\ issued' = issued /\ c \in DOMAIN AbstractChecks
      BY <1>1, <1>4, <1>6 DEF Applied
  <2>2. c \in DOMAIN AbstractChecks' /\ AbstractChecks'[c] = a
      BY <2>1 DEF With
  <2>3. AbstractChecks' = [AbstractChecks EXCEPT ![c] = a]
      BY <1>4, <2>1 DEF With, IsMap
  <2>4. Store!Set(c, AbstractChecks'[c])
      BY <2>1, <2>2, <2>3 DEF Store!Set
  <2>5. Store!WriteOne
      BY <1>3, <1>6, <2>2, <2>4, SameData DEF Store!WriteOne
  <2> QED
      BY <2>5 DEF Store!StoreNext
<1>7. CASE call[p].op = "pass"
  <2>1. /\ AbstractChecks' = With(AbstractChecks, c, a)
        /\ issued' = issued /\ c \in DOMAIN AbstractChecks
      BY <1>1, <1>4, <1>7 DEF Applied
  <2>2. /\ AbstractChecks[c].status = "up"
        /\ a = MarkDown(AbstractChecks[c])
      BY <1>1, <1>2, <1>7 DEF LocalsInv, Up
  <2> DEFINE W == [x \in {c} |-> MarkDown(AbstractChecks[x])]
  <2>3. AbstractChecks' = [x \in DOMAIN AbstractChecks |->
                             IF x \in DOMAIN W THEN W[x] ELSE AbstractChecks[x]]
      BY <1>4, <2>1, <2>2 DEF With, IsMap
  <2>4. Store!SetAll(W)
      BY <2>1, <2>3 DEF Store!SetAll
  <2>5. {c} \in SUBSET {x \in DOMAIN AbstractChecks :
                           AbstractChecks[x].status = "up"}
      BY <2>1, <2>2
  <2>6. W = [x \in {c} |-> Store!MarkDown(AbstractChecks[x])]
      BY SameData
  <2>7. Store!SetAll([x \in {c} |-> Store!MarkDown(AbstractChecks[x])])
      BY <2>4, <2>6
  <2>8. Store!WriteDown
      BY <2>5, <2>7, Zenon DEF Store!WriteDown
  <2> QED
      BY <2>8 DEF Store!StoreNext
<1>8. CASE call[p].op = "delete"
  <2>1. /\ AbstractChecks' = Without(AbstractChecks, c)
        /\ issued' = issued /\ c \in DOMAIN AbstractChecks
      BY <1>1, <1>4, <1>8 DEF Applied
  <2>2. Store!Delete(c)
      BY <2>1 DEF Store!Delete, Without
  <2> QED
      BY <2>1, <2>2 DEF Store!StoreNext
<1> QED
    BY <1>3, <1>5, <1>6, <1>7, <1>8 DEF Writes

(* A crash is a reload from the table. *)
LEMMA CrashImplements ==
    ASSUME IInv, Crash
    PROVE  Store!StoreNext
<1>1. AbstractChecks' = rows /\ issued' = issued
    BY CrashKeeps
<1>2. rows = [c \in DOMAIN AbstractChecks |-> Stored(AbstractChecks[c])]
    BY TablesAreMaps DEF IInv, CoherenceInv, Matches, IsMap
<1>3. Store!Reload
    BY <1>1, <1>2, SameData DEF Store!Reload
<1> QED
    BY <1>3 DEF Store!StoreNext

(* A step of the cache is one of the store, or the store does not see it. *)
LEMMA StepImplements ==
    ASSUME IInv, [Next]_vars
    PROVE  \/ Store!StoreNext
           \/ AbstractChecks' = AbstractChecks /\ issued' = issued
<1>1. CASE Hydrate
    BY <1>1, HydrateKeeps DEF Hydrate, dbVars
<1>2. ASSUME NEW p \in Callers,
             Start(p) \/ Lock(p) \/ Acquire(p) \/ Cancel(p) \/ AcquireQuery(p)
                \/ Step(p)
      PROVE  \/ Store!StoreNext
             \/ AbstractChecks' = AbstractChecks /\ issued' = issued
    BY <1>2, QuietKeeps, CommitImplements
<1>3. CASE Crash
    BY <1>3, CrashImplements
<1>4. CASE UNCHANGED vars
    BY <1>4, StutterKeeps
<1> QED
    BY <1>1, <1>2, <1>3, <1>4 DEF Next

-----------------------------------------------------------------------------

(* The variables of CheckCache, its lock, the connection and the callers   *)
(* keep their types; no row exists whose UUID was never issued.            *)
THEOREM TypeCorrect == Spec => []TypeOK
<1>1. IInv => TypeOK
    BY DEF IInv
<1> QED
    BY <1>1, Invariance, PTL

(* Get and Snapshot never see a map that differs from the committed table. *)
THEOREM ReadersSeeTheTableAlways == Spec => []ReadersSeeTheTable
<1>1. ASSUME IInv
      PROVE  ReadersSeeTheTable
  <2> SUFFICES ASSUME NEW p \in Callers, At(p, "read")
               PROVE  /\ DOMAIN cache = DOMAIN rows
                      /\ \A c \in DOMAIN cache : rows[c] = Stored(cache[c])
      BY DEF ReadersSeeTheTable
  <2>1. p \in readers /\ hydrated
      BY <1>1, OwnFacts DEF At
  <2>2. \A q \in Callers : ~At(q, "map")
      BY <1>1, <2>1, OwnFacts DEF At, Critical
  <2>3. AbstractCases
      BY <1>1, AbstractIs DEF IInv
  <2>4. AbstractChecks = cache
      BY <2>1, <2>2, <2>3 DEF AbstractCases
  <2> QED
      BY <1>1, <2>4 DEF IInv, CoherenceInv, Matches
<1> QED
    BY <1>1, Invariance, PTL

-----------------------------------------------------------------------------
(* Nobody waits in a circle. *)

(* A reader sleeps only behind a writer: IInv does not need this, the       *)
(* freedom from lost wake-ups does.                                         *)
BlockedInv == \A p \in Callers : At(p, "blocked") => writer # Nil

(* A step that puts nobody to sleep and leaves the writer where it is. *)
LEMMA AwakeMove ==
    ASSUME IInv, BlockedInv, NEW p \in Callers, NEW locals,
           call' = [call EXCEPT ![p] = locals],
           locals.pc = "blocked" => writer # Nil,
           writer' \in {writer, p}
    PROVE  BlockedInv'
<1>1. /\ call'[p] = locals
      /\ \A q \in Callers \ {p} : call'[q] = call[q]
    BY OwnFacts
<1>2. writer # Nil => writer' # Nil
    BY CallersAssumption
<1> QED
    BY <1>1, <1>2 DEF BlockedInv, At

(* mu.Unlock wakes every reader that sleeps. *)
LEMMA UnlockWakes ==
    ASSUME IInv, NEW p \in Callers, Unlock(p)
    PROVE  BlockedInv'
<1> SUFFICES ASSUME NEW q \in Callers
             PROVE  call'[q].pc # "blocked"
    BY DEF BlockedInv, At
<1>1. call'[q] = IF q = p THEN Idle
                 ELSE IF call[q].pc = "blocked"
                      THEN [call[q] EXCEPT !.pc = "read"]
                      ELSE call[q]
    BY DEF Unlock, At
<1>2. call[q] \in CallRecords
    BY OwnFacts
<1>3. [call[q] EXCEPT !.pc = "read"].pc = "read"
    BY <1>2 DEF CallRecords
<1> QED
    BY <1>1, <1>3, IdleType

LEMMA AfterUpdateWakes ==
    ASSUME IInv, BlockedInv, NEW p \in Callers, AfterUpdateOf(p)
    PROVE  BlockedInv'
<1>1. CASE call[p].op = "pass"
  <2> DEFINE locals == [call[p] EXCEPT !.pc = "next"]
  <2>1. /\ call' = [call EXCEPT ![p] = locals] /\ writer' = writer
      BY <1>1 DEF AfterUpdateOf, GoTo, lockVars
  <2>2. locals.pc = "next"
      BY OwnFacts DEF CallRecords
  <2> QED
      BY <2>1, <2>2, AwakeMove
<1>2. CASE call[p].op # "pass"
    BY <1>2, UnlockWakes DEF AfterUpdateOf
<1> QED
    BY <1>1, <1>2

LEMMA BeginsAwake ==
    ASSUME IInv, BlockedInv, NEW p \in Callers, Start(p)
    PROVE  BlockedInv'
<1>1. ASSUME NEW locals, Begin(p, locals), writer' = writer,
             locals.pc = "blocked" => writer # Nil
      PROVE  BlockedInv'
    BY <1>1, AwakeMove DEF Begin
<1>2. CASE BeginRead(p)
  <2> DEFINE locals == [Idle EXCEPT !.pc = IF writer = Nil THEN "read"
                                                           ELSE "blocked"]
  <2>1. locals.pc = IF writer = Nil THEN "read" ELSE "blocked"
      BY DEF Idle
  <2>2. Begin(p, locals) /\ writer' = writer
      BY <1>2 DEF BeginRead
  <2> HIDE DEF locals
  <2>3. locals.pc = "blocked" => writer # Nil
      BY <2>1
  <2> QED
      BY <1>1, <2>2, <2>3
<1>3. CASE BeginQuery(p)
  <2>1. [Idle EXCEPT !.pc = "query"].pc = "query"
      BY DEF Idle
  <2> QED
      BY <1>1, <1>3, <2>1 DEF BeginQuery, lockVars
<1>4. CASE BeginSet(p)
  <2>1. PICK c \in Checks, check \in Inputs :
           Begin(p, [Idle EXCEPT !.pc = "lock", !.op = "set", !.check = c,
                                 !.arg = check])
      BY <1>4 DEF BeginSet
  <2>2. [Idle EXCEPT !.pc = "lock", !.op = "set", !.check = c,
                     !.arg = check].pc = "lock"
      BY DEF Idle
  <2> QED
      BY <1>1, <1>4, <2>1, <2>2 DEF BeginSet, lockVars
<1>5. CASE BeginCreate(p)
  <2>1. PICK c \in Fresh, check \in Inputs :
           Begin(p, [Idle EXCEPT !.pc = "lock", !.op = "create", !.check = c,
                                 !.arg = check])
      BY <1>5 DEF BeginCreate
  <2>2. [Idle EXCEPT !.pc = "lock", !.op = "create", !.check = c,
                     !.arg = check].pc = "lock"
      BY DEF Idle
  <2> QED
      BY <1>1, <1>5, <2>1, <2>2 DEF BeginCreate, lockVars
<1>6. CASE BeginDelete(p)
  <2>1. PICK c \in Checks :
           Begin(p, [Idle EXCEPT !.pc = "lock", !.op = "delete", !.check = c])
      BY <1>6 DEF BeginDelete
  <2>2. [Idle EXCEPT !.pc = "lock", !.op = "delete", !.check = c].pc = "lock"
      BY DEF Idle
  <2> QED
      BY <1>1, <1>6, <2>1, <2>2 DEF BeginDelete, lockVars
<1>7. CASE BeginPass(p)
  <2>1. [Idle EXCEPT !.pc = "lock", !.op = "pass"].pc = "lock"
      BY DEF Idle
  <2> QED
      BY <1>1, <1>7, <2>1 DEF BeginPass, lockVars
<1> QED
    BY <1>2, <1>3, <1>4, <1>5, <1>6, <1>7 DEF Start

LEMMA BlockedInductive ==
    ASSUME IInv, BlockedInv, [Next]_vars
    PROVE  BlockedInv'
<1>1. CASE Hydrate
    BY <1>1 DEF Hydrate, lockVars, BlockedInv, At
<1>2. ASSUME NEW p \in Callers, Start(p)
      PROVE  BlockedInv'
    BY <1>2, BeginsAwake
<1>3. ASSUME NEW p \in Callers, NEW pc, GoTo(p, pc), pc # "blocked",
             writer' \in {writer, p}
      PROVE  BlockedInv'
  <2>1. call' = [call EXCEPT ![p] = [call[p] EXCEPT !.pc = pc]]
      BY <1>3 DEF GoTo
  <2>2. [call[p] EXCEPT !.pc = pc].pc = pc
      BY OwnFacts DEF CallRecords
  <2> QED
      BY <1>3, <2>1, <2>2, AwakeMove
<1>4. ASSUME NEW p \in Callers,
             Lock(p) \/ Acquire(p) \/ AcquireQuery(p) \/ Commit(p)
      PROVE  BlockedInv'
    BY <1>3, <1>4 DEF Lock, Acquire, AcquireQuery, Commit, lockVars
<1>5. ASSUME NEW p \in Callers, EndRead(p) \/ EndQuery(p)
      PROVE  BlockedInv'
    BY <1>5, AwakeMove, IdleType DEF EndRead, EndQuery, lockVars
<1>6. ASSUME NEW p \in Callers, Locked(p)
      PROVE  BlockedInv'
  <2>1. CASE call[p].op = "pass"
    <3>1. PICK due \in SUBSET {c \in DOMAIN cache : cache[c].status = "up"} :
             call' = [call EXCEPT ![p] = [@ EXCEPT !.pc = "next", !.todo = due]]
        BY <1>6, <2>1 DEF Locked
    <3>2. [call[p] EXCEPT !.pc = "next", !.todo = due].pc = "next"
        BY OwnFacts DEF CallRecords
    <3> QED
        BY <1>6, <3>1, <3>2, AwakeMove DEF Locked, lockVars
  <2>2. CASE call[p].op # "pass"
      BY <1>3, <1>6, <2>2 DEF Locked, lockVars
  <2> QED
      BY <2>1, <2>2
<1>7. ASSUME NEW p \in Callers, PassNext(p)
      PROVE  BlockedInv'
  <2>1. PICK c \in call[p].todo :
           call' = [call EXCEPT ![p] =
                      [call[p] EXCEPT !.pc = "exec", !.check = c,
                                      !.arg = MarkDown(cache[c]),
                                      !.todo = call[p].todo \ {c}]]
      BY <1>7 DEF PassNext
  <2>2. [call[p] EXCEPT !.pc = "exec", !.check = c, !.arg = MarkDown(cache[c]),
                        !.todo = call[p].todo \ {c}].pc = "exec"
      BY OwnFacts DEF CallRecords
  <2> QED
      BY <1>7, <2>1, <2>2, AwakeMove DEF PassNext, lockVars
<1>8. ASSUME NEW p \in Callers, Fail(p) \/ Cancel(p) \/ ChangeMap(p)
      PROVE  BlockedInv'
    BY <1>8, AfterUpdateWakes DEF Fail, Cancel, ChangeMap
<1>9. ASSUME NEW p \in Callers, EndPass(p)
      PROVE  BlockedInv'
    BY <1>9, UnlockWakes DEF EndPass
<1>10. CASE Crash
    BY <1>10, IdleType DEF Crash, BlockedInv, At
<1>11. CASE UNCHANGED vars
    BY <1>11 DEF vars, BlockedInv, At
<1> QED
    BY <1>1, <1>2, <1>4, <1>5, <1>6, <1>7, <1>8, <1>9, <1>10, <1>11
    DEF Next, Step

(* Whom a call waits for, by where it is. *)
LEMMA WaitsForIs ==
    ASSUME NEW p
    PROVE  /\ call[p].pc \in {"blocked", "lock"} =>
                 WaitsFor(p) = {writer} \ {Nil}
           /\ call[p].pc = "drain" => WaitsFor(p) = readers
           /\ call[p].pc \in {"exec", "query"} => WaitsFor(p) = {conn} \ {Nil}
           /\ call[p].pc \notin {"blocked", "lock", "drain", "exec", "query"} =>
                 WaitsFor(p) = {}
BY DEF WaitsFor, At

(***************************************************************************)
(* The waiting for the lock and the connection never closes a circle, and  *)
(* no reader sleeps without a writer to wake it: a chain of waiting ends,  *)
(* after at most two links, at a call that runs.                           *)
(***************************************************************************)
THEOREM WaitingAlwaysEnds == Spec => []WaitingEnds
<1>1. ASSUME IInv, BlockedInv
      PROVE  WaitingEnds
  <2>1. ASSUME NEW q \in Callers, call[q].pc \in {"read", "stmt", "busy"}
        PROVE  Runs(q)
      BY <2>1, WaitsForIs DEF Runs, At
  <2>2. ASSUME NEW q \in Callers, q = conn \/ q \in readers
        PROVE  Runs(q)
      BY <1>1, <2>1, <2>2, OwnFacts
  <2>3. ASSUME NEW q \in Callers, q = writer
        PROVE  ~At(q, "idle") /\ \A r \in WaitsFor(q) : Runs(r)
    <3>1. call[q].pc \in {"drain", "next", "exec", "stmt", "map"}
        BY <1>1, <2>3, OwnFacts DEF Critical
    <3>2. /\ conn \in Callers \cup {Nil} /\ readers \subseteq Callers
        BY <1>1, OwnFacts
    <3>3. \A r \in WaitsFor(q) : r \in Callers /\ (r = conn \/ r \in readers)
        BY <3>1, <3>2, WaitsForIs
    <3> QED
        BY <2>2, <3>1, <3>3 DEF At
  <2> SUFFICES ASSUME NEW p \in Callers
               PROVE  /\ At(p, "blocked") => WaitsFor(p) # {}
                      /\ \A q \in WaitsFor(p) :
                            \/ Runs(q)
                            \/ /\ ~At(q, "idle")
                               /\ \A r \in WaitsFor(q) : Runs(r)
      BY DEF WaitingEnds
  <2>4. At(p, "blocked") => WaitsFor(p) # {}
      BY <1>1, WaitsForIs DEF BlockedInv, At
  <2>5. /\ conn \in Callers \cup {Nil} /\ readers \subseteq Callers
        /\ writer \in Callers \cup {Nil}
      BY <1>1, OwnFacts
  <2>6. \A q \in WaitsFor(p) :
           q \in Callers /\ (q = writer \/ q = conn \/ q \in readers)
      BY <2>5, WaitsForIs
  <2> QED
      BY <2>2, <2>3, <2>4, <2>6
<1>2. Init => BlockedInv
    BY IdleType DEF Init, BlockedInv, At
<1> QED
    BY <1>1, <1>2, Invariance, BlockedInductive, PTL DEF Spec

(***************************************************************************)
(* The cache implements the store: seen from its callers, each of Create,  *)
(* Set, Delete and an update inside WithWriteLock happens at one instant,  *)
(* its commit, and a crash reloads what was committed.                     *)
(***************************************************************************)
THEOREM CacheImplementsStore == Spec => ImplementsStore
<1>1. Init => Store!StoreInit
  <2>1. Init => AbstractChecks = NoChecks
      BY Starts
  <2> QED
      BY <2>1 DEF Init, NoChecks, Store!StoreInit
<1>2. IInv /\ [Next]_vars => [Store!StoreNext]_(Store!storeVars)
    BY StepImplements DEF Store!storeVars
<1> QED
    BY <1>1, <1>2, Invariance, PTL DEF Spec, ImplementsStore, Store!StoreSpec
-----------------------------------------------------------------------------
(* What the implementation inherits from the store it implements. *)

ConsistentInv ==
    \A c \in DOMAIN AbstractChecks : AbstractChecks[c] \in ConsistentRecords

LEMMA ConsistentInductive ==
    ASSUME ConsistentInv,
           \/ Store!StoreNext
           \/ AbstractChecks' = AbstractChecks
    PROVE  ConsistentInv'
<1>1. CASE AbstractChecks' = AbstractChecks
    BY <1>1 DEF ConsistentInv
<1>2. CASE Store!WriteOne
  <2>1. PICK c \in DOMAIN AbstractChecks' :
           /\ AbstractChecks'[c] \in ConsistentRecords
           /\ \/ Store!Create(c, AbstractChecks'[c])
              \/ Store!Set(c, AbstractChecks'[c])
      BY <1>2, SameData DEF Store!WriteOne
  <2>2. \A x \in DOMAIN AbstractChecks' \ {c} :
           x \in DOMAIN AbstractChecks /\ AbstractChecks'[x] = AbstractChecks[x]
    <3>1. CASE Store!Create(c, AbstractChecks'[c])
        BY <3>1 DEF Store!Create
    <3>2. CASE Store!Set(c, AbstractChecks'[c])
        BY <3>2 DEF Store!Set
    <3> QED
        BY <2>1, <3>1, <3>2
  <2> QED
      BY <2>1, <2>2 DEF ConsistentInv
<1>3. CASE Store!WriteDown
  <2>1. PICK D \in SUBSET {c \in DOMAIN AbstractChecks :
                              AbstractChecks[c].status = "up"} :
           Store!SetAll([c \in D |-> MarkDown(AbstractChecks[c])])
      BY <1>3, SameData DEF Store!WriteDown
  <2>2. AbstractChecks' = [c \in DOMAIN AbstractChecks |->
                              IF c \in D THEN MarkDown(AbstractChecks[c])
                                         ELSE AbstractChecks[c]]
      BY <2>1 DEF Store!SetAll
  <2>3. \A c \in D : /\ AbstractChecks[c] \in ConsistentRecords
                     /\ AbstractChecks[c].status = "up"
      BY DEF ConsistentInv
  <2>4. \A c \in D : MarkDown(AbstractChecks[c]) \in ConsistentRecords
      BY <2>3, MarkDownConsistent
  <2> QED
      BY <2>2, <2>4 DEF ConsistentInv
<1>4. ASSUME NEW c \in DOMAIN AbstractChecks, Store!Delete(c)
      PROVE  ConsistentInv'
    BY <1>4 DEF Store!Delete, ConsistentInv
<1>5. CASE Store!Reload
  <2>1. AbstractChecks' = [c \in DOMAIN AbstractChecks |->
                              Stored(AbstractChecks[c])]
      BY <1>5, SameData DEF Store!Reload
  <2> QED
      BY <2>1, StoredConsistent DEF ConsistentInv
<1> QED
    BY <1>1, <1>2, <1>3, <1>4, <1>5 DEF Store!StoreNext

(***************************************************************************)
(* Whatever the calls were doing when the process was killed, the restart  *)
(* hydrates consistent checks.                                             *)
(***************************************************************************)
THEOREM TableAlwaysConsistent == Spec => []TableConsistent
<1>1. Init => ConsistentInv
  <2>1. Init => AbstractChecks = NoChecks
      BY Starts
  <2> QED
      BY <2>1, NoChecksMap DEF ConsistentInv
<1>2. IInv /\ ConsistentInv /\ [Next]_vars => ConsistentInv'
    BY StepImplements, ConsistentInductive
<1>3. ASSUME IInv, ConsistentInv
      PROVE  TableConsistent
  <2>1. \A c \in DOMAIN rows : /\ AbstractChecks[c] \in ConsistentRecords
                               /\ rows[c] = Stored(AbstractChecks[c])
      BY <1>3 DEF IInv, CoherenceInv, Matches, ConsistentInv
  <2>2. \A c \in DOMAIN rows : rows[c] \in ConsistentRecords
      BY <2>1, StoredConsistent
  <2> QED
      BY <2>2 DEF TableConsistent, ConsistentRecords
<1> QED
    BY <1>1, <1>2, <1>3, Invariance, PTL DEF Spec

(***************************************************************************)
(* A check whose row is gone is gone for good, through every interleaving  *)
(* of writes, refused writes and crashes.                                  *)
(***************************************************************************)
THEOREM DeletedRowsAlwaysStayDeleted == Spec => DeletedRowsStayDeleted
<1> DEFINE Stays == \A c \in issued : c \notin DOMAIN rows =>
                                        c \notin DOMAIN rows'
<1>1. ASSUME IInv, IInv', [Next]_vars
      PROVE  [Stays]_vars
  <2>1. /\ DOMAIN rows = DOMAIN AbstractChecks
        /\ DOMAIN rows' = DOMAIN AbstractChecks'
      BY <1>1 DEF IInv, CoherenceInv, Matches
  <2>2. ASSUME Store!StoreNext, NEW c \in issued,
               c \in DOMAIN AbstractChecks'
        PROVE  c \in DOMAIN AbstractChecks
    <3>1. CASE Store!WriteOne
        BY <2>2, <3>1 DEF Store!WriteOne, Store!Create, Store!Set
    <3>2. CASE Store!WriteDown
        BY <2>2, <3>2 DEF Store!WriteDown, Store!SetAll
    <3>3. CASE \E x \in DOMAIN AbstractChecks : Store!Delete(x)
        BY <2>2, <3>3 DEF Store!Delete
    <3>4. CASE Store!Reload
        BY <2>2, <3>4 DEF Store!Reload
    <3> QED
        BY <2>2, <3>1, <3>2, <3>3, <3>4 DEF Store!StoreNext
  <2>3. Stays
      BY <1>1, <2>1, <2>2, StepImplements
  <2> QED
      BY <2>3
<1> QED
    BY <1>1, Invariance, Inductive, PTL DEF Spec, DeletedRowsStayDeleted
=============================================================================
