-------------------------- MODULE PingHistoryProofs -------------------------
(***************************************************************************)
(* Theorems about PingHistory, for any number of checks and requests, any  *)
(* retention and grid size, any precision of times and any bounds.         *)
(*                                                                         *)
(* The first part is about finite sets of pings and the order in which the *)
(* queries list them; it knows nothing of the program.                     *)
(***************************************************************************)
EXTENDS PingHistory, FiniteSetTheorems, WellFoundedInduction, TLAPS

PingSet(S) ==
    /\ S \subseteq Pings /\ IsFiniteSet(S)
    /\ \A p, q \in S : p.id = q.id => p = q

NewerIn(S, p) == {q \in S : Newer(q, p)}
First(S, n)   == {p \in S : Cardinality(NewerIn(S, p)) < n}
RowIn(S, i)   == {p \in S : Cardinality(NewerIn(S, p)) = i - 1}

(* The order of the queries is a strict total order of a table's rows. *)
LEMMA NewerIsAnOrder ==
    ASSUME NEW p \in Pings, NEW q \in Pings, NEW r \in Pings
    PROVE  /\ ~Newer(p, p)
           /\ Newer(p, q) /\ Newer(q, r) => Newer(p, r)
           /\ p.id # q.id => Newer(p, q) \/ Newer(q, p)
           /\ ~Newer(q, p) => p.at >= q.at
<1>1. /\ p.at \in Int /\ q.at \in Int /\ r.at \in Int
      /\ p.id \in Int /\ q.id \in Int /\ r.id \in Int
    BY MaxTimeAssumption, MaxPingsAssumption DEF Pings
<1> QED
    BY <1>1 DEF Newer

(* How many pings are newer is a number. *)
LEMMA RankType ==
    ASSUME NEW S, PingSet(S), NEW p
    PROVE  /\ IsFiniteSet(NewerIn(S, p))
           /\ Cardinality(NewerIn(S, p)) \in Nat
<1>1. NewerIn(S, p) \in SUBSET S
    BY DEF NewerIn
<1>2. IsFiniteSet(NewerIn(S, p))
    BY <1>1, FS_Subset DEF PingSet
<1> QED
    BY <1>2, FS_CardinalityType

(* A newer ping has fewer pings before it. *)
LEMMA RankDecreases ==
    ASSUME NEW S, PingSet(S), NEW p \in S, NEW q \in S, Newer(q, p)
    PROVE  /\ NewerIn(S, q) \subseteq NewerIn(S, p)
           /\ NewerIn(S, q) # NewerIn(S, p)
           /\ Cardinality(NewerIn(S, q)) < Cardinality(NewerIn(S, p))
<1>1. p \in Pings /\ q \in Pings
    BY DEF PingSet
<1>2. NewerIn(S, q) \subseteq NewerIn(S, p)
  <2> SUFFICES ASSUME NEW x \in NewerIn(S, q)
               PROVE  x \in NewerIn(S, p)
    OBVIOUS
  <2>1. x \in S /\ x \in Pings /\ Newer(x, q)
    BY DEF NewerIn, PingSet
  <2> QED
    BY <1>1, <2>1, NewerIsAnOrder DEF NewerIn
<1>3. q \in NewerIn(S, p) /\ q \notin NewerIn(S, q)
    BY <1>1, NewerIsAnOrder DEF NewerIn
<1>4. /\ Cardinality(NewerIn(S, q)) <= Cardinality(NewerIn(S, p))
      /\ Cardinality(NewerIn(S, p)) = Cardinality(NewerIn(S, q))
         => NewerIn(S, p) = NewerIn(S, q)
    BY <1>2, RankType, FS_Subset
<1> QED
    BY <1>2, <1>3, <1>4, RankType

(* Among finitely many pings one has none before it. *)
LEMMA NewestExists ==
    ASSUME NEW S, PingSet(S), NEW p \in S
    PROVE  \E m \in S : NewerIn(S, m) = {} /\ m.at >= p.at
<1> DEFINE Sets == {NewerIn(S, x) : x \in S}
<1>1. Sets \subseteq FiniteSubsetsOf(S)
  <2> SUFFICES ASSUME NEW x \in S
               PROVE  NewerIn(S, x) \in FiniteSubsetsOf(S)
    OBVIOUS
  <2>1. NewerIn(S, x) \subseteq S
    BY DEF NewerIn
  <2> QED
    BY <2>1, RankType DEF FiniteSubsetsOf
<1>2. Sets # {}
    OBVIOUS
<1>3. PICK N \in Sets : \A M \in Sets : <<M, N>> \notin StrictSubsetOrdering(S)
    BY <1>1, <1>2, FS_StrictSubsetOrderingWellFounded, WFMin
<1>4. PICK m \in S : N = NewerIn(S, m)
    OBVIOUS
<1>5. NewerIn(S, m) = {}
  <2> SUFFICES ASSUME NEW q \in NewerIn(S, m)
               PROVE  FALSE
    OBVIOUS
  <2>1. q \in S /\ Newer(q, m)
    BY DEF NewerIn
  <2>2. NewerIn(S, q) \subseteq NewerIn(S, m) /\ NewerIn(S, q) # NewerIn(S, m)
    BY <2>1, RankDecreases
  <2>3. NewerIn(S, m) \subseteq S
    BY DEF NewerIn
  <2>4. <<NewerIn(S, q), NewerIn(S, m)>> \in StrictSubsetOrdering(S)
    BY <2>2, <2>3 DEF StrictSubsetOrdering
  <2> QED
    BY <1>3, <1>4, <2>1, <2>4
<1>6. ~Newer(p, m) /\ p \in Pings /\ m \in Pings
    BY <1>5 DEF NewerIn, PingSet
<1> QED
    BY <1>5, <1>6, NewerIsAnOrder

(* At most n pings have fewer than n before them. *)
LEMMA FirstBounded ==
    ASSUME NEW S, PingSet(S), NEW n \in Nat
    PROVE  /\ PingSet(First(S, n))
           /\ Cardinality(First(S, n)) <= n
<1> DEFINE rank == [p \in First(S, n) |-> Cardinality(NewerIn(S, p))]
<1>1. First(S, n) \in SUBSET S
    BY DEF First
<1>2. PingSet(First(S, n))
    BY <1>1, FS_Subset DEF PingSet
<1>3. rank \in [First(S, n) -> 0..(n - 1)]
    BY RankType DEF First
<1>4. ASSUME NEW p \in First(S, n), NEW q \in First(S, n), rank[p] = rank[q]
      PROVE  p = q
  <2>1. p \in S /\ q \in S /\ p \in Pings /\ q \in Pings
    BY <1>1 DEF PingSet
  <2>2. Cardinality(NewerIn(S, p)) = Cardinality(NewerIn(S, q))
    BY <1>4
  <2>3. ~Newer(p, q) /\ ~Newer(q, p)
    BY <2>1, <2>2, RankDecreases, RankType
  <2> QED
    BY <2>1, <2>3, NewerIsAnOrder DEF PingSet
<1>5. rank \in Injection(First(S, n), 0..(n - 1))
    BY <1>3, <1>4 DEF Injection, IsInjective
<1>6. IsFiniteSet(0..(n - 1)) /\ Cardinality(0..(n - 1)) = n
    BY FS_Interval
<1> HIDE DEF rank
<1>7. Cardinality(First(S, n)) <= Cardinality(0..(n - 1))
    BY <1>5, <1>6, FS_Injection
<1> QED
    BY <1>2, <1>6, <1>7

(* Pruning to k leaves each of the first k rows in its place. *)
LEMMA PruningKeepsRows ==
    ASSUME NEW S, PingSet(S), NEW k \in Nat, NEW i \in 1..k
    PROVE  RowIn(First(S, k), i) = RowIn(S, i)
<1> DEFINE K == First(S, k)
<1>1. ASSUME NEW p \in K
      PROVE  NewerIn(K, p) = NewerIn(S, p)
  <2>1. p \in S /\ Cardinality(NewerIn(S, p)) < k
    BY DEF First
  <2>2. ASSUME NEW q \in NewerIn(S, p)
        PROVE  q \in K
    <3>1. q \in S /\ Newer(q, p)
      BY DEF NewerIn
    <3>2. Cardinality(NewerIn(S, q)) < Cardinality(NewerIn(S, p))
      BY <2>1, <3>1, RankDecreases
    <3> QED
      BY <2>1, <3>1, <3>2, RankType DEF First
  <2> QED
    BY <2>2 DEF NewerIn, First
<1>2. ASSUME NEW p \in RowIn(S, i)
      PROVE  p \in K
    BY RankType DEF RowIn, First
<1>3. K \subseteq S
    BY DEF First
<1> HIDE DEF K
<1>4. RowIn(K, i) = RowIn(S, i)
    BY <1>1, <1>2, <1>3 DEF RowIn
<1> QED
    BY <1>4 DEF K

-----------------------------------------------------------------------------
(* The inductive invariant. *)

(* A handler at work knows its check; a ping found its own time its newest. *)
LocalsInv ==
    /\ \A r \in Requests : req[r].pc # "idle" => req[r].check \in Checks
    /\ page.open => page.check \in Checks

(* A ping at least as new as t is in the table, or under way, or was lost. *)
Covered(c, t) ==
    \/ \E p \in PingsOf(c) : p.at >= Truncate(t)
    \/ \E r \in Requests : /\ req[r].pc = "record"
                           /\ req[r].check = c
                           /\ req[r].at >= t
    \/ \E l \in lost[c] : l >= t

(* Covered(c, t) in the next state, for a c and a t that may be primed. *)
CoveredNext(c, t) ==
    \/ \E p \in pings' : p.check = c /\ p.at >= Truncate(t)
    \/ \E r \in Requests : /\ req'[r].pc = "record"
                           /\ req'[r].check = c
                           /\ req'[r].at >= t
    \/ \E l \in lost'[c] : l >= t

(* What a copy of a check says of its last ping, or its page, is covered. *)
CopiesInv ==
    /\ \A r \in Requests :
          /\ req[r].pc = "set" /\ req[r].check \in checkRows
          /\ req[r].lastPing # Nil
          => \/ req[r].kind = "complete" /\ req[r].lastPing = req[r].at
             \/ Covered(req[r].check, req[r].lastPing)
    /\ page.open /\ page.lastPing # Nil /\ page.check \in checkRows
       => Covered(page.check, page.lastPing)

IInv ==
    /\ TypeOK /\ IsFiniteSet(pings) /\ LocalsInv
    /\ CopiesInv /\ HistoryCoversLastPing
    /\ PrunedStaysBounded

-----------------------------------------------------------------------------

(* Storing a time keeps it a time and keeps the order of times. *)
LEMMA TruncateKeepsOrder ==
    ASSUME NEW a \in Nat, NEW b \in Nat
    PROVE  /\ Truncate(a) \in 0..a
           /\ a >= b => Truncate(a) >= Truncate(b)
<1> DEFINE m == a \div Second
           n == b \div Second
<1>1. /\ m \in Nat /\ a % Second \in 0..(Second - 1)
      /\ a = Second * m + (a % Second)
    BY SecondAssumption
<1>2. /\ n \in Nat /\ b % Second \in 0..(Second - 1)
      /\ b = Second * n + (b % Second)
    BY SecondAssumption
<1> HIDE DEF m, n
<1>3. Truncate(a) = Second * m /\ Truncate(b) = Second * n
    BY <1>1, <1>2, SecondAssumption DEF Truncate
<1>4. Second * m \in Nat /\ Second * n \in Nat
    BY <1>1, <1>2, SecondAssumption
<1>5. ASSUME a >= b
      PROVE  m >= n
  <2> SUFFICES ASSUME m + 1 <= n
               PROVE  FALSE
    BY <1>1, <1>2
  <2>1. Second * (m + 1) <= Second * n
    BY <1>1, <1>2, SecondAssumption
  <2>2. Second * (m + 1) = Second * m + Second
    BY <1>1, SecondAssumption
  <2> QED
    BY <1>1, <1>2, <1>4, <1>5, <2>1, <2>2, SecondAssumption
<1>6. m >= n => Second * m >= Second * n
    BY <1>1, <1>2, SecondAssumption
<1> QED
    BY <1>1, <1>3, <1>4, <1>5, <1>6

(* A check's rows are a finite set with unique ids. *)
LEMMA RowsArePings ==
    ASSUME TypeOK, IsFiniteSet(pings), NEW c
    PROVE  PingSet(PingsOf(c))
<1>1. PingsOf(c) \in SUBSET pings
    BY DEF PingsOf
<1> QED
    BY <1>1, FS_Subset DEF PingSet, TypeOK

(* The queries in terms of the first part. *)
LEMMA QueriesAsSets ==
    ASSUME NEW c, NEW n
    PROVE  /\ Newest(c, n) = First(PingsOf(c), n)
           /\ Row(c, n) = RowIn(PingsOf(c), n)
BY DEF Newest, First, Row, RowIn, NewerIn

(* Pruning keeps, of the pings it finds, one that is as new as any. *)
LEMMA NewestIsKept ==
    ASSUME TypeOK, IsFiniteSet(pings), NEW c, NEW p \in PingsOf(c)
    PROVE  \E m \in Newest(c, KeepN) : m.at >= p.at
<1>1. PICK m \in PingsOf(c) : NewerIn(PingsOf(c), m) = {} /\ m.at >= p.at
    BY RowsArePings, NewestExists
<1>2. Cardinality(NewerIn(PingsOf(c), m)) = 0
    BY <1>1, FS_EmptySet
<1> QED
    BY <1>1, <1>2, QueriesAsSets, KeepNAssumption DEF First

(* What an insert does to the rows of its check and of the others. *)
LEMMA InsertAddsOne ==
    ASSUME TypeOK, NEW c \in Checks, NEW at \in 0..MaxTime, Insert(c, at)
    PROVE  /\ \E new \in Pings :
                 /\ pings' = pings \cup {new} /\ new.check = c
                 /\ new.at = Truncate(at) /\ new.id = lastId + 1
           /\ lastId' = lastId + 1 /\ lastId' \in 0..MaxPings
<1>1. Truncate(at) \in 0..MaxTime
    BY TruncateKeepsOrder, MaxTimeAssumption
<1>2. lastId \in Int /\ lastId' = lastId + 1 /\ lastId + 1 \in 1..MaxPings
    BY MaxPingsAssumption DEF Insert, TypeOK
<1> DEFINE new == [id |-> lastId + 1, check |-> c, at |-> Truncate(at)]
<1>3. new \in Pings /\ pings' = pings \cup {new}
    BY <1>1, <1>2 DEF Insert, Pings
<1> QED
    BY <1>2, <1>3
-----------------------------------------------------------------------------
(* Each action keeps the types. *)

LEMMA InitEstablishes == Init => IInv
<1> SUFFICES ASSUME Init
             PROVE  IInv
    OBVIOUS
<1>1. TypeOK
    BY MaxTimeAssumption, MaxPingsAssumption
       DEF Init, TypeOK, RequestRecords, PageRecords, Idle, Closed
<1>2. IsFiniteSet(pings)
    BY FS_EmptySet DEF Init
<1>3. LocalsInv /\ CopiesInv /\ HistoryCoversLastPing
    BY DEF Init, LocalsInv, CopiesInv, HistoryCoversLastPing, Idle, Closed
<1>4. PrunedStaysBounded
  <2> SUFFICES ASSUME NEW c \in checkRows
               PROVE  Cardinality(PingsOf(c)) <= KeepN + since[c]
    BY DEF PrunedStaysBounded
  <2>1. PingsOf(c) = {} /\ since[c] = 0
    BY DEF Init, PingsOf
  <2> QED
    BY <2>1, FS_EmptySet, KeepNAssumption
<1> QED
    BY <1>1, <1>2, <1>3, <1>4 DEF IInv

(* Locals of an idle goroutine are well typed. *)
LEMMA IdleType == Idle \in RequestRecords /\ Closed \in PageRecords
BY MaxTimeAssumption DEF Idle, Closed, RequestRecords, PageRecords

LEMMA TypeKept ==
    ASSUME TypeOK, IsFiniteSet(pings), LocalsInv, [Next]_vars
    PROVE  TypeOK' /\ IsFiniteSet(pings)' /\ LocalsInv'
<1> USE DEF reqOnly, cleanupOnly, pageOnly, Go
<1>1. ASSUME NEW r \in Requests, Arrive(r)
      PROVE  TypeOK' /\ IsFiniteSet(pings)' /\ LocalsInv'
  <2>1. PICK c \in Checks, kind \in {"complete", "start"} :
            req' = [req EXCEPT ![r] =
                       [Idle EXCEPT !.pc = "get", !.check = c, !.at = now,
                                    !.kind = kind]]
    BY <1>1 DEF Arrive
  <2>2. [Idle EXCEPT !.pc = "get", !.check = c, !.at = now, !.kind = kind]
            \in RequestRecords
    BY IdleType DEF RequestRecords, TypeOK
  <2>3. req' \in [Requests -> RequestRecords]
    BY <2>1, <2>2 DEF TypeOK
  <2>4. TypeOK'
    BY <1>1, <2>3 DEF Arrive, TypeOK
  <2> QED
    BY <1>1, <2>1, <2>4 DEF Arrive, TypeOK, LocalsInv, Idle
<1>2. ASSUME NEW r \in Requests, Get(r)
      PROVE  TypeOK' /\ IsFiniteSet(pings)' /\ LocalsInv'
  <2> DEFINE read == [req[r] EXCEPT !.pc = "set",
                                    !.lastPing = IF req[r].kind = "complete"
                                                 THEN req[r].at
                                                 ELSE lastPingAt[req[r].check]]
  <2>a. req[r] \in RequestRecords /\ Idle \in RequestRecords
    BY IdleType DEF TypeOK
  <2>b. req[r].check \in checkRows => read \in RequestRecords
    BY <2>a DEF TypeOK, RequestRecords
  <2>c. \/ req' = [req EXCEPT ![r] = read] /\ req[r].check \in checkRows
        \/ req' = [req EXCEPT ![r] = Idle]
    BY <1>2 DEF Get
  <2>1. PICK q \in RequestRecords :
            /\ req' = [req EXCEPT ![r] = q]
            /\ q.pc # "idle" => q.check = req[r].check
    BY <2>a, <2>b, <2>c DEF Idle, RequestRecords
  <2>2. TypeOK'
    BY <1>2, <2>1 DEF Get, TypeOK
  <2> QED
    BY <1>2, <2>1, <2>2 DEF Get, TypeOK, LocalsInv
<1>3. ASSUME NEW r \in Requests, EditGet(r)
      PROVE  TypeOK' /\ IsFiniteSet(pings)' /\ LocalsInv'
  <2>a. PICK c \in checkRows :
            req' = [req EXCEPT ![r] =
                       [Idle EXCEPT !.pc = "set", !.check = c,
                                    !.lastPing = lastPingAt[c]]]
    BY <1>3 DEF EditGet
  <2>b. [Idle EXCEPT !.pc = "set", !.check = c, !.lastPing = lastPingAt[c]]
            \in RequestRecords
    BY IdleType DEF TypeOK, RequestRecords
  <2>1. PICK q \in RequestRecords :
            req' = [req EXCEPT ![r] = q] /\ q.check \in Checks
    BY <2>a, <2>b DEF TypeOK, Idle
  <2>2. TypeOK'
    BY <1>3, <2>1 DEF EditGet, TypeOK
  <2> QED
    BY <1>3, <2>1, <2>2 DEF EditGet, TypeOK, LocalsInv
<1>4. ASSUME NEW r \in Requests, Set(r)
      PROVE  TypeOK' /\ IsFiniteSet(pings)' /\ LocalsInv'
  <2>a. req[r] \in RequestRecords /\ Idle \in RequestRecords
    BY IdleType DEF TypeOK
  <2>b. [req[r] EXCEPT !.pc = "record"] \in RequestRecords
    BY <2>a DEF RequestRecords
  <2>c. \/ req' = [req EXCEPT ![r] = [req[r] EXCEPT !.pc = "record"]]
        \/ req' = [req EXCEPT ![r] = Idle]
    BY <1>4 DEF Set
  <2>1. PICK q \in RequestRecords :
            /\ req' = [req EXCEPT ![r] = q]
            /\ q.pc # "idle" => q.check = req[r].check
    BY <2>a, <2>b, <2>c DEF Idle, RequestRecords
  <2>2. lastPingAt' \in [Checks -> 0..MaxTime \cup {Nil}]
    BY <1>4 DEF Set, TypeOK, RequestRecords
  <2>3. TypeOK'
    BY <1>4, <2>1, <2>2 DEF Set, TypeOK
  <2> QED
    BY <1>4, <2>1, <2>3 DEF Set, TypeOK, LocalsInv
<1>5. ASSUME NEW r \in Requests, Record(r)
      PROVE  TypeOK' /\ IsFiniteSet(pings)' /\ LocalsInv'
  <2> DEFINE c == req[r].check
             at == req[r].at
  <2>1. c \in Checks /\ at \in 0..MaxTime
    BY <1>5 DEF Record, TypeOK, LocalsInv, RequestRecords
  <2>2. req' \in [Requests -> RequestRecords] /\ LocalsInv'
    BY <1>5, IdleType DEF Record, TypeOK, LocalsInv, Idle
  <2>3. CASE Insert(c, at) /\ c \in checkRows /\ UNCHANGED lost
    <3>1. PICK new \in Pings : pings' = pings \cup {new} /\ new.check = c
                               /\ new.id = lastId + 1
      BY <2>1, <2>3, InsertAddsOne
    <3>2. lastId' = lastId + 1 /\ lastId' \in 0..MaxPings /\ lastId \in Int
      BY <2>1, <2>3, InsertAddsOne DEF TypeOK
    <3>3. since' \in [Checks -> Nat]
      <4>1. since' = [since EXCEPT ![c] = @ + 1]
        BY <2>3 DEF Insert
      <4> QED
        BY <2>1, <4>1 DEF TypeOK
    <3>4. \A p \in pings' : p.id <= lastId' /\ p.check \in checkRows'
      BY <1>5, <2>3, <3>1, <3>2 DEF Record, TypeOK, Pings
    <3>5. \A p, q \in pings' : p.id = q.id => p = q
      BY <3>1, <3>2 DEF TypeOK, Pings
    <3>6. IsFiniteSet(pings')
      BY <3>1, FS_AddElement
    <3> QED
      BY <1>5, <2>2, <2>3, <3>1, <3>2, <3>3, <3>4, <3>5, <3>6
         DEF Record, TypeOK
  <2>4. CASE Lose(c, at) /\ UNCHANGED <<pings, lastId, since>>
    <3>1. lost' \in [Checks -> SUBSET (0..MaxTime)]
      BY <2>1, <2>4 DEF Lose, TypeOK
    <3> QED
      BY <1>5, <2>2, <2>4, <3>1 DEF Record, TypeOK
  <2> QED
    BY <1>5, <2>3, <2>4 DEF Record
<1>6. ASSUME DeleteOldest
      PROVE  TypeOK' /\ IsFiniteSet(pings)' /\ LocalsInv'
  <2>a. PICK c \in cleanup :
            \/ /\ pings' = (pings \ PingsOf(c)) \cup Newest(c, KeepN)
               /\ since' = [since EXCEPT ![c] = 0]
            \/ UNCHANGED <<pings, since>>
    BY <1>6 DEF DeleteOldest
  <2>b. Newest(c, KeepN) \subseteq pings
    BY DEF Newest, PingsOf
  <2>1. pings' \in SUBSET pings /\ since' \in [Checks -> Nat]
    BY <2>a, <2>b DEF TypeOK
  <2>2. IsFiniteSet(pings')
    BY <2>1, FS_Subset
  <2> QED
    BY <1>6, <2>1, <2>2 DEF DeleteOldest, TypeOK, LocalsInv
<1>7. ASSUME NEW c \in Checks, DeleteCheck(c)
      PROVE  TypeOK' /\ IsFiniteSet(pings)' /\ LocalsInv'
  <2>1. pings' \in SUBSET pings
    BY <1>7 DEF DeleteCheck
  <2>2. IsFiniteSet(pings')
    BY <2>1, FS_Subset
  <2> QED
    BY <1>7, <2>1, <2>2 DEF DeleteCheck, PingsOf, TypeOK, LocalsInv
<1>8. ASSUME PageGet \/ PageList
      PROVE  TypeOK' /\ IsFiniteSet(pings)' /\ LocalsInv'
  <2>a. ASSUME PageGet
        PROVE  page' \in PageRecords /\ page'.check \in Checks
    BY <2>a DEF PageGet, TypeOK, PageRecords
  <2>b. ASSUME PageList
        PROVE  page' \in PageRecords /\ ~page'.open
    BY <2>b, IdleType DEF PageList, Closed
  <2>1. page' \in PageRecords /\ (page'.open => page'.check \in Checks)
    BY <1>8, <2>a, <2>b
  <2> QED
    BY <1>8, <2>1 DEF PageGet, PageList, TypeOK, LocalsInv
<1>9. CASE CleanupOldPings \/ Tick \/ UNCHANGED vars
    BY <1>9, MaxTimeAssumption
       DEF CleanupOldPings, Tick, vars, TypeOK, LocalsInv
<1>10. ASSUME Restart
       PROVE  TypeOK' /\ IsFiniteSet(pings)' /\ LocalsInv'
  <2>1. req' \in [Requests -> RequestRecords] /\ page' \in PageRecords
    BY <1>10, IdleType DEF Restart
  <2>2. lastPingAt' \in [Checks -> 0..MaxTime \cup {Nil}]
    <3>1. \A c \in Checks :
              lastPingAt[c] # Nil => Truncate(lastPingAt[c]) \in 0..MaxTime
      <4> SUFFICES ASSUME NEW c \in Checks, lastPingAt[c] # Nil
                   PROVE  Truncate(lastPingAt[c]) \in 0..MaxTime
        OBVIOUS
      <4>1. lastPingAt[c] \in 0..MaxTime
        BY DEF TypeOK
      <4>2. Truncate(lastPingAt[c]) \in 0..lastPingAt[c]
        BY <4>1, TruncateKeepsOrder, MaxTimeAssumption
      <4> QED
        BY <4>1, <4>2, MaxTimeAssumption
    <3> QED
      BY <1>10, <3>1 DEF Restart
  <2>3. lost' \in [Checks -> SUBSET (0..MaxTime)]
    <3>1. \A c \in Checks : {req[r].at : r \in UnderWay(c)} \subseteq 0..MaxTime
      BY DEF UnderWay, TypeOK, RequestRecords
    <3> QED
      BY <1>10, <3>1 DEF Restart, TypeOK
  <2>4. LocalsInv'
    BY <1>10 DEF Restart, LocalsInv, Idle, Closed
  <2> QED
    BY <1>10, <2>1, <2>2, <2>3, <2>4 DEF Restart, TypeOK
<1> QED
    BY <1>1, <1>2, <1>3, <1>4, <1>5, <1>6, <1>7, <1>8, <1>9, <1>10 DEF Next

-----------------------------------------------------------------------------
(* Each action keeps what is covered covered. *)

LEMMA CoveredKept ==
    ASSUME TypeOK, IsFiniteSet(pings), LocalsInv, [Next]_vars,
           NEW c \in checkRows', NEW t \in 0..MaxTime, Covered(c, t)
    PROVE  Covered(c, t)'
<1> USE DEF reqOnly, cleanupOnly, pageOnly, Go
<1>0. c \in checkRows /\ c \in Checks
    BY DEF Next, vars, Arrive, Get, EditGet, Set, Record, CleanupOldPings,
           DeleteOldest, DeleteCheck, PageGet, PageList, Restart, Tick, TypeOK
<1>1. ASSUME NEW r \in Requests, Arrive(r) \/ Get(r) \/ EditGet(r) \/ Set(r)
      PROVE  Covered(c, t)'
  <2>1. UNCHANGED <<pings, lost>> /\ req[r].pc # "record"
    BY <1>1 DEF Arrive, Get, EditGet, Set
  <2>2. \A s \in Requests \ {r} : req'[s] = req[s]
    BY <1>1 DEF Arrive, Get, EditGet, Set, TypeOK
  <2> QED
    BY <2>1, <2>2 DEF Covered, PingsOf
<1>2. ASSUME NEW r \in Requests, Record(r)
      PROVE  Covered(c, t)'
  <2>1. req[r].check \in Checks /\ req[r].at \in 0..MaxTime
    BY <1>2 DEF Record, TypeOK, LocalsInv, RequestRecords
  <2>2. \A s \in Requests \ {r} : req'[s] = req[s]
    BY <1>2 DEF Record, TypeOK
  <2>3. CASE Insert(req[r].check, req[r].at) /\ UNCHANGED lost
    <3>1. PICK new \in Pings : /\ pings' = pings \cup {new}
                               /\ new.check = req[r].check
                               /\ new.at = Truncate(req[r].at)
      BY <2>1, <2>3, InsertAddsOne
    <3>2. req[r].at >= t => new.at >= Truncate(t)
      BY <2>1, <3>1, TruncateKeepsOrder, MaxTimeAssumption
    <3> QED
      BY <2>2, <2>3, <3>1, <3>2 DEF Covered, PingsOf
  <2>4. CASE Lose(req[r].check, req[r].at) /\ UNCHANGED pings
    <3>1. lost[c] \subseteq lost'[c]
      BY <1>0, <2>1, <2>4 DEF Lose, TypeOK
    <3>2. req[r].check = c => req[r].at \in lost'[c]
      BY <1>0, <2>1, <2>4 DEF Lose, TypeOK
    <3> QED
      BY <2>2, <2>4, <3>1, <3>2 DEF Covered, PingsOf
  <2> QED
    BY <1>2, <2>3, <2>4 DEF Record
<1>3. ASSUME DeleteOldest
      PROVE  Covered(c, t)'
  <2>1. PICK d \in cleanup :
            \/ pings' = (pings \ PingsOf(d)) \cup Newest(d, KeepN)
            \/ UNCHANGED pings
    BY <1>3 DEF DeleteOldest
  <2>2. ASSUME NEW p \in PingsOf(c)
        PROVE  \E m \in PingsOf(c)' : m.at >= p.at
    <3>1. p.at \in Int /\ p \in pings /\ p.check = c
      BY MaxTimeAssumption DEF PingsOf, TypeOK, Pings
    <3>2. CASE c = d /\ pings' = (pings \ PingsOf(d)) \cup Newest(d, KeepN)
      <4>1. PICK m \in Newest(c, KeepN) : m.at >= p.at
        BY NewestIsKept
      <4> QED
        BY <3>2, <4>1 DEF Newest, PingsOf
    <3>3. CASE c # d \/ UNCHANGED pings
      BY <2>1, <3>1, <3>3 DEF PingsOf
    <3> QED
      BY <2>1, <3>2, <3>3
  <2>3. \A p \in PingsOf(c), m \in PingsOf(c)' :
            m.at >= p.at /\ p.at >= Truncate(t) => m.at >= Truncate(t)
    <3>1. /\ \A p \in pings : p.at \in Int
          /\ \A p \in pings' : p.at \in Int
      BY <1>3, TypeKept, MaxTimeAssumption DEF Next, TypeOK, Pings
    <3>2. Truncate(t) \in Int
      BY TruncateKeepsOrder, MaxTimeAssumption
    <3> QED
      BY <3>1, <3>2 DEF PingsOf
  <2> QED
    BY <1>3, <2>2, <2>3 DEF DeleteOldest, Covered
<1>4. ASSUME NEW d \in Checks, DeleteCheck(d)
      PROVE  Covered(c, t)'
    BY <1>0, <1>4 DEF DeleteCheck, Covered, PingsOf
<1>5. CASE CleanupOldPings \/ PageGet \/ PageList \/ Tick \/ UNCHANGED vars
    BY <1>5 DEF CleanupOldPings, PageGet, PageList, Tick, vars, Covered, PingsOf
<1>6. ASSUME Restart
      PROVE  Covered(c, t)'
  <2>1. /\ UNCHANGED pings
        /\ lost'[c] = lost[c] \cup {req[r].at : r \in UnderWay(c)}
    BY <1>0, <1>6 DEF Restart
  <2>2. ASSUME NEW r \in Requests, req[r].pc = "record", req[r].check = c
        PROVE  req[r].at \in lost'[c]
    BY <2>1, <2>2 DEF UnderWay
  <2> QED
    BY <2>1, <2>2 DEF Covered, PingsOf
<1> QED
    BY <1>1, <1>2, <1>3, <1>4, <1>5, <1>6 DEF Next

(***************************************************************************)
(* What a handler is about to write back, and what is in the table and on  *)
(* an open page, stays covered.                                            *)
(***************************************************************************)
LEMMA CopiesKept ==
    ASSUME IInv, [Next]_vars
    PROVE  CopiesInv' /\ HistoryCoversLastPing'
<1> USE DEF reqOnly, cleanupOnly, pageOnly, Go
<1>0. TypeOK /\ IsFiniteSet(pings) /\ LocalsInv /\ CopiesInv
      /\ \A c \in checkRows : lastPingAt[c] # Nil => Covered(c, lastPingAt[c])
    BY DEF IInv, HistoryCoversLastPing, Covered
<1>1. /\ TypeOK' /\ checkRows' \subseteq checkRows
      /\ \A c \in checkRows', t \in 0..MaxTime : Covered(c, t) => CoveredNext(c, t)
  <2>1. checkRows' \subseteq checkRows
    BY DEF Next, vars, Arrive, Get, EditGet, Set, Record, CleanupOldPings,
           DeleteOldest, DeleteCheck, PageGet, PageList, Restart, Tick
  <2>2. ASSUME NEW c \in checkRows', NEW t \in 0..MaxTime, Covered(c, t)
        PROVE  CoveredNext(c, t)
    <3>1. Covered(c, t)'
      BY <1>0, <2>2, CoveredKept
    <3> QED
      BY <3>1 DEF Covered, CoveredNext, PingsOf
  <2> QED
    BY <1>0, <2>1, <2>2, TypeKept
<1>2. ASSUME NEW r \in Requests,
             req'[r].pc = "set", req'[r].check \in checkRows',
             req'[r].lastPing # Nil
      PROVE  \/ req'[r].kind = "complete" /\ req'[r].lastPing = req'[r].at
             \/ CoveredNext(req'[r].check, req'[r].lastPing)
  <2>1. CASE req'[r] = req[r]
    BY <1>0, <1>1, <1>2, <2>1 DEF CopiesInv, TypeOK, RequestRecords
  <2>2. CASE Get(r)
    <3>1. /\ req[r].check \in checkRows
          /\ req'[r] = [req[r] EXCEPT !.pc = "set",
                                      !.lastPing = IF req[r].kind = "complete"
                                                   THEN req[r].at
                                                   ELSE lastPingAt[req[r].check]]
      BY <1>0, <1>2, <2>2 DEF Get, TypeOK, Idle
    <3> QED
      BY <1>0, <1>1, <1>2, <3>1 DEF TypeOK, RequestRecords
  <2>3. CASE EditGet(r)
    <3>1. PICK c \in checkRows :
              req'[r] = [Idle EXCEPT !.pc = "set", !.check = c,
                                     !.lastPing = lastPingAt[c]]
      BY <1>0, <2>3 DEF EditGet, TypeOK
    <3>2. req'[r].check = c /\ req'[r].lastPing = lastPingAt[c]
      BY <3>1 DEF Idle
    <3> QED
      BY <1>0, <1>1, <1>2, <3>2 DEF TypeOK
  <2>4. CASE Arrive(r) \/ Set(r) \/ Record(r)
    <3>1. req[r] \in RequestRecords /\ DOMAIN req = Requests
      BY <1>0 DEF TypeOK
    <3>2. req'[r].pc # "set"
      <4>1. CASE Arrive(r)
        BY <3>1, <4>1 DEF Arrive, Idle
      <4>2. CASE Set(r)
        BY <3>1, <4>2 DEF Set, Idle, RequestRecords
      <4>3. CASE Record(r)
        BY <3>1, <4>3 DEF Record, Idle
      <4> QED
        BY <2>4, <4>1, <4>2, <4>3
    <3> QED
      BY <1>2, <3>2
  <2>5. CASE Restart
    BY <1>2, <2>5 DEF Restart, Idle
  <2> QED
    BY <1>0, <2>1, <2>2, <2>3, <2>4, <2>5
       DEF Next, vars, Arrive, Get, EditGet, Set, Record, CleanupOldPings,
           DeleteOldest, DeleteCheck, PageGet, PageList, Restart, Tick, TypeOK
<1>3. ASSUME NEW c \in checkRows', lastPingAt'[c] # Nil
      PROVE  CoveredNext(c, lastPingAt'[c])
  <2>1. CASE UNCHANGED lastPingAt
    BY <1>0, <1>1, <1>3, <2>1 DEF TypeOK
  <2>2. ASSUME NEW r \in Requests, Set(r), ~UNCHANGED lastPingAt
        PROVE  CoveredNext(c, lastPingAt'[c])
    <3>1. /\ lastPingAt' = [lastPingAt EXCEPT ![req[r].check] = req[r].lastPing]
          /\ req[r].check \in checkRows /\ req[r].pc = "set"
      BY <2>2 DEF Set
    <3>2. CASE c # req[r].check
      BY <1>0, <1>1, <1>3, <3>1, <3>2 DEF TypeOK
    <3>3. CASE c = req[r].check /\ Covered(c, req[r].lastPing)
      BY <1>0, <1>1, <1>3, <3>1, <3>3 DEF TypeOK, RequestRecords
    <3>4. CASE /\ c = req[r].check
               /\ req[r].kind = "complete" /\ req[r].lastPing = req[r].at
      <4>1. req'[r] = [req[r] EXCEPT !.pc = "record"]
        BY <1>0, <2>2, <3>4 DEF Set, TypeOK
      <4>2. /\ req'[r].pc = "record" /\ req'[r].check = c
            /\ req'[r].at = req[r].at /\ req[r].at \in Int
        BY <1>0, <3>4, <4>1, MaxTimeAssumption DEF TypeOK, RequestRecords
      <4>3. lastPingAt'[c] = req[r].at
        BY <1>0, <3>1, <3>4 DEF TypeOK
      <4> QED
        BY <4>2, <4>3 DEF CoveredNext
    <3>5. c = req[r].check => req[r].lastPing # Nil
      BY <1>0, <1>3, <3>1 DEF TypeOK
    <3> QED
      BY <1>0, <3>1, <3>2, <3>3, <3>4, <3>5 DEF CopiesInv
  <2>3. CASE Restart
    <3> DEFINE t == lastPingAt[c]
    <3>1. c \in checkRows /\ c \in Checks
      BY <1>0, <1>1, <1>3 DEF TypeOK
    <3>2. t # Nil /\ lastPingAt'[c] = Truncate(t)
      BY <1>3, <2>3, <3>1 DEF Restart
    <3>3. t \in 0..MaxTime
      BY <1>0, <3>1, <3>2 DEF TypeOK
    <3>4. CoveredNext(c, t)
      BY <1>0, <1>1, <1>3, <3>1, <3>2, <3>3
    <3> HIDE DEF t
    <3>5. Truncate(t) \in 0..t
      BY <3>3, TruncateKeepsOrder, MaxTimeAssumption
    <3>6. Truncate(Truncate(t)) \in 0..Truncate(t) /\ t \in Int /\ Truncate(t) \in Nat
      BY <3>3, <3>5, TruncateKeepsOrder, MaxTimeAssumption
    <3>7. ASSUME NEW l \in Int, l >= t
          PROVE  l >= Truncate(t)
      BY <3>5, <3>6, <3>7
    <3>8. ASSUME NEW l \in Int, l >= Truncate(t)
          PROVE  l >= Truncate(Truncate(t))
      BY <3>6, <3>8
    <3>9. /\ \A p \in pings' : p.at \in Int
          /\ \A r \in Requests : req'[r].at \in Int
          /\ \A l \in lost'[c] : l \in Int
      BY <1>1, <3>1, MaxTimeAssumption DEF TypeOK, Pings, RequestRecords
    <3> QED
      BY <3>2, <3>4, <3>7, <3>8, <3>9 DEF CoveredNext
  <2> QED
    BY <2>1, <2>2, <2>3
       DEF Next, vars, Arrive, Get, EditGet, Record, CleanupOldPings,
           DeleteOldest, DeleteCheck, PageGet, PageList, Tick
<1>4. ASSUME page'.open, page'.lastPing # Nil, page'.check \in checkRows'
      PROVE  CoveredNext(page'.check, page'.lastPing)
  <2>1. CASE UNCHANGED page
    BY <1>0, <1>1, <1>4, <2>1 DEF CopiesInv, TypeOK, PageRecords
  <2>2. CASE PageGet
    <3>1. PICK c \in checkRows :
              page' = [open |-> TRUE, check |-> c, lastPing |-> lastPingAt[c]]
      BY <2>2 DEF PageGet
    <3> QED
      BY <1>0, <1>1, <1>4, <3>1 DEF TypeOK
  <2>3. CASE PageList \/ Restart
    BY <1>4, <2>3 DEF PageList, Restart, Closed
  <2> QED
    BY <2>1, <2>2, <2>3
       DEF Next, vars, Arrive, Get, EditGet, Set, Record, CleanupOldPings,
           DeleteOldest, DeleteCheck, Tick
<1>5. CopiesInv'
    BY <1>2, <1>4 DEF CopiesInv, Covered, CoveredNext, PingsOf
<1>6. HistoryCoversLastPing'
    BY <1>3 DEF HistoryCoversLastPing, CoveredNext, PingsOf
<1> QED
    BY <1>5, <1>6

(* A check has KeepN pings and those recorded since it was last pruned. *)
LEMMA BoundKept ==
    ASSUME IInv, [Next]_vars
    PROVE  PrunedStaysBounded'
<1> USE DEF reqOnly, cleanupOnly, pageOnly, Go
<1> SUFFICES ASSUME NEW c \in checkRows'
             PROVE  Cardinality(PingsOf(c)') <= KeepN + since'[c]
    BY DEF PrunedStaysBounded
<1>1. /\ TypeOK /\ IsFiniteSet(pings) /\ LocalsInv /\ PingSet(PingsOf(c))
      /\ c \in checkRows => Cardinality(PingsOf(c)) <= KeepN + since[c]
    BY RowsArePings DEF IInv, PrunedStaysBounded
<1>2. Cardinality(PingsOf(c)) \in Nat /\ KeepN \in Nat
    BY <1>1, FS_CardinalityType, KeepNAssumption DEF PingSet
<1>3. ASSUME UNCHANGED <<pings, since>>, c \in checkRows
      PROVE  Cardinality(PingsOf(c)') <= KeepN + since'[c]
    BY <1>1, <1>3 DEF PingsOf
<1>4. ASSUME NEW r \in Requests, Record(r)
      PROVE  Cardinality(PingsOf(c)') <= KeepN + since'[c]
  <2>1. req[r].check \in Checks /\ req[r].at \in 0..MaxTime /\ c \in Checks
    BY <1>1, <1>4 DEF Record, TypeOK, LocalsInv, RequestRecords
  <2>2. CASE Insert(req[r].check, req[r].at)
    <3>1. PICK new \in Pings : /\ pings' = pings \cup {new}
                               /\ new.check = req[r].check
      BY <1>1, <2>1, <2>2, InsertAddsOne
    <3>2. since' = [since EXCEPT ![req[r].check] = @ + 1]
      BY <2>2 DEF Insert
    <3>3. CASE c = req[r].check
      <4>1. PingsOf(c)' = PingsOf(c) \cup {new}
        BY <3>1, <3>3 DEF PingsOf
      <4>2. Cardinality(PingsOf(c)') <= Cardinality(PingsOf(c)) + 1
        <5>1. \/ Cardinality(PingsOf(c) \cup {new}) = Cardinality(PingsOf(c))
              \/ Cardinality(PingsOf(c) \cup {new}) = Cardinality(PingsOf(c)) + 1
          BY <1>1, FS_AddElement DEF PingSet
        <5> QED
          BY <1>2, <4>1, <5>1
      <4>3. since'[c] = since[c] + 1 /\ since[c] \in Nat /\ c \in checkRows
        BY <1>1, <1>4, <2>1, <3>2, <3>3 DEF TypeOK, Record
      <4>4. Cardinality(PingsOf(c)') \in Nat
        BY <1>1, <4>1, FS_AddElement, FS_CardinalityType DEF PingSet
      <4> QED
        BY <1>1, <1>2, <4>2, <4>3, <4>4
    <3>4. CASE c # req[r].check
      <4>1. PingsOf(c)' = PingsOf(c)
        BY <3>1, <3>4 DEF PingsOf
      <4>2. since'[c] = since[c] /\ c \in checkRows
        BY <1>1, <1>4, <2>1, <3>2, <3>4 DEF TypeOK, Record
      <4> QED
        BY <1>1, <4>1, <4>2
    <3> QED
      BY <3>3, <3>4
  <2>3. CASE UNCHANGED <<pings, since>>
    BY <1>3, <1>4, <2>3 DEF Record
  <2> QED
    BY <1>4, <2>2, <2>3 DEF Record
<1>5. ASSUME DeleteOldest
      PROVE  Cardinality(PingsOf(c)') <= KeepN + since'[c]
  <2>1. PICK d \in cleanup :
            \/ /\ pings' = (pings \ PingsOf(d)) \cup Newest(d, KeepN)
               /\ since' = [since EXCEPT ![d] = 0]
            \/ UNCHANGED <<pings, since>>
    BY <1>5 DEF DeleteOldest
  <2>2. c \in checkRows /\ c \in Checks /\ since[c] \in Nat
    BY <1>1, <1>5 DEF DeleteOldest, TypeOK
  <2>3. CASE /\ c = d /\ since' = [since EXCEPT ![d] = 0]
             /\ pings' = (pings \ PingsOf(d)) \cup Newest(d, KeepN)
    <3>1. PingsOf(c)' = First(PingsOf(c), KeepN)
      <4>1. Newest(c, KeepN) \subseteq PingsOf(c)
        BY DEF Newest
      <4>2. PingsOf(c)' = Newest(c, KeepN)
        BY <2>3, <4>1 DEF PingsOf
      <4> QED
        BY <4>2, QueriesAsSets
    <3>2. since'[c] = 0
      BY <1>1, <2>2, <2>3 DEF TypeOK
    <3>3. Cardinality(First(PingsOf(c), KeepN)) <= KeepN
      BY <1>1, <1>2, FirstBounded
    <3> QED
      BY <1>2, <3>1, <3>2, <3>3
  <2>4. CASE /\ c # d /\ since' = [since EXCEPT ![d] = 0]
             /\ pings' = (pings \ PingsOf(d)) \cup Newest(d, KeepN)
    <3>1. PingsOf(c)' = PingsOf(c)
      BY <2>4 DEF PingsOf, Newest
    <3>2. since'[c] = since[c]
      BY <1>1, <2>2, <2>4 DEF TypeOK
    <3> QED
      BY <1>1, <2>2, <3>1, <3>2
  <2> QED
    BY <1>3, <2>1, <2>2, <2>3, <2>4
<1>6. ASSUME NEW d \in Checks, DeleteCheck(d)
      PROVE  Cardinality(PingsOf(c)') <= KeepN + since'[c]
  <2>1. c \in checkRows /\ c # d /\ since' = since
    BY <1>1, <1>6 DEF DeleteCheck, TypeOK
  <2>2. PingsOf(c)' = PingsOf(c)
    BY <1>6, <2>1 DEF DeleteCheck, PingsOf
  <2> QED
    BY <1>1, <2>1, <2>2
<1>7. CASE /\ UNCHANGED <<pings, since>> /\ c \in checkRows
    BY <1>3, <1>7
<1> QED
    BY <1>4, <1>5, <1>6, <1>7
       DEF Next, vars, Arrive, Get, EditGet, Set, CleanupOldPings,
           PageGet, PageList, Restart, Tick

-----------------------------------------------------------------------------
(* The theorems. *)

LEMMA InductiveInvariance == Spec => []IInv
<1>1. IInv /\ [Next]_vars => IInv'
    BY TypeKept, CopiesKept, BoundKept DEF IInv
<1> QED
    BY <1>1, InitEstablishes, PTL DEF Spec

(***************************************************************************)
(* Every variable has its type; among the rows, ids stay unique and no     *)
(* ping outlives its check.                                                *)
(***************************************************************************)
THEOREM TypeCorrect == Spec => []TypeOK
<1>1. IInv => TypeOK
    BY DEF IInv
<1> QED
    BY <1>1, InductiveInvariance, PTL

(***************************************************************************)
(* The history falls behind last_ping_at by no more than a ping under way  *)
(* or never recorded, whatever number of handlers write stale copies back, *)
(* whatever a cleanup pass prunes and whenever the process ends.           *)
(***************************************************************************)
THEOREM HistoryExplainsLastPing == Spec => []HistoryCoversLastPing
<1>1. IInv => HistoryCoversLastPing
    BY DEF IInv
<1> QED
    BY <1>1, InductiveInvariance, PTL

(***************************************************************************)
(* A check has no more pings than KeepN and those recorded since it was    *)
(* last pruned.                                                            *)
(***************************************************************************)
THEOREM PrunedBounded == Spec => []PrunedStaysBounded
<1>1. IInv => PrunedStaysBounded
    BY DEF IInv
<1> QED
    BY <1>1, InductiveInvariance, PTL

(* The last square is the newest ping. *)
LEMMA LastSquareIsNewest ==
    ASSUME TypeOK, IsFiniteSet(pings), NEW c, NEW p \in PingsOf(c)
    PROVE  /\ Squares(c)[GridSize] \in Pings
           /\ Squares(c)[GridSize].at >= p.at
<1> DEFINE row == Row(c, 1)
<1>1. PingSet(PingsOf(c))
    BY RowsArePings
<1>2. PICK m \in PingsOf(c) : NewerIn(PingsOf(c), m) = {} /\ m.at >= p.at
    BY <1>1, NewestExists
<1>3. m \in row
  <2>1. Cardinality(NewerIn(PingsOf(c), m)) = 0
    BY <1>2, FS_EmptySet
  <2> QED
    BY <1>2, <2>1, QueriesAsSets DEF RowIn
<1>4. The(row) \in row
    BY <1>3 DEF The
<1>5. Squares(c)[GridSize] = The(row)
  <2>1. GridSize \in 1..GridSize /\ GridSize - GridSize + 1 = 1
    BY GridAssumption, KeepNAssumption
  <2> HIDE DEF row
  <2>2. Squares(c)[GridSize] = IF row = {} THEN Nil ELSE The(row)
    BY <2>1 DEF Squares, row
  <2> QED
    BY <1>3, <2>2
<1> DEFINE n == The(row)
<1>6. n \in PingsOf(c) /\ Cardinality(NewerIn(PingsOf(c), n)) = 0
    BY <1>4, QueriesAsSets DEF RowIn
<1> HIDE DEF n, row
<1>7. NewerIn(PingsOf(c), n) = {}
    BY <1>1, <1>6, RankType, FS_EmptySet
<1>8. ~Newer(p, n) /\ n \in Pings /\ p \in Pings
    BY <1>1, <1>6, <1>7 DEF NewerIn, PingSet
<1>9. n.at >= p.at
    BY <1>8, NewerIsAnOrder
<1> QED
    BY <1>5, <1>8, <1>9 DEF n

(***************************************************************************)
(* A page never shows a "last ping" newer than its newest square, for any  *)
(* retention and grid size, unless that ping's insert is still to come, or *)
(* was refused, or was cut off by the end of the process.                  *)
(***************************************************************************)
THEOREM PageConsistent == Spec => []PageExplainsLastPing
<1>1. ASSUME IInv, page.open, page.lastPing # Nil, page.check \in checkRows
      PROVE  PageExplainsLastPing
  <2>1. Covered(page.check, page.lastPing) /\ TypeOK /\ IsFiniteSet(pings)
    BY <1>1 DEF IInv, CopiesInv
  <2>2. ASSUME NEW p \in PingsOf(page.check), p.at >= Truncate(page.lastPing)
        PROVE  PageExplainsLastPing
    <3> DEFINE newest == Squares(page.check)[GridSize]
    <3>1. newest \in Pings /\ newest.at >= p.at
      BY <2>1, LastSquareIsNewest
    <3> HIDE DEF newest
    <3>2. newest # Nil
      BY <3>1, NilPingAssumption, MaxTimeAssumption, MaxPingsAssumption
         DEF Pings
    <3>3. newest.at >= Truncate(page.lastPing)
      <4>1. newest.at \in Int
        BY <3>1, MaxTimeAssumption DEF Pings
      <4>2. p.at \in Int
        BY <2>1, MaxTimeAssumption DEF PingsOf, TypeOK, Pings
      <4>3. Truncate(page.lastPing) \in Int
        BY <1>1, <2>1, TruncateKeepsOrder, MaxTimeAssumption
           DEF TypeOK, PageRecords
      <4> QED
        BY <2>2, <3>1, <4>1, <4>2, <4>3
    <3> QED
      BY <3>2, <3>3 DEF PageExplainsLastPing, newest
  <2> QED
    BY <2>1, <2>2 DEF Covered, PageExplainsLastPing
<1>2. IInv => PageExplainsLastPing
    BY <1>1 DEF PageExplainsLastPing
<1> QED
    BY <1>2, InductiveInvariance, PTL

(***************************************************************************)
(* A DELETE of the hourly pass takes nothing off the page of any check.    *)
(***************************************************************************)
THEOREM CleanupKeepsPage == Spec => CleanupLeavesThePage
<1>1. ASSUME IInv, DeleteOldest, NEW c \in checkRows
      PROVE  Squares(c) = Squares(c)'
  <2>1. PICK d \in cleanup :
            \/ pings' = (pings \ PingsOf(d)) \cup Newest(d, KeepN)
            \/ UNCHANGED pings
    BY <1>1 DEF DeleteOldest
  <2>2. PingsOf(c)' = PingsOf(c) \/ PingsOf(c)' = First(PingsOf(c), KeepN)
    <3>1. Newest(c, KeepN) \subseteq PingsOf(c)
      BY DEF Newest
    <3>2. CASE c = d /\ pings' = (pings \ PingsOf(d)) \cup Newest(d, KeepN)
      <4>1. PingsOf(c)' = Newest(c, KeepN)
        BY <3>1, <3>2 DEF PingsOf
      <4> QED
        BY <4>1, QueriesAsSets
    <3>3. CASE c # d \/ UNCHANGED pings
      BY <2>1, <3>3 DEF PingsOf, Newest
    <3> QED
      BY <2>1, <3>2, <3>3
  <2>3. PingSet(PingsOf(c))
    BY <1>1, RowsArePings DEF IInv
  <2>4. ASSUME NEW i \in 1..GridSize
        PROVE  Row(c, GridSize - i + 1)' = Row(c, GridSize - i + 1)
    <3> DEFINE k == GridSize - i + 1
    <3>1. k \in 1..KeepN
      BY GridAssumption, KeepNAssumption
    <3> HIDE DEF k
    <3>2. RowIn(First(PingsOf(c), KeepN), k) = RowIn(PingsOf(c), k)
      BY <2>3, <3>1, PruningKeepsRows, KeepNAssumption
    <3>3. Row(c, k)' = RowIn(PingsOf(c)', k) /\ Row(c, k) = RowIn(PingsOf(c), k)
      BY DEF Row, RowIn, NewerIn, k
    <3>4. Row(c, k)' = Row(c, k)
      BY <2>2, <3>2, <3>3
    <3> QED
      BY <3>4 DEF k
  <2> QED
    BY <2>4 DEF Squares
<1>2. IInv /\ [Next]_vars
      => [DeleteOldest => \A c \in checkRows : Squares(c) = Squares(c)']_vars
    BY <1>1
<1> QED
    BY <1>2, InductiveInvariance, PTL DEF CleanupLeavesThePage, Spec
=============================================================================
