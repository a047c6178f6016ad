------------------------- MODULE SubscriptionsProofs ------------------------
(***************************************************************************)
(* Theorems about Subscriptions, for any number of checks, channels and    *)
(* concurrent submissions and any limit on the size of a form.             *)
(***************************************************************************)
EXTENDS Subscriptions, TLAPS

-----------------------------------------------------------------------------
(* The inductive invariant. *)

(* The handler's set keeps every channel the form selects. *)
DesiredInv ==
    \A r \in Requests :
        req[r].pc # "idle" =>
            /\ \A ch \in Channels : Selects(r, ch) => ch \in req[r].desired
            /\ req[r].pc = "detach" => req[r].todo \cap req[r].desired = {}

(* Where a submission is that nothing has interfered with. *)
Progress(r) ==
    LET q      == req[r]
        target == asked[r] \cap channelRows
    IN  /\ q.pc = "validate" =>
              /\ q.todo \subseteq q.desired
              /\ q.desired \ q.todo \subseteq channelRows
              /\ target \subseteq q.desired /\ q.desired \subseteq asked[r]
        /\ q.pc = "detach" =>
              q.desired = target /\ q.todo = AttachedTo(q.check) \ target
        /\ q.pc = "attach" =>
              /\ q.desired = target
              /\ AttachedTo(q.check) \cup q.todo = target

AloneInv ==
    \A r \in alone :
        /\ \A s \in Requests \ {r} : req[s].pc = "idle"
        /\ Fits(asked[r]) => Progress(r)

IInv == TypeOK /\ DesiredInv /\ AloneInv

-----------------------------------------------------------------------------

(* The locals of an idle goroutine are well typed. *)
LEMMA IdleType == Idle \in RequestRecords
BY DEF Idle, RequestRecords

(* At the start nothing is attached and nobody is in flight. *)
LEMMA InitEstablishes == Init => IInv
BY IdleType DEF Init, IInv, TypeOK, DesiredInv, AloneInv, Idle

(* Channels and checks come and go; rows follow by cascade. *)
LEMMA TablesKeep ==
    ASSUME IInv,
           \/ \E ch \in Channels : CreateChannel(ch) \/ DeleteChannel(ch)
           \/ \E c \in Checks : DeleteCheck(c)
    PROVE  IInv'
<1>1. TypeOK'
  <2>1. CASE \E ch \in Channels : CreateChannel(ch)
    BY <2>1 DEF IInv, TypeOK, CreateChannel
  <2>2. CASE \E ch \in Channels : DeleteChannel(ch)
    BY <2>2 DEF IInv, TypeOK, DeleteChannel
  <2>3. CASE \E c \in Checks : DeleteCheck(c)
    BY <2>3 DEF IInv, TypeOK, DeleteCheck
  <2> QED
    BY <2>1, <2>2, <2>3
<1>2. alone' = {} /\ UNCHANGED <<req, asked, unsure>>
    BY DEF CreateChannel, DeleteChannel, DeleteCheck
<1>3. DesiredInv'
    BY <1>2 DEF IInv, DesiredInv, Selects
<1>4. AloneInv'
    BY <1>2 DEF AloneInv
<1> QED
    BY <1>1, <1>3, <1>4 DEF IInv

(* A request that returns leaves the invariant alone. *)
LEMMA ReturnKeeps ==
    ASSUME IInv, NEW r \in Requests, Go(r, Idle), UNCHANGED <<tables, history>>
    PROVE  IInv'
<1>1. req' = [req EXCEPT ![r] = Idle] /\ Idle.pc = "idle"
    BY DEF Go, Idle
<1>2. TypeOK'
    BY <1>1, IdleType DEF IInv, TypeOK, tables, history
<1>3. DesiredInv'
    BY <1>1 DEF IInv, TypeOK, DesiredInv, Selects, history
<1>4. AloneInv'
    BY <1>1 DEF IInv, TypeOK, AloneInv, Progress, AttachedTo, history, tables
<1> QED
    BY <1>2, <1>3, <1>4 DEF IInv

(* A submission starts out with what its form selects. *)
LEMMA SubmitKeeps ==
    ASSUME IInv, NEW r \in Requests, Submit(r)
    PROVE  IInv'
<1>1. PICK c \in checkRows, selected \in SUBSET Channels :
          /\ req' = [req EXCEPT ![r] = [pc      |-> "validate",
                                        check   |-> c,
                                        desired |-> Read(selected),
                                        todo    |-> Read(selected)]]
          /\ asked' = [asked EXCEPT ![r] = selected]
    BY DEF Submit, Go
<1>2. /\ req[r].pc = "idle" /\ UNCHANGED tables
      /\ unsure' = {u \in unsure : u[1] # r}
      /\ alone' = IF \A s \in Requests : req[s].pc = "idle" THEN {r} ELSE {}
    BY DEF Submit
<1>3. Read(selected) \in SUBSET Channels
    BY DEF Read
<1>4. TypeOK'
    BY <1>1, <1>2, <1>3 DEF IInv, TypeOK, tables, RequestRecords
<1>5. DesiredInv'
    BY <1>1, <1>2 DEF IInv, TypeOK, DesiredInv, Selects, Read
<1>6. AloneInv'
    BY <1>1, <1>2 DEF IInv, TypeOK, AloneInv, Progress, Read, tables
<1> QED
    BY <1>4, <1>5, <1>6 DEF IInv

(* A lookup drops a channel that is gone, or marks the request unsure. *)
LEMMA ValidateKeeps ==
    ASSUME IInv, NEW r \in Requests, Validate(r)
    PROVE  IInv'
<1> DEFINE q == req[r]
           Found(ch) ==
              /\ ch \in channelRows
              /\ req' = [req EXCEPT ![r] = [q EXCEPT !.todo = @ \ {ch}]]
              /\ UNCHANGED <<unsure, alone>>
           Missed(ch) ==
              /\ req' = [req EXCEPT ![r] = [q EXCEPT !.todo    = @ \ {ch},
                                                     !.desired = @ \ {ch}]]
              /\ unsure' = unsure \cup {<<r, ch>>}
              /\ alone' = IF ch \in channelRows THEN alone \ {r} ELSE alone
<1>1. PICK ch \in q.todo : Found(ch) \/ Missed(ch)
    BY DEF Validate, Go
<1>2. q.pc = "validate" /\ UNCHANGED <<tables, asked>>
    BY DEF Validate
<1>3. q \in RequestRecords /\ ch \in Channels
    BY DEF IInv, TypeOK, RequestRecords
<1>4. CASE Found(ch)
  <2>1. TypeOK'
    BY <1>2, <1>3, <1>4 DEF IInv, TypeOK, tables, RequestRecords
  <2>2. DesiredInv'
    BY <1>2, <1>3, <1>4
       DEF IInv, TypeOK, DesiredInv, Selects, RequestRecords
  <2>3. AloneInv'
    BY <1>2, <1>3, <1>4
       DEF IInv, TypeOK, AloneInv, Progress, tables, RequestRecords
  <2> QED
    BY <2>1, <2>2, <2>3 DEF IInv
<1>5. CASE Missed(ch)
  <2>1. TypeOK'
    <3>1. [q EXCEPT !.todo = @ \ {ch}, !.desired = @ \ {ch}] \in RequestRecords
      BY <1>3 DEF RequestRecords
    <3>2. req' \in [Requests -> RequestRecords]
      BY <1>5, <3>1 DEF IInv, TypeOK
    <3>3. unsure' \subseteq Requests \X Channels
      BY <1>3, <1>5 DEF IInv, TypeOK
    <3>4. alone' \subseteq Requests
      BY <1>5 DEF IInv, TypeOK
    <3> QED
      BY <1>2, <3>2, <3>3, <3>4 DEF IInv, TypeOK, tables
  <2>2. DesiredInv'
    BY <1>2, <1>3, <1>5
       DEF IInv, TypeOK, DesiredInv, Selects, RequestRecords
  <2>3. AloneInv'
    BY <1>2, <1>3, <1>5
       DEF IInv, TypeOK, AloneInv, Progress, tables, RequestRecords
  <2> QED
    BY <2>1, <2>2, <2>3 DEF IInv
<1> QED
    BY <1>1, <1>4, <1>5

(* What is to be detached is outside what the form selects. *)
LEMMA ListKeeps ==
    ASSUME IInv, NEW r \in Requests, List(r)
    PROVE  IInv'
<1> DEFINE q == req[r]
<1>1. /\ q.pc = "validate" /\ q.todo = {} /\ UNCHANGED <<tables, history>>
      /\ req' = [req EXCEPT ![r] =
                   [q EXCEPT !.pc   = "detach",
                             !.todo = AttachedTo(q.check) \ q.desired]]
    BY DEF List, Go
<1>2. q \in RequestRecords /\ AttachedTo(q.check) \subseteq Channels
    BY DEF IInv, TypeOK, AttachedTo
<1>3. TypeOK'
    BY <1>1, <1>2 DEF IInv, TypeOK, tables, history, RequestRecords
<1>4. DesiredInv'
    BY <1>1, <1>2 DEF IInv, TypeOK, DesiredInv, Selects, history, RequestRecords
<1>5. AloneInv'
    BY <1>1, <1>2 DEF IInv, TypeOK, AloneInv, Progress, AttachedTo, tables,
                      history, RequestRecords
<1> QED
    BY <1>3, <1>4, <1>5 DEF IInv

(* The loop over the rows to detach. *)
LEMMA DetachKeeps ==
    ASSUME IInv, NEW r \in Requests, Detach(r)
    PROVE  IInv'
<1> DEFINE q == req[r]
<1>1. PICK ch \in q.todo :
          /\ links' = links \ {<<q.check, ch>>}
          /\ req' = [req EXCEPT ![r] = [q EXCEPT !.todo = @ \ {ch}]]
    BY DEF Detach, Go
<1>2. q.pc = "detach" /\ UNCHANGED <<checkRows, channelRows, used, history>>
    BY DEF Detach
<1>3. q \in RequestRecords /\ ch \in Channels
    BY DEF IInv, TypeOK, RequestRecords
<1>4. TypeOK'
    BY <1>1, <1>2, <1>3 DEF IInv, TypeOK, history, RequestRecords
<1>5. DesiredInv'
    BY <1>1, <1>2, <1>3
       DEF IInv, TypeOK, DesiredInv, Selects, history, RequestRecords
<1>6. AloneInv'
  <2> SUFFICES ASSUME NEW s \in alone
               PROVE  /\ \A t \in Requests \ {s} : req'[t].pc = "idle"
                      /\ Fits(asked[s]) => Progress(s)'
    BY <1>2 DEF AloneInv, history
  <2>1. s = r
    BY <1>2 DEF IInv, AloneInv
  <2>2. \A t \in Requests \ {s} : req'[t].pc = "idle"
    BY <1>1, <2>1 DEF IInv, TypeOK, AloneInv
  <2>3. ASSUME Fits(asked[s]) PROVE Progress(s)'
    <3>1. q.desired = asked[r] \cap channelRows
          /\ q.todo = AttachedTo(q.check) \ (asked[r] \cap channelRows)
      BY <1>2, <2>1, <2>3 DEF IInv, AloneInv, Progress
    <3>2. (AttachedTo(q.check))' = AttachedTo(q.check) \ {ch}
      BY <1>1, <1>3 DEF AttachedTo
    <3> QED
      BY <1>1, <1>2, <1>3, <2>1, <3>1, <3>2
         DEF IInv, TypeOK, Progress, AttachedTo, history, RequestRecords
  <2> QED
    BY <2>2, <2>3
<1> QED
    BY <1>4, <1>5, <1>6 DEF IInv

(* From the first loop to the second. *)
LEMMA DetachDoneKeeps ==
    ASSUME IInv, NEW r \in Requests, DetachDone(r)
    PROVE  IInv'
<1> DEFINE q == req[r]
<1>1. /\ q.pc = "detach" /\ q.todo = {} /\ UNCHANGED <<tables, history>>
      /\ req' = [req EXCEPT ![r] = [q EXCEPT !.pc   = "attach",
                                             !.todo = q.desired]]
    BY DEF DetachDone, Go
<1>2. q \in RequestRecords
    BY DEF IInv, TypeOK
<1>3. TypeOK'
    BY <1>1, <1>2 DEF IInv, TypeOK, tables, history, RequestRecords
<1>4. DesiredInv'
    BY <1>1, <1>2 DEF IInv, TypeOK, DesiredInv, Selects, history, RequestRecords
<1>5. AloneInv'
    BY <1>1, <1>2 DEF IInv, TypeOK, AloneInv, Progress, AttachedTo, tables,
                      history, RequestRecords
<1> QED
    BY <1>3, <1>4, <1>5 DEF IInv

(* The loop over the rows to attach; the foreign keys are checked. *)
LEMMA AttachKeeps ==
    ASSUME IInv, NEW r \in Requests, Attach(r)
    PROVE  IInv'
<1> DEFINE q == req[r]
<1>1. PICK ch \in q.todo :
          /\ q.check \in checkRows /\ ch \in channelRows
          /\ links' = links \cup {<<q.check, ch>>}
          /\ req' = [req EXCEPT ![r] = [q EXCEPT !.todo = @ \ {ch}]]
    BY DEF Attach, Go
<1>2. q.pc = "attach" /\ UNCHANGED <<checkRows, channelRows, used, history>>
    BY DEF Attach
<1>3. q \in RequestRecords /\ ch \in Channels
    BY DEF IInv, TypeOK, RequestRecords
<1>4. TypeOK'
    BY <1>1, <1>2, <1>3 DEF IInv, TypeOK, history, RequestRecords
<1>5. DesiredInv'
    BY <1>1, <1>2, <1>3
       DEF IInv, TypeOK, DesiredInv, Selects, history, RequestRecords
<1>6. AloneInv'
  <2> SUFFICES ASSUME NEW s \in alone
               PROVE  /\ \A t \in Requests \ {s} : req'[t].pc = "idle"
                      /\ Fits(asked[s]) => Progress(s)'
    BY <1>2 DEF AloneInv, history
  <2>1. s = r
    BY <1>2 DEF IInv, AloneInv
  <2>2. \A t \in Requests \ {s} : req'[t].pc = "idle"
    BY <1>1, <2>1 DEF IInv, TypeOK, AloneInv
  <2>3. ASSUME Fits(asked[s]) PROVE Progress(s)'
    <3>1. q.desired = asked[r] \cap channelRows
          /\ AttachedTo(q.check) \cup q.todo = asked[r] \cap channelRows
      BY <1>2, <2>1, <2>3 DEF IInv, AloneInv, Progress
    <3>2. (AttachedTo(q.check))' = AttachedTo(q.check) \cup {ch}
      BY <1>1, <1>3 DEF AttachedTo
    <3> QED
      BY <1>1, <1>2, <1>3, <2>1, <3>1, <3>2
         DEF IInv, TypeOK, Progress, AttachedTo, history, RequestRecords
  <2> QED
    BY <2>2, <2>3
<1> QED
    BY <1>4, <1>5, <1>6 DEF IInv

(* IInv is inductive. *)
LEMMA StepKeeps == IInv /\ [Next]_vars => IInv'
<1> SUFFICES ASSUME IInv, [Next]_vars PROVE IInv'
    OBVIOUS
<1>1. CASE UNCHANGED vars
    BY <1>1 DEF IInv, TypeOK, DesiredInv, AloneInv, Selects, Progress,
                AttachedTo, vars, tables, history
<1>2. CASE \/ \E ch \in Channels : CreateChannel(ch) \/ DeleteChannel(ch)
           \/ \E c \in Checks : DeleteCheck(c)
    BY <1>2, TablesKeep
<1>3. ASSUME NEW r \in Requests, HandleAttachDetach(r)
      PROVE  IInv'
  <2>1. CASE Abort(r) \/ AttachDone(r)
    BY <2>1, ReturnKeeps DEF Abort, AttachDone
  <2> QED
    BY <1>3, <2>1, SubmitKeeps, ValidateKeeps, ListKeeps, DetachKeeps,
       DetachDoneKeeps, AttachKeeps DEF HandleAttachDetach
<1> QED
    BY <1>1, <1>2, <1>3 DEF Next

(* IInv holds throughout. *)
LEMMA Invariance == Spec => []IInv
BY InitEstablishes, StepKeeps, PTL DEF Spec

-----------------------------------------------------------------------------
(* The theorems. *)

(***************************************************************************)
(* Every variable keeps its type; with it the foreign keys of              *)
(* check_channels hold, whatever is deleted between two statements.        *)
(***************************************************************************)
THEOREM TypeCorrect == Spec => []TypeOK
<1>1. IInv => TypeOK
    BY DEF IInv
<1> QED
    BY <1>1, Invariance, PTL

(***************************************************************************)
(* A submission nothing interferes with ends with exactly the channels its *)
(* form selected, of those that exist.                                     *)
(***************************************************************************)
THEOREM SubmissionIsExact == Spec => []AloneIsExact
<1>1. IInv => AloneIsExact
    BY DEF IInv, AloneInv, Progress, AloneIsExact, Applied
<1> QED
    BY <1>1, Invariance, PTL

(* No step takes away a channel every submission in flight selects. *)
LEMMA StepKeepsSelected ==
    ASSUME IInv, [Next]_vars,
           NEW c \in checkRows \cap checkRows',
           NEW ch \in channelRows \cap channelRows',
           <<c, ch>> \in links, \A r \in InFlight(c) : Selects(r, ch)
    PROVE  <<c, ch>> \in links'
<1>1. CASE UNCHANGED links
    BY <1>1
<1>2. ASSUME NEW gone \in Channels, DeleteChannel(gone)
      PROVE  <<c, ch>> \in links'
    BY <1>2 DEF DeleteChannel
<1>3. ASSUME NEW gone \in Checks, DeleteCheck(gone)
      PROVE  <<c, ch>> \in links'
    BY <1>3 DEF DeleteCheck
<1>4. ASSUME NEW r \in Requests, Detach(r)
      PROVE  <<c, ch>> \in links'
  <2>1. PICK out \in req[r].todo : links' = links \ {<<req[r].check, out>>}
    BY <1>4 DEF Detach
  <2>2. CASE req[r].check = c /\ out = ch
    <3>1. r \in InFlight(c) /\ ch \in Channels
      BY <1>4, <2>2 DEF Detach, InFlight, IInv, TypeOK
    <3>2. ch \in req[r].desired
      BY <1>4, <3>1 DEF Detach, IInv, DesiredInv
    <3> QED
      BY <1>4, <2>2, <3>2 DEF Detach, IInv, DesiredInv
  <2> QED
    BY <2>1, <2>2
<1>5. ASSUME NEW r \in Requests, Attach(r)
      PROVE  <<c, ch>> \in links'
    BY <1>5 DEF Attach
<1>6. ASSUME NEW r \in Requests,
             \/ Submit(r) \/ Abort(r) \/ Validate(r) \/ List(r)
             \/ DetachDone(r) \/ AttachDone(r)
      PROVE  UNCHANGED links
    BY <1>6 DEF Submit, Abort, Validate, List, DetachDone, AttachDone, tables
<1>7. ASSUME NEW x \in Channels, CreateChannel(x)
      PROVE  UNCHANGED links
    BY <1>7 DEF CreateChannel
<1> QED
    BY <1>1, <1>2, <1>3, <1>4, <1>5, <1>6, <1>7
       DEF Next, HandleAttachDetach, vars, tables

(***************************************************************************)
(* However submissions interleave, a channel that all of those in flight   *)
(* select is never detached: alerts in between still find it.              *)
(***************************************************************************)
THEOREM SelectedNeverDetached == Spec => SelectedStaysAttached
<1>1. IInv /\ [Next]_vars =>
          [\A c \in checkRows \cap checkRows',
              ch \in channelRows \cap channelRows' :
              <<c, ch>> \in links /\ (\A r \in InFlight(c) : Selects(r, ch))
              => <<c, ch>> \in links']_vars
    BY StepKeepsSelected
<1> QED
    BY <1>1, Invariance, PTL DEF Spec, SelectedStaysAttached
=============================================================================
