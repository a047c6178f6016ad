---------------------------- MODULE Subscriptions ---------------------------
(***************************************************************************)
(* Which channels a check alerts: the check_channels table, and the        *)
(* handler that makes it match a submitted form.                           *)
(*                                                                         *)
(* HandleAttachDetach looks every submitted channel up, reads what is      *)
(* attached, then detaches and attaches one row at a time.  No transaction *)
(* and no lock spans these statements: other submissions for the same      *)
(* check, and deletions of checks and channels, run in between, and any    *)
(* statement may fail, which ends the request half way.                    *)
(*                                                                         *)
(* Before the handler runs, the MethodOverride middleware has parsed the   *)
(* form to look for _method, from at most 1,024 bytes of the body.         *)
(***************************************************************************)
EXTENDS Naturals, FiniteSets

CONSTANTS
    Checks,
    Channels,    \* the ids a form may name, of channels that exist or not
    Requests,    \* identities of the submissions served concurrently
    FormCap,     \* how many channels a form names within 1,024 bytes
    Nil

ASSUME NilAssumption     == Nil \notin Checks
ASSUME FormCapAssumption == FormCap \in Nat

VARIABLES
    checkRows,      \* the checks that exist
    channelRows,    \* the channels that exist
    used,           \* channel ids ever given out (AUTOINCREMENT)
    links,          \* check_channels: pairs <<check, channel>>
    req,            \* request -> the goroutine serving it
    asked,          \* history: what the request's form selected
    unsure,         \* history: <<request, channel>> whose lookup failed
    alone           \* history: requests in flight that nothing interfered with

tables  == <<checkRows, channelRows, used, links>>
history == <<asked, unsure, alone>>
vars    == <<tables, req, history>>

(* desired is the handler's map; todo what is left of the current loop. *)
RequestRecords ==
    [pc      : {"idle", "validate", "detach", "attach"},
     check   : Checks \cup {Nil},
     desired : SUBSET Channels,
     todo    : SUBSET Channels]

Idle == [pc |-> "idle", check |-> Nil, desired |-> {}, todo |-> {}]

(* The foreign keys of check_channels are part of the type. *)
TypeOK ==
    /\ checkRows \subseteq Checks
    /\ channelRows \subseteq used /\ used \subseteq Channels
    /\ links \subseteq checkRows \X channelRows
    /\ req \in [Requests -> RequestRecords]
    /\ asked \in [Requests -> SUBSET Channels]
    /\ unsure \subseteq Requests \X Channels
    /\ alone \subseteq Requests

Init ==
    /\ checkRows = Checks
    /\ channelRows \in SUBSET Channels
    /\ used = channelRows
    /\ links = {}
    /\ req = [r \in Requests |-> Idle]
    /\ asked = [r \in Requests |-> {}]
    /\ unsure = {} /\ alone = {}

AttachedTo(c) == {ch \in Channels : <<c, ch>> \in links}

-----------------------------------------------------------------------------
(* Channels and checks come and go. *)

CreateChannel(ch) ==
    /\ ch \notin used
    /\ channelRows' = channelRows \cup {ch}
    /\ used' = used \cup {ch}
    /\ alone' = {}
    /\ UNCHANGED <<checkRows, links, req, asked, unsure>>

(* ON DELETE CASCADE, on both foreign keys. *)
DeleteChannel(ch) ==
    /\ ch \in channelRows
    /\ channelRows' = channelRows \ {ch}
    /\ links' = {link \in links : link[2] # ch}
    /\ alone' = {}
    /\ UNCHANGED <<checkRows, used, req, asked, unsure>>

DeleteCheck(c) ==
    /\ c \in checkRows
    /\ checkRows' = checkRows \ {c}
    /\ links' = {link \in links : link[1] # c}
    /\ alone' = {}
    /\ UNCHANGED <<channelRows, used, req, asked, unsure>>

-----------------------------------------------------------------------------
(* HandleAttachDetach. *)

Go(r, locals) == req' = [req EXCEPT ![r] = locals]

(* Any statement but a lookup that fails ends the request: 500. *)
Abort(r) ==
    /\ req[r].pc # "idle"
    /\ Go(r, Idle)
    /\ UNCHANGED <<tables, history>>

(***************************************************************************)
(* What the handler's ParseForm finds.  The middleware's FormValue parsed  *)
(* the body already: when its MaxBytesReader cut the body off, it left an  *)
(* empty form behind, which ParseForm takes as it is, without an error.    *)
(***************************************************************************)
Fits(selected) == Cardinality(selected) <= FormCap
Read(selected) == IF Fits(selected) THEN selected ELSE {}

(* The check is known to the cache; the form selects some channel ids. *)
Submit(r) ==
    /\ req[r].pc = "idle"
    /\ \E c \in checkRows, selected \in SUBSET Channels :
          /\ Go(r, [pc |-> "validate", check |-> c, desired |-> Read(selected),
                    todo |-> Read(selected)])
          /\ asked' = [asked EXCEPT ![r] = selected]
    /\ unsure' = {u \in unsure : u[1] # r}
    /\ alone' = IF \A s \in Requests : req[s].pc = "idle" THEN {r} ELSE {}
    /\ UNCHANGED tables

(* GetByID: an error of any kind takes the id out of the desired set. *)
Validate(r) ==
    LET q == req[r]
    IN  /\ q.pc = "validate"
        /\ \E ch \in q.todo :
              \/ /\ ch \in channelRows
                 /\ Go(r, [q EXCEPT !.todo = @ \ {ch}])
                 /\ UNCHANGED <<unsure, alone>>
              \/ /\ Go(r, [q EXCEPT !.todo = @ \ {ch}, !.desired = @ \ {ch}])
                 /\ unsure' = unsure \cup {<<r, ch>>}
                 /\ alone' = IF ch \in channelRows THEN alone \ {r} ELSE alone
        /\ UNCHANGED <<tables, asked>>

ListDetachingAll(r) ==    \* mutation: detach everything, then attach
    LET q == req[r]
    IN  /\ q.pc = "validate" /\ q.todo = {}
        /\ Go(r, [q EXCEPT !.pc = "detach", !.todo = AttachedTo(q.check)])
        /\ UNCHANGED <<tables, history>>

ListAddingOnly(r) ==    \* mutation: nothing is detached
    LET q == req[r]
    IN  /\ q.pc = "validate" /\ q.todo = {}
        /\ Go(r, [q EXCEPT !.pc = "detach", !.todo = {}])
        /\ UNCHANGED <<tables, history>>

(* ListByCheckID, once: what to detach is fixed here. *)
List(r) ==
    LET q == req[r]
    IN  /\ q.pc = "validate" /\ q.todo = {}
        /\ Go(r, [q EXCEPT !.pc = "detach",
                           !.todo = AttachedTo(q.check) \ q.desired])
        /\ UNCHANGED <<tables, history>>

Detach(r) ==
    LET q == req[r]
    IN  /\ q.pc = "detach"
        /\ \E ch \in q.todo :
              /\ links' = links \ {<<q.check, ch>>}
              /\ Go(r, [q EXCEPT !.todo = @ \ {ch}])
        /\ UNCHANGED <<checkRows, channelRows, used, history>>

DetachDone(r) ==
    LET q == req[r]
    IN  /\ q.pc = "detach" /\ q.todo = {}
        /\ Go(r, [q EXCEPT !.pc = "attach", !.todo = q.desired])
        /\ UNCHANGED <<tables, history>>

AttachUnchecked(r) ==    \* mutation: foreign keys are not enforced
    LET q == req[r]
    IN  /\ q.pc = "attach"
        /\ \E ch \in q.todo :
              /\ links' = links \cup {<<q.check, ch>>}
              /\ Go(r, [q EXCEPT !.todo = @ \ {ch}])
        /\ UNCHANGED <<checkRows, channelRows, used, history>>

(* INSERT OR IGNORE does not ignore a foreign key that does not hold. *)
Attach(r) ==
    LET q == req[r]
    IN  /\ q.pc = "attach"
        /\ \E ch \in q.todo :
              /\ q.check \in checkRows /\ ch \in channelRows
              /\ links' = links \cup {<<q.check, ch>>}
              /\ Go(r, [q EXCEPT !.todo = @ \ {ch}])
        /\ UNCHANGED <<checkRows, channelRows, used, history>>

AttachDone(r) ==
    /\ req[r].pc = "attach" /\ req[r].todo = {}
    /\ Go(r, Idle)
    /\ UNCHANGED <<tables, history>>

HandleAttachDetach(r) ==
    \/ Submit(r) \/ Abort(r)
    \/ Validate(r) \/ List(r)
    \/ Detach(r) \/ DetachDone(r)
    \/ Attach(r) \/ AttachDone(r)

-----------------------------------------------------------------------------

Next ==
    \/ \E ch \in Channels : CreateChannel(ch) \/ DeleteChannel(ch)
    \/ \E c \in Checks : DeleteCheck(c)
    \/ \E r \in Requests : HandleAttachDetach(r)

Spec == Init /\ [][Next]_vars

-----------------------------------------------------------------------------
(* Properties. *)

InFlight(c) == {r \in Requests : req[r].pc # "idle" /\ req[r].check = c}

Selects(r, ch) == Fits(asked[r]) /\ ch \in asked[r] /\ <<r, ch>> \notin unsure

Applied(r) == AttachedTo(req[r].check) = asked[r] \cap channelRows

(***************************************************************************)
(* A channel every submission in flight selects is not detached, not even  *)
(* for an instant in which an alert would miss it, unless it or its check  *)
(* is deleted, or one of them failed to look it up: the handler applies a  *)
(* difference and does not rebuild the set.  (Forms that fit.)             *)
(***************************************************************************)
SelectedStaysAttached ==
    [][\A c \in checkRows \cap checkRows',
          ch \in channelRows \cap channelRows' :
          <<c, ch>> \in links /\ (\A r \in InFlight(c) : Selects(r, ch))
          => <<c, ch>> \in links']_vars

(***************************************************************************)
(* A submission that meets no other one, no deletion and no refused lookup *)
(* leaves exactly the channels its form selected, of those that exist.     *)
(* (Forms that fit.)                                                       *)
(***************************************************************************)
AloneIsExact ==
    \A r \in alone :
        req[r].pc = "attach" /\ req[r].todo = {} /\ Fits(asked[r])
        => Applied(r)

(***************************************************************************)
(* HandleAttachDetach's comment: it detaches the channels that are no      *)
(* longer selected and attaches the selected ones, whatever the form's     *)
(* size up to the handler's own limit of 32 KiB.                           *)
(***************************************************************************)
SelectionIsApplied ==
    \A r \in alone : req[r].pc = "attach" /\ req[r].todo = {} => Applied(r)
=============================================================================
