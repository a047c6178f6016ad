----------------------------- MODULE MCDelivery -----------------------------
(* Instances of Delivery for TLC. *)
EXTENDS Delivery

(* Two migrations; the first creates what Hydrate reads. *)
TwoFiles == << <<"checks", "pings">>, <<"notifications">> >>
Schema   == {"checks", "pings", "notifications"}

(***************************************************************************)
(* With 4 ticks to the second and 7 bits to a duration: no number, too     *)
(* short, the least, one that overflows to below zero, one to above.       *)
(***************************************************************************)
Periods == {-1, 9, 10, 20, 36}
=============================================================================
