--------------------------- MODULE OrderLifecycle ---------------------------
(***************************************************************************)
(* What the ordering system promises about one order after another, with   *)
(* no requests, notes, codes or retries in it:                             *)
(*   - an order is placed, and from there is sent to the kitchen at most   *)
(*     once, or dropped;                                                   *)
(*   - it goes to the kitchen only in the step that records its money;     *)
(*   - an order in the kitchen is handed over or dropped, and neither is   *)
(*     taken back;                                                         *)
(*   - the first money for an order that does not send it to the kitchen   *)
(*     puts the order before staff, and so does dropping it from there.    *)
(***************************************************************************)
CONSTANT Order

VARIABLES
    phase,      \* where the order is
    paid,       \* money was recorded for it at some time
    attention,  \* it is before staff now
    settled     \* staff have dealt with it at some time

vars == <<phase, paid, attention, settled>>

Phase == {"absent", "placed", "cooking", "handedOver", "dropped"}

Init ==
    /\ phase = [o \in Order |-> "absent"]
    /\ paid = [o \in Order |-> FALSE]
    /\ attention = [o \in Order |-> FALSE]
    /\ settled = [o \in Order |-> FALSE]

Move(o, from, to) == phase[o] = from /\ phase' = [phase EXCEPT ![o] = to]

Place(o) == Move(o, "absent", "placed") /\ UNCHANGED <<paid, attention, settled>>

Cook(o) ==
    /\ Move(o, "placed", "cooking")
    /\ paid' = [paid EXCEPT ![o] = TRUE]
    /\ UNCHANGED <<attention, settled>>

HandOver(o) == Move(o, "cooking", "handedOver") /\ UNCHANGED <<paid, attention, settled>>

DropUnpaid(o) == Move(o, "placed", "dropped") /\ UNCHANGED <<paid, attention, settled>>

DropCooking(o) ==
    /\ Move(o, "cooking", "dropped")
    /\ attention' = [attention EXCEPT ![o] = TRUE]
    /\ UNCHANGED <<paid, settled>>

\* Something for staff, with or without money in it.
Raise(o) ==
    /\ phase[o] # "absent"
    /\ attention' = [attention EXCEPT ![o] = TRUE]
    /\ \/ UNCHANGED paid
       \/ paid' = [paid EXCEPT ![o] = TRUE]
    /\ UNCHANGED <<phase, settled>>

Settle(o) ==
    /\ attention[o]
    /\ attention' = [attention EXCEPT ![o] = FALSE]
    /\ settled' = [settled EXCEPT ![o] = TRUE]
    /\ UNCHANGED <<phase, paid>>

Next == \E o \in Order : \/ Place(o) \/ Cook(o) \/ HandOver(o) \/ DropUnpaid(o)
                         \/ DropCooking(o) \/ Raise(o) \/ Settle(o)

Spec == Init /\ [][Next]_vars
=============================================================================
