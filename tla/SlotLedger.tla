----------------------------- MODULE SlotLedger -----------------------------
(***************************************************************************)
(* What a calendar promises, and nothing about how it keeps the promise:   *)
(* at any moment every owner (an appointment, a booking attempt) holds a   *)
(* set of cells (a staff member at an instant), no cell is held twice, and *)
(* one step changes what ONE owner holds.  InternalCalendar is shown to    *)
(* implement it.                                                           *)
(***************************************************************************)
CONSTANTS Owners, Cells

VARIABLE held

Init == held = [o \in Owners |-> {}]

\* One owner replaces what it holds by cells nobody else holds.
Rebook(o) ==
    /\ held' \in [Owners -> SUBSET Cells]
    /\ \A p \in Owners \ {o} : held'[p] = held[p] /\ held'[o] \cap held[p] = {}

Next == \E o \in Owners : Rebook(o)

Spec == Init /\ [][Next]_held
=============================================================================
