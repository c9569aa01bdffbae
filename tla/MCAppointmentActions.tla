------------------------ MODULE MCAppointmentActions ------------------------
(* AppointmentActions with two calls: two half-overlapping times, one of them   *)
(* contested by another booking, and moves or cancellations at the provider.    *)
(* A behaviour has a contested time or changes made at the provider and not     *)
(* both: neither takes part in what the other is about.                         *)
EXTENDS AppointmentActions

Uncontested == rival = {}
Unmoved == \A v \in 1 .. Len(truth) : truth[v].by # -1

MCNext == ActionsNext /\ (Uncontested' \/ Unmoved')

MCSpec == ActionsInit /\ [][MCNext]_actionVars
=============================================================================
