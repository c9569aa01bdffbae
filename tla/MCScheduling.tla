---------------------------- MODULE MCScheduling ----------------------------
(* InternalCalendar on a small salon (two staff, one pooled service, one pool) *)
(* and AuthoritySwitch beside it: a behaviour is one of the two components',    *)
(* so the run has the states of both and not their product.                    *)
EXTENDS InternalCalendar, AuthoritySwitch, TLC

VARIABLE part

MCInit ==
    /\ part \in {"calendar", "switch"} /\ Init /\ SwitchInit
    /\ part = "calendar" =>
           settings.authority = Calendar /\ settings.mode = "confirmed_booking"

MCNext ==
    \/ part = "calendar" /\ Next /\ UNCHANGED <<part, switchVars>>
    \/ part = "switch" /\ SwitchNext /\ UNCHANGED <<part, vars>>

MCSpec == MCInit /\ [][MCNext]_<<part, vars, switchVars>>

\* The values of the variables of the calendar and of the switch are of the
\* kinds their tables hold.
SchedulingTypeOK == TypeOK /\ SwitchTypeOK

\* The rows of the calendar say the same of an appointment, and the rows of the switch the
\* same of the authority that is in force.
BooksAgree == RowsAgree /\ AuthorityHistory

\* What is written is written under the authority, the configuration and the mode that
\* hold at that moment, and the authority changes only when nothing of the old is open.
SwitchIsFenced == WritesAreFenced /\ SwitchIsDrained /\ WorkFollowsPolicy

MCDuration == [s \in Services |-> 1]

Segment(staff, guest) == [service |-> "gel", staff |-> staff, guest |-> guest]
MCRequests ==
    {<<Segment(Anyone, None)>>, <<Segment(Anyone, 1), Segment(Anyone, 2)>>,
     <<Segment(Anyone, None), Segment(Anyone, 1)>>}

Period(a, b) == [from |-> a, to |-> b]
Policy == [enabled |-> TRUE, mode |-> "pooled", staff |-> Staff,
           before |-> None, after |-> None, units |-> [p \in Pools |-> 1]]

MCInitialConfig ==
    [version |-> 1, activated |-> 1, step |-> 1, notice |-> 0, maxParty |-> 2,
     before |-> 0, after |-> 0, rescheduleCutoff |-> None,
     cancellationCutoff |-> 1, hours |-> {Period(0, Day)},
     weekly |-> [s \in Staff |-> {Period(0, Day)}],
     policies |-> [s \in Services |-> Policy],
     capacity |-> [p \in Pools |-> 2], archived |-> {}, exceptions |-> {},
     liveStaff |-> Staff, liveServices |-> Services]

MCConfigInputs == {[step |-> 1, notice |-> 1, maxParty |-> 1, before |-> 0, after |-> 1,
                    rescheduleCutoff |-> 1, cancellationCutoff |-> None]}
MCHoursInputs == {{Period(1, Day)}}
MCProfileInputs == {[staff |-> 1, periods |-> {Period(0, 1)}, services |-> Services]}
MCPolicyInputs == {[service |-> "gel",
                    policy |-> [Policy EXCEPT !.mode = "staff_only", !.before = 1,
                                              !.units = [p \in Pools |-> 0]]]}
MCResourceInputs == {[pool |-> p, capacity |-> 1] : p \in Pools}
MCExceptionInputs ==
    {[scope |-> "staff", who |-> 1, effect |-> "unavailable", from |-> 1, to |-> 2,
      capacity |-> 0],
     [scope |-> "resource", who |-> CHOOSE p \in Pools : TRUE, effect |-> "capacity_override",
      from |-> 0, to |-> 1, capacity |-> 1]}
MCExtBusy == {[staff |-> 1, from |-> 0, to |-> 1], [staff |-> 0, from |-> 0, to |-> 1]}
MCSymmetry == Permutations(Callers)
=============================================================================
