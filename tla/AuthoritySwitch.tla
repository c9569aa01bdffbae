--------------------------- MODULE AuthoritySwitch ---------------------------
(***************************************************************************)
(* Which part of the system schedules for a salon, how that is switched,   *)
(* and the work that races with the switch: scheduling_authority_switch,   *)
(* scheduling (the router), scheduling_behavior (the booking mode) and     *)
(* scheduling_owner_manual (the owner's review queue).                     *)
(*                                                                         *)
(* A switch is previewed, which stores evidence that the target is ready,  *)
(* and committed, which evaluates the target again, compares, and then     *)
(* checks everything once more inside a transaction that holds the salon's *)
(* fence.  A conversation reviews the policy, is routed by what is already *)
(* persisted for its operation key or else by the policy, and executes in  *)
(* a transaction of the executor it was routed to.  All of these are       *)
(* separate steps; anything may happen in between.                         *)
(***************************************************************************)
EXTENDS Integers, FiniteSets

CONSTANTS
    Ops, Callers, NoCall,
    Runs,              \* numbers: a preview takes the first unused run
    MaxSwitches,       \* bound on authority versions
    MaxEdits           \* bound on edits of mode, calendar, services, provider

Calendar == "manleai_calendar"
External == "external_provider"
OwnerManual == "owner_manual"
Targets == {Calendar, External, OwnerManual}
Modes == {"pending_approval", "confirmed_booking", "disabled"}

ASSUME SwitchConstants ==
    /\ MaxSwitches \in Nat \ {0} /\ MaxEdits \in Nat
    /\ NoCall \notin Ops /\ Runs \subseteq Nat

VARIABLES
    settings,     \* salon_settings: authority, its version, booking mode
    facts,        \* what readiness depends on: calendar, services, provider
    edits,        \* how many edits were made (a bound)
    runs,         \* scheduling_authority_switch_runs
    evaluated,    \* runs whose commit has passed its first evaluation
    bookings,     \* booking_attempts by operation key, with their claims
    requests,     \* scheduling_requests by operation key
    calls         \* conversation actions in flight

switchVars == <<settings, facts, edits, runs, evaluated, bookings, requests, calls>>

-----------------------------------------------------------------------------
(* Booking mode and the facts behind readiness. *)

AllowedConversationBookingModes(authority) ==
    IF authority = OwnerManual THEN {"pending_approval", "disabled"} ELSE Modes

Edit == edits < MaxEdits /\ edits' = edits + 1

UpdateBookingMode(mode) ==
    /\ Edit
    /\ mode \in AllowedConversationBookingModes(settings.authority) \ {settings.mode}
    /\ settings' = [settings EXCEPT !.mode = mode]
    /\ UNCHANGED <<facts, runs, evaluated, bookings, requests, calls>>

\* The calendar's configuration is edited or activated, services come and go
\* (a trigger advances the calendar's version), a synchronization replaces the
\* provider's readiness evidence.
FactsChange ==
    /\ Edit
    /\ \/ facts' = [facts EXCEPT !.version = @ + 1]
       \/ /\ facts.services > 0
          /\ facts' = [facts EXCEPT !.version = @ + 1, !.activated = facts.version + 1]
       \/ facts' = [facts EXCEPT !.version = @ + 1, !.services = 1 - @]
       \/ facts' = [facts EXCEPT !.evidence = @ + 1]
       \/ facts' = [facts EXCEPT !.providerReady = ~ @]
    /\ UNCHANGED <<settings, runs, evaluated, bookings, requests, calls>>

-----------------------------------------------------------------------------
(* Previews and commits of a switch. *)

\* The evidence a target's module reports, and whether it is ready.
OwnerManualReadiness ==
    [ready |-> facts.services > 0
               /\ settings.mode \in AllowedConversationBookingModes(OwnerManual),
     evidence |-> facts.services]
CalendarReadiness ==
    [ready |-> facts.activated = facts.version, evidence |-> facts.version]
ProviderReadiness ==
    [ready |-> facts.providerReady, evidence |-> facts.evidence]

\* evaluateTarget: the evidence stored with a preview, and whether it blocks.
EvaluateTarget(target) ==
    CASE target = OwnerManual -> OwnerManualReadiness
      [] target = Calendar -> CalendarReadiness
      [] target = External -> ProviderReadiness

NoRun == [status |-> "none"]

\* A rollback names a committed switch it exactly inverts.
RollbackAllowed(target, prior) ==
    prior # NoCall => /\ runs[prior].status = "committed"
                      /\ runs[prior].source = target
                      /\ runs[prior].target = settings.authority

\* Preview reads the authority and evaluates the target outside a transaction.
Preview(r, target, prior) ==
    /\ runs[r] = NoRun /\ \A s \in Runs : runs[s] = NoRun => r <= s
    /\ target # settings.authority
    /\ RollbackAllowed(target, prior)
    /\ runs' = [runs EXCEPT ![r] =
                  [status |-> "evaluating", source |-> settings.authority,
                   target |-> target, version |-> settings.version,
                   rollbackOf |-> prior, snapshot |-> EvaluateTarget(target)]]
    /\ UNCHANGED <<settings, facts, edits, evaluated, bookings, requests, calls>>

AuthorityUnchanged(r) ==
    settings.authority = runs[r].source /\ settings.version = runs[r].version

\* CreateOrReplayPreview stores the run if the authority is still the same one.
CreateOrReplayPreview(r) ==
    /\ runs[r].status = "evaluating"
    /\ runs' = [runs EXCEPT ![r] =
                  IF ~ AuthorityUnchanged(r) THEN NoRun
                  ELSE [@ EXCEPT !.status = 
                        IF runs[r].snapshot.ready THEN "preview_ready"
                                                  ELSE "preview_blocked"]]
    /\ UNCHANGED <<settings, facts, edits, evaluated, bookings, requests, calls>>

\* The first half of Commit: the target is evaluated again and must not differ.
EvaluateCommit(r) ==
    /\ r \notin evaluated
    /\ runs[r].status = "preview_ready"
    /\ EvaluateTarget(runs[r].target) = runs[r].snapshot
    /\ evaluated' = evaluated \cup {r}
    /\ UNCHANGED <<settings, facts, edits, runs, bookings, requests, calls>>

LiveExternalExecution ==
    \E op \in Ops : bookings[op].authority = External /\ bookings[op].live

\* The readiness that is checked again inside the commit's transaction.
ReadinessFence(r) ==
    CASE runs[r].target = OwnerManual ->
           /\ settings.mode \in AllowedConversationBookingModes(OwnerManual)
           /\ facts.services = runs[r].snapshot.evidence /\ facts.services # 0
      [] runs[r].target = Calendar ->
           /\ facts.version = runs[r].snapshot.evidence
           /\ facts.activated = facts.version
      [] runs[r].target = External ->
           /\ runs[r].snapshot.ready /\ facts.providerReady
           /\ facts.evidence = runs[r].snapshot.evidence

\* Mutant: work in flight is not waited for.
CommitAllowedUndrained(r) ==
    runs[r].status = "preview_ready" /\ AuthorityUnchanged(r) /\ ReadinessFence(r)

CommitAllowed(r) ==
    /\ runs[r].status = "preview_ready"
    /\ AuthorityUnchanged(r)
    /\ ~ LiveExternalExecution
    /\ ReadinessFence(r)

\* The second half, under the fence; a refusal writes nothing.
Commit(r) ==
    /\ r \in evaluated /\ settings.version < MaxSwitches
    /\ evaluated' = evaluated \ {r}
    /\ \/ /\ CommitAllowed(r)
          /\ settings' = [settings EXCEPT !.authority = runs[r].target,
                                          !.version = @ + 1]
          /\ runs' = [runs EXCEPT ![r].status = "committed"]
       \/ /\ ~ CommitAllowed(r)
          /\ UNCHANGED <<settings, runs>>
    /\ UNCHANGED <<facts, edits, bookings, requests, calls>>

-----------------------------------------------------------------------------
(* Conversation actions: reviewed, routed, executed. *)

NoBooking == [authority |-> "none", live |-> FALSE, version |-> 0]
NoRequest == [status |-> "none", target |-> "none", version |-> 0]

\* CheckConversationAvailability: the caller sees the policy and gets a quote
\* stamped with the authority's version.
CheckConversationAvailability(c, op) ==
    /\ calls[c].op = NoCall
    /\ settings.mode # "disabled"
    /\ calls' = [calls EXCEPT ![c] = [op |-> op, reviewed |-> settings, route |-> "none"]]
    /\ UNCHANGED <<settings, facts, edits, runs, evaluated, bookings, requests>>

Hangup(c) == calls' = [calls EXCEPT ![c] = [op |-> NoCall]]

\* FindOperationSchedulingOrigin: where the operation key was persisted first.
Origins(op) ==
    {bookings[op].authority} \cup (IF requests[op] = NoRequest THEN {} ELSE {OwnerManual})
PersistedOrigins(op) == Origins(op) \ {"none"}

\* The policy must still be the reviewed one; approval goes to the owner.
PolicyRoute(c) ==
    IF \/ settings.mode # calls[c].reviewed.mode
       \/ settings.authority # calls[c].reviewed.authority THEN "refused"
    ELSE IF settings.mode = "confirmed_booking" THEN calls[c].reviewed.authority
    ELSE OwnerManual

\* ExecuteConversationAction is replay-first; two origins are a conflict.
RouteOf(c) ==
    LET origins == PersistedOrigins(calls[c].op)
    IN  IF Cardinality(origins) > 1 THEN "refused"
        ELSE IF origins # {} THEN CHOOSE a \in origins : TRUE
        ELSE PolicyRoute(c)

ExecuteConversationAction(c) ==
    /\ calls[c].op # NoCall /\ calls[c].route = "none"
    /\ IF RouteOf(c) = "refused" THEN Hangup(c)
       ELSE calls' = [calls EXCEPT ![c].route = RouteOf(c)]
    /\ UNCHANGED <<settings, facts, edits, runs, evaluated, bookings, requests>>

Routed(c, authority) == calls[c].op # NoCall /\ calls[c].route = authority

\* The executors' fences: the calendar's and the provider's create.
CreateFence(c, authority) ==
    /\ bookings[calls[c].op] = NoBooking
    /\ settings.authority = authority
    /\ settings.version = calls[c].reviewed.version
    /\ authority = Calendar => facts.activated = facts.version

\* The calendar books at once; the provider's booking is live until settled.
ExecuteBooking(c, authority) ==
    /\ Routed(c, authority)
    /\ IF CreateFence(c, authority)
       THEN bookings' = [bookings EXCEPT ![calls[c].op] =
                           [authority |-> authority, live |-> authority = External,
                            version |-> settings.version]]
       ELSE UNCHANGED bookings
    /\ Hangup(c)
    /\ UNCHANGED <<settings, facts, edits, runs, evaluated, requests>>

SettleExternal(op) ==
    /\ bookings[op].live
    /\ bookings' = [bookings EXCEPT ![op].live = FALSE]
    /\ UNCHANGED <<settings, facts, edits, runs, evaluated, requests, calls>>

\* A request for the owner carries the authority it would be executed by.
RequestFence(c) ==
    /\ requests[calls[c].op] = NoRequest
    /\ settings.mode = "pending_approval"
    /\ settings.authority = calls[c].reviewed.authority
    /\ facts.services > 0

\* scheduling_owner_manual CreateOrReplay.
CreateOrReplay(c) ==
    /\ Routed(c, OwnerManual)
    /\ requests' = IF RequestFence(c)
                   THEN [requests EXCEPT ![calls[c].op] =
                           [status |-> "pending", version |-> 1,
                            target |-> calls[c].reviewed.authority]]
                   ELSE requests
    /\ Hangup(c)
    /\ UNCHANGED <<settings, facts, edits, runs, evaluated, bookings>>

TransitionAllowed(from, to) ==
    \/ from = "pending" /\ to \in {"contacted", "resolved", "dismissed"}
    \/ from = "contacted" /\ to \in {"resolved", "dismissed"}

Transition(op, to) ==
    /\ TransitionAllowed(requests[op].status, to)
    /\ requests' = [requests EXCEPT ![op].status = to, ![op].version = @ + 1]
    /\ UNCHANGED <<settings, facts, edits, runs, evaluated, bookings, calls>>

-----------------------------------------------------------------------------
SwitchInit ==
    /\ settings \in [authority : Targets, version : {1}, mode : Modes \ {"disabled"}]
    /\ settings.mode \in AllowedConversationBookingModes(settings.authority)
    /\ facts = [version |-> 1, activated |-> 1, services |-> 1,
                providerReady |-> TRUE, evidence |-> 1]
    /\ edits = 0
    /\ runs = [r \in Runs |-> NoRun]
    /\ evaluated = {}
    /\ bookings = [op \in Ops |-> NoBooking]
    /\ requests = [op \in Ops |-> NoRequest]
    /\ calls = [c \in Callers |-> [op |-> NoCall]]

SwitchNext ==
    \/ \E mode \in Modes : UpdateBookingMode(mode)
    \/ FactsChange
    \/ \E r \in Runs :
           \/ \E target \in Targets, prior \in Runs \cup {NoCall} : Preview(r, target, prior)
           \/ CreateOrReplayPreview(r)
           \/ EvaluateCommit(r)
           \/ Commit(r)
    \/ \E c \in Callers :
           \/ \E op \in Ops : CheckConversationAvailability(c, op)
           \/ ExecuteConversationAction(c)
           \/ \E authority \in {Calendar, External} : ExecuteBooking(c, authority)
           \/ CreateOrReplay(c)
    \/ \E op \in Ops :
           \/ SettleExternal(op)
           \/ \E to \in {"contacted", "resolved", "dismissed"} : Transition(op, to)

SwitchSpec == SwitchInit /\ [][SwitchNext]_switchVars

-----------------------------------------------------------------------------
(* What must hold. *)

SwitchTypeOK ==
    /\ settings \in [authority : Targets, version : 1 .. MaxSwitches, mode : Modes]
    /\ evaluated \subseteq Runs
    /\ \A r \in Runs : runs[r].status \in
           {"none", "evaluating", "preview_ready", "preview_blocked", "committed"}
    /\ \A op \in Ops : bookings[op].authority \in Targets \cup {"none"}
    /\ \A op \in Ops : requests[op].version \in 0 .. 3

Committed == {r \in Runs : runs[r].status = "committed"}

\* The committed switches are the history of the authority: every version but
\* the first was produced by exactly one of them, each starts where the one
\* before it ended, the last one ends at the current authority, and the salon
\* never takes orders it cannot execute (no confirmed bookings by the owner).
AuthorityHistory ==
    /\ \A v \in 1 .. settings.version - 1 :
           Cardinality({r \in Committed : runs[r].version = v}) = 1
    /\ \A r, s \in Committed :
           runs[s].version = runs[r].version + 1 => runs[s].source = runs[r].target
    /\ \A r \in Committed :
           runs[r].version = settings.version - 1 => runs[r].target = settings.authority
    /\ settings.mode \in AllowedConversationBookingModes(settings.authority)

\* A switch happens only while no provider call is in flight or in doubt, and
\* only to a target that is ready at that very moment, with the evidence the
\* operator was shown.
SwitchIsDrained ==
    [][settings'.authority # settings.authority =>
          /\ ~ LiveExternalExecution
          /\ EvaluateTarget(settings'.authority).ready
          /\ \E r \in Runs : /\ runs[r].status # "committed"
                             /\ runs'[r].status = "committed"
                             /\ EvaluateTarget(runs[r].target).evidence
                                    = runs[r].snapshot.evidence]_switchVars

\* Work begins only under the policy the customer was told: a booking is
\* created by the authority in force in the epoch that was quoted, a request
\* only while approval is required and for the authority in force; and a
\* request the owner has closed stays closed.
WorkFollowsPolicy ==
    [][\A op \in Ops :
          /\ bookings[op] = NoBooking /\ bookings'[op] # NoBooking =>
                 /\ bookings'[op].authority = settings.authority
                 /\ \E c \in Callers : calls[c].op = op
                                       /\ calls[c].reviewed.version = settings.version
          /\ requests[op] = NoRequest /\ requests'[op] # NoRequest =>
                 /\ settings.mode = "pending_approval"
                 /\ requests'[op].target = settings.authority
          /\ requests[op].status \in {"resolved", "dismissed"} =>
                 requests'[op] = requests[op]]_switchVars
=============================================================================
