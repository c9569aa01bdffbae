-------------------------- MODULE LifecycleDialogue --------------------------
(***************************************************************************)
(* Moving and cancelling an appointment by phone (modules/conversation     *)
(* service.go handleRescheduleMessage and handleCancelMessage,             *)
(* service_internal_lifecycle.go, service_intent.go and the lifecycle part *)
(* of service_booking_flow.go).                                            *)
(*                                                                         *)
(* The session works on candidates it looked up earlier, with the version  *)
(* they had then; the owner may move or cancel the appointments meanwhile, *)
(* change the booking mode or switch the calendar, and a turn may die      *)
(* after it executed and before its save.  Appointments of the internal    *)
(* calendar are changed as a whole at an expected version after an         *)
(* explicit confirmation; the others go through their provider.            *)
(***************************************************************************)
EXTENDS Integers, Sequences, FiniteSets

CONSTANTS
    Visits,           \* appointments of the caller
    InternalVisits,   \* those the internal calendar keeps
    VisitTimes,       \* positive integers: start times
    LifePolicies,     \* records [mode, authority, ai]
    MaxLifeTurns,     \* bound: turns of the call
    MaxVisitEdits,    \* bound: changes the owner makes to the appointments
    MaxLifePolicies   \* bound: changes of the policy

NoVisit == "no visit"
Manual == "described by the caller"

ASSUME LifecycleConstants ==
    /\ InternalVisits \subseteq Visits /\ IsFiniteSet(Visits)
    /\ {NoVisit, Manual} \cap Visits = {}
    /\ VisitTimes \subseteq Nat \ {0}
    /\ {MaxLifeTurns, MaxVisitEdits, MaxLifePolicies} \subseteq Nat

VARIABLES
    life,         \* the saved session
    visits,       \* the appointments
    lifePolicy,   \* booking mode, scheduling authority and AI switch of the salon
    lifeTurn,     \* the turn in progress
    lifeOps,      \* operations by their key: the kind and the target
    approved,     \* history: what the caller was last asked to approve
    lifeBudget

lifeVars == <<life, visits, lifePolicy, lifeTurn, lifeOps, approved, lifeBudget>>

-----------------------------------------------------------------------------
(* The session. *)

NewLife ==
    [status |-> "active", outcome |-> "collecting", action |-> "book", phone |-> FALSE,
     candidates |-> <<>>, target |-> NoVisit, when |-> 0, options |-> {}, chosen |-> 0,
     proof |-> 0, pending |-> "none", authority |-> ""]
IdleLife == [stage |-> "idle", cfg |-> [mode |-> "", authority |-> "", ai |-> FALSE], next |-> NewLife]

\* rescheduleCandidatesFromAppointments
Upcoming == {v \in Visits : visits[v].active}
Candidates(found) == [v \in found |-> [when |-> visits[v].when, version |-> visits[v].version]]

\* selectedInternalLifecycleCandidate
IsInternal(t) == t.target \in InternalVisits \cap DOMAIN t.candidates
VersionSeen(t) == t.candidates[t.target].version

clearNewRescheduleSlot(t) ==
    [t EXCEPT !.when = 0, !.options = {}, !.chosen = 0,
              !.target = IF @ = Manual THEN NoVisit ELSE @,
              !.pending = IF @ = "manual" THEN "none" ELSE @]
clearCancelSelection(t) ==
    [t EXCEPT !.target = NoVisit, !.when = 0, !.options = {}, !.chosen = 0,
              !.pending = IF @ \in {"manual", "reason", "cancel"} THEN "none" ELSE @]
clearInternalLifecyclePending(t) ==
    [t EXCEPT !.pending = IF @ \in {"move", "reason", "cancel"} THEN "none" ELSE @]

applyRescheduleCandidate(t, v) ==
    [t EXCEPT !.target = v, !.when = 0, !.options = {}, !.chosen = 0]
applyCancelCandidate(t, v) ==
    [applyRescheduleCandidate(t, v) EXCEPT !.when = t.candidates[v].when]

-----------------------------------------------------------------------------
(* Ends of a turn. *)

SayLife(t) ==
    /\ life' = t
    /\ lifeTurn' = IdleLife
    /\ UNCHANGED <<visits, lifePolicy, lifeOps, approved, lifeBudget>>
\* The prompt names the appointment, and the replacement, to be approved.
AskApproval(t, action, when) ==
    /\ life' = t
    /\ approved' = [action |-> action, target |-> t.target, when |-> when,
                    version |-> VersionSeen(t)]
    /\ lifeTurn' = IdleLife
    /\ UNCHANGED <<visits, lifePolicy, lifeOps, lifeBudget>>
HandOver(t) == SayLife([t EXCEPT !.status = "handoff"])
GoExecute(t) ==
    /\ lifeTurn' = [lifeTurn EXCEPT !.stage = "executing", !.next = t]
    /\ UNCHANGED <<life, visits, lifePolicy, lifeOps, approved, lifeBudget>>

-----------------------------------------------------------------------------
(* Replacement times. *)

\* applyInternalLifecycleOffer: whole-appointment options quoted for one version.
InternalOffer(t, times) ==
    [t EXCEPT !.when = 0, !.chosen = 0, !.options = times, !.proof = VersionSeen(t),
              !.authority = "manleai_calendar"]

\* reofferInternalLifecycleAfterConflict: the appointment is looked up again.
reofferInternalLifecycleAfterConflict(t, action) ==
    \/ HandOver(t)
    \/ LET found == [clearInternalLifecyclePending(t) EXCEPT !.candidates = Candidates(Upcoming),
                                                             !.chosen = 0, !.proof = 0]
       IN  IF t.target \notin Upcoming THEN HandOver(found)
           ELSE IF action = "cancel"
           THEN SayLife([applyCancelCandidate(found, t.target) EXCEPT !.action = "cancel",
                                                                      !.pending = "reason"])
           ELSE lifeTurn.cfg.mode = lifePolicy.mode /\ \E times \in SUBSET VisitTimes :
                  SayLife(InternalOffer([applyRescheduleCandidate(found, t.target) EXCEPT
                                         !.action = "reschedule"], times))

\* checkAvailabilityWithLimit for an internal target: the mode and the version must still be
\* the ones the session knows.
InternalAvailability(t) ==
    \/ HandOver(t)
    \/ IF lifeTurn.cfg.mode # lifePolicy.mode \/ visits[t.target].version # VersionSeen(t)
       THEN reofferInternalLifecycleAfterConflict(t, "reschedule")
       ELSE \E times \in SUBSET VisitTimes : SayLife(InternalOffer(t, times))

\* Another target: the time is checked, then checked again when it is requested.
OtherOffer(t, times) == [t EXCEPT !.when = 0, !.options = times, !.authority = "external_provider"]
tryReschedule(t, when) ==
    \/ HandOver(t)
    \/ GoExecute([t EXCEPT !.when = when, !.options = {}, !.authority =
                  IF t.target = Manual THEN lifePolicy.authority ELSE "external_provider"])
    \/ \E times \in SUBSET VisitTimes : SayLife(OtherOffer(t, times))

\* prepareSelectedInternalLifecycleOption, setInternalLifecyclePending
ReviewReplacement(t, when) ==
    AskApproval([t EXCEPT !.chosen = when, !.when = when, !.pending = "move"], "reschedule", when)

-----------------------------------------------------------------------------
(* Turns. *)

LifeLoads ==
    /\ lifeTurn.stage = "idle" /\ life.status = "active" /\ lifeBudget.turns > 0
    /\ lifeTurn' = [IdleLife EXCEPT !.stage = "loaded", !.cfg = lifePolicy]
    /\ lifeBudget' = [lifeBudget EXCEPT !.turns = @ - 1]
    /\ UNCHANGED <<life, visits, lifePolicy, lifeOps, approved>>

LifeDies ==
    /\ lifeTurn.stage # "idle"
    /\ lifeTurn' = IdleLife
    /\ UNCHANGED <<life, visits, lifePolicy, lifeOps, approved, lifeBudget>>

\* The session as extraction leaves it: the phone number may be among what was said.
WithPhone(t) == [t EXCEPT !.phone = TRUE]
Refused(cfg) == ~ cfg.ai \/ cfg.mode = "disabled"

\* No candidate: only a request for the owner can name its appointment in words.
NothingFound(t) ==
    IF lifeTurn.cfg.mode = "pending_approval" THEN SayLife([t EXCEPT !.pending = "manual"])
    ELSE HandOver(t)

\* A target was chosen, or none is: lookup, choice, or a question.
RescheduleTarget(t) ==
    LET blank == clearNewRescheduleSlot(t) IN
    \/ \E v \in DOMAIN t.candidates :
         LET picked == applyRescheduleCandidate(blank, v) IN
         \/ v \notin InternalVisits /\ HandOver(picked)          \* not one plain service
         \/ SayLife(picked)                                      \* which new time?
         \/ IF v \in InternalVisits THEN InternalAvailability(picked)     \* "the next day"
            ELSE \E times \in SUBSET VisitTimes : SayLife(OtherOffer(picked, times))
    \/ IF DOMAIN t.candidates # {} THEN SayLife(blank)
       ELSE LET found == [blank EXCEPT !.candidates = Candidates(Upcoming)]
            IN  \/ HandOver(blank)
                \/ IF Upcoming = {} THEN NothingFound(found) ELSE SayLife(found)

ReplacementTime(t) ==
    \/ SayLife(t)                                                \* no time understood
    \/ HandOver(t)                                               \* three times over
    \/ IF IsInternal(t)
       THEN \/ \E when \in t.options : ReviewReplacement(t, when)
            \/ InternalAvailability(t)
       ELSE \/ \E when \in VisitTimes : tryReschedule(t, when)
            \/ \E times \in SUBSET VisitTimes : SayLife(OtherOffer(t, times))

\* The pending act is the authorization boundary: nothing else said changes the reviewed
\* replacement.
ReplacementAnswer(t) ==
    \/ SayLife([clearInternalLifecyclePending(t) EXCEPT !.chosen = 0, !.when = 0, !.proof = 0])
    \/ AskApproval(t, "reschedule", t.chosen)
    \/ GoExecute(t)

handleRescheduleMessage ==
    /\ lifeTurn.stage = "loaded" /\ life.action # "cancel"
    /\ LET t == [IF life.action = "reschedule" THEN life ELSE clearNewRescheduleSlot(life)
                 EXCEPT !.action = "reschedule"]
       IN  IF Refused(lifeTurn.cfg) THEN HandOver(t)
           ELSE IF ~ t.phone THEN SayLife(t) \/ RescheduleTarget(WithPhone(t))
           ELSE IF life.pending = "manual"
           THEN SayLife(t) \/ SayLife([t EXCEPT !.pending = "none", !.target = Manual, !.when = 0])
           ELSE IF life.pending = "move" THEN ReplacementAnswer(life)
           ELSE IF t.target = NoVisit THEN RescheduleTarget(t)
           ELSE ReplacementTime(t)

\* The appointment to cancel: the internal calendar wants a reason first, the other prompt
\* is the approval itself.
CancelChosen(t, v) ==
    LET picked == applyCancelCandidate(t, v) IN
    IF v \in InternalVisits THEN SayLife([picked EXCEPT !.pending = "reason"])
    ELSE AskApproval(picked, "cancel", picked.when)
CancelTarget(t) ==
    \/ \E v \in DOMAIN t.candidates : CancelChosen(t, v)
    \/ IF DOMAIN t.candidates = {}
       THEN LET found == [t EXCEPT !.candidates = Candidates(Upcoming)] IN
            \/ HandOver(t)
            \/ \E v \in Upcoming : CancelChosen(found, v)
            \/ IF Upcoming = {} THEN NothingFound(found)
               ELSE Cardinality(Upcoming) > 1 /\ SayLife(found)
       ELSE IF Cardinality(DOMAIN t.candidates) = 1
            THEN \E v \in DOMAIN t.candidates : CancelChosen(t, v)
            ELSE SayLife(t)

\* PendingInternalCancelReason
CancelReason(t) ==
    IF ~ IsInternal(t) THEN HandOver(t)
    ELSE \/ SayLife(clearCancelSelection(t))
         \/ AskApproval([t EXCEPT !.pending = "cancel"], "cancel", t.candidates[t.target].when)
\* PendingInternalCancelConfirmation
CancelAnswer(t) ==
    \/ SayLife(clearInternalLifecyclePending(t))
    \/ IF IsInternal(t) THEN AskApproval(t, "cancel", t.candidates[t.target].when) ELSE HandOver(t)
    \/ GoExecute(t)

CancelConfirmation(t) ==
    \/ SayLife(clearCancelSelection(t))
    \/ AskApproval(t, "cancel", t.when)
    \/ GoExecute(t)

handleCancelMessage ==
    /\ lifeTurn.stage = "loaded"
    /\ LET t == [IF life.action = "cancel" THEN life ELSE clearCancelSelection(life)
                 EXCEPT !.action = "cancel"]
       IN  IF Refused(lifeTurn.cfg) THEN HandOver(t)
           ELSE IF ~ t.phone THEN SayLife(t) \/ CancelTarget(WithPhone(t))
           ELSE IF t.target = NoVisit /\ life.pending = "manual"
           THEN SayLife(t) \/ GoExecute([t EXCEPT !.pending = "none", !.target = Manual, !.when = 0])
           ELSE IF life.pending = "reason" THEN CancelReason(life)
           ELSE IF life.pending = "cancel" THEN CancelAnswer(life)
           ELSE IF t.target = Manual
           THEN SayLife(clearCancelSelection(t)) \/ SayLife(t) \/ GoExecute(t)
           ELSE IF t.target = NoVisit THEN CancelTarget(t)
           ELSE IF IsInternal(t) THEN SayLife([t EXCEPT !.pending = "reason"])
           ELSE CancelConfirmation(t)

-----------------------------------------------------------------------------
(* Execution. *)

LifeKey(t) == <<t.action, t.target>>
Request(t) == [action |-> t.action, target |-> t.target,
               when |-> IF t.action = "cancel" THEN 0 ELSE t.when,
               version |-> IF IsInternal(t) THEN VersionSeen(t) ELSE 0]

\* stampSchedulingReviewFence: the authority of the last availability, else of the target.
LifeFence(t, cfg) ==
    [mode |-> cfg.mode,
     authority |-> IF t.authority # "" THEN t.authority
                   ELSE IF t.target \in DOMAIN t.candidates
                   THEN IF IsInternal(t) THEN "manleai_calendar" ELSE "external_provider"
                   ELSE cfg.authority]

ReplayMatches(origin, t) == origin.request = Request(t)

VersionStands(t) ==
    /\ visits[t.target].active
    /\ visits[t.target].version = VersionSeen(t)
    /\ t.action = "reschedule" => t.proof = VersionSeen(t)

Changed(t) ==
    visits' = [visits EXCEPT ![t.target] =
                 [when |-> IF t.action = "cancel" THEN @.when ELSE t.when,
                  version |-> @.version + 1, active |-> t.action # "cancel"]]
Noted(t, kind) ==
    lifeOps' = [k \in DOMAIN lifeOps \cup {LifeKey(t)} |->
                  IF k # LifeKey(t) THEN lifeOps[k]
                  ELSE [kind |-> kind, request |-> Request(t), approved |-> approved,
                        found |-> IF t.target \in Visits THEN visits[t.target].version ELSE 0]]

\* applyNeutralActionResult
LifeOutcomes == [confirmed |-> [reschedule |-> "booking_rescheduled", cancel |-> "booking_cancelled"],
                 owner_review |-> [reschedule |-> "owner_review_pending",
                                   cancel |-> "owner_review_pending"],
                 fallback |-> [reschedule |-> "booking_fallback_pending",
                               cancel |-> "booking_fallback_pending"]]
Settled(t, kind) ==
    /\ lifeTurn' = [lifeTurn EXCEPT !.stage = "saving",
                    !.next = [clearInternalLifecyclePending(t) EXCEPT
                              !.status = "completed", !.outcome = LifeOutcomes[kind][t.action]]]
    /\ UNCHANGED <<life, lifePolicy, approved, lifeBudget>>

\* A conflict re-offers an internal appointment that would be changed at once.
Conflicted(t) ==
    IF lifeTurn.cfg.mode = "confirmed_booking" /\ IsInternal(t)
    THEN reofferInternalLifecycleAfterConflict(t, t.action)
    ELSE HandOver(t)

ExecuteLifecycle ==
    /\ lifeTurn.stage = "executing"
    /\ LET t == lifeTurn.next IN
       IF LifeKey(t) \in DOMAIN lifeOps
       THEN LET origin == lifeOps[LifeKey(t)] IN
            IF ReplayMatches(origin, t) THEN Settled(t, origin.kind) /\ UNCHANGED <<visits, lifeOps>>
            ELSE Conflicted(t)
       ELSE IF LifeFence(t, lifeTurn.cfg)
               # [mode |-> lifePolicy.mode, authority |-> lifePolicy.authority] THEN Conflicted(t)
       ELSE IF lifePolicy.mode = "pending_approval" \/ lifePolicy.authority = "owner_manual"
       THEN Noted(t, "owner_review") /\ Settled(t, "owner_review") /\ UNCHANGED visits
       ELSE IF t.target = Manual THEN HandOver(t)
       ELSE IF IsInternal(t)
       THEN IF VersionStands(t)
            THEN Changed(t) /\ Noted(t, "confirmed") /\ Settled(t, "confirmed")
            ELSE Conflicted(t)
       ELSE \/ HandOver(t)
            \/ Noted(t, "fallback") /\ Settled(t, "fallback") /\ UNCHANGED visits
            \/ /\ visits[t.target].active
               /\ Changed(t) /\ Noted(t, "confirmed") /\ Settled(t, "confirmed")

SaveLifecycleTurn ==
    /\ lifeTurn.stage = "saving"
    /\ SayLife(lifeTurn.next)

-----------------------------------------------------------------------------
(* The salon meanwhile. *)

OwnerChangesVisit ==
    /\ lifeBudget.edits > 0
    /\ \E v \in Upcoming :
         \/ \E when \in VisitTimes \ {visits[v].when} :
              visits' = [visits EXCEPT ![v].when = when, ![v].version = @ + 1]
         \/ visits' = [visits EXCEPT ![v].active = FALSE, ![v].version = @ + 1]
    /\ lifeBudget' = [lifeBudget EXCEPT !.edits = @ - 1]
    /\ UNCHANGED <<life, lifePolicy, lifeTurn, lifeOps, approved>>

LifePolicyChanges ==
    /\ lifeBudget.policies > 0
    /\ lifePolicy' \in LifePolicies \ {lifePolicy}
    /\ lifeBudget' = [lifeBudget EXCEPT !.policies = @ - 1]
    /\ UNCHANGED <<life, visits, lifeTurn, lifeOps, approved>>

LifeInit ==
    /\ \E phone \in BOOLEAN : life = [NewLife EXCEPT !.phone = phone]
    /\ \E when \in VisitTimes :
         visits = [v \in Visits |-> [when |-> when, version |-> 1, active |-> TRUE]]
    /\ lifePolicy \in LifePolicies
    /\ lifeTurn = IdleLife
    /\ lifeOps = <<>>
    /\ approved = [action |-> "none", target |-> NoVisit, when |-> 0, version |-> 0]
    /\ lifeBudget = [turns |-> MaxLifeTurns, edits |-> MaxVisitEdits, policies |-> MaxLifePolicies]

LifeNext ==
    \/ LifeLoads \/ LifeDies
    \/ handleRescheduleMessage \/ handleCancelMessage
    \/ ExecuteLifecycle \/ SaveLifecycleTurn
    \/ OwnerChangesVisit \/ LifePolicyChanges

LifeSpec == LifeInit /\ [][LifeNext]_lifeVars

-----------------------------------------------------------------------------
(* Properties. *)

LifeTypeOK ==
    /\ life.status \in {"active", "completed", "handoff"}
    /\ life.action \in {"book", "reschedule", "cancel"}
    /\ life.target \in Visits \cup {NoVisit, Manual}
    /\ DOMAIN life.candidates \subseteq Visits
    /\ life.options \subseteq VisitTimes
    /\ life.pending \in {"none", "manual", "move", "reason", "cancel"}
    /\ \A v \in Visits : visits[v].version \in 1 .. 1 + MaxVisitEdits + 2 * Cardinality(Visits)
    /\ lifeTurn.stage \in {"idle", "loaded", "executing", "saving"}
    /\ DOMAIN lifeOps \subseteq {"reschedule", "cancel"} \X (Visits \cup {Manual})

\* An appointment of the internal calendar is changed only in the way the caller approved
\* last, and only in the version that was described to the caller - whatever the owner did
\* to it between the lookup, the approval and the execution.  A cancellation elsewhere is of
\* the appointment the caller was asked about.
ChangedAsApproved ==
    \A k \in DOMAIN lifeOps :
        LET op == lifeOps[k] IN
        op.kind = "confirmed" =>
            /\ op.request.target \in InternalVisits =>
                 /\ op.approved.action = op.request.action
                 /\ op.approved.target = op.request.target
                 /\ op.approved.version = op.found
                 /\ op.request.action = "reschedule" => op.approved.when = op.request.when
            /\ op.request.action = "cancel" =>
                 op.approved.action = "cancel" /\ op.approved.target = op.request.target

\* A caller who is told of a move or a cancellation was told of one that happened, to that
\* appointment and time, also when the answer is recovered after a lost turn.
LifecycleToldTruly ==
    life.outcome \in {"booking_rescheduled", "booking_cancelled"} =>
        /\ LifeKey(life) \in DOMAIN lifeOps
        /\ lifeOps[LifeKey(life)].kind = "confirmed"
        /\ lifeOps[LifeKey(life)].request = Request(life)
        /\ life.outcome = "booking_cancelled" => ~ visits[life.target].active

\* A conflict only stands between the caller and an appointment of the internal calendar
\* when the appointment, the booking mode or an earlier operation changed.
TargetOriginIsServed ==
    LET t == lifeTurn.next IN
    /\ lifeTurn.stage = "executing" /\ IsInternal(t) /\ VersionStands(t)
    /\ lifePolicy.mode = lifeTurn.cfg.mode
    => LifeFence(t, lifeTurn.cfg).authority = lifePolicy.authority
=============================================================================
