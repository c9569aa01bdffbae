-------------------------- MODULE AppointmentActions --------------------------
(***************************************************************************)
(* Moving and cancelling an appointment that lives at an external provider *)
(* (modules/booking, operations 'reschedule' and 'cancel'): Service's      *)
(* Reschedule and Cancel, the repository transactions behind them, the     *)
(* replacement of slot claims, lease recovery, calendar synchronization    *)
(* and the owner's reconciliation, for one appointment.                    *)
(*                                                                         *)
(* Every repository transaction takes the salon's calendar lock, so each   *)
(* is one action.  A call inserts at most one attempt, so the call names   *)
(* the attempt, and a processing token is the call it was issued to.  The  *)
(* provider changes the booking only for the version a request names       *)
(* (optimistic concurrency); its versions are positions in a history.      *)
(* Attempt 0 is the booking the appointment came from.                     *)
(***************************************************************************)
EXTENDS Integers, Sequences, FiniteSets, FiniteSetsExt

CONSTANTS
    Acts,           \* calls of Reschedule and Cancel: numbers, begun in order, and
                    \* none with a key greater than its own number
    Starts,         \* times an appointment may start at
    Length,         \* how many cells of staff time it takes
    ActKeys,        \* operation keys clients send: numbers
    RivalCells,     \* cells other bookings of the salon compete for
    MaxVersion,     \* bound on the provider's versions of the booking
    AtomicRescheduleNoOverlap   \* what the provider's adapter declares and the evidence kept
                    \* of it says; Square's is FALSE, and then nothing is rescheduled

ASSUME ActionConstants ==
    /\ Acts \subseteq Nat \ {0} /\ Starts \subseteq Nat /\ Starts # {}
    /\ Length \in Nat \ {0} /\ RivalCells \subseteq Nat /\ MaxVersion \in Nat \ {0}
    /\ AtomicRescheduleNoOverlap \in BOOLEAN

VARIABLES
    actCall,        \* what a call was asked, and how far it is
    attempt,        \* booking_attempts of reschedules and cancellations
    slotClaim,      \* external_slot_claims with their intervals, by attempt
    appointment,    \* the appointments row that mirrors the provider's booking
    truth,          \* the provider's booking, one record per version
    rival,          \* cells claimed by other bookings
    disowned        \* attempts an owner resolved as not created

actionVars == <<actCall, attempt, slotClaim, appointment, truth, rival,
                disowned>>

-----------------------------------------------------------------------------
Cells(start) == start .. start + Length - 1

IdleCall == [phase |-> "idle"]
NoAttempt == [status |-> "none", superseded |-> FALSE]

Unreleased == {"claimed_pre_dispatch", "dispatch_started", "reconciliation_required",
               "confirmed"}
NoSlotClaim == [state |-> "none", active |-> {}, pending |-> {}, replaces |-> -1]
OfAppointment == Acts \cup {0}
HeldClaim(a) == slotClaim[a].state \in Unreleased
ActiveCells(S) == UNION {slotClaim[a].active : a \in S}

Current == truth[Len(truth)]
Imported == [accepted |-> "confirmed", pending |-> "provider_pending",
             cancelled |-> "cancelled"]
ActiveStatuses == {"confirmed", "rescheduled"}

Attempted == {a \in Acts : attempt[a].status # "none"}

\* appointmentActionFingerprint: the version the appointment had is part of it.
Fingerprint(c) == <<actCall[c].op, actCall[c].start, actCall[c].target>>

\* The columns a settled attempt is left with.
Policy(status, outcome, retry, recon) ==
    [status |-> status, outcome |-> outcome, retry |-> retry, recon |-> recon]
Succeeded(op) ==
    Policy(IF op = "cancel" THEN "cancelled" ELSE "rescheduled",
           "succeeded", "none", "not_required")

\* Mutant: an answer that never came is taken for a refusal.
FallbackPolicyOptimistic(answer) ==
    IF answer = "pending" THEN Policy("provider_pending", "succeeded", "blocked", "required")
    ELSE Policy("fallback_pending", "failed", "safe", "not_required")

\* fallbackOperationPolicy and providerStatusFallbackPolicy.
FallbackPolicy(answer) ==
    CASE answer = "rejected" -> Policy("fallback_pending", "failed", "safe", "not_required")
      [] answer = "pending" -> Policy("provider_pending", "succeeded", "blocked", "required")
      [] OTHER -> Policy("fallback_pending", "unknown", "blocked", "required")

\* The attempt leaves pos_pending; ensureReconciliationTaskTx opens its task.
Settled(a, policy) ==
    [attempt[a] EXCEPT !.status = policy.status, !.outcome = policy.outcome,
                       !.retry = policy.retry, !.recon = policy.recon,
                       !.token = 0, !.live = FALSE,
                       !.task = IF policy.recon = "required" THEN "open" ELSE @]

-----------------------------------------------------------------------------
(* Slot claims. *)

Release(a, state) ==
    [slotClaim[a] EXCEPT !.state = state, !.active = {}, !.pending = {}]

\* The claim a reschedule replaces: the confirmed one of an earlier reschedule
\* before the booking's own.
Replaced ==
    LET confirmed == {a \in OfAppointment : slotClaim[a].state = "confirmed"}
    IN  IF confirmed = {} THEN -1 ELSE Max(confirmed)

\* insertExternalSlotClaimTx: the cells shared with the replaced claim wait.
NewSlotClaim(c) ==
    LET own == IF Replaced = -1 THEN {} ELSE slotClaim[Replaced].active
    IN  [state |-> "claimed_pre_dispatch", replaces |-> Replaced,
         active |-> Cells(actCall[c].start) \ own,
         pending |-> Cells(actCall[c].start) \cap own]

SlotConflict(c) ==
    Cells(actCall[c].start) \cap
        (rival \cup ActiveCells(OfAppointment \ {Replaced})) # {}

\* confirmExternalRescheduleSlotClaimTx, which fails as a whole when the claim
\* it replaces is no longer held.
CanConfirm(a) ==
    /\ slotClaim[a].state \in {"dispatch_started", "reconciliation_required"}
    /\ slotClaim[a].replaces # -1 => HeldClaim(slotClaim[a].replaces)
Confirmed(a) ==
    [b \in OfAppointment |->
        IF b = a THEN [slotClaim[a] EXCEPT !.state = "confirmed", !.pending = {},
                                           !.active = @ \cup slotClaim[a].pending]
        ELSE IF b = slotClaim[a].replaces THEN Release(b, "released")
        ELSE slotClaim[b]]

\* releaseExternalAppointmentSlotClaimTx: a cancellation releases the confirmed
\* claim, and fails when there is none.
ClaimsAgree(a) == IF actCall[a].op = "cancel" THEN Replaced # -1 ELSE CanConfirm(a)
ClaimsAfter(a) ==
    IF actCall[a].op = "cancel"
    THEN [slotClaim EXCEPT ![Replaced] = Release(Replaced, "released")]
    ELSE Confirmed(a)

\* Mutant: a claim in doubt is given up.
FallbackClaimsReleased(a, policy) ==
    IF actCall[a].op = "cancel" THEN slotClaim
    ELSE [slotClaim EXCEPT ![a] = Release(a, "definite_failure")]

\* recordExternalSlotClaimFallbackTx.
FallbackClaims(a, policy) ==
    IF actCall[a].op = "cancel" THEN slotClaim
    ELSE [slotClaim EXCEPT ![a] =
            IF policy.outcome = "failed" /\ policy.recon # "required"
            THEN Release(a, "definite_failure")
            ELSE [@ EXCEPT !.state = "reconciliation_required"]]

-----------------------------------------------------------------------------
(* Service.Reschedule and Service.Cancel. *)

\* AvailableSlots offers what FilterExternalClaimedSlots leaves: everything
\* claimed is subtracted, except the claim of the booking itself.
Offered(start) ==
    Cells(start) \cap (rival \cup ActiveCells(OfAppointment \ {0})) = {}

\* GetAppointmentForOwner: the appointment as the caller sees it; the quote of
\* a reschedule carries the provider fence of that moment.  replayReschedule
\* and replayCancel answer a key that is known, which changes nothing.
Asks(c, op, start, key, retryOf) ==
    /\ actCall[c] = IdleCall
    /\ \A b \in Acts : b < c => actCall[b] # IdleCall
    /\ appointment.status # "cancelled"
    /\ \A a \in Attempted : actCall[a].key # key
    /\ key <= c
    /\ retryOf \in Attempted \cup {0}
    /\ actCall' = [actCall EXCEPT ![c] =
                     [phase |-> "claim", op |-> op, start |-> start, key |-> key,
                      target |-> appointment.version, retryOf |-> retryOf,
                      fence |-> TRUE, work |-> 0, answer |-> "none"]]
    /\ UNCHANGED <<attempt, slotClaim, appointment, truth, rival, disowned>>

BeginReschedule(c, start, key, retryOf) ==
    AtomicRescheduleNoOverlap /\ Offered(start) /\ Asks(c, "reschedule", start, key, retryOf)

BeginCancel(c, key, retryOf) ==
    Asks(c, "cancel", appointment.start, key, retryOf)

ByKey(c) == {a \in Attempted : actCall[a].key = actCall[c].key}
SameRequest(c) ==
    {a \in Attempted : ~ attempt[a].superseded /\ Fingerprint(a) = Fingerprint(c)}

\* loadAvailabilityQuoteProviderFenceTx and validateAppointmentActionProviderFenceTx.
FenceCurrent(c) ==
    appointment.version = actCall[c].target /\ actCall[c].fence

\* The evidence a slot claim names is still valid and grants the operation.
Evidenced(c) == AtomicRescheduleNoOverlap /\ actCall[c].fence

\* A call that ends leaves behind what its attempt recorded, if it has one.
DoneCall == [phase |-> "done"]
Finished(c) ==
    [actCall EXCEPT ![c] =
        IF c \notin Attempted THEN DoneCall
        ELSE [@ EXCEPT !.phase = "done", !.retryOf = 0, !.work = 0, !.answer = "none"]]

\* A lease that ended before the dispatch began may be taken over; the slot
\* claim of a reschedule only under its own fence (reacquireExternalSlotClaimTx).
Resumes(c, a) ==
    /\ \/ a \in ByKey(c) /\ Fingerprint(a) = Fingerprint(c)
       \/ ByKey(c) = {} /\ actCall[c].retryOf = 0 /\ FenceCurrent(c) /\ a \in SameRequest(c)
    /\ attempt[a].status = "pos_pending" /\ attempt[a].outcome = "not_started"
    /\ ~ attempt[a].live /\ ~ attempt[a].superseded
    /\ actCall[a].op = "reschedule" =>
           slotClaim[a].state = "claimed_pre_dispatch" /\ Evidenced(a)

ResumeAction(c) ==
    /\ actCall[c].phase = "claim"
    /\ \E a \in Attempted :
         /\ Resumes(c, a)
         /\ attempt' = [attempt EXCEPT ![a].token = c, ![a].live = TRUE]
         /\ actCall' = [actCall EXCEPT ![c].phase = "mark", ![c].work = a]
    /\ UNCHANGED <<slotClaim, appointment, truth, rival, disowned>>

\* A retry supersedes an attempt that is known not to have happened; nothing
\* else may repeat a request that stands, whatever became of it.
Retryable(c) ==
    LET t == actCall[c].retryOf
    IN  /\ t \in SameRequest(c) /\ SameRequest(c) = {t}
        /\ attempt[t].status = "fallback_pending" /\ attempt[t].retry = "safe"

Insertable(c) ==
    /\ ByKey(c) = {} /\ FenceCurrent(c)
    /\ actCall[c].op = "reschedule" => Evidenced(c)
    /\ IF actCall[c].retryOf = 0 THEN SameRequest(c) = {} ELSE Retryable(c)

\* claimPendingOperation inserts the attempt, supersedes the one it retries and
\* closes its task (closeSupersededReconciliationTaskTx).
Inserted(c, status, token) ==
    [a \in Acts |->
        IF a = c THEN [status |-> status, outcome |-> "not_started", retry |-> "none",
                       recon |-> "not_required", token |-> token, live |-> token # 0,
                       superseded |-> FALSE, task |-> "none"]
        ELSE IF a = actCall[c].retryOf
             THEN [attempt[a] EXCEPT !.superseded = TRUE, !.recon = "resolved",
                                     !.task = IF @ = "none" THEN @ ELSE "resolved"]
        ELSE attempt[a]]

InsertAction(c) ==
    /\ actCall[c].phase = "claim" /\ Insertable(c)
    /\ actCall[c].op = "reschedule" => ~ SlotConflict(c)
    /\ attempt' = Inserted(c, "pos_pending", c)
    /\ slotClaim' = IF actCall[c].op = "cancel" THEN slotClaim
                    ELSE [slotClaim EXCEPT ![c] = NewSlotClaim(c)]
    /\ actCall' = [actCall EXCEPT ![c].phase = "mark", ![c].work = c]
    /\ UNCHANGED <<appointment, truth, rival, disowned>>

\* persistExternalSlotConflictTx: a loser leaves a failed attempt behind.
InsertLoser(c) ==
    /\ actCall[c].phase = "claim" /\ Insertable(c)
    /\ actCall[c].op = "reschedule" /\ SlotConflict(c)
    /\ attempt' = Inserted(c, "failed", 0)
    /\ slotClaim' = [slotClaim EXCEPT ![c].state = "definite_failure"]
    /\ actCall' = [actCall EXCEPT ![c].phase = "done", ![c].retryOf = 0]
    /\ UNCHANGED <<appointment, truth, rival, disowned>>

ClaimDenied(c) ==
    /\ actCall[c].phase = "claim" /\ ~ Insertable(c)
    /\ ~ \E a \in Attempted : Resumes(c, a)
    /\ actCall' = Finished(c)
    /\ UNCHANGED <<attempt, slotClaim, appointment, truth, rival, disowned>>

Owns(c) ==
    LET a == actCall[c].work
    IN  attempt[a].status = "pos_pending" /\ attempt[a].token = c /\ ~ attempt[a].superseded

\* MarkBookingOperationStarted checks the fence for the last time; a call that may not start ends here, and its
\* attempt waits for its lease to end.
MarkStarted(c) ==
    /\ actCall[c].phase = "mark"
    /\ LET a == actCall[c].work IN
         IF /\ Owns(c) /\ attempt[a].outcome = "not_started"
            /\ actCall[a].op = "reschedule" =>
                  slotClaim[a].state = "claimed_pre_dispatch" /\ Evidenced(a)
         THEN /\ attempt' = [attempt EXCEPT ![a].outcome = "in_flight"]
              /\ slotClaim' = IF actCall[a].op = "cancel" THEN slotClaim
                              ELSE [slotClaim EXCEPT ![a].state = "dispatch_started"]
              /\ actCall' = [actCall EXCEPT ![c].phase = "dispatch", ![a].fence = FALSE]
         ELSE actCall' = Finished(c) /\ UNCHANGED <<attempt, slotClaim>>
    /\ UNCHANGED <<appointment, truth, rival, disowned>>

\* RescheduleAppointment and CancelAppointment at the provider (external).
NewTruth(a, status) ==
    [status |-> status, by |-> a,
     start |-> IF actCall[a].op = "cancel" THEN Current.start ELSE actCall[a].start]
Answer(c, answer) ==
    actCall' = [actCall EXCEPT ![c].phase = "save", ![c].answer = answer]

Dispatch(c) ==
    /\ actCall[c].phase = "dispatch"
    /\ \/ /\ UNCHANGED truth
          /\ \E answer \in {"rejected", "uncertain"} : Answer(c, answer)
       \/ LET a == actCall[c].work IN
            /\ Current.status # "cancelled" /\ Len(truth) = actCall[c].target
            /\ Len(truth) < MaxVersion
            /\ \E status \in IF actCall[a].op = "cancel" THEN {"cancelled"}
                             ELSE {"accepted", "pending"} :
                 /\ truth' = Append(truth, NewTruth(a, status))
                 /\ \E answer \in {status, "uncertain"} : Answer(c, answer)
    /\ UNCHANGED <<attempt, slotClaim, appointment, rival, disowned>>

\* The appointment row proves the operation: a newer version with its outcome.
Proves(row, a) ==
    /\ row.version > actCall[a].target
    /\ IF actCall[a].op = "cancel" THEN row.status = "cancelled"
       ELSE row.status \in ActiveStatuses /\ row.start = actCall[a].start

Saves(c) == actCall[c].phase = "save" /\ actCall' = Finished(c)

\* Mutant: the version is advanced once more when the answer is stored.
ResultAdvanced(c) == actCall[c].target + 2

Result(c) == actCall[c].target + 1

\* SaveRescheduledAppointment and SaveCancelledAppointment: the provider's
\* answer is written unless the calendar brought this or a newer version first,
\* which must then prove the operation.
RowConverged(c) == appointment.version >= Result(c)
CanSave(c) ==
    /\ Owns(c) /\ actCall[c].answer \in {"accepted", "cancelled"}
    /\ ClaimsAgree(actCall[c].work)
    /\ RowConverged(c) => Proves(appointment, actCall[c].work)

SavedRow(c) ==
    IF RowConverged(c) THEN appointment
    ELSE [version |-> Result(c),
          status |-> IF actCall[c].op = "cancel" THEN "cancelled" ELSE "rescheduled",
          start |-> actCall[c].start]

SaveSuccess(c) ==
    /\ Saves(c) /\ CanSave(c)
    /\ LET a == actCall[c].work IN
         /\ attempt' = [attempt EXCEPT ![a] = Settled(a, Succeeded(actCall[a].op))]
         /\ slotClaim' = ClaimsAfter(a)
    /\ appointment' = SavedRow(c)
    /\ UNCHANGED <<truth, rival, disowned>>

\* SaveAppointmentActionFallback, for every other answer, and for a success
\* that could not be saved.  A row that proves the operation settles it.
FallbackAnswer(c) ==
    IF actCall[c].answer \in {"accepted", "cancelled"} THEN "uncertain"
    ELSE actCall[c].answer
FallbackConverged(c) ==
    /\ FallbackPolicy(FallbackAnswer(c)).outcome # "failed"
    /\ FallbackAnswer(c) = "pending" => appointment.version >= Result(c)
    /\ Proves(appointment, actCall[c].work)

SaveFallback(c) ==
    /\ Saves(c) /\ Owns(c) /\ ~ CanSave(c)
    /\ LET a == actCall[c].work
           policy == FallbackPolicy(FallbackAnswer(c)) IN
         IF FallbackConverged(c)
         THEN /\ ClaimsAgree(a)
              /\ attempt' = [attempt EXCEPT ![a] = Settled(a, Succeeded(actCall[a].op))]
              /\ slotClaim' = ClaimsAfter(a)
         ELSE /\ attempt' = [attempt EXCEPT ![a] = Settled(a, policy)]
              /\ slotClaim' = FallbackClaims(a, policy)
    /\ UNCHANGED <<appointment, truth, rival, disowned>>

\* The answer can no longer be saved, or the process stops before it is.
Abandon(c) ==
    /\ actCall[c].phase \in {"mark", "dispatch", "save"}
    /\ actCall' = Finished(c)
    /\ UNCHANGED <<attempt, slotClaim, appointment, truth, rival, disowned>>

-----------------------------------------------------------------------------
(* Lease recovery. *)

LeaseEnds(a) ==
    /\ a \in Attempted /\ attempt[a].live
    /\ attempt' = [attempt EXCEPT ![a].live = FALSE]
    /\ UNCHANGED <<actCall, slotClaim, appointment, truth, rival, disowned>>

Expired(a) ==
    /\ a \in Attempted /\ attempt[a].status = "pos_pending"
    /\ ~ attempt[a].live /\ ~ attempt[a].superseded
Converged(a) == attempt[a].outcome = "in_flight" /\ Proves(appointment, a)

\* expireBookingOperationLeaseCandidate.
ExpireLease(a) ==
    /\ Expired(a)
    /\ IF Converged(a)
       THEN /\ ClaimsAgree(a)
            /\ attempt' = [attempt EXCEPT ![a] = Settled(a, Succeeded(actCall[a].op))]
            /\ slotClaim' = ClaimsAfter(a)
       ELSE LET policy == FallbackPolicy(IF attempt[a].outcome = "not_started"
                                         THEN "rejected" ELSE "uncertain") IN
            /\ attempt' = [attempt EXCEPT ![a] = Settled(a, policy)]
            /\ slotClaim' = FallbackClaims(a, policy)
    /\ UNCHANGED <<actCall, appointment, truth, rival, disowned>>

-----------------------------------------------------------------------------
(* The provider's calendar, synchronized. *)

InQuestion(a) ==
    a \in Attempted /\ attempt[a].recon = "required" /\ ~ attempt[a].superseded

\* Mutant: an older answer of the provider may overwrite a newer one.
SyncedRowAnyAge(v) ==
    [version |-> v, status |-> Imported[truth[v].status], start |-> truth[v].start]

\* UpsertCalendarAppointments writes what is newer than the row.
SyncedRow(v) ==
    IF v <= appointment.version THEN appointment
    ELSE [version |-> v, status |-> Imported[truth[v].status], start |-> truth[v].start]

\* resolveCalendarAppointmentActionTx settles the one attempt the row proves;
\* its slot claims stay as they are.
CalendarMatches(row) ==
    {a \in Acts : InQuestion(a) /\ Proves(row, a)}
CalendarResolved(row) ==
    IF Cardinality(CalendarMatches(row)) # 1 THEN attempt
    ELSE [a \in Acts |->
            IF a \in CalendarMatches(row)
            THEN [attempt[a] EXCEPT !.status = Succeeded(actCall[a].op).status,
                                    !.outcome = "succeeded", !.retry = "none",
                                    !.recon = "resolved", !.task = "resolved"]
            ELSE attempt[a]]

\* SyncCalendar with a listing that may be old by the time it is stored.
SyncCalendar(v) ==
    /\ v \in 1 .. Len(truth)
    /\ appointment' = SyncedRow(v)
    /\ attempt' = CalendarResolved(SyncedRow(v))
    /\ <<appointment', attempt'>> # <<appointment, attempt>>
    /\ UNCHANGED <<actCall, slotClaim, truth, rival, disowned>>

\* The salon moves or cancels the booking in the provider's own application.
ForeignChange ==
    /\ Current.status # "cancelled" /\ Len(truth) < MaxVersion
    /\ \/ \E start \in Starts :
            truth' = Append(truth, [status |-> "accepted", start |-> start, by |-> -1])
       \/ truth' = Append(truth, [Current EXCEPT !.status = "cancelled", !.by = -1])
    /\ UNCHANGED <<actCall, attempt, slotClaim, appointment, rival, disowned>>

-----------------------------------------------------------------------------
(* ResolveReconciliationTask, by the owner. *)

\* reconciliationNotCreatedBlockedByAttempt, and no row that proves otherwise.
ResolveNotCreated(a) ==
    /\ InQuestion(a) /\ attempt[a].task \in {"open", "escalated"}
    /\ attempt[a].status # "provider_pending" /\ ~ Proves(appointment, a)
    /\ attempt' = [attempt EXCEPT ![a].status = "fallback_pending", ![a].outcome = "failed",
                                  ![a].retry = "safe", ![a].recon = "resolved",
                                  ![a].task = "resolved"]
    /\ slotClaim' = IF actCall[a].op = "cancel" THEN slotClaim
                    ELSE [slotClaim EXCEPT ![a] = Release(a, "released")]
    /\ disowned' = disowned \cup {a}
    /\ UNCHANGED <<actCall, appointment, truth, rival>>

ResolveEscalated(a) ==
    /\ InQuestion(a) /\ attempt[a].task = "open"
    /\ attempt' = [attempt EXCEPT ![a].task = "escalated"]
    /\ UNCHANGED <<actCall, slotClaim, appointment, truth, rival, disowned>>

\* The row is attached as the attempt's result.
ResolveAttached(a) ==
    /\ InQuestion(a) /\ attempt[a].task \in {"open", "escalated"}
    /\ Proves(appointment, a) /\ ClaimsAgree(a)
    /\ attempt' = [attempt EXCEPT ![a].status = Succeeded(actCall[a].op).status,
                                  ![a].outcome = "succeeded", ![a].retry = "none",
                                  ![a].recon = "resolved", ![a].task = "resolved"]
    /\ slotClaim' = ClaimsAfter(a)
    /\ UNCHANGED <<actCall, appointment, truth, rival, disowned>>

-----------------------------------------------------------------------------
(* The rest of the salon: other bookings claim cells and give them back, and
   synchronizations of catalogue or configuration replace the provider fence. *)

RivalClaims(cell) ==
    /\ cell \notin rival \cup ActiveCells(OfAppointment)
    /\ rival' = rival \cup {cell}
    /\ UNCHANGED <<actCall, attempt, slotClaim, appointment, truth, disowned>>

RivalReleases(cell) ==
    /\ cell \in rival
    /\ rival' = rival \ {cell}
    /\ UNCHANGED <<actCall, attempt, slotClaim, appointment, truth, disowned>>

\* What a call has read of snapshot, evidence and configuration is out of date.
Fenced == {c \in Acts : actCall[c] \notin {IdleCall, DoneCall} /\ actCall[c].fence}
FenceAdvances ==
    /\ Fenced # {}
    /\ actCall' = [c \in Acts |-> IF c \in Fenced THEN [actCall[c] EXCEPT !.fence = FALSE]
                                 ELSE actCall[c]]
    /\ UNCHANGED <<attempt, slotClaim, appointment, truth, rival, disowned>>

AllCells == UNION {Cells(s) : s \in Starts}

ActionsInit ==
    /\ actCall = [c \in Acts |-> IdleCall]
    /\ attempt = [a \in Acts |-> NoAttempt]
    /\ LET start == Min(Starts) IN
         /\ appointment = [version |-> 1, status |-> "confirmed", start |-> start]
         /\ truth = <<[status |-> "accepted", start |-> start, by |-> 0]>>
         /\ slotClaim = [a \in OfAppointment |->
               IF a # 0 THEN NoSlotClaim
               ELSE [NoSlotClaim EXCEPT !.state = "confirmed", !.active = Cells(start)]]
    /\ rival = {} /\ disowned = {}

ActionsNext ==
    \/ \E c \in Acts :
         \/ \E key \in ActKeys, t \in Acts \cup {0} :
              \/ \E start \in Starts : BeginReschedule(c, start, key, t)
              \/ BeginCancel(c, key, t)
         \/ ResumeAction(c) \/ InsertAction(c) \/ InsertLoser(c) \/ ClaimDenied(c)
         \/ MarkStarted(c) \/ Dispatch(c) \/ SaveSuccess(c) \/ SaveFallback(c)
         \/ Abandon(c)
         \/ LeaseEnds(c) \/ ExpireLease(c)
         \/ ResolveNotCreated(c) \/ ResolveEscalated(c) \/ ResolveAttached(c)
    \/ \E v \in 1 .. MaxVersion : SyncCalendar(v)
    \/ ForeignChange
    \/ \E cell \in RivalCells : RivalClaims(cell) \/ RivalReleases(cell)
    \/ FenceAdvances

ActionsSpec == ActionsInit /\ [][ActionsNext]_actionVars

-----------------------------------------------------------------------------
(* What must hold. *)

\* The rows are of the kinds their tables allow.
ActionsTypeOK ==
    /\ \A a \in Attempted :
         /\ attempt[a].status \in {"pos_pending", "rescheduled", "cancelled", "failed",
                                   "fallback_pending", "provider_pending"}
         /\ attempt[a].recon \in {"not_required", "required", "resolved"}
         /\ attempt[a].task \in {"none", "open", "escalated", "resolved"}
         /\ attempt[a].token \in Acts \cup {0}
    /\ \A a \in OfAppointment :
         /\ slotClaim[a].state \in Unreleased \cup {"none", "released", "definite_failure"}
         /\ slotClaim[a].active \subseteq AllCells
    /\ appointment.version \in 1 .. Len(truth) /\ Len(truth) <= MaxVersion

\* The provider has the appointment where an act of this system put it, and no
\* owner has disowned that act.
Stands ==
    Current.status # "cancelled" /\ Current.by # -1 /\ Current.by \notin disowned

\* The claim this act's claim was to replace was released for another act.
Overtaken(a) ==
    /\ slotClaim[a].replaces # -1 /\ slotClaim[a].state # "confirmed"
    /\ ~ HeldClaim(slotClaim[a].replaces)

\* The time at which the provider really has the appointment is never free for
\* another booking: all its cells are held by claims that exclude others,
\* however the answers were lost, delayed, retried or reconciled, unless the
\* claim that still held some of them was released for another act.
ProviderSlotIsHeld ==
    /\ Stands /\ ~ Overtaken(Current.by) =>
           Cells(Current.start) \subseteq ActiveCells(OfAppointment)
    /\ rival \cap ActiveCells(OfAppointment) = {}
    /\ \A a, b \in OfAppointment :
           a # b => slotClaim[a].active \cap slotClaim[b].active = {}

\* An attempt that may be retried did not happen and never will: nothing of it
\* is at the provider, and no call is about to send it.  At most one attempt
\* stands for a request.
RetriesAreSafe ==
    /\ \A a \in Attempted : attempt[a].retry = "safe" /\ a \notin disowned =>
           /\ \A v \in 1 .. Len(truth) : truth[v].by # a
           /\ \A c \in Acts : actCall[c].phase = "dispatch" => actCall[c].work # a
    /\ \A a, b \in Attempted :
           ~ attempt[a].superseded /\ ~ attempt[b].superseded
               /\ Fingerprint(a) = Fingerprint(b) => a = b

\* The row says what the provider's booking was at its version.
AgreesWithProvider(row) ==
    /\ row.start = truth[row.version].start
    /\ \/ row.status = Imported[truth[row.version].status]
       \/ row.status = "rescheduled" /\ truth[row.version].status = "accepted"

\* The appointment row says what the provider's booking was at its version, and
\* never goes back to an older one, whichever of a saved answer, an import and a
\* reconciliation wrote it.
RowFollowsProvider ==
    [][AgreesWithProvider(appointment) /\ appointment'.version >= appointment.version]_actionVars
=============================================================================
