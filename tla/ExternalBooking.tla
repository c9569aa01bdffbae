--------------------------- MODULE ExternalBooking ---------------------------
(***************************************************************************)
(* Booking with an external provider (modules/booking, operation 'book'):  *)
(* Service.Create, the repository transactions behind it, the slot-claim   *)
(* ledger of V86, the lease recovery sweep, calendar synchronization and   *)
(* the owner's reconciliation of attempts whose outcome is unknown.        *)
(*                                                                         *)
(* Every repository transaction takes the salon's calendar lock first, so  *)
(* each is one action; Create crosses several of them and two calls to the *)
(* provider, and may stop (crash, disconnect) or stall between any two.    *)
(*                                                                         *)
(* A call of Create inserts at most one attempt and an attempt makes at    *)
(* most one provider booking, so the inserting call names the attempt and  *)
(* the attempt names its booking; a processing token is the call holding   *)
(* it.  A provider booking's version is the rank of its status.            *)
(***************************************************************************)
EXTENDS Integers, FiniteSets

CONSTANTS
    Calls,          \* calls of Service.Create in a behaviour
    Keys,           \* operation keys clients send
    Requests,       \* booking requests, told apart by their fingerprint
    Overlaps,       \* pairs of requests that need the same staff time
    NewStatuses,    \* statuses the provider may give a new booking
    MaxEpoch,       \* bound: changes of provider snapshot, evidence or config
    None,
    Import          \* stands for the attempt a calendar import inserts

ASSUME OverlapsAssumption ==
    /\ Overlaps \subseteq Requests \X Requests
    /\ \A r \in Requests : <<r, r>> \in Overlaps
    /\ \A r, s \in Requests : <<r, s>> \in Overlaps => <<s, r>> \in Overlaps
ASSUME NewStatusesAssumption == NewStatuses \subseteq {"accepted", "pending", "declined"}
ASSUME MaxEpochAssumption == MaxEpoch \in Nat
ASSUME NoneAssumption == None \notin Calls /\ Import \notin Calls \cup {None}

VARIABLES
    \* booking_attempts, by inserting call
    status, outcome, retry, recon,
    token,          \* processing_token: the call it was issued to
    live,           \* attempts with processing_lease_expires_at > now()
    superseded,     \* attempts with superseded_at set
    booking,        \* pos_booking_id
    task,           \* status of the attempt's booking_reconciliation_tasks row
    claim,          \* state of the attempt's external_slot_claims row
    \* what a call of Create was asked and holds in memory
    key, request, retryOf, quote, phase, work, resp,
    \* appointments, by provider booking
    appt,           \* appointment status, none while there is no row
    owner,          \* booking_attempt_id: an attempt here, or a calendar import
    \* the provider, the salon's configuration, and history
    prov,           \* the provider's booking
    seen,           \* statuses a booking has had, as <<booking, status>>
    epoch,          \* snapshot generation, evidence and config version
    sent,           \* CreateAppointment requests, as <<call, attempt>>
    attested        \* attempts an owner resolved as not created

attemptVars == <<status, outcome, retry, recon, token, booking, task, claim>>
callVars == <<key, request, retryOf, quote>>
runVars == <<phase, work, resp>>
mirrorVars == <<appt, owner>>
providerVars == <<prov, seen>>
vars == <<attemptVars, live, superseded, callVars, runVars, mirrorVars,
          providerVars, epoch, sent, attested>>

-----------------------------------------------------------------------------
(* Values and the policies that choose them.                               *)

Statuses == {"absent", "pos_pending", "confirmed", "provider_pending",
             "fallback_pending", "failed", "declined", "cancelled"}
ProviderOutcomes == {"not_started", "in_flight", "succeeded", "failed", "unknown"}
RetryPolicies == {"none", "safe", "blocked"}
Reconciliations == {"not_required", "required", "resolved"}
TaskStatuses == {"none", "open", "escalated", "resolved"}
DispatchedClaims == {"dispatch_started", "dispatched_unknown", "reconciliation_required"}
HeldClaims == DispatchedClaims \cup {"claimed_pre_dispatch", "confirmed"}
ClaimStates == HeldClaims \cup {"none", "definite_failure", "released"}
ProviderStatuses == {"pending", "accepted", "declined", "cancelled"}
Phases == {"idle", "claim", "mark", "customer", "dispatch", "save", "done"}
Answers == {"none", "rejected", "uncertain", "accepted", "pending", "declined",
            "unrecognized"}

(* normalizeImportedAppointmentStatus, and the version it comes with.      *)
Imported == [pending |-> "provider_pending", accepted |-> "confirmed",
             declined |-> "declined", cancelled |-> "cancelled"]
Version == [none |-> 0, provider_pending |-> 1, confirmed |-> 2,
            declined |-> 3, cancelled |-> 3]

(* fallbackOperationPolicy and providerStatusFallbackPolicy.               *)
FallbackPolicy(r) ==
    CASE r \in {"uncertain", "unrecognized"} ->
           [status |-> "fallback_pending", outcome |-> "unknown",
            retry |-> "blocked", recon |-> "required"]
      [] r = "pending" ->
           [status |-> "provider_pending", outcome |-> "succeeded",
            retry |-> "blocked", recon |-> "required"]
      [] OTHER ->
           [status |-> "fallback_pending", outcome |-> "failed",
            retry |-> "safe", recon |-> "not_required"]

(* Mutant: every expired lease is taken to be safe to retry.               *)
LeaseExpiryPolicySafe(o) == FallbackPolicy("rejected")

(* bookingLeaseExpiryPolicyFor: FallbackPolicy's rejected or uncertain row *)
LeaseExpiryPolicy(o) ==
    FallbackPolicy(IF o = "not_started" THEN "rejected" ELSE "uncertain")

Init ==
    /\ status = [a \in Calls |-> "absent"]
    /\ outcome = [a \in Calls |-> "not_started"]
    /\ retry = [a \in Calls |-> "none"]
    /\ recon = [a \in Calls |-> "not_required"]
    /\ token = [a \in Calls |-> None]
    /\ live = {} /\ superseded = {}
    /\ booking = [a \in Calls |-> None]
    /\ task = [a \in Calls |-> "none"]
    /\ claim = [a \in Calls |-> "none"]
    /\ key \in [Calls -> Keys]
    /\ request \in [Calls -> Requests]
    /\ retryOf = [c \in Calls |-> None]
    /\ quote = [c \in Calls |-> 0]
    /\ phase = [c \in Calls |-> "idle"]
    /\ work = [c \in Calls |-> None]
    /\ resp = [c \in Calls |-> "none"]
    /\ appt = [b \in Calls |-> "none"]
    /\ owner = [b \in Calls |-> None]
    /\ prov = [b \in Calls |-> "none"]
    /\ seen = {}
    /\ epoch = 0
    /\ sent = {} /\ attested = {}

Attempts == {a \in Calls : status[a] # "absent"}

-----------------------------------------------------------------------------
(* Service.Create                                                          *)

(* The call ends, answered, refused or dead.                               *)
Finish(c) ==
    /\ phase' = [phase EXCEPT ![c] = "done"]
    /\ work' = [work EXCEPT ![c] = None]
    /\ resp' = [resp EXCEPT ![c] = "none"]

ByKey(c) == {a \in Attempts : key[a] = key[c]}

(* A client that has quoted a slot calls Create.  replayCreate returns the *)
(* attempt its key already names; otherwise the call goes on to claim.     *)
Begin(c) ==
    /\ phase[c] = "idle"
    /\ \E t \in Attempts \cup {None} : retryOf' = [retryOf EXCEPT ![c] = t]
    /\ quote' = [quote EXCEPT ![c] = epoch]
    /\ phase' = [phase EXCEPT ![c] = IF ByKey(c) # {} THEN "done" ELSE "claim"]
    /\ UNCHANGED <<attemptVars, live, superseded, key, request, work, resp,
                   mirrorVars, providerVars, epoch, sent, attested>>

(* Attempts that stand for the same request.                               *)
SameRequest(c) == {a \in Attempts \ superseded : request[a] = request[c]}

(* An attempt whose holder never started the dispatch and lost its lease.  *)
Resumable(a) ==
    /\ a \notin superseded /\ a \notin live
    /\ status[a] = "pos_pending" /\ outcome[a] = "not_started"

(* claimPendingOperation finds the attempt by key, or the standing attempt *)
(* of the same request; reacquireExternalSlotClaimTx wants its fence to be *)
(* current.                                                                *)
Resumes(c, a) ==
    /\ a \in ByKey(c) \/ ( /\ ByKey(c) = {} /\ retryOf[c] = None
                           /\ quote[c] = epoch /\ a \in SameRequest(c))
    /\ request[a] = request[c]
    /\ Resumable(a)
    /\ claim[a] = "claimed_pre_dispatch" /\ quote[a] = epoch

ResumeAttempt(c) ==
    /\ phase[c] = "claim"
    /\ \E a \in Attempts :
         /\ Resumes(c, a)
         /\ token' = [token EXCEPT ![a] = c]
         /\ live' = live \cup {a}
         /\ work' = [work EXCEPT ![c] = a]
    /\ phase' = [phase EXCEPT ![c] = "mark"]
    /\ UNCHANGED <<status, outcome, retry, recon, booking, task, claim, superseded,
                   callVars, resp, mirrorVars, providerVars, epoch, sent, attested>>

(* The attempt a retry names may be superseded.                            *)
Retryable(c, t) ==
    /\ t \in SameRequest(c)
    /\ status[t] = "fallback_pending" /\ retry[t] = "safe"

(* No attempt has the key, the quote is current, and the request stands    *)
(* for itself: nothing live repeats it except the attempt it retries.      *)
Insertable(c) ==
    /\ ByKey(c) = {}
    /\ quote[c] = epoch
    /\ IF retryOf[c] = None
       THEN SameRequest(c) = {}
       ELSE Retryable(c, retryOf[c]) /\ SameRequest(c) = {retryOf[c]}

(* Mutant: only confirmed bookings exclude others.                         *)
SlotTakenConfirmed(c) ==
    \E a \in Attempts : claim[a] = "confirmed" /\ <<request[a], request[c]>> \in Overlaps

(* The exclusion constraint on unreleased claim intervals.                 *)
SlotTaken(c) ==
    \E a \in Attempts : claim[a] \in HeldClaims /\ <<request[a], request[c]>> \in Overlaps

(* Mutant: the resolution is written to the task's status.                 *)
SupersedeAsStatus(S) ==
    /\ superseded' = superseded \cup S
    /\ recon' = [a \in Calls |-> IF a \in S THEN "resolved" ELSE recon[a]]
    /\ task' = [a \in Calls |-> IF a \in S THEN "superseded" ELSE task[a]]

(* closeSupersededReconciliationTaskTx on the attempts S just superseded.  *)
Supersede(S) ==
    /\ superseded' = superseded \cup S
    /\ recon' = [a \in Calls |-> IF a \in S THEN "resolved" ELSE recon[a]]
    /\ task' = [a \in Calls |-> IF a \in S /\ task[a] # "none" THEN "resolved" ELSE task[a]]

Retried(c) == {retryOf[c]} \ {None}

(* insertExternalSlotClaimTx installs the claim.                           *)
InsertAttempt(c) ==
    /\ phase[c] = "claim" /\ Insertable(c) /\ ~SlotTaken(c)
    /\ status' = [status EXCEPT ![c] = "pos_pending"]
    /\ claim' = [claim EXCEPT ![c] = "claimed_pre_dispatch"]
    /\ token' = [token EXCEPT ![c] = c]
    /\ live' = live \cup {c}
    /\ Supersede(Retried(c))
    /\ work' = [work EXCEPT ![c] = c]
    /\ phase' = [phase EXCEPT ![c] = "mark"]
    /\ UNCHANGED <<outcome, retry, booking, callVars, resp, mirrorVars,
                   providerVars, epoch, sent, attested>>

(* persistExternalSlotConflictTx: the slot is taken, the attempt is kept   *)
(* as failed and the call answers ErrSlotCommitConflict.                   *)
InsertConflict(c) ==
    /\ phase[c] = "claim" /\ Insertable(c) /\ SlotTaken(c)
    /\ status' = [status EXCEPT ![c] = "failed"]
    /\ claim' = [claim EXCEPT ![c] = "definite_failure"]
    /\ Supersede(Retried(c))
    /\ Finish(c)
    /\ UNCHANGED <<outcome, retry, token, booking, live, callVars, mirrorVars,
                   providerVars, epoch, sent, attested>>

(* Anything else: an existing attempt is returned, or the claim refused.   *)
ClaimRefused(c) ==
    /\ phase[c] = "claim" /\ ~Insertable(c)
    /\ ~ \E a \in Attempts : Resumes(c, a)
    /\ Finish(c)
    /\ UNCHANGED <<attemptVars, live, superseded, callVars, mirrorVars,
                   providerVars, epoch, sent, attested>>

(* The call still owns the attempt it works on.                            *)
Owns(c, a) ==
    /\ status[a] = "pos_pending" /\ token[a] = c /\ a \notin superseded

(* Mutant: the start is not fenced by the token and the outcome.           *)
CanStartUnfenced(c, a) == a \notin superseded /\ quote[a] = epoch

CanStart(c, a) ==
    /\ Owns(c, a) /\ outcome[a] = "not_started"
    /\ claim[a] = "claimed_pre_dispatch" /\ quote[a] = epoch

(* MarkBookingOperationStarted: the attempt and its claim start dispatch.  *)
(* It renews the lease to the deadline the call computed before claiming,  *)
(* which is the lease the attempt already has.                             *)
MarkStarted(c) ==
    /\ phase[c] = "mark"
    /\ LET a == work[c] IN
         IF CanStart(c, a)
         THEN /\ outcome' = [outcome EXCEPT ![a] = "in_flight"]
              /\ claim' = [claim EXCEPT ![a] = "dispatch_started"]
              /\ phase' = [phase EXCEPT ![c] = "customer"]
              /\ UNCHANGED <<work, resp>>
         ELSE Finish(c) /\ UNCHANGED <<outcome, claim>>
    /\ UNCHANGED <<status, retry, recon, token, booking, task, live, superseded,
                   callVars, mirrorVars, providerVars, epoch, sent, attested>>

(* ResolveBookingCustomer and resolvePOSCustomer: a failure ends the call  *)
(* before the booking is sent, uncertain if it was the customer's creation *)
ResolveCustomer(c) ==
    /\ phase[c] = "customer"
    /\ \/ /\ phase' = [phase EXCEPT ![c] = "dispatch"]
          /\ resp' = resp
       \/ /\ phase' = [phase EXCEPT ![c] = "save"]
          /\ \E r \in {"rejected", "uncertain"} : resp' = [resp EXCEPT ![c] = r]
    /\ UNCHANGED <<attemptVars, live, superseded, callVars, work, mirrorVars,
                   providerVars, epoch, sent, attested>>

(* The provider's side of CreateAppointment, idempotent per attempt: it    *)
(* refuses, or makes the booking; its answer may be lost either way.       *)
ProviderCreates(a, st) ==
    IF prov[a] = "none"
    THEN prov' = [prov EXCEPT ![a] = st] /\ seen' = seen \cup {<<a, st>>}
    ELSE UNCHANGED providerVars

CreateAppointment(c) ==
    /\ phase[c] = "dispatch"
    /\ sent' = sent \cup {<<c, work[c]>>}
    /\ phase' = [phase EXCEPT ![c] = "save"]
    /\ \/ /\ \E r \in {"rejected", "uncertain"} : resp' = [resp EXCEPT ![c] = r]
          /\ UNCHANGED providerVars
       \/ \E st \in NewStatuses :
            /\ ProviderCreates(work[c], st)
            /\ \E r \in {st, "unrecognized", "uncertain"} : resp' = [resp EXCEPT ![c] = r]
    /\ UNCHANGED <<attemptVars, live, superseded, callVars, work, mirrorVars,
                   epoch, attested>>

(* Mutant: a fallback in question opens no task.                           *)
SettleWithoutTask(a, p, cl) ==
    /\ status' = [status EXCEPT ![a] = p.status]
    /\ outcome' = [outcome EXCEPT ![a] = p.outcome]
    /\ retry' = [retry EXCEPT ![a] = p.retry]
    /\ recon' = [recon EXCEPT ![a] = p.recon]
    /\ token' = [token EXCEPT ![a] = None]
    /\ live' = live \ {a}
    /\ claim' = [claim EXCEPT ![a] = cl]
    /\ task' = task

(* An attempt leaves pos_pending with the columns of policy p and claim cl *)
Settle(a, p, cl) ==
    /\ status' = [status EXCEPT ![a] = p.status]
    /\ outcome' = [outcome EXCEPT ![a] = p.outcome]
    /\ retry' = [retry EXCEPT ![a] = p.retry]
    /\ recon' = [recon EXCEPT ![a] = p.recon]
    /\ token' = [token EXCEPT ![a] = None]
    /\ live' = live \ {a}
    /\ task' = IF p.recon = "required" THEN [task EXCEPT ![a] = "open"] ELSE task
    /\ claim' = [claim EXCEPT ![a] = cl]

Confirmed == [status |-> "confirmed", outcome |-> "succeeded",
              retry |-> "none", recon |-> "not_required"]
Mismatched == [status |-> "fallback_pending", outcome |-> "succeeded",
               retry |-> "blocked", recon |-> "required"]

(* recordExternalSlotClaimFallbackTx                                       *)
ClaimAfter(p) ==
    IF p.recon = "required" THEN "reconciliation_required"
    ELSE IF p.outcome = "failed" THEN "definite_failure"
    ELSE "dispatched_unknown"

(* confirmedBookingMirrorMatches, fallbackCreateMirrorMatches: the         *)
(* appointment was imported and is still what the provider answered.       *)
MirrorMatches(a) == owner[a] = Import /\ appt[a] = "confirmed"

(* SaveConfirmedBooking: the provider accepted.  An imported appointment   *)
(* is taken over if it matches; if not, the attempt is reconciled.         *)
SaveConfirmedBooking(c) ==
    /\ phase[c] = "save" /\ resp[c] = "accepted"
    /\ LET a == work[c] IN
         IF Owns(c, a) /\ claim[a] \in DispatchedClaims
         THEN /\ booking' = [booking EXCEPT ![a] = a]
              /\ IF appt[a] = "none" \/ MirrorMatches(a)
                 THEN /\ Settle(a, Confirmed, "confirmed")
                      /\ appt' = [appt EXCEPT ![a] = "confirmed"]
                      /\ owner' = [owner EXCEPT ![a] = a]
                 ELSE /\ Settle(a, Mismatched, ClaimAfter(Mismatched))
                      /\ UNCHANGED mirrorVars
         ELSE UNCHANGED <<attemptVars, live, mirrorVars>>
    /\ Finish(c)
    /\ UNCHANGED <<superseded, callVars, providerVars, epoch, sent, attested>>

(* SaveFallbackBooking: the call failed, or the provider did not accept.   *)
(* The booking id is known only if the provider answered with one; then an *)
(* imported appointment that meanwhile became confirmed wins.              *)
SaveFallbackBooking(c) ==
    /\ phase[c] = "save" /\ resp[c] # "accepted"
    /\ LET a == work[c]
           p == FallbackPolicy(resp[c])
           known == resp[c] \notin {"rejected", "uncertain"} IN
         IF Owns(c, a) /\ claim[a] \in DispatchedClaims
         THEN /\ booking' = IF known THEN [booking EXCEPT ![a] = a] ELSE booking
              /\ IF known /\ MirrorMatches(a)
                 THEN /\ Settle(a, Confirmed, "confirmed")
                      /\ owner' = [owner EXCEPT ![a] = a]
                 ELSE Settle(a, p, ClaimAfter(p)) /\ owner' = owner
         ELSE UNCHANGED <<attemptVars, live, owner>>
    /\ Finish(c)
    /\ UNCHANGED <<superseded, callVars, appt, providerVars, epoch, sent, attested>>

(* The process dies or the client goes away: nothing more is written.      *)
Crash(c) ==
    /\ phase[c] \notin {"idle", "done"}
    /\ Finish(c)
    /\ UNCHANGED <<attemptVars, live, superseded, callVars, mirrorVars,
                   providerVars, epoch, sent, attested>>

Create(c) ==
    \/ Begin(c) \/ ResumeAttempt(c) \/ InsertAttempt(c) \/ InsertConflict(c)
    \/ ClaimRefused(c) \/ MarkStarted(c) \/ ResolveCustomer(c)
    \/ CreateAppointment(c) \/ SaveConfirmedBooking(c) \/ SaveFallbackBooking(c)
    \/ Crash(c)

-----------------------------------------------------------------------------
(* Lease recovery, calendar synchronization and the owner.                 *)

LeaseExpires(a) ==
    /\ a \in live
    /\ live' = live \ {a}
    /\ UNCHANGED <<attemptVars, superseded, callVars, runVars, mirrorVars,
                   providerVars, epoch, sent, attested>>

(* Mutant: recovery looks only for operations in flight.                   *)
LeaseExpiredInFlight(a) ==
    status[a] = "pos_pending" /\ outcome[a] = "in_flight" /\ a \notin superseded \cup live

LeaseExpired(a) ==
    /\ status[a] = "pos_pending" /\ outcome[a] \in {"not_started", "in_flight"}
    /\ a \notin superseded \cup live

(* expireBookingOperationLeaseCandidate.  A pos_pending book attempt has   *)
(* no pos_booking_id, so the calendar mirror is never consulted for it.    *)
ExpireLease(a) ==
    /\ LeaseExpired(a) /\ claim[a] \in HeldClaims
    /\ LET p == LeaseExpiryPolicy(outcome[a]) IN
         Settle(a, p, IF outcome[a] = "not_started" THEN "released" ELSE ClaimAfter(p))
    /\ UNCHANGED <<booking, superseded, callVars, runVars, mirrorVars,
                   providerVars, epoch, sent, attested>>

UnresolvedTask(a) == task[a] \in {"open", "escalated"}

(* updateCalendarBookingAttemptTx, calendarImportAttemptPolicy and then    *)
(* ensureReconciliationTaskTx or resolveCalendarReconciliationTaskTx; the  *)
(* claim is left alone.                                                    *)
SyncAttempt(a, st) ==
    /\ status' = [status EXCEPT ![a] = Imported[st]]
    /\ outcome' = [outcome EXCEPT ![a] = "succeeded"]
    /\ IF st = "pending"
       THEN /\ retry' = [retry EXCEPT ![a] = "blocked"]
            /\ recon' = [recon EXCEPT ![a] = "required"]
            /\ task' = [task EXCEPT ![a] = "open"]
       ELSE /\ retry' = [retry EXCEPT ![a] = "none"]
            /\ UnresolvedTask(a) => recon[a] = "required"
            /\ recon' = [recon EXCEPT ![a] = IF @ # "required" THEN "not_required"
                                             ELSE IF UnresolvedTask(a) THEN "resolved" ELSE @]
            /\ task' = [task EXCEPT ![a] = IF UnresolvedTask(a) THEN "resolved" ELSE @]
    /\ UNCHANGED <<token, booking, claim>>

(* Attempts that named the provider booking and are still in question.     *)
Claimants(b) ==
    {a \in Attempts \ superseded : booking[a] = b /\ recon[a] = "required"}

(* Mutant: any snapshot that differs is applied.                           *)
NewerThanMirrorDiffers(b, st) == Imported[st] # appt[b]

NewerThanMirror(b, st) == Version[Imported[st]] > Version[appt[b]]

(* UpsertCalendarAppointments for one booking, whose status st was read at *)
(* the provider some time before: older versions are skipped.  A booking   *)
(* that no appointment and no claimant names gets an attempt of its own.   *)
UpsertCalendarAppointment(b, st) ==
    /\ <<b, st>> \in seen
    /\ NewerThanMirror(b, st)
    /\ appt' = [appt EXCEPT ![b] = Imported[st]]
    /\ \/ /\ owner[b] = Import \/ (owner[b] = None /\ Claimants(b) = {})
          /\ owner' = [owner EXCEPT ![b] = Import]
          /\ UNCHANGED attemptVars
       \/ \E a \in Calls :
            /\ owner[b] = a \/ (owner[b] = None /\ a \in Claimants(b))
            /\ owner' = [owner EXCEPT ![b] = a]
            /\ SyncAttempt(a, st)
    /\ UNCHANGED <<live, superseded, callVars, runVars, providerVars, epoch,
                   sent, attested>>

(* queryVerifiedReconciliationCandidates                                   *)
Candidates(a) ==
    {b \in Calls : /\ appt[b] = "confirmed" /\ request[b] = request[a]
                   /\ booking[a] # None => b = booking[a]}

(* What every action of ResolveReconciliationTask requires.                *)
Reconcilable(a) ==
    UnresolvedTask(a) /\ recon[a] = "required" /\ a \notin superseded

(* ResolveReconciliationTask, action not_created.                          *)
ResolveNotCreated(a) ==
    /\ Reconcilable(a)
    /\ status[a] # "provider_pending" /\ booking[a] = None
    /\ Candidates(a) = {}
    /\ claim[a] \in HeldClaims
    /\ status' = [status EXCEPT ![a] = "fallback_pending"]
    /\ outcome' = [outcome EXCEPT ![a] = "failed"]
    /\ retry' = [retry EXCEPT ![a] = "safe"]
    /\ recon' = [recon EXCEPT ![a] = "resolved"]
    /\ task' = [task EXCEPT ![a] = "resolved"]
    /\ claim' = [claim EXCEPT ![a] = "released"]
    /\ attested' = attested \cup {a}
    /\ UNCHANGED <<token, booking, live, superseded, callVars, runVars, mirrorVars,
                   providerVars, epoch, sent>>

(* ResolveReconciliationTask, action escalated.                            *)
ResolveEscalated(a) ==
    /\ Reconcilable(a)
    /\ task' = [task EXCEPT ![a] = "escalated"]
    /\ UNCHANGED <<status, outcome, retry, recon, token, booking, claim, live,
                   superseded, callVars, runVars, mirrorVars, providerVars,
                   epoch, sent, attested>>

(* ResolveReconciliationTask, action provider_attached: the one candidate  *)
(* becomes the attempt's booking and its former attempt is superseded.     *)
ResolveProviderAttached(a, b) ==
    /\ Reconcilable(a)
    /\ b \in Candidates(a) /\ owner[b] \notin superseded
    /\ claim[a] \in DispatchedClaims
    /\ LET former == {owner[b]} \cap (Calls \ {a}) IN
         /\ superseded' = superseded \cup former
         /\ recon' = [x \in Calls |-> IF x \in former \cup {a} THEN "resolved" ELSE recon[x]]
         /\ task' = [x \in Calls |-> IF x = a \/ (x \in former /\ task[x] # "none")
                                     THEN "resolved" ELSE task[x]]
    /\ owner' = [owner EXCEPT ![b] = a]
    /\ status' = [status EXCEPT ![a] = "confirmed"]
    /\ outcome' = [outcome EXCEPT ![a] = "succeeded"]
    /\ retry' = [retry EXCEPT ![a] = "none"]
    /\ booking' = [booking EXCEPT ![a] = b]
    /\ claim' = [claim EXCEPT ![a] = "confirmed"]
    /\ UNCHANGED <<token, live, callVars, runVars, appt, providerVars, epoch,
                   sent, attested>>

(* The provider decides a pending booking, or the salon cancels one there. *)
ProviderChanges(b) ==
    /\ \E st \in {"accepted", "declined", "cancelled"} :
         /\ prov[b] = "pending" \/ (prov[b] = "accepted" /\ st = "cancelled")
         /\ prov' = [prov EXCEPT ![b] = st]
         /\ seen' = seen \cup {<<b, st>>}
    /\ UNCHANGED <<attemptVars, live, superseded, callVars, runVars, mirrorVars,
                   epoch, sent, attested>>

(* The provider snapshot, the capability evidence or the integration's     *)
(* configuration is replaced.                                              *)
ConfigurationChanges ==
    /\ epoch < MaxEpoch
    /\ epoch' = epoch + 1
    /\ UNCHANGED <<attemptVars, live, superseded, callVars, runVars, mirrorVars,
                   providerVars, sent, attested>>

Next ==
    \/ \E c \in Calls : Create(c)
    \/ \E a \in Calls :
         \/ LeaseExpires(a) \/ ExpireLease(a)
         \/ ResolveNotCreated(a) \/ ResolveEscalated(a)
         \/ \E b \in Calls : ResolveProviderAttached(a, b)
    \/ \E b \in Calls :
         \/ ProviderChanges(b)
         \/ \E st \in ProviderStatuses : UpsertCalendarAppointment(b, st)
    \/ ConfigurationChanges

Spec == Init /\ [][Next]_vars

(* Time passes and the recovery loop runs.                                 *)
Fairness ==
    \A a \in Calls : WF_vars(LeaseExpires(a)) /\ WF_vars(ExpireLease(a))
FairSpec == Spec /\ Fairness

-----------------------------------------------------------------------------
(* Properties                                                              *)

(* Every column, claim, mirrored appointment and call's memory holds a     *)
(* value the schema and the code allow.                                    *)
TypeOK ==
    /\ status \in [Calls -> Statuses]
    /\ outcome \in [Calls -> ProviderOutcomes]
    /\ retry \in [Calls -> RetryPolicies]
    /\ recon \in [Calls -> Reconciliations]
    /\ token \in [Calls -> Calls \cup {None}]
    /\ live \subseteq Calls /\ superseded \subseteq Calls /\ attested \subseteq Calls
    /\ booking \in [Calls -> Calls \cup {None}]
    /\ task \in [Calls -> TaskStatuses]
    /\ claim \in [Calls -> ClaimStates]
    /\ key \in [Calls -> Keys] /\ request \in [Calls -> Requests]
    /\ retryOf \in [Calls -> Calls \cup {None}]
    /\ quote \in [Calls -> Nat] /\ epoch \in Nat
    /\ phase \in [Calls -> Phases] /\ resp \in [Calls -> Answers]
    /\ work \in [Calls -> Calls \cup {None}]
    /\ appt \in [Calls -> {"none", "provider_pending", "confirmed", "declined", "cancelled"}]
    /\ owner \in [Calls -> Calls \cup {None, Import}]
    /\ prov \in [Calls -> ProviderStatuses \cup {"none"}]
    /\ seen \subseteq Calls \X ProviderStatuses
    /\ sent \subseteq Calls \X Calls

(* The provider holds a booking the attempt made.                          *)
Booked(b) == prov[b] \in {"pending", "accepted"}

(* Two bookings that need the same staff time are never both live at the   *)
(* provider, whatever the provider itself would allow, unless an owner has *)
(* declared one of them not created: the slot claims, the fences of Create *)
(* and the retry policy keep the salon from double-booking.                *)
NoDoubleBooking ==
    \A a, b \in Calls :
        /\ a # b /\ Booked(a) /\ Booked(b)
        /\ <<request[a], request[b]>> \in Overlaps
        => a \in attested \/ b \in attested

(* A booking the provider holds keeps its slot claimed here, so later      *)
(* requests conflict before dispatch, through crashes, lost answers, lease *)
(* recovery and calendar synchronization.                                  *)
BookedSlotIsHeld ==
    \A b \in Calls : Booked(b) => claim[b] \in HeldClaims \/ b \in attested

(* The claim ledger excludes overlapping requests.                         *)
ClaimsExclude ==
    \A a, b \in Calls :
        /\ a # b /\ claim[a] \in HeldClaims /\ claim[b] \in HeldClaims
        => <<request[a], request[b]>> \notin Overlaps

(* An attempt no call has started has no booking, one that is not there    *)
(* has nothing, and appointments belong to attempts that are.              *)
UnstartedIsUnbooked ==
    \A a \in Calls : outcome[a] = "not_started" => prov[a] = "none"
AbsentIsBlank ==
    \A a \in Calls : status[a] = "absent" =>
        /\ claim[a] = "none" /\ outcome[a] = "not_started"
        /\ retry[a] = "none" /\ recon[a] # "required"
OwnersExist ==
    \A b \in Calls : owner[b] \in Attempts \cup {None, Import}

(* A call past its start works on an attempt of which it is the only       *)
(* runner, and what it holds agrees with the provider.                     *)
Running(c) == phase[c] \in {"customer", "dispatch", "save"}
RunnersAgree ==
    \A c \in Calls :
        /\ phase[c] \in {"mark", "customer", "dispatch", "save"} => work[c] \in Attempts
        /\ Running(c) =>
             /\ outcome[work[c]] # "not_started"
             /\ \A d \in Calls : Running(d) /\ work[d] = work[c] => d = c
        /\ phase[c] \in {"customer", "dispatch"} =>
             /\ prov[work[c]] = "none"
             /\ claim[work[c]] \in HeldClaims \/ work[c] \in attested
        /\ phase[c] = "save" =>
             /\ resp[c] # "none"
             /\ resp[c] = "rejected" => prov[work[c]] = "none"
             /\ resp[c] = "declined" => prov[work[c]] = "declined"

(* A retry is offered only once the slot has been given up.                *)
SafeIsReleased ==
    \A a \in Calls : retry[a] = "safe" => claim[a] \notin HeldClaims

(* The inductive invariant behind the three safety properties above.       *)
BookInv ==
    /\ ClaimsExclude /\ UnstartedIsUnbooked /\ AbsentIsBlank /\ OwnersExist
    /\ RunnersAgree /\ SafeIsReleased /\ BookedSlotIsHeld

(* can_retry is only ever offered for an attempt that has no booking and   *)
(* that no stalled call can still dispatch (unless an owner declared so).  *)
SafeRetryMeansNoBooking ==
    \A a \in Attempts \ attested :
        retry[a] = "safe" =>
            /\ ~Booked(a)
            /\ \A c \in Calls : work[c] = a => phase[c] \notin {"customer", "dispatch"}

(* One request has one standing attempt: retries, resumed leases and       *)
(* reconciliation never leave two that could each be acted on.             *)
OneStandingAttempt ==
    \A a, b \in Attempts \ superseded : request[a] = request[b] => a = b

(* An attempt is handed to the provider by one call only: a resumed lease  *)
(* and its former holder never both dispatch.                              *)
DispatchedOnce ==
    \A s, t \in sent : s[2] = t[2] => s = t

(* An attempt in question has an unresolved task for the owner, and only   *)
(* such an attempt has one.                                                *)
UnknownHasTask ==
    \A a \in Attempts : recon[a] = "required" <=> UnresolvedTask(a)

(* A confirmed attempt names a booking that the provider did accept.       *)
ConfirmedIsAccepted ==
    \A a \in Attempts \ superseded :
        status[a] = "confirmed" =>
            booking[a] # None /\ <<booking[a], "accepted">> \in seen

(* A request has one attempt that stands and an attempt is sent once,      *)
(* whatever is retried, resumed or reconciled.                             *)
AttemptsAreSingle == OneStandingAttempt /\ DispatchedOnce

(* What the owner and the customer are shown of an attempt is so: what is  *)
(* in question is on the owner's list, what is confirmed was accepted.     *)
AttemptsAreAccountedFor == UnknownHasTask /\ ConfirmedIsAccepted

(* An appointment is never moved back to an older provider version, and    *)
(* follows what the provider said, however late a snapshot is applied.     *)
CalendarMovesForward ==
    [][\A b \in Calls : Version[appt'[b]] >= Version[appt[b]]
                         /\ (appt'[b] # "none" => \E st \in ProviderStatuses :
                                <<b, st>> \in seen /\ Imported[st] = appt'[b])]_vars

(* Every claimed operation settles: its caller or lease recovery ends it.  *)
EveryAttemptSettles ==
    \A a \in Calls : status[a] = "pos_pending" ~> status[a] # "pos_pending"

(* operations-health.md: calendar convergence confirms the slot claim of   *)
(* the attempt it settles.                                                 *)
ConvergenceConfirmsClaim ==
    \A a \in Attempts \ superseded : status[a] = "confirmed" => claim[a] = "confirmed"
=============================================================================
