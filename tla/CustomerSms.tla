----------------------------- MODULE CustomerSms -----------------------------
(***************************************************************************)
(* Texts to a salon's customers (modules/customer_notification): consent   *)
(* from conversations, from owners and from Twilio's opt-out messages; the *)
(* salon's policy; the outbox row that a change of an appointment enqueues *)
(* in the same transaction; and the worker that claims, checks, marks,     *)
(* sends and records it.  One destination and one appointment.  HELP only  *)
(* adds to the audit trail, and is left out.                               *)
(*                                                                         *)
(* A row is named by the version of the appointment it is about, which is  *)
(* its dedupe key.  A claim token is the number of the row's attempt.      *)
(***************************************************************************)
EXTENDS Integers, FiniteSets

CONSTANTS
    Messages,        \* ids of opt-out messages Twilio reports
    ConsentKeys,     \* event keys of conversations and owners
    Senders,         \* claims under way at a time
    DayMinutes,           \* minutes of the salon's day
    QuietPolicies,        \* policies an owner may set: [enabled, from, to]
    MaxSmsAttempts,  \* MaxSafeDeliveryAttempts
    MaxOwnerRequeues,
    MaxSource,       \* bound on the appointment's versions
    MaxConsent,      \* bound on the versions of the consent
    MaxPolicy        \* bound on the versions of the policy

ASSUME SmsConstants ==
    /\ MaxSmsAttempts \in Nat \ {0} /\ MaxOwnerRequeues \in Nat
    /\ MaxSource \in Nat /\ MaxConsent \in Nat /\ MaxPolicy \in Nat
    /\ \A p \in QuietPolicies : p.from \in DayMinutes /\ p.to \in DayMinutes /\ p.from # p.to

VARIABLES
    smsPolicy,       \* salon_settings.customer_sms_*
    consent,         \* customer_sms_consents, with the number of STOPs (history)
    consentEvents,   \* customer_sms_consent_events
    inbound,         \* START messages being handled, with what was read
    source,          \* the appointment: version and status
    smsRow,          \* customer_notification_deliveries
    sender,          \* the worker's claims
    texts            \* messages at Twilio, with who sent them and the STOPs there had been
                     \* at the dispatch marker and at Twilio (history)

smsVars == <<smsPolicy, consent, consentEvents, inbound, source, smsRow, sender, texts>>

SmsRows == 1 .. MaxSource
NoRow == [status |-> "none"]
IdleSender == [phase |-> "idle"]

-----------------------------------------------------------------------------
(* Consent. *)

legalConsentTransition(current, next, origin, event) ==
    IF next = "opted_out" THEN origin = "twilio" /\ event = "opt_out"
    ELSE IF current = "opted_out"
         THEN next = "consented" /\ origin = "twilio" /\ event = "opt_in"
    ELSE IF current = "consented" THEN next = "consented"
    ELSE next \in {"pending", "consented", "declined"}

\* A consent event: its key (source and id) and what its fingerprint covers.
ConsentEvent(key, next, origin, event) ==
    [key |-> key, next |-> next, origin |-> origin, event |-> event]
EventsWith(key) == {e \in consentEvents : e.key = key}

\* mutateConsent, under the destination's advisory lock: a key that was seen is
\* a replay or a conflict, and neither changes anything.
NewEvent(e) == EventsWith(e.key) = {} /\ legalConsentTransition(consent.status, e.next, e.origin, e.event)

mutateConsent(e) ==
    /\ NewEvent(e) /\ consent.version < MaxConsent
    /\ consent' = [status |-> e.next, version |-> consent.version + 1,
                   stops |-> consent.stops + (IF e.next = "opted_out" THEN 1 ELSE 0)]
    /\ consentEvents' = consentEvents \cup {e}

ConsentOnly == UNCHANGED <<smsPolicy, source, smsRow, sender, texts>>

RecordConsentRequested(k) ==
    /\ mutateConsent(ConsentEvent(<<"ask", k>>, "pending", "conversation", "consent_requested"))
    /\ ConsentOnly /\ UNCHANGED inbound

RecordConversationConsent(k, granted) ==
    /\ mutateConsent(ConsentEvent(<<"answer", k>>, IF granted THEN "consented" ELSE "declined",
                                  "conversation", IF granted THEN "consented" ELSE "declined"))
    /\ ConsentOnly /\ UNCHANGED inbound

AttestConsent(k) ==
    /\ mutateConsent(ConsentEvent(<<"attest", k>>, "consented", "owner", "consented"))
    /\ ConsentOnly /\ UNCHANGED inbound

PolicyReady == smsPolicy.enabled /\ smsPolicy.from # smsPolicy.to

InboundStop(m) ==
    /\ mutateConsent(ConsentEvent(<<"stop", m>>, "opted_out", "twilio", "opt_out"))
    /\ ConsentOnly /\ UNCHANGED inbound

\* START: ApplyInboundOptOut reads consent and policy before it takes the lock.
\* With a policy that is not ready it leaves the status as it was read.
ReadStart(m) ==
    /\ inbound[m] = "none"
    /\ PolicyReady \/ consent.version > 0
    /\ inbound' = [inbound EXCEPT ![m] =
                     IF PolicyReady /\ consent.status # "consented" THEN "consents" ELSE "notes"]
    /\ UNCHANGED <<consent, consentEvents>> /\ ConsentOnly

AppliedStart(m) ==
    IF inbound[m] = "consents"
    THEN mutateConsent(ConsentEvent(<<"start", m>>, "consented", "twilio", "opt_in"))
    ELSE /\ EventsWith(<<"start", m>>) = {}
         /\ consentEvents' = consentEvents \cup
                {ConsentEvent(<<"start", m>>, "unchanged", "twilio", "opt_in")}
         /\ UNCHANGED consent

\* appendConsentEvent or mutateConsent, which may refuse; Twilio may send the
\* message again.
ApplyStart(m) ==
    /\ inbound[m] # "none"
    /\ inbound' = [inbound EXCEPT ![m] = "none"]
    /\ \/ AppliedStart(m)
       \/ /\ EventsWith(<<"start", m>>) # {} \/ inbound[m] = "consents"
          /\ ~ NewEvent(ConsentEvent(<<"start", m>>, "consented", "twilio", "opt_in"))
          /\ UNCHANGED <<consent, consentEvents>>
    /\ ConsentOnly

-----------------------------------------------------------------------------
(* Policy and outbox. *)

\* UpdatePolicyForOwner; the trigger advances the version if anything changed.
UpdatePolicy(p) ==
    /\ [enabled |-> smsPolicy.enabled, from |-> smsPolicy.from, to |-> smsPolicy.to] # p
    /\ smsPolicy.version < MaxPolicy
    /\ smsPolicy' = [enabled |-> p.enabled, from |-> p.from, to |-> p.to,
                     version |-> smsPolicy.version + 1]
    /\ UNCHANGED <<consent, consentEvents, inbound, source, smsRow, sender, texts>>

\* enqueue_customer_notification, in the transaction of the change.
QueuedRow(v) ==
    [status |-> "queued", attempts |-> 0, requeues |-> 0, token |-> 0, live |-> FALSE,
     dispatched |-> FALSE, consentV |-> consent.version, policyV |-> smsPolicy.version,
     msg |-> 0, rank |-> 0, unknown |-> FALSE, redacted |-> FALSE, stops |-> consent.stops]
Enqueues == PolicyReady /\ consent.status = "consented"

\* The appointment is booked, moved or cancelled by this system.
SourceChanges(status) ==
    /\ source.version < MaxSource
    /\ source' = [version |-> source.version + 1, status |-> status]
    /\ smsRow' = IF Enqueues
                 THEN [smsRow EXCEPT ![source.version + 1] = QueuedRow(source.version + 1)]
                 ELSE smsRow
    /\ UNCHANGED <<smsPolicy, consent, consentEvents, inbound, sender, texts>>

\* The provider's calendar changes it: nothing is enqueued.
SourceSynced ==
    /\ source.version < MaxSource
    /\ source' = [version |-> source.version + 1, status |-> "synced"]
    /\ UNCHANGED <<smsPolicy, consent, consentEvents, inbound, smsRow, sender, texts>>

SourceCurrent(d) == source.version = d /\ source.status # "synced"

-----------------------------------------------------------------------------
(* The worker. *)

WorkOnly == UNCHANGED <<smsPolicy, consent, consentEvents, inbound, source>>

InCycle(d) == smsRow[d].attempts - smsRow[d].requeues * MaxSmsAttempts

\* app_worker_claim_customer_notifications, one row of the batch.
ClaimRow(w, d) ==
    /\ sender[w] = IdleSender
    /\ smsRow[d].status \in {"queued", "quiet_hours", "failed"}
    /\ smsRow[d].attempts < (smsRow[d].requeues + 1) * MaxSmsAttempts
    /\ smsRow' = [smsRow EXCEPT ![d] =
                    [@ EXCEPT !.status = "delivering", !.live = TRUE, !.dispatched = FALSE,
                              !.attempts = smsRow[d].attempts + 1,
                              !.token = smsRow[d].attempts + 1]]
    /\ sender' = [sender EXCEPT ![w] = [phase |-> "claimed", d |-> d, plan |-> "none",
                                        token |-> smsRow[d].attempts + 1]]
    /\ WorkOnly /\ UNCHANGED texts

HoldsRow(w) ==
    LET d == sender[w].d
    IN  smsRow[d].status = "delivering" /\ smsRow[d].token = sender[w].token

SmsFenced(d) ==
    /\ smsPolicy.enabled /\ consent.status = "consented"
    /\ consent.version = smsRow[d].consentV /\ smsPolicy.version = smsRow[d].policyV
    /\ SourceCurrent(d)

\* quietHoursEnd: the hours may span midnight.
InQuietHours(clock) ==
    IF smsPolicy.from < smsPolicy.to
    THEN clock >= smsPolicy.from /\ clock < smsPolicy.to
    ELSE clock >= smsPolicy.from \/ clock < smsPolicy.to

DispatchPlanned(w, plan) ==
    sender' = [sender EXCEPT ![w].phase = "planned", ![w].plan = plan]

\* ResolveDispatchReadiness, the quiet hours and the sender's configuration.
ResolveDispatchReadiness(w) ==
    /\ sender[w].phase = "claimed"
    /\ IF ~ HoldsRow(w) THEN sender' = [sender EXCEPT ![w] = IdleSender]
       ELSE IF ~ SmsFenced(sender[w].d) THEN DispatchPlanned(w, "suppressed")
       ELSE \E clock \in DayMinutes :
              IF InQuietHours(clock) THEN DispatchPlanned(w, "quiet_hours")
              ELSE DispatchPlanned(w, "safe_retry") \/ DispatchPlanned(w, "mark")
    /\ WorkOnly /\ UNCHANGED <<smsRow, texts>>

\* Mutant: the claim stays on the row.
SmsSettledClaimed(d, status) == [smsRow[d] EXCEPT !.status = status, !.live = FALSE]

SmsSettled(d, status) ==
    [smsRow[d] EXCEPT !.status = status, !.token = 0, !.live = FALSE, !.dispatched = FALSE]
SafeFailure(d) == IF InCycle(d) >= MaxSmsAttempts THEN "dead_letter" ELSE "failed"

\* completeWithoutProvider; a claim that was lost records nothing.
CompletesClaim(w, row) ==
    /\ smsRow' = IF HoldsRow(w) THEN [smsRow EXCEPT ![sender[w].d] = row] ELSE smsRow
    /\ sender' = [sender EXCEPT ![w] = IdleSender]
    /\ WorkOnly /\ UNCHANGED texts

CompleteWithoutProvider(w) ==
    /\ sender[w].phase = "planned" /\ sender[w].plan # "mark"
    /\ LET d == sender[w].d
           plan == sender[w].plan
       IN  CompletesClaim(w, SmsSettled(d, IF plan = "safe_retry" THEN SafeFailure(d) ELSE plan))

\* MarkDispatchStarted compares everything once more, under the rows' locks.
MarkAllowed(w) == smsRow[sender[w].d].live /\ SmsFenced(sender[w].d)

MarkDispatchStarted(w) ==
    /\ sender[w].phase = "planned" /\ sender[w].plan = "mark" /\ HoldsRow(w)
    /\ IF MarkAllowed(w)
       THEN /\ smsRow' = [smsRow EXCEPT ![sender[w].d].dispatched = TRUE]
            /\ sender' = [sender EXCEPT ![w].phase = "send", ![w].plan = consent.stops]
       ELSE \/ ~ SmsFenced(sender[w].d) /\ UNCHANGED smsRow /\ DispatchPlanned(w, "suppressed")
            \/ /\ ~ smsRow[sender[w].d].live
               /\ sender' = [sender EXCEPT ![w] = IdleSender] /\ UNCHANGED smsRow
    /\ WorkOnly /\ UNCHANGED texts

TextStatus == {"accepted", "sent", "delivered", "undelivered"}
Text(w, s) == [d |-> sender[w].d, token |-> sender[w].token, by |-> w,
               marked |-> sender[w].plan, sent |-> consent.stops, state |-> s]
Answered(w, answer) == sender' = [sender EXCEPT ![w].phase = "record", ![w].plan = answer]

\* Sender.Send at Twilio, with no look at the consent after the marker.  The answer
\* has the status the text has by then; an ambiguous one may hide a text.
SendText(w) ==
    /\ sender[w].phase = "send"
    /\ \/ \E s \in TextStatus : /\ texts' = texts \cup {Text(w, s)}
                               /\ \E answer \in {s, "ambiguous"} : Answered(w, answer)
       \/ /\ UNCHANGED texts
          /\ \E answer \in {"ambiguous", "retryable", "rejected"} : Answered(w, answer)
    /\ WorkOnly /\ UNCHANGED smsRow

TextRank == [accepted |-> 10, sent |-> 30, delivered |-> 50, undelivered |-> 50]

\* mapTwilioStatus: the row's status for a text's.
RowStatus(s) == CASE s = "accepted" -> "provider_accepted"
                  [] s = "undelivered" -> "dead_letter"
                  [] OTHER -> s

\* RecordProviderResult, RecordOutcomeUnknown, RecordSafeFailure and
\* RecordDefinitiveFailure.
RecordSend(w) ==
    /\ sender[w].phase = "record"
    /\ LET d == sender[w].d
           answer == sender[w].plan
       IN  CompletesClaim(w,
             CASE answer \in TextStatus ->
                    [SmsSettled(d, RowStatus(answer)) EXCEPT !.msg = sender[w].token,
                                                             !.rank = TextRank[answer]]
               [] answer = "ambiguous" -> [SmsSettled(d, "dead_letter") EXCEPT !.unknown = TRUE]
               [] answer = "retryable" -> SmsSettled(d, SafeFailure(d))
               [] answer = "rejected" -> SmsSettled(d, "dead_letter"))

SenderStops(w) ==
    /\ sender[w] # IdleSender
    /\ sender' = [sender EXCEPT ![w] = IdleSender]
    /\ WorkOnly /\ UNCHANGED <<smsRow, texts>>

SmsLeaseEnds(d) ==
    /\ smsRow[d].status = "delivering" /\ smsRow[d].live
    /\ smsRow' = [smsRow EXCEPT ![d].live = FALSE]
    /\ WorkOnly /\ UNCHANGED <<sender, texts>>

\* Mutant: a lease that ended after the dispatch is taken for one before it.
SmsRecoveredBlind(d) == SmsSettled(d, SafeFailure(d))

SmsRecovered(d) ==
    IF smsRow[d].dispatched THEN [SmsSettled(d, "dead_letter") EXCEPT !.unknown = TRUE]
    ELSE SmsSettled(d, SafeFailure(d))

RecoverExpiredLease(d) ==
    /\ smsRow[d].status = "delivering" /\ ~ smsRow[d].live
    /\ smsRow' = [smsRow EXCEPT ![d] = SmsRecovered(d)]
    /\ WorkOnly /\ UNCHANGED <<sender, texts>>

-----------------------------------------------------------------------------
(* Callbacks, requeue and retention. *)

\* Twilio moves a text on (external).
TextAdvances(t) ==
    /\ t \in texts
    /\ \E s \in TextStatus :
         /\ TextRank[s] > TextRank[t.state]
         /\ texts' = (texts \ {t}) \cup {[t EXCEPT !.state = s]}
    /\ WorkOnly /\ UNCHANGED <<smsRow, sender>>

\* ApplyProviderCallback: found by the message's id, applied by rank; the
\* table's claim check keeps it off a row that is being delivered.
ApplySmsCallback(t) ==
    /\ t \in texts /\ smsRow[t.d].msg = t.token
    /\ TextRank[t.state] > smsRow[t.d].rank /\ smsRow[t.d].status # "delivering"
    /\ smsRow' = [smsRow EXCEPT ![t.d].rank = TextRank[t.state],
                    ![t.d].status = RowStatus(t.state)]
    /\ WorkOnly /\ UNCHANGED <<sender, texts>>

\* requeueForOwner.
RequeueSms(d) ==
    /\ smsRow[d].status = "dead_letter" /\ ~ smsRow[d].unknown /\ ~ smsRow[d].redacted
    /\ smsRow[d].requeues < MaxOwnerRequeues /\ SmsFenced(d)
    /\ smsRow' = [smsRow EXCEPT ![d].status = "queued", ![d].requeues = @ + 1]
    /\ WorkOnly /\ UNCHANGED <<sender, texts>>

\* redactNextCustomerNotification, after the retention time.
RedactSms(d) ==
    /\ smsRow[d].status \in {"delivered", "dead_letter", "suppressed"} /\ ~ smsRow[d].redacted
    /\ smsRow' = [smsRow EXCEPT ![d].redacted = TRUE]
    /\ WorkOnly /\ UNCHANGED <<sender, texts>>

SmsInit ==
    /\ smsPolicy \in {[enabled |-> p.enabled, from |-> p.from, to |-> p.to, version |-> 1] :
                          p \in QuietPolicies}
    /\ consent = [status |-> "none", version |-> 0, stops |-> 0]
    /\ consentEvents = {} /\ inbound = [m \in Messages |-> "none"]
    /\ source = [version |-> 0, status |-> "synced"]
    /\ smsRow = [d \in SmsRows |-> NoRow]
    /\ sender = [w \in Senders |-> IdleSender] /\ texts = {}

SmsNext ==
    \/ \E k \in ConsentKeys : \/ RecordConsentRequested(k) \/ AttestConsent(k)
                              \/ \E granted \in BOOLEAN : RecordConversationConsent(k, granted)
    \/ \E m \in Messages : InboundStop(m) \/ ReadStart(m) \/ ApplyStart(m)
    \/ \E p \in QuietPolicies : UpdatePolicy(p)
    \/ SourceChanges("current") \/ SourceSynced
    \/ \E w \in Senders :
         \/ \E d \in SmsRows : ClaimRow(w, d)
         \/ ResolveDispatchReadiness(w) \/ CompleteWithoutProvider(w)
         \/ MarkDispatchStarted(w) \/ SendText(w) \/ RecordSend(w) \/ SenderStops(w)
    \/ \E d \in SmsRows : \/ SmsLeaseEnds(d) \/ RecoverExpiredLease(d)
                          \/ RequeueSms(d) \/ RedactSms(d)
    \/ \E t \in texts : TextAdvances(t) \/ ApplySmsCallback(t)

SmsSpec == SmsInit /\ [][SmsNext]_smsVars

-----------------------------------------------------------------------------
(* What must hold. *)

\* Rows and consent have the shapes their tables' checks allow.
SmsTypeOK ==
    /\ consent.status \in {"none", "pending", "consented", "declined", "opted_out"}
    /\ consent.version \in 0 .. MaxConsent
    /\ \A d \in SmsRows : smsRow[d] # NoRow =>
         /\ smsRow[d].status \in {"queued", "quiet_hours", "delivering", "provider_accepted", "sent",
                                  "delivered", "failed", "dead_letter", "suppressed"}
         /\ (smsRow[d].status = "delivering") = (smsRow[d].token # 0)
         /\ smsRow[d].dispatched => smsRow[d].status = "delivering"
         /\ smsRow[d].attempts <= (MaxOwnerRequeues + 1) * MaxSmsAttempts

\* A customer is texted about a change at most once, and on the strength of a consent
\* that no STOP ended between the change and the dispatch marker (MarkDispatchStarted),
\* even if a START came after it.  The program does not look again after the marker
\* (ProcessOnce), so a STOP may still be overtaken by a text that was marked before it,
\* but by one text of each sender and no more.  Retries, lost leases, lost answers,
\* requeues and duplicated or racing opt-out messages notwithstanding.
TextsAreWanted ==
    /\ \A t \in texts : t.marked = smsRow[t.d].stops
    /\ \A t, u \in texts : t # u /\ t.by = u.by => t.sent <= u.marked \/ u.sent <= t.marked
    /\ \A t, u \in texts :
           t.d = u.d /\ t.state # "undelivered" /\ u.state # "undelivered" => t = u

\* An opt-out ends only with a START that was not counted before it: a message
\* that Twilio reports again cannot end a later opt-out.
OptOutHolds ==
    [][consent.status = "opted_out" /\ consent'.status # "opted_out" =>
          \E m \in Messages : EventsWith(<<"start", m>>) = {} /\ inbound[m] # "none"]_smsVars
=============================================================================
