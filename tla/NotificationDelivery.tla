------------------------ MODULE NotificationDelivery ------------------------
(***************************************************************************)
(* The owner-notification outbox: modules/notification_delivery (processor *)
(* and repository), its Twilio adapter, and the V79/V90 SQL functions that *)
(* discover expired leases and claim work.                                 *)
(*                                                                         *)
(* Replicated workers run ProcessOnce: recover expired leases, claim a     *)
(* batch, and for every claimed row mark the dispatch, call Twilio and     *)
(* record the outcome.  Each repository call is one transaction on locked  *)
(* rows, hence one action; a worker may crash between any two of them, and *)
(* a lease may run out at any time.                                        *)
(***************************************************************************)
EXTENDS Integers, Sequences, FiniteSets

CONSTANTS
    Notifications,              \* owner_notifications rows
    Workers,                    \* worker replicas running the delivery job
    ActionKeys,                 \* idempotency keys the owner requeues with
    MaxSafeDeliveryAttempts,    \* delivery attempts allowed per cycle (5 in the code)
    BatchLimit,                 \* rows one ProcessOnce may claim
    MaxCrashes                  \* bound: worker crashes in one behaviour

ASSUME MaxAttemptsAssumption == MaxSafeDeliveryAttempts \in Nat \ {0}
ASSUME BatchLimitAssumption == BatchLimit \in Nat \ {0}
ASSUME MaxCrashesAssumption == MaxCrashes \in Nat

VARIABLES
    \* owner_notifications, one function or set per column
    status,         \* delivery_status
    code,           \* last_delivery_error_code
    attempts,       \* delivery_attempts
    requeues,       \* requeue_count
    due,            \* rows with next_delivery_at <= now()
    token,          \* delivery_claim_token: the attempt it was issued for, 0 if NULL
    live,           \* rows with delivery_lease_expires_at > now()
    dispatched,     \* rows with delivery_dispatch_started_at set
    msg,            \* provider_message_id: the attempt that sent it, 0 if NULL
    rank,           \* provider_status_rank
    redacted,       \* rows with redacted_at set
    cycleBase,      \* history: delivery_attempts at the last requeue
    ledger,         \* owner_notification_delivery_attempts: outcome of attempt k
    actions,        \* owner_notification_delivery_actions, as <<key, n>>
    events,         \* status callbacks in the event ledger, as <<n, k, s>>
    \* what each worker holds in memory during ProcessOnce
    phase, expired, batch, cur, resp,
    \* the world outside
    twilio,         \* messages Twilio accepted, as <<n, k, status>>
    crashes         \* number of crashes so far

claimCols == <<token, live, dispatched>>
providerCols == <<msg, rank>>
cycleCols == <<requeues, redacted, cycleBase>>
rowVars == <<status, code, attempts, due, claimCols, providerCols, cycleCols>>
workVars == <<phase, expired, batch, cur, resp>>
vars == <<rowVars, ledger, actions, events, workVars, twilio, crashes>>

-----------------------------------------------------------------------------
(* Statuses and the Twilio status map.                                     *)

DeliveryStatuses == {"queued", "delivering", "provider_accepted", "sent",
                     "delivered", "failed", "dead_letter", "disabled"}
Outcomes == {"leased", "safe_retry", "provider_accepted", "sent", "delivered",
             "provider_failed", "outcome_unknown", "dead_letter", "disabled"}
Codes == {"none", "DELIVERY_OUTCOME_UNKNOWN", "DELIVERY_LEASE_EXPIRED",
          "DELIVERY_CONFIG_NOT_READY", "OWNER_SMS_DISABLED",
          "DELIVERY_REQUEST_INVALID", "TWILIO_MESSAGE_REJECTED",
          "TWILIO_DELIVERY_FAILED"}
TwilioStatuses == {"queued", "sending", "sent", "delivered", "undelivered"}
Answers == {"none", "retryable", "ambiguous", "rejected"} \cup TwilioStatuses

TwilioRank == [queued |-> 10, sending |-> 20, sent |-> 30,
               delivered |-> 50, undelivered |-> 50]

TwilioDelivery == [queued |-> "provider_accepted", sending |-> "provider_accepted",
                   sent |-> "sent", delivered |-> "delivered",
                   undelivered |-> "dead_letter"]
ProviderOutcome == [queued |-> "provider_accepted", sending |-> "provider_accepted",
                    sent |-> "sent", delivered |-> "delivered",
                    undelivered |-> "provider_failed"]
ProviderCode(s) == IF s = "undelivered" THEN "TWILIO_DELIVERY_FAILED" ELSE "none"

(* An attempt number within the current requeue cycle, clamped to 1..Max.  *)
DeliveryAttemptInCycle(attempt, requeueCount) ==
    LET inCycle == attempt - requeueCount * MaxSafeDeliveryAttempts
    IN  IF inCycle < 1 THEN 1
        ELSE IF inCycle > MaxSafeDeliveryAttempts THEN MaxSafeDeliveryAttempts
        ELSE inCycle

(* batch: claims not begun yet (the SQL function returns them in no fixed  *)
(* order); cur: the claim being sent or recorded; resp: Twilio's answer;   *)
(* expired: the candidates lease discovery saw.                            *)
Claim == [n : Notifications, token : Nat, requeues : Nat]
ExpiredLease == [n : Notifications, token : Nat]
NoClaim == [n |-> "none", token |-> 0, requeues |-> 0]
Phases == {"idle", "recover", "batch", "send", "record"}

Init ==
    /\ status = [n \in Notifications |-> "queued"]
    /\ code = [n \in Notifications |-> "none"]
    /\ attempts = [n \in Notifications |-> 0]
    /\ requeues = [n \in Notifications |-> 0]
    /\ due = Notifications
    /\ token = [n \in Notifications |-> 0]
    /\ live = {} /\ dispatched = {} /\ redacted = {}
    /\ msg = [n \in Notifications |-> 0]
    /\ rank = [n \in Notifications |-> 0]
    /\ cycleBase = [n \in Notifications |-> 0]
    /\ ledger = [n \in Notifications |-> <<>>]
    /\ actions = {} /\ events = {}
    /\ phase = [w \in Workers |-> "idle"]
    /\ expired = [w \in Workers |-> {}]
    /\ batch = [w \in Workers |-> {}]
    /\ cur = [w \in Workers |-> NoClaim]
    /\ resp = [w \in Workers |-> "none"]
    /\ twilio = {}
    /\ crashes = 0

-----------------------------------------------------------------------------
(* Steps of several transactions.                                          *)

(* A row leaves 'delivering' for status st: the claim columns are cleared. *)
Settle(n, st, cd) ==
    /\ status' = [status EXCEPT ![n] = st]
    /\ code' = [code EXCEPT ![n] = cd]
    /\ token' = [token EXCEPT ![n] = 0]
    /\ live' = live \ {n}
    /\ dispatched' = dispatched \ {n}

(* Mutant: the outcome is inserted as a new ledger row.                    *)
FinishAttemptInserts(n, k, outcome) ==
    ledger' = [ledger EXCEPT ![n] = Append(@, outcome)]

(* UPDATE ...attempts SET outcome WHERE claim_token=$ AND outcome='leased' *)
FinishAttempt(n, k, outcome) ==
    ledger' = IF k \in DOMAIN ledger[n] /\ ledger[n][k] = "leased"
              THEN [ledger EXCEPT ![n] = [@ EXCEPT ![k] = outcome]]
              ELSE ledger

(* ProcessOnce returns, with or without an error.                          *)
EndRun(w) ==
    /\ phase' = [phase EXCEPT ![w] = "idle"]
    /\ expired' = [expired EXCEPT ![w] = {}]
    /\ batch' = [batch EXCEPT ![w] = {}]
    /\ cur' = [cur EXCEPT ![w] = NoClaim]
    /\ resp' = [resp EXCEPT ![w] = "none"]

(* The run goes on with the rest of the batch.                             *)
Processed(w, c) ==
    /\ phase' = [phase EXCEPT ![w] = "batch"]
    /\ batch' = [batch EXCEPT ![w] = @ \ {c}]
    /\ cur' = [cur EXCEPT ![w] = NoClaim]
    /\ resp' = [resp EXCEPT ![w] = "none"]
    /\ UNCHANGED expired

-----------------------------------------------------------------------------
(* RecoverExpiredLeases: discovery reads a snapshot, then every candidate  *)
(* is rechecked and recovered in a transaction of its own.                 *)

(* Mutant: discovery looks only for dispatched rows.                       *)
DiscoverExpiredDispatches(w) ==
    /\ phase[w] = "idle"
    /\ phase' = [phase EXCEPT ![w] = "recover"]
    /\ expired' = [expired EXCEPT ![w] =
         {[n |-> n, token |-> token[n]] :
            n \in {m \in dispatched : status[m] = "delivering" /\ m \notin live}}]
    /\ UNCHANGED <<rowVars, ledger, actions, events, batch, cur, resp, twilio, crashes>>

DiscoverExpiredLeases(w) ==
    /\ phase[w] = "idle"
    /\ phase' = [phase EXCEPT ![w] = "recover"]
    /\ expired' = [expired EXCEPT ![w] =
         {[n |-> n, token |-> token[n]] :
            n \in {m \in Notifications : status[m] = "delivering" /\ m \notin live}}]
    /\ UNCHANGED <<rowVars, ledger, actions, events, batch, cur, resp, twilio, crashes>>

(* The row is still leased under the token the snapshot saw, and expired.  *)
StillExpired(x) == /\ status[x.n] = "delivering"
                   /\ token[x.n] = x.token
                   /\ x.n \notin live

(* Mutants: a dispatched row is recovered for a retry; it is dead-lettered *)
(* with the wrong code; its attempt is not closed.                         *)
RecoverDispatchedForRetry(x) ==
    /\ StillExpired(x) /\ x.n \in dispatched
    /\ Settle(x.n, "failed", "DELIVERY_LEASE_EXPIRED")
    /\ FinishAttempt(x.n, x.token, "safe_retry")
    /\ due' = due \cup {x.n}

RecoverDispatchedAsExpired(x) ==
    /\ StillExpired(x) /\ x.n \in dispatched
    /\ Settle(x.n, "dead_letter", "DELIVERY_LEASE_EXPIRED")
    /\ FinishAttempt(x.n, x.token, "outcome_unknown")
    /\ UNCHANGED due

RecoverDispatchedLeavesAttempt(x) ==
    /\ StillExpired(x) /\ x.n \in dispatched
    /\ Settle(x.n, "dead_letter", "DELIVERY_OUTCOME_UNKNOWN")
    /\ UNCHANGED <<due, ledger>>

RecoverDispatched(x) ==
    /\ StillExpired(x) /\ x.n \in dispatched
    /\ Settle(x.n, "dead_letter", "DELIVERY_OUTCOME_UNKNOWN")
    /\ FinishAttempt(x.n, x.token, "outcome_unknown")
    /\ UNCHANGED due

RecoverBeforeDispatch(x) ==
    /\ StillExpired(x) /\ x.n \notin dispatched
    /\ Settle(x.n, "failed", "DELIVERY_LEASE_EXPIRED")
    /\ FinishAttempt(x.n, x.token, "safe_retry")
    /\ due' = due \cup {x.n}

RecoverExpiredLease(w, x) ==
    /\ phase[w] = "recover"
    /\ expired' = [expired EXCEPT ![w] = @ \ {x}]
    /\ \/ RecoverDispatched(x)
       \/ RecoverBeforeDispatch(x)
       \/ ~StillExpired(x) /\ UNCHANGED <<status, code, claimCols, due, ledger>>
    /\ UNCHANGED <<attempts, providerCols, cycleCols, actions, events,
                   phase, batch, cur, resp, twilio, crashes>>

-----------------------------------------------------------------------------
(* ClaimBatch: app_worker_claim_owner_notifications (V90).                 *)

AttemptsLeft(n) == attempts[n] < (requeues[n] + 1) * MaxSafeDeliveryAttempts

Eligible(n) == /\ status[n] \in {"queued", "failed"}
               /\ n \in due
               /\ AttemptsLeft(n)

ClaimBatch(w) ==
    /\ phase[w] = "recover"
    /\ expired[w] = {}
    /\ \E S \in SUBSET {n \in Notifications : Eligible(n)} :
         /\ Cardinality(S) <= BatchLimit
         /\ (\E n \in Notifications : Eligible(n)) => S # {}
         /\ status' = [n \in Notifications |-> IF n \in S THEN "delivering" ELSE status[n]]
         /\ code' = [n \in Notifications |-> IF n \in S THEN "none" ELSE code[n]]
         /\ attempts' = [n \in Notifications |-> IF n \in S THEN attempts[n] + 1 ELSE attempts[n]]
         /\ token' = [n \in Notifications |-> IF n \in S THEN attempts[n] + 1 ELSE token[n]]
         /\ live' = live \cup S
         /\ dispatched' = dispatched \ S
         /\ ledger' = [n \in Notifications |->
                         IF n \in S THEN Append(ledger[n], "leased") ELSE ledger[n]]
         /\ batch' = [batch EXCEPT ![w] =
              {[n |-> n, token |-> attempts[n] + 1, requeues |-> requeues[n]] : n \in S}]
    /\ phase' = [phase EXCEPT ![w] = "batch"]
    /\ UNCHANGED <<due, providerCols, cycleCols, actions, events, expired, cur, resp,
                   twilio, crashes>>

(* The batch is exhausted.                                                 *)
FinishRun(w) ==
    /\ phase[w] = "batch"
    /\ batch[w] = {}
    /\ EndRun(w)
    /\ UNCHANGED <<rowVars, ledger, actions, events, twilio, crashes>>

-----------------------------------------------------------------------------
(* One claimed row.  Every repository error ends the whole run and leaves  *)
(* the rest of the batch leased until its leases expire.                   *)

(* Mutant: a row whose claim was cleared counts as still owned.            *)
OwnsClearedClaim(c) == token[c.n] \in {0, c.token}

OwnsClaim(c) == status[c.n] = "delivering" /\ token[c.n] = c.token

(* completeWithoutProvider; ErrClaimLost aborts the run.                   *)
CompleteWithoutProvider(w, c, st, outcome, cd) ==
    /\ \/ /\ OwnsClaim(c)
          /\ Settle(c.n, st, cd)
          /\ FinishAttempt(c.n, c.token, outcome)
          /\ due' = IF st = "failed" THEN due \ {c.n} ELSE due
          /\ Processed(w, c)
       \/ /\ ~OwnsClaim(c)
          /\ EndRun(w)
          /\ UNCHANGED <<status, code, claimCols, due, ledger>>
    /\ UNCHANGED <<attempts, providerCols, cycleCols, actions, events, twilio, crashes>>

LastAttemptInCycle(c) ==
    DeliveryAttemptInCycle(c.token, c.requeues) >= MaxSafeDeliveryAttempts

RecordSafeFailure(w, c, cd) ==
    \/ /\ LastAttemptInCycle(c)
       /\ CompleteWithoutProvider(w, c, "dead_letter", "dead_letter", cd)
    \/ /\ ~LastAttemptInCycle(c)
       /\ CompleteWithoutProvider(w, c, "failed", "safe_retry", cd)

(* The salon's channel is disabled, or it cannot be resolved.              *)
ChannelUnavailable(w, c) ==
    /\ phase[w] = "batch"
    /\ \/ CompleteWithoutProvider(w, c, "disabled", "disabled", "OWNER_SMS_DISABLED")
       \/ RecordSafeFailure(w, c, "DELIVERY_CONFIG_NOT_READY")

DispatchAllowed(c) == OwnsClaim(c) /\ c.n \in live

MarkDispatchStarted(w, c) ==
    /\ phase[w] = "batch"
    /\ \/ /\ DispatchAllowed(c)
          /\ dispatched' = dispatched \cup {c.n}
          /\ phase' = [phase EXCEPT ![w] = "send"]
          /\ batch' = [batch EXCEPT ![w] = @ \ {c}]
          /\ cur' = [cur EXCEPT ![w] = c]
          /\ UNCHANGED <<expired, resp>>
       \/ /\ ~DispatchAllowed(c)
          /\ EndRun(w)
          /\ UNCHANGED dispatched
    /\ UNCHANGED <<status, code, attempts, due, token, live, providerCols, cycleCols,
                   ledger, actions, events, twilio, crashes>>

(* Sender.Send.  A request that never left, or a non-2xx answer, is taken  *)
(* as proof that no message exists; a transport or parsing error is not.   *)
Send(w) ==
    /\ phase[w] = "send"
    /\ phase' = [phase EXCEPT ![w] = "record"]
    /\ \/ \E answer \in {"retryable", "rejected", "ambiguous"} :
            /\ resp' = [resp EXCEPT ![w] = answer]
            /\ UNCHANGED twilio
       \/ \E s \in TwilioStatuses :
            /\ twilio' = twilio \cup {<<cur[w].n, cur[w].token, s>>}
            /\ \E answer \in {s, "ambiguous"} : resp' = [resp EXCEPT ![w] = answer]
    /\ UNCHANGED <<rowVars, ledger, actions, events, expired, batch, cur, crashes>>

RecordProviderResult(w, c, s) ==
    /\ \/ /\ OwnsClaim(c)
          /\ Settle(c.n, TwilioDelivery[s], ProviderCode(s))
          /\ msg' = [msg EXCEPT ![c.n] = c.token]
          /\ rank' = [rank EXCEPT ![c.n] = TwilioRank[s]]
          /\ FinishAttempt(c.n, c.token, ProviderOutcome[s])
          /\ Processed(w, c)
       \/ /\ ~OwnsClaim(c)
          /\ EndRun(w)
          /\ UNCHANGED <<status, code, claimCols, providerCols, ledger>>
    /\ UNCHANGED <<attempts, due, cycleCols, actions, events, twilio, crashes>>

(* The processor's classification of the answer.                           *)
RecordOutcome(w) ==
    /\ phase[w] = "record"
    /\ \/ /\ resp[w] = "ambiguous"
          /\ CompleteWithoutProvider(w, cur[w], "dead_letter", "outcome_unknown",
                                     "DELIVERY_OUTCOME_UNKNOWN")
       \/ /\ resp[w] = "retryable"
          /\ RecordSafeFailure(w, cur[w], "DELIVERY_REQUEST_INVALID")
       \/ /\ resp[w] = "rejected"
          /\ CompleteWithoutProvider(w, cur[w], "dead_letter", "dead_letter",
                                     "TWILIO_MESSAGE_REJECTED")
       \/ /\ resp[w] \in TwilioStatuses
          /\ RecordProviderResult(w, cur[w], resp[w])

-----------------------------------------------------------------------------
(* Status callbacks, owner requeue and redaction.                          *)

(* Twilio has been through status s with the message of attempt k.  Any    *)
(* status it has been through may be reported late, repeatedly or never.   *)
Reported(n, k, s) ==
    \E t \in TwilioStatuses :
        /\ <<n, k, t>> \in twilio
        /\ s = t \/ TwilioRank[s] < TwilioRank[t]

ApplyProviderCallback(n, k, s) ==
    /\ Reported(n, k, s)
    /\ msg[n] = k
    /\ <<n, k, s>> \notin events
    /\ events' = events \cup {<<n, k, s>>}
    /\ \/ /\ TwilioRank[s] > rank[n]
          /\ status' = [status EXCEPT ![n] = TwilioDelivery[s]]
          /\ code' = [code EXCEPT ![n] = ProviderCode(s)]
          /\ rank' = [rank EXCEPT ![n] = TwilioRank[s]]
          /\ ledger' = [ledger EXCEPT ![n] = [@ EXCEPT ![k] = ProviderOutcome[s]]]
       \/ /\ TwilioRank[s] <= rank[n]
          /\ UNCHANGED <<status, code, rank, ledger>>
    /\ UNCHANGED <<attempts, due, claimCols, msg, cycleCols, actions, workVars,
                   twilio, crashes>>

Requeueable(n) == /\ n \notin redacted
                  /\ status[n] = "dead_letter"
                  /\ code[n] # "DELIVERY_OUTCOME_UNKNOWN"

RequeueForOwner(n, key) ==
    /\ \A m \in Notifications : <<key, m>> \notin actions
    /\ Requeueable(n)
    /\ Settle(n, "queued", "none")
    /\ due' = due \cup {n}
    /\ msg' = [msg EXCEPT ![n] = 0]
    /\ rank' = [rank EXCEPT ![n] = 0]
    /\ requeues' = [requeues EXCEPT ![n] = @ + 1]
    /\ cycleBase' = [cycleBase EXCEPT ![n] = attempts[n]]
    /\ actions' = actions \cup {<<key, n>>}
    /\ UNCHANGED <<attempts, redacted, ledger, events, workVars, twilio, crashes>>

(* scheduling_retention redacts a settled row's message body.              *)
RedactNextOwnerNotification(n) ==
    /\ n \notin redacted
    /\ status[n] \in {"delivered", "dead_letter", "disabled"}
    /\ token[n] = 0
    /\ redacted' = redacted \cup {n}
    /\ UNCHANGED <<status, code, attempts, due, claimCols, providerCols, requeues,
                   cycleBase, ledger, actions, events, workVars, twilio, crashes>>

-----------------------------------------------------------------------------
(* Time, the provider and crashes.                                         *)

LeaseExpires(n) ==
    /\ n \in live
    /\ live' = live \ {n}
    /\ UNCHANGED <<status, code, attempts, due, token, dispatched, providerCols,
                   cycleCols, ledger, actions, events, workVars, twilio, crashes>>

(* next_delivery_at (SafeRetryDelay after the failure) is reached.         *)
BecomesDue(n) ==
    /\ n \notin due
    /\ due' = due \cup {n}
    /\ UNCHANGED <<status, code, attempts, claimCols, providerCols, cycleCols,
                   ledger, actions, events, workVars, twilio, crashes>>

TwilioProgress(n, k, s) ==
    /\ \E t \in TwilioStatuses :
         /\ <<n, k, t>> \in twilio
         /\ TwilioRank[s] > TwilioRank[t]
         /\ twilio' = (twilio \ {<<n, k, t>>}) \cup {<<n, k, s>>}
    /\ UNCHANGED <<rowVars, ledger, actions, events, workVars, crashes>>

(* The process dies, its context is cancelled, or a transaction fails.     *)
Crash(w) ==
    /\ crashes < MaxCrashes
    /\ phase[w] # "idle"
    /\ EndRun(w)
    /\ crashes' = crashes + 1
    /\ UNCHANGED <<rowVars, ledger, actions, events, twilio>>

Worker(w) ==
    \/ DiscoverExpiredLeases(w)
    \/ \E x \in expired[w] : RecoverExpiredLease(w, x)
    \/ ClaimBatch(w)
    \/ FinishRun(w)
    \/ \E c \in batch[w] : ChannelUnavailable(w, c)
    \/ \E c \in batch[w] : MarkDispatchStarted(w, c)
    \/ Send(w)
    \/ RecordOutcome(w)

Row(n) ==
    \/ \E key \in ActionKeys : RequeueForOwner(n, key)
    \/ RedactNextOwnerNotification(n)
    \/ LeaseExpires(n)
    \/ BecomesDue(n)
    \/ \E k \in 1..attempts[n], s \in TwilioStatuses : ApplyProviderCallback(n, k, s)
    \/ \E k \in 1..attempts[n], s \in TwilioStatuses : TwilioProgress(n, k, s)

Next ==
    \/ \E w \in Workers : Worker(w) \/ Crash(w)
    \/ \E n \in Notifications : Row(n)

Spec == Init /\ [][Next]_vars

(* The worker job runs every 15 seconds, so a worker that can step does;   *)
(* time passes, so leases run out and delayed retries become due.  Nothing *)
(* is assumed of Twilio's callbacks or of the owner.                       *)
Fairness ==
    /\ \A w \in Workers : WF_vars(Worker(w))
    /\ \A n \in Notifications : WF_vars(LeaseExpires(n)) /\ WF_vars(BecomesDue(n))

FairSpec == Spec /\ Fairness
-----------------------------------------------------------------------------
(* Properties.                                                             *)

(* Every column, ledger and worker memory holds a value of its type, and   *)
(* the attempt ledger has one entry per claim the row ever had.            *)
TypeOK ==
    /\ status \in [Notifications -> DeliveryStatuses]
    /\ code \in [Notifications -> Codes]
    /\ attempts \in [Notifications -> Nat]
    /\ requeues \in [Notifications -> Nat]
    /\ token \in [Notifications -> Nat]
    /\ msg \in [Notifications -> Nat]
    /\ rank \in [Notifications -> 0..50]
    /\ cycleBase \in [Notifications -> Nat]
    /\ due \subseteq Notifications
    /\ live \subseteq Notifications
    /\ dispatched \subseteq Notifications
    /\ redacted \subseteq Notifications
    /\ ledger \in [Notifications -> Seq(Outcomes)]
    /\ \A n \in Notifications : Len(ledger[n]) = attempts[n]
    /\ actions \subseteq (ActionKeys \X Notifications)
    /\ events \subseteq (Notifications \X Nat \X TwilioStatuses)
    /\ phase \in [Workers -> Phases]
    /\ expired \in [Workers -> SUBSET ExpiredLease]
    /\ batch \in [Workers -> SUBSET Claim]
    /\ cur \in [Workers -> Claim \cup {NoClaim}]
    /\ resp \in [Workers -> Answers]
    /\ twilio \subseteq (Notifications \X Nat \X TwilioStatuses)
    /\ crashes \in 0..MaxCrashes

(* Twilio holds a message of attempt k that may reach, or has reached, the *)
(* owner's phone.                                                          *)
OnItsWay(n, k) == \E s \in TwilioStatuses \ {"undelivered"} : <<n, k, s>> \in twilio

(* The owner is never texted twice for one notification: of all messages   *)
(* Twilio ever accepted for it, at most one has not terminally failed.     *)
(* This is what the dispatch marker, the token fence of every record, the  *)
(* unknown-outcome dead letter and the requeue guard are together for.     *)
NoDuplicateSms ==
    \A n \in Notifications : \A j, k \in 1..attempts[n] :
        OnItsWay(n, j) /\ OnItsWay(n, k) => j = k

(* A row the owner may requeue has no message at Twilio that could still   *)
(* be delivered, although RequeueForOwner looks only at status and code.   *)
RequeueIsSafe ==
    \A n \in Notifications : Requeueable(n) =>
        \A k \in 1..attempts[n] : ~OnItsWay(n, k)

(* The attempt ledger has an open ('leased') entry exactly for the claim   *)
(* the row is delivering under: no transaction that takes a row out of     *)
(* 'delivering' forgets its attempt, and none closes another's.            *)
OpenAttemptIsTheClaim ==
    \A n \in Notifications : \A k \in 1..attempts[n] :
        ledger[n][k] = "leased" <=> status[n] = "delivering" /\ token[n] = k

(* A redacted body is never sent: retention redacts only rows that nothing *)
(* can claim, requeue or be in the middle of sending any more, except an   *)
(* unknown outcome whose stalled sender read the body before.              *)
RedactedNeverClaimed ==
    \A n \in redacted : status[n] \notin {"queued", "failed", "delivering"}

(* What the owner sees is true: 'delivered' only if Twilio delivered the   *)
(* message the row names, whatever order callbacks came in.                *)
DeliveredIsTrue ==
    \A n \in Notifications : status[n] = "delivered" =>
        <<n, msg[n], "delivered">> \in twilio

(* A delivered row stays delivered: no late callback, lease recovery,      *)
(* stale worker or requeue moves it.                                       *)
DeliveredIsFinal ==
    [][\A n \in Notifications : status[n] = "delivered" => status'[n] = "delivered"]_vars

Unknown(n) == status[n] = "dead_letter" /\ code[n] = "DELIVERY_OUTCOME_UNKNOWN"

(* Once a row is dead-lettered with an unknown outcome it stays so, and no *)
(* attempt is ever made for it again.                                      *)
UnknownIsNeverRetried ==
    [][\A n \in Notifications : Unknown(n) => Unknown(n)' /\ attempts'[n] = attempts[n]]_vars

(* Every row leaves the work states, or is 'failed' with its attempts used *)
(* up: no crash, lost claim or aborted batch leaves it leased for good.    *)
EventuallySettled ==
    \A n \in Notifications :
        status[n] \in {"queued", "delivering", "failed"} ~>
            \/ status[n] \notin {"queued", "delivering", "failed"}
            \/ status[n] = "failed" /\ ~AttemptsLeft(n)

(* The row tells the truth of its claim, of its message and of its body.   *)
RowTellsTheTruth == OpenAttemptIsTheClaim /\ RedactedNeverClaimed /\ DeliveredIsTrue

(* What is settled stays settled, for a delivery and for an unknown        *)
(* outcome, whatever a late callback, a stale worker or the owner does.    *)
SettledStays == DeliveredIsFinal /\ UnknownIsNeverRetried

-----------------------------------------------------------------------------
(* The inductive invariant behind NoDuplicateSms.                          *)

InFlight(w) == phase[w] \in {"send", "record"}

ClaimShape ==
    \A n \in Notifications :
        IF status[n] = "delivering"
        THEN token[n] = attempts[n] /\ attempts[n] > 0
        ELSE token[n] = 0 /\ n \notin dispatched

MessageShape ==
    \A n \in Notifications :
        /\ status[n] \in {"provider_accepted", "sent", "delivered"} => msg[n] # 0
        /\ msg[n] # 0 => /\ msg[n] = attempts[n]
                         /\ status[n] \in {"provider_accepted", "sent", "delivered", "dead_letter"}
                         /\ ~Unknown(n)

OneMessagePerAttempt ==
    /\ \A m \in twilio : m[2] \in 1..attempts[m[1]]
    /\ \A n \in Notifications : \A k \in 1..attempts[n] : \A s, t \in TwilioStatuses :
         <<n, k, s>> \in twilio /\ <<n, k, t>> \in twilio => s = t

(* Every claim is held by at most one worker, once.                        *)
ClaimsAreUnique ==
    \A v, w \in Workers :
        /\ \A c \in batch[v], d \in batch[w] :
             c.n = d.n /\ c.token = d.token => v = w /\ c = d
        /\ InFlight(v) => \A d \in batch[w] : ~(cur[v].n = d.n /\ cur[v].token = d.token)
        /\ InFlight(v) /\ InFlight(w) /\ cur[v].n = cur[w].n /\ cur[v].token = cur[w].token
             => v = w

(* A claim not begun yet is not dispatched.                                *)
BatchNotDispatched ==
    \A w \in Workers : \A c \in batch[w] :
        /\ c.token \in 1..attempts[c.n]
        /\ OwnsClaim(c) => c.n \notin dispatched

(* A worker past the dispatch marker either still owns its claim, marked,  *)
(* or has lost it to lease recovery, which made the outcome unknown.       *)
SenderIsFenced ==
    \A w \in Workers : InFlight(w) =>
        /\ cur[w] \in Claim
        /\ cur[w].token = attempts[cur[w].n] /\ cur[w].token > 0
        /\ \/ OwnsClaim(cur[w]) /\ cur[w].n \in dispatched
           \/ Unknown(cur[w].n)

(* What a worker was answered agrees with what Twilio holds.               *)
AnswerIsTrue ==
    \A w \in Workers :
        /\ phase[w] = "send" \/ (phase[w] = "record" /\ resp[w] \in {"retryable", "rejected"})
             => \A s \in TwilioStatuses : <<cur[w].n, cur[w].token, s>> \notin twilio
        /\ phase[w] = "record" /\ resp[w] \in TwilioStatuses
             => Reported(cur[w].n, cur[w].token, resp[w])

OnItsWayIsKnown ==
    \A n \in Notifications : \A k \in 1..attempts[n] : OnItsWay(n, k) =>
        /\ k = attempts[n]
        /\ \/ Unknown(n)
           \/ status[n] = "delivering" /\ n \in dispatched
           \/ msg[n] = k /\ status[n] \in {"provider_accepted", "sent", "delivered"}

(* A message of the claim a row is delivering under is marked dispatched.  *)
SentIsMarked ==
    \A m \in twilio : status[m[1]] = "delivering" /\ token[m[1]] = m[2]
        => m[1] \in dispatched

SmsInv ==
    /\ ClaimShape
    /\ MessageShape
    /\ OneMessagePerAttempt
    /\ ClaimsAreUnique
    /\ BatchNotDispatched
    /\ SenderIsFenced
    /\ AnswerIsTrue
    /\ OnItsWayIsKnown
    /\ SentIsMarked
=============================================================================
