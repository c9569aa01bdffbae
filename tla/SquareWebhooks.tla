---------------------------- MODULE SquareWebhooks ----------------------------
(***************************************************************************)
(* How a change that somebody makes at Square reaches the salon's calendar *)
(* (modules/pos_square: webhook, webhook_repository, webhook_processor,    *)
(* webhook_operations): Square's notifications, the inbox of events, the   *)
(* worker that answers each event with a synchronization of the days       *)
(* around it, the scheduled repair of the days ahead, and the operator's   *)
(* requeue.  One salon, one booking; days count from today, which is 0.    *)
(*                                                                         *)
(* Square names an event after the version of the booking it announces.    *)
(* It may deliver an event late, twice or never.                           *)
(***************************************************************************)
EXTENDS Integers, FiniteSets

CONSTANTS
    HookDays,               \* days the booking may be on
    RepairDays,         \* the scheduled repair looks this many days ahead (90)
    HookWorkers,        \* workers that process events
    MaxHookAttempts,    \* MaxWebhookAttemptsPerCycle
    MaxHookRequeues,    \* MaxWebhookRequeues
    HookKeys,           \* action keys of operators
    MaxChanges,         \* bound on the versions of the booking
    MaxGenerations,     \* bound on the connection's snapshots
    MaxRepairs          \* bound on the scheduled repairs

ASSUME HookConstants ==
    /\ HookDays \subseteq Nat /\ HookDays # {} /\ RepairDays \in Nat
    /\ "repair" \notin HookWorkers
    /\ MaxHookAttempts \in Nat \ {0} /\ MaxHookRequeues \in Nat
    /\ MaxChanges \in Nat \ {0} /\ MaxGenerations \in Nat \ {0} /\ MaxRepairs \in Nat

VARIABLES
    square,        \* the booking at Square: version, day, whether what is listed of it
                   \* has what a calendar needs, and whether its id is that of an
                   \* appointment of another authority here
    announced,     \* the day each version was announced with, or NoDay
    hookFence,     \* pos_connections: status and snapshot_generation
    hook,          \* square_booking_webhook_events, by version
    hookActions,   \* square_booking_webhook_actions: key and event
    repairState,   \* square_calendar_repair_state
    hookRun,       \* what each worker is doing; "repair" is the repair's worker
    mirror         \* the version of the booking in the salon's calendar

hookVars == <<square, announced, hookFence, hook, hookActions, repairState, hookRun, mirror>>

NoDay == -1
HookEvents == 1 .. MaxChanges
HookRunners == HookWorkers \cup {"repair"}
NoHook == [status |-> "none"]
IdleHookRun == [phase |-> "idle"]

-----------------------------------------------------------------------------
(* Square and the connection. *)

\* Square may leave the start out of what it announces.
BookingChanges(d, fit, told) ==
    /\ square.version < MaxChanges
    /\ square' = [square EXCEPT !.version = @ + 1, !.day = d, !.fit = fit]
    /\ announced' = [announced EXCEPT ![square.version + 1] = IF told THEN d ELSE NoDay]
    /\ UNCHANGED <<hookFence, hook, hookActions, repairState, hookRun, mirror>>

\* A new snapshot of the provider begins; when it ends the connection is usable, or in
\* error until the next one.
ConnectionChanges ==
    /\ \/ /\ hookFence.generation < MaxGenerations
          /\ hookFence' = [status |-> "syncing", generation |-> hookFence.generation + 1]
       \/ hookFence.status = "syncing" /\ \E st \in {"active", "error"} : hookFence' = [hookFence EXCEPT !.status = st]
    /\ UNCHANGED <<square, announced, hook, hookActions, repairState, hookRun, mirror>>

-----------------------------------------------------------------------------
(* The inbox. *)

\* squareWebhookTargetConnectionStatuses: a connection that is being
\* synchronized, or that failed to be, still takes events.
TargetStatuses == {"connected", "syncing", "active", "error", "expired_token"}
WebhookTarget == hookFence.status \in TargetStatuses

\* EnqueueBookingWebhook: an event that is in the inbox is a duplicate.
ReceiveBookingWebhook(v) ==
    /\ v <= square.version /\ WebhookTarget
    /\ hook[v] = NoHook
    /\ hook' = [hook EXCEPT ![v] = [status |-> "pending", attempts |-> 0, requeues |-> 0,
                                    token |-> 0, live |-> FALSE, error |-> "none"]]
    /\ UNCHANGED <<square, announced, hookFence, hookActions, repairState, hookRun, mirror>>

InboxOnly == UNCHANGED <<square, announced, hookFence, repairState, mirror>>

HookExhausted(e) == e.attempts >= (e.requeues + 1) * MaxHookAttempts
OwnedByNobody(e) == e.status \in {"pending", "failed"} \/ (e.status = "processing" /\ ~ e.live)

\* app_worker_claim_square_booking_webhooks: what has no attempts left goes to the
\* dead letters, and the first event that is due is claimed, in one statement.
\* The delay of a failed event may be over at any time.
HookDue == {v \in HookEvents : hook[v] # NoHook /\ OwnedByNobody(hook[v])}
HookDeadLettered(e) ==
    [e EXCEPT !.status = "dead_letter", !.token = 0, !.live = FALSE, !.error = "exhausted"]
ClaimedEvent(e) ==
    [e EXCEPT !.status = "processing", !.attempts = @ + 1, !.token = e.attempts + 1,
              !.live = TRUE, !.error = "none"]

ClaimBookingWebhook(w) ==
    LET spent == {v \in HookDue : HookExhausted(hook[v])}
        swept(v) == IF v \in spent THEN HookDeadLettered(hook[v]) ELSE hook[v]
    IN  /\ hookRun[w] = IdleHookRun
        /\ \/ \E v \in HookDue \ spent :
                /\ hook' = [u \in HookEvents |-> IF u = v THEN ClaimedEvent(hook[v]) ELSE swept(u)]
                /\ hookRun' = [hookRun EXCEPT ![w] =
                      [phase |-> "claimed", event |-> v, token |-> hook[v].attempts + 1,
                       generation |-> 0, seen |-> 0, ok |-> FALSE]]
           \/ /\ spent # {}
              /\ hook' = [u \in HookEvents |-> swept(u)]
              /\ UNCHANGED hookRun
        /\ InboxOnly /\ UNCHANGED hookActions

-----------------------------------------------------------------------------
(* The synchronization. *)

scheduledCalendarRepairRange == -1 .. RepairDays
webhookCalendarRepairRange(v) ==
    IF announced[v] = NoDay THEN scheduledCalendarRepairRange
    ELSE announced[v] - 1 .. announced[v] + 1

RunRange(r) ==
    IF r.event = 0 THEN scheduledCalendarRepairRange ELSE webhookCalendarRepairRange(r.event)

\* SyncCalendar reads the fence, and then the bookings of the range.  The adapter
\* refuses a connection that no longer has that fence, which is one of the ways the
\* listing fails.  A booking without a start or an end is passed over, by the adapter or
\* by the service, and the synchronization goes on (seen is 0).
FenceHolds(r) == hookFence.status = "active" /\ hookFence.generation = r.generation

ListAppointments(w) ==
    /\ hookRun[w].phase = "claimed"
    /\ \/ /\ hookFence.status = "active"
          /\ hookRun' = [hookRun EXCEPT ![w] =
                [@ EXCEPT !.phase = "listed", !.generation = hookFence.generation,
                          !.seen = IF square.day \in RunRange(hookRun[w]) /\ square.fit
                                   THEN square.version ELSE 0]]
       \/ hookRun' = [hookRun EXCEPT ![w] = [@ EXCEPT !.phase = "synced"]]
    /\ InboxOnly /\ UNCHANGED <<hook, hookActions>>

\* UpsertCalendarAppointments skips a version older than the row's, and a booking whose
\* id is that of an appointment of another authority.  It may fail, and so may what
\* follows it (CompleteCalendarSyncLog).
StoreListing(w) ==
    /\ hookRun[w].phase = "listed"
    /\ \E stored, ok \in BOOLEAN :
         /\ ok => stored
         /\ stored => FenceHolds(hookRun[w])
         /\ mirror' = IF stored /\ ~ square.protected /\ hookRun[w].seen > mirror
                      THEN hookRun[w].seen ELSE mirror
         /\ hookRun' = [hookRun EXCEPT ![w] =
                          [@ EXCEPT !.phase = "synced", !.ok = ok, !.generation = 0, !.seen = 0]]
    /\ UNCHANGED <<square, announced, hookFence, hook, hookActions, repairState>>

-----------------------------------------------------------------------------
(* The results. *)

HookFenced(r) == hook[r.event].status = "processing" /\ hook[r.event].token = r.token
HookSucceeded(e) ==
    [e EXCEPT !.status = "succeeded", !.token = 0, !.live = FALSE, !.error = "none"]
HookFailed(e) ==
    IF HookExhausted(e) THEN HookDeadLettered(e)
    ELSE [e EXCEPT !.status = "failed", !.token = 0, !.live = FALSE, !.error = "dependency"]

\* Mutant: the event is done whatever the synchronization said.
HookResultAlways(r) == HookSucceeded(hook[r.event])

HookResult(r) == IF r.ok THEN HookSucceeded(hook[r.event]) ELSE HookFailed(hook[r.event])

\* A claim that was lost records nothing.
CompleteBookingWebhook(w) ==
    /\ w \in HookWorkers /\ hookRun[w].phase = "synced"
    /\ hook' = IF HookFenced(hookRun[w])
               THEN [hook EXCEPT ![hookRun[w].event] = HookResult(hookRun[w])] ELSE hook
    /\ hookRun' = [hookRun EXCEPT ![w] = IdleHookRun]
    /\ InboxOnly /\ UNCHANGED hookActions

\* The worker stops; the lease of its event ends.
HookWorkerStops(w) ==
    /\ hookRun[w] # IdleHookRun
    /\ hookRun' = [hookRun EXCEPT ![w] = IdleHookRun]
    /\ InboxOnly /\ UNCHANGED <<hook, hookActions>>

HookLeaseEnds(v) ==
    /\ hook[v] # NoHook /\ hook[v].live
    /\ hook' = [hook EXCEPT ![v].live = FALSE]
    /\ InboxOnly /\ UNCHANGED <<hookRun, hookActions>>

-----------------------------------------------------------------------------
(* The scheduled repair, one at a time under a lease. *)

ClaimCalendarRepairTargets ==
    /\ hookRun["repair"] = IdleHookRun
    /\ hookFence.status = "active" /\ repairState.due /\ ~ repairState.live
    /\ repairState.token < MaxRepairs
    /\ repairState' = [due |-> FALSE, live |-> TRUE, token |-> repairState.token + 1]
    /\ hookRun' = [hookRun EXCEPT !["repair"] =
          [phase |-> "claimed", event |-> 0, token |-> repairState.token + 1,
           generation |-> 0, seen |-> 0, ok |-> FALSE]]
    /\ UNCHANGED <<square, announced, hookFence, hook, hookActions, mirror>>

\* Six hours after a success, fifteen minutes after a failure.
CompleteCalendarRepair ==
    /\ hookRun["repair"].phase = "synced"
    /\ repairState' = IF repairState.token = hookRun["repair"].token
                      THEN [repairState EXCEPT !.live = FALSE, !.due = FALSE] ELSE repairState
    /\ hookRun' = [hookRun EXCEPT !["repair"] = IdleHookRun]
    /\ UNCHANGED <<square, announced, hookFence, hook, hookActions, mirror>>

\* The lease and the delay are both five minutes for a repair that does not end.
RepairTimePasses ==
    /\ repairState.live \/ ~ repairState.due
    /\ repairState' = [repairState EXCEPT !.live = FALSE, !.due = TRUE]
    /\ UNCHANGED <<square, announced, hookFence, hook, hookActions, hookRun, mirror>>

-----------------------------------------------------------------------------
(* The operator's requeue. *)

\* setWebhookRequeueState shows what requeueBookingWebhookForSalon accepts.
CanRequeue(e) ==
    /\ e.status = "dead_letter" \/ (e.status = "failed" /\ HookExhausted(e))
    /\ e.error # "none" /\ e.requeues < MaxHookRequeues

\* A key that was used replays its answer, or conflicts if it was for another event.
RequeueBookingWebhook(v, k) ==
    /\ \A a \in hookActions : a.key # k
    /\ hook[v] # NoHook /\ CanRequeue(hook[v])
    /\ hook' = [hook EXCEPT ![v] =
                  [@ EXCEPT !.status = "pending", !.token = 0, !.live = FALSE,
                            !.error = "none", !.requeues = hook[v].requeues + 1]]
    /\ hookActions' = hookActions \cup {[key |-> k, event |-> v]}
    /\ InboxOnly /\ UNCHANGED hookRun

-----------------------------------------------------------------------------
HookInit ==
    /\ \E d \in HookDays, fit, protected, told \in BOOLEAN :
         /\ square = [version |-> 1, day |-> d, fit |-> fit, protected |-> protected]
         /\ announced = [v \in HookEvents |-> IF told THEN d ELSE NoDay]
    /\ hookFence = [status |-> "active", generation |-> 1]
    /\ hook = [v \in HookEvents |-> NoHook]
    /\ hookActions = {}
    /\ repairState = [due |-> TRUE, live |-> FALSE, token |-> 0]
    /\ hookRun = [w \in HookRunners |-> IdleHookRun]
    /\ mirror = 0

HookNext ==
    \/ \E d \in HookDays, fit, told \in BOOLEAN : BookingChanges(d, fit, told)
    \/ ConnectionChanges
    \/ \E v \in HookEvents : ReceiveBookingWebhook(v) \/ HookLeaseEnds(v)
    \/ \E v \in HookEvents, k \in HookKeys : RequeueBookingWebhook(v, k)
    \/ \E w \in HookWorkers : ClaimBookingWebhook(w) \/ CompleteBookingWebhook(w)
    \/ \E w \in HookRunners : ListAppointments(w) \/ StoreListing(w) \/ HookWorkerStops(w)
    \/ ClaimCalendarRepairTargets \/ CompleteCalendarRepair \/ RepairTimePasses

HookSpec == HookInit /\ [][HookNext]_hookVars

-----------------------------------------------------------------------------
HookTypeOK ==
    /\ square.version \in HookEvents /\ square.day \in HookDays
    /\ square.fit \in BOOLEAN /\ square.protected \in BOOLEAN
    /\ announced \in [HookEvents -> HookDays \cup {NoDay}]
    /\ hookFence.status \in TargetStatuses /\ hookFence.generation \in 1 .. MaxGenerations
    /\ \A v \in HookEvents : hook[v] # NoHook =>
         /\ hook[v].status \in {"pending", "processing", "succeeded", "failed", "dead_letter"}
         /\ (hook[v].status = "processing") = (hook[v].token # 0)
         /\ hook[v].live => hook[v].status = "processing"
         /\ hook[v].requeues \in 0 .. MaxHookRequeues
         /\ hook[v].attempts <= (hook[v].requeues + 1) * MaxHookAttempts
    /\ mirror \in 0 .. square.version
    /\ \A w \in HookRunners : hookRun[w] = IdleHookRun \/
         hookRun[w].phase \in {"claimed", "listed", "synced"}

\* What the calendar can hold of the booking as it is: it has its times, its row is not
\* another authority's, and an event without a start is answered only with the days of
\* the scheduled repair.
Importable(v) ==
    /\ square.fit /\ ~ square.protected
    /\ announced[v] # NoDay \/ square.day <= RepairDays

\* An event that was processed has reached the calendar: whatever the order of the
\* events, the leases that ended and the snapshots taken in between, the calendar
\* holds the version it announced or a later one, unless the booking has changed
\* again at Square, and then the later event is still owed, or the synchronization
\* passes the booking over and counts as a success all the same.
ProcessedIsMirrored ==
    \A v \in HookEvents : hook[v].status = "succeeded" =>
        mirror >= v \/ square.version > v \/ ~ Importable(v)
=============================================================================
