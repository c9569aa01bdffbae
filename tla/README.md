# TLA+ verification of the AI receptionist backend

The repository is a multi-tenant backend (Go, PostgreSQL, Redis) for nail
salons: it answers calls and messages, finds a time, books it with the salon's
scheduling authority (Square, an internal calendar, or the owner by hand), and
tells owner and customer by SMS. Its hard parts are of a few kinds: rows that
several replicas claim under leases, calls to providers whose answer may be
lost, synchronization that arrives late, dialogues whose premises change between
the question and the answer, and policies that are switched while work is under
way. This directory models them, checks the models with TLC and proves the main
properties with TLAPS.

`PROJECT.json` lists components, runs, mutants, the map from definitions to
source lines, findings, hazards and theorems. A helper whose lines lie inside
the entry of its caller is not listed in the map on its own.

## 1. Inventory

| Part | State | Operations | Talks to | What is hard | What makes it correct |
|---|---|---|---|---|---|
| Owner notifications (`notification_delivery`) | outbox row with status, claim token, lease, dispatch marker, provider message; attempt ledger; events | recover leases, claim batch, mark dispatch, send, record, callback, requeue | Twilio, retention, worker | stale workers, a crash around the send, late callbacks, requeues | one live text per notification; the status shown is true; nothing is stuck |
| Customer notifications (`customer_notification`) | outbox, consent, opt-outs, quiet hours | enqueue, claim, check, send, record, STOP, START, requeue | Twilio, appointments | STOP racing a send, duplicated inbound messages | a text per change, on a consent that stands at the dispatch marker; a STOP is overtaken by no more than what was marked before it |
| Twilio messaging (`notification_twilio`) | none | send, map statuses, callbacks | the outboxes | ambiguous answers | a failure is definitive only if Twilio did not accept |
| External booking (`booking`) | attempts, leases, slot claims, reconciliation tasks, mirrored appointments, quotes | quote, claim, start, dispatch, save, fall back, recover, resolve, import; for book, reschedule, cancel | provider, calendar sync, worker | lost answers, takeover of leases, replacement of claims, config changes | no double booking; a retry is offered only when safe; unknown outcomes reach a person |
| Worker jobs (`cmd/worker`, `operations_health`) | heartbeat row and run ledger per job | start, heartbeat, finish | every queue | late replicas, clocks, lock order | one healthy executor; fenced replicas change nothing; runs end |
| Internal calendar (`scheduling_manleai_calendar`) | configuration, appointments, segments, resource allocations, quotes, operations | configure, activate, quote, book, reschedule, cancel | scheduling core | quotes that are stale when used, edits in between, capacity | no staff member twice at a time; nobody is booked under a configuration that does not hold |
| Scheduling core, authority switch, booking mode (`scheduling`, `scheduling_authority_switch`, `scheduling_behavior`) | authority with its version, mode, switch runs | resolve, fence, preview, commit, set mode | all authorities | writes during a switch, stale evidence | one authority writes at a time, and a switch leaves nothing open |
| Owner-manual scheduling (`scheduling_owner_manual`) | review requests | submit, review, close | notifications | decisions racing with each other | a request is closed once |
| Square connection and catalogue (`pos`, `pos_square`) | connection, generations, imported records | authorize, choose location, import, archive | Square | snapshots that overlap | what is offered is of the newest snapshot and of this location |
| Square gate (`pos`, `pos_square`, `ai_runtime_control`) | capability evidence, readiness, AI switch | record evidence, test booking, report, enable | booking | evidence that is stale when used | automatic booking rests on evidence about the connection as it is |
| Square webhooks (`pos_square`) | event inbox with leases and dead letters | receive, claim, process, repair, replay | calendar sync | duplicates, reordering, lapsed leases | an event that counts as processed is in the calendar |
| Conversation (`conversation`) | session, draft, review, candidates, guidance, answer cache | take turn, extract, look up, review, execute, save | scheduling, AI | turns that die after executing, corrections, stale reads | what is executed is what was agreed; what is told happened |
| Voice sessions (`voice`) | session per call, routes | webhooks, turns, redaction | conversation | repeated webhooks, lost locks | a turn is applied once, to the right salon |
| Voice stream (`voice_twilio`, `voice_openai`) | bridge of one call: replies, playout, marks, timers | speech, transcripts, turns, barge-in, end | Twilio, OpenAI | results that arrive late | callers hear current answers and are not left in silence |
| Access (`access`, `auth`) | roles, assignments, support authorizations, PII grants, refresh tokens | assign, revoke, authorize, rotate | API | admission read before the lock, replayed tokens | the last administrator stays; nothing is allowed without backing |
| Tenants (`tenant_registration`, `tenant_provisioning`, `tenant_runtime`) | applications, salons, invitations, memberships, quotas | apply, review, provision, invite, accept, meter | salon | repeated review, rotated invitations | converted once; one owner; within limits |
| Salon configuration (`business`, `salon`, `training`, `integration_config`, `config_transfer`, `customer`) | versioned sections and records, transfers | edit, create, archive, preview, apply | every reader | several APIs, reads without a transaction | no lost update; what was previewed is applied |
| Retention (`scheduling_retention`, session retention) | due records | redact | outboxes, sessions | redacting what is in use | nothing redacted is sent or comes back |
| OpenAI verification, rate limiter, public catalogue | one row or counter | probe, allow, read | - | one atomic step each | - |
| API, middleware, tools, frontends | none of their own | - | - | - | - |

Interactions that matter for the models: the worker process runs one loop per
job, and each loop claims rows of its queue in PostgreSQL; deliveries and
bookings call a provider between two transactions; provider callbacks and
calendar synchronization write the same rows from the API process or another
loop; every scheduling write passes the fence of the salon's authority; a
conversation turn reads, executes and saves in separate transactions.

## 2. Modules

| Module | Models | Composed in |
|---|---|---|
| `NotificationDelivery` | the owner outbox with its workers, Twilio and redaction | `MCNotificationDelivery`, `MCWorkers` |
| `ExternalBooking` | `booking` for `book`: `Create`, slot claims, recovery, reconciliation, import | `MCExternalBooking`, `MCWorkers` |
| `AppointmentActions` | `booking` for `reschedule` and `cancel`, with replacement of claims | `MCAppointmentActions` |
| `JobLease` | one recurring job: scheduler, heartbeat goroutine, run ledger | `MCWorkers` |
| `InternalCalendar` | the calendar that the system keeps itself | `MCScheduling` |
| `AuthoritySwitch` | authority, booking mode, switch runs, router, the owner's queue | `MCScheduling` |
| `SlotLedger` | abstract: cells held by owners, none twice | refined by `InternalCalendar` |
| `VoiceStream`, `CallSessions` | a call's bridge; sessions, turns and routes | `MCChannels` |
| `CustomerSms`, `SquareWebhooks` | texts to customers; Square's events | `MCChannels` |
| `BookingDialogue`, `LifecycleDialogue` | booking, moving and cancelling by phone | `MCConversation` |
| `ServiceGuidance`, `AnswerContext`, `AvailabilityQuotes` | recommendation; what a turn knows; quotes and their claims | `MCConversation` |
| `SquareCatalog`, `SquareGate` | connection and import; evidence and automatic booking | `MCPlatform` |
| `AccessControl`, `Tenancy`, `SalonConfiguration` | operators; tenants; configuration and transfer | `MCPlatform` |
| `...Proofs` | theorems about the module of that name; `SchedulingProofs`, `ChannelsProofs`, `ConversationProofs` and `PlatformProofs` about the MC module of that name and each of its components | |

An MC module that has several components is their disjoint sum: the variable
`part` says which of them a behaviour is of, the others stand still, and TLC
explores the sum of the state spaces. Where two components really interact, the
interaction is inside one module (`InternalCalendar` has the switch of the
authority as an action, `ExternalBooking` has the import, `AuthoritySwitch` the
bookings that a switch must wait for).

A definition whose comment begins with "Mutant" is a plausible bug: substituted
for the definition after it, it must break the property it is listed with. It is
never part of a specification.

Everywhere: a repository method is one transaction on locked rows and one
action; anything that crosses a transaction (a provider call, an unlocked read, a
goroutine) is several. A request that is refused and writes nothing is no action.
Identifiers and keys that are all alike are taken in order, which is a symmetry
reduction. Instants, versions and counters are bounded by named constants.

### NotificationDelivery

State is one function or set per column of `owner_notifications`
(`status`, `code`, `attempts`, `requeues`, `token`, `msg`, `rank`, and the sets
`due`, `live`, `dispatched`, `redacted`), the ledgers (`ledger`, `actions`,
`events`), what each worker's `ProcessOnce` holds (`phase`, `expired`, `batch`,
`cur`, `resp`) and the messages Twilio accepted. A claim token is the number of
the attempt it was issued for. A worker can crash between any two transactions,
and a lease can run out at any time, in the middle of a batch too. `cycleBase` is
history.

Assumptions and abstractions: a non-2xx answer of Twilio proves that the message
was not accepted, any other failure may or may not have been; statuses Twilio
may report are kept with their ranks, an unknown one (rank 5) never changes a
row; a callback before `RecordProviderResult` finds no row and is lost; tenant
fairness and order of the claim are a choice of a non-empty subset; two replicas
may overlap (a job lease allows it, see `JobLease`); `disabled` is terminal;
retention's other conditions are a choice.

### ExternalBooking

State is one function or set per column of `booking_attempts`, the state of the
attempt's reconciliation task and slot claim, the memory of each call of
`Create` (`phase`, `work`, `resp`, the request it was given), mirrored
`appointments`, and the provider's own bookings. A call inserts at most one
attempt and an attempt makes at most one booking, so the call names both. Every
transaction takes the salon's calendar lock; `Create` is several of them with two
provider calls in between, and may stop or stall between any two.

Assumptions and abstractions: the authority stays `external_provider`; every
call has a fresh quote (`AvailabilityQuotes` has the quotes); `epoch` stands for
snapshot generation, capability evidence and configuration together; a booking's
version is the rank of its status, and enrichment at an equal version is left
out; the provider is *not* assumed to refuse overlaps, but it is idempotent per
key and its typed definitive rejection means that there is no booking; the owner
is *not* assumed to be right: attempts resolved as not created are in `attested`
and exempt; snapshots may be applied late and repeatedly (`seen`); the location
check of a retry is left out. Whether two requests overlap is the constant
`Overlaps`, symmetric and reflexive. Calls are finite, so the run does not check
for deadlock.

### AppointmentActions

One appointment at the provider and the acts (calls of `Reschedule` or `Cancel`)
on it. `actCall` is what a call remembers, `attempt` and `slotClaim` are the rows,
`appointment` the mirrored row, `truth` the provider's history of the booking
(one entry per version), `rival` the cells of somebody else, `disowned` the
attempts the owner resolved as not done. Claim 0 is the origin booking's; its
attempt row belongs to `ExternalBooking`. The provider applies a change only to
the version it names. An interval is a set of consecutive cells (`Length`), so
an old and a new interval may share some, which is what replacement of claims is
about. `AtomicRescheduleNoOverlap` stands for what a reschedule needs of the
provider: the adapter's capability and the evidence kept of it, asked for by
`Reschedule` (`booking/service.go:420-436`) and again when the claim is inserted
and dispatched (`Evidenced`). Square's adapter does not declare it and
`pos/repository_scheduling_capability.go:288` records it as false, so with the
value FALSE every reschedule is refused and only cancellations remain. The run has
the value TRUE, which the code is written for and `service_test.go` gives its
fakes; the theorems cover both.

### JobLease

State is the job's row of `worker_job_heartbeats` (`row`), the statuses of its
`worker_job_runs`, and for each replica where `executeRun` is, its open
transaction, the clock value that transaction read, its tickers and what ended
its heartbeat goroutine. Each repository method is three steps - read the
clock, lock the first row, lock the other and commit - because `StartRun` and
`HeartbeatRun`/`FinishRun` lock in opposite orders, and PostgreSQL resolves the
deadlock by aborting either. Time is discrete and explicit; clocks of replicas
may differ (`Skew`). A replica that is not `late` takes its steps within
`Jitter`; `LeaseOutlastsHeartbeat` states the relation that the 15 s heartbeat
and 90 s lease satisfy for lateness up to about 20 s and modest skew. `failed`
stands for failed, cancelled and panicked; a SIGTERM is a job that returns
cancelled. The worker-instance match is implied by the run id, which only its
instance knows. The heartbeat row exists from the start with a fence long past,
which is what the first insertion amounts to.

### InternalCalendar, SlotLedger

One salon and one day of ticks. `config` is the configuration with its version
and the version that was activated, `authority` the salon's, `appts`, `segments`
and `attempts` are the rows of appointments, their planned segments and the
operation keys, `quotes` what availability returned, `mirror` the appointments of
a provider that are known to the salon. Planning
follows the code: slots on the step grid, notice, hours, weekly periods and
exceptions, buffers, eligible staff in order, pooled resources, parties that share
a start, and a plan that must come out exactly as it was quoted. The exclusion
constraint on staff (`V49`) and the capacity trigger (`V50`) of the database are
left out on purpose: what is shown is that the code does not need them. A
configuration edit adds one to the version (the triggers add one per row
touched). `CheckStaffOnlyAvailability` and `CreateStaffOnlyAppointment` are
reached by nothing and are not modelled. `Ledger == INSTANCE SlotLedger` with
`held[a]` the cells (staff, tick) of the live segments of `a` (`HeldCells`).

### AuthoritySwitch

`settings` is the salon's policy (authority, version, mode), `runs` the rows of
switches with the snapshot that was previewed (`evaluated`: whose commit is half
done), `facts` what readiness depends on, `bookings` and `requests` what an
operation key has persisted, `calls` what a conversation has in hand. Preview,
commit, review, routing and execution are separate steps. Evidence of readiness
is per target.

### Channels: VoiceStream, CallSessions, CustomerSms, SquareWebhooks

`VoiceStream`: `call` is the state of the goroutine that owns the bridge; the
closures are operators composed as the code calls them; what stays in the queue of
replies is given by the places kept (`Only`); marks, results and speech
of goroutines arrive in any order and late. The hand-off threshold is 2 for 4,
buffers are scaled down, a reply is never empty, and a timer may fire at any time.
`CallSessions`: turns and routing are two parts; what the conversation answers is
a choice; the connection that holds the session's lock may be lost; only
webhooks bound to a tenant are modelled. `CustomerSms`: one destination and one
appointment; a row is named by the version it is about; when a row is due again
is a choice; HELP only adds to the audit trail. A text keeps who sent it and the
number of STOPs at the dispatch marker and at Twilio, since nothing looks at the
consent in between; Twilio's answer has the status the text has by then, which
`RecordSend` stores (`RowStatus`). `SquareWebhooks`: one booking
whose day may change; the read of the fence and the listing are one step; metrics
are left out. A synchronization that passes the booking over counts as a success:
because it cannot be mapped or has no proper times (`square.fit`), because its row is
another authority's (`square.protected`), or because the event did not say when the
booking starts and it is not on a day of the default range (`NoDay`).

### Conversation: BookingDialogue, LifecycleDialogue, ServiceGuidance, AnswerContext, AvailabilityQuotes

A turn works on a copy and saves it last, and may die before. `BookingDialogue`:
`talk` is the session, `operations` the scheduling ledger with what was heard when
it was executed. A date without a time is `when = 0`; phone and email are in the
name; one act per turn; a party is none, open or whole; the review is always
required; the authority and the proof it needs are read in one step; there are
two mentions; `tryPartySplitBooking` is reached by nothing. `LifecycleDialogue`:
the questions for service and name are folded into the lookup; stale external
targets are in `AppointmentActions`. `ServiceGuidance`: an outcome stands for all
needs that exclude a service, `MaxNoProgress` is 2 for 3, the recheck's two reads
are one step. `AnswerContext`: a version stands for the content it counts; one
salon's entry of one process's cache. `AvailabilityQuotes`: an import is one
value, and applying and completing a snapshot is one step.

### Platform: SquareCatalog, SquareGate, AccessControl, Tenancy, SalonConfiguration

`SquareCatalog`: the authority is `external_provider`; what Square lists is chosen
when it is listed; `expired_token` is never set by the code and does not occur.
`SquareGate`: the catalogue is one boolean; report texts are left out; queued
synchronization jobs cannot be reached with Square. `AccessControl`: admission
and the locked transaction are separate steps; one session per user; a support
request is created approved; passwords and audit are left out. `Tenancy`: review
and metering are two parts; metering reads the limit before it locks the count.
`SalonConfiguration`: a section is one value; one phrase; each unlocked read of a
transfer is a step; the legacy import routes are not registered; transfers,
records and edits are three parts.

## 3. Runs

| Run | Checks | Bounds |
|---|---|---|
| `delivery` | one text per notification (`NoDuplicateSms`), requeues that cannot repeat one (`RequeueIsSafe`), truthful rows (`RowTellsTheTruth`), settled rows (`SettledStays`), no deadlock | 1 row, 2 workers, 2 attempts per cycle, 1 requeue, 1 crash |
| `booking` | `NoDoubleBooking`, `SafeRetryMeansNoBooking`, one standing and once dispatched attempt (`AttemptsAreSingle`), tasks and confirmations (`AttemptsAreAccountedFor`), `CalendarMovesForward` | 2 calls, 2 keys, 2 overlapping requests, 1 configuration change, all provider statuses (about 550,000 states) |
| `appointment_actions` | the provider's time is held (`ProviderSlotIsHeld`), `RetriesAreSafe`, the row is a version of the booking (`RowFollowsProvider`) | 2 acts, 2 starts of length 2, 3 versions, 1 rival cell (about 1,060,000) |
| `scheduling` | `NoStaffOverlap`, rows agree (`BooksAgree`), fences of writes and switches (`SwitchIsFenced`), refinement of the ledger (`ImplementsLedger`) | 2 staff, 1 pooled service, 2 appointments, 2 quotes, 3 keys, 2 ticks, one edit, one authority change; 1 operation, 2 switch runs, 2 callers, 3 switches (about 810,000) |
| `workers` | `HealthyRunIsExclusive`, `LedgersAgree`, `RunsAreFenced`; under fairness `EveryRunEnds`, `EventuallySettled`, `EveryAttemptSettles` | 2 replicas one clock unit apart, lease 3, horizon 6, 2 runs, 1 fault; 1 notification; 2 calls (about 240,000) |
| `channels` | callers hear current answers and no silence (`CallersAreAnswered`), turns once and in the right salon (`CallsAreSound`), texts wanted and events mirrored (`DeliveredAsRecorded`), order (`ChannelsKeepOrder`) | 3 utterances, 2 handlers, 1 call, 2 turns; 1 message and key, 2 attempts, 1 change of the appointment, and 2 senders with 2 changes where senders race; 2 workers, 2 changes at Square (about 1,120,000) |
| `conversation` | what is executed was agreed (`DoneAsAgreed`), what is told happened (`ToldAsDone`), one moment (`OfferedFromOneMoment`) | 2 services, 2 slots, 3 booking and 5 lifecycle turns, 3 guidance turns, 1 policy change or edit each, 2 quotes (about 900,000) |
| `platform` | offers and automatic booking (`ProviderIsTrusted`), backing, wholeness and consistency (`SalonsAreInOrder`), the last administrator, lost updates, publication (`ChangesAreSafe`) | 2 snapshots, 2 operators, 5 access actions, 1 application, 2 invitations, 2 edits, 1 preview (about 600,000) |
| `booking_converge`, `dialogue_question`, `lifecycle_switch` | violations, section 4 | |

Every run has one type invariant. Why the bounds are enough. Delivery: a
duplicate needs two attempts and a stale worker, so two workers, two attempts and
a requeue reach every pair. Booking: a double booking, and a second dispatch, is a
pair of calls, one of which may have lost its lease to the other. Actions: a lost
slot needs one act overtaken by another; three versions let both be applied.
Scheduling: an overlap is two appointments that want the same staff member or the
same chair; a stale quote needs one edit. Jobs: an overlap is a pair of replicas
and a takeover of the first run by the second; the first lease ends at 3 and the
horizon is 6. Channels, conversation and platform: each property relates two
steps of one actor and one of another in between, and the bounds leave room for
two of each. For every row TLAPS proves the safety properties without these
bounds.

Pinned in the MC modules, and why it loses nothing: components that stand still
start from one state; the dialogue starts in mode `confirmed_booking` and the
policy may change; two locations or imports are alike, so the first is named;
quiet hours are on at first and may be edited; the booking at Square starts on a
day that the repair looks at and may move away. Two runs leave one combination
out to stay small: in `appointment_actions` a behaviour has a rival or changes made
at the provider and not both, in `channels` a repair or an operator's requeue and
not both, nor with a booking the calendar passes over. The texts are two parts: one
sender and one change with everything else, and two of each, for what two senders
may do to each other, with only the consent that is attested, stopped and started,
two claims in all, and no requeue (`TextsRace`). The theorems are about the
specifications without these restrictions.

Fairness. The worker polls each queue for ever (15 s and 30 s intervals in
`cmd/worker/main.go`), so a worker that can step does; time passes, so leases
expire, retries become due and tickers fire; jobs return. Nothing is assumed of
Twilio, of the provider, of callers of `Create`, of owners, nor of replicas that
crashed. `MCFairness` asks weak fairness of those actions, each for its part.
`EveryRunEnds` exempts a run orphaned so late that its takeover is past the
horizon. Except for `delivery`, the inputs of every component are finite, so the
runs stop and deadlock is not checked.

## 4. Findings

Violations that a run shows:

- *Claim not confirmed by convergence* (`booking_converge`): calendar
  synchronization confirms the attempt and leaves its slot claim
  `reconciliation_required` for ever.
- *Change inside a question* (`dialogue_question`): details mentioned while
  asking a question enter the draft without a new review and are executed.
  `ExecutedAsHeard` is stated with this exception. The attempt to prove it showed
  a second way, beyond the bounds of the run: details mentioned with a request for
  another technician, when that request is answered by asking back. A draft may so
  keep details beside the review that stands (`heard.aside`); the statement and
  the model's account of what was heard were corrected (`ReviewStands`,
  `SayUnrevised`).
- *Switch under an approved change* (`lifecycle_switch`): after a switch to a
  provider, an approved change of an internal appointment conflicts for ever.

Seen while modelling and without a run of their own: five claims whose leases
expire before dispatch leave a `failed` notification that nothing accepts
(`notification_delivery/repository.go:111`); attempts are bounded per requeue and
not in all (`:667`); recovery does not look for the mirror of a pending create
(`booking/repository.go:1130`); the job fence counts from the last claim and the
ticker from its own start, so ticks are skipped
(`operations_health/repository.go:76`); a terminal reply may be dropped when the
stream ends (`voice_twilio/handler.go:1467`); the recheck of a recommendation reads
provider links under every authority
(`conversation/service_consultation.go:479`).

## 5. Theorems

All are proved for every value of the constants that satisfies the modules'
`ASSUME`s, which bound nothing but kinds (finite sets, naturals; services and
visits are finitely many) and, for `JobLease`, state that a lease outlasts a
heartbeat. Every safety property of every run is a theorem.

**NotificationDeliveryProofs.** `TypeCorrect`, `OwnerIsTextedOnce`
(`NoDuplicateSms`), `RequeueNeverDuplicates` (`RequeueIsSafe`), `RowIsTrue`
(`RowTellsTheTruth`), `SettledRowsStay` (`SettledStays`). `NoDuplicateSms` is not
inductive: a step could send a second message if a worker past the marker had
lost its claim to a retry. `SmsInv` adds what rules that out: a row's token is its
latest attempt and is NULL unless it is delivering (`ClaimShape`); a claim is in
one worker's memory, once (`ClaimsAreUnique`); a claim still in a batch is not
dispatched; a worker past the marker owns its claim, or recovery has made the
outcome unknown (`SenderIsFenced`) - and an unknown outcome is never claimed or
requeued; a definitive failure is true (`AnswerIsTrue`); and every message under
way belongs to the latest attempt and is known to the row (`OnItsWayIsKnown`). The
truth of a row then needs only `RowInv`: the open attempt of the ledger is the
claim, a redacted row is not claimed, a delivered row has a delivered message, and
a rank that a callback reached is not undone (`RankIsFinal`).

**ExternalBookingProofs.** `TypeCorrect`, `SlotIsBookedOnce` (`NoDoubleBooking`),
`RetryIsSafe` (`SafeRetryMeansNoBooking`), `OneAttemptStands`,
`AttemptIsDispatchedOnce`, `AttemptsStaySingle`, `AttemptsAccounted`
(`AttemptsAreAccountedFor`), `CalendarOnlyAdvances` (`CalendarMovesForward`). The
argument of `BookInv`: held claims exclude each other; an outcome never returns to
`not_started` and a start needs it, so an attempt has one runner; only a runner
books, and only while the slot is held or was given up by an owner; a slot is
released only if the attempt was never started, the provider refused it, or an
owner attested it. Hence a live booking keeps its slot (`BookedSlotIsHeld`) and two
live bookings cannot overlap. `AccountInv` follows a confirmation back to the
provider: what a call was answered, what an appointment mirrors and what an
attempt shows are statuses the booking has had (`AnswerIsSeen`, `MirrorIsSeen`,
`ConfirmedIsSeen`), the appointment's owner names that booking (`OwnerIsBooked`),
and the task agrees with the attempt (`TaskAgrees`, with `PendingIsFresh` for
attempts that have not settled).

**JobLeaseProofs.** `TypeCorrect`, `LedgersAlwaysAgree`,
`FencedReplicaChangesNothing`, `RecordedSuccessIsEarned`,
`LostLeaseChangesNothing` (`RunsAreFenced`), `HealthyReplicaIsAlone`
(`HealthyRunIsExclusive`). The first rest on `JobInv`: what `StartRun` read of the
heartbeat row stays true until it commits, because the row is locked
(`StarterIsAlone`), so a takeover is always due; a replica past its claim holds a
run; and a finisher has taken its heartbeat's error into account. Exclusive
execution needs time (`TimeInv`): a run has one replica (`RunsAreOwned`); a replica
that keeps time commits within `Jitter` of reading its clock (`ClockIsKept`); and
the next commit of a healthy replica comes at most `HeartbeatEvery + 3 * Jitter`
after the clock reading its lease was computed from (`HealthyIsAhead`).
`LeaseOutlastsHeartbeat` then makes that lease live on every clock, so no takeover
is due, and two healthy replicas would be the owner of one run. The assumption is
used in that one lemma (`HealthyLeaseIsLive`).

**SchedulingProofs.** About the calendar: `StaffAreNeverDoubleBooked` (`NoStaffOverlap`),
`CalendarRowsAgree` (`RowsAgree`), `CalendarWritesAreFenced` (`WritesAreFenced`),
`CalendarImplementsLedger` (`ImplementsLedger`). The lemmas are about the planner:
whatever plan it returns assigns eligible staff, keeps its segments inside the
day and out of every interval that is busy for others, and needs no more units
than the pool has left. `CalendarInv` adds to `NoStaffOverlap` the types of
configuration and rows, that segments lie in the day (`InTheDay`), that an
appointment that was never made is blank (`NoneIsBlank`), that the unreleased
segments of a live appointment are one plan of its current version
(`PlanIsCurrent`), and that operation keys count its versions
(`OperationsCountOnce`) - without the last two a reschedule could leave segments
of an older version behind, which the next plan would not see. The refinement
proof shows that every action changes the cells of one appointment, to cells that
nobody else holds, or of none. That sums of capacities are what the planner takes
them for is proved of `SumFunction`, from a smallest set for which it fails;
induction theorems with an operator parameter are not needed.

About the switch: `HistoryIsLinear` (`AuthorityHistory`),
`SwitchesAreDrained` (`SwitchIsDrained`), `WorkIsAuthorized` (`WorkFollowsPolicy`).
`SwitchInv` adds that a committed switch produced an earlier version
(`CommittedIsPast`; otherwise a second switch could produce the same one) and how
many transitions a request has gone through (`RequestVersions`, which keeps a
closed request closed). About the two together: the specification that TLC checks
implies the specification of each of its parts (`CalendarIsKept`, `SwitchIsKept`);
hence the run's own properties: `SchedulingTypeCorrect`, `SchedulingBooksAgree`,
`SchedulingIsFenced`.

**AppointmentActionsProofs.** `ActionsTypeCorrect`, `ProviderSlotStaysHeld`
(`ProviderSlotIsHeld`), `RetriesStaySafe` (`RetriesAreSafe`), `RowsFollowProvider`
(`RowFollowsProvider`). Each action is first reduced to what it comes down to: a
kind of step with its effect on every row (`StepKind`: a call asks, wins or loses
its claim, inserts, resumes, starts, is answered with or without effect, succeeds,
fails; an import; a foreign change; a disowned attempt). Each conjunct of
`ActionsInv` is then preserved by every kind: calls work on attempts for the same
request (`CallsInOrder`); an act of this system made the version after the one it
was asked for, nothing follows a cancellation, and the row is a version of the
history (`HistoryInOrder`); an attempt is sent by one call, and what was never
sent or was refused is not in the history (`SentOnce`); one attempt stands
(`OneStands`); claims replace older claims, are confirmed only when the row has
their version and released only after a newer version, and one is confirmed while
the appointment stands (`ClaimsInOrder`); no cell is held twice (`CellsHeldOnce`).
The provider's current time is then held: by its own act's claim if that is still
held, else by the confirmed one. `ProviderSlotIsHeld` excepts one act (`Overtaken`):
a reschedule that was applied and not saved, was brought in by synchronization, and
whose predecessor a second reschedule replaced; saving the first then releases the
interval the second stands on. That takes a provider with atomic reschedules, and
there is none under `src/`; with `AtomicRescheduleNoOverlap` FALSE nothing is
overtaken.

**PlatformProofs.** Five components, each with its own inductive invariant, and
the composition: what `MCPlatform` does is what each component does alone
(`AccessIsKept`, `TenancyIsKept`, `ConfigIsKept`, `GateIsKept`, `CatalogIsKept`),
hence the run's own properties `PlatformInOrder` (`SalonsAreInOrder`),
`PlatformChangesSafe` (`ChangesAreSafe`), `ProviderStaysTrusted`
(`ProviderIsTrusted`) and `PlatformTypeCorrect` (`PlatformTypeOK`). The constants
are assumed to be what they name: the sets not empty, their null values outside
them, the first owner's salon not among the applications.

- `DelegationStaysBacked`, `AdministratorRemains`: `AccessInv` keeps an
  authorization and every grant that is in force on a role and an assignment in
  force (`SupportsAreBacked`, `GrantsAreBacked`). That is preserved because every
  change of a role or an assignment also revokes what rested on it, in the same
  transaction. A user without a role row has no role in force (`NoRoleIsIdle`), and
  a rotation spends the one live token (`OneLiveToken`). The last administrator
  stays because the count is taken under the lock under which the demotion is
  written.
- `TenantsStayWhole`: `TenancyInv` ties the request to the salon
  (`ConvertedHaveSalons`), members to salons (`MembersBelong`), invitations to
  accounts that can still be activated, and the use of a minute to its largest
  limit (`QuotaHolds`); the limit may be lowered between its reading and the lock,
  so "within the limit in force" would be false.
- `ConfigurationStaysSound`, `WritesStayInformed`, `PublishedStaysReady`: the point
  of `ConfigInv` is `ClientsInformed` and `PreparedHold`. A value that was read
  without a lock is still there, or the version read with it has been counted on
  and the write will be refused; for a transfer this holds of each of its unlocked
  reads, of source and target, and of the digest it was previewed with.
- `AutomaticCreateStaysSafe`: `GateInv` says of every piece of evidence that, if
  its versions are still those of connection and configuration, what it says is so
  (`EvidenceHolds`). Every event that could make it false counts one of the
  versions.
- `OfferedStaysListed`: a snapshot is applied in one transaction and makes the
  connection active in another, so what is offered must be right before it is
  active. `CatalogInv` adds that a run of the newest generation that was applied has
  left nothing else listed (`SnapshotsFit`), and that so it stays while the
  connection is active (`ActiveIsListed`): an overtaken run fails at the fence of
  its generation, and a new generation or location needs a run of its own.

**ChannelsProofs.** Four components and the composition: a behaviour of
`MCChannels` is one of each part (`StreamIsKept`, `CallsAreKept`, `TextsAreKept`,
`EventsAreKept`), hence `ChannelsTyped` (`ChannelsTypeOK`), `ChannelsAnswer`
(`CallersAreAnswered`), `ChannelCallsSound` (`CallsAreSound`), `ChannelsDeliver`
(`DeliveredAsRecorded`) and `ChannelsStayInOrder` (`ChannelsKeepOrder`).

- `HeardStaysCurrent`, `NeverSilent`, `RepliesStayTimely`: `VoiceInv` says what the
  goroutine knows between two events. Frames and what was sent are of the active
  reply, and a streamed reply is cut off while the caller is heard (`HeardFits`) -
  so a reply that a new utterance overtakes was cut off before its transcript came.
  The queue of turns is increasing, ends with the latest utterance, and is not
  empty while an older one is worked on (`TurnsFit`) - so an answer that is not
  stale finds it empty and may be spoken. A waiting answer is of no later utterance
  than the latest (`PendingFits`), and nothing that could be spoken waits while the
  line is free (`StallFree`, which is stronger than `NoSilentStall` once the
  conversation is over, because a turn may still be under way then). Each closure is
  shown to keep this (`SpeakKeeps`, `FlushKeeps`, `AnswerKeeps`, `NextTurnKeeps`)
  and to begin only what is timely (`LeadsOn`); each action is then a composition
  of closures.
- `TextsStayWanted`, `OptOutStays`: the argument is that of the owner's outbox with
  consent added: a token is the row's latest attempt (`RowFits`), a row of the
  consent there is was enqueued after the same STOPs (`RowConsented`), and a text
  under way belongs to the row's latest attempt (`SenderFits`). `WindowsHold` adds
  that a sender's texts follow each other: what it marks, it marks after it sent the
  one before, so one STOP falls between the marker and the send of at most one of
  its texts.
- `ProcessedStaysMirrored`: `HookInv` says of every run, whatever became of its
  lease, that what it listed, and once stored the calendar, holds what its event
  announced, unless a later event is owed (`RunFits`, `Reached`) or the calendar
  passes the booking over (`Importable`).
- `CallsStaySound`, `EndedStays`: a turn that was loaded is of the revision it can
  still be saved to, or of an older one, and of a call that is active at that
  revision (`PostedFits`); a key occurs once in a transcript (`KeysOnce`).

**ConversationProofs.** Five components and the composition (`PartsAreKept`), hence
`ConversationDoesAsAgreed` (`DoneAsAgreed`), `ConversationTellsTruly`
(`ToldAsDone`), `ConversationOffersFromOneMoment` (`OfferedFromOneMoment`) and
`ConversationTyped` (`ConversationTypeOK`).

- `AnswersStayOfOneMoment`: `AnswerInv` says that a fence that was read is, version
  by version, not newer than the salon (`OlderFence`); one that is confirmed to be
  the salon's holds all that was read between.
- `QuotesStayAsOffered`: `QuoteInv`: what was read behind a fence of the present
  generation is of the present, complete import; the quote of a retry repeats its
  origin's interval and is not the origin's; what a try claims was offered.
- `GuidanceStaysAsTold`: `GuideInv`: a revision of the recommendation equals what
  was told of it, and consent is asked for only of that revision. `BestTwo` exists
  because services are finitely many.
- `LifecycleStaysApproved`, `LifecycleStaysTrue`: `LifeInv`: a pending move or
  cancellation agrees with what was last approved, an outcome that was told is a
  confirmed operation, and a visit's versions are bound by edits and operations.
- `DialogueStaysHeard`, `DialogueBooksOnce`: `TalkInv`: a standing review of a
  draft that has a time is of the payload and mode last heard, unless details were
  kept aside; operations are only of the present sequence; openings are offered
  only while no time is chosen.

Only model-checked: the liveness properties (`EveryRunEnds`, `EventuallySettled`,
`EveryAttemptSettles`), because fairness and ENABLED are out of the prover's reach,
and the disagreements of section 4. What recursive definitions compute for every
input is out of reach in general, since the library's induction theorems cannot be
instantiated here; the modules with theorems use functions and folds and no
RECURSIVE operator.

## 6. Plan

All modules of section 2 and the theorems of section 5 are done. What is left is
breadth: the parts that `PROJECT.json` lists as partly modelled, each with what is
missing, and the hazards there that no property covers.

Not modelled, and not planned: language understanding, HTTP encoding, signature
checks, encryption, logging, command-line tools and the web frontends - pure
computation or I/O without a protocol of its own - and the one-step components of
the inventory. Each part and the reason is in `PROJECT.json`.
