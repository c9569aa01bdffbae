-------------------------- MODULE InternalCalendar --------------------------
(***************************************************************************)
(* The ManleAI calendar: the scheduling authority that keeps its own       *)
(* appointments (src/backend/modules/scheduling_manleai_calendar).         *)
(*                                                                         *)
(* One salon, one day.  Instants are ticks 0 .. Day; `now` moves along the *)
(* same axis.  Every transaction of the component starts with the salon's  *)
(* advisory lock (lockCalendarExecutionTx, mutate), so each is one action. *)
(*   - an owner edits the configuration (every edit advances its version)  *)
(*     and activates it: the calendar executes only under a configuration  *)
(*     whose activated version is its version;                             *)
(*   - a caller asks for availability and gets a quote: the planned slots, *)
(*     stamped with the authority version, the configuration version and,  *)
(*     for a reschedule, the target and its version;                       *)
(*   - a booking, a reschedule or a cancellation is executed under an      *)
(*     operation key; the first two consume a quote, and plan the day      *)
(*     again: the quoted slot must come out exactly as it was quoted;      *)
(*   - the rest of the system may meanwhile switch the salon's authority,  *)
(*     mirror the appointments of an external provider, and deactivate     *)
(*     staff (scheduling_authority_switch, pos, business).                 *)
(* A request that returns an error writes nothing and is no action; so is  *)
(* the replay of an operation key, which only reads.                       *)
(***************************************************************************)
EXTENDS Integers, Sequences, FiniteSets, FiniteSetsExt

CONSTANTS
    NStaff,            \* staff are 1 .. NStaff, in the order of their ids
    Services, Pools,   \* the catalog and the resource pools
    Appts, Quotes, Keys, \* finite sets of numbers: ids and keys are taken in order
    None,
    Duration,          \* [Services -> Nat \ {0}]
    Day,               \* the last tick of the day
    QuoteTTL,          \* internalAvailabilityQuoteTTL
    Requests,          \* normalized requests: sequences of segments
    ConfigInputs, HoursInputs, ProfileInputs, PolicyInputs,
    ResourceInputs, ExceptionInputs,
    InitialConfig,     \* the configuration the owner has built and activated
    ExtBusy,           \* mirrored provider appointments; staff 0 is unmapped
    Elsewhere,         \* the other authorities; which one is nothing to the calendar
    MaxConfig, MaxAuthority, MaxNow   \* bounds

Staff == 1 .. NStaff
Anyone == 0
Internal == "manleai_calendar"
Authorities == {Internal} \cup Elsewhere
Active == {"confirmed", "rescheduled"}

\* The rows of the tables.
Periods == [from : Int, to : Int]
Minutes == Nat \cup {None}
Policies == [enabled : BOOLEAN, mode : {"staff_only", "pooled", None},
             staff : SUBSET Staff, before : Minutes, after : Minutes,
             units : [Pools -> Nat]]
Exceptions == [scope : {"salon", "staff", "resource"}, who : Staff \cup Pools \cup {None},
               effect : {"available", "unavailable", "capacity_override"},
               from : Int, to : Int, capacity : Int]
ConfigValues == [step : Int, notice : Int, maxParty : Int, before : Int, after : Int,
                 rescheduleCutoff : Minutes, cancellationCutoff : Minutes]
Configs == [version : Nat, activated : Nat, step : Nat \ {0}, notice : Nat,
            maxParty : Nat, before : Nat, after : Nat,
            rescheduleCutoff : Minutes, cancellationCutoff : Minutes,
            hours : SUBSET Periods, weekly : [Staff -> SUBSET Periods],
            policies : [Services -> Policies], capacity : [Pools -> Int],
            archived : SUBSET Pools, exceptions : SUBSET Exceptions,
            liveStaff : SUBSET Staff, liveServices : SUBSET Services]
RequestSegments == [service : Services, staff : Staff \cup {Anyone}, guest : Nat \cup {None}]
PlanRows == [service : Services, guest : Nat \cup {None}, staff : Staff,
             start : Int, end : Int, from : Int, to : Int, units : [Pools -> Nat]]
QuoteRows == [op : {"book", "reschedule"}, target : Appts \cup {None}, tversion : Nat,
              aversion : Nat, cversion : Nat, expires : Nat,
              request : Seq(RequestSegments) \ {<<>>},
              slots : UNION {[roots -> Seq(PlanRows)] : roots \in SUBSET (0 .. Day)},
              usedBy : Keys \cup {None}]
AttemptRows == [op : {"book", "reschedule", "cancel"}, appt : Appts, version : Nat,
                quote : Quotes \cup {None}, start : Int]

\* What an owner, the catalog and the mirror hand in is of the tables' types.
ASSUME CalendarInputs ==
    /\ InitialConfig \in Configs /\ InitialConfig.activated <= InitialConfig.version
    /\ ConfigInputs \subseteq ConfigValues
    /\ HoursInputs \subseteq SUBSET Periods
    /\ ProfileInputs \subseteq [staff : Staff, periods : SUBSET Periods,
                                 services : SUBSET Services]
    /\ PolicyInputs \subseteq [service : Services, policy : Policies]
    /\ ResourceInputs \subseteq [pool : Pools, capacity : Int]
    /\ ExceptionInputs \subseteq Exceptions
    /\ ExtBusy \subseteq [staff : Staff \cup {0}, from : Int, to : Int]
    /\ Requests \subseteq Seq(RequestSegments)

\* NULL is no row, and the sets of ids are finite.
ASSUME CalendarRows ==
    /\ None \notin QuoteRows /\ None \notin AttemptRows
    /\ IsFiniteSet(Keys) /\ IsFiniteSet(Pools)

ASSUME CalendarConstants ==
    /\ NStaff \in Nat \ {0} /\ Day \in Nat /\ QuoteTTL \in Nat \ {0}
    /\ Duration \in [Services -> Nat \ {0}]
    /\ Appts \cup Quotes \cup Keys \subseteq Nat
    /\ None \notin Appts \cup Quotes \cup Keys
    /\ Elsewhere \subseteq {"external_provider", "owner_manual"}
    /\ MaxConfig \in Nat /\ MaxAuthority \in Nat /\ MaxNow \in Nat

VARIABLES
    config,       \* manleai_calendar_configs and the tables it versions
    authority,    \* [name, version] of salon_settings
    mirror,       \* the external provider's appointments known to the salon
    quotes,       \* availability_quotes with their slots
    attempts,     \* booking_attempts, by operation key
    appts,        \* appointments
    segments,     \* appointment_services and their resource allocations
    now

vars == <<config, authority, mirror, quotes, attempts, appts, segments, now>>

-----------------------------------------------------------------------------
(* The planner, execution_availability.go. *)

\* Mutant: two ranges that start together are not seen to overlap.
RangesOverlapLater(a, b) ==
    (a.from < b.from /\ b.from < a.to) \/ (b.from < a.from /\ a.from < b.to)

RangesOverlap(a, b) == a.from < b.to /\ b.from < a.to
Covers(a, b) == a.from <= b.from /\ b.to <= a.to

\* The periods and exceptions of a scope that allow a range.
ScopeAllowsRange(base, range, scope, who) ==
    LET exceptions == {e \in config.exceptions : e.scope = scope /\ e.who = who}
    IN  /\ \A e \in exceptions :
               e.effect = "unavailable" => ~ RangesOverlap(range, e)
        /\ \/ \E period \in base : Covers(period, range)
           \/ \E e \in exceptions : e.effect = "available" /\ Covers(e, range)

EligibleService(service) ==
    LET policy == config.policies[service]
    IN  /\ service \in config.liveServices
        /\ policy.enabled
        /\ policy.mode \in {"staff_only", "pooled"}
        /\ (policy.mode = "pooled") = (\E p \in Pools : policy.units[p] > 0)

EligibleStaffIDs(segment) ==
    {s \in config.policies[segment.service].staff :
        /\ s \in config.liveStaff
        /\ config.weekly[s] # {}
        /\ segment.staff \in {Anyone, s}}

\* Segments of one guest follow each other, those of other guests run beside.
SegmentStart(request, i, root) ==
    LET before == {j \in 1 .. i - 1 : request[j].guest = request[i].guest}
    IN  root + SumFunction([j \in before |-> Duration[request[j].service]])

Buffer(override, default) == IF override = None THEN default ELSE override

\* A planned segment: `from` and `to` are what it occupies, buffers included.
PlannedSegment(request, i, root, staff) ==
    LET policy == config.policies[request[i].service]
        start == SegmentStart(request, i, root)
        end == start + Duration[request[i].service]
    IN  [service |-> request[i].service, guest |-> request[i].guest,
         staff |-> staff, start |-> start, end |-> end,
         from |-> start - Buffer(policy.before, config.before),
         to |-> end + Buffer(policy.after, config.after),
         units |-> policy.units]

PlannedSegments(request, root, assigned) ==
    [i \in 1 .. Len(request) |-> PlannedSegment(request, i, root, assigned[i])]

\* Unreleased segments of live appointments, but for an excluded appointment.
OccupiedSegments(excluded) ==
    {s \in segments : /\ ~ s.released
                      /\ s.appt # excluded
                      /\ appts[s.appt].status \in Active}

\* loadStaffConflicts: own segments, and what the provider's mirror shows.
StaffConflicts(excluded) ==
    {[staff |-> s.segment.staff, from |-> s.segment.from, to |-> s.segment.to] :
        s \in OccupiedSegments(excluded)}
    \cup {m \in mirror : m.staff # 0}

\* An external appointment without a mapped staff member blocks all planning.
UnresolvedExternalConflict == \E m \in mirror : m.staff = 0

HasStaffConflict(conflicts, segment) ==
    \E c \in conflicts : c.staff = segment.staff /\ RangesOverlap(c, segment)

HasPlannedStaffConflict(plan) ==
    \E i, j \in DOMAIN plan :
        i < j /\ plan[i].staff = plan[j].staff /\ RangesOverlap(plan[i], plan[j])

EffectiveCapacity(pool, tick) ==
    LET overrides == {e \in config.exceptions :
                        /\ e.scope = "resource" /\ e.who = pool
                        /\ e.from <= tick /\ tick < e.to}
    IN  IF overrides = {} THEN config.capacity[pool]
        ELSE (CHOOSE e \in overrides : TRUE).capacity

\* Units of a pool in use at a tick, by the segments a function yields.
UnitsAt(held, pool, tick) ==
    LET here == {x \in DOMAIN held : held[x].from <= tick /\ tick < held[x].to}
    IN  SumFunction([x \in here |-> held[x].units[pool]])

UnitsOf(rows, pool, tick) == UnitsAt([s \in rows |-> s.segment], pool, tick)

UnitsBooked(excluded, pool, tick) == UnitsOf(OccupiedSegments(excluded), pool, tick)
UnitsPlanned(plan, pool, tick) == UnitsAt(plan, pool, tick)

\* Checked over the whole day, as the code's boundary sweep does: a pool that
\* is over its capacity anywhere refuses every plan that needs it.
ResourcesFit(plan, excluded) ==
    \A pool \in Pools :
        (\E i \in DOMAIN plan : plan[i].units[pool] > 0) =>
            /\ config.capacity[pool] >= 1 /\ pool \notin config.archived
            /\ \A tick \in 0 .. Day - 1 :
                   UnitsBooked(excluded, pool, tick) + UnitsPlanned(plan, pool, tick)
                       <= EffectiveCapacity(pool, tick)

\* What assignAggregateSegments demands of every planned segment.
ValidPlan(plan, excluded) ==
    /\ \A i \in DOMAIN plan :
           /\ plan[i].from >= 0 /\ plan[i].to <= Day
           /\ ScopeAllowsRange(config.hours, plan[i], "salon", None)
           /\ ScopeAllowsRange(config.weekly[plan[i].staff], plan[i],
                               "staff", plan[i].staff)
           /\ ~ HasStaffConflict(StaffConflicts(excluded), plan[i])
    /\ ~ HasPlannedStaffConflict(plan)
    /\ ResourcesFit(plan, excluded)

\* The assignments of staff to the segments that work out at a root start.
Assignments(request, root, excluded) ==
    {f \in [1 .. Len(request) -> Staff] :
        /\ \A i \in 1 .. Len(request) : f[i] \in EligibleStaffIDs(request[i])
        /\ ValidPlan(PlannedSegments(request, root, f), excluded)}

\* Backtracking over staff in id order finds the lexicographically first one.
Before(f, g) ==
    \E i \in DOMAIN f : f[i] < g[i] /\ \A j \in 1 .. i - 1 : f[j] = g[j]
First(fs) == CHOOSE f \in fs : \A g \in fs \ {f} : Before(f, g)

AssignAggregateSegments(request, root, excluded) ==
    PlannedSegments(request, root, First(Assignments(request, root, excluded)))

PlannerReady(request) ==
    /\ ~ UnresolvedExternalConflict
    /\ config.activated = config.version
    /\ Cardinality({request[i].guest : i \in 1 .. Len(request)}) <= config.maxParty
    /\ \A i \in 1 .. Len(request) : EligibleService(request[i].service)

\* The root starts of the day at which a plan exists.
PlannedStarts(request, excluded) ==
    IF PlannerReady(request)
    THEN {root \in 0 .. Day - 1 :
            /\ root % config.step = 0
            /\ root >= now + config.notice
            /\ Assignments(request, root, excluded) # {}}
    ELSE {}

PlanAggregateAvailability(request, excluded) ==
    [root \in PlannedStarts(request, excluded) |->
        AssignAggregateSegments(request, root, excluded)]

-----------------------------------------------------------------------------
(* Quotes. *)

LifecycleCutoffOpen(a, cutoff) == cutoff # None => now < appts[a].start - cutoff

\* A replacement names the services and guests of the appointment it moves.
ReplacementPreservesTargetShape(request, a) ==
    /\ Len(request) = Len(appts[a].shape)
    /\ \A i \in 1 .. Len(request) :
           /\ request[i].service = appts[a].shape[i].service
           /\ request[i].guest = appts[a].shape[i].guest

\* lockExecutionFence: the salon executes under an activated configuration.
ExecutionFence == config.version >= 1 /\ config.activated = config.version

\* Either no segment names its guest, or every segment does.
NormalizedRequest(request) ==
    /\ Len(request) >= 1
    /\ Cardinality({request[i].guest = None : i \in 1 .. Len(request)}) = 1

\* Ids and keys are arbitrary and new: the model takes the first unused one.
FirstOf(unused, x) == x \in unused /\ \A y \in unused : x <= y

QuoteFree(q) == FirstOf({p \in Quotes : quotes[p] = None}, q)
NewQuote(request, op, target, tversion, aversion, slots) ==
    [op |-> op, target |-> target, tversion |-> tversion, aversion |-> aversion,
     cversion |-> config.version, expires |-> now + QuoteTTL,
     request |-> request, slots |-> slots, usedBy |-> None]

CheckAvailability(q, request) ==
    /\ QuoteFree(q) /\ NormalizedRequest(request)
    /\ ExecutionFence /\ authority.name = Internal
    /\ PlannedStarts(request, None) # {}
    /\ quotes' = [quotes EXCEPT ![q] =
                    NewQuote(request, "book", None, 0, authority.version,
                             PlanAggregateAvailability(request, None))]
    /\ UNCHANGED <<config, authority, mirror, attempts, appts, segments, now>>

\* The salon need not be on this authority any more to move its appointments.
CheckReplacement(q, request, a) ==
    /\ QuoteFree(q) /\ NormalizedRequest(request)
    /\ ExecutionFence
    /\ appts[a].status \in Active
    /\ LifecycleCutoffOpen(a, config.rescheduleCutoff)
    /\ ReplacementPreservesTargetShape(request, a)
    /\ PlannedStarts(request, a) # {}
    /\ quotes' = [quotes EXCEPT ![q] =
                    NewQuote(request, "reschedule", a, appts[a].version,
                             appts[a].aversion, PlanAggregateAvailability(request, a))]
    /\ UNCHANGED <<config, authority, mirror, attempts, appts, segments, now>>

\* The quote holds the slot, has not run out and nobody has consumed it.
QuoteUsable(q, op, root) ==
    /\ quotes[q] # None
    /\ root \in DOMAIN quotes[q].slots
    /\ quotes[q].op = op
    /\ quotes[q].cversion = config.version /\ config.activated = config.version
    /\ now < quotes[q].expires
    /\ quotes[q].usedBy = None

\* Mutant: the slot is booked as quoted, without planning the day again.
ExactAggregatePlanTrusted(q, root, excluded) == root \in DOMAIN quotes[q].slots

\* The slot comes out of today's planning exactly as it was quoted.
ExactAggregatePlan(q, root, excluded) ==
    /\ root \in PlannedStarts(quotes[q].request, excluded)
    /\ AssignAggregateSegments(quotes[q].request, root, excluded)
           = quotes[q].slots[root]

-----------------------------------------------------------------------------
(* Execution. *)

Attempt(op, a, version, q, root) ==
    [op |-> op, appt |-> a, version |-> version, quote |-> q, start |-> root]

AppointmentPlan(a, version, plan) ==
    {[appt |-> a, version |-> version, order |-> i, segment |-> plan[i],
      released |-> FALSE] : i \in DOMAIN plan}

\* Mutant: only the first version of a plan is ever released.
ReleasedFirst(a) ==
    {IF s.appt = a /\ s.version = 1 THEN [s EXCEPT !.released = TRUE] ELSE s :
        s \in segments}

\* The plan an appointment held is released, never deleted.
Released(a) ==
    {IF s.appt = a THEN [s EXCEPT !.released = TRUE] ELSE s : s \in segments}

Consumed(q, k) == [quotes EXCEPT ![q].usedBy = k]

RootStart(plan) == plan[1].start

ConfirmedAppointment(q, plan) ==
    [status |-> "confirmed", version |-> 1, start |-> RootStart(plan),
     shape |-> quotes[q].request, aversion |-> quotes[q].aversion,
     cversion |-> quotes[q].cversion]

\* executor.go resolves an operation key once; a known key is a replay.
NewOperation(k) == FirstOf({j \in Keys : attempts[j] = None}, k)
NewAppointment(a) == FirstOf({b \in Appts : appts[b].status = "none"}, a)

CreateAppointment(k, q, root, a) ==
    /\ NewOperation(k)
    /\ QuoteUsable(q, "book", root)
    /\ authority.name = Internal /\ authority.version = quotes[q].aversion
    /\ ExactAggregatePlan(q, root, None)
    /\ NewAppointment(a)
    /\ LET plan == quotes[q].slots[root]
       IN  /\ appts' = [appts EXCEPT ![a] = ConfirmedAppointment(q, plan)]
           /\ segments' = segments \cup AppointmentPlan(a, 1, plan)
    /\ attempts' = [attempts EXCEPT ![k] = Attempt("book", a, 1, q, root)]
    /\ quotes' = Consumed(q, k)
    /\ UNCHANGED <<config, authority, mirror, now>>

\* The appointment is live, at the version the caller has seen.
LifecycleTarget(a, expected) ==
    appts[a].status \in Active /\ appts[a].version = expected

RescheduleAppointment(k, q, root, a, expected) ==
    /\ NewOperation(k)
    /\ LifecycleTarget(a, expected)
    /\ LifecycleCutoffOpen(a, config.rescheduleCutoff)
    /\ QuoteUsable(q, "reschedule", root)
    /\ quotes[q].target = a /\ quotes[q].tversion = appts[a].version
    /\ quotes[q].aversion = appts[a].aversion
    /\ ReplacementPreservesTargetShape(quotes[q].request, a)
    /\ ExactAggregatePlan(q, root, a)
    /\ LET plan == quotes[q].slots[root]
       IN  /\ appts' = [appts EXCEPT ![a] =
                          [@ EXCEPT !.status = "rescheduled",
                                    !.version = expected + 1,
                                    !.start = RootStart(plan),
                                    !.cversion = quotes[q].cversion]]
           /\ segments' = Released(a) \cup AppointmentPlan(a, expected + 1, plan)
    /\ attempts' = [attempts EXCEPT ![k] =
                      Attempt("reschedule", a, expected + 1, q, root)]
    /\ quotes' = Consumed(q, k)
    /\ UNCHANGED <<config, authority, mirror, now>>

\* A cancellation needs neither a quote nor the authority, only the cutoff.
CancelAppointment(k, a, expected) ==
    /\ NewOperation(k)
    /\ LifecycleTarget(a, expected)
    /\ LifecycleCutoffOpen(a, config.cancellationCutoff)
    /\ appts' = [appts EXCEPT ![a].status = "cancelled",
                              ![a].version = expected + 1]
    /\ segments' = Released(a)
    /\ attempts' = [attempts EXCEPT ![k] =
                      Attempt("cancel", a, expected + 1, None, appts[a].start)]
    /\ UNCHANGED <<config, authority, mirror, quotes, now>>

-----------------------------------------------------------------------------
(* The configuration, service.go and repository.go. *)

ValidPeriods(periods) ==
    /\ \A p \in periods : 0 <= p.from /\ p.from < p.to /\ p.to <= Day
    /\ \A p, r \in periods : p # r => ~ RangesOverlap(p, r)

ValidConfig(input) ==
    /\ input.step >= 1 /\ Day % input.step = 0
    /\ input.notice >= 0 /\ input.maxParty >= 1
    /\ input.before >= 0 /\ input.after >= 0

ValidServicePolicy(policy) ==
    /\ policy.enabled => policy.mode # None
    /\ policy.mode = "staff_only" => \A p \in Pools : policy.units[p] = 0

ValidException(e) ==
    /\ e.from < e.to
    /\ \/ e.scope = "salon" /\ e.who = None /\ e.effect \in {"available", "unavailable"}
       \/ e.scope = "staff" /\ e.who \in Staff /\ e.effect \in {"available", "unavailable"}
       \/ e.scope = "resource" /\ e.who \in Pools /\ e.effect = "capacity_override"

\* EvaluateReadiness: what must be in place before a configuration is activated.
ConfigurationReady(c) ==
    LET enabled == {s \in Services : c.policies[s].enabled}
    IN  /\ c.hours # {}
        /\ c.liveServices # {} /\ enabled # {} /\ enabled \subseteq c.liveServices
        /\ \A s \in enabled :
               LET policy == c.policies[s]
               IN  /\ policy.mode # None
                   /\ policy.staff # {} /\ policy.staff \subseteq c.liveStaff
                   /\ \A w \in policy.staff : c.weekly[w] # {}
                   /\ (policy.mode = "pooled") = (\E p \in Pools : policy.units[p] > 0)
                   /\ \A p \in Pools : policy.units[p] > 0 =>
                          p \notin c.archived /\ policy.units[p] <= c.capacity[p]

\* An edit names the version it was made against and advances it.  The triggers
\* advance it once per changed row; only whether two versions are equal matters.
Mutate(expected, edited) ==
    /\ expected = config.version /\ config.version < MaxConfig
    /\ config' = [edited EXCEPT !.version = config.version + 1]
    /\ UNCHANGED <<authority, mirror, quotes, attempts, appts, segments, now>>

PutConfig(expected, input) ==
    /\ ValidConfig(input)
    /\ Mutate(expected, [config EXCEPT
                           !.step = input.step, !.notice = input.notice,
                           !.maxParty = input.maxParty,
                           !.before = input.before, !.after = input.after,
                           !.rescheduleCutoff = input.rescheduleCutoff,
                           !.cancellationCutoff = input.cancellationCutoff])

PutHours(expected, periods) ==
    /\ ValidPeriods(periods)
    /\ Mutate(expected, [config EXCEPT !.hours = periods])

\* A staff profile replaces the member's weekly periods and service links.
PutStaffProfile(expected, staff, periods, services) ==
    /\ ValidPeriods(periods)
    /\ Mutate(expected,
              [config EXCEPT
                 !.weekly[staff] = periods,
                 !.policies = [s \in Services |->
                    [config.policies[s] EXCEPT
                        !.staff = IF s \in services THEN @ \cup {staff}
                                                    ELSE @ \ {staff}]]])

PutServicePolicy(expected, service, policy) ==
    /\ ValidServicePolicy(policy)
    /\ Mutate(expected, [config EXCEPT !.policies[service] = policy])

\* CreateResource and UpdateResource: a pool that is not archived.
PutResource(expected, pool, capacity) ==
    /\ capacity >= 1 /\ pool \notin config.archived
    /\ Mutate(expected, [config EXCEPT !.capacity[pool] = capacity])

ArchiveResource(expected, pool) ==
    /\ config.capacity[pool] >= 1
    /\ Mutate(expected, [config EXCEPT !.archived = @ \cup {pool}])

CreateException(expected, e) ==
    /\ ValidException(e)
    /\ \A other \in config.exceptions :
           other.scope = e.scope /\ other.who = e.who => ~ RangesOverlap(other, e)
    /\ Mutate(expected, [config EXCEPT !.exceptions = @ \cup {e}])

CancelException(expected, e) ==
    /\ e \in config.exceptions
    /\ Mutate(expected, [config EXCEPT !.exceptions = @ \ {e}])

\* Mutant: the activation names the next version and does not create it.
ActivateUnversioned(expected) ==
    /\ expected = config.version /\ config.version < MaxConfig
    /\ ConfigurationReady(config)
    /\ config' = [config EXCEPT !.activated = config.version + 1]
    /\ UNCHANGED <<authority, mirror, quotes, attempts, appts, segments, now>>

\* Readiness is evaluated on the version the activation itself creates.
Activate(expected) ==
    /\ ConfigurationReady(config)
    /\ Mutate(expected, [config EXCEPT !.activated = config.version + 1])

-----------------------------------------------------------------------------
(* The rest of the system. *)

\* An owner or a provider sync deactivates or reactivates a staff member; the
\* trigger on staff advances the calendar's version in the same statement.
StaffChanged(s) ==
    /\ config.version < MaxConfig
    /\ config' = [config EXCEPT !.version = @ + 1,
                                !.liveStaff = IF s \in @ THEN @ \ {s} ELSE @ \cup {s}]
    /\ UNCHANGED <<authority, mirror, quotes, attempts, appts, segments, now>>

\* scheduling_authority_switch: see AuthoritySwitch for when it may happen.
SetAuthority(target) ==
    /\ authority.version < MaxAuthority /\ target # authority.name
    /\ authority' = [name |-> target, version |-> authority.version + 1]

SwitchAuthority(target) ==
    /\ SetAuthority(target)
    /\ UNCHANGED <<config, mirror, quotes, attempts, appts, segments, now>>

\* The provider's appointment appears in, or disappears from, the mirror.
MirrorChanged(m) ==
    /\ mirror' = IF m \in mirror THEN mirror \ {m} ELSE mirror \cup {m}
    /\ UNCHANGED <<config, authority, quotes, attempts, appts, segments, now>>

\* The cleanup job deletes quotes that ran out and were never consumed.
CleanupQuote(q) ==
    /\ quotes[q] # None
    /\ quotes[q].expires <= now /\ quotes[q].usedBy = None
    /\ quotes' = [quotes EXCEPT ![q] = None]
    /\ UNCHANGED <<config, authority, mirror, attempts, appts, segments, now>>

Tick ==
    /\ now < MaxNow
    /\ now' = now + 1
    /\ UNCHANGED <<config, authority, mirror, quotes, attempts, appts, segments>>

-----------------------------------------------------------------------------
NoAppointment == [status |-> "none", version |-> 0, start |-> 0, shape |-> <<>>,
                  aversion |-> 0, cversion |-> 0]

Init ==
    /\ config = InitialConfig
    /\ authority = [name |-> Internal, version |-> 1]
    /\ mirror = {}
    /\ quotes = [q \in Quotes |-> None]
    /\ attempts = [k \in Keys |-> None]
    /\ appts = [a \in Appts |-> NoAppointment]
    /\ segments = {}
    /\ now = 0

Execute ==
    \/ \E q \in Quotes, request \in Requests : CheckAvailability(q, request)
    \/ \E q \in Quotes, request \in Requests, a \in Appts :
           CheckReplacement(q, request, a)
    \/ \E k \in Keys, q \in Quotes, root \in 0 .. Day, a \in Appts :
           \/ CreateAppointment(k, q, root, a)
           \/ RescheduleAppointment(k, q, root, a, appts[a].version)
    \/ \E k \in Keys, a \in Appts : CancelAppointment(k, a, appts[a].version)

Configure ==
    \/ \E input \in ConfigInputs : PutConfig(config.version, input)
    \/ \E periods \in HoursInputs : PutHours(config.version, periods)
    \/ \E i \in ProfileInputs :
           PutStaffProfile(config.version, i.staff, i.periods, i.services)
    \/ \E i \in PolicyInputs : PutServicePolicy(config.version, i.service, i.policy)
    \/ \E i \in ResourceInputs : PutResource(config.version, i.pool, i.capacity)
    \/ \E p \in Pools : ArchiveResource(config.version, p)
    \/ \E e \in ExceptionInputs : CreateException(config.version, e)
    \/ \E e \in config.exceptions : CancelException(config.version, e)
    \/ Activate(config.version)
    \/ \E s \in Staff : StaffChanged(s)

Environment ==
    \/ \E m \in ExtBusy : MirrorChanged(m)
    \/ \E q \in Quotes : CleanupQuote(q)
    \/ Tick

Next ==
    \/ Execute
    \/ Configure
    \/ Environment
    \/ \E target \in Authorities : SwitchAuthority(target)

Spec == Init /\ [][Next]_vars

-----------------------------------------------------------------------------
(* What must hold. *)

TypeOK ==
    /\ config.version \in Nat /\ config.activated \in Nat
    /\ config.activated <= config.version
    /\ authority.name \in Authorities /\ authority.version \in Nat
    /\ mirror \subseteq ExtBusy
    /\ \A a \in Appts : appts[a].status \in {"none", "cancelled"} \cup Active
    /\ \A s \in segments : s.appt \in Appts /\ s.segment.staff \in Staff
    /\ now \in Nat

LiveSegments == {s \in segments : ~ s.released}

\* No staff member is ever in two places: the occupied ranges (buffers
\* included) of the unreleased segments of one staff member never overlap,
\* whatever was rescheduled, reconfigured or switched in between.
NoStaffOverlap ==
    \A s, t \in LiveSegments :
        s # t /\ s.segment.staff = t.segment.staff =>
            ~ RangesOverlap(s.segment, t.segment)

\* The rows agree: a live appointment's unreleased segments are exactly one
\* plan, of its current version and its shape; any other appointment has none.
PlanIsCurrent ==
    \A a \in Appts :
        LET live == {s \in LiveSegments : s.appt = a}
        IN  IF appts[a].status \in Active
            THEN /\ {s.order : s \in live} = DOMAIN appts[a].shape
                 /\ Cardinality(live) = Len(appts[a].shape)
                 /\ \A s \in live :
                        /\ s.version = appts[a].version
                        /\ s.segment.service = appts[a].shape[s.order].service
            ELSE live = {}

\* Every accepted operation counts once: an appointment's version is the number
\* of operation keys that changed it, and the versions they produced differ.
\* A quote is consumed by the one operation that used it.
OperationsCountOnce ==
    /\ \A a \in Appts :
           LET mine == {k \in Keys : attempts[k] # None /\ attempts[k].appt = a}
           IN  /\ appts[a].version = Cardinality(mine)
               /\ {attempts[k].version : k \in mine} = 1 .. appts[a].version
    /\ \A k \in Keys : attempts[k] # None /\ attempts[k].quote # None =>
           quotes[attempts[k].quote] # None /\ quotes[attempts[k].quote].usedBy = k

\* A write is safe against the state it is made in, not the one it was quoted
\* in: when a step books segments, each fits the opening hours, the weekly
\* periods and exceptions in force, overlaps nothing the provider's mirror
\* shows, and leaves every pool within its capacity.
WritesFitTheDay ==
    \A s \in segments' \ segments : ~ s.released =>
          /\ ScopeAllowsRange(config.hours, s.segment, "salon", None)
          /\ ScopeAllowsRange(config.weekly[s.segment.staff], s.segment,
                              "staff", s.segment.staff)
          /\ \A m \in mirror : m.staff # 0 /\
                 ~ (m.staff = s.segment.staff /\ RangesOverlap(m, s.segment))
          /\ \A pool \in Pools, tick \in s.segment.from .. s.segment.to - 1 :
                 s.segment.units[pool] > 0 =>
                     UnitsOf({x \in segments' : ~ x.released}, pool, tick)
                         <= EffectiveCapacity(pool, tick)

\* The authority fence: a new appointment is only ever created while the salon
\* is on this calendar, under the activated configuration and in the authority
\* epoch its quote was issued in.  Moving and cancelling stay possible after
\* the salon has switched away.
CreatesUnderAuthority ==
    \A a \in Appts : appts[a].status = "none" /\ appts'[a].status # "none" =>
          /\ authority = [name |-> Internal, version |-> appts'[a].aversion]
          /\ config.activated = config.version
          /\ config.version = appts'[a].cversion

\* What the rows of an appointment, its plan, its quotes and its operations say
\* agrees at all times.
RowsAgree == PlanIsCurrent /\ OperationsCountOnce

\* What a step writes was checked against the state it is written in: the day
\* (WritesFitTheDay) and the authority (CreatesUnderAuthority).
WritesAreFenced == [][WritesFitTheDay /\ CreatesUnderAuthority]_vars

\* The calendar as a ledger of cells (staff member, tick) held by appointments.
HeldCells ==
    [a \in Appts |->
        UNION {{<<s.segment.staff, t>> : t \in s.segment.from .. s.segment.to - 1} :
                  s \in {x \in LiveSegments : x.appt = a}}]

Ledger == INSTANCE SlotLedger
              WITH Owners <- Appts, Cells <- Staff \X (0 .. Day), held <- HeldCells

\* The calendar implements the ledger: a step changes the cells of at most one
\* appointment, to cells that no other appointment holds.
ImplementsLedger == Ledger!Spec
=============================================================================
