-------------------------- MODULE AvailabilityQuotes --------------------------
(***************************************************************************)
(* The availability a caller is offered and the operation that is claimed  *)
(* with it, for a salon that books through its provider (modules/booking:  *)
(* AvailableSlots, CreateAvailabilityQuote, claimPendingOperation and the  *)
(* clean-up of quotes).                                                    *)
(*                                                                         *)
(* A search reads the service, the opening hours and the staff of the last *)
(* import in separate queries, asks the provider and writes a quote; the   *)
(* caller answers later.  Meanwhile the salon may be synchronized, move to *)
(* another location or to another scheduling authority, and the            *)
(* appointment that is to be moved may change.  An import is one value     *)
(* (its menu): the version and the duration of the one service, its staff  *)
(* and the hours.  Leases, dispatch and reconciliation of an attempt are   *)
(* in ExternalBooking and AppointmentActions.                              *)
(***************************************************************************)
EXTENDS Integers, FiniteSets, Sequences

CONSTANTS
    Searches,            \* availability requests that may be under way
    Customers,           \* callers who answer an offer
    Starts,              \* start times
    Places,              \* locations of the provider account
    Menus,               \* imports; a number is also the service's duration
    MaxQuotes,           \* bound on the quotes written
    MaxDisturbances      \* bound on imports, moves, switches and changes of the appointment

ASSUME QuoteConstants ==
    /\ Menus \subseteq Nat \ {0} /\ Menus # {} /\ Starts # {} /\ Places # {}
    /\ MaxQuotes \in Nat /\ MaxDisturbances \in Nat

VARIABLES
    store,     \* pos_connections, the import, salon_settings
    visit,     \* an appointment at the provider
    search,    \* the availability requests under way
    quotes,    \* availability_quotes
    tries,     \* booking_attempts
    answer     \* the requests to book or move that are under way

quoteVars == <<store, visit, search, quotes, tries, answer>>

Undisturbed == store.generation + store.version + visit.version < MaxDisturbances + 3

Fence == [place |-> store.place, generation |-> store.generation]
\* Mutant: any import of the same location.
FenceStandsAtPlace(f) == store.synced /\ f.place = store.place
FenceStands(f) == store.synced /\ f = Fence

IdleSearch == [phase |-> "idle"]
IdleAnswer == [phase |-> "idle"]
Deleted == [provenance |-> "deleted"]

-----------------------------------------------------------------------------
(* The salon's connection, import and authority change underneath. *)

SnapshotBegins ==
    /\ Undisturbed
    /\ store' = [store EXCEPT !.generation = @ + 1, !.synced = FALSE]
    /\ UNCHANGED <<visit, search, quotes, tries, answer>>

SnapshotApplied(m) ==
    /\ ~ store.synced
    /\ store' = [store EXCEPT !.menu = m, !.synced = TRUE]
    /\ UNCHANGED <<visit, search, quotes, tries, answer>>

LocationMoves(p) ==
    /\ Undisturbed /\ p # store.place
    /\ store' = [store EXCEPT !.place = p, !.generation = @ + 1, !.synced = FALSE]
    /\ UNCHANGED <<visit, search, quotes, tries, answer>>

AuthoritySwitches ==
    /\ Undisturbed
    /\ store' = [store EXCEPT !.external = ~ @, !.version = @ + 1]
    /\ UNCHANGED <<visit, search, quotes, tries, answer>>

\* The calendar brings a change that was made at the provider.
VisitChanges(live) ==
    /\ visit.live /\ Undisturbed
    /\ visit' = [visit EXCEPT !.version = @ + 1, !.live = live]
    /\ UNCHANGED <<store, search, quotes, tries, answer>>

-----------------------------------------------------------------------------
(* AvailableSlots. *)

SafeRetryOrigin(i) == tries[i].kind # "reschedule" /\ tries[i].status = "fallback_safe"
                      /\ ~ tries[i].superseded

NewSearch(kind, origin, v) ==
    [phase |-> "asked", kind |-> kind, origin |-> origin, target |-> v,
     fence |-> Fence, seen |-> {}, slots |-> {}]

\* The appointment, the attempt that is retried, or the active provider.
AvailableSlots(r) ==
    /\ search[r] = IdleSearch /\ Len(quotes) < MaxQuotes
    /\ \/ search' = [search EXCEPT ![r] = NewSearch("book", 0, 0)]
       \/ /\ visit.live
          /\ search' = [search EXCEPT ![r] = NewSearch("reschedule", 0, visit.version)]
       \/ \E i \in DOMAIN tries :
            /\ SafeRetryOrigin(i)
            /\ search' = [search EXCEPT ![r] = NewSearch("retry", i, 0)]
    /\ UNCHANGED <<store, visit, quotes, tries, answer>>

Goes(r, next) == search' = [search EXCEPT ![r] = next]
GivesUp(r) == Goes(r, IdleSearch)
Saw(r, phase) == [search[r] EXCEPT !.phase = phase, !.seen = @ \cup {store.menu}]

\* GetBookableService and GetBookableStaff: the import must be complete; the fence
\* of the first service is the fence of the search.
resolveAvailabilitySegments(r) ==
    /\ search[r].phase = "asked"
    /\ IF store.synced THEN Goes(r, [Saw(r, "resolved") EXCEPT !.fence = Fence]) ELSE GivesUp(r)
    /\ UNCHANGED <<store, visit, quotes, tries, answer>>

\* A retry asks for what was asked before, at the same location, in an import that
\* is not older.
validateSafeRetryAvailabilityOrigin(s) ==
    LET origin == tries[s.origin] IN
    /\ s.seen = {origin.menu}
    /\ s.fence.place = origin.fence.place /\ s.fence.generation >= origin.fence.generation

GetSchedule(r) ==
    /\ search[r].phase = "resolved"
    /\ IF /\ FenceStands(search[r].fence)
          /\ search[r].kind = "retry" => validateSafeRetryAvailabilityOrigin(search[r])
       THEN Goes(r, Saw(r, "scheduled")) ELSE GivesUp(r)
    /\ UNCHANGED <<store, visit, quotes, tries, answer>>

\* Staff of another import are left out, and without staff there is no offer.
bookableStaffByPOSID(r) ==
    /\ search[r].phase = "scheduled"
    /\ IF FenceStands(search[r].fence) THEN Goes(r, Saw(r, "staffed")) ELSE GivesUp(r)
    /\ UNCHANGED <<store, visit, quotes, tries, answer>>

\* What the provider finds free, as long as it says the service takes.
ProviderSlots(free, length) == {[start |-> t, length |-> length] : t \in free}

\* A retry keeps the interval and the staff it had.
availabilitySlotMatchesRetryOrigin(s, slot) ==
    s.kind = "retry" => /\ slot.start = tries[s.origin].start
                        /\ slot.length = tries[s.origin].length

CheckAvailability(r) ==
    /\ search[r].phase = "staffed"
    /\ \/ /\ FenceStands(search[r].fence)
          /\ \E free \in SUBSET Starts, length \in Menus :
               Goes(r, [search[r] EXCEPT !.phase = "listed",
                          !.slots = {slot \in ProviderSlots(free, length) :
                                       availabilitySlotMatchesRetryOrigin(search[r], slot)}])
       \/ GivesUp(r)
    /\ UNCHANGED <<store, visit, quotes, tries, answer>>

\* The starts that an unreleased claim of these attempts holds; the claim of the
\* appointment itself does not stand in the way of its own move.
Held == {tries[i].start : i \in {j \in DOMAIN tries : tries[j].status \in {"pos_pending", "confirmed"}}}

FilterExternalClaimedSlots(r) ==
    /\ search[r].phase = "listed"
    /\ LET left == {slot \in search[r].slots : slot.start \notin Held}
       IN  IF left = {} THEN GivesUp(r)
           ELSE Goes(r, [search[r] EXCEPT !.phase = "filtered", !.slots = left])
    /\ UNCHANGED <<store, visit, quotes, tries, answer>>

Provenance(s) == CASE s.kind = "book" -> "known" [] s.kind = "retry" -> "retry_origin"
                   [] OTHER -> "target_origin"

\* The transaction looks again at what the search was made for.
validateRetryAvailabilityQuoteOriginTx(s) ==
    /\ SafeRetryOrigin(s.origin)
    /\ s.fence.place = tries[s.origin].fence.place
    /\ s.fence.generation >= tries[s.origin].fence.generation
    /\ Cardinality(s.slots) = 1
    /\ s.slots = {[start |-> tries[s.origin].start, length |-> tries[s.origin].length]}

TargetStands(v) == visit.live /\ visit.version = v

QuoteWritable(s) ==
    /\ s.kind = "book" => store.external
    /\ s.kind = "retry" => validateRetryAvailabilityQuoteOriginTx(s)
    /\ s.kind = "reschedule" => TargetStands(s.target)
    /\ FenceStands(s.fence)

CreateAvailabilityQuote(r) ==
    LET s == search[r] IN
    /\ s.phase = "filtered" /\ Len(quotes) < MaxQuotes
    /\ quotes' = IF QuoteWritable(s)
                 THEN Append(quotes, [provenance |-> Provenance(s),
                        version |-> IF s.kind = "book" THEN store.version ELSE 0,
                        origin |-> s.origin, target |-> s.target, fence |-> s.fence,
                        slots |-> s.slots, seen |-> s.seen, expired |-> FALSE, consumedBy |-> 0])
                 ELSE quotes
    /\ GivesUp(r)
    /\ UNCHANGED <<store, visit, tries, answer>>

\* Two minutes; whether a spent quote expires makes no difference.
QuoteExpires(q) ==
    /\ quotes[q] # Deleted /\ ~ quotes[q].expired /\ quotes[q].consumedBy = 0
    /\ quotes' = [quotes EXCEPT ![q].expired = TRUE]
    /\ UNCHANGED <<store, visit, search, tries, answer>>

\* A day after it expired; a quote that an attempt refers to is kept.
Collectable(q) ==
    /\ quotes[q] # Deleted /\ quotes[q].expired /\ quotes[q].consumedBy = 0
    /\ \A i \in DOMAIN tries : tries[i].quote # q
CleanupAvailabilityQuotes ==
    /\ \E q \in DOMAIN quotes : Collectable(q)
    /\ quotes' = [q \in DOMAIN quotes |-> IF Collectable(q) THEN Deleted ELSE quotes[q]]
    /\ UNCHANGED <<store, visit, search, tries, answer>>

-----------------------------------------------------------------------------
(* Create and Reschedule with a quote, up to the claim of the operation. *)

QuoteUsable(q) == quotes[q] # Deleted /\ ~ quotes[q].expired /\ FenceStands(quotes[q].fence)

\* A booking is resolved against the import of now; a move takes the fence of its
\* quote and the service of the appointment.
resolveBookingSegments(kind, q, slot, origin) ==
    [phase |-> "resolved", kind |-> kind, quote |-> q, slot |-> slot, origin |-> origin,
     target |-> IF kind = "reschedule" THEN visit.version ELSE 0,
     fence |-> IF kind = "reschedule" THEN quotes[q].fence ELSE Fence,
     menu |-> IF kind = "reschedule" THEN visit.menu ELSE store.menu]

\* A caller takes a slot of a quote, for a new booking or to move the appointment,
\* or the owner retries an attempt with it.
AcceptSlot(c) ==
    /\ answer[c] = IdleAnswer
    /\ \E q \in DOMAIN quotes :
         /\ quotes[q] # Deleted
         /\ \E slot \in quotes[q].slots :
              \/ /\ store.synced
                 /\ answer' = [answer EXCEPT ![c] = resolveBookingSegments("book", q, slot, 0)]
              \/ /\ store.synced
                 /\ \E i \in {j \in DOMAIN tries : SafeRetryOrigin(j) /\ tries[j].customer = c} :
                      answer' = [answer EXCEPT ![c] = resolveBookingSegments("retry", q, slot, i)]
              \/ /\ visit.live /\ QuoteUsable(q)
                 /\ answer' = [answer EXCEPT ![c] = resolveBookingSegments("reschedule", q, slot, 0)]
    /\ UNCHANGED <<store, visit, search, quotes, tries>>

createRequestFingerprint(kind, c, start, place, menu) ==
    <<IF kind = "reschedule" THEN kind ELSE "book", c, start, place, menu>>
Fingerprint(c) ==
    createRequestFingerprint(answer[c].kind, c, answer[c].slot.start, answer[c].fence.place,
                             answer[c].menu)
TryFingerprint(t) == createRequestFingerprint(t.kind, t.customer, t.start, t.fence.place, t.menu)
Standing(c) == {i \in DOMAIN tries : ~ tries[i].superseded /\ TryFingerprint(tries[i]) = Fingerprint(c)}

\* A new booking goes to the authority the quote was made under.
AuthorityStands(a) ==
    a.kind = "book" => /\ store.external /\ quotes[a.quote].provenance = "known"
                       /\ quotes[a.quote].version = store.version

\* A quote serves the purpose it was made for.
QuoteFor(a) ==
    LET q == quotes[a.quote] IN
    CASE a.kind = "book" -> q.provenance = "known"
      [] a.kind = "retry" -> q.provenance = "retry_origin" /\ q.origin = a.origin
      [] OTHER -> q.provenance = "target_origin" /\ q.target = a.target
loadAvailabilityQuoteProviderFenceTx(a) == QuoteUsable(a.quote) /\ QuoteFor(a)

\* The retried attempt stands for the same request and gives way to this one.
sameRetryProviderLocation(a) ==
    LET f == tries[a.origin].fence IN
    f.place = a.fence.place /\ a.fence.generation >= f.generation
Retries(c) ==
    LET a == answer[c] IN
    IF a.kind # "retry" THEN Standing(c) = {}
    ELSE /\ SafeRetryOrigin(a.origin) /\ Standing(c) = {a.origin} /\ sameRetryProviderLocation(a)

\* The quote is unused and offers the slot for what is booked now.
Consumable(a) ==
    /\ quotes[a.quote].consumedBy \in IF a.kind = "retry" THEN {0, a.origin} ELSE {0}
    /\ [start |-> a.slot.start, length |-> a.menu] \in quotes[a.quote].slots

Claimable(c) ==
    LET a == answer[c] IN
    /\ AuthorityStands(a)
    /\ loadAvailabilityQuoteProviderFenceTx(a) /\ a.fence = quotes[a.quote].fence
    /\ a.kind = "reschedule" => TargetStands(a.target)
    /\ Retries(c)
    /\ Consumable(a)

NewTry(c) ==
    LET a == answer[c] IN
    [kind |-> a.kind, customer |-> c, quote |-> a.quote, start |-> a.slot.start,
     length |-> a.menu, menu |-> a.menu, fence |-> a.fence, origin |-> a.origin,
     status |-> IF a.slot.start \in Held THEN "slot_conflict" ELSE "pos_pending",
     superseded |-> FALSE, target |-> a.target,
     \* history, for the property: what was offered, and the salon at the claim
     seen |-> quotes[a.quote].seen, visit |-> IF a.kind = "reschedule" THEN visit.version ELSE 0,
     now |-> [synced |-> store.synced, place |-> store.place, menu |-> store.menu,
              external |-> store.external]]

Superseded(a) ==
    IF a.kind = "retry" THEN [tries EXCEPT ![a.origin].superseded = TRUE] ELSE tries

\* One transaction; a request that is refused, or repeats a standing attempt,
\* changes nothing.
claimPendingOperation(c) ==
    LET a == answer[c] IN
    /\ a.phase = "resolved"
    /\ IF Claimable(c)
       THEN /\ tries' = Append(Superseded(a), NewTry(c))
            /\ quotes' = [quotes EXCEPT ![a.quote].consumedBy = Len(tries) + 1]
       ELSE UNCHANGED <<tries, quotes>>
    /\ answer' = [answer EXCEPT ![c] = IdleAnswer]
    /\ UNCHANGED <<store, visit, search>>

\* The provider books, or says that it did not.
Settles(i) ==
    /\ tries[i].status = "pos_pending"
    /\ \/ /\ tries' = [tries EXCEPT ![i].status = "confirmed"]
          /\ visit' = IF tries[i].kind = "reschedule" /\ Undisturbed
                      THEN [visit EXCEPT !.version = @ + 1] ELSE visit
       \/ tries' = [tries EXCEPT ![i].status = "fallback_safe"] /\ visit' = visit
    /\ UNCHANGED <<store, search, quotes, answer>>

-----------------------------------------------------------------------------
QuoteInit ==
    /\ \E p \in Places, m \in Menus :
         /\ store = [place |-> p, generation |-> 1, synced |-> TRUE, menu |-> m,
                     external |-> TRUE, version |-> 1]
         /\ visit = [live |-> TRUE, version |-> 1, menu |-> m]
    /\ search = [r \in Searches |-> IdleSearch]
    /\ quotes = <<>> /\ tries = <<>>
    /\ answer = [c \in Customers |-> IdleAnswer]

QuoteNext ==
    \/ SnapshotBegins \/ \E m \in Menus : SnapshotApplied(m)
    \/ \E p \in Places : LocationMoves(p)
    \/ AuthoritySwitches \/ \E live \in BOOLEAN : VisitChanges(live)
    \/ \E r \in Searches :
         \/ AvailableSlots(r) \/ resolveAvailabilitySegments(r) \/ GetSchedule(r)
         \/ bookableStaffByPOSID(r) \/ CheckAvailability(r) \/ FilterExternalClaimedSlots(r)
         \/ CreateAvailabilityQuote(r)
    \/ \E q \in DOMAIN quotes : QuoteExpires(q)
    \/ CleanupAvailabilityQuotes
    \/ \E c \in Customers : AcceptSlot(c) \/ claimPendingOperation(c)
    \/ \E i \in DOMAIN tries : Settles(i)

QuoteSpec == QuoteInit /\ [][QuoteNext]_quoteVars

-----------------------------------------------------------------------------
QuoteTypeOK ==
    /\ {store.generation, store.version, visit.version} \subseteq 1 .. MaxDisturbances + 1
    /\ store.place \in Places /\ store.menu \in Menus
    /\ Len(quotes) <= MaxQuotes
    /\ \A i \in DOMAIN tries :
         tries[i].status \in {"pos_pending", "slot_conflict", "confirmed", "fallback_safe"}

\* A quote spends itself on one attempt, made while the import, the location, the
\* authority and the appointment were those it was read under: everything the
\* search read came from the one import that was current when the operation was
\* claimed, however often the salon was synchronized, moved or switched meanwhile.
\* A retry repeats the interval and the location of the attempt it replaces, which
\* no other attempt replaces.
ClaimedAsOffered ==
    \A i \in DOMAIN tries :
      LET t == tries[i] IN
      /\ t.now.synced /\ t.now.place = t.fence.place
      /\ t.seen = {t.now.menu}
      /\ t.kind # "reschedule" => t.menu = t.now.menu
      /\ t.kind = "book" => t.now.external
      /\ t.kind = "reschedule" => t.target = t.visit
      /\ t.kind = "retry" =>
           /\ tries[t.origin].superseded
           /\ t.start = tries[t.origin].start /\ t.length = tries[t.origin].length
           /\ t.fence.place = tries[t.origin].fence.place
      /\ quotes[t.quote] # Deleted
      /\ \A j \in DOMAIN tries \ {i} :
           /\ tries[j].quote # t.quote
           /\ t.kind = "retry" /\ tries[j].kind = "retry" => tries[j].origin # t.origin
=============================================================================
