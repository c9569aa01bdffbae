------------------------ MODULE ExternalBookingProofs ------------------------
(***************************************************************************)
(* Proofs about ExternalBooking, for any number of calls, keys, requests   *)
(* and configuration changes, and any symmetric overlap of requests.       *)
(***************************************************************************)
EXTENDS ExternalBooking, TLAPS

-----------------------------------------------------------------------------
(* Type correctness.                                                       *)

(* A policy gives an attempt values the columns allow.                     *)
Policies == [status : Statuses \ {"absent", "pos_pending"},
             outcome : ProviderOutcomes \ {"not_started", "in_flight"},
             retry : RetryPolicies, recon : Reconciliations]

(* Every policy of the code is one, whatever the provider answered.        *)
LEMMA PolicyType ==
    /\ \A r : FallbackPolicy(r) \in Policies
    /\ \A o : LeaseExpiryPolicy(o) \in Policies
    /\ Confirmed \in Policies /\ Mismatched \in Policies
    /\ \A p : ClaimAfter(p) \in ClaimStates
<1>1. \A r : FallbackPolicy(r) \in Policies
  BY DEF FallbackPolicy, Policies, Statuses, ProviderOutcomes, RetryPolicies, Reconciliations
<1>2. \A o : LeaseExpiryPolicy(o) \in Policies
  BY <1>1 DEF LeaseExpiryPolicy
<1>3. Confirmed \in Policies /\ Mismatched \in Policies
  BY DEF Confirmed, Mismatched, Policies, Statuses, ProviderOutcomes, RetryPolicies, Reconciliations
<1>4. \A p : ClaimAfter(p) \in ClaimStates
  BY DEF ClaimAfter, ClaimStates, HeldClaims, DispatchedClaims
<1> QED BY <1>1, <1>2, <1>3, <1>4

(* Settling an attempt by a policy keeps the columns in their types.       *)
LEMMA SettleType ==
    ASSUME TypeOK, NEW a, NEW p \in Policies, NEW cl \in ClaimStates, Settle(a, p, cl)
    PROVE  /\ status' \in [Calls -> Statuses]
           /\ outcome' \in [Calls -> ProviderOutcomes]
           /\ retry' \in [Calls -> RetryPolicies]
           /\ recon' \in [Calls -> Reconciliations]
           /\ token' \in [Calls -> Calls \cup {None}]
           /\ live' \subseteq Calls
           /\ task' \in [Calls -> TaskStatuses]
           /\ claim' \in [Calls -> ClaimStates]
<1>1. p.status \in Statuses /\ p.outcome \in ProviderOutcomes /\ p.retry \in RetryPolicies
      /\ p.recon \in Reconciliations
  BY DEF Policies
<1>2. task' \in [Calls -> TaskStatuses]
  BY DEF TypeOK, Settle, TaskStatuses
<1> QED BY <1>1, <1>2 DEF TypeOK, Settle

(* A call that ends keeps its fields in their types.                       *)
LEMMA FinishType ==
    ASSUME TypeOK, NEW c \in Calls, Finish(c)
    PROVE  /\ phase' \in [Calls -> Phases]
           /\ work' \in [Calls -> Calls \cup {None}]
           /\ resp' \in [Calls -> Answers]
BY DEF TypeOK, Finish, Phases, Answers

(* Superseding attempts keeps the columns in their types.                  *)
LEMMA SupersedeType ==
    ASSUME TypeOK, NEW S \in SUBSET Calls, Supersede(S)
    PROVE  /\ superseded' \subseteq Calls
           /\ recon' \in [Calls -> Reconciliations]
           /\ task' \in [Calls -> TaskStatuses]
BY DEF TypeOK, Supersede, Reconciliations, TaskStatuses

(* The initial state is well typed.                                        *)
LEMMA TypeInit == Init => TypeOK
BY DEF Init, TypeOK, Statuses, ProviderOutcomes, RetryPolicies, Reconciliations,
       TaskStatuses, ClaimStates, Phases, Answers, ProviderStatuses

(* The claim steps of Create keep the types.                               *)
LEMMA ClaimType ==
    ASSUME TypeOK, NEW c \in Calls,
           Begin(c) \/ ResumeAttempt(c) \/ InsertAttempt(c) \/ InsertConflict(c) \/ ClaimRefused(c)
    PROVE  TypeOK'
<1>1. CASE Begin(c)
  BY <1>1 DEF TypeOK, Begin, Phases, Attempts, attemptVars, mirrorVars, providerVars
<1>2. CASE ResumeAttempt(c)
  BY <1>2 DEF TypeOK, ResumeAttempt, Phases, Attempts, callVars, mirrorVars, providerVars
<1>3. ASSUME InsertAttempt(c) \/ InsertConflict(c)
      PROVE  /\ superseded' \subseteq Calls
             /\ recon' \in [Calls -> Reconciliations]
             /\ task' \in [Calls -> TaskStatuses]
  <2>1. Retried(c) \in SUBSET Calls
    BY DEF Retried, TypeOK
  <2>2. Supersede(Retried(c))
    BY <1>3 DEF InsertAttempt, InsertConflict
  <2> QED BY <2>1, <2>2, SupersedeType
<1>4. CASE InsertAttempt(c)
  BY <1>3, <1>4 DEF TypeOK, InsertAttempt, Phases, Statuses, ClaimStates, HeldClaims,
     callVars, mirrorVars, providerVars
<1>5. CASE InsertConflict(c)
  <2>1. Finish(c)
    BY <1>5 DEF InsertConflict
  <2> QED
    BY <1>3, <1>5, <2>1, FinishType DEF TypeOK, InsertConflict, Statuses, ClaimStates,
       callVars, mirrorVars, providerVars
<1>6. CASE ClaimRefused(c)
  <2>1. Finish(c)
    BY <1>6 DEF ClaimRefused
  <2> QED
    BY <1>6, <2>1, FinishType DEF TypeOK, ClaimRefused, attemptVars, callVars,
       mirrorVars, providerVars
<1> QED BY <1>1, <1>2, <1>4, <1>5, <1>6

(* The dispatch steps of Create keep the types: a call past its claim      *)
(* works on an attempt.                                                    *)
LEMMA DispatchType ==
    ASSUME TypeOK, RunnersAgree, NEW c \in Calls,
           MarkStarted(c) \/ ResolveCustomer(c) \/ CreateAppointment(c) \/ Crash(c)
    PROVE  TypeOK'
<1>1. CASE MarkStarted(c) /\ CanStart(c, work[c])
  BY <1>1 DEF TypeOK, MarkStarted, Phases, ProviderOutcomes, ClaimStates, HeldClaims,
     DispatchedClaims, callVars, mirrorVars, providerVars
<1>2. CASE MarkStarted(c) /\ ~CanStart(c, work[c])
  <2>1. Finish(c)
    BY <1>2 DEF MarkStarted
  <2> QED
    BY <1>2, <2>1, FinishType DEF TypeOK, MarkStarted, callVars, mirrorVars, providerVars
<1>3. CASE ResolveCustomer(c)
  BY <1>3 DEF TypeOK, ResolveCustomer, Phases, Answers, attemptVars, callVars, mirrorVars,
     providerVars
<1>4. CASE CreateAppointment(c)
  <2>1. work[c] \in Calls
    BY <1>4 DEF CreateAppointment, RunnersAgree, Attempts
  <2>2. prov' \in [Calls -> ProviderStatuses \cup {"none"}]
        /\ seen' \subseteq Calls \X ProviderStatuses
    BY <1>4, <2>1, NewStatusesAssumption DEF CreateAppointment, ProviderCreates, TypeOK,
       providerVars, ProviderStatuses
  <2>3. resp' \in [Calls -> Answers]
    BY <1>4, NewStatusesAssumption DEF CreateAppointment, TypeOK, Answers
  <2> QED
    BY <1>4, <2>1, <2>2, <2>3 DEF TypeOK, CreateAppointment, Phases, attemptVars, callVars,
       mirrorVars
<1>5. CASE Crash(c)
  <2>1. Finish(c)
    BY <1>5 DEF Crash
  <2> QED
    BY <1>5, <2>1, FinishType DEF TypeOK, Crash, attemptVars, callVars, mirrorVars, providerVars
<1> QED BY <1>1, <1>2, <1>3, <1>4, <1>5

(* Saving the outcome keeps the types.                                     *)
LEMMA SaveType ==
    ASSUME TypeOK, RunnersAgree, NEW c \in Calls,
           SaveConfirmedBooking(c) \/ SaveFallbackBooking(c)
    PROVE  TypeOK'
<1> DEFINE a == work[c]
           p == FallbackPolicy(resp[c])
           known == resp[c] \notin {"rejected", "uncertain"}
           owns == Owns(c, a) /\ claim[a] \in DispatchedClaims
<1>1. Finish(c)
  BY DEF SaveConfirmedBooking, SaveFallbackBooking
<1>2. a \in Calls
  BY DEF SaveConfirmedBooking, SaveFallbackBooking, RunnersAgree, Attempts
<1>3. ("confirmed" \in ClaimStates) /\ p \in Policies
  BY PolicyType DEF ClaimStates, HeldClaims
<1>4. CASE ~owns
  BY <1>1, <1>4, FinishType DEF TypeOK, SaveConfirmedBooking, SaveFallbackBooking,
     attemptVars, callVars, mirrorVars, providerVars
<1>5. CASE owns /\ SaveConfirmedBooking(c)
  <2>1. Settle(a, Confirmed, "confirmed") \/ Settle(a, Mismatched, ClaimAfter(Mismatched))
    BY <1>5 DEF SaveConfirmedBooking
  <2>2. /\ booking' = [booking EXCEPT ![a] = a]
        /\ appt' \in {appt, [appt EXCEPT ![a] = "confirmed"]}
        /\ owner' \in {owner, [owner EXCEPT ![a] = a]}
        /\ UNCHANGED <<superseded, callVars, providerVars, epoch, sent, attested>>
    BY <1>5 DEF SaveConfirmedBooking, mirrorVars
  <2> QED
    BY <1>1, <1>2, <1>3, <2>1, <2>2, PolicyType, SettleType, FinishType DEF TypeOK,
       callVars, providerVars
<1>6. CASE owns /\ SaveFallbackBooking(c)
  <2>1. Settle(a, Confirmed, "confirmed") \/ Settle(a, p, ClaimAfter(p))
    BY <1>6 DEF SaveFallbackBooking
  <2>2. /\ booking' \in {booking, [booking EXCEPT ![a] = a]}
        /\ owner' \in {owner, [owner EXCEPT ![a] = a]}
        /\ UNCHANGED <<superseded, callVars, appt, providerVars, epoch, sent, attested>>
    BY <1>6 DEF SaveFallbackBooking
  <2> HIDE DEF p
  <2> QED
    BY <1>1, <1>2, <1>3, <2>1, <2>2, PolicyType, SettleType, FinishType DEF TypeOK,
       callVars, providerVars
<1> QED BY <1>4, <1>5, <1>6

(* Lease expiry and recovery keep the types.                               *)
LEMMA LeaseType ==
    ASSUME TypeOK, NEW a \in Calls, LeaseExpires(a) \/ ExpireLease(a)
    PROVE  TypeOK'
<1>1. CASE LeaseExpires(a)
  BY <1>1 DEF TypeOK, LeaseExpires, attemptVars, callVars, runVars, mirrorVars, providerVars
<1>2. CASE ExpireLease(a)
  <2> DEFINE p == LeaseExpiryPolicy(outcome[a])
             cl == IF outcome[a] = "not_started" THEN "released" ELSE ClaimAfter(p)
  <2>1. Settle(a, p, cl)
    BY <1>2 DEF ExpireLease
  <2>2. p \in Policies /\ cl \in ClaimStates
    BY PolicyType DEF ClaimStates
  <2> HIDE DEF p, cl
  <2> QED
    BY <1>2, <2>1, <2>2, SettleType DEF TypeOK, ExpireLease, callVars, runVars, mirrorVars,
       providerVars
<1> QED BY <1>1, <1>2

(* The status a snapshot gives an appointment and its attempt.             *)
LEMMA ImportedType ==
    ASSUME NEW st \in ProviderStatuses
    PROVE  /\ Imported[st] \in {"provider_pending", "confirmed", "declined", "cancelled"}
           /\ Imported[st] \in Statuses
BY DEF ProviderStatuses, Imported, Statuses

(* Calendar synchronization keeps the types.                               *)
LEMMA SyncType ==
    ASSUME TypeOK, NEW b \in Calls, NEW st \in ProviderStatuses,
           UpsertCalendarAppointment(b, st)
    PROVE  TypeOK'
<1>1. appt' \in [Calls -> {"none", "provider_pending", "confirmed", "declined", "cancelled"}]
  BY ImportedType DEF UpsertCalendarAppointment, TypeOK
<1>2. owner' \in [Calls -> Calls \cup {None, Import}]
  BY DEF UpsertCalendarAppointment, TypeOK
<1>3. CASE UNCHANGED attemptVars
  BY <1>1, <1>2, <1>3 DEF TypeOK, UpsertCalendarAppointment, attemptVars, callVars, runVars,
     providerVars
<1>4. ASSUME NEW a \in Calls, SyncAttempt(a, st)
      PROVE  TypeOK'
  <2>1. status' \in [Calls -> Statuses]
    BY <1>4, ImportedType DEF SyncAttempt, TypeOK
  <2>2. /\ outcome' \in [Calls -> ProviderOutcomes] /\ retry' \in [Calls -> RetryPolicies]
    BY <1>4 DEF SyncAttempt, TypeOK, ProviderOutcomes, RetryPolicies
  <2>3. recon' \in [Calls -> Reconciliations] /\ task' \in [Calls -> TaskStatuses]
    BY <1>4 DEF SyncAttempt, TypeOK, Reconciliations, TaskStatuses
  <2> QED
    BY <1>1, <1>2, <1>4, <2>1, <2>2, <2>3 DEF TypeOK, UpsertCalendarAppointment, SyncAttempt,
       callVars, runVars, providerVars
<1> QED BY <1>3, <1>4 DEF UpsertCalendarAppointment

(* The owner's resolutions keep the types.                                 *)
LEMMA ResolveType ==
    ASSUME TypeOK, NEW a \in Calls,
           \/ ResolveNotCreated(a) \/ ResolveEscalated(a)
           \/ \E b \in Calls : ResolveProviderAttached(a, b)
    PROVE  TypeOK'
<1>1. CASE ResolveNotCreated(a)
  BY <1>1 DEF TypeOK, ResolveNotCreated, Statuses, ProviderOutcomes, RetryPolicies,
     Reconciliations, TaskStatuses, ClaimStates, callVars, runVars, mirrorVars, providerVars
<1>2. CASE ResolveEscalated(a)
  BY <1>2 DEF TypeOK, ResolveEscalated, TaskStatuses, callVars, runVars, mirrorVars, providerVars
<1>3. ASSUME NEW b \in Calls, ResolveProviderAttached(a, b)
      PROVE  TypeOK'
  <2>1. /\ superseded' \subseteq Calls
        /\ recon' \in [Calls -> Reconciliations] /\ task' \in [Calls -> TaskStatuses]
    BY <1>3 DEF ResolveProviderAttached, TypeOK, Reconciliations, TaskStatuses
  <2> QED
    BY <1>3, <2>1 DEF TypeOK, ResolveProviderAttached, Statuses, ProviderOutcomes, RetryPolicies,
       ClaimStates, HeldClaims, callVars, runVars, providerVars
<1> QED BY <1>1, <1>2, <1>3

(* The provider and the configuration keep the types.                      *)
LEMMA EnvironmentType ==
    ASSUME TypeOK, (\E b \in Calls : ProviderChanges(b)) \/ ConfigurationChanges
    PROVE  TypeOK'
<1>1. ASSUME NEW b \in Calls, ProviderChanges(b)
      PROVE  TypeOK'
  BY <1>1 DEF TypeOK, ProviderChanges, ProviderStatuses, attemptVars, callVars, runVars, mirrorVars
<1>2. CASE ConfigurationChanges
  BY <1>2 DEF TypeOK, ConfigurationChanges, attemptVars, callVars, runVars, mirrorVars, providerVars
<1> QED BY <1>1, <1>2

(* Every step keeps the types while running calls hold attempts.           *)
LEMMA TypeStep == TypeOK /\ RunnersAgree /\ [Next]_vars => TypeOK'
<1> SUFFICES ASSUME TypeOK, RunnersAgree, [Next]_vars PROVE TypeOK'
  OBVIOUS
<1>1. CASE UNCHANGED vars
  BY <1>1 DEF TypeOK, vars, attemptVars, callVars, runVars, mirrorVars, providerVars
<1>2. ASSUME NEW c \in Calls, Create(c) PROVE TypeOK'
  BY <1>2, ClaimType, DispatchType, SaveType DEF Create
<1>3. CASE Next
  BY <1>2, <1>3, LeaseType, ResolveType, SyncType, EnvironmentType DEF Next
<1> QED BY <1>1, <1>3

-----------------------------------------------------------------------------
(* The inductive invariant.                                                *)

(* It holds initially: nothing is claimed, run or booked.                  *)
LEMMA BookInit == Init => BookInv
<1> SUFFICES ASSUME Init PROVE BookInv
  OBVIOUS
<1>1. ClaimsExclude /\ UnstartedIsUnbooked /\ AbsentIsBlank /\ SafeIsReleased
  BY DEF Init, ClaimsExclude, UnstartedIsUnbooked, AbsentIsBlank, SafeIsReleased,
     HeldClaims, DispatchedClaims
<1>2. OwnersExist /\ RunnersAgree /\ BookedSlotIsHeld
  BY DEF Init, OwnersExist, RunnersAgree, Running, BookedSlotIsHeld, Booked
<1> QED BY <1>1, <1>2 DEF BookInv

(* A call that ends without writing keeps it.                              *)
LEMMA FinishBook ==
    ASSUME TypeOK, BookInv, NEW c \in Calls, Finish(c),
           UNCHANGED <<status, outcome, retry, recon, claim, request, owner, prov, attested>>
    PROVE  BookInv'
<1>1. RunnersAgree'
  BY DEF TypeOK, BookInv, RunnersAgree, Running, Attempts, Finish
<1>2. ClaimsExclude' /\ UnstartedIsUnbooked' /\ AbsentIsBlank' /\ SafeIsReleased'
  BY DEF BookInv, ClaimsExclude, UnstartedIsUnbooked, AbsentIsBlank, SafeIsReleased
<1>3. OwnersExist' /\ BookedSlotIsHeld'
  BY DEF BookInv, OwnersExist, Attempts, BookedSlotIsHeld, Booked
<1> QED BY <1>1, <1>2, <1>3 DEF BookInv

(* So does a step that touches nothing it speaks of.                       *)
LEMMA FrameBook ==
    ASSUME BookInv,
           UNCHANGED <<status, outcome, retry, recon, claim, request, owner, prov, attested,
                       phase, work, resp>>
    PROVE  BookInv'
<1>1. RunnersAgree'
  BY DEF BookInv, RunnersAgree, Running, Attempts
<1>2. ClaimsExclude' /\ UnstartedIsUnbooked' /\ AbsentIsBlank' /\ SafeIsReleased'
  BY DEF BookInv, ClaimsExclude, UnstartedIsUnbooked, AbsentIsBlank, SafeIsReleased
<1>3. OwnersExist' /\ BookedSlotIsHeld'
  BY DEF BookInv, OwnersExist, Attempts, BookedSlotIsHeld, Booked
<1> QED BY <1>1, <1>2, <1>3 DEF BookInv

(* Attempts that stay, and slots that are held or attested, stay so when a *)
(* step rewrites one attempt a whose claim was held and stays held.        *)
LEMMA HeldBook ==
    ASSUME TypeOK, BookInv, NEW a \in Calls,
           NEW st \in Statuses \ {"absent"}, NEW o \in ProviderOutcomes \ {"not_started"},
           NEW rt \in RetryPolicies \ {"safe"}, NEW cl \in HeldClaims,
           claim[a] \in HeldClaims,
           status' = [status EXCEPT ![a] = st],
           outcome' = [outcome EXCEPT ![a] = o],
           retry' = [retry EXCEPT ![a] = rt],
           claim' = [claim EXCEPT ![a] = cl],
           \A x \in Calls : x # a => recon'[x] = recon[x] \/ recon'[x] # "required",
           request' = request, prov' = prov, attested' = attested
    PROVE  /\ ClaimsExclude' /\ UnstartedIsUnbooked' /\ AbsentIsBlank'
           /\ SafeIsReleased' /\ BookedSlotIsHeld'
           /\ Attempts \subseteq Attempts'
<1>1. ClaimsExclude'
  <2> SUFFICES ASSUME NEW x \in Calls, NEW y \in Calls, x # y, claim'[x] \in HeldClaims,
                      claim'[y] \in HeldClaims
               PROVE  <<request[x], request[y]>> \notin Overlaps
    BY DEF ClaimsExclude
  <2>1. claim[x] \in HeldClaims /\ claim[y] \in HeldClaims
    BY DEF TypeOK
  <2> QED BY <2>1 DEF BookInv, ClaimsExclude
<1>2. UnstartedIsUnbooked'
  BY DEF TypeOK, BookInv, UnstartedIsUnbooked
<1>3. AbsentIsBlank'
  <2> SUFFICES ASSUME NEW x \in Calls, status'[x] = "absent"
               PROVE  /\ claim'[x] = "none" /\ outcome'[x] = "not_started"
                      /\ retry'[x] = "none" /\ recon'[x] # "required"
    BY DEF AbsentIsBlank
  <2>1. x # a /\ status[x] = "absent"
    BY DEF TypeOK
  <2> QED BY <2>1 DEF TypeOK, BookInv, AbsentIsBlank
<1>4. SafeIsReleased'
  BY DEF TypeOK, BookInv, SafeIsReleased
<1>5. BookedSlotIsHeld'
  BY DEF TypeOK, BookInv, BookedSlotIsHeld, Booked
<1>6. Attempts \subseteq Attempts'
  BY DEF TypeOK, Attempts
<1> QED BY <1>1, <1>2, <1>3, <1>4, <1>5, <1>6

(* Reading back: what a claim step knows of an absent attempt.             *)
LEMMA InsertableIsAbsent ==
    ASSUME TypeOK, NEW c \in Calls, Insertable(c)
    PROVE  status[c] = "absent" /\ Retried(c) \subseteq Attempts
<1>1. c \notin Attempts
  BY DEF Insertable, ByKey, Attempts
<1>2. Retried(c) \subseteq Attempts
  BY DEF Insertable, Retried, Retryable, SameRequest, Attempts
<1> QED BY <1>1, <1>2 DEF Attempts

(* A call that begins, or resumes an expired lease, keeps the invariant.   *)
LEMMA ResumeBook ==
    ASSUME TypeOK, BookInv, NEW c \in Calls, Begin(c) \/ ResumeAttempt(c)
    PROVE  BookInv'
<1>1. UNCHANGED <<status, outcome, retry, recon, claim, request, owner, prov, attested, resp>>
  BY DEF Begin, ResumeAttempt, attemptVars, callVars, mirrorVars, providerVars
<1>2. ClaimsExclude' /\ UnstartedIsUnbooked' /\ AbsentIsBlank' /\ SafeIsReleased'
  BY <1>1 DEF BookInv, ClaimsExclude, UnstartedIsUnbooked, AbsentIsBlank, SafeIsReleased
<1>3. OwnersExist' /\ BookedSlotIsHeld'
  BY <1>1 DEF BookInv, OwnersExist, Attempts, BookedSlotIsHeld, Booked
<1>4. /\ phase'[c] \in {"done", "claim", "mark"}
      /\ phase'[c] = "mark" => work'[c] \in Attempts
      /\ \A d \in Calls : d # c => phase'[d] = phase[d] /\ work'[d] = work[d]
  BY DEF TypeOK, Begin, ResumeAttempt
<1>5. RunnersAgree'
  BY <1>1, <1>4 DEF BookInv, RunnersAgree, Running, Attempts
<1> QED BY <1>2, <1>3, <1>5 DEF BookInv

(* A new attempt takes a slot that no held claim overlaps, or none.        *)
LEMMA InsertBook ==
    ASSUME TypeOK, BookInv, NEW c \in Calls, InsertAttempt(c) \/ InsertConflict(c)
    PROVE  BookInv'
<1>1. /\ Insertable(c) /\ Supersede(Retried(c))
      /\ status' = [status EXCEPT ![c] = status'[c]]
      /\ status'[c] # "absent"
      /\ claim' = [claim EXCEPT ![c] = claim'[c]]
      /\ UNCHANGED <<outcome, retry, request, owner, prov, attested>>
  BY DEF TypeOK, InsertAttempt, InsertConflict, callVars, mirrorVars, providerVars
<1>2. /\ status[c] = "absent" /\ Retried(c) \subseteq Attempts
  BY <1>1, InsertableIsAbsent
<1>3. /\ claim[c] = "none" /\ outcome[c] = "not_started" /\ retry[c] = "none"
      /\ prov[c] = "none"
  BY <1>2 DEF BookInv, AbsentIsBlank, UnstartedIsUnbooked
<1>4. ClaimsExclude'
  <2>1. CASE InsertConflict(c)
    <3>1. claim'[c] \notin HeldClaims
      BY <2>1 DEF TypeOK, InsertConflict, HeldClaims, DispatchedClaims
    <3> QED BY <1>1, <3>1 DEF TypeOK, BookInv, ClaimsExclude
  <2>2. CASE InsertAttempt(c)
    <3>1. ~SlotTaken(c)
      BY <2>2 DEF InsertAttempt
    <3>2. ASSUME NEW x \in Calls, x # c, claim[x] \in HeldClaims
          PROVE  /\ <<request[x], request[c]>> \notin Overlaps
                 /\ <<request[c], request[x]>> \notin Overlaps
      <4>1. x \in Attempts
        BY <3>2 DEF BookInv, AbsentIsBlank, Attempts, HeldClaims, DispatchedClaims
      <4>2. <<request[x], request[c]>> \notin Overlaps
        BY <3>1, <3>2, <4>1 DEF SlotTaken
      <4>3. request[x] \in Requests /\ request[c] \in Requests
        BY DEF TypeOK
      <4> QED BY <4>2, <4>3, OverlapsAssumption
    <3> SUFFICES ASSUME NEW x \in Calls, NEW y \in Calls, x # y, claim'[x] \in HeldClaims,
                        claim'[y] \in HeldClaims
                 PROVE  <<request[x], request[y]>> \notin Overlaps
      BY <1>1 DEF ClaimsExclude
    <3>3. CASE x = c \/ y = c
      BY <1>1, <3>2, <3>3 DEF TypeOK
    <3>4. CASE x # c /\ y # c
      BY <1>1, <3>4 DEF TypeOK, BookInv, ClaimsExclude
    <3> QED BY <3>3, <3>4
  <2> QED BY <2>1, <2>2
<1>5. UnstartedIsUnbooked'
  BY <1>1 DEF BookInv, UnstartedIsUnbooked
<1>6. AbsentIsBlank'
  <2> SUFFICES ASSUME NEW x \in Calls, status'[x] = "absent"
               PROVE  /\ claim'[x] = "none" /\ outcome'[x] = "not_started"
                      /\ retry'[x] = "none" /\ recon'[x] # "required"
    BY DEF AbsentIsBlank
  <2>1. x # c /\ status[x] = "absent"
    BY <1>1 DEF TypeOK
  <2>2. recon'[x] = recon[x] \/ recon'[x] = "resolved"
    BY <1>1 DEF Supersede
  <2> QED BY <1>1, <2>1, <2>2 DEF TypeOK, BookInv, AbsentIsBlank
<1>7. Attempts \subseteq Attempts'
  BY <1>1 DEF TypeOK, Attempts
<1>8. OwnersExist'
  BY <1>1, <1>7 DEF BookInv, OwnersExist
<1>9. SafeIsReleased'
  BY <1>1, <1>3 DEF TypeOK, BookInv, SafeIsReleased
<1>10. BookedSlotIsHeld'
  BY <1>1, <1>3 DEF TypeOK, BookInv, BookedSlotIsHeld, Booked
<1>11. RunnersAgree'
  <2>1. /\ phase'[c] \in {"mark", "done"}
        /\ phase'[c] = "mark" => work'[c] = c
        /\ \A d \in Calls : d # c => phase'[d] = phase[d] /\ work'[d] = work[d] /\ resp'[d] = resp[d]
    BY DEF TypeOK, InsertAttempt, InsertConflict, Finish
  <2>2. c \in Attempts' /\ c \notin Attempts
    BY <1>1, <1>2 DEF Attempts
  <2>3. \A x \in Attempts : claim'[x] = claim[x]
    BY <1>1, <2>2 DEF TypeOK, Attempts
  <2> QED BY <1>1, <1>7, <2>1, <2>2, <2>3 DEF BookInv, RunnersAgree, Running
<1> QED BY <1>4, <1>5, <1>6, <1>8, <1>9, <1>10, <1>11 DEF BookInv

(* Only one call starts an attempt, and it had no booking until then.      *)
LEMMA MarkBook ==
    ASSUME TypeOK, BookInv, NEW c \in Calls, MarkStarted(c)
    PROVE  BookInv'
<1> DEFINE a == work[c]
<1>1. CASE ~CanStart(c, a)
  <2>1. Finish(c) /\ UNCHANGED <<status, outcome, retry, recon, claim, request, owner, prov, attested>>
    BY <1>1 DEF MarkStarted, callVars, mirrorVars, providerVars
  <2> QED BY <2>1, FinishBook
<1>2. CASE CanStart(c, a)
  <2>1. /\ phase[c] = "mark" /\ a \in Attempts /\ a \in Calls
    BY DEF MarkStarted, BookInv, RunnersAgree, Attempts
  <2>2. /\ outcome[a] = "not_started" /\ claim[a] \in HeldClaims /\ prov[a] = "none"
    BY <1>2, <2>1 DEF CanStart, HeldClaims, BookInv, UnstartedIsUnbooked
  <2>3. retry[a] # "safe"
    BY <2>1, <2>2 DEF BookInv, SafeIsReleased
  <2>4. /\ outcome' = [outcome EXCEPT ![a] = "in_flight"]
        /\ claim' = [claim EXCEPT ![a] = "dispatch_started"]
        /\ phase' = [phase EXCEPT ![c] = "customer"]
        /\ UNCHANGED <<status, retry, recon, request, owner, prov, attested, work, resp>>
    BY <1>2 DEF MarkStarted, callVars, mirrorVars, providerVars
  <2>5. "dispatch_started" \in HeldClaims
    BY DEF HeldClaims, DispatchedClaims
  <2>6. ClaimsExclude' /\ BookedSlotIsHeld' /\ SafeIsReleased'
    BY <2>1, <2>2, <2>3, <2>4, <2>5 DEF TypeOK, BookInv, ClaimsExclude, BookedSlotIsHeld, Booked,
       SafeIsReleased
  <2>7. UnstartedIsUnbooked' /\ AbsentIsBlank' /\ OwnersExist'
    BY <2>1, <2>2, <2>4 DEF TypeOK, BookInv, UnstartedIsUnbooked, AbsentIsBlank, OwnersExist, Attempts
  <2>8. \A d \in Calls : Running(d) => work[d] # a
    BY <2>2 DEF BookInv, RunnersAgree
  <2>9. RunnersAgree'
    BY <2>1, <2>2, <2>4, <2>5, <2>8 DEF TypeOK, BookInv, RunnersAgree, Running, Attempts
  <2> QED BY <2>6, <2>7, <2>9 DEF BookInv
<1> QED BY <1>1, <1>2

(* The customer is resolved, or the call fails before dispatch.            *)
LEMMA CustomerBook ==
    ASSUME TypeOK, BookInv, NEW c \in Calls, ResolveCustomer(c)
    PROVE  BookInv'
<1>1. UNCHANGED <<status, outcome, retry, recon, claim, request, owner, prov, attested, work>>
  BY DEF ResolveCustomer, attemptVars, callVars, mirrorVars, providerVars
<1>2. /\ phase[c] = "customer"
      /\ phase' = [phase EXCEPT ![c] = phase'[c]] /\ phase'[c] \in {"dispatch", "save"}
      /\ resp' = [resp EXCEPT ![c] = resp'[c]]
      /\ phase'[c] = "save" => resp'[c] \in {"rejected", "uncertain"}
  BY DEF ResolveCustomer, TypeOK
<1>3. ClaimsExclude' /\ UnstartedIsUnbooked' /\ AbsentIsBlank' /\ SafeIsReleased'
  BY <1>1 DEF BookInv, ClaimsExclude, UnstartedIsUnbooked, AbsentIsBlank, SafeIsReleased
<1>4. OwnersExist' /\ BookedSlotIsHeld'
  BY <1>1 DEF BookInv, OwnersExist, Attempts, BookedSlotIsHeld, Booked
<1>5. RunnersAgree'
  BY <1>1, <1>2 DEF TypeOK, BookInv, RunnersAgree, Running, Attempts
<1> QED BY <1>3, <1>4, <1>5 DEF BookInv

(* Only the attempt's one runner makes its booking, under a held claim.    *)
LEMMA CreateAppointmentBook ==
    ASSUME TypeOK, BookInv, NEW c \in Calls, CreateAppointment(c)
    PROVE  BookInv'
<1> DEFINE a == work[c]
<1>1. /\ phase[c] = "dispatch" /\ a \in Attempts /\ a \in Calls
      /\ outcome[a] # "not_started" /\ prov[a] = "none"
      /\ claim[a] \in HeldClaims \/ a \in attested
      /\ \A d \in Calls : Running(d) /\ work[d] = a => d = c
  BY DEF CreateAppointment, BookInv, RunnersAgree, Running, Attempts
<1>2. /\ UNCHANGED <<status, outcome, retry, recon, claim, request, owner, attested, work>>
      /\ phase' = [phase EXCEPT ![c] = "save"]
  BY DEF CreateAppointment, attemptVars, callVars, mirrorVars
<1>3. /\ prov' = [prov EXCEPT ![a] = prov'[a]]
      /\ resp' = [resp EXCEPT ![c] = resp'[c]]
      /\ resp'[c] # "none"
      /\ resp'[c] = "rejected" => prov'[a] = "none"
      /\ resp'[c] = "declined" => prov'[a] = "declined"
  <2>1. CASE UNCHANGED providerVars /\ \E r \in {"rejected", "uncertain"} : resp' = [resp EXCEPT ![c] = r]
    BY <1>1, <2>1 DEF TypeOK, providerVars
  <2>2. ASSUME NEW st \in NewStatuses, ProviderCreates(a, st),
               NEW r \in {st, "unrecognized", "uncertain"}, resp' = [resp EXCEPT ![c] = r]
        PROVE  <1>3!1 /\ <1>3!2 /\ <1>3!3 /\ <1>3!4 /\ <1>3!5
    <3>1. prov' = [prov EXCEPT ![a] = st]
      BY <1>1, <2>2 DEF ProviderCreates
    <3>2. resp'[c] = r /\ prov'[a] = st
      BY <1>1, <2>2, <3>1 DEF TypeOK
    <3>3. st \in {"accepted", "pending", "declined"}
      BY <2>2, NewStatusesAssumption
    <3> QED BY <2>2, <3>1, <3>2, <3>3
  <2> QED BY <2>1, <2>2 DEF CreateAppointment
<1>4. ClaimsExclude' /\ AbsentIsBlank' /\ SafeIsReleased' /\ OwnersExist'
  BY <1>2 DEF BookInv, ClaimsExclude, AbsentIsBlank, SafeIsReleased, OwnersExist, Attempts
<1>5. UnstartedIsUnbooked'
  BY <1>1, <1>2, <1>3 DEF TypeOK, BookInv, UnstartedIsUnbooked
<1>6. BookedSlotIsHeld'
  BY <1>1, <1>2, <1>3 DEF TypeOK, BookInv, BookedSlotIsHeld, Booked
<1>7. RunnersAgree'
  <2>1. \A d \in Calls : d # c => phase'[d] = phase[d] /\ resp'[d] = resp[d]
    BY <1>2, <1>3 DEF TypeOK
  <2>2. phase'[c] = "save"
    BY <1>2 DEF TypeOK
  <2>3. ASSUME NEW d \in Calls, d # c, Running(d)
        PROVE  prov'[work[d]] = prov[work[d]]
    <3>1. work[d] \in Calls /\ work[d] # a
      BY <1>1, <2>3 DEF BookInv, RunnersAgree, Running, Attempts
    <3> QED BY <1>1, <1>3, <3>1 DEF TypeOK
  <2> QED BY <1>1, <1>2, <1>3, <2>1, <2>2, <2>3 DEF BookInv, RunnersAgree, Running, Attempts
<1> QED BY <1>4, <1>5, <1>6, <1>7 DEF BookInv

(* The runner of an attempt writes its outcome and ends: nobody else runs  *)
(* the attempt, so what the others hold is untouched.                      *)
LEMMA SettledRunners ==
    ASSUME TypeOK, BookInv, NEW c \in Calls, Finish(c), Running(c),
           NEW o \in ProviderOutcomes \ {"not_started"}, NEW cl,
           Attempts \subseteq Attempts',
           outcome' = [outcome EXCEPT ![work[c]] = o],
           claim' = [claim EXCEPT ![work[c]] = cl],
           prov' = prov, attested' = attested
    PROVE  RunnersAgree'
<1>1. work[c] \in Calls
  BY DEF BookInv, RunnersAgree, Running, Attempts
<1>2. phase'[c] = "done"
  BY DEF TypeOK, Finish
<1>3. ASSUME NEW d \in Calls, d # c
      PROVE  /\ phase'[d] = phase[d] /\ work'[d] = work[d] /\ resp'[d] = resp[d]
             /\ Running(d) => work[d] # work[c]
  BY <1>3 DEF TypeOK, Finish, BookInv, RunnersAgree
<1>4. ASSUME NEW d \in Calls, d # c, Running(d)
      PROVE  outcome'[work[d]] = outcome[work[d]] /\ claim'[work[d]] = claim[work[d]]
  BY <1>3, <1>4 DEF TypeOK, BookInv, RunnersAgree, Running, Attempts
<1> QED BY <1>2, <1>3, <1>4 DEF BookInv, RunnersAgree, Running

(* Owners stay attempts when one more attempt is taken for an owner.       *)
LEMMA OwnersStay ==
    ASSUME TypeOK, OwnersExist, NEW b \in Calls, NEW o \in Attempts' \cup {None, Import},
           Attempts \subseteq Attempts',
           owner' \in {owner, [owner EXCEPT ![b] = o]}
    PROVE  OwnersExist'
BY DEF TypeOK, OwnersExist

(* A confirmed booking keeps its slot, and so does one to be reconciled.   *)
LEMMA SaveConfirmedBook ==
    ASSUME TypeOK, BookInv, NEW c \in Calls, SaveConfirmedBooking(c)
    PROVE  BookInv'
<1> DEFINE a == work[c]
<1>1. CASE ~(Owns(c, a) /\ claim[a] \in DispatchedClaims)
  <2>1. Finish(c) /\ UNCHANGED <<status, outcome, retry, recon, claim, request, owner, prov, attested>>
    BY <1>1 DEF SaveConfirmedBooking, attemptVars, callVars, mirrorVars, providerVars
  <2> QED BY <2>1, FinishBook
<1>2. CASE Owns(c, a) /\ claim[a] \in DispatchedClaims
  <2>1. /\ Running(c) /\ Finish(c) /\ a \in Attempts /\ a \in Calls
        /\ claim[a] \in HeldClaims
    BY <1>2 DEF SaveConfirmedBooking, BookInv, RunnersAgree, Running, Attempts, HeldClaims
  <2>2. /\ request' = request /\ prov' = prov /\ attested' = attested
        /\ owner' \in {owner, [owner EXCEPT ![a] = a]}
    BY <1>2 DEF SaveConfirmedBooking, callVars, providerVars, mirrorVars
  <2>3. PICK p \in {Confirmed, Mismatched}, cl \in {"confirmed", "reconciliation_required"} :
             Settle(a, p, cl)
    BY <1>2 DEF SaveConfirmedBooking, ClaimAfter, Mismatched
  <2>4. /\ p.status \in Statuses \ {"absent"} /\ p.outcome \in ProviderOutcomes \ {"not_started"}
        /\ p.retry \in RetryPolicies \ {"safe"} /\ cl \in HeldClaims
    BY <2>3 DEF Confirmed, Mismatched, Statuses, ProviderOutcomes, RetryPolicies, HeldClaims,
       DispatchedClaims
  <2>5. /\ status' = [status EXCEPT ![a] = p.status] /\ outcome' = [outcome EXCEPT ![a] = p.outcome]
        /\ retry' = [retry EXCEPT ![a] = p.retry] /\ claim' = [claim EXCEPT ![a] = cl]
        /\ recon' = [recon EXCEPT ![a] = p.recon]
    BY <2>3 DEF Settle
  <2>6. \A x \in Calls : x # a => recon'[x] = recon[x] \/ recon'[x] # "required"
    BY <2>5 DEF TypeOK
  <2> HIDE DEF a
  <2>7. /\ ClaimsExclude' /\ UnstartedIsUnbooked' /\ AbsentIsBlank'
        /\ SafeIsReleased' /\ BookedSlotIsHeld' /\ Attempts \subseteq Attempts'
    BY <2>1, <2>2, <2>4, <2>5, <2>6, HeldBook
  <2>8. RunnersAgree'
    BY <2>1, <2>2, <2>4, <2>5, <2>7, SettledRunners DEF a
  <2>9. OwnersExist'
    BY <2>1, <2>2, <2>7, OwnersStay DEF BookInv
  <2> QED BY <2>7, <2>8, <2>9 DEF BookInv
<1> QED BY <1>1, <1>2

(* A step may give up the slot of an attempt that has no live booking, or  *)
(* that an owner attested was not created.                                 *)
LEMMA ReleasedBook ==
    ASSUME TypeOK, BookInv, NEW a \in Calls,
           NEW st \in Statuses \ {"absent"}, NEW o \in ProviderOutcomes \ {"not_started"},
           NEW rt, NEW cl \in {"released", "definite_failure"},
           status' = [status EXCEPT ![a] = st],
           outcome' = [outcome EXCEPT ![a] = o],
           retry' = [retry EXCEPT ![a] = rt],
           claim' = [claim EXCEPT ![a] = cl],
           \A x \in Calls : x # a => recon'[x] = recon[x],
           request' = request, prov' = prov, attested \subseteq attested',
           ~Booked(a) \/ a \in attested'
    PROVE  /\ ClaimsExclude' /\ UnstartedIsUnbooked' /\ AbsentIsBlank'
           /\ SafeIsReleased' /\ BookedSlotIsHeld'
           /\ Attempts \subseteq Attempts'
<1>0. cl \notin HeldClaims
  BY DEF HeldClaims, DispatchedClaims
<1>1. ClaimsExclude'
  <2> SUFFICES ASSUME NEW x \in Calls, NEW y \in Calls, x # y, claim'[x] \in HeldClaims,
                      claim'[y] \in HeldClaims
               PROVE  <<request[x], request[y]>> \notin Overlaps
    BY DEF ClaimsExclude
  <2>1. claim[x] \in HeldClaims /\ claim[y] \in HeldClaims
    BY <1>0 DEF TypeOK
  <2> QED BY <2>1 DEF BookInv, ClaimsExclude
<1>2. UnstartedIsUnbooked'
  BY DEF TypeOK, BookInv, UnstartedIsUnbooked
<1>3. AbsentIsBlank'
  <2> SUFFICES ASSUME NEW x \in Calls, status'[x] = "absent"
               PROVE  /\ claim'[x] = "none" /\ outcome'[x] = "not_started"
                      /\ retry'[x] = "none" /\ recon'[x] # "required"
    BY DEF AbsentIsBlank
  <2>1. x # a /\ status[x] = "absent"
    BY DEF TypeOK
  <2> QED BY <2>1 DEF TypeOK, BookInv, AbsentIsBlank
<1>4. SafeIsReleased'
  BY <1>0 DEF TypeOK, BookInv, SafeIsReleased
<1>5. BookedSlotIsHeld'
  BY DEF TypeOK, BookInv, BookedSlotIsHeld, Booked
<1>6. Attempts \subseteq Attempts'
  BY DEF TypeOK, Attempts
<1> QED BY <1>1, <1>2, <1>3, <1>4, <1>5, <1>6

(* A fallback gives the slot up only after a rejection or a refusal, and   *)
(* then the provider holds no booking.                                     *)
LEMMA SaveFallbackBook ==
    ASSUME TypeOK, BookInv, NEW c \in Calls, SaveFallbackBooking(c)
    PROVE  BookInv'
<1> DEFINE a == work[c]
<1>1. CASE ~(Owns(c, a) /\ claim[a] \in DispatchedClaims)
  <2>1. Finish(c) /\ UNCHANGED <<status, outcome, retry, recon, claim, request, owner, prov, attested>>
    BY <1>1 DEF SaveFallbackBooking, attemptVars, callVars, mirrorVars, providerVars
  <2> QED BY <2>1, FinishBook
<1>2. CASE Owns(c, a) /\ claim[a] \in DispatchedClaims
  <2>1. /\ Running(c) /\ Finish(c) /\ a \in Attempts /\ a \in Calls
        /\ claim[a] \in HeldClaims
    BY <1>2 DEF SaveFallbackBooking, BookInv, RunnersAgree, Running, Attempts, HeldClaims
  <2>2. /\ request' = request /\ prov' = prov /\ attested' = attested
        /\ owner' \in {owner, [owner EXCEPT ![a] = a]}
    BY <1>2 DEF SaveFallbackBooking, callVars, providerVars
  <2>3. \/ Settle(a, Confirmed, "confirmed")
        \/ Settle(a, FallbackPolicy(resp[c]), ClaimAfter(FallbackPolicy(resp[c])))
    BY <1>2 DEF SaveFallbackBooking
  <2>4. CASE Settle(a, Confirmed, "confirmed") \/ resp[c] \in {"uncertain", "unrecognized", "pending"}
    <3>1. PICK p, cl :
             /\ Settle(a, p, cl)
             /\ p.status \in Statuses \ {"absent"} /\ p.outcome \in ProviderOutcomes \ {"not_started"}
             /\ p.retry \in RetryPolicies \ {"safe"} /\ cl \in HeldClaims
      <4>1. CASE Settle(a, Confirmed, "confirmed")
        BY <4>1 DEF Confirmed, Statuses, ProviderOutcomes, RetryPolicies, HeldClaims
      <4>2. CASE /\ resp[c] \in {"uncertain", "unrecognized", "pending"}
                 /\ Settle(a, FallbackPolicy(resp[c]), ClaimAfter(FallbackPolicy(resp[c])))
        <5> DEFINE q == FallbackPolicy(resp[c])
        <5>1. /\ q.status \in Statuses \ {"absent"} /\ q.outcome \in ProviderOutcomes \ {"not_started"}
              /\ q.retry \in RetryPolicies \ {"safe"} /\ q.recon = "required"
          BY <4>2 DEF FallbackPolicy, Statuses, ProviderOutcomes, RetryPolicies
        <5>2. ClaimAfter(q) \in HeldClaims
          BY <5>1 DEF ClaimAfter, HeldClaims, DispatchedClaims
        <5>3. Settle(a, q, ClaimAfter(q))
          BY <4>2
        <5> HIDE DEF q
        <5> QED BY <5>1, <5>2, <5>3
      <4> QED BY <2>3, <2>4, <4>1, <4>2
    <3>2. /\ status' = [status EXCEPT ![a] = p.status] /\ outcome' = [outcome EXCEPT ![a] = p.outcome]
          /\ retry' = [retry EXCEPT ![a] = p.retry] /\ claim' = [claim EXCEPT ![a] = cl]
          /\ recon' = [recon EXCEPT ![a] = p.recon]
      BY <3>1 DEF Settle
    <3>3. \A x \in Calls : x # a => recon'[x] = recon[x] \/ recon'[x] # "required"
      BY <3>2 DEF TypeOK
    <3> HIDE DEF a
    <3>4. /\ ClaimsExclude' /\ UnstartedIsUnbooked' /\ AbsentIsBlank'
          /\ SafeIsReleased' /\ BookedSlotIsHeld' /\ Attempts \subseteq Attempts'
      BY <2>1, <2>2, <3>1, <3>2, <3>3, HeldBook
    <3>5. RunnersAgree'
      BY <2>1, <2>2, <3>1, <3>2, <3>4, SettledRunners DEF a
    <3>6. OwnersExist'
      BY <2>1, <2>2, <3>4, OwnersStay DEF BookInv
    <3> QED BY <3>4, <3>5, <3>6 DEF BookInv
  <2>5. CASE ~Settle(a, Confirmed, "confirmed") /\ resp[c] \notin {"uncertain", "unrecognized", "pending"}
    <3>1. resp[c] \in {"rejected", "declined"}
      BY <2>5 DEF SaveFallbackBooking, TypeOK, Answers, BookInv, RunnersAgree
    <3>2. ~Booked(a)
      BY <3>1 DEF SaveFallbackBooking, BookInv, RunnersAgree, Booked
    <3>3. FallbackPolicy(resp[c]) = [status |-> "fallback_pending", outcome |-> "failed",
                                     retry |-> "safe", recon |-> "not_required"]
      BY <3>1 DEF FallbackPolicy
    <3>4. /\ status' = [status EXCEPT ![a] = "fallback_pending"]
          /\ outcome' = [outcome EXCEPT ![a] = "failed"]
          /\ retry' = [retry EXCEPT ![a] = "safe"]
          /\ recon' = [recon EXCEPT ![a] = "not_required"]
          /\ claim' = [claim EXCEPT ![a] = "definite_failure"]
      BY <2>3, <2>5, <3>3 DEF Settle, ClaimAfter
    <3>5. \A x \in Calls : x # a => recon'[x] = recon[x]
      BY <3>4 DEF TypeOK
    <3>6. /\ "fallback_pending" \in Statuses \ {"absent"}
          /\ "failed" \in ProviderOutcomes \ {"not_started"}
      BY DEF Statuses, ProviderOutcomes
    <3> HIDE DEF a
    <3>7. /\ ClaimsExclude' /\ UnstartedIsUnbooked' /\ AbsentIsBlank'
          /\ SafeIsReleased' /\ BookedSlotIsHeld' /\ Attempts \subseteq Attempts'
      BY <2>1, <2>2, <3>2, <3>4, <3>5, <3>6, ReleasedBook
    <3>8. RunnersAgree'
      BY <2>1, <2>2, <3>4, <3>6, <3>7, SettledRunners DEF a
    <3>9. OwnersExist'
      BY <2>1, <2>2, <3>7, OwnersStay DEF BookInv
    <3> QED BY <3>7, <3>8, <3>9 DEF BookInv
  <2> QED BY <2>4, <2>5
<1> QED BY <1>1, <1>2

(* A step of anyone but the running calls leaves them in agreement if it   *)
(* takes no claim from under one that has yet to dispatch.                 *)
LEMMA RunnersStay ==
    ASSUME TypeOK, BookInv, Attempts \subseteq Attempts',
           UNCHANGED <<phase, work, resp, prov>>,
           \A x \in Calls : outcome'[x] = "not_started" => outcome[x] = "not_started",
           \A x \in Calls :
               \/ claim[x] \in HeldClaims \/ x \in attested =>
                      claim'[x] \in HeldClaims \/ x \in attested'
               \/ outcome[x] = "not_started"
    PROVE  RunnersAgree'
BY DEF BookInv, RunnersAgree, Running, Attempts

(* Recovery gives up a slot only when no call had started the dispatch.    *)
LEMMA ExpireLeaseBook ==
    ASSUME TypeOK, BookInv, NEW a \in Calls, ExpireLease(a)
    PROVE  BookInv'
<1>1. /\ claim[a] \in HeldClaims /\ outcome[a] \in {"not_started", "in_flight"}
      /\ UNCHANGED <<request, prov, attested, owner, phase, work, resp>>
  BY DEF ExpireLease, LeaseExpired, callVars, runVars, mirrorVars, providerVars
<1>2. CASE outcome[a] = "not_started"
  <2>1. LeaseExpiryPolicy(outcome[a]) = [status |-> "fallback_pending", outcome |-> "failed",
                                         retry |-> "safe", recon |-> "not_required"]
    BY <1>2 DEF LeaseExpiryPolicy, FallbackPolicy
  <2>2. /\ status' = [status EXCEPT ![a] = "fallback_pending"]
        /\ outcome' = [outcome EXCEPT ![a] = "failed"]
        /\ retry' = [retry EXCEPT ![a] = "safe"]
        /\ recon' = [recon EXCEPT ![a] = "not_required"]
        /\ claim' = [claim EXCEPT ![a] = "released"]
    <3> DEFINE p == LeaseExpiryPolicy(outcome[a])
    <3>1. Settle(a, p, "released")
      BY <1>2 DEF ExpireLease
    <3>2. /\ p.status = "fallback_pending" /\ p.outcome = "failed"
          /\ p.retry = "safe" /\ p.recon = "not_required"
      BY <2>1
    <3> HIDE DEF p
    <3> QED BY <3>1, <3>2 DEF Settle
  <2>3. ~Booked(a)
    BY <1>2 DEF BookInv, UnstartedIsUnbooked, Booked
  <2>4. \A x \in Calls : x # a => recon'[x] = recon[x]
    BY <2>2 DEF TypeOK
  <2>5. /\ "fallback_pending" \in Statuses \ {"absent"}
        /\ "failed" \in ProviderOutcomes \ {"not_started"}
    BY DEF Statuses, ProviderOutcomes
  <2>6. /\ ClaimsExclude' /\ UnstartedIsUnbooked' /\ AbsentIsBlank'
        /\ SafeIsReleased' /\ BookedSlotIsHeld' /\ Attempts \subseteq Attempts'
    BY <1>1, <2>2, <2>3, <2>4, <2>5, ReleasedBook
  <2>7. \A x \in Calls : x # a => outcome'[x] = outcome[x] /\ claim'[x] = claim[x]
    BY <2>2 DEF TypeOK
  <2>8. outcome'[a] # "not_started"
    BY <2>2 DEF TypeOK
  <2>9. RunnersAgree'
    BY <1>1, <1>2, <2>6, <2>7, <2>8, RunnersStay
  <2>10. OwnersExist'
    BY <1>1, <2>6 DEF BookInv, OwnersExist
  <2> QED BY <2>6, <2>9, <2>10 DEF BookInv
<1>3. CASE outcome[a] = "in_flight"
  <2>1. LeaseExpiryPolicy(outcome[a]) = [status |-> "fallback_pending", outcome |-> "unknown",
                                         retry |-> "blocked", recon |-> "required"]
    BY <1>3 DEF LeaseExpiryPolicy, FallbackPolicy
  <2>2. /\ status' = [status EXCEPT ![a] = "fallback_pending"]
        /\ outcome' = [outcome EXCEPT ![a] = "unknown"]
        /\ retry' = [retry EXCEPT ![a] = "blocked"]
        /\ recon' = [recon EXCEPT ![a] = "required"]
        /\ claim' = [claim EXCEPT ![a] = "reconciliation_required"]
    <3> DEFINE p == LeaseExpiryPolicy(outcome[a])
    <3>1. Settle(a, p, ClaimAfter(p))
      BY <1>3 DEF ExpireLease
    <3>2. /\ p.status = "fallback_pending" /\ p.outcome = "unknown"
          /\ p.retry = "blocked" /\ p.recon = "required"
      BY <2>1
    <3>3. ClaimAfter(p) = "reconciliation_required"
      BY <3>2 DEF ClaimAfter
    <3> HIDE DEF p
    <3> QED BY <3>1, <3>2, <3>3 DEF Settle
  <2>3. \A x \in Calls : x # a => recon'[x] = recon[x] \/ recon'[x] # "required"
    BY <2>2 DEF TypeOK
  <2>4. /\ "fallback_pending" \in Statuses \ {"absent"}
        /\ "unknown" \in ProviderOutcomes \ {"not_started"}
        /\ "blocked" \in RetryPolicies \ {"safe"} /\ "reconciliation_required" \in HeldClaims
    BY DEF Statuses, ProviderOutcomes, RetryPolicies, HeldClaims, DispatchedClaims
  <2>5. /\ ClaimsExclude' /\ UnstartedIsUnbooked' /\ AbsentIsBlank'
        /\ SafeIsReleased' /\ BookedSlotIsHeld' /\ Attempts \subseteq Attempts'
    BY <1>1, <2>2, <2>3, <2>4, HeldBook
  <2>6. \A x \in Calls : x # a => outcome'[x] = outcome[x] /\ claim'[x] = claim[x]
    BY <2>2 DEF TypeOK
  <2>7. outcome'[a] # "not_started" /\ claim'[a] \in HeldClaims
    BY <2>2, <2>4 DEF TypeOK
  <2>8. RunnersAgree'
    BY <1>1, <2>5, <2>6, <2>7, RunnersStay
  <2>9. OwnersExist'
    BY <1>1, <2>5 DEF BookInv, OwnersExist
  <2> QED BY <2>5, <2>8, <2>9 DEF BookInv
<1> QED BY <1>1, <1>2, <1>3

(* Calendar synchronization settles attempts without touching claims.      *)
LEMMA SyncBook ==
    ASSUME TypeOK, BookInv, NEW b \in Calls, NEW st \in ProviderStatuses,
           UpsertCalendarAppointment(b, st)
    PROVE  BookInv'
<1>1. UNCHANGED <<request, prov, attested, phase, work, resp>>
  BY DEF UpsertCalendarAppointment, callVars, runVars, providerVars
<1>2. CASE UNCHANGED attemptVars /\ owner' = [owner EXCEPT ![b] = Import]
  <2>1. UNCHANGED <<status, outcome, retry, recon, claim>>
    BY <1>2 DEF attemptVars
  <2>2. RunnersAgree'
    BY <1>1, <2>1 DEF BookInv, RunnersAgree, Running, Attempts
  <2>3. ClaimsExclude' /\ UnstartedIsUnbooked' /\ AbsentIsBlank' /\ SafeIsReleased'
    BY <1>1, <2>1 DEF BookInv, ClaimsExclude, UnstartedIsUnbooked, AbsentIsBlank, SafeIsReleased
  <2>4. BookedSlotIsHeld'
    BY <1>1, <2>1 DEF BookInv, BookedSlotIsHeld, Booked
  <2>5. OwnersExist'
    BY <1>2, <2>1 DEF TypeOK, BookInv, OwnersExist, Attempts
  <2> QED BY <2>2, <2>3, <2>4, <2>5 DEF BookInv
<1>3. ASSUME NEW a \in Calls, owner' = [owner EXCEPT ![b] = a], SyncAttempt(a, st)
      PROVE  BookInv'
  <2>1. /\ status' = [status EXCEPT ![a] = Imported[st]] /\ Imported[st] # "absent"
        /\ outcome' = [outcome EXCEPT ![a] = "succeeded"]
        /\ claim' = claim
    BY <1>3, ImportedType DEF SyncAttempt
  <2>2. /\ \A x \in Calls : x # a => retry'[x] = retry[x] /\ recon'[x] = recon[x]
        /\ retry'[a] # "safe"
    BY <1>3 DEF SyncAttempt, TypeOK
  <2>3. Attempts \subseteq Attempts' /\ a \in Attempts'
    BY <2>1 DEF TypeOK, Attempts
  <2>4. ClaimsExclude' /\ BookedSlotIsHeld'
    BY <1>1, <2>1 DEF BookInv, ClaimsExclude, BookedSlotIsHeld, Booked
  <2>5. UnstartedIsUnbooked'
    BY <1>1, <2>1 DEF TypeOK, BookInv, UnstartedIsUnbooked
  <2>6. AbsentIsBlank'
    BY <2>1, <2>2 DEF TypeOK, BookInv, AbsentIsBlank
  <2>7. SafeIsReleased'
    BY <2>1, <2>2 DEF BookInv, SafeIsReleased
  <2>8. RunnersAgree'
    <3>1. \A x \in Calls : outcome'[x] = "not_started" => outcome[x] = "not_started"
      BY <2>1 DEF TypeOK
    <3> QED BY <1>1, <2>1, <2>3, <3>1, RunnersStay
  <2>9. OwnersExist'
    BY <1>3, <2>3, OwnersStay DEF BookInv
  <2> QED BY <2>4, <2>5, <2>6, <2>7, <2>8, <2>9 DEF BookInv
<1> QED BY <1>2, <1>3 DEF UpsertCalendarAppointment

(* An owner's attestation gives the slot up and is remembered; attaching   *)
(* keeps the slot; escalating changes nothing here.                        *)
LEMMA ResolveBook ==
    ASSUME TypeOK, BookInv, NEW a \in Calls,
           \/ ResolveNotCreated(a) \/ ResolveEscalated(a)
           \/ \E b \in Calls : ResolveProviderAttached(a, b)
    PROVE  BookInv'
<1>1. CASE ResolveNotCreated(a)
  <2>1. /\ status' = [status EXCEPT ![a] = "fallback_pending"]
        /\ outcome' = [outcome EXCEPT ![a] = "failed"]
        /\ retry' = [retry EXCEPT ![a] = "safe"]
        /\ recon' = [recon EXCEPT ![a] = "resolved"]
        /\ claim' = [claim EXCEPT ![a] = "released"]
        /\ attested' = attested \cup {a}
        /\ UNCHANGED <<request, prov, owner, phase, work, resp>>
    BY <1>1 DEF ResolveNotCreated, callVars, runVars, mirrorVars, providerVars
  <2>2. \A x \in Calls : x # a => recon'[x] = recon[x]
    BY <2>1 DEF TypeOK
  <2>3. /\ "fallback_pending" \in Statuses \ {"absent"}
        /\ "failed" \in ProviderOutcomes \ {"not_started"}
    BY DEF Statuses, ProviderOutcomes
  <2>4. attested \subseteq attested' /\ a \in attested'
    BY <2>1
  <2>5. /\ ClaimsExclude' /\ UnstartedIsUnbooked' /\ AbsentIsBlank'
        /\ SafeIsReleased' /\ BookedSlotIsHeld' /\ Attempts \subseteq Attempts'
    BY <2>1, <2>2, <2>3, <2>4, ReleasedBook
  <2>6. /\ \A x \in Calls : x # a => outcome'[x] = outcome[x] /\ claim'[x] = claim[x]
        /\ outcome'[a] # "not_started"
    BY <2>1 DEF TypeOK
  <2>7. RunnersAgree'
    BY <2>1, <2>4, <2>5, <2>6, RunnersStay
  <2>8. OwnersExist'
    BY <2>1, <2>5 DEF BookInv, OwnersExist
  <2> QED BY <2>5, <2>7, <2>8 DEF BookInv
<1>2. CASE ResolveEscalated(a)
  <2>1. UNCHANGED <<status, outcome, retry, recon, claim, request, owner, prov, attested,
                    phase, work, resp>>
    BY <1>2 DEF ResolveEscalated, callVars, runVars, mirrorVars, providerVars
  <2> QED BY <2>1, FrameBook
<1>3. ASSUME NEW b \in Calls, ResolveProviderAttached(a, b)
      PROVE  BookInv'
  <2>1. /\ claim[a] \in HeldClaims
        /\ status' = [status EXCEPT ![a] = "confirmed"]
        /\ outcome' = [outcome EXCEPT ![a] = "succeeded"]
        /\ retry' = [retry EXCEPT ![a] = "none"]
        /\ claim' = [claim EXCEPT ![a] = "confirmed"]
        /\ owner' = [owner EXCEPT ![b] = a]
        /\ UNCHANGED <<request, prov, attested, phase, work, resp>>
    BY <1>3 DEF ResolveProviderAttached, HeldClaims, callVars, runVars, providerVars
  <2>2. \A x \in Calls : recon'[x] = recon[x] \/ recon'[x] # "required"
    BY <1>3 DEF ResolveProviderAttached
  <2>3. /\ "confirmed" \in Statuses \ {"absent"} /\ "succeeded" \in ProviderOutcomes \ {"not_started"}
        /\ "none" \in RetryPolicies \ {"safe"} /\ "confirmed" \in HeldClaims
    BY DEF Statuses, ProviderOutcomes, RetryPolicies, HeldClaims
  <2>4. /\ ClaimsExclude' /\ UnstartedIsUnbooked' /\ AbsentIsBlank'
        /\ SafeIsReleased' /\ BookedSlotIsHeld' /\ Attempts \subseteq Attempts'
    BY <2>1, <2>2, <2>3, HeldBook
  <2>5. /\ \A x \in Calls : x # a => outcome'[x] = outcome[x] /\ claim'[x] = claim[x]
        /\ outcome'[a] # "not_started" /\ claim'[a] \in HeldClaims
    BY <2>1, <2>3 DEF TypeOK
  <2>6. RunnersAgree'
    BY <2>1, <2>4, <2>5, RunnersStay
  <2>7. a \in Attempts'
    BY <2>1 DEF TypeOK, Attempts
  <2>8. OwnersExist'
    BY <2>1, <2>4, <2>7, OwnersStay DEF BookInv
  <2> QED BY <2>4, <2>6, <2>8 DEF BookInv
<1> QED BY <1>1, <1>2, <1>3

(* The provider only decides or ends bookings that exist.                  *)
LEMMA ProviderBook ==
    ASSUME TypeOK, BookInv, NEW b \in Calls, ProviderChanges(b)
    PROVE  BookInv'
<1>1. UNCHANGED <<status, outcome, retry, recon, claim, request, owner, attested, phase, work, resp>>
  BY DEF ProviderChanges, attemptVars, callVars, runVars, mirrorVars
<1>2. /\ prov[b] \in {"pending", "accepted"}
      /\ \A x \in Calls : x # b => prov'[x] = prov[x]
  BY DEF TypeOK, ProviderChanges
<1>3. ClaimsExclude' /\ AbsentIsBlank' /\ SafeIsReleased' /\ OwnersExist'
  BY <1>1 DEF BookInv, ClaimsExclude, AbsentIsBlank, SafeIsReleased, OwnersExist, Attempts
<1>4. UnstartedIsUnbooked' /\ BookedSlotIsHeld'
  BY <1>1, <1>2 DEF BookInv, UnstartedIsUnbooked, BookedSlotIsHeld, Booked
<1>5. RunnersAgree'
  BY <1>1, <1>2 DEF BookInv, RunnersAgree, Running, Attempts
<1> QED BY <1>3, <1>4, <1>5 DEF BookInv

(* Every step keeps the invariant.                                         *)
LEMMA BookStep == TypeOK /\ BookInv /\ [Next]_vars => BookInv'
<1> SUFFICES ASSUME TypeOK, BookInv, [Next]_vars PROVE BookInv'
  OBVIOUS
<1>1. CASE UNCHANGED vars
  BY <1>1, FrameBook DEF vars, attemptVars, callVars, runVars, mirrorVars, providerVars
<1>2. ASSUME NEW c \in Calls, Create(c) PROVE BookInv'
  <2>1. CASE ClaimRefused(c) \/ Crash(c)
    BY <2>1, FinishBook DEF ClaimRefused, Crash, attemptVars, callVars, mirrorVars, providerVars
  <2> QED
    BY <1>2, <2>1, ResumeBook, InsertBook, MarkBook, CustomerBook, CreateAppointmentBook,
       SaveConfirmedBook, SaveFallbackBook DEF Create
<1>3. ASSUME NEW a \in Calls, LeaseExpires(a) PROVE BookInv'
  BY <1>3, FrameBook DEF LeaseExpires, attemptVars, callVars, runVars, mirrorVars, providerVars
<1>4. CASE ConfigurationChanges
  BY <1>4, FrameBook DEF ConfigurationChanges, attemptVars, callVars, runVars, mirrorVars, providerVars
<1>5. CASE Next
  BY <1>2, <1>3, <1>4, <1>5, ExpireLeaseBook, ResolveBook, SyncBook, ProviderBook DEF Next
<1> QED BY <1>1, <1>5

-----------------------------------------------------------------------------
(* Theorems.                                                               *)

(* The types and the inductive invariant hold of every reachable state of  *)
(* the booking operation, for any number of calls, keys and requests.      *)
THEOREM BookInvariant == Spec => [](TypeOK /\ BookInv)
<1>1. Init => TypeOK /\ BookInv
  BY TypeInit, BookInit
<1>2. TypeOK /\ BookInv /\ [Next]_vars => (TypeOK /\ BookInv)'
  BY TypeStep, BookStep DEF BookInv
<1> QED BY <1>1, <1>2, PTL DEF Spec

(* Every column and every call's memory keeps its type.                    *)
THEOREM TypeCorrect == Spec => []TypeOK
BY BookInvariant, PTL

(* Service.Create, recovery, synchronization and reconciliation never let  *)
(* two overlapping bookings live at the provider, unless an owner attested *)
(* that one of them was not created.                                       *)
THEOREM SlotIsBookedOnce == Spec => []NoDoubleBooking
<1>1. TypeOK /\ BookInv => NoDoubleBooking
  BY DEF BookInv, ClaimsExclude, BookedSlotIsHeld, NoDoubleBooking
<1> QED BY <1>1, BookInvariant, PTL

(* can_retry is never offered for an attempt that has a live booking or    *)
(* that a stalled call can still dispatch.                                 *)
THEOREM RetryIsSafe == Spec => []SafeRetryMeansNoBooking
<1>1. TypeOK /\ BookInv => SafeRetryMeansNoBooking
  BY DEF BookInv, SafeIsReleased, RunnersAgree, BookedSlotIsHeld, SafeRetryMeansNoBooking, Attempts
<1> QED BY <1>1, BookInvariant, PTL

-----------------------------------------------------------------------------
(* One standing attempt per request.                                       *)

(* Only the two inserts add attempts, and superseding is for ever.         *)
LEMMA NoNewAttempt ==
    ASSUME TypeOK, BookInv, [Next]_vars,
           \A c \in Calls : ~InsertAttempt(c) /\ ~InsertConflict(c)
    PROVE  Attempts' \subseteq Attempts /\ superseded \subseteq superseded' /\ request' = request
<1> DEFINE goal == Attempts' \subseteq Attempts /\ superseded \subseteq superseded' /\ request' = request
<1>0. ASSUME NEW a \in Attempts, \A x \in Calls : x # a => status'[x] = status[x]
      PROVE  Attempts' \subseteq Attempts
  BY <1>0 DEF Attempts
<1>1. CASE UNCHANGED vars
  BY <1>1 DEF vars, attemptVars, callVars, Attempts
<1>2. ASSUME NEW c \in Calls, Create(c) PROVE goal
  <2>1. CASE SaveConfirmedBooking(c) \/ SaveFallbackBooking(c)
    <3>1. superseded' = superseded /\ request' = request
      BY <2>1 DEF SaveConfirmedBooking, SaveFallbackBooking, callVars
    <3>2. CASE ~(Owns(c, work[c]) /\ claim[work[c]] \in DispatchedClaims)
      BY <2>1, <3>1, <3>2 DEF SaveConfirmedBooking, SaveFallbackBooking, attemptVars, Attempts
    <3>3. CASE Owns(c, work[c]) /\ claim[work[c]] \in DispatchedClaims
      <4>1. work[c] \in Attempts
        BY <2>1 DEF SaveConfirmedBooking, SaveFallbackBooking, BookInv, RunnersAgree
      <4>2. \E q : status' = [status EXCEPT ![work[c]] = q]
        BY <2>1, <3>3 DEF SaveConfirmedBooking, SaveFallbackBooking, Settle
      <4>3. \A x \in Calls : x # work[c] => status'[x] = status[x]
        BY <4>2 DEF TypeOK
      <4> QED BY <1>0, <3>1, <4>1, <4>3
    <3> QED BY <3>2, <3>3
  <2>2. CASE Begin(c) \/ ResumeAttempt(c) \/ ClaimRefused(c) \/ MarkStarted(c)
             \/ ResolveCustomer(c) \/ CreateAppointment(c) \/ Crash(c)
    BY <2>2 DEF Begin, ResumeAttempt, ClaimRefused, MarkStarted, ResolveCustomer,
       CreateAppointment, Crash, attemptVars, callVars, Attempts
  <2> QED BY <1>2, <2>1, <2>2 DEF Create
<1>3. ASSUME NEW a \in Calls, ExpireLease(a) PROVE goal
  <2>1. a \in Attempts
    BY <1>3 DEF ExpireLease, LeaseExpired, Attempts
  <2>2. superseded' = superseded /\ request' = request
    BY <1>3 DEF ExpireLease, callVars
  <2>3. \A x \in Calls : x # a => status'[x] = status[x]
    BY <1>3 DEF ExpireLease, Settle, TypeOK
  <2> QED BY <1>0, <2>1, <2>2, <2>3
<1>4. ASSUME NEW a \in Calls, NEW b \in Calls,
             ResolveNotCreated(a) \/ ResolveEscalated(a) \/ ResolveProviderAttached(a, b)
      PROVE  goal
  <2>1. a \in Attempts
    BY <1>4 DEF ResolveNotCreated, ResolveEscalated, ResolveProviderAttached, Reconcilable,
       BookInv, AbsentIsBlank, Attempts
  <2>2. superseded \subseteq superseded' /\ request' = request
    BY <1>4 DEF ResolveNotCreated, ResolveEscalated, ResolveProviderAttached, callVars
  <2>3. \A x \in Calls : x # a => status'[x] = status[x]
    BY <1>4 DEF ResolveNotCreated, ResolveEscalated, ResolveProviderAttached, TypeOK
  <2> QED BY <1>0, <2>1, <2>2, <2>3
<1>5. ASSUME NEW b \in Calls, NEW st \in ProviderStatuses, UpsertCalendarAppointment(b, st)
      PROVE  goal
  <2>1. superseded' = superseded /\ request' = request
    BY <1>5 DEF UpsertCalendarAppointment, callVars
  <2>2. CASE UNCHANGED attemptVars
    BY <2>1, <2>2 DEF attemptVars, Attempts
  <2>3. ASSUME NEW a \in Calls, owner[b] = a \/ a \in Claimants(b), SyncAttempt(a, st)
        PROVE  goal
    <3>1. a \in Attempts
      BY <2>3, NoneAssumption DEF Claimants, BookInv, OwnersExist
    <3>2. \A x \in Calls : x # a => status'[x] = status[x]
      BY <2>3 DEF SyncAttempt, TypeOK
    <3> QED BY <1>0, <2>1, <3>1, <3>2
  <2> QED BY <1>5, <2>2, <2>3 DEF UpsertCalendarAppointment
<1>6. ASSUME NEW a \in Calls, LeaseExpires(a) \/ ProviderChanges(a) \/ ConfigurationChanges
      PROVE  goal
  BY <1>6 DEF LeaseExpires, ProviderChanges, ConfigurationChanges, attemptVars, callVars, Attempts
<1>7. CASE ConfigurationChanges
  BY <1>7 DEF ConfigurationChanges, attemptVars, callVars, Attempts
<1>8. CASE Next
  BY <1>2, <1>3, <1>4, <1>5, <1>6, <1>7, <1>8 DEF Next
<1> QED BY <1>1, <1>8

(* An insert supersedes the one attempt that stood for the request.        *)
LEMMA InsertStanding ==
    ASSUME TypeOK, OneStandingAttempt, NEW c \in Calls, InsertAttempt(c) \/ InsertConflict(c)
    PROVE  OneStandingAttempt'
<1>1. /\ Insertable(c) /\ request' = request /\ superseded' = superseded \cup Retried(c)
      /\ \A x \in Calls : x # c => status'[x] = status[x]
  BY DEF TypeOK, InsertAttempt, InsertConflict, Supersede, callVars
<1>2. SameRequest(c) \subseteq Retried(c)
  <2>1. CASE retryOf[c] = None
    BY <1>1, <2>1 DEF Insertable
  <2>2. CASE retryOf[c] # None
    BY <1>1, <2>2 DEF Insertable, Retried
  <2> QED BY <2>1, <2>2
<1>3. Attempts' \subseteq Attempts \cup {c}
  BY <1>1 DEF Attempts
<1>4. \A x \in Attempts' \ superseded' : x # c => x \in Attempts \ superseded /\ request[x] # request[c]
  BY <1>1, <1>2, <1>3 DEF SameRequest
<1> QED BY <1>1, <1>3, <1>4 DEF OneStandingAttempt

(* Retries, resumed leases, conflicts, synchronization and reconciliation  *)
(* never leave two attempts standing for one request.                      *)
THEOREM OneAttemptStands == Spec => []OneStandingAttempt
<1>1. Init => OneStandingAttempt
  BY DEF Init, OneStandingAttempt, Attempts
<1>2. TypeOK /\ BookInv /\ OneStandingAttempt /\ [Next]_vars => OneStandingAttempt'
  <2> SUFFICES ASSUME TypeOK, BookInv, OneStandingAttempt, [Next]_vars
               PROVE  OneStandingAttempt'
    OBVIOUS
  <2>1. CASE \A c \in Calls : ~InsertAttempt(c) /\ ~InsertConflict(c)
    BY <2>1, NoNewAttempt DEF OneStandingAttempt
  <2>2. CASE \E c \in Calls : InsertAttempt(c) \/ InsertConflict(c)
    BY <2>2, InsertStanding
  <2> QED BY <2>1, <2>2
<1> QED BY <1>1, <1>2, BookInvariant, PTL DEF Spec

-----------------------------------------------------------------------------
(* One dispatch per attempt.                                               *)

(* Whoever sent an attempt is past its dispatch and is the last to run it. *)
SentInv ==
    \A c, a \in Calls : <<c, a>> \in sent =>
        /\ outcome[a] # "not_started" /\ phase[c] \in {"save", "done"}
        /\ \A d \in Calls : Running(d) /\ work[d] = a => d = c

(* A step that sends nothing keeps it: outcomes never return to            *)
(* not_started, calls never go back, and a call only starts to run an      *)
(* attempt nobody has started.                                             *)
LEMMA SentFrame ==
    ASSUME SentInv, sent' = sent,
           \A a \in Calls : outcome'[a] = "not_started" => outcome[a] = "not_started",
           \A c \in Calls : phase[c] \in {"save", "done"} => phase'[c] \in {"save", "done"},
           \A d \in Calls : Running(d)' =>
               \/ Running(d) /\ work'[d] = work[d]
               \/ outcome[work'[d]] = "not_started"
    PROVE  SentInv'
BY DEF SentInv

(* Every step keeps it.                                                    *)
LEMMA SentStep == TypeOK /\ BookInv /\ SentInv /\ [Next]_vars => SentInv'
<1> SUFFICES ASSUME TypeOK, BookInv, SentInv, [Next]_vars PROVE SentInv'
  OBVIOUS
<1>1. ASSUME UNCHANGED <<phase, work, sent>>,
             \A a \in Calls : outcome'[a] = "not_started" => outcome[a] = "not_started"
      PROVE  SentInv'
  BY <1>1, SentFrame DEF Running
<1>2. ASSUME NEW c \in Calls, Finish(c), sent' = sent,
             \A a \in Calls : outcome'[a] = "not_started" => outcome[a] = "not_started"
      PROVE  SentInv'
  <2>1. /\ phase'[c] = "done"
        /\ \A d \in Calls : d # c => phase'[d] = phase[d] /\ work'[d] = work[d]
    BY <1>2 DEF TypeOK, Finish
  <2> QED BY <1>2, <2>1, SentFrame DEF Running
<1>3. ASSUME NEW c \in Calls, Create(c) PROVE SentInv'
  <2>1. CASE Begin(c) \/ ResumeAttempt(c) \/ InsertAttempt(c)
    <3>1. /\ phase[c] \in {"idle", "claim"} /\ phase'[c] \in {"claim", "done", "mark"}
          /\ \A d \in Calls : d # c => phase'[d] = phase[d] /\ work'[d] = work[d]
          /\ sent' = sent /\ outcome' = outcome
      BY <2>1 DEF TypeOK, Begin, ResumeAttempt, InsertAttempt, attemptVars
    <3> QED BY <3>1, SentFrame DEF Running
  <2>2. CASE InsertConflict(c) \/ ClaimRefused(c) \/ Crash(c)
    BY <1>2, <2>2 DEF InsertConflict, ClaimRefused, Crash, attemptVars
  <2>3. CASE MarkStarted(c)
    <3>1. CASE CanStart(c, work[c])
      <4>1. /\ phase[c] = "mark" /\ phase'[c] = "customer" /\ outcome[work[c]] = "not_started"
            /\ \A d \in Calls : d # c => phase'[d] = phase[d]
            /\ work' = work /\ sent' = sent
        BY <2>3, <3>1 DEF TypeOK, MarkStarted, CanStart
      <4>2. \A a \in Calls : outcome'[a] = "not_started" => outcome[a] = "not_started"
        BY <2>3, <3>1 DEF TypeOK, MarkStarted
      <4> QED BY <4>1, <4>2, SentFrame DEF Running
    <3>2. CASE ~CanStart(c, work[c])
      BY <1>2, <2>3, <3>2 DEF MarkStarted
    <3> QED BY <3>1, <3>2
  <2>4. CASE ResolveCustomer(c)
    <3>1. /\ phase[c] = "customer" /\ phase'[c] \in {"dispatch", "save"}
          /\ \A d \in Calls : d # c => phase'[d] = phase[d]
          /\ work' = work /\ sent' = sent /\ outcome' = outcome
      BY <2>4 DEF TypeOK, ResolveCustomer, attemptVars
    <3> QED BY <3>1, SentFrame DEF Running
  <2>5. CASE CreateAppointment(c)
    <3>1. /\ phase[c] = "dispatch" /\ phase'[c] = "save"
          /\ \A d \in Calls : d # c => phase'[d] = phase[d]
          /\ work' = work /\ sent' = sent \cup {<<c, work[c]>>} /\ outcome' = outcome
      BY <2>5 DEF TypeOK, CreateAppointment, attemptVars
    <3>2. /\ outcome[work[c]] # "not_started"
          /\ \A d \in Calls : Running(d) /\ work[d] = work[c] => d = c
      BY <3>1 DEF BookInv, RunnersAgree, Running
    <3>3. \A d \in Calls : Running(d)' <=> Running(d)
      BY <3>1 DEF Running
    <3> SUFFICES ASSUME NEW x \in Calls, NEW a \in Calls, <<x, a>> \in sent'
                 PROVE  /\ outcome'[a] # "not_started" /\ phase'[x] \in {"save", "done"}
                        /\ \A d \in Calls : Running(d)' /\ work'[d] = a => d = x
      BY DEF SentInv
    <3>4. CASE x = c /\ a = work[c]
      BY <3>1, <3>2, <3>3, <3>4
    <3>5. CASE <<x, a>> \in sent
      BY <3>1, <3>3, <3>5 DEF SentInv
    <3> QED BY <3>1, <3>4, <3>5
  <2>6. CASE SaveConfirmedBooking(c) \/ SaveFallbackBooking(c)
    <3>1. Finish(c) /\ sent' = sent
      BY <2>6 DEF SaveConfirmedBooking, SaveFallbackBooking
    <3>2. CASE ~(Owns(c, work[c]) /\ claim[work[c]] \in DispatchedClaims)
      BY <1>2, <2>6, <3>1, <3>2 DEF SaveConfirmedBooking, SaveFallbackBooking, attemptVars
    <3>3. CASE Owns(c, work[c]) /\ claim[work[c]] \in DispatchedClaims
      <4>1. PICK p \in Policies : outcome' = [outcome EXCEPT ![work[c]] = p.outcome]
        BY <2>6, <3>3, PolicyType DEF SaveConfirmedBooking, SaveFallbackBooking, Settle
      <4>2. p.outcome # "not_started"
        BY DEF Policies
      <4>3. \A a \in Calls : outcome'[a] = "not_started" => outcome[a] = "not_started"
        BY <4>1, <4>2 DEF TypeOK
      <4> QED BY <1>2, <3>1, <4>3
    <3> QED BY <3>2, <3>3
  <2> QED BY <1>3, <2>1, <2>2, <2>3, <2>4, <2>5, <2>6 DEF Create
<1>4. ASSUME NEW a \in Calls, ExpireLease(a) PROVE SentInv'
  <2>1. UNCHANGED <<phase, work, sent>>
    BY <1>4 DEF ExpireLease, runVars
  <2>2. PICK p \in Policies : outcome' = [outcome EXCEPT ![a] = p.outcome]
    BY <1>4, PolicyType DEF ExpireLease, Settle
  <2>3. p.outcome # "not_started"
    BY DEF Policies
  <2>4. \A x \in Calls : outcome'[x] = "not_started" => outcome[x] = "not_started"
    BY <2>2, <2>3 DEF TypeOK
  <2> QED BY <1>1, <2>1, <2>4
<1>5. ASSUME NEW a \in Calls, NEW b \in Calls,
             ResolveNotCreated(a) \/ ResolveEscalated(a) \/ ResolveProviderAttached(a, b)
      PROVE  SentInv'
  <2>1. UNCHANGED <<phase, work, sent>>
    BY <1>5 DEF ResolveNotCreated, ResolveEscalated, ResolveProviderAttached, runVars
  <2>2. \A x \in Calls : outcome'[x] = "not_started" => outcome[x] = "not_started"
    BY <1>5 DEF ResolveNotCreated, ResolveEscalated, ResolveProviderAttached, TypeOK
  <2> QED BY <1>1, <2>1, <2>2
<1>6. ASSUME NEW b \in Calls, NEW st \in ProviderStatuses, UpsertCalendarAppointment(b, st)
      PROVE  SentInv'
  <2>1. UNCHANGED <<phase, work, sent>>
    BY <1>6 DEF UpsertCalendarAppointment, runVars
  <2>2. \A x \in Calls : outcome'[x] = "not_started" => outcome[x] = "not_started"
    BY <1>6 DEF UpsertCalendarAppointment, SyncAttempt, attemptVars, TypeOK
  <2> QED BY <1>1, <2>1, <2>2
<1>7. CASE UNCHANGED vars \/ ConfigurationChanges
           \/ \E a \in Calls : LeaseExpires(a) \/ ProviderChanges(a)
  BY <1>1, <1>7 DEF vars, ConfigurationChanges, LeaseExpires, ProviderChanges, attemptVars, runVars
<1>8. CASE Next
  BY <1>3, <1>4, <1>5, <1>6, <1>7, <1>8 DEF Next
<1> QED BY <1>7, <1>8

(* No attempt is handed to the provider by two calls: a resumed lease and  *)
(* its former holder never both dispatch.                                  *)
THEOREM AttemptIsDispatchedOnce == Spec => []DispatchedOnce
<1>1. Init => SentInv /\ DispatchedOnce
  BY DEF Init, SentInv, DispatchedOnce
<1>2. TypeOK /\ BookInv /\ SentInv /\ DispatchedOnce /\ [Next]_vars => DispatchedOnce'
  <2> SUFFICES ASSUME TypeOK, BookInv, SentInv, DispatchedOnce, [Next]_vars
               PROVE  DispatchedOnce'
    OBVIOUS
  <2>1. CASE sent' = sent
    BY <2>1 DEF DispatchedOnce
  <2>2. ASSUME NEW c \in Calls, CreateAppointment(c) PROVE DispatchedOnce'
    <3>1. /\ phase[c] = "dispatch" /\ sent' = sent \cup {<<c, work[c]>>} /\ work[c] \in Calls
      BY <2>2 DEF CreateAppointment, BookInv, RunnersAgree, Attempts
    <3>2. \A s \in sent : s[2] # work[c]
      <4> SUFFICES ASSUME NEW s \in sent, s[2] = work[c] PROVE FALSE
        OBVIOUS
      <4>1. PICK d \in Calls : s = <<d, work[c]>>
        BY DEF TypeOK
      <4>2. phase[d] \in {"save", "done"} /\ c = d
        BY <3>1, <4>1 DEF SentInv, Running
      <4> QED BY <3>1, <4>2
    <3> QED BY <3>1, <3>2 DEF DispatchedOnce
  <2>3. CASE \A c \in Calls : ~CreateAppointment(c)
    <3>1. sent' = sent
      BY <2>3 DEF Next, Create, Begin, ResumeAttempt, InsertAttempt, InsertConflict, ClaimRefused,
         MarkStarted, ResolveCustomer, SaveConfirmedBooking, SaveFallbackBooking, Crash,
         LeaseExpires, ExpireLease, ResolveNotCreated, ResolveEscalated, ResolveProviderAttached,
         ProviderChanges, UpsertCalendarAppointment, ConfigurationChanges, vars
    <3> QED BY <2>1, <3>1
  <2> QED BY <2>2, <2>3
<1> QED BY <1>1, <1>2, SentStep, BookInvariant, PTL DEF Spec

(* A request has one standing attempt, and an attempt is dispatched once.  *)
THEOREM AttemptsStaySingle == Spec => []AttemptsAreSingle
BY OneAttemptStands, AttemptIsDispatchedOnce, PTL DEF AttemptsAreSingle

-----------------------------------------------------------------------------
(* What is shown of an attempt, and the mirrored calendar.                 *)

(* UnknownHasTask, for attempts that are not there yet too.                *)
TaskAgrees == \A a \in Calls : recon[a] = "required" <=> UnresolvedTask(a)

(* What has not settled is not in question and has no booking.             *)
PendingIsFresh ==
    \A a \in Calls : status[a] \in {"absent", "pos_pending"} =>
        recon[a] # "required" /\ booking[a] = None

(* The attempt an appointment belongs to names its booking.                *)
OwnerIsBooked == \A a, b \in Calls : owner[b] = a => booking[a] = b

(* An appointment shows a status its booking has had.                      *)
MirrorIsSeen ==
    \A b \in Calls : appt[b] # "none" =>
        \E st \in ProviderStatuses : <<b, st>> \in seen /\ Imported[st] = appt[b]

(* A call that was answered 'accepted' works on a booking that was.        *)
AnswerIsSeen ==
    \A c \in Calls : phase[c] = "save" /\ resp[c] = "accepted" =>
        <<work[c], "accepted">> \in seen

ConfirmedIsSeen ==
    \A a \in Calls : status[a] = "confirmed" =>
        booking[a] # None /\ <<booking[a], "accepted">> \in seen

AccountInv ==
    /\ TaskAgrees /\ PendingIsFresh /\ OwnerIsBooked
    /\ MirrorIsSeen /\ AnswerIsSeen /\ ConfirmedIsSeen

LEMMA AccountInit == Init => AccountInv
<1> SUFFICES ASSUME Init PROVE AccountInv
  OBVIOUS
<1> QED
  BY NoneAssumption DEF Init, AccountInv, TaskAgrees, UnresolvedTask, PendingIsFresh, OwnerIsBooked,
     MirrorIsSeen, AnswerIsSeen, ConfirmedIsSeen

(* Steps that do not touch what AccountInv speaks of.                      *)
LEMMA AccountFrame ==
    ASSUME AccountInv,
           UNCHANGED <<status, recon, booking, task, owner, appt, seen, phase, work, resp>>
    PROVE  AccountInv'
BY DEF AccountInv, TaskAgrees, UnresolvedTask, PendingIsFresh, OwnerIsBooked, MirrorIsSeen,
       AnswerIsSeen, ConfirmedIsSeen

(* A call that is not at its answer, or ends, has none to account for.     *)
LEMMA AnswerGone ==
    ASSUME TypeOK, AccountInv, NEW c \in Calls, seen \subseteq seen',
           phase'[c] # "save" \/ resp'[c] # "accepted",
           \A d \in Calls : d # c => /\ phase'[d] = phase[d] /\ resp'[d] = resp[d]
                                     /\ work'[d] = work[d]
    PROVE  AnswerIsSeen'
BY DEF AccountInv, AnswerIsSeen

LEMMA FinishGone ==
    ASSUME TypeOK, AccountInv, NEW c \in Calls, Finish(c), seen' = seen
    PROVE  AnswerIsSeen'
<1>1. phase'[c] # "save"
  BY DEF Finish, TypeOK
<1>2. \A d \in Calls : d # c => /\ phase'[d] = phase[d] /\ resp'[d] = resp[d]
                                /\ work'[d] = work[d]
  BY DEF Finish, TypeOK
<1> QED BY <1>1, <1>2, AnswerGone

(* The rows and the mirror stay, for every call's progress.                *)
LEMMA RowsStay ==
    ASSUME AccountInv, AnswerIsSeen', seen \subseteq seen',
           UNCHANGED <<status, recon, booking, task, owner, appt>>
    PROVE  AccountInv'
BY DEF AccountInv, TaskAgrees, UnresolvedTask, PendingIsFresh, OwnerIsBooked, MirrorIsSeen,
       ConfirmedIsSeen

(* Imports are told apart by what they import.                             *)
LEMMA ImportedConfirmed ==
    \A st \in ProviderStatuses : Imported[st] = "confirmed" <=> st = "accepted"
BY DEF Imported, ProviderStatuses

LEMMA ConfirmedMirror ==
    ASSUME AccountInv, NEW b \in Calls, appt[b] = "confirmed"
    PROVE  <<b, "accepted">> \in seen
BY ImportedConfirmed DEF AccountInv, MirrorIsSeen

(* Superseding closes the task of an attempt in question.                  *)
LEMMA InsertAccount ==
    ASSUME TypeOK, BookInv, AccountInv, NEW c \in Calls, InsertAttempt(c) \/ InsertConflict(c)
    PROVE  AccountInv'
<1>1. /\ Insertable(c) /\ Supersede(Retried(c))
      /\ status' = [status EXCEPT ![c] = IF InsertAttempt(c) THEN "pos_pending" ELSE "failed"]
      /\ UNCHANGED <<booking, owner, appt, seen>>
  BY DEF InsertAttempt, InsertConflict, mirrorVars, providerVars
<1>2. status[c] = "absent"
  BY <1>1, InsertableIsAbsent
<1>3. AnswerIsSeen'
  <2>1. CASE InsertAttempt(c)
    BY <1>1, <2>1, AnswerGone DEF InsertAttempt, TypeOK
  <2>2. CASE InsertConflict(c)
    BY <1>1, <2>2, FinishGone DEF InsertConflict
  <2> QED BY <2>1, <2>2
<1>4. TaskAgrees'
  BY <1>1 DEF AccountInv, TaskAgrees, UnresolvedTask, Supersede
<1>5. PendingIsFresh'
  BY <1>1, <1>2 DEF AccountInv, PendingIsFresh, Supersede, TypeOK
<1>6. ConfirmedIsSeen'
  BY <1>1, <1>2 DEF AccountInv, ConfirmedIsSeen, TypeOK
<1> QED BY <1>1, <1>3, <1>4, <1>5, <1>6 DEF AccountInv, OwnerIsBooked, MirrorIsSeen

(* An attempt that settles is in question exactly if its task is opened.   *)
LEMMA SettleAccount ==
    ASSUME TypeOK, AccountInv, NEW a \in Calls, status[a] = "pos_pending",
           NEW p \in Policies, NEW cl, Settle(a, p, cl),
           \A x \in Calls : x # a => booking'[x] = booking[x]
    PROVE  TaskAgrees' /\ PendingIsFresh'
<1>1. /\ status' = [status EXCEPT ![a] = p.status]
      /\ recon' = [recon EXCEPT ![a] = p.recon]
      /\ task' = IF p.recon = "required" THEN [task EXCEPT ![a] = "open"] ELSE task
  BY DEF Settle
<1>2. ~UnresolvedTask(a)
  BY DEF AccountInv, TaskAgrees, PendingIsFresh
<1>3. TaskAgrees'
  BY <1>1, <1>2 DEF AccountInv, TaskAgrees, UnresolvedTask, TypeOK
<1>4. p.status \notin {"absent", "pos_pending"}
  BY DEF Policies
<1> QED BY <1>1, <1>3, <1>4 DEF AccountInv, PendingIsFresh, TypeOK

(* What an attempt is given by its caller or by the sweep agrees with what *)
(* is seen: it is confirmed only for a booking the provider accepted.      *)
LEMMA OutcomeAccount ==
    ASSUME TypeOK, BookInv, AccountInv, NEW a \in Calls, status[a] = "pos_pending",
           NEW p \in Policies, NEW cl, Settle(a, p, cl),
           NEW k \in {None, a}, booking' = [booking EXCEPT ![a] = k],
           owner' = owner \/ (k = a /\ owner' = [owner EXCEPT ![a] = a]),
           p.status = "confirmed" => k = a /\ <<a, "accepted">> \in seen,
           seen' = seen, MirrorIsSeen', AnswerIsSeen'
    PROVE  AccountInv'
<1>1. \A x \in Calls : x # a => booking'[x] = booking[x]
  BY DEF TypeOK
<1>2. TaskAgrees' /\ PendingIsFresh'
  BY <1>1, SettleAccount
<1>3. \A b \in Calls : owner[b] # a
  BY NoneAssumption DEF AccountInv, PendingIsFresh, OwnerIsBooked
<1>4. OwnerIsBooked'
  BY <1>1, <1>3, NoneAssumption DEF AccountInv, OwnerIsBooked, TypeOK
<1>5. ConfirmedIsSeen'
  <2>1. status' = [status EXCEPT ![a] = p.status]
    BY DEF Settle
  <2> QED BY <1>1, <2>1, NoneAssumption DEF AccountInv, ConfirmedIsSeen, TypeOK
<1> QED BY <1>2, <1>4, <1>5 DEF AccountInv

(* The steps of a call up to its answer leave every row as it was.         *)
LEMMA ProgressAccount ==
    ASSUME TypeOK, BookInv, AccountInv, NEW c \in Calls,
           \/ Begin(c) \/ ResumeAttempt(c) \/ ClaimRefused(c) \/ MarkStarted(c)
           \/ ResolveCustomer(c) \/ CreateAppointment(c) \/ Crash(c)
    PROVE  AccountInv'
<1>1. UNCHANGED <<status, recon, booking, task, owner, appt>>
  BY DEF Begin, ResumeAttempt, ClaimRefused, MarkStarted, ResolveCustomer, CreateAppointment,
     Crash, attemptVars, mirrorVars
<1>2. seen \subseteq seen'
  BY DEF Begin, ResumeAttempt, ClaimRefused, MarkStarted, ResolveCustomer, CreateAppointment,
     ProviderCreates, Crash, providerVars
<1>3. AnswerIsSeen'
  <2>1. CASE ClaimRefused(c) \/ Crash(c) \/ (MarkStarted(c) /\ ~CanStart(c, work[c]))
    <3>1. Finish(c) /\ seen' = seen
      BY <2>1 DEF ClaimRefused, Crash, MarkStarted, providerVars
    <3> QED BY <3>1, FinishGone
  <2>2. CASE Begin(c) \/ ResumeAttempt(c) \/ (MarkStarted(c) /\ CanStart(c, work[c]))
             \/ ResolveCustomer(c)
    <3>1. phase'[c] # "save" \/ resp'[c] # "accepted"
      BY <2>2 DEF TypeOK, Begin, ResumeAttempt, MarkStarted, ResolveCustomer
    <3>2. \A d \in Calls : d # c => /\ phase'[d] = phase[d] /\ resp'[d] = resp[d]
                                    /\ work'[d] = work[d]
      BY <2>2 DEF TypeOK, Begin, ResumeAttempt, MarkStarted, ResolveCustomer
    <3> QED BY <1>2, <3>1, <3>2, AnswerGone
  <2>3. CASE CreateAppointment(c)
    <3>1. work' = work /\ phase[c] = "dispatch" /\ prov[work[c]] = "none"
      BY <2>3 DEF CreateAppointment, BookInv, RunnersAgree
    <3>2. \A d \in Calls : d # c => phase'[d] = phase[d] /\ resp'[d] = resp[d]
      BY <2>3 DEF CreateAppointment, TypeOK
    <3>3. resp'[c] = "accepted" => <<work[c], "accepted">> \in seen'
      BY <2>3, <3>1, NewStatusesAssumption DEF CreateAppointment, ProviderCreates, TypeOK
    <3> QED BY <1>2, <3>1, <3>2, <3>3 DEF AccountInv, AnswerIsSeen
  <2> QED BY <2>1, <2>2, <2>3
<1> QED BY <1>1, <1>2, <1>3, RowsStay

(* A confirmed booking is shown as what it is: the provider's answer is    *)
(* seen, and an imported appointment is taken over only if it agrees.      *)
LEMMA SaveConfirmedAccount ==
    ASSUME TypeOK, BookInv, AccountInv, NEW c \in Calls, SaveConfirmedBooking(c)
    PROVE  AccountInv'
<1> DEFINE a == work[c]
<1>1. Finish(c) /\ seen' = seen /\ phase[c] = "save" /\ resp[c] = "accepted"
  BY DEF SaveConfirmedBooking, providerVars
<1>2. AnswerIsSeen' /\ <<a, "accepted">> \in seen
  BY <1>1, FinishGone DEF AccountInv, AnswerIsSeen
<1>3. a \in Calls
  BY <1>1 DEF BookInv, RunnersAgree, Attempts
<1>4. CASE ~(Owns(c, a) /\ claim[a] \in DispatchedClaims)
  BY <1>1, <1>2, <1>4, RowsStay DEF SaveConfirmedBooking, attemptVars, mirrorVars
<1>5. CASE Owns(c, a) /\ claim[a] \in DispatchedClaims
  <2>1. status[a] = "pos_pending"
    BY <1>5 DEF Owns
  <2>2. PICK p \in {Confirmed, Mismatched}, cl \in {"confirmed", ClaimAfter(Mismatched)} :
             /\ Settle(a, p, cl)
             /\ booking' = [booking EXCEPT ![a] = a]
             /\ \/ appt' = appt /\ owner' = owner
                \/ /\ appt' = [appt EXCEPT ![a] = "confirmed"]
                   /\ owner' = [owner EXCEPT ![a] = a]
    BY <1>5 DEF SaveConfirmedBooking, mirrorVars
  <2>3. p \in Policies
    BY <2>2, PolicyType
  <2>4. MirrorIsSeen'
    <3>1. "accepted" \in ProviderStatuses /\ Imported["accepted"] = "confirmed"
      BY DEF ProviderStatuses, Imported
    <3>2. \A b \in Calls : appt'[b] = appt[b] \/ (b = a /\ appt'[b] = "confirmed")
      BY <1>3, <2>2 DEF TypeOK
    <3> QED BY <1>1, <1>2, <3>1, <3>2 DEF AccountInv, MirrorIsSeen
  <2> HIDE DEF a
  <2> QED BY <1>1, <1>2, <1>3, <2>1, <2>2, <2>3, <2>4, OutcomeAccount
<1> QED BY <1>4, <1>5

(* A fallback confirms an attempt only by an appointment that is.          *)
LEMMA SaveFallbackAccount ==
    ASSUME TypeOK, BookInv, AccountInv, NEW c \in Calls, SaveFallbackBooking(c)
    PROVE  AccountInv'
<1> DEFINE a == work[c]
<1>1. Finish(c) /\ seen' = seen /\ appt' = appt /\ phase[c] = "save"
  BY DEF SaveFallbackBooking, providerVars
<1>2. AnswerIsSeen' /\ MirrorIsSeen'
  BY <1>1, FinishGone DEF AccountInv, MirrorIsSeen
<1>3. a \in Calls
  BY <1>1 DEF BookInv, RunnersAgree, Attempts
<1>4. CASE ~(Owns(c, a) /\ claim[a] \in DispatchedClaims)
  BY <1>1, <1>2, <1>4, RowsStay DEF SaveFallbackBooking, attemptVars, mirrorVars
<1>5. CASE Owns(c, a) /\ claim[a] \in DispatchedClaims
  <2>1. status[a] = "pos_pending"
    BY <1>5 DEF Owns
  <2>2. booking[a] = None
    BY <1>3, <2>1 DEF AccountInv, PendingIsFresh
  <2>3. booking = [booking EXCEPT ![a] = None]
    BY <1>3, <2>2 DEF TypeOK
  <2>4. PICK k \in {None, a} : booking' = [booking EXCEPT ![a] = k]
    BY <1>5, <2>3 DEF SaveFallbackBooking
  <2>5. CASE Settle(a, Confirmed, "confirmed") /\ MirrorMatches(a)
             /\ owner' = [owner EXCEPT ![a] = a] /\ booking' = [booking EXCEPT ![a] = a]
    <3>1. <<a, "accepted">> \in seen
      BY <1>3, <2>5, ConfirmedMirror DEF MirrorMatches
    <3> HIDE DEF a
    <3> QED BY <1>1, <1>2, <1>3, <2>1, <2>5, <3>1, PolicyType, OutcomeAccount
  <2>6. CASE Settle(a, FallbackPolicy(resp[c]), ClaimAfter(FallbackPolicy(resp[c]))) /\ owner' = owner
    <3>1. FallbackPolicy(resp[c]).status # "confirmed"
      BY DEF FallbackPolicy
    <3> HIDE DEF a
    <3> QED BY <1>1, <1>2, <1>3, <2>1, <2>4, <2>6, <3>1, PolicyType, OutcomeAccount
  <2> QED BY <1>5, <2>5, <2>6 DEF SaveFallbackBooking
<1> QED BY <1>4, <1>5

(* Recovery never confirms.                                                *)
LEMMA ExpireLeaseAccount ==
    ASSUME TypeOK, BookInv, AccountInv, NEW a \in Calls, ExpireLease(a)
    PROVE  AccountInv'
<1> DEFINE p == LeaseExpiryPolicy(outcome[a])
<1>1. PICK cl : Settle(a, p, cl)
  BY DEF ExpireLease
<1>2. status[a] = "pos_pending"
  BY DEF ExpireLease, LeaseExpired
<1>3. /\ booking' = [booking EXCEPT ![a] = None]
      /\ UNCHANGED <<owner, seen, appt, phase, work, resp>>
  BY <1>2 DEF ExpireLease, AccountInv, PendingIsFresh, TypeOK, mirrorVars, providerVars, runVars
<1>4. p.status # "confirmed"
  BY DEF LeaseExpiryPolicy, FallbackPolicy
<1>5. AnswerIsSeen' /\ MirrorIsSeen'
  BY <1>3 DEF AccountInv, AnswerIsSeen, MirrorIsSeen
<1>6. p \in Policies
  BY PolicyType
<1> HIDE DEF p
<1> QED BY <1>1, <1>2, <1>3, <1>4, <1>5, <1>6, OutcomeAccount

(* A snapshot settles only the attempt that names the booking it shows.    *)
LEMMA SyncAccount ==
    ASSUME TypeOK, AccountInv, NEW b \in Calls, NEW st \in ProviderStatuses,
           UpsertCalendarAppointment(b, st)
    PROVE  AccountInv'
<1>1. /\ <<b, st>> \in seen /\ appt' = [appt EXCEPT ![b] = Imported[st]]
      /\ UNCHANGED <<phase, work, resp, prov, seen>>
  BY DEF UpsertCalendarAppointment, runVars, providerVars
<1>2. AnswerIsSeen' /\ MirrorIsSeen'
  BY <1>1 DEF AccountInv, AnswerIsSeen, MirrorIsSeen, TypeOK
<1>3. CASE UNCHANGED attemptVars /\ owner' = [owner EXCEPT ![b] = Import]
  <2>1. OwnerIsBooked'
    BY <1>3, NoneAssumption DEF AccountInv, OwnerIsBooked, TypeOK, attemptVars
  <2> QED BY <1>1, <1>2, <1>3, <2>1 DEF AccountInv, TaskAgrees, UnresolvedTask, PendingIsFresh,
             ConfirmedIsSeen, attemptVars
<1>4. ASSUME NEW a \in Calls, owner[b] = a \/ a \in Claimants(b),
             owner' = [owner EXCEPT ![b] = a], SyncAttempt(a, st)
      PROVE  AccountInv'
  <2>1. booking[a] = b
    BY <1>4 DEF AccountInv, OwnerIsBooked, Claimants
  <2>2. booking' = booking /\ status' = [status EXCEPT ![a] = Imported[st]]
    BY <1>4 DEF SyncAttempt
  <2>3. OwnerIsBooked'
    BY <1>4, <2>1, <2>2 DEF AccountInv, OwnerIsBooked, TypeOK
  <2>4. TaskAgrees'
    BY <1>4 DEF SyncAttempt, AccountInv, TaskAgrees, UnresolvedTask, TypeOK
  <2>5. PendingIsFresh'
    <3>1. Imported[st] \notin {"absent", "pos_pending"}
      BY ImportedType
    <3>2. \A x \in Calls : x # a => recon'[x] = recon[x]
      BY <1>4 DEF SyncAttempt, TypeOK
    <3> QED BY <2>2, <3>1, <3>2 DEF AccountInv, PendingIsFresh, TypeOK
  <2>6. ConfirmedIsSeen'
    BY <1>1, <2>1, <2>2, ImportedConfirmed, NoneAssumption DEF AccountInv, ConfirmedIsSeen, TypeOK
  <2> QED BY <1>2, <2>3, <2>4, <2>5, <2>6 DEF AccountInv
<1> QED BY <1>3, <1>4 DEF UpsertCalendarAppointment

(* The owner's resolutions close the task with the question.               *)
LEMMA ResolveAccount ==
    ASSUME TypeOK, AccountInv, NEW a \in Calls,
           \/ ResolveNotCreated(a) \/ ResolveEscalated(a)
           \/ \E b \in Calls : ResolveProviderAttached(a, b)
    PROVE  AccountInv'
<1>1. CASE ResolveNotCreated(a)
  <2>1. /\ status' = [status EXCEPT ![a] = "fallback_pending"]
        /\ recon' = [recon EXCEPT ![a] = "resolved"]
        /\ task' = [task EXCEPT ![a] = "resolved"]
        /\ UNCHANGED <<booking, owner, appt, seen, phase, work, resp>>
    BY <1>1 DEF ResolveNotCreated, runVars, mirrorVars, providerVars
  <2>2. TaskAgrees' /\ PendingIsFresh' /\ ConfirmedIsSeen'
    BY <2>1 DEF AccountInv, TaskAgrees, UnresolvedTask, PendingIsFresh, ConfirmedIsSeen, TypeOK
  <2> QED BY <2>1, <2>2 DEF AccountInv, OwnerIsBooked, MirrorIsSeen, AnswerIsSeen
<1>2. CASE ResolveEscalated(a)
  <2>1. /\ task' = [task EXCEPT ![a] = "escalated"] /\ recon[a] = "required"
        /\ UNCHANGED <<status, recon, booking, owner, appt, seen, phase, work, resp>>
    BY <1>2 DEF ResolveEscalated, Reconcilable, runVars, mirrorVars, providerVars
  <2>2. TaskAgrees'
    BY <2>1 DEF AccountInv, TaskAgrees, UnresolvedTask, TypeOK
  <2> QED BY <2>1, <2>2 DEF AccountInv, PendingIsFresh, ConfirmedIsSeen, OwnerIsBooked,
             MirrorIsSeen, AnswerIsSeen
<1>3. ASSUME NEW b \in Calls, ResolveProviderAttached(a, b)
      PROVE  AccountInv'
  <2>1. /\ status' = [status EXCEPT ![a] = "confirmed"]
        /\ booking' = [booking EXCEPT ![a] = b]
        /\ owner' = [owner EXCEPT ![b] = a]
        /\ UNCHANGED <<appt, seen, phase, work, resp>>
    BY <1>3 DEF ResolveProviderAttached, runVars, providerVars
  <2>2. appt[b] = "confirmed" /\ (booking[a] # None => b = booking[a])
    BY <1>3 DEF ResolveProviderAttached, Candidates
  <2>3. <<b, "accepted">> \in seen
    BY <2>2, ConfirmedMirror
  <2>4. TaskAgrees'
    BY <1>3 DEF ResolveProviderAttached, AccountInv, TaskAgrees, UnresolvedTask
  <2>5. \A x \in Calls : recon'[x] = "required" => recon[x] = "required"
    BY <1>3 DEF ResolveProviderAttached
  <2>6. PendingIsFresh' /\ ConfirmedIsSeen'
    BY <2>1, <2>3, <2>5, NoneAssumption DEF AccountInv, PendingIsFresh, ConfirmedIsSeen, TypeOK
  <2>7. OwnerIsBooked'
    BY <2>1, <2>2, NoneAssumption DEF AccountInv, OwnerIsBooked, TypeOK
  <2> QED BY <2>1, <2>4, <2>6, <2>7 DEF AccountInv, MirrorIsSeen, AnswerIsSeen
<1> QED BY <1>1, <1>2, <1>3

(* Every step keeps the account.                                           *)
LEMMA AccountStep == TypeOK /\ BookInv /\ AccountInv /\ [Next]_vars => AccountInv'
<1> SUFFICES ASSUME TypeOK, BookInv, AccountInv, [Next]_vars PROVE AccountInv'
  OBVIOUS
<1>1. CASE UNCHANGED vars
  BY <1>1, AccountFrame DEF vars, attemptVars, runVars, mirrorVars, providerVars
<1>2. ASSUME NEW c \in Calls, Create(c) PROVE AccountInv'
  BY <1>2, ProgressAccount, InsertAccount, SaveConfirmedAccount, SaveFallbackAccount DEF Create
<1>3. ASSUME NEW a \in Calls, LeaseExpires(a) PROVE AccountInv'
  BY <1>3, AccountFrame DEF LeaseExpires, attemptVars, runVars, mirrorVars, providerVars
<1>4. ASSUME NEW b \in Calls, ProviderChanges(b) PROVE AccountInv'
  <2>1. /\ seen \subseteq seen'
        /\ UNCHANGED <<status, recon, booking, task, owner, appt, phase, work, resp>>
    BY <1>4 DEF ProviderChanges, attemptVars, runVars, mirrorVars
  <2>2. AnswerIsSeen'
    BY <2>1 DEF AccountInv, AnswerIsSeen
  <2> QED BY <2>1, <2>2, RowsStay
<1>5. CASE ConfigurationChanges
  BY <1>5, AccountFrame DEF ConfigurationChanges, attemptVars, runVars, mirrorVars, providerVars
<1>6. CASE Next
  BY <1>2, <1>3, <1>4, <1>5, <1>6, ExpireLeaseAccount, ResolveAccount, SyncAccount DEF Next
<1> QED BY <1>1, <1>6

(* The types, the claim ledger's invariant and the account hold of every   *)
(* reachable state.                                                        *)
THEOREM AccountInvariant == Spec => [](TypeOK /\ BookInv /\ AccountInv)
<1>1. Init => TypeOK /\ BookInv /\ AccountInv
  BY TypeInit, BookInit, AccountInit
<1>2. TypeOK /\ BookInv /\ AccountInv /\ [Next]_vars => (TypeOK /\ BookInv /\ AccountInv)'
  BY TypeStep, BookStep, AccountStep DEF BookInv
<1> QED BY <1>1, <1>2, PTL DEF Spec

(* What is in question is on the owner's list and nothing else is, and a   *)
(* confirmed attempt names a booking the provider accepted, however        *)
(* answers, snapshots, recovery and the owner interleave.                  *)
THEOREM AttemptsAccounted == Spec => []AttemptsAreAccountedFor
<1>1. TypeOK /\ AccountInv => AttemptsAreAccountedFor
  BY DEF AccountInv, TaskAgrees, ConfirmedIsSeen, AttemptsAreAccountedFor, UnknownHasTask,
     ConfirmedIsAccepted, Attempts
<1> QED BY <1>1, AccountInvariant, PTL

(* A step that moves an appointment moves it forward.                      *)
LEMMA MirrorMoves ==
    ASSUME TypeOK, BookInv, AccountInv, Next
    PROVE  /\ \A b \in Calls : Version[appt'[b]] >= Version[appt[b]]
           /\ appt' = appt \/ seen' = seen
<1>0. \A x \in {"none", "provider_pending", "confirmed", "declined", "cancelled"} : Version[x] \in Nat
  BY DEF Version
<1>1. CASE appt' = appt
  BY <1>0, <1>1 DEF TypeOK
<1>2. ASSUME NEW c \in Calls, SaveConfirmedBooking(c), appt' # appt
      PROVE  (\A x \in Calls : Version[appt'[x]] >= Version[appt[x]]) /\ seen' = seen
  <2> DEFINE a == work[c]
  <2>1. a \in Calls
    BY <1>2 DEF SaveConfirmedBooking, BookInv, RunnersAgree, Attempts
  <2>2. /\ appt[a] \in {"none", "confirmed"}
        /\ appt' = [appt EXCEPT ![a] = "confirmed"] /\ seen' = seen
    BY <1>2 DEF SaveConfirmedBooking, MirrorMatches, mirrorVars, providerVars
  <2>3. Version[appt'[a]] >= Version[appt[a]]
    BY <2>1, <2>2 DEF TypeOK, Version
  <2> HIDE DEF a
  <2> QED BY <1>0, <2>1, <2>2, <2>3 DEF TypeOK
<1>3. ASSUME NEW b \in Calls, NEW st \in ProviderStatuses, UpsertCalendarAppointment(b, st)
      PROVE  (\A x \in Calls : Version[appt'[x]] >= Version[appt[x]]) /\ seen' = seen
  <2>1. /\ appt' = [appt EXCEPT ![b] = Imported[st]] /\ seen' = seen
        /\ Version[Imported[st]] > Version[appt[b]]
    BY <1>3 DEF UpsertCalendarAppointment, NewerThanMirror, providerVars
  <2>2. Imported[st] \in {"none", "provider_pending", "confirmed", "declined", "cancelled"}
    BY ImportedType
  <2> QED BY <1>0, <2>1, <2>2 DEF TypeOK
<1>4. ASSUME NEW c \in Calls, Create(c)
      PROVE  appt' = appt \/ SaveConfirmedBooking(c)
  BY <1>4 DEF Create, Begin, ResumeAttempt, InsertAttempt, InsertConflict, ClaimRefused,
     MarkStarted, ResolveCustomer, CreateAppointment, SaveFallbackBooking, Crash, mirrorVars
<1>5. ASSUME NEW a \in Calls,
             \/ LeaseExpires(a) \/ ExpireLease(a) \/ ResolveNotCreated(a) \/ ResolveEscalated(a)
             \/ (\E b \in Calls : ResolveProviderAttached(a, b))
             \/ ProviderChanges(a)
      PROVE  appt' = appt
  BY <1>5 DEF LeaseExpires, ExpireLease, ResolveNotCreated, ResolveEscalated,
     ResolveProviderAttached, ProviderChanges, mirrorVars
<1>6. CASE \E c \in Calls : Create(c)
  BY <1>1, <1>2, <1>4, <1>6
<1>7. CASE \E b \in Calls, st \in ProviderStatuses : UpsertCalendarAppointment(b, st)
  BY <1>3, <1>7
<1>8. CASE ConfigurationChanges
  BY <1>1, <1>8 DEF ConfigurationChanges, mirrorVars
<1> QED BY <1>1, <1>5, <1>6, <1>7, <1>8 DEF Next

(* Whatever snapshot is applied late, an appointment keeps the newest      *)
(* version it had and only ever shows what its booking was.                *)
THEOREM CalendarOnlyAdvances == Spec => CalendarMovesForward
<1> DEFINE Forward ==
      \A b \in Calls : Version[appt'[b]] >= Version[appt[b]]
                       /\ (appt'[b] # "none" => \E st \in ProviderStatuses :
                              <<b, st>> \in seen /\ Imported[st] = appt'[b])
<1>1. TypeOK /\ BookInv /\ AccountInv /\ [Next]_vars => [Forward]_vars
  <2> SUFFICES ASSUME TypeOK, BookInv, AccountInv, Next PROVE Forward
    OBVIOUS
  <2>1. MirrorIsSeen /\ MirrorIsSeen'
    BY AccountStep DEF AccountInv
  <2> QED BY <2>1, MirrorMoves DEF MirrorIsSeen
<1>2. Spec => [][Forward]_vars
  BY <1>1, AccountInvariant, PTL DEF Spec
<1> QED BY <1>2 DEF CalendarMovesForward
=============================================================================
