--------------------------- MODULE BookingDialogue ---------------------------
(***************************************************************************)
(* The booking turns of one call (modules/conversation service.go,         *)
(* turn_kernel.go, conversation_act.go, turn_reducer.go, draft_revision.go,*)
(* next_action_planner.go, service_availability.go,                        *)
(* service_booking_flow.go, customer_sms_consent.go and the confirmation   *)
(* handlers).                                                              *)
(*                                                                         *)
(* A turn reads the session and the salon's policy, works on a copy, may   *)
(* look up availability and execute a scheduling action, and saves the     *)
(* copy last.  The owner can change the policy between any two of these    *)
(* steps, and a turn can die before its save: what it executed stays in    *)
(* the scheduling ledger, what it said was never spoken.                   *)
(*                                                                         *)
(* What the caller says is a choice: details to extract (`mention'), one   *)
(* understood act, and which of the recognizers of the turn claims it.     *)
(* Turns of one session are serialized (module CallSessions).              *)
(***************************************************************************)
EXTENDS Integers, Sequences, FiniteSets

CONSTANTS
    MenuServices,      \* services a caller can ask for
    OpenSlots,         \* positive integers: start times
    CallerNames,       \* names a caller can give
    Mentions,          \* what one message can mention, records [when, staff, name]
    MaxTalkTurns,      \* bound: turns of the call
    Policies,          \* policies the owner may choose, records [mode, authority, ai]
    MaxPolicyChanges,  \* bound: the owner's policy changes
    HistoryLimit       \* mutations kept for undo

NoName == "no name"
NoMention == -1   \* nothing said about the time; 0 is another day, without a time
BookingModes == {"disabled", "pending_approval", "confirmed_booking"}
TalkAuthorities == {"external_provider", "manleai_calendar", "owner_manual"}

ASSUME DialogueConstants ==
    /\ OpenSlots \subseteq Nat \ {0}
    /\ NoName \notin CallerNames
    /\ Mentions \subseteq [when : OpenSlots \cup {NoMention, 0}, staff : {"none", "any", "x"},
                           name : CallerNames \cup {NoName}]
    /\ Policies \subseteq [mode : BookingModes, authority : TalkAuthorities, ai : BOOLEAN]
    /\ {MaxTalkTurns, MaxPolicyChanges, HistoryLimit} \subseteq Nat

VARIABLES
    talk,         \* the saved session
    policy,       \* booking mode, scheduling authority and AI switch of the salon
    talkTurn,     \* the turn in progress
    operations,   \* scheduling operations by operation key
    heard,        \* history: the draft and policy of the last review read to the caller
    talkBudget    \* turns and policy changes left

talkVars == <<talk, policy, talkTurn, operations, heard, talkBudget>>

-----------------------------------------------------------------------------
(* The session. *)

NoQuote == [services |-> {}, when |-> 0, staff |-> "any"]
NoPending == [kind |-> "none", services |-> {}, when |-> 0, name |-> NoName, act |-> "none"]

NewTalk ==
    [status |-> "active", outcome |-> "collecting", services |-> {}, when |-> 0, staff |-> "any",
     assigned |-> FALSE, name |-> NoName, party |-> "none", offers |-> {}, quote |-> NoQuote,
     requestOnly |-> FALSE, phase |-> "open", revision |-> 1, reviewed |-> 0, authorized |-> 0,
     accepted |-> FALSE, mode |-> "", authority |-> "", pending |-> NoPending, prompt |-> "",
     noProgress |-> 0, consent |-> 0, sequence |-> 0, history |-> <<>>]

\* draftFingerprint: what a booking would contain.
Draft(t) == [services |-> t.services, when |-> t.when, staff |-> t.staff, assigned |-> t.assigned,
             name |-> t.name, party |-> t.party]
\* What is read out and sent: with any technician, who is assigned does not matter.
Payload(t) == [services |-> t.services, when |-> t.when, staff |-> t.staff, name |-> t.name,
               party |-> t.party]

hasStaffAssignment(t) == t.assigned \/ (t.requestOnly /\ t.staff = "any")

missingBookingField(t) ==
    CASE t.services = {}            -> "service"
      [] t.when = 0                 -> "requested_time"
      [] t.name = NoName            -> "customer_name"
      [] ~ hasStaffAssignment(t)    -> "staff"
      [] OTHER                      -> ""

normalizedDialogState(t) ==
    [t EXCEPT !.accepted = @ /\ t.reviewed = t.revision /\ t.authorized = t.revision]

resetDialogProgress(t) ==
    [t EXCEPT !.phase = "drafting", !.pending = NoPending, !.prompt = "", !.noProgress = 0,
              !.accepted = FALSE, !.reviewed = 0, !.authorized = 0, !.mode = "", !.authority = ""]

advanceDraftRevision(before, t) ==
    IF Draft(before) = Draft(t) THEN normalizedDialogState(t)
    ELSE [t EXCEPT !.revision = before.revision + 1, !.accepted = FALSE, !.reviewed = 0,
                   !.authorized = 0, !.mode = "", !.authority = "",
                   !.phase = IF @ = "review" THEN "drafting" ELSE @]

sameAvailabilityRequest(t, u) ==
    /\ <<t.services, t.when, t.staff, t.party>> = <<u.services, u.when, u.staff, u.party>>
    /\ t.staff = "x" => t.assigned = u.assigned

invalidateCarriedAvailabilityProof(before, t) ==
    IF t.when = 0 \/ (t.quote = before.quote /\ ~ sameAvailabilityRequest(before, t))
    THEN [t EXCEPT !.quote = NoQuote]
    ELSE t

-----------------------------------------------------------------------------
(* Details extracted from a message, and the acts understood from it. *)

applyRequestedTime(t, when) ==
    IF when = NoMention THEN t
    ELSE [t EXCEPT !.when = when, !.quote = NoQuote, !.offers = {}]

applyExtraction(t, m) ==
    LET timed == applyRequestedTime(t, m.when)
        staffed == CASE m.staff = "any" -> [timed EXCEPT !.staff = "any", !.assigned = FALSE]
                     [] m.staff = "x"   -> [timed EXCEPT !.staff = "x", !.assigned = TRUE]
                     [] OTHER           -> timed
    IN  IF staffed.name = NoName THEN [staffed EXCEPT !.name = m.name] ELSE staffed

applySelectedOfferedSlot(t, when) ==
    [t EXCEPT !.when = when, !.assigned = TRUE, !.offers = {},
              !.quote = [services |-> t.services, when |-> when, staff |-> t.staff]]

\* The reducer returns the draft, whether it must ask back, and whether it gives up.
Reduced(t) == [talk |-> t, clarify |-> FALSE, escalate |-> FALSE]

\* A question asked three times over goes to the owner.
Escalation(t, prompt) == IF t.prompt = prompt THEN t.noProgress + 1 ELSE 0
setConversationClarification(t, act, prompt) ==
    LET count == Escalation(t, prompt)
    IN  [talk |-> [t EXCEPT !.phase = "clarifying", !.accepted = FALSE, !.prompt = prompt,
                            !.noProgress = count,
                            !.pending = [NoPending EXCEPT !.kind = "edit", !.services = act.services,
                                                          !.act = act.kind]],
         clarify |-> TRUE, escalate |-> count >= 3]

Undone(t) ==
    IF t.history = <<>> THEN t
    ELSE [resetDialogProgress(t) EXCEPT !.services = t.history[Len(t.history)], !.offers = {},
                                        !.history = SubSeq(t.history, 1, Len(t.history) - 1)]

\* Mutant: the changes kept for an undo are never trimmed.
LastOfAll(s) == s
LastOf(s) == SubSeq(s, IF Len(s) > HistoryLimit THEN Len(s) - HistoryLimit + 1 ELSE 1, Len(s))
\* A changed selection drops offers and the review, and can be undone.
Reselected(t, services) ==
    IF services = t.services THEN t
    ELSE [resetDialogProgress(t) EXCEPT !.services = services, !.offers = {},
                                        !.history = LastOf(Append(t.history, t.services))]

replaceSelectedServices(t, sources, targets) ==
    [Reselected(t, (t.services \ sources) \cup targets) EXCEPT !.party = "none"]
removeSelectedServices(t, sources) ==
    Reselected(t, IF Cardinality(t.services) = 1 THEN {} ELSE t.services \ sources)

ServiceActs == {"add", "replace", "remove"}
ReviewAccepted(t) ==
    LET current == t.phase = "review" /\ t.reviewed = t.revision
    IN  [t EXCEPT !.accepted = current, !.authorized = IF current THEN t.revision ELSE 0,
                  !.pending = NoPending, !.noProgress = 0]

\* A service act that names no single service, or no single one to replace, is asked back.
applyConversationActToDraft(t, act) ==
    CASE act.kind = "review" -> Reduced(ReviewAccepted(t))
      [] act.kind = "undo"   -> Reduced(Undone(t))
      [] act.kind = "add" ->
           IF Cardinality(act.services) # 1 THEN setConversationClarification(t, act, "add_target")
           ELSE IF act.another /\ Cardinality(t.services) # 1
                THEN [talk |-> t, clarify |-> TRUE, escalate |-> TRUE]
                ELSE Reduced([Reselected(t, t.services \cup act.services) EXCEPT
                              !.party = IF act.another /\ ~ act.services \subseteq t.services
                                        THEN "whole" ELSE @])
      [] act.kind = "replace" ->
           IF Cardinality(act.services) # 1 THEN setConversationClarification(t, act, "replace_target")
           ELSE LET named == act.sources \cap t.services IN
                IF named = {} /\ Cardinality(t.services) # 1
                THEN setConversationClarification(t, act, "replace_source")
                ELSE Reduced(replaceSelectedServices(t, IF named = {} THEN t.services ELSE named,
                                                     act.services))
      [] act.kind = "remove" ->
           IF Cardinality(t.services) # 1 /\ act.services \cap t.services = {}
           THEN setConversationClarification(t, act, "remove_source")
           ELSE Reduced(removeSelectedServices(t, act.services))
      [] OTHER -> Reduced(t)

\* In a group a service belongs to a guest; until every guest has one there is no service.
applyPartyServiceConversationAct(t, act) ==
    IF ~ act.another THEN [talk |-> t, clarify |-> TRUE, escalate |-> FALSE]
    ELSE LET next == IF act.kind = "remove" THEN t.services \ act.services
                     ELSE t.services \cup act.services
         IN  IF next = t.services
             THEN [talk |-> resetDialogProgress(t), clarify |-> TRUE, escalate |-> FALSE]
             ELSE Reduced([resetDialogProgress(t) EXCEPT
                           !.services = next, !.offers = {},
                           !.party = IF next = {} THEN "open" ELSE "whole"])

applyStaffConversationAct(t, act) ==
    CASE act.kind = "staff_alternative" ->
           [talk |-> [t EXCEPT !.phase = "clarifying", !.prompt = "staff_alternative",
                               !.pending = [NoPending EXCEPT !.kind = "edit", !.act = act.kind]],
            clarify |-> TRUE, escalate |-> FALSE]
      [] act.kind = "staff_any" ->
           Reduced([t EXCEPT !.staff = "any", !.assigned = FALSE,
                             !.offers = IF t.assigned THEN {} ELSE @])
      [] act.kind = "staff_x" ->
           Reduced([t EXCEPT !.staff = "x", !.assigned = TRUE, !.offers = {},
                             !.pending = IF t.prompt = "staff_alternative" THEN NoPending ELSE @])

applyDateTimeConversationAct(t) ==
    Reduced([t EXCEPT !.when = 0, !.offers = IF t.when # 0 THEN {} ELSE @])

applyCustomerConversationAct(t, act) == Reduced([t EXCEPT !.name = act.name])

applyGuestConversationAct(t) ==
    Reduced([t EXCEPT !.party = "open", !.offers = {}])

ActsOf(kinds, services, another) ==
    [kind : kinds, services : services, sources : {{}}, another : another, name : {NoName}]
NoAct == [kind |-> "none", services |-> {}, sources |-> {}, another |-> FALSE, name |-> NoName]
\* classifyReviewResponse: what the caller answers may be heard as an approval.
ReviewResponses == ActsOf({"review"}, {{}}, {FALSE})
ConversationActs ==
    ReviewResponses
    \cup ActsOf({"none", "undo", "staff_any", "staff_x", "staff_alternative", "time_clear", "guests"},
                {{}}, {FALSE})
    \cup ActsOf(ServiceActs, SUBSET MenuServices, BOOLEAN)
    \cup [kind : {"replace"}, services : SUBSET MenuServices, sources : {{s} : s \in MenuServices},
          another : {FALSE}, name : {NoName}]
    \cup [kind : {"customer"}, services : {{}}, sources : {{}}, another : {FALSE},
          name : CallerNames \cup {NoName}]

\* validateTurnUnderstanding: a review only answers a review, and with a group an act
\* names its guest; elsewhere only an addition can be for someone else.
validateTurnUnderstanding(t, act) ==
    /\ act.kind = "review" => t.phase = "review"
    /\ act.kind \in ServiceActs /\ t.party # "none" => act.another
    /\ act.another /\ t.party = "none" => act.kind = "add"
    /\ act.kind \in {"remove"} /\ ~ act.another => Cardinality(act.services) <= 1

applyTurnUnderstandingToDraft(t, act) ==
    CASE act.kind \in {"staff_any", "staff_x", "staff_alternative"} -> applyStaffConversationAct(t, act)
      [] act.kind = "time_clear" -> applyDateTimeConversationAct(t)
      [] act.kind = "customer"   -> applyCustomerConversationAct(t, act)
      [] act.kind = "guests"     -> applyGuestConversationAct(t)
      [] act.kind \in ServiceActs /\ t.party # "none" -> applyPartyServiceConversationAct(t, act)
      [] OTHER -> applyConversationActToDraft(t, act)

-----------------------------------------------------------------------------
(* Availability: the answer is a choice, under the authority of the moment. *)

\* recordAvailabilityAuthority, and request_only where nothing is promised.
Consulted(t) == [t EXCEPT !.authority = policy.authority,
                          !.requestOnly = policy.authority = "owner_manual"]
RequestOnly(t) == [Consulted(t) EXCEPT !.quote = NoQuote, !.offers = {}]
\* applyAvailabilityOffer, applyPartySplitOffer
Offered(t, slots) == [Consulted(t) EXCEPT !.when = 0, !.quote = NoQuote, !.offers = slots]

\* The internal calendar allocates a group as a whole, so it always offers.
AlwaysOffers(t) == policy.authority = "manleai_calendar" /\ t.party # "none"

\* applyAvailabilityForRequestedTime: pairs of the draft and whether the time is settled.
CheckedTime(t) ==
    IF policy.authority = "owner_manual" THEN {[talk |-> RequestOnly(t), settled |-> TRUE]}
    ELSE {[talk |-> Offered(t, slots), settled |-> FALSE] : slots \in SUBSET OpenSlots}
         \cup (IF AlwaysOffers(t) THEN {}
               ELSE {[talk |-> applySelectedOfferedSlot(Consulted(t), t.when), settled |-> TRUE]})

offerAvailableSlots(t) ==
    IF policy.authority = "owner_manual" THEN {[RequestOnly(t) EXCEPT !.when = 0]}
    ELSE {Offered(t, slots) : slots \in SUBSET OpenSlots}

shouldCheckAvailabilityForRequestedTime(before, t, selected) ==
    /\ ~ selected /\ t.services # {} /\ t.when # 0
    /\ ~ sameAvailabilityRequest(before, t) \/ ~ hasStaffAssignment(before)

-----------------------------------------------------------------------------
(* What to do with a complete draft. *)

reviewAuthorizationCurrentForPolicy(t, cfg) ==
    /\ t.accepted /\ t.reviewed = t.revision /\ t.authorized = t.revision
    /\ t.mode = cfg.mode /\ t.authority = cfg.authority

planNextConversationAction(t, cfg) ==
    IF missingBookingField(t) # "" THEN "ask_missing_field"
    ELSE IF reviewAuthorizationCurrentForPolicy(normalizedDialogState(t), cfg) THEN "execute_booking"
    ELSE IF /\ t.phase = "review" /\ t.reviewed = t.revision
            /\ t.mode = cfg.mode /\ t.authority = cfg.authority
         THEN "ask_review_authorization"
         ELSE "read_final_review"

stampSchedulingReviewFence(t, cfg) ==
    [t EXCEPT !.mode = cfg.mode, !.authority = IF @ = "" THEN cfg.authority ELSE @]

ReadReview(t, cfg) ==
    stampSchedulingReviewFence(
        [t EXCEPT !.phase = "review", !.pending = NoPending, !.accepted = FALSE,
                  !.reviewed = t.revision, !.authorized = 0, !.noProgress = 0,
                  !.prompt = "final_review"], cfg)
AskReview(t, cfg) ==
    [t EXCEPT !.phase = "review", !.pending = NoPending, !.accepted = FALSE, !.authorized = 0,
              !.prompt = "final_review_retry"]

IdleTurn == [stage |-> "idle", cfg |-> [mode |-> "", authority |-> "", ai |-> FALSE],
             talk |-> NewTalk, authority |-> ""]

-----------------------------------------------------------------------------
(* Ends of a turn. *)

\* SaveTurn: the copy becomes the session and the reply is spoken.
Say(t) ==
    /\ talk' = t
    /\ talkTurn' = IdleTurn
    /\ UNCHANGED <<policy, operations, heard, talkBudget>>

\* finalBookingReviewPrompt: the draft is read out.
SayReview(t, cfg) ==
    /\ talk' = ReadReview(t, cfg)
    /\ heard' = [payload |-> Payload(t), mode |-> cfg.mode, aside |-> FALSE]
    /\ talkTurn' = IdleTurn
    /\ UNCHANGED <<policy, operations, talkBudget>>

\* The review of the draft stands: it was accepted, or a "yes" would accept it.
ReviewStands(t) == t.reviewed = t.revision /\ (t.accepted \/ t.phase = "review")

\* What was mentioned beside a question or a request asked back is kept in the draft, and
\* the draft keeps its revision: a review that stands no longer says what is booked.
SayUnrevised(t) ==
    /\ talk' = t
    /\ heard' = [heard EXCEPT !.aside = @ \/ (ReviewStands(t) /\ Payload(t) # Payload(talk))]
    /\ talkTurn' = IdleTurn
    /\ UNCHANGED <<policy, operations, talkBudget>>

saveHandoffTurn(t, outcome) == Say([t EXCEPT !.status = "handoff", !.outcome = outcome])

\* The turn goes on to execute; tryNeutralBooking reads the authority again.
tryBooking(t, cfg) ==
    IF cfg.mode = "disabled" THEN saveHandoffTurn(t, "ai_disabled")
    ELSE /\ talkTurn' = [talkTurn EXCEPT !.stage = "booking", !.talk = t]
         /\ UNCHANGED <<talk, policy, operations, heard, talkBudget>>

\* maybeAskCustomerSMSConsent: once per authorized revision, if texts are on and the
\* customer has not answered before.
AskConsent(t) == Say([t EXCEPT !.consent = t.revision])

continueAfterDraftReady(t, cfg) ==
    LET plan == planNextConversationAction(t, cfg) IN
    CASE plan = "ask_missing_field" -> Say(t)
      [] plan = "ask_review_authorization" ->
           Say(stampSchedulingReviewFence(AskReview(t, cfg), cfg))
      [] plan = "read_final_review" -> SayReview(t, cfg)
      [] OTHER -> AskConsent(t) \/ tryBooking(t, cfg)

\* resumeAfterInformationPrompt: after an answer the review is read, or only its question.
Resume(t, cfg) ==
    LET plan == planNextConversationAction(t, cfg) IN
    CASE plan = "read_final_review" -> SayReview(t, cfg)
      [] plan = "ask_review_authorization" -> Say(AskReview(t, cfg))
      [] OTHER -> Say(t)

\* From the availability check to the end of messageOnce.
SettleTime(before, t, cfg, selected) ==
    IF shouldCheckAvailabilityForRequestedTime(before, t, selected)
    THEN \/ saveHandoffTurn(t, "handoff_requested")   \* availability could not be checked
         \/ \E checked \in CheckedTime(t) :
              IF checked.settled THEN continueAfterDraftReady(checked.talk, cfg)
              ELSE Say(checked.talk)
    ELSE IF missingBookingField(t) = "requested_time" /\ t.offers = {}
         THEN \/ Say(t)                               \* no day known yet
              \/ saveHandoffTurn(t, "handoff_requested")
              \/ \E offered \in offerAvailableSlots(t) : Say(offered)
         ELSE continueAfterDraftReady(t, cfg)

-----------------------------------------------------------------------------
(* Turns. *)

\* The session is read, then the policy; a closed session takes no turn.
LoadTurn ==
    /\ talkTurn.stage = "idle" /\ talk.status = "active" /\ talkBudget.turns > 0
    /\ talkTurn' = [IdleTurn EXCEPT !.stage = "loaded", !.cfg = policy, !.talk = talk]
    /\ talkBudget' = [talkBudget EXCEPT !.turns = @ - 1]
    /\ UNCHANGED <<talk, policy, operations, heard>>

\* A crash, a deadline or a failed save: nothing of the turn is kept but what it executed.
TurnDies ==
    /\ talkTurn.stage # "idle"
    /\ talkTurn' = IdleTurn
    /\ UNCHANGED <<talk, policy, operations, heard, talkBudget>>

AwaitsConsent(t) == t.consent = t.revision
Claims(kind) ==
    /\ talkTurn.stage = "loaded"
    /\ ~ AwaitsConsent(talk)
    /\ talk.pending.kind = kind
\* Recognizers after the confirmations see a session with no confirmation pending.
FreeTurn ==
    /\ talkTurn.stage = "loaded"
    /\ ~ AwaitsConsent(talk)
    /\ talk.pending.kind \in {"none", "edit"}

\* Whatever the caller answers, the authorized booking goes on.
handlePendingCustomerSMSConsent ==
    /\ talkTurn.stage = "loaded" /\ AwaitsConsent(talk)
    /\ LET answered == [talk EXCEPT !.consent = -1] IN
       IF talkTurn.cfg.mode # "disabled"
          /\ planNextConversationAction(answered, talkTurn.cfg) # "execute_booking"
       THEN continueAfterDraftReady(answered, talkTurn.cfg)
       ELSE tryBooking(answered, talkTurn.cfg)

\* Health concerns, a request for a person, three failed guidance turns.
HandoffRequested ==
    /\ FreeTurn
    /\ saveHandoffTurn(talk, "handoff_requested")

\* Identity checks, repairs, summaries, answers outside a booking: the draft stays.
AnsweredAside ==
    /\ FreeTurn
    /\ Say(talk)

\* An uncertain service name is confirmed first; what else was said is kept.
startFuzzyServiceConfirmation ==
    \E m \in Mentions, s \in MenuServices, kind \in {"add", "replace", "unknown"} :
        /\ FreeTurn /\ s \notin talk.services /\ talk.party = "none"
        /\ IF talk.pending # NoPending THEN Say(talk)
           ELSE LET t == applyExtraction(talk, m) IN
                Say([t EXCEPT !.phase = "clarifying", !.accepted = FALSE, !.authorized = 0,
                              !.prompt = "fuzzy_service",
                              !.pending = [NoPending EXCEPT
                                           !.kind = "fuzzy", !.services = {s},
                                           !.act = IF talk.services = {} THEN "set" ELSE kind]])

ConfirmedService(before, t) == advanceDraftRevision(before, invalidateCarriedAvailabilityProof(before, t))

handlePendingFuzzyServiceConfirmation ==
    /\ Claims("fuzzy")
    /\ LET cleared == [talk EXCEPT !.pending = NoPending, !.prompt = "", !.phase = "drafting"]
           act == talk.pending.act
           services == IF act = "add" THEN talk.services \cup talk.pending.services
                       ELSE talk.pending.services
           taken == ConfirmedService(talk, [cleared EXCEPT !.services = services, !.offers = {}])
       IN  \/ Say(talk)                                     \* unresolved: asked again
           \/ Say(cleared)                                  \* no
           \/ /\ act = "unknown"
              /\ Say([cleared EXCEPT !.phase = "clarifying", !.prompt = "semantic_add_or_replace",
                                     !.pending = [NoPending EXCEPT !.kind = "edit",
                                                  !.services = talk.pending.services]])
           \/ /\ act # "unknown"
              /\ SettleTime(talk, taken, talkTurn.cfg, FALSE)

\* Another time while openings are on offer is confirmed first.
guardOfferedSlotDateTimeCorrection ==
    \E m \in Mentions :
        /\ FreeTurn /\ talk.offers # {}
        /\ m.when \notin talk.offers \cup {NoMention} /\ m.when # talk.when
        /\ Say([talk EXCEPT !.prompt = "datetime",
                            !.pending = [NoPending EXCEPT !.kind = "datetime", !.when = m.when]])

handlePendingOfferedSlotDateTimeCorrection ==
    /\ Claims("datetime")
    /\ LET cleared == [talk EXCEPT !.pending = NoPending, !.prompt = ""]
           moved == advanceDraftRevision(talk, [cleared EXCEPT !.when = talk.pending.when,
                                                               !.offers = {}])
       IN  \/ Say(talk)
           \/ Say(cleared)
           \/ IF moved.when # 0
              THEN \/ saveHandoffTurn(moved, "handoff_requested")
                   \/ \E checked \in CheckedTime(moved) : Say(checked.talk)
              ELSE IF moved.services # {}
                   THEN \/ saveHandoffTurn(moved, "handoff_requested")
                        \/ \E offered \in offerAvailableSlots(moved) : Say(offered)
                   ELSE Say(moved)

handlePendingCustomerNameConfirmation ==
    /\ Claims("name")
    /\ LET cleared == [talk EXCEPT !.pending = NoPending, !.prompt = ""]
           named == advanceDraftRevision(talk, [cleared EXCEPT !.name = talk.pending.name])
       IN  \/ Say(talk)
           \/ Say(cleared)
           \/ continueAfterDraftReady(named, talkTurn.cfg)

\* offeredSlotRejectionForMessage, directionalSlotTimePreferenceForMessage
SlotsNarrowed ==
    \E kept \in SUBSET talk.offers :
        /\ FreeTurn /\ talk.offers # {} /\ kept # talk.offers
        /\ \/ Say([talk EXCEPT !.offers = kept])
           \/ /\ kept = {} /\ talk.services # {}
              /\ \/ saveHandoffTurn(talk, "handoff_requested")
                 \/ \E offered \in offerAvailableSlots(talk) : Say(offered)

\* A service heard without knowing what to do with it: the review is void.
semanticServiceEditFallback ==
    \E s \in MenuServices :
        /\ FreeTurn /\ talk.services # {}
        /\ LET count == Escalation(talk, "semantic_add_or_replace")
               asked == [resetDialogProgress(talk) EXCEPT
                           !.phase = "clarifying", !.prompt = "semantic_add_or_replace",
                           !.noProgress = count,
                           !.pending = [NoPending EXCEPT !.kind = "edit", !.services = {s}]]
           IN  IF count >= 3 THEN saveHandoffTurn(asked, "handoff_requested") ELSE Say(asked)

\* A question with no act: the details mentioned are kept, the revision is not advanced.
QuestionTurn ==
    \E m \in Mentions :
        /\ FreeTurn
        /\ LET t == applyExtraction(talk, m)
               cfg == talkTurn.cfg
           IN  IF planNextConversationAction(t, cfg) = "read_final_review" THEN SayReview(t, cfg)
               ELSE SayUnrevised(IF planNextConversationAction(t, cfg) = "ask_review_authorization"
                                 THEN AskReview(t, cfg) ELSE t)

\* A group whose guests have no service yet keeps asking.
PartyPlanOpen ==
    \E m \in Mentions :
        /\ FreeTurn
        /\ LET t == applyExtraction(talk, m)
           IN  Say([t EXCEPT !.party = "open"])

\* applyPartyBookingPlan: the services of the guests replace the caller's.
PartyResolved(t, services) ==
    IF services = {} THEN t
    ELSE [t EXCEPT !.party = "whole", !.services = services, !.offers = {}]

\* After the draft took what was said: questions, handoffs and clarifications come
\* before the time is settled.
FinishTurn(t, acted, selected) ==
    LET cfg == talkTurn.cfg IN
    \/ acted /\ Resume(t, cfg)                               \* a question besides the act
    \/ saveHandoffTurn(t, "handoff_requested")               \* a person, a technician off AI
    \/ Say(t)                                                \* not a booking, or asked back
    \/ IF ~ cfg.ai \/ cfg.mode = "disabled" THEN saveHandoffTurn(t, "ai_disabled")
       ELSE SettleTime(talk, t, cfg, selected)

\* A name heard on the phone is confirmed before it is used.
NamePending ==
    \E name \in CallerNames, m \in Mentions :
        /\ FreeTurn /\ talk.name = NoName /\ talk.party # "open"
        /\ LET t == advanceDraftRevision(talk, [applyExtraction(talk, m) EXCEPT !.name = NoName])
           IN  Say([t EXCEPT !.pending = [NoPending EXCEPT !.kind = "name", !.name = name]])

\* The turn of a caller who changes, completes or approves the draft: an act, the services
\* of a group's guests, or one of the openings on offer, and details besides.
Understood(m, act, slot, guests) ==
    LET reduced == applyTurnUnderstandingToDraft(PartyResolved(applyExtraction(talk, m), guests), act)
        t == IF slot # 0 /\ m.staff = "none" THEN applySelectedOfferedSlot(reduced.talk, slot)
             ELSE reduced.talk
        next == advanceDraftRevision(talk, invalidateCarriedAvailabilityProof(talk, t))
    IN  IF reduced.escalate THEN saveHandoffTurn(reduced.talk, "handoff_requested")
        ELSE IF reduced.clarify THEN SayUnrevised(reduced.talk)
        ELSE FinishTurn(next, act.kind # "none", slot # 0)

BookingTurn ==
    /\ FreeTurn
    /\ \E m \in Mentions :
         \/ /\ talk.party # "open"
            \* another time than the openings on offer is the guard's
            /\ talk.offers # {} => m.when \in {NoMention, talk.when}
            /\ \E act \in ConversationActs :
                 validateTurnUnderstanding(talk, act) /\ Understood(m, act, 0, {})
         \/ /\ m.when = NoMention /\ talk.party # "open"
            /\ \E slot \in talk.offers : Understood(m, NoAct, slot, {})
         \/ /\ talk.offers # {} => m.when \in {NoMention, talk.when}
            /\ \E guests \in (SUBSET MenuServices) \ {{}} : Understood(m, NoAct, 0, guests)

-----------------------------------------------------------------------------
(* Execution. *)

Refreshed(t) ==
    IF policy.authority = "owner_manual" THEN RequestOnly(t)
    ELSE applySelectedOfferedSlot(Consulted(t), t.when)

\* A reviewed quote of the internal calendar, and a reviewed group request, go as they are.
ReviewedProof(t, cfg) ==
    \/ policy.authority = "manleai_calendar" /\ t.quote # NoQuote
    \/ cfg.mode = "pending_approval" /\ t.party = "whole"

\* A group is only booked as one, by an authority that can.
GroupUnprovable(t, cfg) ==
    /\ t.party # "none" /\ cfg.mode = "confirmed_booking"
    /\ policy.authority = "manleai_calendar" => t.quote = NoQuote

tryNeutralBooking ==
    /\ talkTurn.stage = "booking"
    /\ LET t == talkTurn.talk
           go(next) == /\ talkTurn' = [talkTurn EXCEPT !.stage = "executing", !.talk = next,
                                                       !.authority = policy.authority]
                       /\ UNCHANGED <<talk, policy, operations, heard, talkBudget>>
       IN  \/ saveHandoffTurn(t, "handoff_requested")        \* the authority cannot be read
           \/ IF GroupUnprovable(t, talkTurn.cfg) THEN saveHandoffTurn(t, "handoff_requested")
              ELSE IF ReviewedProof(t, talkTurn.cfg) THEN go(t)
              ELSE \/ go(Refreshed(t))
                   \/ /\ policy.authority # "owner_manual"   \* the opening is gone
                      /\ \E slots \in SUBSET OpenSlots : Say(Offered(resetDialogProgress(t), slots))

\* conversationPolicyFenceForExecution
ReviewedFence(t, cfg) ==
    [mode |-> IF t.mode = "" THEN cfg.mode ELSE t.mode,
     authority |-> IF t.authority = "" THEN cfg.authority ELSE t.authority]

FencePasses(fence) == fence = [mode |-> policy.mode, authority |-> policy.authority]

\* Mutant: one operation per turn.
OperationKeyPerTurn(t) == talkBudget.turns
\* conversationOperationKey: one operation per session, until an attempt found its proof stale.
OperationKey(t) == t.sequence

\* applyNeutralActionResult
ExecutionOutcomes == [confirmed |-> "booking_confirmed", owner_review |-> "owner_review_pending",
             fallback |-> "booking_fallback_pending"]
Executed(t, kind) == [t EXCEPT !.status = "completed", !.outcome = ExecutionOutcomes[kind], !.offers = {}]
Results(fence) ==
    IF fence.mode = "pending_approval" \/ fence.authority = "owner_manual" THEN {"owner_review"}
    ELSE IF fence.authority = "external_provider" THEN {"confirmed", "fallback"}
    ELSE {"confirmed"}

Record(t, kind) ==
    operations' = [k \in DOMAIN operations \cup {OperationKey(t)} |->
                     IF k # OperationKey(t) THEN operations[k]
                     ELSE [kind |-> kind, payload |-> Payload(t), mode |-> policy.mode,
                           heard |-> heard]]

NextSequence(t) == IF t.party # "none" /\ talkTurn.authority = "manleai_calendar" THEN t.sequence
                   ELSE t.sequence + 1
\* reofferBookingAfterConflict, reofferInternalPartyBookingAfterConflict
Reoffered(t) == [resetDialogProgress(t) EXCEPT !.sequence = NextSequence(t), !.when = 0,
                                               !.quote = NoQuote, !.offers = {}]

ExecuteConversationAction ==
    /\ talkTurn.stage = "executing"
    /\ LET t == talkTurn.talk
           fence == ReviewedFence(t, talkTurn.cfg)
           done(kind) == /\ talkTurn' = [talkTurn EXCEPT !.stage = "saving", !.talk = Executed(t, kind)]
                         /\ UNCHANGED <<talk, policy, heard, talkBudget>>
       IN  IF OperationKey(t) \in DOMAIN operations
           THEN LET origin == operations[OperationKey(t)] IN     \* replayed before any policy
                IF origin.payload = Payload(t) THEN done(origin.kind) /\ UNCHANGED operations
                ELSE saveHandoffTurn(t, "handoff_requested")
           ELSE IF ~ FencePasses(fence) THEN saveHandoffTurn(t, "handoff_requested")
           ELSE \/ \E kind \in Results(fence) : Record(t, kind) /\ done(kind)
                \/ saveHandoffTurn(t, "handoff_requested")
                \/ /\ talkTurn.cfg.mode = "confirmed_booking" /\ fence.authority # "owner_manual"
                   /\ \/ Say(Reoffered(t))
                      \/ \E offered \in offerAvailableSlots(Reoffered(t)) : Say(offered)

SaveExecutedTurn ==
    /\ talkTurn.stage = "saving"
    /\ Say(talkTurn.talk)

ChangePolicy ==
    /\ talkBudget.policies > 0
    /\ policy' \in Policies \ {policy}
    /\ talkBudget' = [talkBudget EXCEPT !.policies = @ - 1]
    /\ UNCHANGED <<talk, talkTurn, operations, heard>>

-----------------------------------------------------------------------------

TalkInit ==
    /\ talk = NewTalk
    /\ policy \in Policies
    /\ talkTurn = IdleTurn
    /\ operations = <<>>
    /\ heard = [payload |-> Payload(NewTalk), mode |-> "", aside |-> FALSE]
    /\ talkBudget = [turns |-> MaxTalkTurns, policies |-> MaxPolicyChanges]

TalkNext ==
    \/ LoadTurn \/ TurnDies \/ ChangePolicy
    \/ handlePendingCustomerSMSConsent
    \/ handlePendingFuzzyServiceConfirmation
    \/ handlePendingOfferedSlotDateTimeCorrection
    \/ handlePendingCustomerNameConfirmation
    \/ HandoffRequested \/ AnsweredAside
    \/ startFuzzyServiceConfirmation
    \/ SlotsNarrowed
    \/ guardOfferedSlotDateTimeCorrection
    \/ semanticServiceEditFallback
    \/ QuestionTurn
    \/ PartyPlanOpen
    \/ NamePending
    \/ BookingTurn
    \/ tryNeutralBooking
    \/ ExecuteConversationAction
    \/ SaveExecutedTurn

TalkSpec == TalkInit /\ [][TalkNext]_talkVars

-----------------------------------------------------------------------------
(* Properties. *)

TalkTypeOK ==
    /\ talk.status \in {"active", "completed", "handoff"}
    /\ talk.services \subseteq MenuServices /\ talk.offers \subseteq OpenSlots
    /\ talk.when \in OpenSlots \cup {0}
    /\ talk.phase \in {"open", "drafting", "clarifying", "review"}
    /\ {talk.reviewed, talk.authorized} \subseteq 0 .. talk.revision
    /\ talk.noProgress \in 0 .. 3 /\ Len(talk.history) <= HistoryLimit
    /\ policy \in Policies
    /\ talkTurn.stage \in {"idle", "loaded", "booking", "executing", "saving"}
    /\ DOMAIN operations \subseteq 0 .. MaxTalkTurns

\* Nothing is executed but the draft the caller last heard, under the booking mode it was
\* heard for - whatever corrections, clarifications, lost turns and policy changes came
\* between the review and the "yes".  Details mentioned beside a question, or beside a
\* request for another technician that is asked back, are the exception (ReviewedIsExecuted).
ExecutedAsHeard ==
    \A k \in DOMAIN operations :
        \/ operations[k].heard.aside
        \/ /\ operations[k].payload = operations[k].heard.payload
           /\ operations[k].mode = operations[k].heard.mode

\* docs/architecture.md: "all corrections invalidate stale review authorization".  The
\* executed draft is the one that was read out.
ReviewedIsExecuted ==
    \A k \in DOMAIN operations : operations[k].payload = operations[k].heard.payload

\* A call books at most once, however often a turn dies after the booking and the caller
\* has to say yes again, and it is told of a confirmed booking only when that draft was
\* confirmed.
BookedOnceAsTold ==
    /\ Cardinality({k \in DOMAIN operations : operations[k].kind = "confirmed"}) <= 1
    /\ talk.outcome = "booking_confirmed" =>
           \E k \in DOMAIN operations :
               operations[k].kind = "confirmed" /\ operations[k].payload = Payload(talk)
=============================================================================
