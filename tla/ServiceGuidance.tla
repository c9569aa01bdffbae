---------------------------- MODULE ServiceGuidance ----------------------------
(***************************************************************************)
(* Help in choosing a service (conversation module: the consultation and   *)
(* the guidance recovery of a call).                                       *)
(*                                                                         *)
(* The caller states needs, the profiles that the owner approved are       *)
(* ranked, one or two services are recommended and the caller may book.    *)
(* The owner edits profiles and services meanwhile, and a turn works with  *)
(* the menu it loaded when it began; an accepted recommendation is checked *)
(* against the database once more.  Needs are a wanted outcome (which      *)
(* stands for the current nails, the length and the finish as well: a      *)
(* profile that does not serve it is left out) and a priority, which only  *)
(* adds to the score.                                                      *)
(***************************************************************************)
EXTENDS Integers, FiniteSets

CONSTANTS
    Offerings,          \* the services
    Outcomes,           \* what a caller may want of a service
    Approved,           \* profiles the owner may write: [outcomes, favoured]
    FirstProfiles,      \* the profile of each service when the call begins
    MaxNoProgress,      \* turns without progress before the owner is asked (3 in the code)
    MaxGuideTurns,      \* bound on the turns of the call
    MaxGuideEdits       \* bound on the changes made to the salon

ASSUME GuidanceConstants ==
    /\ MaxGuideTurns \in Nat /\ MaxGuideEdits \in Nat /\ IsFiniteSet(Offerings)
    /\ Approved \subseteq [outcomes : SUBSET Outcomes, favoured : BOOLEAN]
    /\ FirstProfiles \in [Offerings -> Approved] /\ MaxNoProgress \in Nat \ {0}
    /\ "" \notin Outcomes /\ "compare" \notin Outcomes /\ "" \notin Offerings

VARIABLES
    parlour,     \* what the database holds of the salon
    advice,      \* the session
    loaded,      \* the menu of the running turn
    promised,    \* history: the last recommendation and how the booking was started
    guideLeft    \* turns and edits left

guideVars == <<parlour, advice, loaded, promised, guideLeft>>

\* The services as the running turn knows them.
menu == loaded.services
NoTurn == [open |-> FALSE, services |-> <<>>]

-----------------------------------------------------------------------------
(* The salon's services. *)

Recommendable(profile) == profile.ready /\ profile.outcomes # {}

\* The menu: under an external provider the linked services, bookable while the
\* provider's snapshot is current; under the calendar, and when the owner books by hand,
\* every service.
ListGuidance(linkedOnly) ==
    {s \in Offerings : parlour.services[s].active /\ (linkedOnly => s \in parlour.linked)}
ListBookableOfferings(linkedOnly) ==
    IF linkedOnly /\ ~ parlour.synced THEN {} ELSE ListGuidance(linkedOnly)
MenuOf(linkedOnly) ==
    [s \in ListGuidance(linkedOnly) |->
       [profile |-> parlour.services[s].profile,
        bookable |-> s \in ListBookableOfferings(linkedOnly)]]
ByProvider == parlour.authority = "external_provider"

UpdateConsultationProfile(s, content, ready) ==
    parlour' = [parlour EXCEPT !.services[s].profile =
                  [revision |-> @.revision + 1, ready |-> ready,
                   outcomes |-> content.outcomes, favoured |-> content.favoured]]
ArchiveOffering(s) ==
    /\ parlour.services[s].active
    /\ parlour' = [parlour EXCEPT !.services[s].active = FALSE]
ImportProgress == parlour' = [parlour EXCEPT !.synced = ~ @]
SetConsultationEnabled == parlour' = [parlour EXCEPT !.enabled = ~ @]
SetBookingEnabled == parlour' = [parlour EXCEPT !.bookings = ~ @]

OwnerEdits ==
    /\ guideLeft.edits > 0
    /\ \/ \E s \in Offerings, content \in Approved, ready \in BOOLEAN :
            UpdateConsultationProfile(s, content, ready)
       \/ \E s \in Offerings : ArchiveOffering(s)
       \/ ImportProgress \/ SetConsultationEnabled \/ SetBookingEnabled
    /\ guideLeft' = [guideLeft EXCEPT !.edits = @ - 1]
    /\ UNCHANGED <<advice, loaded, promised>>

-----------------------------------------------------------------------------
(* Needs, ranking and the next question. *)

Fits(profile, needs) == needs.outcome \in {"", "compare"} \/ needs.outcome \in profile.outcomes
Score(profile, needs, among) ==
    LET told == (IF needs.outcome \in profile.outcomes THEN 4 ELSE 0)
                + (IF needs.priority /\ profile.favoured THEN 2 ELSE 0)
    IN IF told = 0 /\ among # {} THEN 1 ELSE told

\* The services that may be considered: those being compared, or all of them.
Considered(services, among) == {s \in DOMAIN services : among = {} \/ s \in among}
rankConsultationServices(services, needs, among) ==
    {s \in Considered(services, among) :
       LET p == services[s].profile IN
       Recommendable(p) /\ Fits(p, needs) /\ Score(p, needs, among) > 0}
\* The best two; the order of names decides between equal scores.
BestTwo(services, needs, among) ==
    LET ranked == rankConsultationServices(services, needs, among)
        score(s) == Score(services[s].profile, needs, among)
    IN CHOOSE best \in SUBSET ranked :
         /\ Cardinality(best) = IF Cardinality(ranked) < 2 THEN Cardinality(ranked) ELSE 2
         /\ \A s \in best, t \in ranked \ best : score(s) >= score(t)

Askable(services, needs, among) ==
    {s \in Considered(services, among) :
       Recommendable(services[s].profile) /\ Fits(services[s].profile, needs)}
nextConsultationQuestionSpec(services, needs, among) ==
    LET open == Askable(services, needs, among) IN
    CASE open # {} /\ needs.outcome = "" -> "outcome"
      [] open # {} /\ needs.outcome # "" /\ ~ needs.priority
         /\ (\E s \in open : services[s].profile.favoured) -> "priority"
      [] OTHER -> "none"
consultationNeedsMoreDiscrimination(services, needs, among) ==
    LET ranked == rankConsultationServices(services, needs, among)
        question == nextConsultationQuestionSpec(services, needs, among)
    IN /\ question # "none"
       /\ \/ question = "outcome"
          \/ Cardinality(ranked) = 0 \/ Cardinality(ranked) > 2
          \/ \E s, t \in ranked : s # t /\ Score(services[s].profile, needs, among)
                                           = Score(services[t].profile, needs, among)

-----------------------------------------------------------------------------
(* The consultation. *)

NoNeeds == [outcome |-> "", priority |-> FALSE, compared |-> {}]
NoRevisions == [s \in Offerings |-> 0]
NoConsultation ==
    [status |-> "none", resume |-> "open", needs |-> NoNeeds, among |-> {}, recommended |-> {},
     selected |-> "", revisions |-> NoRevisions, idle |-> 0, failures |-> 0, asked |-> "",
     print |-> <<>>]
NoGuidance == [stage |-> "none", idle |-> 0, failures |-> 0, offered |-> {}]

consultationStateActive == advice.consultation.status \in {"collecting", "selecting", "booking"}
HasDraft == advice.chosen # ""

\* A consultation that is active goes on; a new one remembers where it came from.
initializeConsultationState ==
    IF consultationStateActive THEN advice.consultation
    ELSE [NoConsultation EXCEPT !.status = "collecting",
                                !.resume = IF HasDraft THEN "drafting" ELSE "open"]

consultationProgressFingerprint(c) ==
    <<c.status, c.needs, c.among, c.recommended, c.selected, c.asked>>

TurnEnds == loaded' = NoTurn /\ guideLeft' = [guideLeft EXCEPT !.turns = @ - 1]
saveConsultationTurn(c) ==
    /\ advice' = [advice EXCEPT !.phase = "consultation", !.guidance = NoGuidance,
                    !.consultation = [c EXCEPT !.print = consultationProgressFingerprint(c)]]
    /\ TurnEnds
saveGuidanceHandoff(c) ==
    /\ advice' = [advice EXCEPT !.status = "handoff",
                    !.consultation = IF c.status = "none" THEN c
                                     ELSE [c EXCEPT !.status = "handed_off"]]
    /\ TurnEnds
\* The consultation is over and the call goes on where it was, or ends.
Completed(c) == [c EXCEPT !.status = "completed"]
consultationResumePhase(c) ==
    /\ advice' = [advice EXCEPT !.phase = c.resume, !.guidance = NoGuidance,
                                !.consultation = Completed(c)]
    /\ TurnEnds
CallCompleted(c) ==
    /\ advice' = [advice EXCEPT !.status = "completed", !.phase = c.resume,
                                !.consultation = Completed(c)]
    /\ TurnEnds

\* What the caller was told: the services recommended and the revisions they had then.
ToldOf(c, services) ==
    [promised EXCEPT
        !.told = [s \in Offerings |-> IF s \in c.recommended THEN services[s].profile.revision
                                      ELSE 0],
        !.offer = c.selected]
NotStarted == [how |-> "none"]
Started(c, s, services, how) ==
    [how |-> how, service |-> s, needs |-> c.needs, at |-> services[s].profile,
     offer |-> promised.offer, told |-> promised.told[s]]
SaysNothingNew == UNCHANGED promised

\* startBookingFromConsultation.  A draft with another service is left as it is and the
\* caller is asked whether to add or to replace.
StartBooking(c, s, services, how) ==
    \/ /\ ~ services[s].bookable
       /\ saveGuidanceHandoff([c EXCEPT !.selected = s]) /\ SaysNothingNew
    \/ /\ services[s].bookable /\ HasDraft /\ advice.chosen # s
       /\ advice' = [advice EXCEPT !.phase = "clarifying", !.guidance = NoGuidance,
                                   !.consultation = Completed([c EXCEPT !.selected = s])]
       /\ TurnEnds /\ SaysNothingNew
    \/ /\ services[s].bookable /\ (HasDraft => advice.chosen = s)
       /\ advice' = [advice EXCEPT !.chosen = s, !.phase = c.resume, !.guidance = NoGuidance,
                                   !.status = IF parlour.bookings THEN @ ELSE "handoff",
                                   !.consultation = Completed([c EXCEPT !.selected = s])]
       /\ TurnEnds
       /\ promised' = [promised EXCEPT !.started = Started(c, s, services, how)]

\* The best services are recommended: one with the question whether to book it, two
\* with the question which.
Recommendation(c, services) ==
    LET best == BestTwo(services, c.needs, c.among) IN
    [c EXCEPT !.recommended = best, !.failures = 0,
              !.revisions = [s \in Offerings |-> IF s \in best THEN services[s].profile.revision
                                                 ELSE 0],
              !.status = IF Cardinality(best) = 1 THEN "booking" ELSE "selecting",
              !.selected = IF Cardinality(best) = 1 THEN CHOOSE s \in best : TRUE ELSE @,
              !.asked = IF Cardinality(best) = 1 THEN "booking_intent" ELSE "service_selection"]

\* revalidateConsultationRecommendation: the services that the provider links, read
\* again; the recommendation stands if the profile has the revision it was made from.
\* Mutant: the service need only be there.
RecommendationStandsAny(c, s, fresh) == s \in DOMAIN fresh
RecommendationStands(c, s, fresh) ==
    /\ s \in DOMAIN fresh /\ c.revisions[s] > 0
    /\ Recommendable(fresh[s].profile) /\ fresh[s].profile.revision = c.revisions[s]

\* The needs are ranked again from nothing.
restartConsultationAfterStaleRecommendation(c, fresh) ==
    LET again == [c EXCEPT !.status = "collecting", !.among = {}, !.recommended = {},
                           !.selected = "", !.revisions = NoRevisions, !.idle = 0]
        r == [Recommendation(again, fresh) EXCEPT !.failures = c.failures]
    IN IF rankConsultationServices(fresh, c.needs, {}) = {}
       THEN /\ saveGuidanceHandoff(again)
            /\ UNCHANGED promised
       ELSE /\ saveConsultationTurn(r)
            /\ promised' = ToldOf(r, fresh)

-----------------------------------------------------------------------------
(* What the caller says. *)

TurnOpen == loaded.open
Consulting == TurnOpen /\ consultationStateActive /\ parlour.enabled

BeginGuideTurn ==
    /\ ~ TurnOpen /\ advice.status = "active" /\ guideLeft.turns > 0
    /\ loaded' = [open |-> TRUE, services |-> MenuOf(ByProvider)]
    /\ promised' = [promised EXCEPT !.started = NotStarted]
    /\ UNCHANGED <<parlour, advice, guideLeft>>

\* A health concern goes to the owner, whatever else is under way.
SafetyConcern ==
    /\ TurnOpen
    /\ saveGuidanceHandoff([initializeConsultationState EXCEPT !.status = "collecting"])
    /\ SaysNothingNew /\ UNCHANGED parlour

\* The salon has switched consultations off.
ConsultationDisabled ==
    /\ TurnOpen /\ ~ parlour.enabled /\ consultationStateActive
    /\ consultationResumePhase(advice.consultation)
    /\ SaysNothingNew /\ UNCHANGED parlour

\* "That's all", or "no" to the question whether to book; a caller with a draft is
\* taken back to it, unless he says goodbye.
CallerDone(goodbye) ==
    LET c == advice.consultation IN
    /\ Consulting
    /\ IF HasDraft /\ ~ goodbye THEN consultationResumePhase(c) ELSE CallCompleted(c)
    /\ SaysNothingNew /\ UNCHANGED parlour
BookingDeclined == advice.consultation.status = "booking" /\ CallerDone(FALSE)

InterpreterUnavailable ==
    LET c == [advice.consultation EXCEPT !.failures = @ + 1] IN
    /\ Consulting
    /\ IF c.failures >= 2 THEN saveGuidanceHandoff(c) ELSE saveConsultationTurn(c)
    /\ SaysNothingNew /\ UNCHANGED parlour

\* A service of the menu is named with the wish to book it.
ExplicitBooking(s) ==
    /\ Consulting /\ s \in DOMAIN menu
    /\ StartBooking(advice.consultation, s, menu, "named")
    /\ UNCHANGED parlour

\* The caller asks for the menu again: what was recommended is withdrawn.
AsksForMenu ==
    /\ Consulting
    /\ saveConsultationTurn([advice.consultation EXCEPT
         !.status = "collecting", !.among = {}, !.recommended = {}, !.selected = "",
         !.asked = "service_comparison", !.idle = 0])
    /\ promised' = [promised EXCEPT !.offer = ""] /\ UNCHANGED parlour

BackToBooking ==
    /\ Consulting /\ HasDraft
    /\ consultationResumePhase(advice.consultation)
    /\ SaysNothingNew /\ UNCHANGED parlour

\* "Yes", or "book it", to the question whether to book the recommended service.
AcceptRecommendation ==
    LET c == advice.consultation
        fresh == MenuOf(TRUE)
        s == IF c.selected # "" THEN c.selected
             ELSE IF Cardinality(c.recommended) = 1 THEN CHOOSE x \in c.recommended : TRUE ELSE ""
    IN /\ Consulting /\ c.status = "booking"
       /\ UNCHANGED parlour
       /\ \/ /\ s \notin DOMAIN menu
             /\ saveConsultationTurn([c EXCEPT !.status = "selecting", !.asked = "service_selection"])
             /\ promised' = [promised EXCEPT !.offer = ""]
          \/ /\ s \in DOMAIN menu /\ RecommendationStands(c, s, fresh)
             /\ StartBooking(c, s, fresh, "accepted")
          \/ /\ s \in DOMAIN menu /\ ~ RecommendationStands(c, s, fresh)
             /\ restartConsultationAfterStaleRecommendation(c, fresh)

\* One of the services recommended, or being compared, is named.
SelectRecommended(s) ==
    LET c == advice.consultation IN
    /\ Consulting /\ c.status = "selecting"
    /\ s \in DOMAIN menu \cap (c.among \cup c.recommended)
    /\ saveConsultationTurn([c EXCEPT !.selected = s, !.status = "booking",
                                      !.asked = "booking_intent"])
    /\ promised' = [promised EXCEPT !.offer = s] /\ UNCHANGED parlour

\* applyConsultationNeedTurn: a need is set, cleared, added or removed.
NeedsAfter(needs) ==
    {needs} \cup {[needs EXCEPT !.outcome = o] : o \in Outcomes \cup {"", "compare"}}
            \cup {[needs EXCEPT !.priority = p] : p \in BOOLEAN}
            \cup {[needs EXCEPT !.compared = c] : c \in {{}, DOMAIN menu}}

\* askConsultationQuestion; the wording comes from a generator that may fail.
askConsultationQuestion(c, worded) ==
    LET field == nextConsultationQuestionSpec(menu, c.needs, c.among)
        asking == [c EXCEPT
            !.status = "collecting", !.asked = field,
            !.revisions = [s \in Offerings |-> IF s \in Askable(menu, c.needs, c.among)
                                               THEN menu[s].profile.revision ELSE @[s]],
            !.failures = IF worded THEN 0 ELSE @ + 1]
    IN IF ~ worded /\ asking.failures >= 2 THEN saveGuidanceHandoff(asking)
       ELSE saveConsultationTurn(asking)

WithNeeds(c, needs) ==
    LET among == IF needs.compared # c.needs.compared THEN needs.compared ELSE c.among IN
    IF needs = c.needs THEN c
    ELSE [c EXCEPT !.needs = needs, !.among = among, !.recommended = {}, !.selected = "",
                   !.revisions = NoRevisions]

\* The last part of handleServiceConsultation, for whatever else is said.
StateNeeds(needs) ==
    LET before == initializeConsultationState
        after == WithNeeds(before, needs)
        stuck == needs = before.needs /\ consultationStateActive
                 /\ before.print = consultationProgressFingerprint(after)
        c == [after EXCEPT !.idle = IF stuck THEN @ + 1 ELSE 0]
        comparing == Cardinality(c.among) > 1 \/ needs.outcome = "compare"
        question == nextConsultationQuestionSpec(menu, needs, c.among)
        asks == \/ ~ comparing /\ consultationNeedsMoreDiscrimination(menu, needs, c.among)
                \/ rankConsultationServices(menu, needs, c.among) = {} /\ question # "none"
    IN /\ TurnOpen /\ parlour.enabled
       /\ UNCHANGED parlour
       /\ \/ /\ c.idle >= MaxNoProgress
             /\ saveGuidanceHandoff(c) /\ SaysNothingNew
          \/ /\ c.idle < MaxNoProgress /\ asks
             /\ \E worded \in BOOLEAN : askConsultationQuestion(c, worded)
             /\ promised' = [promised EXCEPT !.offer = ""]
          \/ /\ c.idle < MaxNoProgress /\ ~ asks /\ rankConsultationServices(menu, needs, c.among) = {}
             /\ saveGuidanceHandoff(c) /\ SaysNothingNew
          \/ /\ c.idle < MaxNoProgress /\ ~ asks /\ rankConsultationServices(menu, needs, c.among) # {}
             /\ LET r == Recommendation(c, menu) IN 
                saveConsultationTurn(r) /\ promised' = ToldOf(r, menu)

\* Another workflow, the ordinary booking of a service among them, takes the call over.
closeConsultationForWorkflow(s) ==
    /\ TurnOpen /\ ~ HasDraft /\ s \in DOMAIN menu
    /\ advice' = [advice EXCEPT !.chosen = s, !.phase = "drafting", !.guidance = NoGuidance,
                    !.consultation = IF consultationStateActive THEN Completed(@) ELSE @]
    /\ TurnEnds
    /\ promised' = [promised EXCEPT !.started = Started(advice.consultation, s, menu, "named")]
    /\ UNCHANGED parlour

-----------------------------------------------------------------------------
(* Guidance: neither a goal nor a service is known yet. *)

RecommendationReady == parlour.enabled /\ (\E s \in DOMAIN menu : Recommendable(menu[s].profile))
guidanceRecoveryOfferedActions(stage) ==
    (IF stage = "caller_goal" THEN {"book", "salon_question"} ELSE {})
    \cup (IF DOMAIN menu = {} THEN {}
          ELSE {"service_catalog"} \cup (IF stage = "service" THEN {"name_service"} ELSE {}))
    \cup (IF RecommendationReady THEN {"consultation"} ELSE {})
    \cup {"human_handoff"}

\* reduceGuidanceRecoveryState: failures of the interpreter and turns without progress
\* are counted apart, and progress clears both.
reduceGuidanceRecoveryState(evidence) ==
    LET g == [advice.guidance EXCEPT !.stage = IF @ = "none" THEN "caller_goal" ELSE @] IN
    CASE evidence = "failure" -> [g EXCEPT !.failures = @ + 1]
      [] evidence = "no_progress" -> [g EXCEPT !.idle = @ + 1, !.failures = 0]
      [] evidence = "question" -> [g EXCEPT !.idle = 0, !.failures = 0]
      [] OTHER -> [g EXCEPT !.stage = "service", !.idle = 0, !.failures = 0]

\* A wish for help becomes a consultation when there is something to recommend.
handleGuidanceRecovery(evidence) ==
    LET g == reduceGuidanceRecoveryState(evidence)
        told == [g EXCEPT !.offered = guidanceRecoveryOfferedActions(g.stage)]
    IN /\ TurnOpen /\ ~ HasDraft /\ ~ consultationStateActive
       /\ evidence = "consultation" => ~ RecommendationReady
       /\ IF evidence = "owner" \/ g.failures >= 2 \/ g.idle >= MaxNoProgress
          THEN saveGuidanceHandoff(advice.consultation)
          ELSE /\ advice' = [advice EXCEPT !.phase = "clarifying", !.guidance = told]
               /\ TurnEnds
       /\ SaysNothingNew /\ UNCHANGED parlour

-----------------------------------------------------------------------------
GuideInit ==
    /\ \E authority \in {"manleai_calendar", "external_provider"}, linked \in {{}, Offerings} :
           parlour = [authority |-> authority, linked |-> linked, synced |-> TRUE,
                      enabled |-> TRUE, bookings |-> TRUE,
                      services |-> [s \in Offerings |->
                         [active |-> TRUE,
                          profile |-> [revision |-> 1, ready |-> TRUE,
                                       outcomes |-> FirstProfiles[s].outcomes,
                                       favoured |-> FirstProfiles[s].favoured]]]]
    /\ \E s \in Offerings \cup {""} :
         advice = [status |-> "active", phase |-> IF s = "" THEN "open" ELSE "drafting",
                   chosen |-> s, consultation |-> NoConsultation, guidance |-> NoGuidance]
    /\ loaded = NoTurn
    /\ promised = [told |-> NoRevisions, offer |-> "", started |-> NotStarted]
    /\ guideLeft = [turns |-> MaxGuideTurns, edits |-> MaxGuideEdits]

CallerSays ==
    \/ SafetyConcern \/ ConsultationDisabled \/ BookingDeclined \/ InterpreterUnavailable
    \/ AsksForMenu \/ BackToBooking \/ AcceptRecommendation
    \/ \E goodbye \in BOOLEAN : CallerDone(goodbye)
    \/ \E s \in Offerings :
         ExplicitBooking(s) \/ SelectRecommended(s) \/ closeConsultationForWorkflow(s)
    \/ /\ TurnOpen
       /\ \E needs \in NeedsAfter(initializeConsultationState.needs) :
            StateNeeds(needs)
    \/ \E evidence \in {"failure", "no_progress", "question", "catalog", "consultation", "owner"} :
         handleGuidanceRecovery(evidence)

GuideNext == OwnerEdits \/ BeginGuideTurn \/ CallerSays
GuideSpec == GuideInit /\ [][GuideNext]_guideVars

-----------------------------------------------------------------------------
GuideTypeOK ==
    /\ advice.status \in {"active", "handoff", "completed"}
    /\ advice.chosen \in Offerings \cup {""}
    /\ advice.consultation.recommended \subseteq Offerings
    /\ Cardinality(advice.consultation.recommended) <= 2
    /\ advice.consultation.idle \in 0 .. MaxNoProgress /\ advice.consultation.failures \in 0 .. 2
    /\ guideLeft \in [turns : 0 .. MaxGuideTurns, edits : 0 .. MaxGuideEdits]

\* A service that enters the draft because the caller said yes is the one the caller
\* was last asked about, it was recommended from the profile that stood at that very
\* moment, and the profile serves the needs as the caller last stated them.
BookedAsRecommended ==
    LET b == promised.started IN
    b.how = "accepted" =>
        /\ b.service = b.offer
        /\ b.at.ready /\ b.at.revision = b.told
        /\ Fits(b.at, b.needs)
=============================================================================
