---------------------------- MODULE MCConversation ----------------------------
(* What a conversation decides on, on small instances: the booking and the      *)
(* lifecycle dialogue, service guidance, the answer context and the availability *)
(* quotes. The variable part says which of them a behaviour is of and the       *)
(* others stand at their first state, so the run has the sum of their states    *)
(* and not the product.                                                         *)
EXTENDS BookingDialogue, LifecycleDialogue, ServiceGuidance, AnswerContext,
        AvailabilityQuotes, TLC

VARIABLE part

allVars == <<part, talkVars, lifeVars, guideVars, answerVars, quoteVars>>

Mention(when, who, name) == [when |-> when, staff |-> who, name |-> name]
MCMentions == {Mention(NoMention, "none", NoName), Mention(2, "none", "n")}
MCPolicy(mode, authority) == [mode |-> mode, authority |-> authority, ai |-> TRUE]
MCPolicies == {MCPolicy("confirmed_booking", "manleai_calendar"),
               MCPolicy("pending_approval", "external_provider")}
MCLifePolicies == MCPolicies \cup {MCPolicy("confirmed_booking", "external_provider")}
MCProfile(outcomes, favoured) == [outcomes |-> outcomes, favoured |-> favoured]
MCApproved == {MCProfile({"x"}, TRUE), MCProfile({"x", "y"}, FALSE)}
MCFirstProfiles ==
    [s \in Offerings |-> IF s = "a" THEN MCProfile({"x"}, TRUE) ELSE MCProfile({"x", "y"}, FALSE)]

\* The components that start from one of several states start from one when they stand
\* still. The salon books by itself at first (the policy may change), the locations are
\* alike and so are the imports: the first is "p" and 1.
MCInit ==
    /\ part \in {"dialogue", "lifecycle", "guidance", "answers", "quotes"}
    /\ TalkInit /\ LifeInit /\ GuideInit /\ AnswerInit /\ QuoteInit
    /\ policy.mode = "confirmed_booking"
    /\ part # "lifecycle" => /\ lifePolicy.mode = "pending_approval" /\ life.phone
                             /\ \A v \in Visits : visits[v].when = 1
    /\ part # "guidance" => /\ parlour.authority = "external_provider" /\ parlour.linked = {}
                            /\ advice.chosen = ""
    /\ part # "answers" => shopData.authority = "external_provider"
    /\ store.place = "p" /\ store.menu = 1

MCNext ==
    \/ /\ part = "dialogue" /\ TalkNext
       /\ UNCHANGED <<part, lifeVars, guideVars, answerVars, quoteVars>>
    \/ /\ part = "lifecycle" /\ LifeNext
       /\ UNCHANGED <<part, talkVars, guideVars, answerVars, quoteVars>>
    \/ /\ part = "guidance" /\ GuideNext
       /\ UNCHANGED <<part, talkVars, lifeVars, answerVars, quoteVars>>
    \/ /\ part = "answers" /\ AnswerNext
       /\ UNCHANGED <<part, talkVars, lifeVars, guideVars, quoteVars>>
    \/ /\ part = "quotes" /\ QuoteNext
       /\ UNCHANGED <<part, talkVars, lifeVars, guideVars, answerVars>>

MCSpec == MCInit /\ [][MCNext]_allVars

\* The variables of every component hold what its tables and memory hold.
ConversationTypeOK == TalkTypeOK /\ LifeTypeOK /\ GuideTypeOK /\ AnswerTypeOK /\ QuoteTypeOK

MCSymmetry == Permutations(Customers)

\* What is booked, moved or cancelled is what the caller agreed to: the draft that was
\* read out, the appointment as it was when approved, the service that was recommended.
DoneAsAgreed == ExecutedAsHeard /\ ChangedAsApproved /\ BookedAsRecommended

\* A call books at most once, and what the caller is told of a booking, a move or a
\* cancellation did happen.
ToldAsDone == BookedOnceAsTold /\ LifecycleToldTruly

\* A slot is claimed as it was offered and a question is answered from one state of the
\* salon, whatever changes between the reads.
OfferedFromOneMoment == ClaimedAsOffered /\ KnownOfOneMoment
=============================================================================
