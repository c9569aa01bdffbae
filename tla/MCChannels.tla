------------------------------ MODULE MCChannels ------------------------------
(* What reaches the program from Twilio and Square and what it sends back, on   *)
(* small instances: the voice stream, the sessions of the calls, the texts to   *)
(* the salon's customers and Square's booking events. The variable part says    *)
(* which of them a behaviour is of and the others stand at their first state,   *)
(* so the run has the sum of their states and not the product.                  *)
EXTENDS VoiceStream, CallSessions, CustomerSms, SquareWebhooks, TLC

VARIABLE part

allVars == <<part, voiceVars, callVars, smsVars, hookVars>>

\* Quiet hours that pass midnight, on and off.
MCQuietPolicies == {[enabled |-> on, from |-> 2, to |-> 1] : on \in BOOLEAN}

\* A behaviour of the texts has one sender at a time and one change of the appointment.
\* Where senders race, two of each, it has no more of the consent, the policy and the
\* rows than the race needs.
OneText ==
    /\ source.version <= 1
    /\ smsPolicy.version = 1 \/ consent.version < 3
    /\ \A v, w \in Senders : sender[v] # IdleSender /\ sender[w] # IdleSender => v = w
Tried(d) == IF smsRow[d] = NoRow THEN 0 ELSE smsRow[d].attempts
TextsRace ==
    /\ smsPolicy.version = 1
    /\ \A e \in consentEvents : e.key[1] \in {"attest", "stop", "start"}
    /\ source.status # "synced" \/ source.version = 0
    /\ \A d, e \in SmsRows : Tried(d) + (IF d = e THEN 0 ELSE Tried(e)) <= 2
    /\ \A d \in SmsRows : smsRow[d] # NoRow =>
          smsRow[d].requeues = 0 /\ ~ smsRow[d].redacted /\ smsRow[d].status # "quiet_hours"
    /\ \A w \in Senders : sender[w].phase = "planned" => sender[w].plan \in {"mark", "suppressed"}
    /\ \A t \in texts : t.state = "accepted"

\* The scheduled repair and the operator's requeue each bring a second synchronization
\* into play, and a booking may depart in one way from what the calendar expects; a
\* behaviour has one of the three.
Unrepaired == repairState.token = 0
NotRequeued == \A v \in HookEvents : hook[v] # NoHook => hook[v].requeues = 0
Fits == square.fit /\ ~ square.protected
Told == \A v \in 1 .. square.version : announced[v] # NoDay
OneExtra ==
    \/ Fits /\ Told /\ (Unrepaired \/ NotRequeued)
    \/ Unrepaired /\ NotRequeued /\ (Fits \/ (Told /\ (square.fit \/ ~ square.protected)))

\* The booking starts on a day the scheduled repair looks at; it may move away from it.
MCInit ==
    /\ part \in {"stream", "turns", "routing", "texts", "race", "events"}
    /\ VoiceInit /\ CallInit /\ SmsInit /\ HookInit
    /\ smsPolicy.enabled /\ square.day = 0 /\ OneExtra
    /\ part # "events" => Fits /\ Told

MCNext ==
    \/ part = "stream" /\ VoiceNext /\ UNCHANGED <<part, callVars, smsVars, hookVars>>
    \/ part = "turns" /\ CallTurns /\ UNCHANGED <<part, voiceVars, smsVars, hookVars>>
    \/ part = "routing" /\ CallRouting /\ UNCHANGED <<part, voiceVars, smsVars, hookVars>>
    \/ part = "texts" /\ SmsNext /\ OneText' /\ UNCHANGED <<part, voiceVars, callVars, hookVars>>
    \/ part = "race" /\ SmsNext /\ TextsRace' /\ UNCHANGED <<part, voiceVars, callVars, hookVars>>
    \/ part = "events" /\ HookNext /\ OneExtra' /\ UNCHANGED <<part, voiceVars, callVars, smsVars>>

MCSpec == MCInit /\ [][MCNext]_allVars

\* The variables of every component hold what its tables and memory hold.
ChannelsTypeOK == VoiceTypeOK /\ CallTypeOK /\ SmsTypeOK /\ HookTypeOK

MCSymmetry == Permutations(VoiceSalons) \cup Permutations(CallHandlers)

\* What a caller hears is the answer to what was last said, and is not withheld once
\* nothing stands in its way (runMediaStream and its reply queue).
CallersAreAnswered == HeardIsCurrent /\ NoSilentStall

\* A customer is texted once about a change, on a consent that stood at the dispatch
\* marker, and an event of Square that counts as processed is in the calendar, if the
\* calendar can hold it.
DeliveredAsRecorded == TextsAreWanted /\ ProcessedIsMirrored

\* A reply starts only while nobody speaks and none is newer, an ended conversation stays
\* ended, and an opt-out is undone only by the customer.
ChannelsKeepOrder == RepliesAreTimely /\ EndedStaysEnded /\ OptOutHolds
=============================================================================
