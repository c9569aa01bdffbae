----------------------------- MODULE CallSessions -----------------------------
(***************************************************************************)
(* Phone calls and their sessions (modules/voice, the session store of     *)
(* modules/conversation).  Twilio posts a webhook for the incoming call,   *)
(* for each recorded turn, for the state of the media stream and for what  *)
(* to do when the stream ends; it retries a webhook that was not answered. *)
(* Each webhook is resolved through the salon's voice route, whose         *)
(* configuration may change while the request is running.                  *)
(*                                                                         *)
(* A turn runs under an advisory lock of the session.  The lock belongs to *)
(* a database connection of its own and may be lost while the turn goes    *)
(* on; the turn is then held only by the row it saves.  What the           *)
(* conversation answers is a choice here: the module is about which turns  *)
(* are applied, to which session, and how often.                           *)
(***************************************************************************)
EXTENDS Integers, FiniteSets, Sequences

CONSTANTS
    VoiceSalons,
    CallIds,          \* provider call ids (CallSid)
    TurnEvents,       \* ids Twilio gives to the turns of a call
    CallHandlers,     \* webhook requests being served
    MaxRouteChanges,  \* changes of one voice route
    MaxTurns,         \* turns saved in one session
    MaxAudios,        \* recorded answers that have not expired
    MaxConflicts      \* maxStateConflictRetries

ASSUME CallConstants ==
    /\ MaxRouteChanges \in Nat /\ MaxTurns \in Nat /\ MaxAudios \in Nat /\ MaxConflicts \in Nat

VARIABLES
    routes,       \* salon_integration_configs of Twilio: enabled, version, token
    calls,        \* call_sessions by provider call id
    transcript,   \* event keys of a session's transcript, in sequence
    executedCalls,   \* calls whose booking operation was executed
    webhookLog,   \* voice_webhook_events that a later request reads
    audios,       \* voice_audio_outputs of a session, not expired
    request       \* the request each handler is serving

callVars == <<routes, calls, transcript, executedCalls, webhookLog, audios, request>>

NoCall == [status |-> "none"]
IdleRequest == [step |-> "idle"]
Terminal == {"completed", "handoff"}
\* speechTurnEventKey: a webhook that carries no id has no key.  The id is signed with the
\* token of the route (verifiedWebhookRuntimePayload).
NoKey == <<"", 0>>
speechTurnEventKey(e, token) == IF e = "" THEN NoKey ELSE <<e, token>>
\* HandleUnintelligibleRealtimeInput: one key for the session.
NoiseKey == <<"voice-input-unintelligible", 0>>

-----------------------------------------------------------------------------
(* Routing. *)

\* updateTwilioForSalon, as a request sees it: every change makes a new version, a rotated
\* token invalidates what was signed with the old one.
RouteChanges(s) ==
    /\ routes[s].version < MaxRouteChanges
    /\ \E on \in BOOLEAN, rotate \in BOOLEAN :
         routes' = [routes EXCEPT ![s] = [enabled |-> on, version |-> @.version + 1,
                                          token |-> IF rotate THEN @.token + 1 ELSE @.token]]
    /\ UNCHANGED <<calls, transcript, executedCalls, webhookLog, audios, request>>

\* findCallRouteForSalon.
CallRoute(c, s) == calls[c].status # "none" /\ calls[c].salon = s
requiresExistingCall(endpoint) == endpoint # "incoming"

\* ResolveTwilioVoiceRoute, VerifyTwilioVoiceRoute: the number Twilio reports names the
\* salon; for the stream's state it is the one of the session, which a redacted session no
\* longer has.
ResolveTwilioVoiceRoute(s, c, endpoint) ==
    /\ routes[s].enabled
    /\ requiresExistingCall(endpoint) => CallRoute(c, s)
    /\ endpoint = "status" => ~ calls[c].redacted
\* What a request keeps of the route it found.
Accepted(h, s, c, endpoint, key) ==
    /\ request[h].step = "idle" /\ ResolveTwilioVoiceRoute(s, c, endpoint)
    /\ request' = [request EXCEPT ![h] =
         [step |-> "resolved", endpoint |-> endpoint, salon |-> s, call |-> c, key |-> key,
          version |-> IF endpoint = "incoming" THEN routes[s].version ELSE 0,
          locked |-> FALSE, revision |-> 0, conflicts |-> 0]]
    /\ UNCHANGED <<routes, calls, transcript, executedCalls, webhookLog, audios>>
IncomingPosted(h, s, c) == Accepted(h, s, c, "incoming", NoKey)
TurnPosted(h, s, c, e) == Accepted(h, s, c, "turn", speechTurnEventKey(e, routes[s].token))
\* HandleUnintelligibleRealtimeInput, from the media stream.
NoisePosted(h, s, c) == Accepted(h, s, c, "noise", NoiseKey)

Goto(h, step) == request' = [request EXCEPT ![h].step = step]
Speaks(h, s, c) == request' = [request EXCEPT ![h] = [step |-> "speaking", salon |-> s, call |-> c]]
SpeaksTo(h) == Speaks(h, request[h].salon, request[h].call)
CallAnswered(h) == request' = [request EXCEPT ![h] = IdleRequest]
\* The request fails, or the server stops: Twilio may post the webhook again.
RequestFails(h) ==
    /\ request[h].step # "idle" /\ CallAnswered(h)
    /\ UNCHANGED <<routes, calls, transcript, executedCalls, webhookLog, audios>>

-----------------------------------------------------------------------------
(* The incoming call. *)

\* getOrStartPhoneSession, HandleIncomingCall: provider configured and quota left.
getOrStartPhoneSession(h) ==
    /\ request[h].step = "resolved" /\ request[h].endpoint = "incoming"
    /\ Goto(h, IF CallRoute(request[h].call, request[h].salon) THEN "started" ELSE "starting")
    /\ UNCHANGED <<routes, calls, transcript, executedCalls, webhookLog, audios>>
\* CreateSession: the insert waits for the route row and is fenced by its version; a session
\* of the same call that exists is taken when it is of the same salon.
RouteFence(h) == LET r == routes[request[h].salon] IN r.enabled /\ r.version = request[h].version
NewCall(s) == [status |-> "active", salon |-> s, revision |-> 0, redacted |-> FALSE,
               personal |-> TRUE, archived |-> FALSE]
\* Mutant: the row that won the insert is taken whatever its salon.
SameIdentityAny(c, s) == calls[c].status # "none"
SameIdentity(c, s) == calls[c].salon = s /\ ~ calls[c].redacted
CreateSession(h) ==
    LET c == request[h].call s == request[h].salon IN
    /\ request[h].step = "starting"
    /\ IF calls[c].status = "none"
       THEN IF RouteFence(h)
            THEN calls' = [calls EXCEPT ![c] = NewCall(s)] /\ Goto(h, "started")
            ELSE CallAnswered(h) /\ UNCHANGED calls            \* ErrSessionRouteFenceConflict
       ELSE /\ IF SameIdentity(c, s) THEN Goto(h, "started") ELSE CallAnswered(h)
            /\ UNCHANGED calls                             \* ErrSessionIdentityConflict
    /\ UNCHANGED <<routes, transcript, executedCalls, webhookLog, audios>>
\* twilioRoutingFingerprint of the configuration the request was verified with; the event
\* is recorded once for a call.
RecordWebhookEvent(ev) ==
    webhookLog' = IF ev.type = "route_verified"   \* idx_voice_webhook_events_twilio_route_verified
                     /\ \E x \in webhookLog : x.type = ev.type /\ x.call = ev.call
                  THEN webhookLog ELSE webhookLog \cup {ev}
\* HandleVerifiedIncomingCall, buildReplyWithInputMode: the answer, with or without audio.
HandleVerifiedIncomingCall(h) ==
    /\ request[h].step = "started"
    /\ RecordWebhookEvent([type |-> "route_verified", call |-> request[h].call,
                           salon |-> request[h].salon, version |-> request[h].version,
                           intact |-> TRUE])
    /\ SpeaksTo(h)
    /\ UNCHANGED <<routes, calls, transcript, executedCalls, audios>>

-----------------------------------------------------------------------------
(* Turns. *)

Holder(c) == {h \in CallHandlers : request[h].step \in {"locked", "loaded", "executed"}
                                   /\ request[h].call = c /\ request[h].locked}
\* Message, HandleVerifiedSpeechTurn: there were words.  WithSessionTurnSerialization waits
\* for the lock of the session.
WithSessionTurnSerialization(h) ==
    /\ request[h].step = "resolved" /\ request[h].endpoint \in {"turn", "noise"}
    /\ Holder(request[h].call) = {}
    /\ request' = [request EXCEPT ![h].step = "locked", ![h].locked = TRUE]
    /\ UNCHANGED <<routes, calls, transcript, executedCalls, webhookLog, audios>>
\* transcribe failed or nothing was said: the caller is asked again, nothing is applied.
NoSpeech(h) ==
    /\ request[h].step = "resolved" /\ request[h].endpoint = "turn"
    /\ SpeaksTo(h)
    /\ UNCHANGED <<routes, calls, transcript, executedCalls, webhookLog, audios>>
LockConnectionLost(h) ==
    /\ request[h].step \in {"locked", "loaded", "executed"} /\ request[h].locked
    /\ request' = [request EXCEPT ![h].locked = FALSE]
    /\ UNCHANGED <<routes, calls, transcript, executedCalls, webhookLog, audios>>

\* GetSessionByTurnEventKey and the same test inside SaveTurn.  Redaction erases the keys.
TurnRecorded(c, key) ==
    key # NoKey /\ ~ calls[c].redacted /\ \E i \in DOMAIN transcript[c] : transcript[c][i] = key
\* messageOnce up to the answer, handleUnintelligibleVoiceInputOnce: a turn that was
\* recorded is replayed, a session that ended refuses it.
messageOnce(h) ==
    LET c == request[h].call IN
    /\ request[h].step = "locked"
    /\ IF TurnRecorded(c, request[h].key) \/ calls[c].status # "active"
       THEN SpeaksTo(h)
       ELSE request' = [request EXCEPT ![h].step = "loaded", ![h].revision = calls[c].revision]
    /\ UNCHANGED <<routes, calls, transcript, executedCalls, webhookLog, audios>>
\* tryNeutralBooking: the operation is executed before the turn is saved, under a key of
\* the session; the same key answers with the same appointment.
conversationOperationKey(c) == c
Execute(h) ==
    /\ request[h].step = "loaded" /\ request[h].endpoint = "turn"
    /\ executedCalls' = executedCalls \cup {conversationOperationKey(request[h].call)}
    /\ request' = [request EXCEPT ![h].step = "executed"]
    /\ UNCHANGED <<routes, calls, transcript, webhookLog, audios>>
\* The status the turn gives the session.
NextStatus(h) ==
    IF request[h].step = "executed" THEN {"completed"}
    ELSE IF request[h].endpoint = "noise" THEN Terminal
    ELSE {"active", "handoff"}
\* Mutant: the turn is saved over whatever the session has become.
CurrentRevisionAny(h) == TRUE
CurrentRevision(h) == calls[request[h].call].revision = request[h].revision
TakesTurn(c) == ~ calls[c].redacted
\* SaveTurn, retrySessionStateConflict: one transaction on the session's row.
SaveTurn(h) ==
    LET c == request[h].call IN
    /\ request[h].step \in {"loaded", "executed"}
    /\ CASE ~ TakesTurn(c) -> CallAnswered(h) /\ UNCHANGED <<calls, transcript>>
         [] TakesTurn(c) /\ TurnRecorded(c, request[h].key) ->
              SpeaksTo(h) /\ UNCHANGED <<calls, transcript>>
         [] TakesTurn(c) /\ ~ TurnRecorded(c, request[h].key) /\ ~ CurrentRevision(h) ->
              /\ request' = [request EXCEPT ![h] =
                   IF @.conflicts < MaxConflicts
                   THEN [@ EXCEPT !.step = "locked", !.conflicts = request[h].conflicts + 1]
                   ELSE IdleRequest]
              /\ UNCHANGED <<calls, transcript>>
         [] OTHER ->
              /\ Len(transcript[c]) < MaxTurns
              /\ \E st \in NextStatus(h) :
                   calls' = [calls EXCEPT ![c].status = st, ![c].revision = @ + 1,
                                          ![c].personal = TRUE]
              /\ transcript' = [transcript EXCEPT ![c] = Append(@, request[h].key)]
              /\ SpeaksTo(h)
    /\ UNCHANGED <<routes, executedCalls, webhookLog, audios>>

\* buildReplyWithInputMode, responseForReply: recorded speech is stored with the session
\* and signed with the token of this moment (audioURL); otherwise the text or the stream.
SaveAudioOutput(h) ==
    LET c == request[h].call IN
    /\ request[h].step = "speaking"
    /\ \/ /\ Cardinality(audios) < MaxAudios
          /\ audios' = audios \cup {[call |-> c, token |-> routes[request[h].salon].token]}
       \/ UNCHANGED audios
    /\ CallAnswered(h)
    /\ UNCHANGED <<routes, calls, transcript, executedCalls, webhookLog>>
\* expires_at, after which Audio does not serve it, and the retention worker.
AudioExpires(a) ==
    /\ a \in audios /\ audios' = audios \ {a}
    /\ UNCHANGED <<routes, calls, transcript, executedCalls, webhookLog, request>>

-----------------------------------------------------------------------------
(* The media stream. *)

\* handleStreamStatus, RecordVerifiedRealtimeEvent: of the states only stream-error is
\* terminal, and only that one is read again.
handleStreamStatus(s, c) ==
    /\ ResolveTwilioVoiceRoute(s, c, "status")
    /\ RecordWebhookEvent([type |-> "realtime_failed", call |-> c, salon |-> s, version |-> 0,
                           intact |-> TRUE])
    /\ UNCHANGED <<routes, calls, transcript, executedCalls, audios, request>>
\* HasTerminalRealtimeFailure.
HasTerminalRealtimeFailure(c) == \E x \in webhookLog : x.type = "realtime_failed" /\ x.call = c /\ x.intact
\* RealtimeFallbackMessage, handleStreamFallback: the call goes on with recordings only
\* when the stream failed and the conversation has not ended; otherwise it hangs up.
Continues(c) == HasTerminalRealtimeFailure(c) /\ calls[c].status = "active"
handleStreamFallback(h, s, c) ==
    /\ request[h].step = "idle" /\ ResolveTwilioVoiceRoute(s, c, "fallback")
    /\ Continues(c) /\ Speaks(h, s, c)
    /\ UNCHANGED <<routes, calls, transcript, executedCalls, webhookLog, audios>>

-----------------------------------------------------------------------------
(* Retention. *)

ArchiveSession(c) ==
    /\ calls[c].status # "none" /\ ~ calls[c].redacted /\ ~ calls[c].archived
    /\ calls' = [calls EXCEPT ![c].archived = TRUE]
    /\ UNCHANGED <<routes, transcript, executedCalls, webhookLog, audios, request>>
\* redactSessionInTx: the row, its transcript, its webhook payloads and its audio.
redactSessionInTx(c) ==
    /\ calls' = [calls EXCEPT ![c].redacted = TRUE, ![c].personal = FALSE, ![c].archived = FALSE]
    /\ webhookLog' = {[x EXCEPT !.intact = @ /\ x.call # c] : x \in webhookLog}
    /\ audios' = {a \in audios : a.call # c}
    /\ UNCHANGED <<routes, transcript, executedCalls, request>>
\* RedactSession: the owner, never while the call is active.
RedactSession(c) ==
    calls[c].status \in Terminal /\ ~ calls[c].redacted /\ redactSessionInTx(c)
\* RedactExpiredSessions: the worker, when the retention time has passed.
RedactExpiredSessions(c) ==
    calls[c].status # "none" /\ ~ calls[c].redacted /\ redactSessionInTx(c)

-----------------------------------------------------------------------------
CallInit ==
    /\ routes = [s \in VoiceSalons |-> [enabled |-> TRUE, version |-> 0, token |-> 1]]
    /\ calls = [c \in CallIds |-> NoCall]
    /\ transcript = [c \in CallIds |-> <<>>]
    /\ executedCalls = {} /\ webhookLog = {} /\ audios = {}
    /\ request = [h \in CallHandlers |-> IdleRequest]

\* The turns of a call, with what ends it, and the routing of calls, with what is kept of
\* them; the two are checked apart, as a turn only needs the call it was routed to.
CallTurns ==
    \/ \E h \in CallHandlers :
         \/ RequestFails(h) \/ WithSessionTurnSerialization(h) \/ NoSpeech(h)
         \/ LockConnectionLost(h) \/ messageOnce(h) \/ Execute(h) \/ SaveTurn(h)
         \/ SaveAudioOutput(h) \/ getOrStartPhoneSession(h) \/ CreateSession(h)
         \/ HandleVerifiedIncomingCall(h)
    \/ \E h \in CallHandlers, s \in VoiceSalons, c \in CallIds :
         \/ NoisePosted(h, s, c) \/ IncomingPosted(h, s, c)
         \/ \E e \in TurnEvents \cup {""} : TurnPosted(h, s, c, e)
    \/ \E c \in CallIds : RedactSession(c) \/ RedactExpiredSessions(c)
CallRouting ==
    \/ \E h \in CallHandlers :
         \/ RequestFails(h) \/ getOrStartPhoneSession(h) \/ CreateSession(h)
         \/ HandleVerifiedIncomingCall(h) \/ SaveAudioOutput(h)
    \/ \E h \in CallHandlers, s \in VoiceSalons, c \in CallIds :
         IncomingPosted(h, s, c) \/ handleStreamFallback(h, s, c)
    \/ \E s \in VoiceSalons, c \in CallIds : handleStreamStatus(s, c)
    \/ \E s \in VoiceSalons : RouteChanges(s)
    \/ \E a \in audios : AudioExpires(a)
    \/ \E c \in CallIds : ArchiveSession(c) \/ RedactExpiredSessions(c)
CallNext == CallTurns \/ CallRouting

CallTypeOK ==
    /\ \A s \in VoiceSalons : routes[s].version \in 0 .. MaxRouteChanges
    /\ \A c \in CallIds :
         /\ calls[c].status \in {"none", "active"} \cup Terminal
         /\ Len(transcript[c]) <= MaxTurns
    /\ executedCalls \subseteq CallIds
    /\ \A h \in CallHandlers : request[h].step \in
         {"idle", "resolved", "starting", "started", "locked", "loaded", "executed", "speaking"}

-----------------------------------------------------------------------------
(* Properties. *)

\* A turn that Twilio posts again, while the first request is still running, after it has
\* lost its lock or after the answer was lost, is applied once.
AppliedOnce ==
    \A c \in CallIds : \A i, j \in DOMAIN transcript[c] :
      transcript[c][i] = transcript[c][j] /\ transcript[c][i] # NoKey => i = j

\* Whatever happens to the routes and whichever of two racing webhooks creates the session,
\* a request works on a session of the salon it was verified for.
CallOfOneSalon ==
    \A h \in CallHandlers : request[h].step \in {"started", "locked", "loaded", "executed"} =>
      calls[request[h].call].salon = request[h].salon

\* A redacted session stays empty, also when a turn that was loaded before comes to save.
RedactedIsEmpty == \A c \in CallIds : calls[c].status # "none" /\ calls[c].redacted => ~ calls[c].personal

\* A turn is applied once, to a session of the salon that was called, and nothing personal
\* returns to a redacted session (SaveTurn, StartSession, the retention of sessions).
CallsAreSound == AppliedOnce /\ CallOfOneSalon /\ RedactedIsEmpty

\* A conversation that ended is not taken up again by a turn that was still running.
EndedStaysEnded ==
    [][\A c \in CallIds : calls[c].status \in Terminal => calls'[c].status = calls[c].status]_callVars

CallSpec == CallInit /\ [][CallNext]_callVars
=============================================================================
