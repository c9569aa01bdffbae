----------------------------- MODULE VoiceStream -----------------------------
(***************************************************************************)
(* One phone call over a media stream (modules/voice_twilio handler.go,    *)
(* realtime_recovery.go, speech_playout.go; modules/voice_openai           *)
(* realtime.go, speech_stream.go).                                         *)
(*                                                                         *)
(* One goroutine owns the state of the bridge and selects among: marks     *)
(* that Twilio returns, timers, results of backend turns, ticks of the     *)
(* playout clock, events of the speech producers and events of the         *)
(* realtime session.  Turns and speech producers are goroutines that       *)
(* outlive what started them: their results arrive late, after a barge-in, *)
(* a newer utterance or the end of the conversation.                       *)
(*                                                                         *)
(* `call' is the state of that goroutine.  The handlers are operators from *)
(* one such state to the next, composed the way the closures call each     *)
(* other.                                                                  *)
(***************************************************************************)
EXTENDS Integers, Sequences, FiniteSets

CONSTANTS
    OutputModes,             \* subset of {"streaming", "identity", "legacy"}
    MaxUtterances,           \* bound: what the caller says
    InputHandoffThreshold,   \* realtimeInputHandoffThreshold
    ReplyQueueLimit,         \* realtimeReplyQueueLimit
    StartupFrames,           \* streamingSpeechStartupBytes, in frames
    QueueFrameLimit,         \* streamingSpeechQueueFrameLimit
    EventBufferLimit         \* streamingSpeechEventBufferLimit

ASSUME VoiceConstants ==
    /\ OutputModes \subseteq {"streaming", "identity", "legacy"}
    /\ {MaxUtterances, InputHandoffThreshold, ReplyQueueLimit, StartupFrames, QueueFrameLimit,
        EventBufferLimit} \subseteq Nat \ {0}

VARIABLES
    call,          \* the bridge
    said,          \* utterances the caller began
    turnResults,   \* results of backend turns that were not taken yet
    speechEvents,  \* events of the speech producers that were not taken yet
    producing,     \* replies whose speech is still being produced
    marks          \* marks that Twilio has not returned

voiceVars == <<call, said, turnResults, speechEvents, producing, marks>>

Utterances == 1 .. MaxUtterances
ReplyKinds == {"initial", "backend", "progress", "recovery", "terminal"}
NoReply == [kind |-> "none", generation |-> 0, id |-> 0]

-----------------------------------------------------------------------------
(* The closures of the bridge. *)

ClosedCall(failed) ==
    [stage |-> "closed", failed |-> failed, mode |-> "none", active |-> NoReply, sent |-> 0,
     interrupted |-> FALSE, played |-> FALSE, identified |-> FALSE, buffered |-> FALSE,
     spoken |-> "none", pending |-> <<>>, speaking |-> FALSE, awaiting |-> {}, seen |-> {},
     generation |-> 0, latest |-> 0, terminal |-> FALSE, mark |-> 0, marksSent |-> 0,
     queue |-> <<>>, inFlight |-> 0, progressTimer |-> FALSE, progressSpoken |-> FALSE,
     sequence |-> 0, startup |-> 0, started |-> FALSE, frames |-> <<>>, ticker |-> FALSE,
     providerDone |-> FALSE, firstByteTimer |-> FALSE, rejections |-> 0, strong |-> FALSE,
     finalized |-> FALSE]
\* What the goroutine knew ends with it.
closeStream(failed) == ClosedCall(failed)

Streaming(c) == c.mode = "streaming"
ResponseActive(c) == c.active # NoReply
BackendBusy(c) == c.inFlight # 0 \/ c.queue # <<>>
InputBusy(c) == c.speaking \/ c.awaiting # {}

startNextTurn(c) ==
    IF c.stage = "closed" \/ c.inFlight # 0 \/ c.queue = <<>> THEN c
    ELSE [c EXCEPT !.inFlight = Head(c.queue), !.queue = Tail(c.queue), !.progressTimer = TRUE]

\* enqueueRealtimeReply: an answer replaces older answers and everything said meanwhile.
ReplySuperseded(queued, reply) ==
    CASE reply.kind = "terminal" -> TRUE
      [] reply.kind = "backend" ->
           \/ queued.kind \in {"recovery", "progress"}
           \/ queued.kind = "backend" /\ queued.generation <= reply.generation
      [] OTHER -> queued.kind = reply.kind /\ reply.kind \in {"recovery", "progress"}
\* The replies at some places of the queue, in its order.
Only(pending, places) ==
    [k \in 1 .. Cardinality(places) |->
        pending[CHOOSE i \in places : Cardinality({j \in places : j <= i}) = k]]
enqueueRealtimeReply(pending, reply) ==
    Append(Only(pending, {i \in DOMAIN pending : ~ ReplySuperseded(pending[i], reply)}), reply)

realtimeReplyPriority(kind) ==
    CASE kind = "terminal" -> 5 [] kind = "backend" -> 4 [] kind = "initial" -> 3
      [] kind = "recovery" -> 2 [] kind = "progress" -> 1 [] OTHER -> 0

\* The speech of a reply is requested: everything about the previous one is reset.
StartReply(c, kind, generation) ==
    [c EXCEPT !.sequence = @ + 1, !.sent = 0, !.interrupted = FALSE, !.played = FALSE,
              !.active = [kind |-> kind, generation |-> generation, id |-> c.sequence + 1],
              !.identified = FALSE, !.buffered = FALSE, !.spoken = "none", !.startup = 0,
              !.started = FALSE, !.frames = <<>>, !.ticker = FALSE, !.providerDone = FALSE,
              !.firstByteTimer = Streaming(c) /\ kind = "recovery"]
speakReply(c, kind, generation) ==
    LET reply == [kind |-> kind, generation |-> generation, id |-> 0]
        b == IF kind = "terminal"
             THEN [c EXCEPT !.terminal = TRUE, !.queue = <<>>, !.pending = <<>>] ELSE c
        queued == enqueueRealtimeReply(b.pending, reply)
    IN  IF ResponseActive(b) \/ InputBusy(b) \/ (kind = "recovery" /\ BackendBusy(b))
        THEN IF Len(queued) > ReplyQueueLimit THEN closeStream(TRUE)
             ELSE [b EXCEPT !.pending = queued]
        ELSE StartReply(b, kind, generation)

\* flushPendingReply: what is out of date is dropped, and the most important is spoken.
Outdated(c, reply) ==
    \/ reply.kind = "progress" /\ c.inFlight = 0
    \/ reply.kind = "backend" /\ reply.generation < c.latest
Speakable(c, reply) ==
    /\ c.terminal => reply.kind = "terminal"
    /\ reply.kind \in {"backend", "recovery"} => ~ BackendBusy(c)
MoreImportant(pending, i, j) ==
    LET p == realtimeReplyPriority(pending[i].kind)
        q == realtimeReplyPriority(pending[j].kind)
    IN  p > q \/ (p = q /\ i <= j)
flushPendingReply(c) ==
    LET kept == {i \in DOMAIN c.pending : ~ Outdated(c, c.pending[i])}
        ready == {i \in kept : Speakable(c, c.pending[i])}
        best == CHOOSE i \in ready : \A j \in ready : MoreImportant(c.pending, i, j)
    IN  IF c.stage = "closed" \/ ResponseActive(c) \/ InputBusy(c) \/ c.pending = <<>> THEN c
        ELSE IF ready = {} THEN [c EXCEPT !.pending = Only(c.pending, kept)]
        ELSE speakReply([c EXCEPT !.pending = Only(c.pending, kept \ {best})],
                        c.pending[best].kind, c.pending[best].generation)

beginTerminalCloseDrain(c, sent) ==
    IF sent = 0 THEN closeStream(FALSE)
    ELSE [c EXCEPT !.marksSent = @ + 1, !.mark = c.marksSent + 1]

\* completeStreamingReply and the end of response.done: the next reply, or the mark.
completeReply(c) ==
    LET d == [c EXCEPT !.active = NoReply, !.sent = 0, !.interrupted = FALSE,
                       !.identified = FALSE, !.buffered = FALSE, !.spoken = "none", !.frames = <<>>,
                       !.startup = 0, !.firstByteTimer = FALSE, !.providerDone = FALSE,
                       !.ticker = FALSE]
        e == flushPendingReply(d)
        closeAfter == c.active.kind = "terminal"
    IN  IF e.stage = "closed" THEN e
        ELSE IF closeAfter /\ e.terminal /\ ~ ResponseActive(e)
        THEN beginTerminalCloseDrain(e, c.sent)
        ELSE IF c.pending = <<>> /\ closeAfter /\ ~ c.interrupted
        THEN beginTerminalCloseDrain(e, c.sent) ELSE e

\* The speech of the active reply is cancelled; it ends with its producer or the next tick.
cancelSpeech(c) ==
    [c EXCEPT !.interrupted = TRUE, !.frames = <<>>, !.startup = 0,
              !.ticker = @ /\ c.providerDone]

\* handleTurnResult.
staleReply(c, result) == result.generation < c.latest /\ result.outcome # "terminal"
handleTurnResult(c, result) ==
    LET b == [c EXCEPT !.inFlight = 0, !.progressTimer = FALSE]
        yields == Streaming(b) /\ b.active.kind \in {"progress", "recovery"}
        d == IF result.outcome # "error" /\ yields THEN cancelSpeech(b) ELSE b
        kind == IF result.outcome = "terminal" THEN "terminal" ELSE "backend"
    IN  IF staleReply(c, result) THEN startNextTurn(b)
        ELSE startNextTurn(speakReply(d, kind, result.generation))

-----------------------------------------------------------------------------
(* What the goroutine does next: its own state, and the speech it asked for. *)
Bridge(c) ==
    /\ call' = c
    /\ producing' = producing \cup (call.sequence + 1 .. c.sequence)
    /\ marks' = IF c.marksSent > call.marksSent THEN marks \cup {c.marksSent} ELSE marks

\* The stream starts: the route, its token and the session are checked and the realtime
\* session connects, or the stream is closed and the failure recorded.
Stream(mode) ==
    /\ call.stage = "connecting"
    /\ Bridge(speakReply([call EXCEPT !.stage = "open", !.mode = mode], "initial", 0))
    /\ UNCHANGED <<said, turnResults, speechEvents>>
StreamRefused ==
    /\ call.stage = "connecting"
    /\ Bridge(closeStream(TRUE))
    /\ UNCHANGED <<said, turnResults, speechEvents>>
\* Twilio stops the stream, or the realtime session ends or reports an error.
StreamStops ==
    /\ call.stage = "open"
    /\ \E failed \in BOOLEAN : Bridge(closeStream(failed))
    /\ UNCHANGED <<said, turnResults, speechEvents>>
TwilioWriteFails ==
    /\ call.stage = "open" /\ ResponseActive(call)
    /\ Bridge(closeStream(TRUE))
    /\ UNCHANGED <<said, turnResults, speechEvents>>

MarkReturned(m) ==
    /\ m \in marks /\ call.stage = "open"
    /\ IF m = call.mark THEN call' = closeStream(FALSE) ELSE UNCHANGED call
    /\ marks' = marks \ {m}
    /\ UNCHANGED <<said, turnResults, speechEvents, producing>>
CloseDrainTimeout ==
    /\ call.stage = "open" /\ call.mark # 0
    /\ Bridge(closeStream(FALSE))
    /\ UNCHANGED <<said, turnResults, speechEvents>>

-----------------------------------------------------------------------------
(* Backend turns. *)

TurnOutcomes == {"reply", "terminal", "error"}
\* The goroutine of a turn ends: the conversation goes on, is over, or failed.
TurnCompletes(outcome) ==
    /\ call.stage = "open" /\ call.inFlight # 0 /\ turnResults = <<>>
    /\ turnResults' = <<[generation |-> call.inFlight, outcome |-> outcome]>>
    /\ UNCHANGED <<call, said, speechEvents, producing, marks>>
TurnResult ==
    /\ call.stage = "open" /\ turnResults # <<>>
    /\ Bridge(handleTurnResult(call, Head(turnResults)))
    /\ turnResults' = Tail(turnResults)
    /\ UNCHANGED <<said, speechEvents>>
\* The progress timer, when no result is there yet.
TurnProgress ==
    /\ call.stage = "open" /\ call.progressTimer /\ turnResults = <<>>
    /\ LET c == [call EXCEPT !.progressTimer = FALSE] IN
       Bridge(IF c.inFlight # 0 /\ ~ c.progressSpoken /\ ~ ResponseActive(c) /\ c.pending = <<>>
              THEN speakReply([c EXCEPT !.progressSpoken = TRUE], "progress", c.latest)
              ELSE c)
    /\ UNCHANGED <<said, turnResults, speechEvents>>

-----------------------------------------------------------------------------
(* Streaming speech. *)

\* A producer's context is cancelled once its reply is interrupted or over.
Cancelled(id) == id # call.active.id \/ call.interrupted
Produce(id, what) ==
    /\ call.stage = "open" /\ call.mode = "streaming" /\ id \in producing
    /\ Len(speechEvents) < EventBufferLimit
    /\ what = "chunk" => ~ Cancelled(id)
    /\ speechEvents' = Append(speechEvents, [id |-> id, what |-> what])
    /\ producing' = IF what = "chunk" THEN producing ELSE producing \ {id}
    /\ UNCHANGED <<call, said, turnResults, marks>>

\* streamingSpeechPlayout.Add: a startup block at once, then a frame per tick.
AddFrame(c, id) ==
    IF c.started THEN [c EXCEPT !.frames = Append(@, id), !.firstByteTimer = FALSE]
    ELSE IF c.startup + 1 < StartupFrames
    THEN [c EXCEPT !.startup = @ + 1, !.firstByteTimer = FALSE]
    ELSE [c EXCEPT !.startup = 0, !.started = TRUE, !.sent = id, !.played = TRUE,
                   !.ticker = TRUE, !.firstByteTimer = FALSE]
\* streamingSpeechPlayout.Finish: a startup block that never filled is sent as it is.
FinishFrames(c) ==
    IF c.started \/ c.startup = 0 THEN c
    ELSE [c EXCEPT !.startup = 0, !.started = TRUE, !.sent = c.active.id, !.played = TRUE]

ProviderDone(c, what) ==
    LET d == [c EXCEPT !.providerDone = TRUE]
        f == FinishFrames(d)
    IN  IF what = "failed" /\ ~ c.interrupted THEN closeStream(TRUE)
        ELSE IF c.interrupted THEN completeReply(d)
        ELSE IF f.frames = <<>> THEN completeReply(f) ELSE [f EXCEPT !.ticker = TRUE]

\* An event of another reply's speech is dropped.
\* Mutant: it is taken for the reply that is spoken now.
IsActiveSpeechAny(event) == ResponseActive(call)
IsActiveSpeech(event) == event.id = call.active.id
SpeechEvent ==
    /\ call.stage = "open" /\ speechEvents # <<>>
    /\ Len(call.frames) < QueueFrameLimit
    /\ LET event == Head(speechEvents) IN
       Bridge(IF ~ IsActiveSpeech(event) THEN call
              ELSE IF event.what # "chunk" THEN ProviderDone(call, event.what)
              ELSE IF call.interrupted THEN call ELSE AddFrame(call, event.id))
    /\ speechEvents' = Tail(speechEvents)
    /\ UNCHANGED <<said, turnResults>>

\* The playout clock.
PlayoutTick ==
    /\ call.stage = "open" /\ call.ticker
    /\ LET c == IF call.frames = <<>> THEN call
                ELSE [call EXCEPT !.frames = Tail(@), !.sent = Head(call.frames), !.played = TRUE]
       IN  Bridge(IF call.interrupted THEN (IF call.providerDone THEN completeReply(call) ELSE call)
                  ELSE IF c.providerDone /\ c.frames = <<>> THEN completeReply(c) ELSE c)
    /\ UNCHANGED <<said, turnResults, speechEvents>>
\* Recovery speech that has not begun in time is given up.
SpeechFirstByteTimeout ==
    /\ call.stage = "open" /\ call.firstByteTimer
    /\ Bridge(completeReply([cancelSpeech(call) EXCEPT !.providerDone = TRUE]))
    /\ UNCHANGED <<said, turnResults, speechEvents>>

-----------------------------------------------------------------------------
(* Speech of the realtime session itself, when it is not streamed. *)

\* responseEventMatchesActive: buffered audio needs the response to be identified.
responseEventMatchesActive(id) ==
    id = call.active.id /\ (call.mode = "identity" => call.identified)
ResponseCreated(id) ==
    /\ call.stage = "open" /\ call.mode # "streaming" /\ id \in producing
    /\ Bridge(IF id = call.active.id THEN [call EXCEPT !.identified = TRUE] ELSE call)
    /\ UNCHANGED <<said, turnResults, speechEvents>>
AudioDelta(id) ==
    /\ call.stage = "open" /\ call.mode # "streaming" /\ id \in producing
    /\ responseEventMatchesActive(id) /\ ~ call.interrupted
    /\ Bridge(IF call.mode = "identity" THEN [call EXCEPT !.buffered = TRUE]
              ELSE [call EXCEPT !.sent = id, !.played = TRUE])
    /\ UNCHANGED <<said, turnResults, speechEvents>>
AudioTranscriptDone(id, spoken) ==
    /\ call.stage = "open" /\ call.mode # "streaming" /\ id \in producing
    /\ responseEventMatchesActive(id)
    /\ Bridge([call EXCEPT !.spoken = spoken])
    /\ UNCHANGED <<said, turnResults, speechEvents>>

\* sameSpokenReply: the transcript of the audio against the approved text.
SpokenVerdicts == {"same", "different"}
ResponseStatuses == {"completed", "cancelled", "failed"}
\* Buffered audio is released only if it says what the backend approved.
Releasable(c) == c.buffered /\ c.spoken = "same"
ResponseDone(id, status) ==
    /\ call.stage = "open" /\ call.mode # "streaming" /\ id \in producing
    /\ responseEventMatchesActive(id)
    /\ status = "cancelled" => call.interrupted
    /\ LET release == call.mode = "identity" /\ status = "completed" /\ ~ call.interrupted
           c == IF status = "failed" \/ (release /\ ~ Releasable(call)) THEN closeStream(TRUE)
                ELSE completeReply(IF release THEN [call EXCEPT !.sent = id, !.played = TRUE]
                                   ELSE call)
       IN  /\ call' = c
           /\ producing' = (producing \ {id}) \cup (call.sequence + 1 .. c.sequence)
           /\ marks' = IF c.marksSent > call.marksSent THEN marks \cup {c.marksSent} ELSE marks
    /\ UNCHANGED <<said, turnResults, speechEvents>>

-----------------------------------------------------------------------------
(* The caller. *)

\* Unstreamed speech is not interrupted before it was heard for a moment (bargeInGuard).
shouldInterruptPlayback(c, elapsed) ==
    IF Streaming(c) THEN ResponseActive(c) ELSE c.played /\ elapsed
SpeechStarted(elapsed) ==
    /\ call.stage = "open" /\ ~ call.speaking /\ said < MaxUtterances
    /\ said' = said + 1
    /\ LET c == [call EXCEPT !.speaking = TRUE]
           ignored == \/ c.finalized /\ ~ c.terminal
                      \/ ~ shouldInterruptPlayback(c, elapsed)
           d == [c EXCEPT !.mark = 0]
       IN  Bridge(IF ignored THEN c
                  ELSE IF c.terminal /\ ~ ResponseActive(c) /\ c.mark # 0 THEN closeStream(FALSE)
                  ELSE IF ResponseActive(d) /\ ~ d.interrupted
                  THEN (IF Streaming(d) THEN cancelSpeech(d) ELSE [d EXCEPT !.interrupted = TRUE])
                  ELSE d)
    /\ UNCHANGED <<turnResults, speechEvents>>
SpeechStopped ==
    /\ call.stage = "open" /\ call.speaking
    /\ Bridge([call EXCEPT !.speaking = FALSE, !.awaiting = @ \cup {said}])
    /\ UNCHANGED <<said, turnResults, speechEvents>>

\* Admit: the log probabilities and the density of a transcript decide, and under the
\* automatic profile a poor one makes admission stricter for the rest of the call.
Transcripts == {"empty", "poor", "fair", "clear"}
Admissible(c, heard) == heard = "clear" \/ (heard = "fair" /\ ~ c.strong)
Admit(c, heard) == [c EXCEPT !.strong = @ \/ ~ Admissible(c, heard)]
\* HandleUnintelligibleRealtimeInput ends the conversation, or fails.
HandoffOutcomes == {"done", "error"}
\* realtimeInputRecovery.Reject counts rejections in a row.
Rejected(c, generation, handoff) ==
    LET d == [c EXCEPT !.rejections = IF @ < InputHandoffThreshold THEN @ + 1 ELSE @]
    IN  IF d.rejections < InputHandoffThreshold \/ handoff = "error"
        THEN speakReply(d, "recovery", generation)
        ELSE speakReply([d EXCEPT !.finalized = TRUE], "terminal", generation)
TurnAccepted(c, generation) ==
    startNextTurn([c EXCEPT !.rejections = 0, !.latest = generation,
                            !.queue = Append(@, generation)])
\* Nothing to answer: what waited for the transcript may be spoken now.
Unheard(c) == flushPendingReply(c)
\* The transcript of an utterance, perhaps for the second time, or an empty one.
TranscriptDone(item, heard, handoff) ==
    /\ call.stage = "open" /\ item \in call.awaiting \cup call.seen
    /\ item \in call.seen => heard = "clear" /\ handoff = "done"
    /\ LET c == [call EXCEPT !.awaiting = @ \ {item}]
           fresh == [c EXCEPT !.seen = @ \cup {item}, !.generation = @ + 1]
       IN  Bridge(IF c.finalized \/ c.terminal \/ heard = "empty" \/ item \in c.seen
                  THEN Unheard(c)
                  ELSE IF Admissible(c, heard) THEN TurnAccepted(fresh, fresh.generation)
                  ELSE Rejected(Admit(fresh, heard), fresh.generation, handoff))
    /\ UNCHANGED <<said, turnResults, speechEvents>>

-----------------------------------------------------------------------------
VoiceInit ==
    /\ call = [ClosedCall(FALSE) EXCEPT !.stage = "connecting"]
    /\ said = 0 /\ turnResults = <<>> /\ speechEvents = <<>> /\ producing = {} /\ marks = {}

VoiceNext ==
    \/ \E mode \in OutputModes : Stream(mode)
    \/ StreamRefused \/ StreamStops \/ TwilioWriteFails \/ CloseDrainTimeout
    \/ \E m \in marks : MarkReturned(m)
    \/ \E outcome \in TurnOutcomes : TurnCompletes(outcome)
    \/ TurnResult \/ TurnProgress \/ SpeechEvent \/ PlayoutTick \/ SpeechFirstByteTimeout
    \/ \E id \in producing :
         \/ \E what \in {"chunk", "done", "failed"} : Produce(id, what)
         \/ ResponseCreated(id) \/ AudioDelta(id)
         \/ \E spoken \in SpokenVerdicts : AudioTranscriptDone(id, spoken)
         \/ \E status \in ResponseStatuses : ResponseDone(id, status)
    \/ \E elapsed \in BOOLEAN : SpeechStarted(elapsed)
    \/ SpeechStopped
    \/ \E item \in Utterances, heard \in Transcripts, handoff \in HandoffOutcomes :
         TranscriptDone(item, heard, handoff)

VoiceSpec == VoiceInit /\ [][VoiceNext]_voiceVars

-----------------------------------------------------------------------------
VoiceTypeOK ==
    /\ call.stage \in {"connecting", "open", "closed"}
    /\ call.active.kind \in ReplyKinds \cup {"none"}
    /\ Len(call.pending) <= ReplyQueueLimit /\ Len(call.frames) <= QueueFrameLimit
    /\ call.awaiting \subseteq 1 .. said /\ call.latest <= call.generation
    /\ producing \subseteq 1 .. call.sequence \/ call.stage = "closed"

\* What the caller hears is the reply that is being spoken; an answer that a newer
\* utterance has overtaken is not spoken on (streamed speech; the session's own speech may
\* run on for the guard period).
HeardIsCurrent ==
    /\ \A i \in DOMAIN call.frames : call.frames[i] = call.active.id
    /\ call.sent \in {0, call.active.id}
    /\ call.mode = "streaming" /\ call.active.kind = "backend" /\ call.active.generation < call.latest
         => call.interrupted

\* No reply begins while the caller speaks or a transcript is awaited; an answer begins
\* only when it is the answer to the latest utterance and nothing is being worked on.
RepliesAreTimely ==
    [][call'.stage = "open" /\ call'.active.id > call.active.id =>
         /\ ~ InputBusy(call')
         /\ call'.active.kind = "backend" =>
              call'.active.generation = call'.latest /\ call'.inFlight = 0]_voiceVars

\* The bridge never falls silent with something to say: when nothing is spoken, heard or
\* worked on, no reply that could be spoken is left waiting.
NoSilentStall ==
    call.stage = "open" /\ ~ ResponseActive(call) /\ ~ InputBusy(call) /\ ~ BackendBusy(call) =>
      \A i \in DOMAIN call.pending :
        Outdated(call, call.pending[i]) \/ ~ Speakable(call, call.pending[i])
=============================================================================
