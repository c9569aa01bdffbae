----------------------------- MODULE AnswerContext -----------------------------
(***************************************************************************)
(* What a turn of a conversation knows about the salon (conversation       *)
(* module: loadAnswerContextWithDiagnostics, its cache and the readers,    *)
(* the answers to questions).                                              *)
(*                                                                         *)
(* The services, the staff, the knowledge and the hours are read one query *)
(* at a time, and the result is kept for 45 seconds.  The owner edits, the *)
(* calendar is activated, a provider import runs and the scheduling        *)
(* authority is switched meanwhile; a fence of versions is read before and *)
(* after, and before every use of the cache.  The database counts every    *)
(* change of a collection (triggers), so a version stands for the content. *)
(***************************************************************************)
EXTENDS Integers, FiniteSets

CONSTANTS
    TurnIds,            \* turns of conversations with the salon
    Collections,        \* collections that answers are taken from, "staff" among them
    MaxChanges,         \* bound on the changes made to the salon
    MaxFenceLoads       \* answerContextFenceLoadAttempts

ASSUME AnswerConstants ==
    /\ "staff" \in Collections /\ Collections \cap {"bookable", "hours"} = {}
    /\ MaxChanges \in Nat /\ MaxFenceLoads \in Nat \ {0}

VARIABLES
    shopData,    \* what the database holds of the salon
    kept,        \* the cache entry of the salon
    turns        \* what each turn is doing

answerVars == <<shopData, kept, turns>>

Authorities == {"owner_manual", "manleai_calendar", "external_provider"}
Nothing == 0
NoEntry == [fence |-> Nothing]

-----------------------------------------------------------------------------
(* The salon. *)

\* A change of a collection counts its version; staff may come to lack what the
\* calendar needs of them.
EditCollection(c, fit) ==
    /\ shopData' = [shopData EXCEPT !.versions[c] = @ + 1,
                                    !.fit = IF c = "staff" THEN fit ELSE @]
EditLocalHours == shopData' = [shopData EXCEPT !.localHours = @ + 1]
EditCalendar == shopData' = [shopData EXCEPT !.calendar = @ + 1]
ActivateCalendar ==
    /\ shopData.fit /\ shopData.activated # shopData.calendar
    /\ shopData' = [shopData EXCEPT !.activated = shopData.calendar]
BeginImport == shopData' = [shopData EXCEPT !.generation = @ + 1, !.synced = FALSE]
FinishImport ==
    /\ ~ shopData.synced
    /\ shopData' = [shopData EXCEPT !.synced = TRUE]
SwitchTo(a) ==
    /\ a # shopData.authority
    /\ shopData' = [shopData EXCEPT !.authority = a, !.switches = @ + 1]

\* A count of what has been changed, by which the changes are bounded.
ChangesMade ==
    shopData.localHours + shopData.calendar + shopData.generation + shopData.switches
    + Cardinality({e \in Collections \X (2 .. MaxChanges + 1) :
                     e[2] <= shopData.versions[e[1]]})

SalonChanges ==
    /\ ChangesMade < MaxChanges + 3
    /\ \/ \E c \in Collections, fit \in BOOLEAN : EditCollection(c, fit)
       \/ EditLocalHours \/ EditCalendar \/ BeginImport
       \/ \E a \in Authorities : SwitchTo(a)
    /\ UNCHANGED <<kept, turns>>
SalonSettles ==
    /\ ActivateCalendar \/ FinishImport
    /\ UNCHANGED <<kept, turns>>

-----------------------------------------------------------------------------
(* The fence and what is read behind it. *)

\* The fields that another authority would use are cleared.
GetAnswerContextFence ==
    [authority |-> shopData.authority, switches |-> shopData.switches,
     versions |-> shopData.versions,
     localHours |-> IF shopData.authority = "owner_manual" THEN shopData.localHours ELSE 0,
     calendar |-> IF shopData.authority = "manleai_calendar"
                  THEN <<shopData.calendar, shopData.activated>> ELSE <<0, 0>>,
     provider |-> IF shopData.authority = "external_provider"
                  THEN <<shopData.generation, shopData.synced>> ELSE <<0, FALSE>>]

CalendarLive == shopData.activated = shopData.calendar
\* EvaluateReadiness of the calendar, with the staff as they are.
CalendarReady == CalendarLive /\ shopData.fit

\* The services and the staff that can be booked under an authority.
ListBookable(a) ==
    CASE a = "owner_manual" -> shopData.versions["staff"]
      [] a = "manleai_calendar" -> IF CalendarLive THEN shopData.calendar ELSE Nothing
      [] a = "external_provider" -> IF shopData.synced THEN shopData.generation ELSE Nothing
ListHours(a) ==
    CASE a = "owner_manual" -> shopData.localHours
      [] a = "manleai_calendar" -> IF CalendarLive THEN shopData.calendar ELSE Nothing
      [] a = "external_provider" -> IF shopData.synced THEN shopData.generation ELSE Nothing

Scheduling == {"bookable", "hours"}
Parts == Collections \cup Scheduling
\* The services, their names and consultation profiles, the active staff, the
\* knowledge: as they are, whatever the authority.
ReadCollection(c) == shopData.versions[c]
ReadPart(a, p) ==
    CASE p = "bookable" -> ListBookable(a) [] p = "hours" -> ListHours(a)
      [] OTHER -> ReadCollection(p)

Empty == [p \in Parts |-> Nothing]

\* Under the calendar the evidence names the versions it was taken from.
EvidenceMatches(f) ==
    f.authority = "manleai_calendar" =>
        /\ shopData.authority = f.authority /\ shopData.switches = f.switches
        /\ <<shopData.calendar, shopData.activated>> = f.calendar
ContextReady(f) ==
    CASE f.authority = "owner_manual" -> TRUE
      [] f.authority = "external_provider" -> f.provider[2]
      [] f.authority = "manleai_calendar" -> CalendarReady

\* Without readiness nothing is bookable, no staff are named and no hours are told.
failClosedSchedulingContext(ctx) == [p \in Parts |-> IF p \in Scheduling \cup {"staff"}
                                                     THEN Nothing ELSE ctx[p]]

\* All of it at one moment, for comparison.
ContextOfNow ==
    LET all == [p \in Parts |-> ReadPart(shopData.authority, p)] IN
    IF ContextReady(GetAnswerContextFence) THEN all ELSE failClosedSchedulingContext(all)

-----------------------------------------------------------------------------
(* A turn. *)

NewTurn == [phase |-> "fence", loads |-> 1]
Ended(outcome, ctx, truth) == [phase |-> outcome, context |-> ctx, truth |-> truth]
Step(t, next) == turns' = [turns EXCEPT ![t] = next]

\* lookup: an entry of another fence is dropped, an entry of this one is the answer.
CacheHit(fence) == kept # NoEntry /\ kept.fence = fence

ReadFence(t) ==
    /\ turns[t].phase = "fence"
    /\ LET f == GetAnswerContextFence IN
       IF CacheHit(f)
       THEN Step(t, Ended("answering", kept.context, ContextOfNow)) /\ UNCHANGED kept
       ELSE /\ Step(t, [phase |-> "readiness", loads |-> turns[t].loads, fence |-> f])
            /\ kept' = NoEntry
    /\ UNCHANGED shopData

\* Three loads, then the turn fails.
Again(t) ==
    IF turns[t].loads < MaxFenceLoads THEN [phase |-> "fence", loads |-> turns[t].loads + 1]
    ELSE Ended("failed", Empty, Empty)

loadAnswerContextReadiness(t) ==
    LET turn == turns[t] IN
    /\ turn.phase = "readiness"
    /\ IF EvidenceMatches(turn.fence)
       THEN /\ Step(t, [phase |-> "loading", loads |-> turn.loads, fence |-> turn.fence,
                        ready |-> ContextReady(turn.fence), left |-> Parts, context |-> Empty])
            /\ UNCHANGED kept
       ELSE Step(t, Again(t)) /\ kept' = NoEntry
    /\ UNCHANGED shopData

\* One query; the queries have an order, and nothing depends on it.
loadFreshAnswerContext(t) ==
    LET turn == turns[t] IN
    /\ turn.phase = "loading" /\ turn.left # {}
    /\ LET p == CHOOSE q \in turn.left : TRUE IN
       Step(t, [turn EXCEPT
                  !.context = [turn.context EXCEPT ![p] = ReadPart(turn.fence.authority, p)],
                  !.left = turn.left \ {p}])
    /\ UNCHANGED <<shopData, kept>>

FenceVerified(f) == f = GetAnswerContextFence

VerifyFence(t) ==
    LET turn == turns[t]
        ctx == IF turn.ready THEN turn.context ELSE failClosedSchedulingContext(turn.context)
    IN
    /\ turn.phase = "loading" /\ turn.left = {}
    /\ IF FenceVerified(turn.fence)
       THEN /\ kept' = [fence |-> turn.fence, context |-> ctx]
            /\ Step(t, Ended("answering", ctx, ContextOfNow))
       ELSE kept' = NoEntry /\ Step(t, Again(t))
    /\ UNCHANGED shopData

\* The caller asks about the menu (or a price, or for a time), the hours, the staff or
\* a policy; each is answered from its own part of the context, and what is not known
\* is left to the owner.
Subjects == {"catalog", "hours", "staff", "policy"}
SourceOf(subject) ==
    CASE subject = "catalog" -> {"services", "bookable"} \cap Parts
      [] subject = "hours" -> {"hours"}
      [] subject = "staff" -> {"staff"}
      [] subject = "policy" -> Collections \ {"services", "staff"}
routeStructuredQuestionAnswer(t, subject) ==
    /\ turns[t].phase = "answering"
    /\ Step(t, [phase |-> "answered",
                reply |-> [p \in SourceOf(subject) |-> turns[t].context[p]],
                truth |-> [p \in SourceOf(subject) |-> turns[t].truth[p]]])
    /\ UNCHANGED <<shopData, kept>>

CacheExpires ==
    /\ kept # NoEntry
    /\ kept' = NoEntry
    /\ UNCHANGED <<shopData, turns>>

-----------------------------------------------------------------------------
AnswerInit ==
    /\ \E a \in Authorities :
         shopData = [authority |-> a, switches |-> 0, versions |-> [c \in Collections |-> 1],
                     localHours |-> 1, calendar |-> 1, activated |-> 1, fit |-> TRUE,
                     generation |-> 1, synced |-> TRUE]
    /\ kept = NoEntry
    /\ turns = [t \in TurnIds |-> NewTurn]

AnswerNext ==
    \/ SalonChanges \/ SalonSettles \/ CacheExpires
    \/ \E t \in TurnIds :
         \/ ReadFence(t) \/ loadAnswerContextReadiness(t) \/ loadFreshAnswerContext(t)
         \/ VerifyFence(t)
         \/ \E subject \in Subjects : routeStructuredQuestionAnswer(t, subject)

AnswerSpec == AnswerInit /\ [][AnswerNext]_answerVars

-----------------------------------------------------------------------------
AnswerTypeOK ==
    /\ shopData.authority \in Authorities /\ shopData.activated <= shopData.calendar
    /\ \A t \in TurnIds : turns[t].phase \in {"fence", "readiness", "loading", "answering",
                                               "answered", "failed"}

\* What a turn knows of the salon is what the salon was at one moment, the moment of
\* the last look at the fence, and what it tells the caller is taken from that: no
\* mixture of before and after a change, no entry that a change has overtaken, and
\* nothing to book when the salon could not be booked then.
KnownOfOneMoment ==
    \A t \in TurnIds :
        /\ turns[t].phase = "answering" => turns[t].context = turns[t].truth
        /\ turns[t].phase = "answered" => turns[t].reply = turns[t].truth
=============================================================================
