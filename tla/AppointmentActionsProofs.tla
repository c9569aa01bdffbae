---------------------- MODULE AppointmentActionsProofs ----------------------
(***************************************************************************)
(* Proofs about AppointmentActions, for any number of calls, keys and      *)
(* times, any length of an appointment and any number of versions at the   *)
(* provider.                                                               *)
(***************************************************************************)
EXTENDS AppointmentActions, WellFoundedInduction, NaturalsInduction, TLAPS

-----------------------------------------------------------------------------
\* Types.

CallRows ==
    [phase : {"claim", "mark", "dispatch", "save", "done"}, op : {"reschedule", "cancel"},
     start : Starts, key : ActKeys, target : Nat \ {0}, retryOf : Acts \cup {0},
     fence : BOOLEAN, work : Acts \cup {0},
     answer : {"none", "rejected", "uncertain", "accepted", "pending", "cancelled"}]
AttemptRows ==
    [status : {"pos_pending", "rescheduled", "cancelled", "failed", "fallback_pending",
               "provider_pending"},
     outcome : {"not_started", "in_flight", "succeeded", "failed", "unknown"},
     retry : {"none", "safe", "blocked"}, recon : {"not_required", "required", "resolved"},
     token : Acts \cup {0}, live : BOOLEAN, superseded : BOOLEAN,
     task : {"none", "open", "escalated", "resolved"}]
ClaimRows ==
    [state : Unreleased \cup {"none", "released", "definite_failure"},
     active : SUBSET AllCells, pending : SUBSET AllCells, replaces : OfAppointment \cup {-1}]
AppointmentRows ==
    [version : Nat \ {0}, start : Starts,
     status : {"confirmed", "rescheduled", "provider_pending", "cancelled"}]
TruthRows ==
    [status : {"accepted", "pending", "cancelled"}, start : Starts, by : OfAppointment \cup {-1}]

ActTypes ==
    /\ actCall \in [Acts -> CallRows \cup {IdleCall, DoneCall}]
    /\ attempt \in [Acts -> AttemptRows \cup {NoAttempt}]
    /\ slotClaim \in [OfAppointment -> ClaimRows]
    /\ appointment \in AppointmentRows
    /\ truth \in Seq(TruthRows) /\ Len(truth) \in 1 .. MaxVersion
    /\ disowned \subseteq Acts

(* What is known of calls: an attempt keeps the request of its call, and a *)
(* call works on an attempt for the same request.                          *)
CallsInOrder ==
    /\ \A a \in Attempted : actCall[a] \in CallRows /\ actCall[a].phase # "claim"
    /\ \A c \in Acts : actCall[c] \in CallRows =>
         /\ actCall[c].target <= appointment.version
         /\ actCall[c].op = "cancel" => actCall[c].start = truth[actCall[c].target].start
         /\ actCall[c].phase = "claim" /\ actCall[c].target = appointment.version =>
                appointment.status # "cancelled"
         /\ actCall[c].phase \in {"mark", "dispatch", "save"} =>
                /\ actCall[c].work \in Attempted
                /\ Fingerprint(actCall[c].work) = Fingerprint(c)

(* The provider's history: an act of this system made the version after    *)
(* the one it was asked for, nothing follows a cancellation, and the row   *)
(* is a version of it.                                                     *)
HistoryInOrder ==
    /\ \A v \in 1 .. Len(truth) :
         /\ truth[v].status = "cancelled" => v = Len(truth)
         /\ truth[v].by = 0 => v = 1
         /\ truth[v].by \in Acts =>
              /\ truth[v].by \in Attempted /\ actCall[truth[v].by].target + 1 = v
              /\ truth[v].start = actCall[truth[v].by].start
              /\ truth[v].status = "cancelled" <=> actCall[truth[v].by].op = "cancel"
    /\ truth[1].by = 0 /\ 0 \notin Acts
    /\ appointment.version <= Len(truth) /\ AgreesWithProvider(appointment)

(* An attempt is sent by one call only, and what was never sent, or was    *)
(* refused, is not in the history.                                         *)
Working(c, a) == actCall[c].phase \in {"dispatch", "save"} /\ actCall[c].work = a
Absent(a) == \A v \in 1 .. Len(truth) : truth[v].by # a
Never(a) ==
    Absent(a) /\ \A c \in Acts : actCall[c].phase = "dispatch" => actCall[c].work # a

AttemptSent(a) ==
    /\ attempt[a].outcome = "not_started" => Absent(a) /\ \A c \in Acts : ~ Working(c, a)
    /\ attempt[a].status = "pos_pending" =>
         /\ attempt[a].outcome \in {"not_started", "in_flight"}
         /\ attempt[a].retry = "none" /\ attempt[a].recon = "not_required"
    /\ attempt[a].retry = "safe" /\ a \notin disowned => Never(a)
    /\ \A b, c \in Acts : Working(b, a) /\ Working(c, a) => b = c
CallSent(c) ==
    /\ actCall[c].phase = "dispatch" => Absent(actCall[c].work)
    /\ actCall[c].phase = "save" /\ actCall[c].answer = "rejected" => Absent(actCall[c].work)
    /\ actCall[c].phase = "save" /\ actCall[c].answer \in {"accepted", "cancelled"} =>
         /\ Len(truth) > actCall[c].target
         /\ truth[actCall[c].target + 1].by = actCall[c].work
         /\ truth[actCall[c].target + 1].status = actCall[c].answer
SentOnce == (\A a \in Attempted : AttemptSent(a)) /\ \A c \in Acts : CallSent(c)

\* At most one attempt stands for a request.
OneStands ==
    \A a, b \in Attempted :
        ~ attempt[a].superseded /\ ~ attempt[b].superseded
            /\ Fingerprint(a) = Fingerprint(b) => a = b

\* The version the act was asked to change; the booking itself made 1.
Target(a) == IF a = 0 THEN 0 ELSE actCall[a].target

\* Slot claims.  Which state of a claim goes with which of its attempt:
ClaimState(a) ==
    /\ a \notin Attempted \/ actCall[a].op = "cancel" => slotClaim[a].state = "none"
    /\ a \in Attempted /\ actCall[a].op = "reschedule" =>
         /\ slotClaim[a].state # "none"
         /\ attempt[a].status = "pos_pending" =>
               slotClaim[a].state = IF attempt[a].outcome = "not_started"
                                    THEN "claimed_pre_dispatch" ELSE "dispatch_started"
         /\ attempt[a].recon = "required" => slotClaim[a].state = "reconciliation_required"
    /\ slotClaim[a].state = "definite_failure" => Never(a)

\* a claim and the one it replaces together have the cells of the new time;
ClaimCells(a) ==
    HeldClaim(a) =>
        /\ slotClaim[a].replaces # -1
        /\ slotClaim[a].active \cup slotClaim[a].pending = Cells(actCall[a].start)
ClaimOrder(a) ==
    slotClaim[a].replaces # -1 =>
        /\ a \in Attempted
        /\ slotClaim[slotClaim[a].replaces].state \in {"confirmed", "released"}
        /\ Target(slotClaim[a].replaces) < Target(a)
        /\ HeldClaim(slotClaim[a].replaces) =>
              slotClaim[a].pending \subseteq slotClaim[slotClaim[a].replaces].active

(* a claim is confirmed only once the row has its version, and released    *)
(* only after a newer version or a cancellation;                           *)
ClaimAge(a) ==
    /\ slotClaim[a].state = "confirmed" =>
         slotClaim[a].pending = {} /\ Target(a) < appointment.version
    /\ slotClaim[a].state = "released" /\ a \notin disowned =>
         Current.status = "cancelled" \/ Len(truth) > Target(a) + 1

\* and one claim is confirmed, as long as the appointment stands.
ConfirmedOnce ==
    /\ slotClaim[0].state \in {"confirmed", "released"}
    /\ slotClaim[0].state = "confirmed" => slotClaim[0].active = Cells(truth[1].start)
    /\ \A a, b \in OfAppointment :
         slotClaim[a].state = "confirmed" /\ slotClaim[b].state = "confirmed" => a = b
    /\ appointment.status # "cancelled" =>
         \E a \in OfAppointment : slotClaim[a].state = "confirmed"

ClaimsInOrder ==
    /\ \A a \in Acts : ClaimState(a) /\ ClaimCells(a)
    /\ \A a \in OfAppointment : ClaimOrder(a) /\ ClaimAge(a)
    /\ ConfirmedOnce

\* No cell is held twice.
CellsHeldOnce ==
    /\ rival \cap ActiveCells(OfAppointment) = {}
    /\ \A a, b \in OfAppointment :
           a # b => slotClaim[a].active \cap slotClaim[b].active = {}

\* The inductive invariant.
ActionsInv ==
    ActTypes /\ CallsInOrder /\ HistoryInOrder /\ SentOnce /\ OneStands /\ ClaimsInOrder
    /\ CellsHeldOnce

-----------------------------------------------------------------------------
\* Rows.

\* A call that is under way has a full row.
LEMMA CallIsRow ==
    ASSUME ActTypes, NEW c \in Acts, actCall[c].phase \in {"claim", "mark", "dispatch", "save"}
    PROVE  actCall[c] \in CallRows
BY DEF ActTypes, IdleCall, DoneCall

LEMMA AttemptIsRow ==
    ASSUME ActTypes, NEW a \in Attempted
    PROVE  a \in Acts /\ attempt[a] \in AttemptRows
BY DEF ActTypes, Attempted, NoAttempt

LEMMA RowsAreNew ==
    /\ IdleCall \notin CallRows /\ DoneCall \notin CallRows
    /\ \A r \in AttemptRows : r.status # "none"
    /\ NoAttempt.status = "none"
<1>1. \A r \in CallRows : r.phase \in {"claim", "mark", "dispatch", "save", "done"}
                         /\ r.op \in {"reschedule", "cancel"}
  BY DEF CallRows
<1>2. \A r \in CallRows : r # DoneCall
  <2> SUFFICES ASSUME NEW r \in CallRows, r = DoneCall PROVE FALSE
    OBVIOUS
  <2>1. DOMAIN r = {"phase"}
    BY DEF DoneCall
  <2>2. "op" \in DOMAIN r
    BY DEF CallRows
  <2> QED BY <2>1, <2>2
<1> QED BY <1>1, <1>2 DEF IdleCall, AttemptRows, NoAttempt

\* The row of the call goes on as the same request.
SameCall(x) ==
    /\ actCall[x] \in CallRows /\ actCall'[x] \in CallRows
    /\ actCall'[x].op = actCall[x].op /\ actCall'[x].start = actCall[x].start
    /\ actCall'[x].key = actCall[x].key /\ actCall'[x].target = actCall[x].target

\* The call does nothing, or ends.
Kept(x) ==
    /\ actCall'[x] \in CallRows \cup {IdleCall, DoneCall}
    /\ actCall'[x] \in CallRows => SameCall(x)
    /\ x \in Attempted => SameCall(x)
    /\ actCall'[x].phase \in {"claim", "mark", "dispatch", "save"} =>
         /\ actCall'[x].phase = actCall[x].phase
         /\ actCall'[x].work = actCall[x].work /\ actCall'[x].answer = actCall[x].answer
CallsKept == actCall' \in [Acts -> CallRows \cup {IdleCall, DoneCall}] /\ \A x \in Acts : Kept(x)

\* The call goes on to its next phase, and no other call does anything.
Moved(c, phase, work, answer) ==
    /\ actCall' \in [Acts -> CallRows \cup {IdleCall, DoneCall}]
    /\ SameCall(c) /\ actCall'[c].phase = phase
    /\ actCall'[c].work = work /\ actCall'[c].answer = answer
    /\ \A x \in Acts \ {c} : Kept(x)

\* The attempt stays what it is.
AttemptKept(x) ==
    \/ attempt'[x] = attempt[x]
    \/ /\ attempt[x] \in AttemptRows /\ attempt'[x] \in AttemptRows
       /\ attempt'[x].status = attempt[x].status /\ attempt'[x].outcome = attempt[x].outcome
       /\ attempt'[x].retry = attempt[x].retry /\ attempt'[x].recon = attempt[x].recon
       /\ attempt'[x].superseded = attempt[x].superseded
AttemptsKept ==
    attempt' \in [Acts -> AttemptRows \cup {NoAttempt}] /\ \A x \in Acts : AttemptKept(x)

LEMMA SameRow ==
    ASSUME ActTypes, CallsInOrder, NEW x \in Acts, actCall'[x] = actCall[x]
    PROVE  Kept(x)
BY DEF ActTypes, CallsInOrder, Kept, SameCall

LEMMA NothingMoves ==
    ASSUME ActTypes, CallsInOrder, actCall' = actCall
    PROVE  CallsKept
BY SameRow DEF CallsKept, ActTypes

(* A call that ends leaves the others alone and its own request behind, if *)
(* it has inserted an attempt for it.                                      *)
LEMMA FinishedKeeps ==
    ASSUME ActTypes, CallsInOrder, NEW c \in Acts, actCall[c] \in CallRows,
           actCall' = Finished(c)
    PROVE  CallsKept /\ actCall'[c].phase = "done"
<1>1. CASE c \notin Attempted
  BY <1>1, RowsAreNew, SameRow DEF Finished, ActTypes, DoneCall, Kept, CallsKept
<1>2. CASE c \in Attempted
  <2> DEFINE row == [actCall[c] EXCEPT !.phase = "done", !.retryOf = 0, !.work = 0,
                                       !.answer = "none"]
  <2>1. actCall' = [actCall EXCEPT ![c] = row]
    BY <1>2 DEF Finished
  <2>2. row \in CallRows /\ row.phase = "done" /\ row.op = actCall[c].op
        /\ row.start = actCall[c].start /\ row.key = actCall[c].key
        /\ row.target = actCall[c].target
    BY DEF CallRows
  <2> HIDE DEF row
  <2>3. actCall'[c] = row /\ \A x \in Acts \ {c} : actCall'[x] = actCall[x]
    BY <2>1 DEF ActTypes
  <2>4. SameCall(c)
    BY <2>2, <2>3 DEF SameCall
  <2>5. Kept(c)
    BY <2>2, <2>3, <2>4 DEF Kept
  <2>6. actCall' \in [Acts -> CallRows \cup {IdleCall, DoneCall}]
    BY <2>1, <2>2 DEF ActTypes
  <2> QED BY <2>2, <2>3, <2>5, <2>6, SameRow DEF CallsKept
<1> QED BY <1>1, <1>2

-----------------------------------------------------------------------------
\* What the actions come down to.

Others == <<slotClaim, appointment, truth, disowned>>

QuietStep == CallsKept /\ AttemptsKept /\ UNCHANGED Others

AskedStep(c) ==
    /\ actCall' \in [Acts -> CallRows \cup {IdleCall, DoneCall}]
    /\ c \notin Attempted /\ actCall'[c] \in CallRows /\ actCall'[c].phase = "claim"
    /\ actCall'[c].target = appointment.version /\ appointment.status # "cancelled"
    /\ actCall'[c].op = "cancel" => actCall'[c].start = appointment.start
    /\ \A x \in Acts \ {c} : Kept(x)
    /\ AttemptsKept /\ UNCHANGED Others

ResumedStep(c, a) ==
    /\ actCall[c].phase = "claim" /\ a \in Attempted /\ Fingerprint(a) = Fingerprint(c)
    /\ Moved(c, "mark", a, actCall[c].answer) /\ AttemptsKept /\ UNCHANGED Others

InsertedStep(c) ==
    /\ actCall[c].phase = "claim" /\ actCall[c].target = appointment.version
    /\ c \notin Attempted
    /\ attempt' \in [Acts -> AttemptRows \cup {NoAttempt}]
    /\ attempt'[c] \in AttemptRows /\ attempt'[c].outcome = "not_started"
    /\ attempt'[c].retry = "none" /\ attempt'[c].recon = "not_required"
    /\ \A x \in Acts \ {c} :
         \/ /\ attempt'[x] = attempt[x]
            /\ x \in Attempted => attempt[x].superseded \/ Fingerprint(x) # Fingerprint(c)
         \/ /\ attempt[x] \in AttemptRows /\ attempt'[x] \in AttemptRows
            /\ attempt[x].status = "fallback_pending" /\ attempt'[x].status = "fallback_pending"
            /\ attempt'[x].outcome = attempt[x].outcome /\ attempt'[x].retry = attempt[x].retry
            /\ attempt[x].retry = "safe" /\ attempt'[x].recon = "resolved"
            /\ attempt'[x].superseded
    /\ UNCHANGED <<appointment, truth, disowned>>

WonStep(c) ==
    /\ InsertedStep(c) /\ attempt'[c].status = "pos_pending"
    /\ Moved(c, "mark", c, actCall[c].answer)
    /\ IF actCall[c].op = "cancel" THEN slotClaim' = slotClaim
       ELSE ~ SlotConflict(c) /\ slotClaim' = [slotClaim EXCEPT ![c] = NewSlotClaim(c)]

LostStep(c) ==
    /\ InsertedStep(c) /\ attempt'[c].status = "failed" /\ actCall[c].op = "reschedule"
    /\ Moved(c, "done", actCall[c].work, actCall[c].answer)
    /\ slotClaim' = [slotClaim EXCEPT ![c].state = "definite_failure"]

StartedStep(c, a) ==
    /\ actCall[c].phase = "mark" /\ actCall[c].work = a
    /\ Moved(c, "dispatch", a, actCall[c].answer)
    /\ attempt[a].status = "pos_pending" /\ attempt[a].outcome = "not_started"
    /\ attempt' \in [Acts -> AttemptRows \cup {NoAttempt}]
    /\ attempt'[a] \in AttemptRows
    /\ attempt'[a].status = "pos_pending" /\ attempt'[a].outcome = "in_flight"
    /\ attempt'[a].retry = attempt[a].retry /\ attempt'[a].recon = attempt[a].recon
    /\ attempt'[a].superseded = attempt[a].superseded
    /\ \A x \in Acts \ {a} : attempt'[x] = attempt[x]
    /\ slotClaim' = IF actCall[a].op = "cancel" THEN slotClaim
                    ELSE [slotClaim EXCEPT ![a].state = "dispatch_started"]
    /\ UNCHANGED <<appointment, truth, disowned>>

AnsweredStep(c, answer) ==
    /\ actCall[c].phase = "dispatch" /\ Moved(c, "save", actCall[c].work, answer)
    /\ AttemptsKept /\ UNCHANGED <<slotClaim, appointment, disowned>>

\* The call writes nothing, and no other call begins.
LEMMA AskSteps ==
    ASSUME ActTypes, CallsInOrder, NEW c \in Acts, NEW op \in {"reschedule", "cancel"},
           NEW start \in Starts, NEW key \in ActKeys, NEW t \in Acts \cup {0},
           op = "cancel" => start = appointment.start, Asks(c, op, start, key, t)
    PROVE  AskedStep(c)
<1> DEFINE row == [phase |-> "claim", op |-> op, start |-> start, key |-> key,
                   target |-> appointment.version, retryOf |-> t,
                   fence |-> TRUE, work |-> 0, answer |-> "none"]
<1>1. actCall' = [actCall EXCEPT ![c] = row] /\ actCall[c] = IdleCall
      /\ appointment.status # "cancelled"
      /\ UNCHANGED <<attempt, slotClaim, appointment, truth, rival, disowned>>
  BY DEF Asks
<1>2. row \in CallRows /\ row.phase = "claim" /\ row.target = appointment.version
      /\ row.op = op /\ row.start = start
  BY DEF CallRows, ActTypes, AppointmentRows
<1> HIDE DEF row
<1>3. actCall'[c] = row /\ \A x \in Acts \ {c} : actCall'[x] = actCall[x]
  BY <1>1 DEF ActTypes
<1>4. actCall' \in [Acts -> CallRows \cup {IdleCall, DoneCall}]
  BY <1>1, <1>2 DEF ActTypes
<1>5. AttemptsKept
  BY <1>1 DEF AttemptsKept, AttemptKept, ActTypes
<1>6. c \notin Attempted
  BY <1>1, RowsAreNew DEF CallsInOrder
<1> QED BY <1>1, <1>2, <1>3, <1>4, <1>5, <1>6, SameRow DEF AskedStep, Others

LEMMA ResumeSteps ==
    ASSUME ActTypes, CallsInOrder, NEW c \in Acts, ResumeAction(c)
    PROVE  \E a \in Attempted : ResumedStep(c, a)
<1>1. PICK a \in Attempted :
         /\ Resumes(c, a)
         /\ attempt' = [attempt EXCEPT ![a].token = c, ![a].live = TRUE]
         /\ actCall' = [actCall EXCEPT ![c].phase = "mark", ![c].work = a]
  BY DEF ResumeAction
<1>2. actCall[c].phase = "claim" /\ UNCHANGED Others
  BY DEF ResumeAction, Others
<1>3. actCall[c] \in CallRows /\ a \in Acts /\ attempt[a] \in AttemptRows
  BY <1>2, CallIsRow, AttemptIsRow
<1>4. Fingerprint(a) = Fingerprint(c)
  BY <1>1 DEF Resumes, SameRequest
<1>5. Moved(c, "mark", a, actCall[c].answer)
  <2> DEFINE row == [actCall[c] EXCEPT !.phase = "mark", !.work = a]
  <2>1. row \in CallRows /\ row.phase = "mark" /\ row.work = a /\ row.op = actCall[c].op
        /\ row.start = actCall[c].start /\ row.key = actCall[c].key
        /\ row.target = actCall[c].target /\ row.answer = actCall[c].answer
    BY <1>3 DEF CallRows
  <2>2. actCall' = [actCall EXCEPT ![c] = row]
    BY <1>1, <1>3 DEF ActTypes
  <2> HIDE DEF row
  <2>3. actCall'[c] = row /\ \A x \in Acts \ {c} : actCall'[x] = actCall[x]
    BY <2>2 DEF ActTypes
  <2>4. actCall' \in [Acts -> CallRows \cup {IdleCall, DoneCall}]
    BY <2>1, <2>2 DEF ActTypes
  <2> QED BY <1>3, <2>1, <2>3, <2>4, SameRow DEF Moved, SameCall
<1>6. AttemptsKept
  <2> DEFINE row == [attempt[a] EXCEPT !.token = c, !.live = TRUE]
  <2>1. row \in AttemptRows /\ row.status = attempt[a].status /\ row.outcome = attempt[a].outcome
        /\ row.retry = attempt[a].retry /\ row.recon = attempt[a].recon
        /\ row.superseded = attempt[a].superseded
    BY <1>3 DEF AttemptRows
  <2>2. attempt' = [attempt EXCEPT ![a] = row]
    BY <1>1, <1>3 DEF ActTypes
  <2> HIDE DEF row
  <2>3. attempt'[a] = row /\ \A x \in Acts \ {a} : attempt'[x] = attempt[x]
    BY <1>3, <2>2 DEF ActTypes
  <2> QED BY <1>3, <2>1, <2>2, <2>3 DEF AttemptsKept, AttemptKept, ActTypes
<1> QED BY <1>2, <1>4, <1>5, <1>6 DEF ResumedStep

(* A new attempt is the only one that stands for its request: the one it   *)
(* retries, if any, is superseded.                                         *)
LEMMA InsertSteps ==
    ASSUME ActTypes, CallsInOrder, NEW c \in Acts, actCall[c].phase = "claim", Insertable(c),
           NEW status \in {"pos_pending", "failed"}, NEW token \in Acts \cup {0},
           attempt' = Inserted(c, status, token), UNCHANGED <<appointment, truth, disowned>>
    PROVE  InsertedStep(c) /\ attempt'[c].status = status
<1> DEFINE t == actCall[c].retryOf
           new == [status |-> status, outcome |-> "not_started", retry |-> "none",
                   recon |-> "not_required", token |-> token, live |-> token # 0,
                   superseded |-> FALSE, task |-> "none"]
           old(x) == [attempt[x] EXCEPT !.superseded = TRUE, !.recon = "resolved",
                                        !.task = IF @ = "none" THEN @ ELSE "resolved"]
<1>1. actCall[c] \in CallRows /\ c \notin Attempted /\ 0 \notin Acts
  BY CallIsRow, ActionConstants DEF CallsInOrder
<1>2. actCall[c].target = appointment.version
  BY DEF Insertable, FenceCurrent
<1>3. \A x \in SameRequest(c) : x = t
  BY DEF Insertable, Retryable
<1>4. t # 0 => /\ t \in Attempted
               /\ attempt[t].status = "fallback_pending" /\ attempt[t].retry = "safe"
  BY DEF Insertable, Retryable, SameRequest
<1>5. /\ attempt'[c] = new
      /\ \A x \in Acts \ {c} : attempt'[x] = IF x = t THEN old(x) ELSE attempt[x]
  BY DEF Inserted
<1>6. new \in AttemptRows /\ new.outcome = "not_started" /\ new.retry = "none"
      /\ new.recon = "not_required" /\ new.status = status
  BY DEF AttemptRows
<1>7. ASSUME NEW x \in Acts \ {c}, x = t
      PROVE  /\ attempt[x] \in AttemptRows /\ old(x) \in AttemptRows
             /\ attempt[x].status = "fallback_pending" /\ attempt[x].retry = "safe"
             /\ old(x).status = attempt[x].status /\ old(x).outcome = attempt[x].outcome
             /\ old(x).retry = attempt[x].retry /\ old(x).recon = "resolved"
             /\ old(x).superseded
  <2>1. x \in Attempted /\ attempt[x].status = "fallback_pending" /\ attempt[x].retry = "safe"
    BY <1>1, <1>4, <1>7
  <2>2. attempt[x] \in AttemptRows
    BY <2>1, AttemptIsRow
  <2> QED BY <2>1, <2>2 DEF AttemptRows
<1> HIDE DEF new, old
<1>8. ASSUME NEW x \in Acts \ {c}, x # t, x \in Attempted
      PROVE  attempt[x].superseded \/ Fingerprint(x) # Fingerprint(c)
  BY <1>3, <1>8 DEF SameRequest
<1>9. attempt' \in [Acts -> AttemptRows \cup {NoAttempt}]
  <2>1. \A x \in Acts : attempt'[x] \in AttemptRows \cup {NoAttempt}
    BY <1>5, <1>6, <1>7 DEF ActTypes
  <2>2. DOMAIN attempt' = Acts /\ attempt' = [x \in Acts |-> attempt'[x]]
    BY DEF Inserted
  <2> QED BY <2>1, <2>2
<1> HIDE DEF t
<1>10. \A x \in Acts \ {c} :
         \/ /\ attempt'[x] = attempt[x]
            /\ x \in Attempted => attempt[x].superseded \/ Fingerprint(x) # Fingerprint(c)
         \/ /\ attempt[x] \in AttemptRows /\ attempt'[x] \in AttemptRows
            /\ attempt[x].status = "fallback_pending" /\ attempt'[x].status = "fallback_pending"
            /\ attempt'[x].outcome = attempt[x].outcome /\ attempt'[x].retry = attempt[x].retry
            /\ attempt[x].retry = "safe" /\ attempt'[x].recon = "resolved"
            /\ attempt'[x].superseded
  BY <1>5, <1>7, <1>8
<1> QED BY <1>1, <1>2, <1>5, <1>6, <1>9, <1>10 DEF InsertedStep

\* A call's row with some of its columns changed.
LEMMA MovedRow ==
    ASSUME ActTypes, CallsInOrder, NEW c \in Acts, NEW row \in CallRows,
           actCall[c] \in CallRows, actCall' = [actCall EXCEPT ![c] = row],
           row.op = actCall[c].op, row.start = actCall[c].start, row.key = actCall[c].key,
           row.target = actCall[c].target
    PROVE  Moved(c, row.phase, row.work, row.answer)
<1>1. actCall'[c] = row /\ \A x \in Acts \ {c} : actCall'[x] = actCall[x]
  BY DEF ActTypes
<1>2. actCall' \in [Acts -> CallRows \cup {IdleCall, DoneCall}]
  BY DEF ActTypes
<1> QED BY <1>1, <1>2, SameRow DEF Moved, SameCall

LEMMA WinSteps ==
    ASSUME ActTypes, CallsInOrder, NEW c \in Acts, InsertAction(c)
    PROVE  WonStep(c)
<1>1. actCall[c] \in CallRows
  BY CallIsRow DEF InsertAction
<1>2. InsertedStep(c) /\ attempt'[c].status = "pos_pending"
  BY InsertSteps DEF InsertAction
<1>3. Moved(c, "mark", c, actCall[c].answer)
  <2> DEFINE row == [actCall[c] EXCEPT !.phase = "mark", !.work = c]
  <2>1. row \in CallRows /\ row.phase = "mark" /\ row.work = c /\ row.op = actCall[c].op
        /\ row.start = actCall[c].start /\ row.key = actCall[c].key
        /\ row.target = actCall[c].target /\ row.answer = actCall[c].answer
    BY <1>1 DEF CallRows
  <2>2. actCall' = [actCall EXCEPT ![c] = row]
    BY <1>1 DEF ActTypes, InsertAction
  <2> HIDE DEF row
  <2>3. Moved(c, row.phase, row.work, row.answer)
    BY <1>1, <2>1, <2>2, MovedRow
  <2> QED BY <2>1, <2>3
<1>4. IF actCall[c].op = "cancel" THEN slotClaim' = slotClaim
      ELSE ~ SlotConflict(c) /\ slotClaim' = [slotClaim EXCEPT ![c] = NewSlotClaim(c)]
  BY <1>1 DEF CallRows, InsertAction
<1> QED BY <1>2, <1>3, <1>4 DEF WonStep

LEMMA LoseSteps ==
    ASSUME ActTypes, CallsInOrder, NEW c \in Acts, InsertLoser(c)
    PROVE  LostStep(c)
<1>1. actCall[c] \in CallRows
  BY CallIsRow DEF InsertLoser
<1>2. InsertedStep(c) /\ attempt'[c].status = "failed"
  BY InsertSteps DEF InsertLoser
<1>3. Moved(c, "done", actCall[c].work, actCall[c].answer)
  <2> DEFINE row == [actCall[c] EXCEPT !.phase = "done", !.retryOf = 0]
  <2>1. row \in CallRows /\ row.phase = "done" /\ row.work = actCall[c].work
        /\ row.op = actCall[c].op /\ row.start = actCall[c].start /\ row.key = actCall[c].key
        /\ row.target = actCall[c].target /\ row.answer = actCall[c].answer
    BY <1>1 DEF CallRows
  <2>2. actCall' = [actCall EXCEPT ![c] = row]
    BY <1>1 DEF ActTypes, InsertLoser
  <2> HIDE DEF row
  <2>3. Moved(c, row.phase, row.work, row.answer)
    BY <1>1, <2>1, <2>2, MovedRow
  <2> QED BY <2>1, <2>3
<1> QED BY <1>2, <1>3 DEF LostStep, InsertLoser

(* The call that owns an attempt no call has sent begins to send it; any   *)
(* other call ends.                                                        *)
LEMMA MarkSteps ==
    ASSUME ActTypes, CallsInOrder, NEW c \in Acts, MarkStarted(c)
    PROVE  QuietStep \/ \E a \in Attempted : StartedStep(c, a)
<1> DEFINE a == actCall[c].work
<1>1. actCall[c].phase = "mark" /\ actCall[c] \in CallRows
  BY CallIsRow DEF MarkStarted
<1>2. a \in Attempted /\ a \in Acts /\ attempt[a] \in AttemptRows /\ actCall[a] \in CallRows
  BY <1>1, AttemptIsRow DEF CallsInOrder
<1>3. UNCHANGED <<appointment, truth, disowned>>
  BY DEF MarkStarted
<1>4. CASE actCall' = Finished(c) /\ UNCHANGED <<attempt, slotClaim>>
  BY <1>1, <1>3, <1>4, FinishedKeeps DEF AttemptsKept, AttemptKept, ActTypes, QuietStep, Others
<1>5. CASE /\ Owns(c) /\ attempt[a].outcome = "not_started"
           /\ attempt' = [attempt EXCEPT ![a].outcome = "in_flight"]
           /\ slotClaim' = IF actCall[a].op = "cancel" THEN slotClaim
                           ELSE [slotClaim EXCEPT ![a].state = "dispatch_started"]
           /\ actCall' = [actCall EXCEPT ![c].phase = "dispatch", ![a].fence = FALSE]
  <2>1. attempt[a].status = "pos_pending"
    BY <1>5 DEF Owns
  <2>2. /\ attempt' \in [Acts -> AttemptRows \cup {NoAttempt}]
        /\ attempt'[a] \in AttemptRows
        /\ attempt'[a].status = "pos_pending" /\ attempt'[a].outcome = "in_flight"
        /\ attempt'[a].retry = attempt[a].retry /\ attempt'[a].recon = attempt[a].recon
        /\ attempt'[a].superseded = attempt[a].superseded
        /\ \A x \in Acts \ {a} : attempt'[x] = attempt[x]
    <3> DEFINE row == [attempt[a] EXCEPT !.outcome = "in_flight"]
    <3>1. row \in AttemptRows /\ row.status = "pos_pending" /\ row.outcome = "in_flight"
          /\ row.retry = attempt[a].retry /\ row.recon = attempt[a].recon
          /\ row.superseded = attempt[a].superseded
      BY <1>2, <2>1 DEF AttemptRows
    <3>2. attempt' = [attempt EXCEPT ![a] = row]
      BY <1>2, <1>5 DEF ActTypes
    <3> HIDE DEF row, a
    <3>3. attempt'[a] = row /\ \A x \in Acts \ {a} : attempt'[x] = attempt[x]
      BY <1>2, <3>2 DEF ActTypes
    <3> QED BY <3>1, <3>2, <3>3 DEF ActTypes
  <2>3. Moved(c, "dispatch", a, actCall[c].answer)
    <3> DEFINE row == [actCall[c] EXCEPT !.phase = "dispatch"]
               half == [actCall EXCEPT ![c] = row]
               own == [half[a] EXCEPT !.fence = FALSE]
    <3>1. row \in CallRows /\ row.phase = "dispatch" /\ row.work = a
          /\ row.op = actCall[c].op /\ row.start = actCall[c].start /\ row.key = actCall[c].key
          /\ row.target = actCall[c].target /\ row.answer = actCall[c].answer
      BY <1>1 DEF CallRows
    <3>2. half \in [Acts -> CallRows \cup {IdleCall, DoneCall}] /\ half[c] = row
          /\ \A x \in Acts \ {c} : half[x] = actCall[x]
      BY <3>1 DEF ActTypes
    <3>3. half[a] \in CallRows
      BY <1>2, <3>1, <3>2
    <3>4. actCall' = [half EXCEPT ![a] = own]
      BY <1>2, <1>5, <1>1 DEF ActTypes
    <3>5. own \in CallRows /\ own.phase = half[a].phase /\ own.work = half[a].work
          /\ own.op = half[a].op /\ own.start = half[a].start /\ own.key = half[a].key
          /\ own.target = half[a].target /\ own.answer = half[a].answer
      BY <3>3 DEF CallRows
    <3> HIDE DEF half, own, row, a
    <3>6. /\ actCall' \in [Acts -> CallRows \cup {IdleCall, DoneCall}]
          /\ actCall'[a] = own /\ \A x \in Acts \ {a} : actCall'[x] = half[x]
      BY <1>2, <3>2, <3>4, <3>5
    <3>7. ASSUME NEW x \in Acts, half[x] \in CallRows
          PROVE  /\ actCall'[x] \in CallRows /\ actCall'[x].phase = half[x].phase
                 /\ actCall'[x].work = half[x].work /\ actCall'[x].op = half[x].op
                 /\ actCall'[x].start = half[x].start /\ actCall'[x].key = half[x].key
                 /\ actCall'[x].target = half[x].target /\ actCall'[x].answer = half[x].answer
      BY <3>5, <3>6, <3>7
    <3>8. SameCall(c) /\ actCall'[c].phase = "dispatch" /\ actCall'[c].work = a
          /\ actCall'[c].answer = actCall[c].answer
      BY <1>1, <3>1, <3>2, <3>7 DEF SameCall
    <3>9. ASSUME NEW x \in Acts \ {c} PROVE Kept(x)
      BY <1>2, <3>2, <3>6, <3>7, <3>9, SameRow DEF SameCall, Kept
    <3> QED BY <3>6, <3>8, <3>9 DEF Moved
  <2>4. StartedStep(c, a)
    BY <1>1, <1>3, <1>5, <2>1, <2>2, <2>3 DEF StartedStep
  <2> HIDE DEF a
  <2> QED BY <1>2, <2>4
<1>6. \/ actCall' = Finished(c) /\ UNCHANGED <<attempt, slotClaim>>
      \/ /\ Owns(c) /\ attempt[a].outcome = "not_started"
         /\ attempt' = [attempt EXCEPT ![a].outcome = "in_flight"]
         /\ slotClaim' = IF actCall[a].op = "cancel" THEN slotClaim
                         ELSE [slotClaim EXCEPT ![a].state = "dispatch_started"]
         /\ actCall' = [actCall EXCEPT ![c].phase = "dispatch", ![a].fence = FALSE]
  BY Zenon DEF MarkStarted
<1> QED BY <1>4, <1>5, <1>6

\* The provider's answer, whatever it is.
LEMMA AnswerMoves ==
    ASSUME ActTypes, CallsInOrder, NEW c \in Acts, actCall[c].phase = "dispatch",
           NEW answer \in {"rejected", "uncertain", "accepted", "pending", "cancelled"},
           Answer(c, answer), UNCHANGED <<attempt, slotClaim, appointment, disowned>>
    PROVE  AnsweredStep(c, answer)
<1> DEFINE row == [actCall[c] EXCEPT !.phase = "save", !.answer = answer]
<1>1. actCall[c] \in CallRows
  BY CallIsRow
<1>2. row \in CallRows /\ row.phase = "save" /\ row.work = actCall[c].work
      /\ row.op = actCall[c].op /\ row.start = actCall[c].start /\ row.key = actCall[c].key
      /\ row.target = actCall[c].target /\ row.answer = answer
  BY <1>1 DEF CallRows
<1>3. actCall' = [actCall EXCEPT ![c] = row]
  BY <1>1 DEF ActTypes, Answer
<1> HIDE DEF row
<1>4. Moved(c, row.phase, row.work, row.answer)
  BY <1>1, <1>2, <1>3, MovedRow
<1>5. AttemptsKept
  BY DEF AttemptsKept, AttemptKept, ActTypes
<1> QED BY <1>2, <1>4, <1>5 DEF AnsweredStep

EffectStep(c, status, answer) ==
    /\ AnsweredStep(c, answer) /\ answer \in {status, "uncertain"}
    /\ Current.status # "cancelled" /\ Len(truth) = actCall[c].target /\ Len(truth) < MaxVersion
    /\ status \in IF actCall[actCall[c].work].op = "cancel" THEN {"cancelled"}
                  ELSE {"accepted", "pending"}
    /\ truth' = Append(truth, NewTruth(actCall[c].work, status))

LEMMA DispatchSteps ==
    ASSUME ActTypes, CallsInOrder, NEW c \in Acts, Dispatch(c)
    PROVE  \/ \E answer \in {"rejected", "uncertain"} :
                 AnsweredStep(c, answer) /\ truth' = truth
           \/ \E status, answer \in {"accepted", "pending", "cancelled", "uncertain"} :
                 EffectStep(c, status, answer)
<1>1. actCall[c].phase = "dispatch" /\ UNCHANGED <<attempt, slotClaim, appointment, disowned>>
  BY DEF Dispatch
<1>2. ASSUME NEW answer \in {"rejected", "uncertain"}, Answer(c, answer)
      PROVE  AnsweredStep(c, answer)
  BY <1>1, <1>2, AnswerMoves
<1>3. ASSUME NEW status \in IF actCall[actCall[c].work].op = "cancel" THEN {"cancelled"}
                            ELSE {"accepted", "pending"},
             NEW answer \in {status, "uncertain"}, Answer(c, answer),
             Current.status # "cancelled", Len(truth) = actCall[c].target,
             Len(truth) < MaxVersion,
             truth' = Append(truth, NewTruth(actCall[c].work, status))
      PROVE  EffectStep(c, status, answer)
  BY <1>1, <1>3, AnswerMoves DEF EffectStep
<1> QED BY <1>2, <1>3 DEF Dispatch

(* Calls that end without having changed anything, leases that end, tasks  *)
(* that are escalated, and what others do in the salon.                    *)
LEMMA FenceKeeps ==
    ASSUME ActTypes, CallsInOrder, FenceAdvances
    PROVE  QuietStep
<1>1. actCall' = [c \in Acts |-> IF c \in Fenced THEN [actCall[c] EXCEPT !.fence = FALSE]
                                 ELSE actCall[c]]
      /\ UNCHANGED <<attempt, slotClaim, appointment, truth, rival, disowned>>
  BY DEF FenceAdvances
<1>2. ASSUME NEW x \in Acts PROVE Kept(x)
  <2>1. CASE x \in Fenced
    <3> DEFINE row == [actCall[x] EXCEPT !.fence = FALSE]
    <3>1. actCall[x] \in CallRows
      BY <2>1 DEF Fenced, ActTypes
    <3>2. row \in CallRows /\ row.phase = actCall[x].phase /\ row.work = actCall[x].work
          /\ row.op = actCall[x].op /\ row.start = actCall[x].start /\ row.key = actCall[x].key
          /\ row.target = actCall[x].target /\ row.answer = actCall[x].answer
      BY <3>1 DEF CallRows
    <3>3. actCall'[x] = row
      BY <1>1, <2>1
    <3> HIDE DEF row
    <3> QED BY <3>1, <3>2, <3>3 DEF Kept, SameCall
  <2>2. CASE x \notin Fenced
    BY <1>1, <2>2, SameRow
  <2> QED BY <2>1, <2>2
<1>3. actCall' \in [Acts -> CallRows \cup {IdleCall, DoneCall}]
  BY <1>1, <1>2 DEF Kept
<1>4. AttemptsKept
  BY <1>1 DEF AttemptsKept, AttemptKept, ActTypes
<1> QED BY <1>1, <1>2, <1>3, <1>4 DEF QuietStep, Others, CallsKept

LEMMA QuietSteps ==
    ASSUME ActTypes, CallsInOrder,
           \/ UNCHANGED actionVars
           \/ FenceAdvances
           \/ \E cell \in RivalCells : RivalClaims(cell) \/ RivalReleases(cell)
           \/ \E c \in Acts : ClaimDenied(c) \/ Abandon(c) \/ LeaseEnds(c) \/ ResolveEscalated(c)
    PROVE  QuietStep
<1>1. CASE UNCHANGED <<actCall, attempt, slotClaim, appointment, truth, disowned>>
  BY <1>1, NothingMoves DEF QuietStep, Others, AttemptsKept, AttemptKept, ActTypes
<1>2. ASSUME NEW c \in Acts, ClaimDenied(c) \/ Abandon(c) PROVE QuietStep
  BY <1>2, CallIsRow, FinishedKeeps DEF ClaimDenied, Abandon, AttemptsKept, AttemptKept,
     ActTypes, QuietStep, Others
<1>3. ASSUME NEW c \in Acts, LeaseEnds(c) \/ ResolveEscalated(c) PROVE QuietStep
  <2>1. c \in Attempted /\ attempt[c] \in AttemptRows
    BY <1>3, AttemptIsRow DEF LeaseEnds, ResolveEscalated, InQuestion
  <2>2. UNCHANGED <<actCall, slotClaim, appointment, truth, disowned>>
    BY <1>3 DEF LeaseEnds, ResolveEscalated
  <2>3. PICK row \in {[attempt[c] EXCEPT !.live = FALSE], [attempt[c] EXCEPT !.task = "escalated"]} :
           attempt' = [attempt EXCEPT ![c] = row]
    BY <1>3, <2>1 DEF LeaseEnds, ResolveEscalated, ActTypes
  <2>4. row \in AttemptRows /\ row.status = attempt[c].status /\ row.outcome = attempt[c].outcome
        /\ row.retry = attempt[c].retry /\ row.recon = attempt[c].recon
        /\ row.superseded = attempt[c].superseded
    BY <2>1 DEF AttemptRows
  <2>5. attempt'[c] = row /\ \A x \in Acts \ {c} : attempt'[x] = attempt[x]
    BY <2>3 DEF ActTypes
  <2>6. AttemptsKept
    BY <2>1, <2>3, <2>4, <2>5 DEF AttemptsKept, AttemptKept, ActTypes
  <2> QED BY <2>2, <2>6, NothingMoves DEF QuietStep, Others
<1> QED BY <1>1, <1>2, <1>3, FenceKeeps DEF actionVars, RivalClaims, RivalReleases

(* An operation that is known to have succeeded: by the provider's answer, *)
(* or by the row.                                                          *)
AttemptBecomes(a, row) ==
    /\ a \in Attempted /\ row \in AttemptRows /\ row.superseded = attempt[a].superseded
    /\ attempt' \in [Acts -> AttemptRows \cup {NoAttempt}]
    /\ attempt'[a] = row /\ \A x \in Acts \ {a} : attempt'[x] = attempt[x]
Successful(row) ==
    /\ row.status \in {"rescheduled", "cancelled"} /\ row.outcome = "succeeded"
    /\ row.retry = "none" /\ row.recon \in {"not_required", "resolved"}
RowAdvances ==
    \/ appointment' = appointment
    \/ /\ appointment' \in AppointmentRows /\ appointment'.version > appointment.version
       /\ appointment'.version <= Len(truth) /\ AgreesWithProvider(appointment')

SuccessStep(a) ==
    /\ CallsKept
    /\ attempt[a].status = "pos_pending" \/ attempt[a].recon = "required"
    /\ \E row : AttemptBecomes(a, row) /\ Successful(row)
    /\ ClaimsAgree(a) /\ slotClaim' = ClaimsAfter(a)
    /\ RowAdvances /\ Proves(appointment', a)
    /\ UNCHANGED <<truth, disowned>>

FailedStep(a, policy) ==
    /\ CallsKept /\ attempt[a].status = "pos_pending"
    /\ policy \in {FallbackPolicy("rejected"), FallbackPolicy("pending"),
                   FallbackPolicy("uncertain")}
    /\ \E row : /\ AttemptBecomes(a, row)
                /\ row.status = policy.status /\ row.outcome = policy.outcome
                /\ row.retry = policy.retry /\ row.recon = policy.recon
    /\ slotClaim' = FallbackClaims(a, policy)
    /\ policy.outcome = "failed" =>
           Absent(a) /\ \A x \in Acts : actCall'[x].phase = "dispatch" => actCall'[x].work # a
    /\ UNCHANGED <<appointment, truth, disowned>>

DisownedStep(a) ==
    /\ CallsKept /\ attempt[a].recon = "required" /\ disowned' = disowned \cup {a}
    /\ \E row : /\ AttemptBecomes(a, row)
                /\ row.status = "fallback_pending" /\ row.outcome = "failed"
                /\ row.retry = "safe" /\ row.recon = "resolved"
    /\ slotClaim' = IF actCall[a].op = "cancel" THEN slotClaim
                    ELSE [slotClaim EXCEPT ![a] = Release(a, "released")]
    /\ UNCHANGED <<appointment, truth>>

SyncedStep ==
    /\ CallsKept /\ RowAdvances /\ UNCHANGED <<slotClaim, truth, disowned>>
    /\ attempt' \in [Acts -> AttemptRows \cup {NoAttempt}]
    /\ \A x \in Acts :
         \/ attempt'[x] = attempt[x]
         \/ /\ attempt[x] \in AttemptRows /\ attempt'[x] \in AttemptRows
            /\ attempt[x].recon = "required" /\ Successful(attempt'[x])
            /\ attempt'[x].superseded = attempt[x].superseded

ForeignStep ==
    /\ CallsKept /\ AttemptsKept /\ UNCHANGED <<slotClaim, appointment, disowned>>
    /\ Current.status # "cancelled" /\ Len(truth) < MaxVersion
    /\ \E row \in TruthRows : row.by = -1 /\ truth' = Append(truth, row)

LEMMA PolicyValues ==
    /\ FallbackPolicy("rejected") = Policy("fallback_pending", "failed", "safe", "not_required")
    /\ FallbackPolicy("pending") = Policy("provider_pending", "succeeded", "blocked", "required")
    /\ FallbackPolicy("uncertain") = Policy("fallback_pending", "unknown", "blocked", "required")
    /\ \A answer : answer \notin {"rejected", "pending"} =>
           FallbackPolicy(answer) = FallbackPolicy("uncertain")
BY DEF FallbackPolicy

\* An attempt that is settled leaves the others alone.
LEMMA SettledBecomes ==
    ASSUME ActTypes, NEW a \in Attempted,
           NEW policy \in [status : {"rescheduled", "cancelled", "fallback_pending",
                                     "provider_pending"},
                           outcome : {"succeeded", "failed", "unknown"},
                           retry : {"none", "safe", "blocked"},
                           recon : {"not_required", "required"}],
           attempt' = [attempt EXCEPT ![a] = Settled(a, policy)]
    PROVE  \E row : /\ AttemptBecomes(a, row)
                    /\ row.status = policy.status /\ row.outcome = policy.outcome
                    /\ row.retry = policy.retry /\ row.recon = policy.recon
<1> DEFINE row == Settled(a, policy)
<1>1. a \in Acts /\ attempt[a] \in AttemptRows
  BY AttemptIsRow
<1>2. row \in AttemptRows /\ row.superseded = attempt[a].superseded
      /\ row.status = policy.status /\ row.outcome = policy.outcome
      /\ row.retry = policy.retry /\ row.recon = policy.recon
  <2> DEFINE task == IF policy.recon = "required" THEN "open" ELSE attempt[a].task
  <2>1. task \in {"none", "open", "escalated", "resolved"}
    BY <1>1 DEF AttemptRows
  <2>2. row = [attempt[a] EXCEPT !.status = policy.status, !.outcome = policy.outcome,
                                 !.retry = policy.retry, !.recon = policy.recon,
                                 !.token = 0, !.live = FALSE, !.task = task]
    BY <1>1 DEF AttemptRows, Settled
  <2> HIDE DEF task, row
  <2>3. row \in AttemptRows
    BY <1>1, <2>1, <2>2 DEF AttemptRows
  <2> QED BY <1>1, <2>2, <2>3 DEF AttemptRows
<1> HIDE DEF row
<1>3. attempt'[a] = row /\ \A x \in Acts \ {a} : attempt'[x] = attempt[x]
  BY <1>1 DEF ActTypes, row
<1>4. attempt' \in [Acts -> AttemptRows \cup {NoAttempt}]
  BY <1>1, <1>2 DEF ActTypes, row
<1>5. AttemptBecomes(a, row)
  BY <1>2, <1>3, <1>4 DEF AttemptBecomes
<1> QED BY <1>2, <1>5

LEMMA SucceededBecomes ==
    ASSUME ActTypes, CallsInOrder, NEW a \in Attempted,
           attempt' = [attempt EXCEPT ![a] = Settled(a, Succeeded(actCall[a].op))]
    PROVE  \E row : AttemptBecomes(a, row) /\ Successful(row)
<1> DEFINE policy == Succeeded(actCall[a].op)
<1>1. policy \in [status : {"rescheduled", "cancelled", "fallback_pending", "provider_pending"},
                  outcome : {"succeeded", "failed", "unknown"},
                  retry : {"none", "safe", "blocked"}, recon : {"not_required", "required"}]
      /\ policy.status \in {"rescheduled", "cancelled"} /\ policy.outcome = "succeeded"
      /\ policy.retry = "none" /\ policy.recon = "not_required"
  BY DEF Succeeded, Policy
<1> HIDE DEF policy
<1>2. PICK row : /\ AttemptBecomes(a, row)
                 /\ row.status = policy.status /\ row.outcome = policy.outcome
                 /\ row.retry = policy.retry /\ row.recon = policy.recon
  BY <1>1, SettledBecomes DEF policy
<1>3. Successful(row)
  BY <1>1, <1>2 DEF Successful
<1> QED BY <1>2, <1>3

LEMMA FallbackBecomes ==
    ASSUME ActTypes, NEW a \in Attempted,
           NEW policy \in {FallbackPolicy("rejected"), FallbackPolicy("pending"),
                           FallbackPolicy("uncertain")},
           attempt' = [attempt EXCEPT ![a] = Settled(a, policy)]
    PROVE  \E row : /\ AttemptBecomes(a, row)
                    /\ row.status = policy.status /\ row.outcome = policy.outcome
                    /\ row.retry = policy.retry /\ row.recon = policy.recon
<1>1. policy \in [status : {"rescheduled", "cancelled", "fallback_pending", "provider_pending"},
                  outcome : {"succeeded", "failed", "unknown"},
                  retry : {"none", "safe", "blocked"}, recon : {"not_required", "required"}]
  BY PolicyValues DEF Policy
<1> QED BY <1>1, SettledBecomes

\* The row a success writes is the version the provider made for it.
LEMMA SavedRowIsTrue ==
    ASSUME ActionsInv, NEW c \in Acts, actCall[c].phase = "save", CanSave(c),
           appointment' = SavedRow(c)
    PROVE  RowAdvances /\ Proves(appointment', actCall[c].work)
<1> DEFINE a == actCall[c].work
           n == actCall[c].target
<1>1. actCall[c] \in CallRows /\ n \in Nat \ {0} /\ actCall[c].start \in Starts
  BY CallIsRow DEF ActionsInv, CallRows
<1>2. a \in Attempted /\ Fingerprint(a) = Fingerprint(c)
  BY <1>1 DEF ActionsInv, CallsInOrder
<1>3. actCall[a].op = actCall[c].op /\ actCall[a].start = actCall[c].start /\ actCall[a].target = n
  BY <1>2 DEF Fingerprint
<1>4. CASE RowConverged(c)
  BY <1>4 DEF SavedRow, CanSave, RowAdvances
<1>5. CASE ~ RowConverged(c)
  <2>1. appointment' = [version |-> n + 1,
                        status |-> IF actCall[c].op = "cancel" THEN "cancelled" ELSE "rescheduled",
                        start |-> actCall[c].start]
    BY <1>5 DEF SavedRow, Result
  <2>2. actCall[c].answer \in {"accepted", "cancelled"}
    BY DEF CanSave
  <2>3. /\ Len(truth) > n /\ truth[n + 1].by = a /\ truth[n + 1].status = actCall[c].answer
    BY <2>2 DEF ActionsInv, SentOnce, AttemptSent, CallSent
  <2>4. Len(truth) \in Nat /\ n + 1 \in 1 .. Len(truth)
    BY <1>1, <2>3 DEF ActionsInv, ActTypes
  <2>5. a \in Acts
    BY <1>2 DEF Attempted
  <2>6. /\ truth[n + 1].start = actCall[a].start
        /\ truth[n + 1].status = "cancelled" <=> actCall[a].op = "cancel"
    BY <2>3, <2>4, <2>5 DEF ActionsInv, HistoryInOrder
  <2>7. appointment \in AppointmentRows /\ appointment.version \in Nat
        /\ ~ (appointment.version >= n + 1)
    BY <1>5 DEF ActionsInv, ActTypes, AppointmentRows, RowConverged, Result
  <2>8. appointment'.version = n + 1 /\ appointment'.start = actCall[c].start
        /\ appointment'.status = IF actCall[c].op = "cancel" THEN "cancelled" ELSE "rescheduled"
    BY <2>1
  <2>9. AgreesWithProvider(appointment')
    BY <1>3, <2>2, <2>3, <2>6, <2>8 DEF AgreesWithProvider, Imported
  <2>10. appointment' \in AppointmentRows
    BY <1>1, <2>1 DEF AppointmentRows
  <2>11. appointment'.version > appointment.version /\ appointment'.version <= Len(truth)
    BY <1>1, <2>3, <2>4, <2>7, <2>8
  <2>12. Proves(appointment', a)
    BY <1>1, <1>3, <2>8 DEF Proves, ActiveStatuses
  <2> QED BY <2>9, <2>10, <2>11, <2>12 DEF RowAdvances
<1> QED BY <1>4, <1>5

LEMMA SaveSuccessSteps ==
    ASSUME ActionsInv, NEW c \in Acts, SaveSuccess(c)
    PROVE  SuccessStep(actCall[c].work)
<1> DEFINE a == actCall[c].work
<1>1. actCall[c].phase = "save" /\ actCall' = Finished(c) /\ CanSave(c) /\ UNCHANGED <<truth, disowned>>
  BY DEF SaveSuccess, Saves
<1>2. /\ attempt' = [attempt EXCEPT ![a] = Settled(a, Succeeded(actCall[a].op))]
      /\ slotClaim' = ClaimsAfter(a) /\ appointment' = SavedRow(c)
  BY DEF SaveSuccess
<1>3. actCall[c] \in CallRows /\ ActTypes /\ CallsInOrder
  BY <1>1, CallIsRow DEF ActionsInv
<1>4. a \in Attempted /\ attempt[a].status = "pos_pending" /\ ClaimsAgree(a)
  BY <1>1, <1>3 DEF CallsInOrder, CanSave, Owns
<1>5. CallsKept
  BY <1>1, <1>3, FinishedKeeps
<1>6. RowAdvances /\ Proves(appointment', a)
  BY <1>1, <1>2, SavedRowIsTrue
<1> HIDE DEF a
<1>7. \E row : AttemptBecomes(a, row) /\ Successful(row)
  BY <1>2, <1>3, <1>4, SucceededBecomes
<1> QED BY <1>1, <1>2, <1>4, <1>5, <1>6, <1>7 DEF SuccessStep, a

LEMMA SaveFallbackSteps ==
    ASSUME ActionsInv, NEW c \in Acts, SaveFallback(c)
    PROVE  SuccessStep(actCall[c].work) \/ \E policy : FailedStep(actCall[c].work, policy)
<1> DEFINE a == actCall[c].work
           policy == FallbackPolicy(FallbackAnswer(c))
<1>1. actCall[c].phase = "save" /\ actCall' = Finished(c) /\ Owns(c)
      /\ UNCHANGED <<appointment, truth, disowned>>
  BY DEF SaveFallback, Saves
<1>2. actCall[c] \in CallRows /\ ActTypes /\ CallsInOrder
  BY <1>1, CallIsRow DEF ActionsInv
<1>3. a \in Attempted /\ attempt[a].status = "pos_pending" /\ a \in Acts
  BY <1>1, <1>2 DEF CallsInOrder, Owns, Attempted
<1>4. CallsKept /\ actCall'[c].phase = "done"
  BY <1>1, <1>2, FinishedKeeps
<1>5. CASE /\ FallbackConverged(c) /\ ClaimsAgree(a)
           /\ attempt' = [attempt EXCEPT ![a] = Settled(a, Succeeded(actCall[a].op))]
           /\ slotClaim' = ClaimsAfter(a)
  BY <1>1, <1>2, <1>3, <1>4, <1>5, SucceededBecomes DEF RowAdvances, FallbackConverged,
     SuccessStep, a
<1>6. CASE /\ attempt' = [attempt EXCEPT ![a] = Settled(a, policy)]
           /\ slotClaim' = FallbackClaims(a, policy)
  <2>1. policy \in {FallbackPolicy("rejected"), FallbackPolicy("pending"),
                    FallbackPolicy("uncertain")}
    BY PolicyValues
  <2>2. ASSUME policy.outcome = "failed"
        PROVE  Absent(a) /\ \A x \in Acts : actCall'[x].phase = "dispatch" => actCall'[x].work # a
    BY <1>1, <1>3, <1>4, <2>2, PolicyValues DEF Policy, FallbackAnswer, ActionsInv, SentOnce,
       AttemptSent, CallSent, CallsKept, Kept, Working
  <2> HIDE DEF a, policy
  <2>3. \E row : /\ AttemptBecomes(a, row)
                 /\ row.status = policy.status /\ row.outcome = policy.outcome
                 /\ row.retry = policy.retry /\ row.recon = policy.recon
    BY <1>2, <1>3, <1>6, <2>1, FallbackBecomes
  <2>4. FailedStep(a, policy)
    BY <1>1, <1>3, <1>4, <1>6, <2>1, <2>2, <2>3 DEF FailedStep
  <2> QED BY <2>4 DEF a
<1> QED BY <1>5, <1>6 DEF SaveFallback

LEMMA ExpireSteps ==
    ASSUME ActionsInv, NEW a \in Acts, ExpireLease(a)
    PROVE  SuccessStep(a) \/ \E policy : FailedStep(a, policy)
<1> DEFINE answer == IF attempt[a].outcome = "not_started" THEN "rejected" ELSE "uncertain"
           policy == FallbackPolicy(answer)
<1>1. a \in Attempted /\ attempt[a].status = "pos_pending"
      /\ UNCHANGED <<actCall, appointment, truth, disowned>>
  BY DEF ExpireLease, Expired
<1>2. ActTypes /\ CallsInOrder /\ CallsKept
  BY <1>1, NothingMoves DEF ActionsInv
<1>3. CASE /\ Converged(a) /\ ClaimsAgree(a)
           /\ attempt' = [attempt EXCEPT ![a] = Settled(a, Succeeded(actCall[a].op))]
           /\ slotClaim' = ClaimsAfter(a)
  BY <1>1, <1>2, <1>3, SucceededBecomes DEF RowAdvances, Converged, SuccessStep
<1>4. CASE /\ attempt' = [attempt EXCEPT ![a] = Settled(a, policy)]
           /\ slotClaim' = FallbackClaims(a, policy)
  <2>1. policy \in {FallbackPolicy("rejected"), FallbackPolicy("pending"),
                    FallbackPolicy("uncertain")}
    OBVIOUS
  <2>2. ASSUME policy.outcome = "failed"
        PROVE  Absent(a) /\ \A x \in Acts : actCall'[x].phase = "dispatch" => actCall'[x].work # a
    BY <1>1, <2>2, PolicyValues DEF Policy, ActionsInv, SentOnce, AttemptSent, CallSent, Working
  <2> HIDE DEF policy
  <2>3. \E row : /\ AttemptBecomes(a, row)
                 /\ row.status = policy.status /\ row.outcome = policy.outcome
                 /\ row.retry = policy.retry /\ row.recon = policy.recon
    BY <1>1, <1>2, <1>4, <2>1, FallbackBecomes
  <2>4. FailedStep(a, policy)
    BY <1>1, <1>2, <1>4, <2>1, <2>2, <2>3 DEF FailedStep
  <2> QED BY <2>4
<1> QED BY <1>3, <1>4 DEF ExpireLease

\* The owner's decisions.
LEMMA ResolveSteps ==
    ASSUME ActionsInv, NEW a \in Acts, ResolveNotCreated(a) \/ ResolveAttached(a)
    PROVE  DisownedStep(a) \/ SuccessStep(a)
<1>1. a \in Attempted /\ attempt[a].recon = "required" /\ actCall' = actCall
      /\ UNCHANGED <<appointment, truth>>
  BY DEF ResolveNotCreated, ResolveAttached, InQuestion
<1>2. ActTypes /\ CallsInOrder /\ CallsKept /\ attempt[a] \in AttemptRows
  BY <1>1, NothingMoves, AttemptIsRow DEF ActionsInv
<1>3. ASSUME NEW row \in AttemptRows, attempt' = [attempt EXCEPT ![a] = row],
             row.superseded = attempt[a].superseded
      PROVE  AttemptBecomes(a, row)
  BY <1>1, <1>2, <1>3 DEF AttemptBecomes, ActTypes
<1>4. CASE ResolveNotCreated(a)
  <2> DEFINE row == [attempt[a] EXCEPT !.status = "fallback_pending", !.outcome = "failed",
                                       !.retry = "safe", !.recon = "resolved", !.task = "resolved"]
  <2>1. row \in AttemptRows /\ row.superseded = attempt[a].superseded
        /\ row.status = "fallback_pending" /\ row.outcome = "failed"
        /\ row.retry = "safe" /\ row.recon = "resolved"
    BY <1>2 DEF AttemptRows
  <2>2. attempt' = [attempt EXCEPT ![a] = row]
    BY <1>2, <1>4 DEF ResolveNotCreated, ActTypes
  <2> HIDE DEF row
  <2>3. AttemptBecomes(a, row)
    BY <1>3, <2>1, <2>2
  <2> QED BY <1>1, <1>2, <1>4, <2>1, <2>3 DEF DisownedStep, ResolveNotCreated
<1>5. CASE ResolveAttached(a)
  <2> DEFINE row == [attempt[a] EXCEPT !.status = Succeeded(actCall[a].op).status,
                                       !.outcome = "succeeded", !.retry = "none",
                                       !.recon = "resolved", !.task = "resolved"]
  <2>1. PICK status \in {"rescheduled", "cancelled"} : status = Succeeded(actCall[a].op).status
    BY DEF Succeeded, Policy
  <2>2. row \in AttemptRows /\ row.superseded = attempt[a].superseded /\ Successful(row)
    BY <1>2, <2>1 DEF AttemptRows, Successful
  <2>3. attempt' = [attempt EXCEPT ![a] = row]
    BY <1>2, <1>5 DEF ResolveAttached, ActTypes
  <2> HIDE DEF row
  <2>4. AttemptBecomes(a, row)
    BY <1>3, <2>2, <2>3
  <2>5. RowAdvances /\ Proves(appointment', a)
    BY <1>1, <1>5 DEF RowAdvances, ResolveAttached
  <2> QED BY <1>1, <1>2, <1>5, <2>2, <2>4, <2>5 DEF SuccessStep, ResolveAttached
<1> QED BY <1>4, <1>5

\* The provider's calendar.
LEMMA SyncSteps ==
    ASSUME ActionsInv, NEW v \in 1 .. MaxVersion, SyncCalendar(v)
    PROVE  SyncedStep
<1> DEFINE row == SyncedRow(v)
<1>1. /\ v \in 1 .. Len(truth) /\ appointment' = row /\ attempt' = CalendarResolved(row)
      /\ UNCHANGED <<actCall, slotClaim, truth, disowned>>
  BY DEF SyncCalendar
<1>2. ActTypes /\ CallsKept
  BY <1>1, NothingMoves DEF ActionsInv
<1>3. RowAdvances
  <2>1. CASE v <= appointment.version
    BY <1>1, <2>1 DEF RowAdvances, SyncedRow
  <2>2. CASE ~ (v <= appointment.version)
    <3>1. row = [version |-> v, status |-> Imported[truth[v].status], start |-> truth[v].start]
      BY <2>2 DEF SyncedRow
    <3>2. truth[v] \in TruthRows /\ Len(truth) \in Nat
      BY <1>1, <1>2 DEF ActTypes
    <3>3. Imported[truth[v].status] \in {"confirmed", "provider_pending", "cancelled"}
          /\ truth[v].start \in Starts
      BY <3>2 DEF Imported, TruthRows
    <3>4. row \in AppointmentRows /\ row.version = v /\ row.start = truth[v].start
          /\ row.status = Imported[truth[v].status]
      BY <3>1, <3>3 DEF AppointmentRows
    <3>5. appointment.version \in Nat
      BY <1>2 DEF ActTypes, AppointmentRows
    <3> HIDE DEF row
    <3>6. AgreesWithProvider(row)
      BY <3>4 DEF AgreesWithProvider
    <3> QED BY <1>1, <2>2, <3>2, <3>4, <3>5, <3>6 DEF RowAdvances
  <2> QED BY <2>1, <2>2
<1> HIDE DEF row
<1>4. ASSUME NEW x \in Acts
      PROVE  \/ attempt'[x] = attempt[x]
             \/ /\ attempt[x] \in AttemptRows /\ attempt'[x] \in AttemptRows
                /\ attempt[x].recon = "required" /\ Successful(attempt'[x])
                /\ attempt'[x].superseded = attempt[x].superseded
  <2>1. CASE attempt' = attempt
    BY <2>1
  <2>2. CASE attempt' # attempt
    <3> DEFINE resolved(a) == [attempt[a] EXCEPT !.status = Succeeded(actCall[a].op).status,
                                                 !.outcome = "succeeded", !.retry = "none",
                                                 !.recon = "resolved", !.task = "resolved"]
    <3>1. attempt' = [a \in Acts |-> IF a \in CalendarMatches(row) THEN resolved(a)
                                     ELSE attempt[a]]
      BY <1>1, <2>2 DEF CalendarResolved
    <3>2. CASE x \in CalendarMatches(row)
      <4>1. x \in Attempted /\ attempt[x].recon = "required"
        BY <3>2 DEF CalendarMatches, InQuestion
      <4>2. attempt[x] \in AttemptRows
        BY <1>2, <4>1, AttemptIsRow
      <4>3. Succeeded(actCall[x].op).status \in {"rescheduled", "cancelled"}
        BY DEF Succeeded, Policy
      <4>4. resolved(x) \in AttemptRows /\ Successful(resolved(x))
            /\ resolved(x).superseded = attempt[x].superseded
        BY <4>2, <4>3 DEF AttemptRows, Successful
      <4> HIDE DEF resolved
      <4> QED BY <3>1, <3>2, <4>1, <4>2, <4>4
    <3>3. CASE x \notin CalendarMatches(row)
      <4> HIDE DEF resolved
      <4> QED BY <3>1, <3>3
    <3> QED BY <3>2, <3>3
  <2> QED BY <2>1, <2>2
<1>5. attempt' \in [Acts -> AttemptRows \cup {NoAttempt}]
  <2>1. attempt' = attempt \/ attempt' = [x \in Acts |-> attempt'[x]]
    BY <1>1 DEF CalendarResolved
  <2>2. \A x \in Acts : attempt'[x] \in AttemptRows \cup {NoAttempt}
    BY <1>2, <1>4 DEF ActTypes
  <2> QED BY <1>2, <2>1, <2>2 DEF ActTypes
<1> QED BY <1>1, <1>2, <1>3, <1>4, <1>5 DEF SyncedStep

LEMMA CurrentIsRow ==
    ASSUME ActTypes
    PROVE  Len(truth) \in Nat \ {0} /\ Current \in TruthRows /\ \A v \in 1 .. Len(truth) : truth[v] \in TruthRows
BY DEF ActTypes, Current

LEMMA ForeignSteps ==
    ASSUME ActTypes, CallsInOrder, ForeignChange
    PROVE  ForeignStep
<1>1. /\ UNCHANGED <<actCall, attempt, slotClaim, appointment, disowned>>
      /\ Current.status # "cancelled" /\ Len(truth) < MaxVersion
  BY DEF ForeignChange
<1>2. CallsKept /\ AttemptsKept
  BY <1>1, NothingMoves DEF AttemptsKept, AttemptKept, ActTypes
<1>3. \E row \in TruthRows : row.by = -1 /\ truth' = Append(truth, row)
  BY CurrentIsRow DEF TruthRows, ForeignChange
<1> QED BY <1>1, <1>2, <1>3 DEF ForeignStep

(* Every step is of one of these kinds, and only the steps of other        *)
(* bookings change what they hold.                                         *)
StepKind ==
    \/ QuietStep
    \/ \E c \in Acts :
         \/ AskedStep(c) \/ WonStep(c) \/ LostStep(c)
         \/ \E a \in Attempted : ResumedStep(c, a) \/ StartedStep(c, a)
         \/ \E answer \in {"rejected", "uncertain"} : AnsweredStep(c, answer) /\ truth' = truth
         \/ \E status, answer \in {"accepted", "pending", "cancelled", "uncertain"} :
              EffectStep(c, status, answer)
    \/ \E a : SuccessStep(a) \/ DisownedStep(a) \/ \E policy : FailedStep(a, policy)
    \/ SyncedStep
    \/ ForeignStep

LEMMA StepKinds ==
    ASSUME ActionsInv, [ActionsNext]_actionVars
    PROVE  StepKind
<1>1. ActTypes /\ CallsInOrder /\ appointment.start \in Starts
  BY DEF ActionsInv, ActTypes, AppointmentRows
<1>2. ASSUME NEW c \in Acts, NEW key \in ActKeys, NEW t \in Acts \cup {0},
             \/ \E start \in Starts : BeginReschedule(c, start, key, t)
             \/ BeginCancel(c, key, t)
      PROVE  AskedStep(c)
  BY <1>1, <1>2, AskSteps DEF BeginReschedule, BeginCancel
<1>3. ASSUME NEW c \in Acts, ResumeAction(c) \/ InsertAction(c) \/ InsertLoser(c) \/ MarkStarted(c)
      PROVE  StepKind
  BY <1>1, <1>3, ResumeSteps, WinSteps, LoseSteps, MarkSteps DEF StepKind
<1>4. ASSUME NEW c \in Acts, Dispatch(c) PROVE StepKind
  BY <1>1, <1>4, DispatchSteps DEF StepKind
<1>5. ASSUME NEW c \in Acts,
             \/ SaveSuccess(c) \/ SaveFallback(c) \/ ExpireLease(c)
             \/ ResolveNotCreated(c) \/ ResolveAttached(c)
      PROVE  StepKind
  BY <1>5, SaveSuccessSteps, SaveFallbackSteps, ExpireSteps, ResolveSteps DEF StepKind
<1>6. ASSUME NEW c \in Acts,
             ClaimDenied(c) \/ Abandon(c) \/ LeaseEnds(c) \/ ResolveEscalated(c)
      PROVE  QuietStep
  BY <1>1, <1>6, QuietSteps
<1>7. CASE \/ UNCHANGED actionVars \/ FenceAdvances
           \/ \E cell \in RivalCells : RivalClaims(cell) \/ RivalReleases(cell)
  BY <1>1, <1>7, QuietSteps DEF StepKind
<1>8. ASSUME NEW v \in 1 .. MaxVersion, SyncCalendar(v) PROVE StepKind
  BY <1>8, SyncSteps DEF StepKind
<1>9. CASE ForeignChange
  BY <1>1, <1>9, ForeignSteps DEF StepKind
<1>10. QuietStep \/ (\E c \in Acts : AskedStep(c)) => StepKind
  BY DEF StepKind
<1> QED BY <1>2, <1>3, <1>4, <1>5, <1>6, <1>7, <1>8, <1>9, <1>10 DEF ActionsNext

-----------------------------------------------------------------------------
\* Attempts and requests are kept.

LEMMA AttemptedIs ==
    ASSUME ActTypes
    PROVE  /\ AttemptsKept => Attempted' = Attempted
           /\ \A a, row : AttemptBecomes(a, row) => Attempted' = Attempted
           /\ SyncedStep => Attempted' = Attempted
           /\ \A c \in Acts : InsertedStep(c) => Attempted' = Attempted \cup {c}
           /\ \A c \in Acts, a \in Attempted : StartedStep(c, a) => Attempted' = Attempted
<1>1. ASSUME AttemptsKept PROVE Attempted' = Attempted
  BY <1>1 DEF AttemptsKept, AttemptKept, Attempted
<1>2. ASSUME NEW a, NEW row, AttemptBecomes(a, row) PROVE Attempted' = Attempted
  BY <1>2, RowsAreNew DEF AttemptBecomes, Attempted
<1>3. ASSUME SyncedStep PROVE Attempted' = Attempted
  BY <1>3, RowsAreNew DEF SyncedStep, Attempted
<1>4. ASSUME NEW c \in Acts, InsertedStep(c) PROVE Attempted' = Attempted \cup {c}
  BY <1>4, RowsAreNew DEF InsertedStep, Attempted
<1>5. ASSUME NEW c \in Acts, NEW a \in Attempted, StartedStep(c, a) PROVE Attempted' = Attempted
  BY <1>5, RowsAreNew DEF StartedStep, Attempted
<1> QED BY <1>1, <1>2, <1>3, <1>4, <1>5

\* Calls either stay, move by one phase, or begin.
CallsGoOn ==
    /\ actCall' \in [Acts -> CallRows \cup {IdleCall, DoneCall}]
    /\ attempt' \in [Acts -> AttemptRows \cup {NoAttempt}]
    /\ Attempted \subseteq Attempted'
    /\ \A x \in Attempted' : SameCall(x) /\ actCall'[x].phase # "claim"

LEMMA CallsContinue ==
    ASSUME ActTypes, CallsInOrder, StepKind
    PROVE  CallsGoOn
<1>1. ASSUME CallsKept, attempt' \in [Acts -> AttemptRows \cup {NoAttempt}], Attempted' = Attempted
      PROVE  CallsGoOn
  BY <1>1 DEF CallsKept, Kept, CallsInOrder, CallsGoOn, Attempted
<1>2. ASSUME NEW c \in Acts, NEW phase \in {"mark", "dispatch", "save", "done"}, NEW work, NEW answer,
             Moved(c, phase, work, answer), attempt' \in [Acts -> AttemptRows \cup {NoAttempt}],
             Attempted' \in {Attempted, Attempted \cup {c}}
      PROVE  CallsGoOn
  BY <1>2 DEF Moved, Kept, CallsInOrder, Attempted, CallsGoOn
<1>3. CASE QuietStep \/ ForeignStep
  BY <1>1, <1>3, AttemptedIs DEF QuietStep, ForeignStep, AttemptsKept
<1>4. CASE SyncedStep
  BY <1>1, <1>4, AttemptedIs DEF SyncedStep
<1>5. ASSUME NEW a, SuccessStep(a) \/ DisownedStep(a) \/ \E policy : FailedStep(a, policy)
      PROVE  CallsGoOn
  BY <1>1, <1>5, AttemptedIs DEF SuccessStep, DisownedStep, FailedStep, AttemptBecomes
<1>6. ASSUME NEW c \in Acts, AskedStep(c) PROVE CallsGoOn
  BY <1>6, AttemptedIs DEF AskedStep, Kept, CallsInOrder, Attempted, CallsGoOn, AttemptsKept
<1>7. ASSUME NEW c \in Acts, WonStep(c) PROVE CallsGoOn
  BY <1>2, <1>7, AttemptedIs DEF WonStep, InsertedStep
<1>8. ASSUME NEW c \in Acts, LostStep(c) PROVE CallsGoOn
  BY <1>2, <1>8, AttemptedIs DEF LostStep, InsertedStep
<1>9. ASSUME NEW c \in Acts, NEW a \in Attempted, ResumedStep(c, a) PROVE CallsGoOn
  BY <1>2, <1>9, AttemptedIs DEF ResumedStep, AttemptsKept
<1>10. ASSUME NEW c \in Acts, NEW a \in Attempted, StartedStep(c, a) PROVE CallsGoOn
  BY <1>2, <1>10, AttemptedIs DEF StartedStep
<1>11. ASSUME NEW c \in Acts, NEW answer, AnsweredStep(c, answer) PROVE CallsGoOn
  BY <1>2, <1>11, AttemptedIs DEF AnsweredStep, AttemptsKept
<1>12. ASSUME NEW c \in Acts, NEW status, NEW answer, EffectStep(c, status, answer)
       PROVE CallsGoOn
  BY <1>11, <1>12 DEF EffectStep
<1> QED BY <1>3, <1>4, <1>5, <1>6, <1>7, <1>8, <1>9, <1>10, <1>11, <1>12 DEF StepKind

\* The history grows at its end, and not after a cancellation.
HistoryGoesOn ==
    \/ truth' = truth
    \/ /\ Current.status # "cancelled" /\ Len(truth) < MaxVersion
       /\ \E row \in TruthRows : truth' = Append(truth, row)

LEMMA HistoryContinues ==
    ASSUME ActTypes, CallsInOrder, StepKind
    PROVE  HistoryGoesOn
<1>1. ASSUME NEW c \in Acts, NEW status \in {"accepted", "pending", "cancelled", "uncertain"},
             NEW answer, EffectStep(c, status, answer)
      PROVE  HistoryGoesOn
  <2> DEFINE a == actCall[c].work
  <2>1. actCall[c].phase = "dispatch"
    BY <1>1 DEF EffectStep, AnsweredStep
  <2>2. actCall[c] \in CallRows /\ a \in Attempted
    BY <2>1, CallIsRow DEF CallsInOrder
  <2>3. actCall[a] \in CallRows /\ a \in Acts /\ status \in {"accepted", "pending", "cancelled"}
    BY <1>1, <2>2 DEF CallsInOrder, Attempted, EffectStep
  <2>4. NewTruth(a, status) \in TruthRows
    BY <2>3, CurrentIsRow DEF NewTruth, TruthRows, CallRows, OfAppointment
  <2> QED BY <1>1, <2>4 DEF HistoryGoesOn, EffectStep
<1>2. CASE ForeignStep
  BY <1>2 DEF ForeignStep, HistoryGoesOn
<1>3. truth' = truth => HistoryGoesOn
  BY DEF HistoryGoesOn
<1> QED BY <1>1, <1>2, <1>3 DEF StepKind, QuietStep, AskedStep, WonStep, LostStep, InsertedStep,
      ResumedStep, StartedStep, SuccessStep, DisownedStep, FailedStep, SyncedStep, Others

\* What grows at its end keeps what it had.
LEMMA HistoryKeeps ==
    ASSUME ActTypes, HistoryGoesOn
    PROVE  /\ truth' \in Seq(TruthRows) /\ Len(truth') \in Len(truth) .. MaxVersion
           /\ Len(truth') \in Nat \ {0} /\ Len(truth) \in Nat \ {0}
           /\ \A v \in 1 .. Len(truth) : truth'[v] = truth[v]
           /\ Len(truth') # Len(truth) => Len(truth') = Len(truth) + 1
                                          /\ Current.status # "cancelled"
           /\ Len(truth') = Len(truth) => truth' = truth
<1>1. truth \in Seq(TruthRows) /\ Len(truth) \in 1 .. MaxVersion /\ MaxVersion \in Nat
  BY ActionConstants DEF ActTypes
<1>2. CASE truth' = truth
  BY <1>1, <1>2
<1>3. ASSUME NEW row \in TruthRows, truth' = Append(truth, row), Current.status # "cancelled",
             Len(truth) < MaxVersion
      PROVE  /\ truth' \in Seq(TruthRows) /\ Len(truth') = Len(truth) + 1
             /\ \A v \in 1 .. Len(truth) : truth'[v] = truth[v]
  BY <1>1, <1>3
<1>4. CASE \E row \in TruthRows : truth' = Append(truth, row) /\ Current.status # "cancelled"
                                  /\ Len(truth) < MaxVersion
  BY <1>1, <1>3, <1>4
<1> QED BY <1>2, <1>4 DEF HistoryGoesOn

LEMMA RowContinues ==
    ASSUME ActTypes, StepKind
    PROVE  /\ RowAdvances /\ disowned \subseteq disowned'
           /\ disowned' \subseteq Acts
<1>1. UNCHANGED <<appointment, disowned>> \/ SyncedStep
      \/ \E a : SuccessStep(a) \/ DisownedStep(a) \/ \E policy : FailedStep(a, policy)
  BY DEF QuietStep, ForeignStep, Others, AskedStep, WonStep, LostStep, InsertedStep,
     ResumedStep, StartedStep, AnsweredStep, EffectStep, StepKind
<1>2. CASE UNCHANGED <<appointment, disowned>>
  BY <1>2 DEF RowAdvances, ActTypes
<1>3. CASE SyncedStep
  BY <1>3 DEF SyncedStep, ActTypes
<1>4. ASSUME NEW a, SuccessStep(a) \/ \E policy : FailedStep(a, policy)
      PROVE  RowAdvances /\ disowned' = disowned
  BY <1>4 DEF SuccessStep, FailedStep, RowAdvances
<1>5. ASSUME NEW a, DisownedStep(a) PROVE a \in Acts /\ RowAdvances /\ disowned' = disowned \cup {a}
  BY <1>5 DEF DisownedStep, AttemptBecomes, Attempted, RowAdvances
<1>6. disowned \subseteq Acts
  BY DEF ActTypes
<1> QED BY <1>1, <1>2, <1>3, <1>4, <1>5, <1>6

\* The row is a version of the history, and a newer one when it changes.
LEMMA RowKeeps ==
    ASSUME ActTypes, HistoryInOrder, HistoryGoesOn, RowAdvances
    PROVE  /\ appointment' \in AppointmentRows /\ appointment.version \in Nat \ {0}
           /\ appointment'.version \in Nat \ {0}
           /\ appointment'.version >= appointment.version
           /\ appointment'.version = appointment.version => appointment' = appointment
           /\ appointment'.version <= Len(truth) /\ appointment'.version <= Len(truth')
           /\ AgreesWithProvider(appointment')
           /\ appointment'.start = truth'[appointment'.version].start
           /\ truth'[appointment'.version] = truth[appointment'.version]
<1>1. appointment \in AppointmentRows /\ appointment.version \in Nat \ {0}
  BY DEF ActTypes, AppointmentRows
<1>2. appointment' \in AppointmentRows /\ appointment'.version \in Nat \ {0}
  BY <1>1 DEF RowAdvances, AppointmentRows
<1>3. /\ appointment'.version >= appointment.version
      /\ appointment'.version = appointment.version => appointment' = appointment
      /\ appointment'.version <= Len(truth) /\ AgreesWithProvider(appointment')
  BY <1>1, <1>2 DEF RowAdvances, HistoryInOrder
<1>4. Len(truth) \in Nat /\ Len(truth') \in Nat /\ Len(truth) <= Len(truth')
      /\ \A v \in 1 .. Len(truth) : truth'[v] = truth[v]
  BY HistoryKeeps
<1>5. truth'[appointment'.version] = truth[appointment'.version]
  BY <1>2, <1>3, <1>4
<1> QED BY <1>1, <1>2, <1>3, <1>4, <1>5 DEF AgreesWithProvider

\* What a call is after a step.
CallContinues(c) ==
    actCall'[c] \in CallRows =>
      \/ /\ SameCall(c)
         /\ actCall'[c].phase = "claim" => actCall[c].phase = "claim"
         /\ actCall'[c].phase \in {"mark", "dispatch", "save"} =>
              /\ actCall'[c].work \in Attempted'
              /\ Fingerprint(actCall'[c].work) = Fingerprint(c)
      \/ /\ actCall'[c].phase = "claim" /\ actCall'[c].target = appointment.version
         /\ appointment' = appointment /\ appointment.status # "cancelled"
         /\ actCall'[c].op = "cancel" => actCall'[c].start = appointment.start

LEMMA EveryCallContinues ==
    ASSUME ActTypes, CallsInOrder, StepKind
    PROVE  \A c \in Acts : CallContinues(c)
<1>1. Attempted \subseteq Attempted'
  BY CallsContinue DEF CallsGoOn
<1>2. ASSUME NEW x \in Acts, Kept(x) PROVE CallContinues(x)
  <2> SUFFICES ASSUME actCall'[x] \in CallRows PROVE CallContinues(x)
    BY DEF CallContinues
  <2>1. SameCall(x) /\ actCall[x] \in CallRows
    BY <1>2 DEF Kept, SameCall
  <2>2. ASSUME actCall'[x].phase \in {"mark", "dispatch", "save"}
        PROVE  actCall'[x].work \in Attempted /\ Fingerprint(actCall'[x].work) = Fingerprint(x)
    BY <1>2, <2>1, <2>2 DEF Kept, CallsInOrder
  <2> QED BY <1>1, <1>2, <2>1, <2>2 DEF CallContinues, Kept
<1>3. ASSUME NEW c \in Acts, NEW phase \in {"mark", "dispatch", "save", "done"}, NEW work, NEW answer,
             Moved(c, phase, work, answer),
             phase # "done" => work \in Attempted' /\ Fingerprint(work) = Fingerprint(c)
      PROVE  \A x \in Acts : CallContinues(x)
  BY <1>2, <1>3 DEF Moved, CallContinues
<1>4. CASE CallsKept
  BY <1>2, <1>4 DEF CallsKept
<1>5. ASSUME NEW c \in Acts, AskedStep(c) PROVE \A x \in Acts : CallContinues(x)
  BY <1>2, <1>5 DEF AskedStep, CallContinues, Others
<1>6. ASSUME NEW c \in Acts, WonStep(c) PROVE \A x \in Acts : CallContinues(x)
  BY <1>3, <1>6, AttemptedIs DEF WonStep
<1>7. ASSUME NEW c \in Acts, LostStep(c) PROVE \A x \in Acts : CallContinues(x)
  BY <1>3, <1>7 DEF LostStep
<1>8. ASSUME NEW c \in Acts, NEW a \in Attempted, ResumedStep(c, a)
      PROVE  \A x \in Acts : CallContinues(x)
  BY <1>1, <1>3, <1>8 DEF ResumedStep
<1>9. ASSUME NEW c \in Acts, actCall[c].phase \in {"mark", "dispatch"}
      PROVE  actCall[c].work \in Attempted' /\ Fingerprint(actCall[c].work) = Fingerprint(c)
  BY <1>1, <1>9, CallIsRow DEF CallsInOrder
<1>10. ASSUME NEW c \in Acts, NEW a \in Attempted, StartedStep(c, a)
       PROVE  \A x \in Acts : CallContinues(x)
  BY <1>3, <1>9, <1>10 DEF StartedStep
<1>11. ASSUME NEW c \in Acts, NEW answer, AnsweredStep(c, answer)
       PROVE  \A x \in Acts : CallContinues(x)
  BY <1>3, <1>9, <1>11 DEF AnsweredStep
<1>12. CASE QuietStep \/ SyncedStep \/ ForeignStep
            \/ \E a : SuccessStep(a) \/ DisownedStep(a) \/ \E policy : FailedStep(a, policy)
  BY <1>4, <1>12 DEF QuietStep, SyncedStep, ForeignStep, SuccessStep, DisownedStep, FailedStep
<1> QED BY <1>5, <1>6, <1>7, <1>8, <1>10, <1>11, <1>12 DEF StepKind, EffectStep

\* The fingerprint of an attempt is that of its call, and stays.
LEMMA FingerprintKept ==
    ASSUME NEW x, SameCall(x)
    PROVE  Fingerprint(x)' = Fingerprint(x)
BY DEF SameCall, Fingerprint

LEMMA CallsStep ==
    ASSUME ActionsInv, StepKind
    PROVE  CallsInOrder'
<1>1. ActTypes /\ CallsInOrder /\ HistoryInOrder
  BY DEF ActionsInv
<1>2. CallsGoOn /\ HistoryGoesOn /\ RowAdvances
  BY <1>1, CallsContinue, HistoryContinues, RowContinues
<1>3. /\ appointment.version \in Nat \ {0} /\ appointment'.version \in Nat \ {0}
      /\ appointment'.version >= appointment.version
      /\ appointment'.version = appointment.version => appointment' = appointment
  BY <1>1, <1>2, RowKeeps
<1>4. /\ Len(truth) \in Nat /\ appointment.version <= Len(truth)
      /\ appointment.start = truth[appointment.version].start
      /\ \A v \in 1 .. Len(truth) : truth'[v] = truth[v]
  BY <1>1, <1>2, HistoryKeeps DEF HistoryInOrder, AgreesWithProvider
<1>5. \A a \in Attempted' : actCall'[a] \in CallRows /\ actCall'[a].phase # "claim"
  BY <1>2 DEF CallsGoOn, SameCall
<1>6. ASSUME NEW c \in Acts, actCall'[c] \in CallRows
      PROVE  /\ actCall'[c].target <= appointment'.version
             /\ actCall'[c].op = "cancel" => actCall'[c].start = truth'[actCall'[c].target].start
             /\ actCall'[c].phase = "claim" /\ actCall'[c].target = appointment'.version =>
                    appointment'.status # "cancelled"
             /\ actCall'[c].phase \in {"mark", "dispatch", "save"} =>
                    /\ actCall'[c].work \in Attempted'
                    /\ (Fingerprint(actCall[c].work) = Fingerprint(c))'
  BY <1>1, <1>2, <1>3, <1>4, <1>6, EveryCallContinues DEF SameCall, CallsInOrder, CallRows,
     CallsGoOn, Fingerprint, CallContinues
<1> QED BY <1>5, <1>6 DEF CallsInOrder

LEMMA OneStandsStep ==
    ASSUME ActionsInv, StepKind
    PROVE  OneStands'
<1>1. ActTypes /\ CallsInOrder /\ OneStands
  BY DEF ActionsInv
<1>2. CallsGoOn
  BY <1>1, CallsContinue
<1>3. \A a \in Attempted' : Fingerprint(a)' = Fingerprint(a)
  BY <1>2, FingerprintKept DEF CallsGoOn
<1>4. ASSUME Attempted' = Attempted, \A x \in Attempted : attempt'[x].superseded = attempt[x].superseded
      PROVE  OneStands'
  BY <1>1, <1>3, <1>4 DEF OneStands
<1>5. CASE AttemptsKept
  BY <1>1, <1>4, <1>5, AttemptedIs DEF AttemptsKept, AttemptKept, Attempted
<1>6. ASSUME NEW a, NEW row, AttemptBecomes(a, row) PROVE OneStands'
  BY <1>1, <1>4, <1>6, AttemptedIs DEF AttemptBecomes, Attempted
<1>7. CASE SyncedStep
  BY <1>1, <1>4, <1>7, AttemptedIs DEF SyncedStep, Attempted
<1>8. ASSUME NEW c \in Acts, NEW a \in Attempted, StartedStep(c, a) PROVE OneStands'
  BY <1>1, <1>4, <1>8, AttemptedIs DEF StartedStep, Attempted
<1>9. ASSUME NEW c \in Acts, InsertedStep(c) PROVE OneStands'
  <2>1. Attempted' = Attempted \cup {c}
    BY <1>1, <1>9, AttemptedIs
  <2>2. \A x \in Attempted \ {c} : attempt[x].superseded => attempt'[x].superseded
    BY <1>9 DEF InsertedStep, Attempted
  <2>3. \A x \in Attempted \ {c} : attempt'[x].superseded \/ Fingerprint(x) # Fingerprint(c)
    BY <1>9 DEF InsertedStep, Attempted
  <2>4. SUFFICES ASSUME NEW a \in Attempted', NEW b \in Attempted',
                        ~ attempt'[a].superseded, ~ attempt'[b].superseded,
                        Fingerprint(a)' = Fingerprint(b)'
                 PROVE  a = b
    BY DEF OneStands
  <2>5. Fingerprint(a) = Fingerprint(b)
    BY <1>3, <2>4
  <2>6. CASE a # c /\ b # c
    BY <1>1, <2>1, <2>2, <2>4, <2>5, <2>6 DEF OneStands
  <2>7. CASE a = c \/ b = c
    BY <2>1, <2>3, <2>4, <2>5, <2>7
  <2> QED BY <2>6, <2>7
<1> QED BY <1>5, <1>6, <1>7, <1>8, <1>9 DEF StepKind, QuietStep, AskedStep, WonStep, LostStep,
      ResumedStep, AnsweredStep, EffectStep, SuccessStep, DisownedStep, FailedStep, ForeignStep

-----------------------------------------------------------------------------
\* The provider's history.

LEMMA HistoryStep ==
    ASSUME ActionsInv, StepKind
    PROVE  HistoryInOrder'
<1>1. ActTypes /\ CallsInOrder /\ HistoryInOrder /\ 0 \notin Acts
  BY ActionConstants DEF ActionsInv
<1>2. CallsGoOn /\ HistoryGoesOn /\ RowAdvances
  BY <1>1, CallsContinue, HistoryContinues, RowContinues
<1>3. /\ Len(truth') \in Nat \ {0} /\ Len(truth) \in Nat \ {0} /\ Len(truth) <= Len(truth')
      /\ \A v \in 1 .. Len(truth) : truth'[v] = truth[v]
      /\ Len(truth') # Len(truth) => Len(truth') = Len(truth) + 1 /\ Current.status # "cancelled"
  BY <1>1, <1>2, HistoryKeeps
<1>4. (appointment.version <= Len(truth) /\ AgreesWithProvider(appointment))'
  BY <1>1, <1>2, RowKeeps DEF AgreesWithProvider
<1>5. ASSUME NEW v \in 1 .. Len(truth)
      PROVE  /\ truth'[v].status = "cancelled" => v = Len(truth')
             /\ truth'[v].by = 0 => v = 1
             /\ truth'[v].by \in Acts =>
                  /\ truth'[v].by \in Attempted' /\ actCall'[truth'[v].by].target + 1 = v
                  /\ truth'[v].start = actCall'[truth'[v].by].start
                  /\ truth'[v].status = "cancelled" <=> actCall'[truth'[v].by].op = "cancel"
  BY <1>1, <1>2, <1>3, <1>5 DEF HistoryInOrder, Current, CallsGoOn, SameCall
<1>6. ASSUME Len(truth') # Len(truth), NEW v, v = Len(truth')
      PROVE  /\ truth'[v].by # 0
             /\ truth'[v].by \in Acts =>
                  /\ truth'[v].by \in Attempted' /\ actCall'[truth'[v].by].target + 1 = v
                  /\ truth'[v].start = actCall'[truth'[v].by].start
                  /\ truth'[v].status = "cancelled" <=> actCall'[truth'[v].by].op = "cancel"
  <2>1. truth' # truth /\ v = Len(truth) + 1
    BY <1>3, <1>6
  <2>2. ForeignStep \/ \E c \in Acts : \E status, answer : EffectStep(c, status, answer)
    BY <2>1 DEF StepKind, QuietStep, AskedStep, WonStep, LostStep, InsertedStep,
      ResumedStep, StartedStep, SuccessStep, DisownedStep, FailedStep, SyncedStep, Others
  <2>3. CASE ForeignStep
    <3>1. PICK row \in TruthRows : row.by = -1 /\ truth' = Append(truth, row)
      BY <2>3 DEF ForeignStep
    <3>2. truth'[v] = row
      BY <1>1, <2>1, <3>1 DEF ActTypes
    <3>3. -1 \notin Acts
      BY ActionConstants
    <3> QED BY <3>1, <3>2, <3>3
  <2>4. ASSUME NEW c \in Acts, NEW status, NEW answer, EffectStep(c, status, answer)
        PROVE  /\ truth'[v].by \in Acts
               /\ truth'[v].by \in Attempted' /\ actCall'[truth'[v].by].target + 1 = v
               /\ truth'[v].start = actCall'[truth'[v].by].start
               /\ truth'[v].status = "cancelled" <=> actCall'[truth'[v].by].op = "cancel"
    <3> DEFINE a == actCall[c].work
    <3>1. actCall[c].phase = "dispatch" /\ actCall[c] \in CallRows
      BY <1>1, <2>4, CallIsRow DEF EffectStep, AnsweredStep
    <3>2. a \in Attempted /\ Fingerprint(a) = Fingerprint(c)
      BY <1>1, <3>1 DEF CallsInOrder
    <3>3. actCall[a].op = actCall[c].op /\ actCall[a].start = actCall[c].start
          /\ actCall[a].target = actCall[c].target
      BY <3>2 DEF Fingerprint
    <3>4. truth'[v] = NewTruth(a, status)
      BY <1>1, <2>1, <2>4 DEF ActTypes, EffectStep
    <3>5. truth'[v].by = a /\ truth'[v].status = status
          /\ truth'[v].start = IF actCall[a].op = "cancel" THEN Current.start ELSE actCall[a].start
      BY <3>4 DEF NewTruth
    <3>6. actCall[a].target = Len(truth)
          /\ status \in IF actCall[a].op = "cancel" THEN {"cancelled"} ELSE {"accepted", "pending"}
      BY <2>4, <3>3 DEF EffectStep
    <3>7. actCall[a].op = "cancel" => Current.start = actCall[a].start
      BY <1>1, <3>1, <3>3, <3>6 DEF CallsInOrder, Current
    <3>8. a \in Acts /\ a \in Attempted' /\ SameCall(a)
      BY <1>2, <3>2 DEF CallsGoOn, Attempted
    <3> HIDE DEF a
    <3> QED BY <2>1, <3>5, <3>6, <3>7, <3>8 DEF SameCall
  <2> QED BY <1>1, <2>2, <2>3, <2>4
<1>7. truth'[1].by = 0
  BY <1>1, <1>3 DEF HistoryInOrder
<1>8. ASSUME NEW v \in 1 .. Len(truth')
      PROVE  /\ truth'[v].status = "cancelled" => v = Len(truth')
             /\ truth'[v].by = 0 => v = 1
             /\ truth'[v].by \in Acts =>
                  /\ truth'[v].by \in Attempted' /\ actCall'[truth'[v].by].target + 1 = v
                  /\ truth'[v].start = actCall'[truth'[v].by].start
                  /\ truth'[v].status = "cancelled" <=> actCall'[truth'[v].by].op = "cancel"
  BY <1>3, <1>5, <1>6, <1>8
<1> QED BY <1>1, <1>4, <1>7, <1>8 DEF HistoryInOrder

-----------------------------------------------------------------------------
\* What is sent.

\* No call begins to send, and none gets an answer.
WorkKept ==
    \A x \in Acts : actCall'[x].phase \in {"dispatch", "save"} =>
        /\ actCall'[x].phase = actCall[x].phase /\ actCall'[x].work = actCall[x].work
        /\ actCall'[x].answer = actCall[x].answer /\ actCall'[x].target = actCall[x].target
        /\ actCall[x].target \in Nat

LEMMA KeptWork ==
    ASSUME NEW x \in Acts, Kept(x), actCall'[x].phase \in {"dispatch", "save"}
    PROVE  /\ actCall'[x].phase = actCall[x].phase /\ actCall'[x].work = actCall[x].work
           /\ actCall'[x].answer = actCall[x].answer /\ actCall'[x].target = actCall[x].target
           /\ actCall[x].target \in Nat /\ actCall[x] \in CallRows
<1>1. actCall'[x] \in CallRows
  BY DEF Kept, IdleCall, DoneCall
<1> QED BY <1>1 DEF Kept, SameCall, CallRows

\* The history gets no version of the attempt.
LEMMA AbsentStays ==
    ASSUME ActTypes, NEW a, Absent(a),
           truth' = truth \/ \E row \in TruthRows : row.by # a /\ truth' = Append(truth, row)
    PROVE  Absent(a)'
<1>1. CASE truth' = truth
  BY <1>1 DEF Absent
<1>2. ASSUME NEW row \in TruthRows, row.by # a, truth' = Append(truth, row)
      PROVE  Absent(a)'
  BY <1>2 DEF ActTypes, Absent
<1> QED BY <1>1, <1>2

\* What was never attempted was never sent.
LEMMA UnattemptedIsAbsent ==
    ASSUME ActTypes, CallsInOrder, HistoryInOrder, NEW x \in Acts, x \notin Attempted
    PROVE  Absent(x) /\ \A c \in Acts : ~ Working(c, x)
<1>1. Absent(x)
  BY DEF Absent, HistoryInOrder
<1>2. ASSUME NEW c \in Acts, Working(c, x) PROVE FALSE
  BY <1>2, CallIsRow DEF Working, CallsInOrder
<1> QED BY <1>1, <1>2

\* When no call begins or ends sending, what was sent stays what it was.
LEMMA SentKept ==
    ASSUME ActionsInv, WorkKept,
           truth' = truth \/ \E row \in TruthRows : row.by = -1 /\ truth' = Append(truth, row)
    PROVE  /\ \A a \in Acts : Absent(a) => Absent(a)'
           /\ \A a, c \in Acts : Working(c, a)' => Working(c, a)
           /\ \A a \in Acts : Never(a) => Never(a)'
           /\ \A c \in Acts : CallSent(c)'
<1>2. ActTypes /\ CallsInOrder /\ \A a \in Acts : a # -1
  BY ActionConstants DEF ActionsInv
<1>3. \A a \in Acts : Absent(a) => Absent(a)'
  BY <1>2, AbsentStays
<1>4. \A a, c \in Acts : Working(c, a)' => Working(c, a)
  BY DEF WorkKept, Working
<1>5. \A a \in Acts : Never(a) => Never(a)'
  BY <1>3 DEF Never, WorkKept
<1>6. ASSUME NEW c \in Acts PROVE CallSent(c)'
  <2>1. CallSent(c)
    BY DEF ActionsInv, SentOnce
  <2>2. actCall[c].phase \in {"dispatch", "save"} => actCall[c].work \in Acts
    BY <1>2, CallIsRow DEF CallsInOrder, Attempted
  <2>3. Len(truth) \in Nat /\ Len(truth') \in Nat /\ Len(truth') >= Len(truth)
        /\ \A v \in 1 .. Len(truth) : truth'[v] = truth[v]
    BY <1>2 DEF ActTypes
  <2>4. CASE actCall'[c].phase \notin {"dispatch", "save"}
    BY <2>4 DEF CallSent
  <2>5. CASE actCall'[c].phase \in {"dispatch", "save"}
    <3>1. /\ actCall'[c].phase = actCall[c].phase /\ actCall'[c].work = actCall[c].work
          /\ actCall'[c].answer = actCall[c].answer /\ actCall'[c].target = actCall[c].target
          /\ actCall[c].target \in Nat
      BY <2>5 DEF WorkKept
    <3>2. PICK w \in Acts : w = actCall[c].work /\ w = actCall'[c].work
      BY <2>2, <2>5, <3>1
    <3>3. Absent(actCall[c].work) => Absent(actCall[c].work)'
      BY <1>3, <3>2 DEF Absent
    <3>5. ASSUME Len(truth) > actCall[c].target
          PROVE  Len(truth') > actCall[c].target
                 /\ truth'[actCall[c].target + 1] = truth[actCall[c].target + 1]
      BY <2>3, <3>1, <3>5
    <3> QED BY <2>1, <3>1, <3>3, <3>5 DEF CallSent
  <2> QED BY <2>4, <2>5
<1> QED BY <1>3, <1>4, <1>5, <1>6

\* What an attempt is after a step in which no call begins or ends sending.
AttemptGoesOn(a) ==
    /\ attempt'[a].outcome = "not_started" => a \notin Attempted \/ attempt[a].outcome = "not_started"
    /\ attempt'[a].status = "pos_pending" =>
         /\ attempt'[a].outcome \in {"not_started", "in_flight"}
         /\ attempt'[a].retry = "none" /\ attempt'[a].recon = "not_required"
    /\ attempt'[a].retry = "safe" /\ a \notin disowned' => Never(a)'

LEMMA SentStaysSent ==
    ASSUME ActionsInv, WorkKept,
           truth' = truth \/ \E row \in TruthRows : row.by = -1 /\ truth' = Append(truth, row),
           \A a \in Attempted' : AttemptGoesOn(a)
    PROVE  SentOnce'
<1>1. /\ \A a \in Acts : Absent(a) => Absent(a)'
      /\ \A a, c \in Acts : Working(c, a)' => Working(c, a)
      /\ \A c \in Acts : CallSent(c)'
  BY SentKept
<1>2. ASSUME NEW a \in Attempted' PROVE AttemptSent(a)'
  BY <1>1, <1>2, UnattemptedIsAbsent DEF Attempted, ActionsInv, SentOnce, AttemptGoesOn,
     AttemptSent
<1> QED BY <1>1, <1>2 DEF SentOnce

SendingStands ==
    /\ WorkKept
    /\ truth' = truth \/ \E row \in TruthRows : row.by = -1 /\ truth' = Append(truth, row)

LEMMA QuietWork ==
    ASSUME
           \/ QuietStep \/ SyncedStep \/ ForeignStep
           \/ \E c \in Acts : \/ AskedStep(c) \/ WonStep(c) \/ LostStep(c)
                              \/ \E a \in Attempted : ResumedStep(c, a)
           \/ \E a : SuccessStep(a) \/ DisownedStep(a) \/ \E policy : FailedStep(a, policy)
    PROVE  SendingStands
<1>1. /\ \A c \in Acts : \A phase, work, answer :
           Moved(c, phase, work, answer) /\ phase \notin {"dispatch", "save"} => WorkKept
      /\ \A c \in Acts : AskedStep(c) => WorkKept
      /\ CallsKept => WorkKept
  BY KeptWork DEF WorkKept, CallsKept, Moved, AskedStep
<1>2. WorkKept
  BY <1>1 DEF WonStep, LostStep, ResumedStep, QuietStep, SyncedStep, ForeignStep, SuccessStep,
     DisownedStep, FailedStep
<1>3. truth' = truth \/ \E row \in TruthRows : row.by = -1 /\ truth' = Append(truth, row)
  BY DEF QuietStep, SyncedStep, ForeignStep, SuccessStep, DisownedStep, FailedStep, AskedStep,
     WonStep, LostStep, InsertedStep, ResumedStep, Others
<1> QED BY <1>2, <1>3 DEF SendingStands

LEMMA QuietSent ==
    ASSUME ActionsInv,
           \/ QuietStep \/ SyncedStep \/ ForeignStep
           \/ \E c \in Acts : \/ AskedStep(c) \/ WonStep(c) \/ LostStep(c)
                              \/ \E a \in Attempted : ResumedStep(c, a)
           \/ \E a : SuccessStep(a) \/ DisownedStep(a) \/ \E policy : FailedStep(a, policy)
    PROVE  SentOnce'
<1>1. ActTypes /\ CallsInOrder /\ \A x \in Attempted : AttemptSent(x)
  BY DEF ActionsInv, SentOnce
<1>3. WorkKept
  BY QuietWork DEF SendingStands
<1>4. truth' = truth \/ \E row \in TruthRows : row.by = -1 /\ truth' = Append(truth, row)
  BY QuietWork DEF SendingStands
<1>5. \A a \in Acts : Never(a) => Never(a)'
  BY <1>3, <1>4, SentKept
<1>6. disowned \subseteq disowned'
  BY DEF QuietStep, SyncedStep, ForeignStep, SuccessStep, DisownedStep, FailedStep, AskedStep,
     WonStep, LostStep, InsertedStep, ResumedStep, Others
<1>7. ASSUME NEW x \in Attempted,
             attempt'[x].outcome = attempt[x].outcome, attempt'[x].status = attempt[x].status,
             attempt'[x].retry = attempt[x].retry,
             attempt'[x].recon = attempt[x].recon \/ attempt[x].status # "pos_pending"
      PROVE  AttemptGoesOn(x)
  BY <1>1, <1>5, <1>6, <1>7 DEF Attempted, AttemptSent, AttemptGoesOn
<1>8. ASSUME NEW x \in Attempted, attempt'[x] = attempt[x] PROVE AttemptGoesOn(x)
  BY <1>7, <1>8
<1>9. ASSUME NEW x, Successful(attempt'[x]) PROVE AttemptGoesOn(x)
  BY <1>9 DEF Successful, AttemptGoesOn
<1>10. CASE AttemptsKept
  BY <1>1, <1>3, <1>4, <1>7, <1>8, <1>10, AttemptedIs, SentStaysSent DEF AttemptsKept,
     AttemptKept, Attempted
<1>11. CASE SyncedStep
  BY <1>1, <1>3, <1>4, <1>8, <1>9, <1>11, AttemptedIs, SentStaysSent DEF SyncedStep, Attempted
<1>12. ASSUME NEW a, NEW row, AttemptBecomes(a, row), AttemptGoesOn(a)
       PROVE  SentOnce'
  BY <1>1, <1>3, <1>4, <1>8, <1>12, AttemptedIs, SentStaysSent DEF AttemptBecomes, Attempted
<1>13. ASSUME NEW a, SuccessStep(a) PROVE SentOnce'
  <2>1. PICK row : AttemptBecomes(a, row) /\ Successful(row)
    BY <1>13 DEF SuccessStep
  <2>2. attempt'[a] = row
    BY <2>1 DEF AttemptBecomes
  <2> QED BY <1>9, <1>12, <2>1, <2>2
<1>14. ASSUME NEW a, DisownedStep(a) PROVE SentOnce'
  <2>1. PICK row : /\ AttemptBecomes(a, row)
                   /\ row.status = "fallback_pending" /\ row.outcome = "failed"
    BY <1>14 DEF DisownedStep
  <2>2. attempt'[a] = row /\ a \in disowned'
    BY <1>14, <2>1 DEF AttemptBecomes, DisownedStep
  <2>3. AttemptGoesOn(a)
    BY <2>1, <2>2 DEF AttemptGoesOn
  <2> QED BY <1>12, <2>1, <2>3
<1>15. ASSUME NEW a, NEW policy, FailedStep(a, policy) PROVE SentOnce'
  <2>1. PICK row : /\ AttemptBecomes(a, row)
                   /\ row.status = policy.status /\ row.outcome = policy.outcome
                   /\ row.retry = policy.retry /\ row.recon = policy.recon
    BY <1>15 DEF FailedStep
  <2>2. attempt'[a] = row /\ truth' = truth
    BY <1>15, <2>1 DEF AttemptBecomes, FailedStep
  <2>3. /\ policy.outcome # "not_started" /\ policy.status # "pos_pending"
        /\ policy.retry = "safe" => policy.outcome = "failed"
    BY <1>15, PolicyValues DEF FailedStep, Policy
  <2>4. policy.outcome = "failed" => Never(a)'
    BY <1>15, <2>2 DEF FailedStep, Never, Absent
  <2>5. AttemptGoesOn(a)
    BY <2>1, <2>2, <2>3, <2>4 DEF AttemptGoesOn
  <2> QED BY <1>12, <2>1, <2>5
<1>16. ASSUME NEW c \in Acts, InsertedStep(c) PROVE SentOnce'
  BY <1>1, <1>3, <1>4, <1>7, <1>8, <1>16, AttemptedIs, SentStaysSent DEF InsertedStep,
     AttemptGoesOn, Attempted
<1> QED BY <1>10, <1>11, <1>13, <1>14, <1>15, <1>16 DEF QuietStep, ForeignStep, AskedStep,
      WonStep, LostStep, ResumedStep

LEMMA StartedSent ==
    ASSUME ActionsInv, NEW c \in Acts, NEW a \in Attempted, StartedStep(c, a)
    PROVE  SentOnce'
<1>1. ActTypes /\ CallsInOrder /\ a \in Acts /\ (\A x \in Attempted : AttemptSent(x))
      /\ \A x \in Acts : CallSent(x)
  BY DEF ActionsInv, SentOnce, Attempted
<1>2. Attempted' = Attempted /\ UNCHANGED <<truth, disowned>>
  BY <1>1, AttemptedIs DEF StartedStep
<1>3. Absent(a) /\ \A x \in Acts : ~ Working(x, a)
  BY <1>1 DEF AttemptSent, StartedStep
<1>4. \A x : Absent(x)' <=> Absent(x)
  BY <1>2 DEF Absent
<1>5. actCall'[c].phase = "dispatch" /\ actCall'[c].work = a /\ \A x \in Acts \ {c} : Kept(x)
  BY DEF StartedStep, Moved
<1>6. ASSUME NEW x \in Acts \ {c}, NEW b, Working(x, b)' PROVE Working(x, b)
  BY <1>5, <1>6, KeptWork DEF Working
<1>7. ASSUME NEW x \in Attempted, x # a PROVE AttemptSent(x)'
  BY <1>1, <1>2, <1>4, <1>5, <1>6, <1>7, KeptWork DEF StartedStep, Attempted, Working, Never,
     AttemptSent
<1>8. AttemptSent(a)'
  BY <1>1, <1>3, <1>6 DEF StartedStep, AttemptSent
<1>9. ASSUME NEW x \in Acts PROVE CallSent(x)'
  BY <1>1, <1>2, <1>3, <1>4, <1>5, <1>9, KeptWork DEF CallSent, Absent
<1> QED BY <1>2, <1>7, <1>8, <1>9 DEF SentOnce

\* An answer: what the provider has done stands at the end of its history.
LEMMA AnsweredSent ==
    ASSUME ActionsInv, NEW c \in Acts, NEW answer, AnsweredStep(c, answer),
           \/ truth' = truth /\ answer \notin {"accepted", "cancelled"}
           \/ \E status : EffectStep(c, status, answer)
    PROVE  SentOnce'
<1> DEFINE w == actCall[c].work
<1>1. ActTypes /\ CallsInOrder /\ (\A x \in Attempted : AttemptSent(x))
      /\ \A x \in Acts : CallSent(x)
  BY DEF ActionsInv, SentOnce
<1>2. actCall[c].phase = "dispatch" /\ actCall[c] \in CallRows /\ w \in Attempted /\ w \in Acts
      /\ actCall[c].target \in Nat \ {0}
  BY <1>1, CallIsRow DEF AnsweredStep, CallsInOrder, CallRows, Attempted
<1>3. Attempted' = Attempted /\ disowned' = disowned /\ AttemptsKept
  BY <1>1, AttemptedIs DEF AnsweredStep
<1>4. /\ actCall'[c].phase = "save" /\ actCall'[c].work = w /\ actCall'[c].answer = answer
      /\ actCall'[c].target = actCall[c].target
      /\ \A x \in Acts \ {c} : Kept(x)
  BY DEF AnsweredStep, Moved, SameCall
<1>5. Working(c, w) /\ \A x \in Acts : Working(x, w) => x = c
  BY <1>1, <1>2 DEF Working, AttemptSent
<1>6. \/ truth' = truth
      \/ /\ answer # "rejected"
         /\ \E row \in TruthRows : /\ truth' = Append(truth, row) /\ row.by = w
                                   /\ Len(truth) = actCall[c].target
                                   /\ answer \in {"accepted", "cancelled"} => row.status = answer
  <2>1. ASSUME NEW status, EffectStep(c, status, answer)
        PROVE  /\ answer # "rejected"
               /\ \E row \in TruthRows : /\ truth' = Append(truth, row) /\ row.by = w
                                         /\ Len(truth) = actCall[c].target
                                         /\ answer \in {"accepted", "cancelled"} => row.status = answer
    BY <1>1, <1>2, <2>1, CurrentIsRow DEF CallsInOrder, EffectStep, NewTruth, TruthRows,
       CallRows, OfAppointment
  <2> QED BY <2>1
<1>7. ASSUME NEW x, x # w, Absent(x) PROVE Absent(x)'
  BY <1>1, <1>6, <1>7, AbsentStays
<1>8. ASSUME NEW x \in Acts \ {c}, NEW b, Working(x, b)' PROVE Working(x, b)
  BY <1>4, <1>8, KeptWork DEF Working
<1>9. ASSUME NEW x \in Attempted PROVE AttemptSent(x)'
  <2>1. AttemptSent(x)
    BY <1>1
  <2>2. /\ attempt'[x].status = attempt[x].status /\ attempt'[x].outcome = attempt[x].outcome
        /\ attempt'[x].retry = attempt[x].retry /\ attempt'[x].recon = attempt[x].recon
    BY <1>3 DEF AttemptsKept, AttemptKept, Attempted
  <2>3. \A b \in Acts : Working(b, x)' => Working(b, x)
    BY <1>4, <1>5, <1>8 DEF Working
  <2>4. attempt[x].outcome = "not_started" => x # w
    BY <1>2, <1>5, <2>1 DEF AttemptSent
  <2>5. Never(x) => x # w
    BY <1>2 DEF Never
  <2>6. Never(x) => Never(x)'
    BY <1>4, <1>7, <2>5, KeptWork DEF Never
  <2> QED BY <1>3, <1>7, <2>1, <2>2, <2>3, <2>4, <2>6 DEF AttemptSent
<1>10. CallSent(c)'
  <2>1. answer = "rejected" => Absent(actCall[c].work)'
    BY <1>1, <1>2, <1>4, <1>6 DEF CallSent, Absent
  <2>2. ASSUME answer \in {"accepted", "cancelled"}
        PROVE  /\ Len(truth') > actCall[c].target
               /\ truth'[actCall[c].target + 1].by = w
               /\ truth'[actCall[c].target + 1].status = answer
    <3>1. \E status : EffectStep(c, status, answer)
      BY <2>2
    <3>2. PICK row \in TruthRows : /\ truth' = Append(truth, row) /\ row.by = w
                                   /\ Len(truth) = actCall[c].target /\ row.status = answer
      BY <1>1, <1>6, <2>2, <3>1 DEF EffectStep, ActTypes
    <3>3. Len(truth') = Len(truth) + 1 /\ truth'[Len(truth) + 1] = row /\ Len(truth) \in Nat
      BY <1>1, <3>2 DEF ActTypes
    <3> QED BY <3>2, <3>3
  <2> QED BY <1>4, <2>1, <2>2 DEF CallSent
<1>11. ASSUME NEW x \in Acts \ {c} PROVE CallSent(x)'
  <2>1. CASE actCall'[x].phase \notin {"dispatch", "save"}
    BY <2>1 DEF CallSent
  <2>2. CASE actCall'[x].phase \in {"dispatch", "save"}
    <3>1. /\ actCall'[x].phase = actCall[x].phase /\ actCall'[x].work = actCall[x].work
          /\ actCall'[x].answer = actCall[x].answer /\ actCall'[x].target = actCall[x].target
          /\ actCall[x].target \in Nat
      BY <1>4, <2>2, KeptWork
    <3>2. actCall[x].work # w
      BY <1>5, <2>2, <3>1 DEF Working
    <3>3. Absent(actCall[x].work) => Absent(actCall[x].work)'
      <4>1. PICK b : b = actCall[x].work
        OBVIOUS
      <4>2. Absent(b) => Absent(b)'
        BY <1>7, <3>2, <4>1
      <4> QED BY <3>1, <4>1, <4>2 DEF Absent
    <3>4. Len(truth) > actCall[x].target =>
             /\ Len(truth') > actCall[x].target
             /\ truth'[actCall[x].target + 1] = truth[actCall[x].target + 1]
      <4>1. truth \in Seq(TruthRows)
        BY <1>1 DEF ActTypes
      <4>2. CASE truth' = truth
        BY <4>2
      <4>3. CASE \E row \in TruthRows : truth' = Append(truth, row)
        <5>1. PICK row \in TruthRows : truth' = Append(truth, row)
          BY <4>3
        <5>2. Len(truth) \in Nat
          BY <4>1
        <5>3. Len(truth') = Len(truth) + 1 /\ \A n \in 1..Len(truth) : truth'[n] = truth[n]
          BY <4>1, <5>1
        <5> QED BY <3>1, <5>2, <5>3
      <4> QED BY <1>6, <4>2, <4>3
    <3>5. CallSent(x)
      BY <1>1
    <3> QED BY <3>1, <3>3, <3>4, <3>5 DEF CallSent
  <2> QED BY <2>1, <2>2
<1> QED BY <1>3, <1>9, <1>10, <1>11 DEF SentOnce

LEMMA SentStep ==
    ASSUME ActionsInv, StepKind
    PROVE  SentOnce'
<1>1. ASSUME NEW c \in Acts, NEW answer \in {"rejected", "uncertain"}, AnsweredStep(c, answer),
             truth' = truth
      PROVE  SentOnce'
  BY <1>1, AnsweredSent
<1>2. ASSUME NEW c \in Acts, NEW status, NEW answer, EffectStep(c, status, answer)
      PROVE  SentOnce'
  BY <1>2, AnsweredSent DEF EffectStep
<1> QED BY <1>1, <1>2, StartedSent, QuietSent DEF StepKind

\* What will never be at the provider stays so, unless it is sent now.
LEMMA NeverStays ==
    ASSUME ActionsInv, StepKind, NEW x \in Acts, Never(x)
    PROVE  Never(x)' \/ \E c \in Acts : StartedStep(c, x)
<1>1. ActTypes /\ CallsInOrder
  BY DEF ActionsInv
<1>2. ASSUME NEW c \in Acts, NEW answer, AnsweredStep(c, answer),
             \/ truth' = truth
             \/ \E status : EffectStep(c, status, answer)
      PROVE  Never(x)'
  <2> DEFINE w == actCall[c].work
  <2>1. actCall[c].phase = "dispatch" /\ actCall[c] \in CallRows /\ w \in Attempted /\ w \in Acts
    BY <1>1, <1>2, CallIsRow DEF AnsweredStep, CallsInOrder, Attempted
  <2>2. x # w /\ Absent(x)
    BY <2>1 DEF Never
  <2>3. Absent(x)'
    <3>1. CASE truth' = truth
      BY <1>1, <2>2, <3>1, AbsentStays
    <3>2. ASSUME NEW status, EffectStep(c, status, answer) PROVE Absent(x)'
      BY <1>1, <2>1, <2>2, <3>2, CurrentIsRow, AbsentStays DEF CallsInOrder, EffectStep,
         NewTruth, TruthRows, CallRows, OfAppointment
    <3> QED BY <1>2, <3>1, <3>2
  <2>4. ASSUME NEW b \in Acts, actCall'[b].phase = "dispatch" PROVE actCall'[b].work # x
    BY <1>2, <2>4, KeptWork DEF AnsweredStep, Moved, Never
  <2> QED BY <2>3, <2>4 DEF Never
<1>3. ASSUME NEW c \in Acts, NEW a \in Attempted, StartedStep(c, a), a # x PROVE Never(x)'
  BY <1>3, KeptWork DEF StartedStep, Never, Absent, Moved
<1>4. SendingStands => Never(x)'
  BY SentKept DEF SendingStands
<1> QED BY <1>2, <1>3, <1>4, QuietWork DEF StepKind, EffectStep

-----------------------------------------------------------------------------
\* Slot claims.

\* The claim a reschedule replaces is the one that is confirmed.
LEMMA ReplacedIs ==
    ASSUME ConfirmedOnce
    PROVE  \/ Replaced = -1 /\ ~ \E a \in OfAppointment : slotClaim[a].state = "confirmed"
           \/ /\ Replaced \in OfAppointment /\ Replaced # -1
              /\ slotClaim[Replaced].state = "confirmed"
<1> DEFINE confirmed == {a \in OfAppointment : slotClaim[a].state = "confirmed"}
<1>1. Replaced = IF confirmed = {} THEN -1 ELSE Max(confirmed)
  BY DEF Replaced
<1>2. ASSUME NEW r \in confirmed PROVE Max(confirmed) = r
  <2>1. confirmed = {r} /\ r \in Nat
    <3>1. \A a \in confirmed : a = r
      BY <1>2 DEF ConfirmedOnce
    <3>2. r \in Nat
      <4>1. r \in OfAppointment
        OBVIOUS
      <4> HIDE DEF confirmed
      <4> QED BY <4>1, ActionConstants DEF OfAppointment
    <3> HIDE DEF confirmed
    <3> QED BY <1>2, <3>1, <3>2
  <2>2. \E x \in confirmed : \A y \in confirmed : x >= y
    BY <2>1
  <2> HIDE DEF confirmed
  <2>3. Max(confirmed) \in confirmed
    BY <2>2 DEF Max
  <2> QED BY <2>1, <2>3
<1>3. -1 \notin OfAppointment
  BY ActionConstants DEF OfAppointment
<1> QED BY <1>1, <1>2, <1>3

LEMMA CellsOfStart ==
    ASSUME NEW start \in Starts
    PROVE  Cells(start) \in SUBSET AllCells
BY DEF AllCells

\* One claim changes.
ClaimBecomes(a, row) ==
    /\ a \in OfAppointment /\ row \in ClaimRows
    /\ slotClaim' \in [OfAppointment -> ClaimRows]
    /\ slotClaim'[a] = row /\ \A x \in OfAppointment \ {a} : slotClaim'[x] = slotClaim[x]

LEMMA ClaimReplacedBy ==
    ASSUME ActTypes, NEW a \in OfAppointment, NEW row \in ClaimRows,
           slotClaim' = [slotClaim EXCEPT ![a] = row]
    PROVE  ClaimBecomes(a, row)
BY DEF ClaimBecomes, ActTypes

\* A claim's row with another state, and a released one.
LEMMA ClaimRowsOf ==
    ASSUME ActTypes, NEW a \in OfAppointment,
           NEW state \in Unreleased \cup {"none", "released", "definite_failure"}
    PROVE  /\ [slotClaim[a] EXCEPT !.state = state] \in ClaimRows
           /\ Release(a, state) \in ClaimRows /\ Release(a, state).state = state
           /\ Release(a, state).active = {} /\ Release(a, state).pending = {}
           /\ Release(a, state).replaces = slotClaim[a].replaces
           /\ [slotClaim[a] EXCEPT !.state = state].state = state
           /\ [slotClaim[a] EXCEPT !.state = state].active = slotClaim[a].active
           /\ [slotClaim[a] EXCEPT !.state = state].pending = slotClaim[a].pending
           /\ [slotClaim[a] EXCEPT !.state = state].replaces = slotClaim[a].replaces
<1>1. slotClaim[a] \in ClaimRows
  BY DEF ActTypes
<1> QED BY <1>1 DEF ClaimRows, Release

LEMMA StateBecomes ==
    ASSUME ActTypes, NEW a \in OfAppointment,
           NEW state \in Unreleased \cup {"none", "released", "definite_failure"},
           slotClaim' = [slotClaim EXCEPT ![a].state = state]
    PROVE  ClaimBecomes(a, [slotClaim[a] EXCEPT !.state = state])
<1>1. slotClaim' = [slotClaim EXCEPT ![a] = [slotClaim[a] EXCEPT !.state = state]]
  BY DEF ActTypes
<1>2. [slotClaim[a] EXCEPT !.state = state] \in ClaimRows
  BY ClaimRowsOf
<1> QED BY <1>1, <1>2, ClaimReplacedBy

(* The new claim of a reschedule takes the cells of the new time that the  *)
(* replaced claim does not hold, and waits for the others.                 *)
LEMMA NewClaimIs ==
    ASSUME ActionsInv, NEW c \in Acts, actCall[c].phase = "claim",
           actCall[c].target = appointment.version
    PROVE  /\ Replaced \in OfAppointment /\ Replaced # -1
           /\ slotClaim[Replaced].state = "confirmed"
           /\ NewSlotClaim(c) \in ClaimRows
           /\ NewSlotClaim(c).state = "claimed_pre_dispatch"
           /\ NewSlotClaim(c).replaces = Replaced
           /\ NewSlotClaim(c).active = Cells(actCall[c].start) \ slotClaim[Replaced].active
           /\ NewSlotClaim(c).pending = Cells(actCall[c].start) \cap slotClaim[Replaced].active
<1>1. actCall[c] \in CallRows /\ appointment.status # "cancelled"
  BY CallIsRow DEF ActionsInv, CallsInOrder
<1>2. /\ Replaced \in OfAppointment /\ Replaced # -1 /\ slotClaim[Replaced].state = "confirmed"
  BY <1>1, ReplacedIs DEF ActionsInv, ClaimsInOrder, ConfirmedOnce
<1>3. Cells(actCall[c].start) \in SUBSET AllCells
  BY <1>1, CellsOfStart DEF CallRows
<1> DEFINE old == Replaced
           own == slotClaim[old].active
           row == [state |-> "claimed_pre_dispatch", replaces |-> old,
                   active |-> Cells(actCall[c].start) \ own,
                   pending |-> Cells(actCall[c].start) \cap own]
<1>4. NewSlotClaim(c) = row
  BY <1>2 DEF NewSlotClaim
<1> HIDE DEF own, old
<1>5. row \in ClaimRows
  BY <1>2, <1>3 DEF ClaimRows, Unreleased, old
<1> QED BY <1>2, <1>4, <1>5 DEF own, old

(* Only attempts and the booking itself have claims, and what they were    *)
(* asked for stays.                                                        *)
LEMMA ClaimedIsAttempted ==
    ASSUME ActionsInv, NEW x \in OfAppointment, slotClaim[x].state # "none"
    PROVE  x \in Attempted \cup {0}
BY DEF ActionsInv, ClaimsInOrder, ClaimState, OfAppointment

LEMMA TargetKept ==
    ASSUME ActionsInv, StepKind, NEW x \in Attempted \cup {0}
    PROVE  Target(x)' = Target(x) /\ Target(x) \in Nat
<1>1. CASE x = 0
  BY <1>1 DEF Target
<1>2. CASE x # 0
  BY <1>2, CallsContinue DEF ActionsInv, CallsGoOn, Target, SameCall, CallRows
<1> QED BY <1>1, <1>2

\* A claim that others replace changes only by being released.
Anchored ==
    \A x \in OfAppointment : slotClaim[x].state \in {"confirmed", "released"} =>
        slotClaim'[x] = slotClaim[x] \/ slotClaim'[x].state = "released"

LEMMA OrderKept ==
    ASSUME ActionsInv, StepKind, Anchored, NEW x \in OfAppointment,
           slotClaim'[x].replaces = slotClaim[x].replaces,
           slotClaim'[x].pending \subseteq slotClaim[x].pending
    PROVE  ClaimOrder(x)'
<1> SUFFICES ASSUME slotClaim[x].replaces # -1 PROVE ClaimOrder(x)'
  BY DEF ClaimOrder
<1>1. PICK r \in OfAppointment : r = slotClaim[x].replaces
  BY DEF ActionsInv, ActTypes, ClaimRows
<1>2. /\ x \in Attempted /\ slotClaim[r].state \in {"confirmed", "released"}
      /\ Target(r) < Target(x)
      /\ HeldClaim(r) => slotClaim[x].pending \subseteq slotClaim[r].active
  BY <1>1 DEF ActionsInv, ClaimsInOrder, ClaimOrder
<1>3. r \in Attempted \cup {0}
  BY <1>2, ClaimedIsAttempted
<1>4. Target(r)' < Target(x)' /\ x \in Attempted'
  BY <1>2, <1>3, TargetKept, CallsContinue DEF ActionsInv, CallsGoOn
<1>5. slotClaim'[r].state \in {"confirmed", "released"}
  BY <1>2 DEF Anchored
<1>6. HeldClaim(r)' => slotClaim'[x].pending \subseteq slotClaim'[r].active
  BY <1>2 DEF Anchored, HeldClaim, Unreleased
<1>7. slotClaim'[x].replaces = r
  BY <1>1
<1>8. Target(slotClaim[x].replaces)' = Target(r)' /\ HeldClaim(slotClaim[x].replaces)' = HeldClaim(r)'
  BY <1>7 DEF Target, HeldClaim
<1> QED BY <1>4, <1>5, <1>6, <1>7, <1>8 DEF ClaimOrder

LEMMA CellsKept ==
    ASSUME ActionsInv, StepKind, NEW x \in Acts, HeldClaim(x),
           slotClaim'[x].replaces = slotClaim[x].replaces,
           slotClaim'[x].active \cup slotClaim'[x].pending = slotClaim[x].active \cup slotClaim[x].pending
    PROVE  ClaimCells(x)'
<1>1. slotClaim[x].replaces # -1
      /\ slotClaim[x].active \cup slotClaim[x].pending = Cells(actCall[x].start)
  BY DEF ActionsInv, ClaimsInOrder, ClaimCells
<1>2. x \in Attempted
  BY DEF ActionsInv, ClaimsInOrder, ClaimState, HeldClaim, Unreleased
<1>3. SameCall(x)
  BY <1>2, CallsContinue DEF ActionsInv, CallsGoOn
<1> QED BY <1>1, <1>3 DEF ClaimCells, SameCall, Cells

\* Time only goes on.
LEMMA AgeKept ==
    ASSUME ActionsInv, StepKind, NEW x \in OfAppointment, slotClaim'[x] = slotClaim[x]
    PROVE  ClaimAge(x)'
<1>1. ActTypes /\ CallsInOrder /\ HistoryInOrder /\ ClaimAge(x)
  BY DEF ActionsInv, ClaimsInOrder
<1>2. HistoryGoesOn /\ RowAdvances /\ disowned \subseteq disowned'
  BY <1>1, HistoryContinues, RowContinues
<1>3. appointment'.version >= appointment.version /\ appointment.version \in Nat
      /\ appointment'.version \in Nat
  BY <1>1, <1>2, RowKeeps
<1>4. /\ Len(truth') \in Nat /\ Len(truth) \in Nat /\ Len(truth') >= Len(truth)
      /\ Len(truth') # Len(truth) => Current.status # "cancelled"
      /\ Len(truth') = Len(truth) => truth' = truth
  BY <1>1, <1>2, HistoryKeeps
<1>5. Current.status = "cancelled" => Current'.status = "cancelled"
  BY <1>4 DEF Current
<1>6. CASE slotClaim[x].state \in {"confirmed", "released"}
  BY <1>1, <1>2, <1>3, <1>4, <1>5, <1>6, ClaimedIsAttempted, TargetKept DEF ClaimAge
<1>7. CASE slotClaim[x].state \notin {"confirmed", "released"}
  BY <1>7 DEF ClaimAge
<1> QED BY <1>6, <1>7

\* The claim stays as it is, and so does what its attempt says of it.
StateFits(x) ==
    \/ x \in Attempted' /\ actCall[x].op = "cancel"
    \/ /\ x \in Attempted' => x \in Attempted
       /\ x \in Attempted /\ attempt'[x].status = "pos_pending" =>
            attempt[x].status = "pos_pending" /\ attempt'[x].outcome = attempt[x].outcome
       /\ x \in Attempted /\ attempt'[x].recon = "required" => attempt[x].recon = "required"

LEMMA StateKept ==
    ASSUME ActionsInv, StepKind, NEW x \in Acts, slotClaim'[x] = slotClaim[x], StateFits(x)
    PROVE  ClaimState(x)'
<1>1. ClaimState(x) /\ Attempted \subseteq Attempted'
  BY CallsContinue DEF ActionsInv, ClaimsInOrder, CallsGoOn
<1>2. x \in Attempted' => SameCall(x)
  BY CallsContinue DEF ActionsInv, CallsGoOn
<1>3. ASSUME slotClaim[x].state = "definite_failure" PROVE Never(x)'
  BY <1>1, <1>3, NeverStays DEF ClaimState, StartedStep, Attempted, ActionsInv, CallsInOrder,
     CallRows
<1>4. x \notin Attempted' \/ actCall'[x].op = "cancel" => slotClaim[x].state = "none"
  BY <1>1, <1>2 DEF ClaimState, SameCall
<1>5. ASSUME x \in Attempted', actCall'[x].op = "reschedule"
      PROVE  /\ slotClaim[x].state # "none"
             /\ attempt'[x].status = "pos_pending" =>
                   slotClaim[x].state = IF attempt'[x].outcome = "not_started"
                                        THEN "claimed_pre_dispatch" ELSE "dispatch_started"
             /\ attempt'[x].recon = "required" => slotClaim[x].state = "reconciliation_required"
  BY <1>1, <1>2, <1>5 DEF SameCall, StateFits, ClaimState
<1> QED BY <1>3, <1>4, <1>5 DEF ClaimState

LEMMA AttemptsFit ==
    ASSUME ActTypes, NEW x \in Acts
    PROVE  /\ AttemptsKept => StateFits(x)
           /\ SyncedStep => StateFits(x)
           /\ \A a, row : AttemptBecomes(a, row) /\ a # x => StateFits(x)
           /\ \A c \in Acts : InsertedStep(c) /\ c # x => StateFits(x)
           /\ \A c \in Acts, a \in Attempted : StartedStep(c, a) /\ a # x => StateFits(x)
<1>1. ASSUME attempt'[x] = attempt[x] PROVE StateFits(x)
  BY <1>1 DEF StateFits, Attempted
<1>2. ASSUME AttemptsKept PROVE StateFits(x)
  BY <1>2, AttemptedIs DEF AttemptsKept, AttemptKept, StateFits
<1>3. ASSUME SyncedStep PROVE StateFits(x)
  BY <1>1, <1>3, AttemptedIs DEF SyncedStep, Successful, StateFits
<1>4. ASSUME NEW c \in Acts, InsertedStep(c), c # x PROVE StateFits(x)
  BY <1>1, <1>4, AttemptedIs DEF InsertedStep, StateFits
<1> QED BY <1>1, <1>2, <1>3, <1>4 DEF AttemptBecomes, StartedStep

\* A cancelled appointment stays as it is.
LEMMA CancelledStays ==
    ASSUME ActionsInv, StepKind, appointment.status = "cancelled"
    PROVE  appointment' = appointment
<1>1. ActTypes /\ HistoryInOrder /\ RowAdvances
  BY RowContinues DEF ActionsInv
<1>2. appointment.version \in Nat \ {0} /\ appointment.version <= Len(truth) /\ Len(truth) \in Nat
      /\ AgreesWithProvider(appointment)
  BY <1>1 DEF ActTypes, AppointmentRows, HistoryInOrder
<1>3. appointment.version \in 1 .. Len(truth)
  BY <1>2
<1>4. truth[appointment.version] \in TruthRows
  BY <1>1, <1>3, CurrentIsRow
<1>5. truth[appointment.version].status = "cancelled"
  BY <1>2, <1>4 DEF AgreesWithProvider, Imported, TruthRows
<1>6. appointment.version = Len(truth)
  BY <1>1, <1>3, <1>5 DEF HistoryInOrder
<1>7. appointment' # appointment => appointment'.version \in Nat
  BY <1>1 DEF RowAdvances, AppointmentRows
<1> QED BY <1>1, <1>2, <1>6, <1>7 DEF RowAdvances

LEMMA ConfirmedKept ==
    ASSUME ActionsInv, StepKind,
           \A x \in OfAppointment :
             /\ slotClaim[x].state \in {"confirmed", "released"} => slotClaim'[x] = slotClaim[x]
             /\ slotClaim'[x].state = "confirmed" => slotClaim[x].state = "confirmed"
    PROVE  ConfirmedOnce'
<1>1. ActTypes /\ CallsInOrder /\ HistoryInOrder /\ ConfirmedOnce
  BY DEF ActionsInv, ClaimsInOrder
<1>2. 0 \in OfAppointment
  BY DEF OfAppointment
<1>3. truth'[1] = truth[1]
  BY <1>1, HistoryContinues, HistoryKeeps
<1>4. appointment'.status # "cancelled" => appointment.status # "cancelled"
  BY CancelledStays
<1> QED BY <1>1, <1>2, <1>3, <1>4 DEF ConfirmedOnce, Cells

\* Claims when none changes, and when one that no other replaces does.
LEMMA ClaimsUnchanged ==
    ASSUME ActionsInv, StepKind, slotClaim' = slotClaim, \A x \in Acts : StateFits(x)
    PROVE  ClaimsInOrder'
<1>1. Anchored
  BY DEF Anchored
<1>2. ASSUME NEW x \in OfAppointment PROVE ClaimOrder(x)' /\ ClaimAge(x)'
  BY <1>1, OrderKept, AgeKept
<1>3. ASSUME NEW x \in Acts PROVE ClaimState(x)' /\ ClaimCells(x)'
  BY <1>3, StateKept, CellsKept DEF OfAppointment, ClaimCells, HeldClaim
<1>4. ConfirmedOnce'
  BY ConfirmedKept
<1> QED BY <1>2, <1>3, <1>4 DEF ClaimsInOrder

LEMMA OneClaimChanges ==
    ASSUME ActionsInv, StepKind, NEW a \in Acts, NEW row, ClaimBecomes(a, row),
           slotClaim[a].state \notin {"confirmed", "released"}, row.state # "confirmed",
           \A x \in Acts \ {a} : StateFits(x),
           Anchored => ClaimState(a)' /\ ClaimCells(a)' /\ ClaimOrder(a)' /\ ClaimAge(a)'
    PROVE  ClaimsInOrder'
<1>1. slotClaim'[a] = row /\ \A x \in OfAppointment \ {a} : slotClaim'[x] = slotClaim[x]
  BY DEF ClaimBecomes
<1>2. Anchored
  BY <1>1 DEF Anchored
<1>3. ASSUME NEW x \in OfAppointment PROVE ClaimOrder(x)' /\ ClaimAge(x)'
  BY <1>1, <1>2, OrderKept, AgeKept
<1>4. ASSUME NEW x \in Acts PROVE ClaimState(x)' /\ ClaimCells(x)'
  BY <1>1, <1>2, <1>4, StateKept, CellsKept DEF OfAppointment, ClaimCells, HeldClaim
<1>5. ConfirmedOnce'
  BY <1>1, ConfirmedKept
<1> QED BY <1>3, <1>4, <1>5 DEF ClaimsInOrder

\* The claim of a call that lost its cells to another booking.
LEMMA LostClaims ==
    ASSUME ActionsInv, StepKind, NEW c \in Acts, LostStep(c)
    PROVE  ClaimsInOrder'
<1> DEFINE row == [slotClaim[c] EXCEPT !.state = "definite_failure"]
<1>1. /\ ActTypes /\ CallsInOrder /\ HistoryInOrder /\ c \in OfAppointment
      /\ InsertedStep(c) /\ c \notin Attempted /\ Attempted' = Attempted \cup {c}
  BY AttemptedIs DEF ActionsInv, OfAppointment, LostStep, InsertedStep
<1>2. slotClaim[c].state = "none" /\ slotClaim[c].replaces = -1
  BY <1>1 DEF ActionsInv, ClaimsInOrder, ClaimState, ClaimOrder
<1>3. ClaimBecomes(c, row) /\ row.state = "definite_failure" /\ row.replaces = -1
  BY <1>1, <1>2, StateBecomes, ClaimRowsOf DEF LostStep
<1> HIDE DEF row
<1>4. slotClaim'[c] = row
  BY <1>3 DEF ClaimBecomes
<1>5. Never(c)'
  BY <1>1, UnattemptedIsAbsent, NeverStays DEF Never, Working, StartedStep, Attempted
<1>6. actCall'[c].op = "reschedule" /\ attempt'[c].status = "failed"
      /\ attempt'[c].recon = "not_required"
  BY DEF LostStep, Moved, SameCall, InsertedStep
<1>7. ClaimState(c)'
  BY <1>1, <1>3, <1>4, <1>5, <1>6 DEF ClaimState
<1>8. ClaimCells(c)' /\ ClaimOrder(c)' /\ ClaimAge(c)'
  BY <1>3, <1>4 DEF ClaimCells, HeldClaim, Unreleased, ClaimOrder, ClaimAge
<1>9. \A x \in Acts \ {c} : StateFits(x)
  BY <1>1, AttemptsFit
<1> QED BY <1>2, <1>3, <1>7, <1>8, <1>9, OneClaimChanges

\* The claim of a call that won them.
LEMMA WonClaims ==
    ASSUME ActionsInv, StepKind, NEW c \in Acts, WonStep(c)
    PROVE  ClaimsInOrder'
<1> DEFINE row == NewSlotClaim(c)
<1>1. /\ ActTypes /\ CallsInOrder /\ HistoryInOrder /\ c \in OfAppointment
      /\ InsertedStep(c) /\ c \notin Attempted /\ Attempted' = Attempted \cup {c}
      /\ actCall[c].phase = "claim" /\ actCall[c].target = appointment.version
  BY AttemptedIs DEF ActionsInv, OfAppointment, WonStep, InsertedStep
<1>2. \A x \in Acts \ {c} : StateFits(x)
  BY <1>1, AttemptsFit
<1>3. CASE actCall[c].op = "cancel"
  BY <1>1, <1>2, <1>3, ClaimsUnchanged DEF WonStep, StateFits
<1>4. CASE actCall[c].op # "cancel"
  <2>1. slotClaim[c].state = "none"
    BY <1>1 DEF ActionsInv, ClaimsInOrder, ClaimState
  <2>2. PICK r :
        /\ r \in OfAppointment /\ r # -1 /\ slotClaim[r].state = "confirmed"
        /\ row \in ClaimRows /\ row.state = "claimed_pre_dispatch" /\ row.replaces = r
        /\ row.active = Cells(actCall[c].start) \ slotClaim[r].active
        /\ row.pending = Cells(actCall[c].start) \cap slotClaim[r].active
    BY <1>1, NewClaimIs
  <2>3. slotClaim' = [slotClaim EXCEPT ![c] = row]
    BY <1>4 DEF WonStep
  <2> HIDE DEF row
  <2>4. ClaimBecomes(c, row)
    BY <1>1, <2>2, <2>3, ClaimReplacedBy
  <2>5. slotClaim'[c] = row /\ r # c /\ slotClaim'[r] = slotClaim[r]
    BY <2>1, <2>2, <2>4 DEF ClaimBecomes
  <2>6. actCall[c] \in CallRows /\ SameCall(c)
    BY <1>1, CallIsRow DEF WonStep, Moved
  <2>7. actCall'[c].op = "reschedule" /\ actCall'[c].start = actCall[c].start
        /\ actCall'[c].target = appointment.version
    BY <1>1, <1>4, <2>6 DEF SameCall, CallRows
  <2>8. attempt'[c].status = "pos_pending" /\ attempt'[c].outcome = "not_started"
        /\ attempt'[c].recon = "not_required"
    BY <1>1 DEF WonStep, InsertedStep
  <2>9. ClaimState(c)'
    BY <1>1, <2>2, <2>5, <2>7, <2>8 DEF ClaimState
  <2>10. ClaimCells(c)'
    BY <2>2, <2>5, <2>7 DEF ClaimCells, Cells
  <2>11. ClaimAge(c)'
    BY <2>2, <2>5 DEF ClaimAge
  <2>12. ClaimOrder(c)'
    <3>1. Target(r) < appointment.version
      BY <2>2 DEF ActionsInv, ClaimsInOrder, ClaimAge
    <3>2. Target(r)' = Target(r)
      BY <2>2, ClaimedIsAttempted, TargetKept
    <3>3. Target(c)' = appointment.version
      BY <2>7, ActionConstants DEF Target
    <3>4. slotClaim'[c].pending \subseteq slotClaim'[r].active
      BY <2>2, <2>5
    <3>5. PICK p : p = slotClaim'[c].replaces /\ p = r
      BY <2>2, <2>5
    <3>6. Target(slotClaim[c].replaces)' = Target(r)'
      BY <3>5 DEF Target
    <3> QED BY <1>1, <2>2, <2>5, <3>1, <3>2, <3>3, <3>4, <3>5, <3>6 DEF ClaimOrder
  <2> QED BY <1>2, <2>1, <2>2, <2>4, <2>9, <2>10, <2>11, <2>12, OneClaimChanges
<1> QED BY <1>3, <1>4

\* A claim whose cells, and what it replaces, stay.
LEMMA OneStateChanges ==
    ASSUME ActionsInv, StepKind, NEW a \in Attempted,
           NEW state \in {"dispatch_started", "reconciliation_required"},
           slotClaim' = [slotClaim EXCEPT ![a].state = state], HeldClaim(a),
           slotClaim[a].state # "confirmed",
           \A x \in Acts \ {a} : StateFits(x),
           slotClaim'[a].state = state => ClaimState(a)'
    PROVE  ClaimsInOrder'
<1> DEFINE row == [slotClaim[a] EXCEPT !.state = state]
<1>1. ActTypes /\ a \in Acts /\ a \in OfAppointment
      /\ state \in Unreleased \cup {"none", "released", "definite_failure"}
  BY DEF ActionsInv, Attempted, OfAppointment, Unreleased
<1>2. /\ ClaimBecomes(a, row) /\ row.state = state /\ row.replaces = slotClaim[a].replaces
      /\ row.active = slotClaim[a].active /\ row.pending = slotClaim[a].pending
  BY <1>1, StateBecomes, ClaimRowsOf
<1> HIDE DEF row
<1>3. slotClaim'[a] = row
  BY <1>2 DEF ClaimBecomes
<1>4. ClaimState(a)'
  BY <1>2, <1>3
<1>5. ClaimCells(a)'
  BY <1>1, <1>2, <1>3, CellsKept
<1>6. Anchored => ClaimOrder(a)'
  BY <1>1, <1>2, <1>3, OrderKept
<1>7. ClaimAge(a)'
  BY <1>2, <1>3 DEF ClaimAge
<1>8. slotClaim[a].state \notin {"confirmed", "released"} /\ row.state # "confirmed"
  BY <1>2 DEF HeldClaim, Unreleased
<1> QED BY <1>1, <1>2, <1>4, <1>5, <1>6, <1>7, <1>8, OneClaimChanges

\* A claim that is given up.
LEMMA OneClaimReleased ==
    ASSUME ActionsInv, StepKind, NEW a \in Attempted,
           NEW state \in {"released", "definite_failure"},
           slotClaim' = [slotClaim EXCEPT ![a] = Release(a, state)],
           slotClaim[a].state \notin {"confirmed", "released"},
           \A x \in Acts \ {a} : StateFits(x),
           slotClaim'[a].state = state => ClaimState(a)' /\ ClaimAge(a)'
    PROVE  ClaimsInOrder'
<1> DEFINE row == Release(a, state)
<1>1. ActTypes /\ a \in Acts /\ a \in OfAppointment
      /\ state \in Unreleased \cup {"none", "released", "definite_failure"}
  BY DEF ActionsInv, Attempted, OfAppointment
<1>2. /\ row \in ClaimRows /\ row.state = state /\ row.replaces = slotClaim[a].replaces
      /\ row.pending = {}
  BY <1>1, ClaimRowsOf
<1> HIDE DEF row
<1>3. ClaimBecomes(a, row)
  BY <1>1, <1>2, ClaimReplacedBy DEF row
<1>4. slotClaim'[a] = row
  BY <1>3 DEF ClaimBecomes
<1>5. ClaimState(a)' /\ ClaimAge(a)'
  BY <1>2, <1>4
<1>6. ClaimCells(a)'
  BY <1>2, <1>4 DEF ClaimCells, HeldClaim, Unreleased
<1>7. Anchored => ClaimOrder(a)'
  BY <1>1, <1>2, <1>4, OrderKept
<1>8. row.state # "confirmed"
  BY <1>2
<1> QED BY <1>1, <1>3, <1>5, <1>6, <1>7, <1>8, OneClaimChanges

\* What is known of an attempt that is under way, and of one in question.
LEMMA ClaimOfAttempt ==
    ASSUME ActionsInv, StepKind, NEW a \in Attempted
    PROVE  /\ a \in Acts /\ a \in Attempted' /\ SameCall(a)
           /\ actCall[a].op \in {"reschedule", "cancel"} /\ actCall'[a].op = actCall[a].op
           /\ actCall[a].op = "reschedule" =>
                /\ attempt[a].status = "pos_pending" =>
                     slotClaim[a].state = IF attempt[a].outcome = "not_started"
                                          THEN "claimed_pre_dispatch" ELSE "dispatch_started"
                /\ attempt[a].recon = "required" =>
                     slotClaim[a].state = "reconciliation_required"
           /\ attempt[a].status = "pos_pending" => attempt[a].recon = "not_required"
<1>1. a \in Acts /\ a \in Attempted' /\ SameCall(a)
  BY CallsContinue DEF ActionsInv, CallsGoOn, Attempted
<1>2. actCall[a].op \in {"reschedule", "cancel"} /\ actCall'[a].op = actCall[a].op
  BY <1>1 DEF SameCall, CallRows
<1> QED BY <1>1, <1>2 DEF ActionsInv, ClaimsInOrder, ClaimState, SentOnce, AttemptSent

LEMMA StartedClaims ==
    ASSUME ActionsInv, StepKind, NEW c \in Acts, NEW a \in Attempted, StartedStep(c, a)
    PROVE  ClaimsInOrder'
<1>1. \A x \in Acts \ {a} : StateFits(x)
  BY AttemptsFit DEF ActionsInv
<1>2. CASE actCall[a].op = "cancel"
  BY <1>1, <1>2, ClaimOfAttempt, ClaimsUnchanged DEF StartedStep, StateFits
<1>3. CASE actCall[a].op # "cancel"
  <2>1. /\ slotClaim' = [slotClaim EXCEPT ![a].state = "dispatch_started"]
        /\ attempt'[a].status = "pos_pending" /\ attempt'[a].outcome = "in_flight"
        /\ attempt'[a].recon = attempt[a].recon
    BY <1>3 DEF StartedStep
  <2>2. slotClaim[a].state = "claimed_pre_dispatch" /\ attempt[a].recon = "not_required"
    BY <1>3, ClaimOfAttempt DEF StartedStep
  <2>3. HeldClaim(a)
    BY <2>2 DEF HeldClaim, Unreleased
  <2>4. slotClaim'[a].state = "dispatch_started" => ClaimState(a)'
    BY <1>3, <2>1, <2>2, ClaimOfAttempt DEF ClaimState
  <2> QED BY <1>1, <2>1, <2>2, <2>3, <2>4, OneStateChanges
<1> QED BY <1>2, <1>3

LEMMA FailedClaims ==
    ASSUME ActionsInv, StepKind, NEW a, NEW policy, FailedStep(a, policy)
    PROVE  ClaimsInOrder'
<1>1. PICK row : /\ AttemptBecomes(a, row) /\ row.status = policy.status
                 /\ row.outcome = policy.outcome /\ row.retry = policy.retry
                 /\ row.recon = policy.recon
  BY DEF FailedStep
<1>2. a \in Attempted /\ attempt'[a] = row /\ attempt[a].status = "pos_pending"
      /\ slotClaim' = FallbackClaims(a, policy)
  BY <1>1 DEF AttemptBecomes, FailedStep
<1>3. \A x \in Acts \ {a} : StateFits(x)
  BY <1>1, AttemptsFit DEF ActionsInv
<1>4. CASE actCall[a].op = "cancel"
  BY <1>2, <1>3, <1>4, ClaimOfAttempt, ClaimsUnchanged DEF FallbackClaims, StateFits
<1>5. CASE actCall[a].op # "cancel"
  <2>1. /\ slotClaim[a].state \in {"claimed_pre_dispatch", "dispatch_started"}
        /\ a \in Acts /\ a \in Attempted' /\ actCall'[a].op = "reschedule"
    BY <1>2, <1>5, ClaimOfAttempt
  <2>2. policy.status \in {"fallback_pending", "provider_pending"}
        /\ policy.recon \in {"required", "not_required"}
        /\ (policy.outcome = "failed" /\ policy.recon # "required") = (policy.recon # "required")
    BY PolicyValues DEF FailedStep, Policy
  <2>3. CASE policy.outcome = "failed" /\ policy.recon # "required"
    BY <1>1, <1>2, <1>3, <1>5, <2>1, <2>2, <2>3, OneClaimReleased DEF FallbackClaims,
       FailedStep, Never, Absent, ClaimState, ClaimAge
  <2>4. CASE ~ (policy.outcome = "failed" /\ policy.recon # "required")
    BY <1>1, <1>2, <1>3, <1>5, <2>1, <2>2, <2>4, OneStateChanges DEF FallbackClaims, HeldClaim,
       Unreleased, ClaimState
  <2> QED BY <2>3, <2>4
<1> QED BY <1>4, <1>5

LEMMA DisownedClaims ==
    ASSUME ActionsInv, StepKind, NEW a, DisownedStep(a)
    PROVE  ClaimsInOrder'
<1>1. PICK row : /\ AttemptBecomes(a, row) /\ row.status = "fallback_pending"
                 /\ row.recon = "resolved"
  BY DEF DisownedStep
<1>2. a \in Attempted /\ attempt'[a] = row /\ attempt[a].recon = "required" /\ a \in disowned'
  BY <1>1 DEF AttemptBecomes, DisownedStep
<1>3. \A x \in Acts \ {a} : StateFits(x)
  BY <1>1, AttemptsFit DEF ActionsInv
<1>4. CASE actCall[a].op = "cancel"
  BY <1>2, <1>3, <1>4, ClaimOfAttempt, ClaimsUnchanged DEF DisownedStep, StateFits
<1>5. CASE actCall[a].op # "cancel"
  BY <1>1, <1>2, <1>3, <1>5, ClaimOfAttempt, OneClaimReleased DEF DisownedStep, ClaimState,
     ClaimAge
<1> QED BY <1>4, <1>5

\* The confirmed claim is released when another act has taken its place.
LEMMA ReleasedFits ==
    ASSUME ActionsInv, StepKind, NEW r \in OfAppointment, slotClaim[r].state = "confirmed",
           slotClaim'[r].state = "released", slotClaim'[r].pending = {},
           slotClaim'[r].replaces = slotClaim[r].replaces, Anchored,
           r \in Acts => attempt'[r] = attempt[r],
           \/ Current'.status = "cancelled"
           \/ Len(truth') > Target(r) + 1
    PROVE  ClaimOrder(r)' /\ ClaimAge(r)' /\ (r \in Acts => ClaimState(r)' /\ ClaimCells(r)')
<1>1. ClaimOrder(r)'
  BY OrderKept
<1>2. r \in Attempted \cup {0} /\ Target(r)' = Target(r)
  BY ClaimedIsAttempted, TargetKept
<1>3. ClaimAge(r)'
  BY <1>2 DEF ClaimAge
<1>4. ASSUME r \in Acts PROVE ClaimState(r)' /\ ClaimCells(r)'
  BY <1>2, <1>4, ActionConstants, ClaimOfAttempt DEF ActionsInv, ClaimsInOrder, ClaimState,
     ClaimCells, HeldClaim, Unreleased
<1> QED BY <1>1, <1>3, <1>4

(* What a success says: the row is newer than what the act was asked for,  *)
(* and a row that is cancelled is the last version.                        *)
LEMMA SuccessIsOfRow ==
    ASSUME ActionsInv, StepKind, NEW a, SuccessStep(a)
    PROVE  /\ a \in Attempted /\ a \in Acts /\ truth' = truth /\ disowned' = disowned
           /\ Len(truth) \in Nat
           /\ appointment'.version \in Nat /\ appointment'.version > Target(a)
           /\ appointment'.version <= Len(truth) /\ Target(a) \in Nat /\ Target(a)' = Target(a)
           /\ appointment'.status = "cancelled" <=> actCall[a].op = "cancel"
           /\ appointment'.status = "cancelled" => Current'.status = "cancelled"
           /\ attempt'[a].status \in {"rescheduled", "cancelled"}
           /\ attempt'[a].recon \in {"not_required", "resolved"}
           /\ \A x \in Acts \ {a} : attempt'[x] = attempt[x] /\ StateFits(x)
<1>1. PICK row : AttemptBecomes(a, row) /\ Successful(row)
  BY DEF SuccessStep
<1>2. a \in Attempted /\ a \in Acts /\ attempt'[a] = row
      /\ \A x \in Acts \ {a} : attempt'[x] = attempt[x]
  BY <1>1 DEF AttemptBecomes, Attempted
<1>3. \A x \in Acts \ {a} : StateFits(x)
  BY <1>1, AttemptsFit DEF ActionsInv
<1>4. /\ ActTypes /\ CallsInOrder /\ HistoryInOrder /\ RowAdvances /\ HistoryGoesOn
      /\ truth' = truth /\ disowned' = disowned /\ Proves(appointment', a)
  BY HistoryContinues DEF ActionsInv, SuccessStep
<1>5. /\ appointment' \in AppointmentRows /\ appointment'.version \in Nat \ {0}
      /\ appointment'.version <= Len(truth) /\ AgreesWithProvider(appointment')
  BY <1>4, RowKeeps
<1>6. Target(a) = actCall[a].target /\ Target(a) \in Nat /\ Target(a)' = Target(a)
  BY <1>2, ActionConstants, TargetKept DEF Target
<1>7. appointment'.version > Target(a)
  BY <1>4, <1>6 DEF Proves
<1>8. appointment'.status = "cancelled" <=> actCall[a].op = "cancel"
  BY <1>2, <1>4, ClaimOfAttempt DEF Proves, ActiveStatuses
<1>9. ASSUME appointment'.status = "cancelled" PROVE Current'.status = "cancelled"
  BY <1>4, <1>5, <1>9, CurrentIsRow DEF ActTypes, AgreesWithProvider, Imported, TruthRows,
     HistoryInOrder, Current
<1>10. Len(truth) \in Nat
  BY <1>4 DEF ActTypes
<1> QED BY <1>1, <1>2, <1>3, <1>4, <1>5, <1>6, <1>7, <1>8, <1>9, <1>10 DEF Successful

\* A cancellation releases the confirmed claim.
LEMMA CancelClaims ==
    ASSUME ActionsInv, StepKind, NEW a, SuccessStep(a), actCall[a].op = "cancel"
    PROVE  /\ ClaimsInOrder'
           /\ \E r \in OfAppointment, row \in ClaimRows : ClaimBecomes(r, row) /\ row.active = {}
<1>1. PICK r : r = Replaced
  OBVIOUS
<1>2. r \in OfAppointment /\ slotClaim[r].state = "confirmed"
  BY <1>1, ReplacedIs DEF SuccessStep, ClaimsAgree, ActionsInv, ClaimsInOrder
<1>3. slotClaim' = [slotClaim EXCEPT ![r] = Release(r, "released")]
  BY <1>1 DEF SuccessStep, ClaimsAfter
<1>4. PICK row : row = Release(r, "released")
  OBVIOUS
<1>5. /\ row \in ClaimRows /\ row.state = "released" /\ row.replaces = slotClaim[r].replaces
      /\ row.pending = {} /\ row.active = {}
  BY <1>2, <1>4, ClaimRowsOf DEF ActionsInv
<1>6. ClaimBecomes(r, row)
  BY <1>2, <1>3, <1>4, <1>5, ClaimReplacedBy DEF ActionsInv
<1>7. slotClaim'[r] = row /\ \A x \in OfAppointment \ {r} : slotClaim'[x] = slotClaim[x]
  BY <1>6 DEF ClaimBecomes
<1>8. Anchored
  BY <1>5, <1>7 DEF Anchored
<1>9. a \in Acts /\ a \in Attempted /\ StateFits(a) /\ \A x \in Acts : StateFits(x)
  BY SuccessIsOfRow, ClaimOfAttempt DEF StateFits
<1>10. r # a
  BY <1>2, <1>9 DEF ActionsInv, ClaimsInOrder, ClaimState
<1>11. Current'.status = "cancelled" /\ (r \in Acts => attempt'[r] = attempt[r])
       /\ appointment'.status = "cancelled"
  BY <1>10, SuccessIsOfRow
<1>12. ClaimOrder(r)' /\ ClaimAge(r)' /\ (r \in Acts => ClaimState(r)' /\ ClaimCells(r)')
  BY <1>2, <1>5, <1>7, <1>8, <1>11, ReleasedFits
<1>13. ASSUME NEW x \in OfAppointment, x # r
       PROVE ClaimOrder(x)' /\ ClaimAge(x)' /\ (x \in Acts => ClaimState(x)' /\ ClaimCells(x)')
  BY <1>7, <1>8, <1>9, <1>13, OrderKept, AgeKept, StateKept, CellsKept DEF ClaimCells, HeldClaim
<1>14. ConfirmedOnce'
  BY <1>2, <1>5, <1>7, <1>11 DEF ActionsInv, ClaimsInOrder, OfAppointment, ConfirmedOnce
<1>15. \A x \in Acts : x \in OfAppointment
  BY DEF OfAppointment
<1> QED BY <1>2, <1>5, <1>6, <1>12, <1>13, <1>14, <1>15 DEF ClaimsInOrder

\* A reschedule takes over the cells it shares with the claim it replaces.
TakesOver(a, r) ==
    /\ a \in Acts /\ r \in OfAppointment /\ a # r
    /\ slotClaim' \in [OfAppointment -> ClaimRows]
    /\ HeldClaim(a) /\ slotClaim[a].state # "confirmed" /\ slotClaim[a].replaces = r
    /\ slotClaim[r].state = "confirmed" /\ slotClaim[a].pending \subseteq slotClaim[r].active
    /\ slotClaim'[a].state = "confirmed" /\ slotClaim'[a].pending = {}
    /\ slotClaim'[a].replaces = r
    /\ slotClaim'[a].active = slotClaim[a].active \cup slotClaim[a].pending
    /\ slotClaim'[r].state = "released" /\ slotClaim'[r].pending = {}
    /\ slotClaim'[r].active = {} /\ slotClaim'[r].replaces = slotClaim[r].replaces
    /\ \A x \in OfAppointment \ {a, r} : slotClaim'[x] = slotClaim[x]

LEMMA SuccessTakesOver ==
    ASSUME ActionsInv, StepKind, NEW a, SuccessStep(a), actCall[a].op # "cancel"
    PROVE  \E r : TakesOver(a, r) /\ Target(r) < Target(a) /\ Target(r) \in Nat
<1>1. a \in Acts /\ a \in Attempted /\ a \in OfAppointment /\ slotClaim[a] \in ClaimRows /\ ActTypes
  BY SuccessIsOfRow DEF OfAppointment, ActionsInv, ActTypes
<1>2. slotClaim' = Confirmed(a) /\ CanConfirm(a)
  BY DEF SuccessStep, ClaimsAgree, ClaimsAfter
<1>3. HeldClaim(a) /\ slotClaim[a].state # "confirmed"
  BY <1>2 DEF CanConfirm, HeldClaim, Unreleased
<1>4. slotClaim[a].replaces # -1
  BY <1>1, <1>3 DEF ActionsInv, ClaimsInOrder, ClaimCells
<1>5. PICK r : r \in OfAppointment /\ r = slotClaim[a].replaces
  BY <1>1, <1>4 DEF ClaimRows
<1>6. HeldClaim(r)
  BY <1>2, <1>4, <1>5 DEF CanConfirm
<1>7. /\ slotClaim[r].state \in {"confirmed", "released"} /\ Target(r) < Target(a)
      /\ slotClaim[a].pending \subseteq slotClaim[r].active
  BY <1>1, <1>4, <1>5, <1>6 DEF ActionsInv, ClaimsInOrder, ClaimOrder
<1>8. slotClaim[r].state = "confirmed" /\ r # a
  BY <1>3, <1>6, <1>7 DEF HeldClaim, Unreleased
<1>9. PICK row : row = [slotClaim[a] EXCEPT !.state = "confirmed", !.pending = {},
                                            !.active = @ \cup slotClaim[a].pending]
  OBVIOUS
<1>10. /\ row \in ClaimRows /\ row.state = "confirmed" /\ row.pending = {}
       /\ row.replaces = r /\ row.active = slotClaim[a].active \cup slotClaim[a].pending
  BY <1>1, <1>5, <1>9 DEF Unreleased, ClaimRows
<1>11. PICK old : old = Release(r, "released")
  OBVIOUS
<1>12. /\ old \in ClaimRows /\ old.state = "released" /\ old.replaces = slotClaim[r].replaces
       /\ old.pending = {} /\ old.active = {}
  BY <1>1, <1>5, <1>11, ClaimRowsOf
<1>13. slotClaim' = [b \in OfAppointment |-> IF b = a THEN row ELSE IF b = r THEN old
                                           ELSE slotClaim[b]]
  BY <1>2, <1>5, <1>9, <1>11 DEF Confirmed
<1>14. slotClaim'[a] = row /\ slotClaim'[r] = old
       /\ \A x \in OfAppointment \ {a, r} : slotClaim'[x] = slotClaim[x]
  BY <1>1, <1>5, <1>8, <1>13
<1>15. slotClaim' \in [OfAppointment -> ClaimRows]
  BY <1>1, <1>10, <1>12, <1>13 DEF ActTypes
<1>16. TakesOver(a, r)
  BY <1>1, <1>3, <1>5, <1>7, <1>8, <1>10, <1>12, <1>14, <1>15 DEF TakesOver
<1>17. Target(r) \in Nat
  BY <1>5, <1>8, ClaimedIsAttempted, TargetKept
<1> QED BY <1>7, <1>16, <1>17

LEMMA RescheduleClaims ==
    ASSUME ActionsInv, StepKind, NEW a, SuccessStep(a), NEW r, TakesOver(a, r),
           Target(r) < Target(a), Target(r) \in Nat
    PROVE  ClaimsInOrder'
<1>1. a \in Attempted /\ a \in Acts /\ a \in OfAppointment /\ r \in OfAppointment /\ a # r
  BY SuccessIsOfRow DEF OfAppointment, TakesOver
<1>2. Anchored
  BY DEF Anchored, TakesOver, HeldClaim, Unreleased
<1>3. actCall[a].op = "reschedule" /\ actCall'[a].op = "reschedule" /\ a \in Attempted'
  BY <1>1, ClaimOfAttempt DEF TakesOver, HeldClaim, Unreleased, ActionsInv, ClaimsInOrder,
     ClaimState
<1>4. ClaimState(a)' /\ ClaimCells(a)' /\ ClaimOrder(a)' /\ ClaimAge(a)'
  BY <1>1, <1>2, <1>3, SuccessIsOfRow, CellsKept, OrderKept DEF ClaimState, TakesOver, ClaimAge
<1>5. ClaimOrder(r)' /\ ClaimAge(r)' /\ (r \in Acts => ClaimState(r)' /\ ClaimCells(r)')
  BY <1>1, <1>2, SuccessIsOfRow, ReleasedFits DEF TakesOver
<1>6. ASSUME NEW x \in OfAppointment, x # r, x # a
      PROVE ClaimOrder(x)' /\ ClaimAge(x)' /\ (x \in Acts => ClaimState(x)' /\ ClaimCells(x)')
  BY <1>2, <1>6, OrderKept, AgeKept, StateKept, SuccessIsOfRow, CellsKept DEF TakesOver,
     ClaimCells, HeldClaim
<1>7. ConfirmedOnce'
  BY <1>1, ActionConstants DEF ActionsInv, ClaimsInOrder, OfAppointment, ConfirmedOnce,
     TakesOver
<1>8. \A x \in Acts : x \in OfAppointment
  BY DEF OfAppointment
<1> QED BY <1>4, <1>5, <1>6, <1>7, <1>8 DEF ClaimsInOrder

LEMMA ClaimsStep ==
    ASSUME ActionsInv, StepKind
    PROVE  ClaimsInOrder'
<1>1. ActTypes
  BY DEF ActionsInv
<1>2. ASSUME slotClaim' = slotClaim, AttemptsKept \/ SyncedStep PROVE ClaimsInOrder'
  BY <1>1, <1>2, AttemptsFit, ClaimsUnchanged
<1>3. CASE QuietStep \/ SyncedStep \/ ForeignStep
  BY <1>2, <1>3 DEF QuietStep, SyncedStep, ForeignStep, Others
<1>4. ASSUME NEW c \in Acts,
             \/ AskedStep(c) \/ \E a \in Attempted : ResumedStep(c, a)
             \/ \E answer : AnsweredStep(c, answer)
      PROVE  ClaimsInOrder'
  BY <1>2, <1>4 DEF AskedStep, ResumedStep, AnsweredStep, Others
<1>5. ASSUME NEW c \in Acts, NEW status, NEW answer, EffectStep(c, status, answer)
      PROVE  ClaimsInOrder'
  BY <1>4, <1>5 DEF EffectStep
<1>6. ASSUME NEW a, SuccessStep(a) PROVE ClaimsInOrder'
  BY <1>6, CancelClaims, SuccessTakesOver, RescheduleClaims
<1> QED BY <1>3, <1>4, <1>5, <1>6, WonClaims, LostClaims, StartedClaims, FailedClaims, DisownedClaims
        DEF StepKind

-----------------------------------------------------------------------------
\* Cells.

(* No claim gains cells, one gets cells that are free, or one takes them   *)
(* over from the claim it replaces.                                        *)
LosesCells ==
    /\ slotClaim' \in [OfAppointment -> ClaimRows]
    /\ \A x \in OfAppointment : slotClaim'[x].active \subseteq slotClaim[x].active
TakesFreeCells(c) ==
    /\ slotClaim' \in [OfAppointment -> ClaimRows] /\ c \in OfAppointment
    /\ slotClaim'[c].active \cap rival = {}
    /\ \A x \in OfAppointment \ {c} :
         slotClaim'[x] = slotClaim[x] /\ slotClaim'[c].active \cap slotClaim[x].active = {}
CellsMove ==
    LosesCells \/ (\E c : TakesFreeCells(c)) \/ \E a, r : TakesOver(a, r)

LEMMA SmallerClaim ==
    ASSUME NEW a, NEW row, ClaimBecomes(a, row), row.active \subseteq slotClaim[a].active
    PROVE  LosesCells
BY DEF ClaimBecomes, LosesCells

LEMMA WonCells ==
    ASSUME ActionsInv, NEW c \in Acts, WonStep(c)
    PROVE  CellsMove
<1>1. c \in OfAppointment /\ ActTypes
  BY DEF OfAppointment, ActionsInv
<1>2. CASE actCall[c].op = "cancel"
  BY <1>1, <1>2 DEF WonStep, CellsMove, LosesCells, ActTypes
<1>3. CASE actCall[c].op # "cancel"
  <2>1. actCall[c].phase = "claim" /\ actCall[c].target = appointment.version
        /\ ~ SlotConflict(c) /\ slotClaim' = [slotClaim EXCEPT ![c] = NewSlotClaim(c)]
    BY <1>3 DEF WonStep, InsertedStep
  <2>2. PICK r : r = Replaced
    OBVIOUS
  <2>3. PICK row : row = NewSlotClaim(c)
    OBVIOUS
  <2>4. row \in ClaimRows /\ row.active = Cells(actCall[c].start) \ slotClaim[r].active
    BY <2>1, <2>2, <2>3, NewClaimIs
  <2>5. ClaimBecomes(c, row)
    BY <1>1, <2>1, <2>3, <2>4, ClaimReplacedBy
  <2>6. Cells(actCall[c].start) \cap (rival \cup ActiveCells(OfAppointment \ {r})) = {}
    BY <2>1, <2>2 DEF SlotConflict
  <2>7. \A x \in OfAppointment \ {r} : slotClaim[x].active \subseteq ActiveCells(OfAppointment \ {r})
    BY DEF ActiveCells
  <2>8. \A x \in OfAppointment : row.active \cap slotClaim[x].active = {}
    BY <2>4, <2>6, <2>7
  <2>9. row.active \cap rival = {}
    BY <2>4, <2>6
  <2>10. TakesFreeCells(c)
    BY <1>1, <2>5, <2>8, <2>9 DEF TakesFreeCells, ClaimBecomes
  <2> QED BY <2>10 DEF CellsMove
<1> QED BY <1>2, <1>3

LEMMA CellsMoveStep ==
    ASSUME ActionsInv, StepKind
    PROVE  CellsMove
<1>1. ActTypes /\ \A x \in Acts : x \in OfAppointment
  BY DEF ActionsInv, OfAppointment
<1>2. ASSUME slotClaim' = slotClaim PROVE CellsMove
  BY <1>1, <1>2 DEF CellsMove, LosesCells, ActTypes
<1>3. ASSUME NEW a \in Acts,
             NEW state \in Unreleased \cup {"none", "released", "definite_failure"},
             \/ slotClaim' = [slotClaim EXCEPT ![a].state = state]
             \/ slotClaim' = [slotClaim EXCEPT ![a] = Release(a, state)]
      PROVE  CellsMove
  <2>1. CASE slotClaim' = [slotClaim EXCEPT ![a].state = state]
    <3>1. PICK row : row = [slotClaim[a] EXCEPT !.state = state]
      OBVIOUS
    <3>2. ClaimBecomes(a, row) /\ row.active = slotClaim[a].active
      BY <1>1, <2>1, <3>1, StateBecomes, ClaimRowsOf
    <3> QED BY <3>2, SmallerClaim DEF CellsMove
  <2>2. CASE slotClaim' = [slotClaim EXCEPT ![a] = Release(a, state)]
    <3>1. PICK row : row = Release(a, state)
      OBVIOUS
    <3>2. row \in ClaimRows /\ row.active = {}
      BY <1>1, <3>1, ClaimRowsOf
    <3>3. ClaimBecomes(a, row)
      BY <1>1, <2>2, <3>1, <3>2, ClaimReplacedBy
    <3> QED BY <3>2, <3>3, SmallerClaim DEF CellsMove
  <2> QED BY <1>3, <2>1, <2>2
<1>4. CASE QuietStep \/ SyncedStep \/ ForeignStep
  BY <1>2, <1>4 DEF QuietStep, SyncedStep, ForeignStep, Others
<1>5. ASSUME NEW c \in Acts,
             \/ AskedStep(c) \/ \E a \in Attempted : ResumedStep(c, a)
             \/ \E answer : AnsweredStep(c, answer)
      PROVE  CellsMove
  BY <1>2, <1>5 DEF AskedStep, ResumedStep, AnsweredStep, Others
<1>6. ASSUME NEW c \in Acts, NEW status, NEW answer, EffectStep(c, status, answer)
      PROVE  CellsMove
  BY <1>5, <1>6 DEF EffectStep
<1>7. ASSUME NEW c \in Acts, LostStep(c) PROVE CellsMove
  BY <1>3, <1>7 DEF LostStep
<1>8. ASSUME NEW c \in Acts, NEW a \in Attempted, StartedStep(c, a) PROVE CellsMove
  BY <1>2, <1>3, <1>8 DEF StartedStep, Attempted, Unreleased
<1>9. ASSUME NEW a, NEW policy, FailedStep(a, policy) PROVE CellsMove
  BY <1>2, <1>3, <1>9 DEF FailedStep, AttemptBecomes, Attempted, FallbackClaims, Unreleased
<1>10. ASSUME NEW a, DisownedStep(a) PROVE CellsMove
  BY <1>2, <1>3, <1>10 DEF DisownedStep, AttemptBecomes, Attempted
<1>11. ASSUME NEW a, SuccessStep(a) PROVE CellsMove
  <2>1. CASE actCall[a].op = "cancel"
    <3>1. PICK r \in OfAppointment, row \in ClaimRows : ClaimBecomes(r, row) /\ row.active = {}
      BY <1>11, <2>1, CancelClaims
    <3> QED BY <3>1, SmallerClaim DEF CellsMove
  <2>2. CASE actCall[a].op # "cancel"
    BY <1>11, <2>2, SuccessTakesOver DEF CellsMove
  <2> QED BY <2>1, <2>2
<1> QED BY <1>4, <1>5, <1>6, <1>7, <1>8, <1>9, <1>10, <1>11, WonCells DEF StepKind

LEMMA TypesStep ==
    ASSUME ActionsInv, StepKind
    PROVE  ActTypes'
<1>1. ActTypes /\ CallsInOrder /\ HistoryInOrder
  BY DEF ActionsInv
<1>2. CallsGoOn /\ HistoryGoesOn /\ RowAdvances /\ disowned' \subseteq Acts
  BY <1>1, CallsContinue, HistoryContinues, RowContinues
<1>3. slotClaim' \in [OfAppointment -> ClaimRows]
  BY CellsMoveStep DEF CellsMove, LosesCells, TakesFreeCells, TakesOver
<1>4. appointment' \in AppointmentRows
  BY <1>1, <1>2, RowKeeps
<1>5. truth' \in Seq(TruthRows) /\ Len(truth') \in 1 .. MaxVersion
  BY <1>1, <1>2, ActionConstants DEF ActTypes, HistoryGoesOn
<1> QED BY <1>2, <1>3, <1>4, <1>5 DEF ActTypes, CallsGoOn

\* What other bookings hold changes only in their own steps.
RivalStep ==
    \/ rival' = rival
    \/ /\ slotClaim' = slotClaim
       /\ rival' \cap ActiveCells(OfAppointment) \subseteq rival \cap ActiveCells(OfAppointment)

LEMMA RivalSteps ==
    ASSUME [ActionsNext]_actionVars
    PROVE  RivalStep
<1>1. ASSUME NEW cell, RivalClaims(cell) \/ RivalReleases(cell) PROVE RivalStep
  BY <1>1 DEF RivalClaims, RivalReleases, RivalStep
<1>2. ASSUME NEW c \in Acts,
             \/ \E key \in ActKeys, t \in Acts \cup {0} :
                  \/ \E start \in Starts : BeginReschedule(c, start, key, t)
                  \/ BeginCancel(c, key, t)
             \/ ResumeAction(c) \/ InsertAction(c) \/ InsertLoser(c) \/ ClaimDenied(c)
             \/ MarkStarted(c) \/ Dispatch(c) \/ SaveSuccess(c) \/ SaveFallback(c)
             \/ Abandon(c)
             \/ LeaseEnds(c) \/ ExpireLease(c)
             \/ ResolveNotCreated(c) \/ ResolveEscalated(c) \/ ResolveAttached(c)
      PROVE  rival' = rival
  BY <1>2 DEF BeginReschedule, BeginCancel, Asks, ResumeAction, InsertAction, InsertLoser,
     ClaimDenied, MarkStarted, Dispatch, SaveSuccess, SaveFallback, Abandon, LeaseEnds,
     ExpireLease, ResolveNotCreated, ResolveEscalated, ResolveAttached
<1>3. ASSUME (\E v \in 1 .. MaxVersion : SyncCalendar(v)) \/ ForeignChange \/ FenceAdvances
             \/ UNCHANGED actionVars
      PROVE  rival' = rival
  BY <1>3 DEF SyncCalendar, ForeignChange, FenceAdvances, actionVars
<1> QED BY <1>1, <1>2, <1>3 DEF ActionsNext, RivalStep

LEMMA CellsStep ==
    ASSUME ActionsInv, StepKind, RivalStep
    PROVE  CellsHeldOnce'
<1>1. CellsHeldOnce /\ CellsMove /\ ActTypes
  BY CellsMoveStep DEF ActionsInv
<1> DEFINE Active(x) == slotClaim[x].active
<1>2. \A x \in OfAppointment : \A e \in Active(x) : e \in ActiveCells(OfAppointment) /\ e \notin rival
  BY <1>1 DEF CellsHeldOnce, ActiveCells
<1>3. \A x, y \in OfAppointment : x # y => Active(x) \cap Active(y) = {}
  BY <1>1 DEF CellsHeldOnce
<1>4. SUFFICES /\ \A x \in OfAppointment : \A e \in slotClaim'[x].active : e \notin rival'
               /\ \A x, y \in OfAppointment :
                    x # y => slotClaim'[x].active \cap slotClaim'[y].active = {}
  BY DEF CellsHeldOnce, ActiveCells
<1>5. CASE rival' # rival
  BY <1>1, <1>2, <1>3, <1>5 DEF RivalStep, CellsHeldOnce, ActiveCells
<1>6. CASE rival' = rival
  BY <1>1, <1>2, <1>3, <1>6 DEF LosesCells, TakesFreeCells, TakesOver, OfAppointment, CellsMove
<1> QED BY <1>5, <1>6

-----------------------------------------------------------------------------
\* The invariant holds at first, and every step keeps it.

LEMMA LeastStart == Min(Starts) \in Starts
<1>1. Starts \in SUBSET Nat /\ Starts # {}
  BY ActionConstants
<1> DEFINE Less == {pair \in Nat \X Nat : pair[1] < pair[2]}
<1>2. OpToRel(<, Nat) = Less
  BY Zenon DEF OpToRel
<1>3. \E n \in Starts : \A m \in Starts : ~ (<<m, n>> \in Less)
  <2> HIDE DEF Less
  <2> QED BY <1>1, <1>2, NatLessThanWellFounded, WFMin
<1>4. \A m, n \in Nat : <<m, n>> \in Less <=> m < n
  OBVIOUS
<1> HIDE DEF Less
<1>5. PICK n \in Starts : \A m \in Starts : ~ (<<m, n>> \in Less)
  BY <1>3
<1>6. \A m \in Starts : n <= m
  <2>1. n \in Nat /\ \A m \in Starts : m \in Nat
    BY <1>1
  <2>2. \A m \in Starts : ~ (m < n)
    BY <1>4, <1>5, <2>1
  <2> QED BY <2>1, <2>2
<1> QED BY <1>6 DEF Min

LEMMA ActionsInvInit == ActionsInit => ActionsInv
<1> SUFFICES ASSUME ActionsInit PROVE ActionsInv
  OBVIOUS
<1>1. PICK start \in Starts : start = Min(Starts)
  BY LeastStart
<1>2. /\ actCall = [c \in Acts |-> IdleCall] /\ attempt = [a \in Acts |-> NoAttempt]
      /\ appointment = [version |-> 1, status |-> "confirmed", start |-> start]
      /\ truth = <<[status |-> "accepted", start |-> start, by |-> 0]>>
      /\ rival = {} /\ disowned = {}
  BY <1>1 DEF ActionsInit
<1> DEFINE own == [NoSlotClaim EXCEPT !.state = "confirmed", !.active = Cells(start)]
<1>3. slotClaim = [a \in OfAppointment |-> IF a # 0 THEN NoSlotClaim ELSE own]
  BY <1>1 DEF ActionsInit
<1>4. /\ NoSlotClaim \in ClaimRows /\ NoSlotClaim.state = "none" /\ NoSlotClaim.active = {}
      /\ NoSlotClaim.pending = {} /\ NoSlotClaim.replaces = -1
  BY DEF NoSlotClaim, ClaimRows
<1>5. /\ own \in ClaimRows /\ own.state = "confirmed" /\ own.active = Cells(start)
      /\ own.pending = {} /\ own.replaces = -1
  BY CellsOfStart DEF NoSlotClaim, ClaimRows, Unreleased
<1> HIDE DEF own
<1>6. 0 \in OfAppointment /\ 0 \notin Acts /\ \A a \in OfAppointment : a \in Acts <=> a # 0
  BY ActionConstants DEF OfAppointment
<1>7. slotClaim[0] = own /\ \A a \in OfAppointment : a # 0 => slotClaim[a] = NoSlotClaim
  BY <1>3, <1>6
<1>8. Attempted = {} /\ \A c \in Acts : actCall[c].phase = "idle" /\ actCall[c] \notin CallRows
  BY <1>2, RowsAreNew DEF Attempted, IdleCall, NoAttempt
<1>9. /\ Len(truth) = 1 /\ truth[1].status = "accepted" /\ truth[1].start = start
      /\ truth[1].by = 0 /\ truth[1] \in TruthRows /\ truth \in Seq(TruthRows)
  BY <1>2, <1>6 DEF TruthRows
<1>10. appointment.version = 1 /\ appointment.start = start /\ appointment.status = "confirmed"
       /\ appointment \in AppointmentRows
  BY <1>2 DEF AppointmentRows
<1>11. ActTypes
  BY <1>2, <1>3, <1>4, <1>5, <1>9, <1>10, ActionConstants DEF ActTypes
<1>12. CallsInOrder /\ OneStands
  BY <1>8 DEF CallsInOrder, OneStands
<1>13. HistoryInOrder
  BY <1>6, <1>9, <1>10 DEF AgreesWithProvider, Imported, HistoryInOrder
<1>14. SentOnce
  BY <1>8 DEF SentOnce, CallSent
<1>15. ClaimsInOrder
  BY <1>4, <1>5, <1>6, <1>7, <1>8, <1>9, <1>10 DEF ClaimState, ClaimCells, HeldClaim,
     Unreleased, OfAppointment, ClaimOrder, ClaimAge, Target, ConfirmedOnce, ClaimsInOrder
<1>16. CellsHeldOnce
  BY <1>2, <1>4, <1>5, <1>7 DEF CellsHeldOnce
<1> QED BY <1>11, <1>12, <1>13, <1>14, <1>15, <1>16 DEF ActionsInv

LEMMA ActionsInvStep == ActionsInv /\ [ActionsNext]_actionVars => ActionsInv'
<1> SUFFICES ASSUME ActionsInv, [ActionsNext]_actionVars PROVE ActionsInv'
  OBVIOUS
<1>1. StepKind /\ RivalStep
  BY StepKinds, RivalSteps
<1> QED BY <1>1, TypesStep, CallsStep, HistoryStep, SentStep, OneStandsStep, ClaimsStep,
           CellsStep DEF ActionsInv

(* Moving and cancelling an appointment keep the invariant, however calls, *)
(* retries, expired leases, synchronizations, owner decisions and changes  *)
(* at the provider interleave.                                             *)
THEOREM ActionsInvariant == ActionsSpec => []ActionsInv
<1> QED BY ActionsInvInit, ActionsInvStep, PTL DEF ActionsSpec

(* The rows are always of the kinds their tables allow, and the row never  *)
(* runs ahead of the provider.                                             *)
THEOREM ActionsTypeCorrect == ActionsSpec => []ActionsTypeOK
<1>1. ActionsInv => ActionsTypeOK
  <2> SUFFICES ASSUME ActionsInv PROVE ActionsTypeOK
    OBVIOUS
  <2>1. ActTypes /\ HistoryInOrder
    BY DEF ActionsInv
  <2>2. \A a \in Attempted : attempt[a] \in AttemptRows
    BY <2>1, AttemptIsRow
  <2>3. \A a \in OfAppointment : slotClaim[a] \in ClaimRows
    BY <2>1 DEF ActTypes
  <2>4. appointment.version \in 1 .. Len(truth) /\ Len(truth) <= MaxVersion
    BY <2>1, ActionConstants DEF ActTypes, AppointmentRows, HistoryInOrder
  <2> QED BY <2>2, <2>3, <2>4 DEF ActionsTypeOK, AttemptRows, ClaimRows
<1> QED BY <1>1, ActionsInvariant, PTL

(* The claim of the act that put the appointment where the provider has it *)
(* has all its cells, alone or with the claim it replaces.                 *)
LEMMA CurrentIsClaimed ==
    ASSUME ActionsInv, Stands, ~ Overtaken(Current.by)
    PROVE  Cells(Current.start) \subseteq ActiveCells(OfAppointment)
<1> DEFINE a == Current.by
<1>1. /\ ActTypes /\ HistoryInOrder /\ ClaimsInOrder /\ Len(truth) \in Nat
      /\ Len(truth) \in 1 .. Len(truth) /\ Current \in TruthRows
  BY CurrentIsRow DEF ActionsInv, ActTypes
<1>2. a \in OfAppointment /\ a \notin disowned /\ Current.status # "cancelled"
  BY <1>1 DEF Stands, TruthRows
<1>3. \A x \in OfAppointment : slotClaim[x].active \subseteq ActiveCells(OfAppointment)
  BY DEF ActiveCells
<1>4. CASE a = 0
  BY <1>1, <1>2, <1>3, <1>4 DEF HistoryInOrder, Current, ClaimsInOrder, ClaimAge, Target,
     ConfirmedOnce
<1>5. CASE a # 0
  <2>1. a \in Acts
    BY <1>2, <1>5 DEF OfAppointment
  <2>2. /\ a \in Attempted /\ actCall[a].target + 1 = Len(truth)
        /\ Current.start = actCall[a].start /\ actCall[a].op # "cancel"
    BY <1>1, <1>2, <2>1 DEF HistoryInOrder, Current
  <2>3. actCall[a].op = "reschedule"
    BY <2>2 DEF ActionsInv, CallsInOrder, CallRows
  <2>4. /\ ClaimState(a) /\ ClaimCells(a) /\ ClaimOrder(a) /\ ClaimAge(a)
        /\ slotClaim[a] \in ClaimRows
    BY <1>1, <1>2, <2>1 DEF ClaimsInOrder, ActTypes
  <2>5. slotClaim[a].state # "definite_failure"
    BY <1>1, <2>4 DEF Absent, Current, ClaimState, Never
  <2>6. slotClaim[a].state # "released"
    BY <1>1, <1>2, <1>5, <2>2, <2>4 DEF Target, ClaimAge
  <2>7. HeldClaim(a)
    BY <2>2, <2>3, <2>4, <2>5, <2>6 DEF HeldClaim, ClaimState, ClaimRows
  <2>8. slotClaim[a].replaces # -1
        /\ slotClaim[a].active \cup slotClaim[a].pending = Cells(Current.start)
    BY <2>2, <2>4, <2>7 DEF ClaimCells
  <2>9. slotClaim[a].pending \subseteq ActiveCells(OfAppointment)
    BY <1>3, <2>4, <2>8 DEF ClaimAge, Overtaken, ClaimRows, ClaimOrder
  <2> QED BY <1>2, <1>3, <2>8, <2>9
<1> QED BY <1>4, <1>5

(* The time at which the provider really has the appointment is never free *)
(* for another booking, and no cell is ever held twice.                    *)
THEOREM ProviderSlotStaysHeld == ActionsSpec => []ProviderSlotIsHeld
<1>1. ActionsInv => ProviderSlotIsHeld
  BY CurrentIsClaimed DEF ProviderSlotIsHeld, ActionsInv, CellsHeldOnce
<1> QED BY <1>1, ActionsInvariant, PTL

(* An attempt offered for retry is not at the provider and is never sent   *)
(* again, unless an owner decided so; one attempt stands for a request.    *)
THEOREM RetriesStaySafe == ActionsSpec => []RetriesAreSafe
<1>1. ActionsInv => RetriesAreSafe
  <2> SUFFICES ASSUME ActionsInv PROVE RetriesAreSafe
    OBVIOUS
  <2>1. \A a \in Attempted : attempt[a].retry = "safe" /\ a \notin disowned => Never(a)
    BY DEF ActionsInv, SentOnce, AttemptSent
  <2> QED BY <2>1 DEF RetriesAreSafe, Never, Absent, ActionsInv, OneStands
<1> QED BY <1>1, ActionsInvariant, PTL

(* The appointment row is always some version of the provider's booking,   *)
(* and only moves to newer ones.                                           *)
THEOREM RowsFollowProvider == ActionsSpec => RowFollowsProvider
<1> DEFINE Follows == AgreesWithProvider(appointment) /\ appointment'.version >= appointment.version
<1>1. ActionsInv /\ [ActionsNext]_actionVars => [Follows]_actionVars
  <2> SUFFICES ASSUME ActionsInv, [ActionsNext]_actionVars PROVE Follows
    OBVIOUS
  <2>1. ActTypes /\ CallsInOrder /\ HistoryInOrder /\ StepKind
    BY StepKinds DEF ActionsInv
  <2>2. HistoryGoesOn /\ RowAdvances
    BY <2>1, HistoryContinues, RowContinues
  <2> QED BY <2>1, <2>2, RowKeeps DEF HistoryInOrder
<1> HIDE DEF Follows
<1>2. ActionsSpec => [][Follows]_actionVars
  BY <1>1, ActionsInvariant, PTL DEF ActionsSpec
<1> QED BY <1>2 DEF Follows, RowFollowsProvider
=============================================================================
