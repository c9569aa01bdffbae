------------------------------ MODULE MCWorkers ------------------------------
(* Work that must come to an end, on small instances: the scheduler's runs, the *)
(* owner's notifications and the booking operations. The variable part says     *)
(* which of the three a behaviour is of and the others stand at their first     *)
(* state, so the run has the sum of their states and not the product; fairness  *)
(* is asked of the part that moves.                                             *)
EXTENDS JobLease

CONSTANTS w1, w2,
          Notifications, ActionKeys, MaxSafeDeliveryAttempts, BatchLimit, MaxCrashes,
          Calls, Keys, Requests, Overlaps, NewStatuses, MaxEpoch, None, Import

VARIABLES part,
          nStatus, code, attempts, requeues, due, nToken, nLive, dispatched, msg, rank,
          redacted, cycleBase, ledger, actions, events, nPhase, expired, batch, cur, nResp,
          twilio, crashes,
          bStatus, outcome, retry, recon, bToken, bLive, superseded, booking, task, claim,
          key, request, retryOf, quote, bPhase, work, bResp, appt, owner, prov, seen, epoch,
          sent, attested

noticeVars == <<nStatus, code, attempts, requeues, due, nToken, nLive, dispatched, msg, rank,
                redacted, cycleBase, ledger, actions, events, nPhase, expired, batch, cur,
                nResp, twilio, crashes>>
bookVars == <<bStatus, outcome, retry, recon, bToken, bLive, superseded, booking, task, claim,
              key, request, retryOf, quote, bPhase, work, bResp, appt, owner, prov, seen,
              epoch, sent, attested>>

D == INSTANCE NotificationDelivery
         WITH status <- nStatus, token <- nToken, live <- nLive, phase <- nPhase, resp <- nResp
B == INSTANCE ExternalBooking
         WITH status <- bStatus, token <- bToken, live <- bLive, phase <- bPhase, resp <- bResp

\* A second replica whose clock is one unit ahead.
FastSecond == [w \in Workers |-> IF w = w2 THEN 1 ELSE 0]
AllOverlap == Requests \X Requests

\* Keys are alike: the first call's is any, and the second's the same or another.
FirstCall == CHOOSE c \in Calls : TRUE

MCInit ==
    /\ part \in {"jobs", "notifications", "bookings"}
    /\ Init /\ D!Init /\ B!Init
    /\ part # "bookings" => key = CHOOSE k \in [Calls -> Keys] : TRUE
    /\ key[FirstCall] = CHOOSE k \in Keys : TRUE

MCNext ==
    \/ part = "jobs" /\ Next /\ UNCHANGED <<part, noticeVars, bookVars>>
    \/ part = "notifications" /\ D!Next /\ UNCHANGED <<part, vars, bookVars>>
    \/ part = "bookings" /\ B!Next /\ UNCHANGED <<part, vars, noticeVars>>

\* The fairness of the three specifications, each for its own part.
MCFairness ==
    /\ WF_vars(part = "jobs" /\ Advance)
    /\ \A w \in Workers : /\ WF_vars(part = "jobs" /\ Step(w))
                          /\ WF_noticeVars(part = "notifications" /\ D!Worker(w))
    /\ \A n \in Notifications : /\ WF_noticeVars(part = "notifications" /\ D!LeaseExpires(n))
                                /\ WF_noticeVars(part = "notifications" /\ D!BecomesDue(n))
    /\ \A a \in Calls : /\ WF_bookVars(part = "bookings" /\ B!LeaseExpires(a))
                        /\ WF_bookVars(part = "bookings" /\ B!ExpireLease(a))

MCSpec == MCInit /\ [][MCNext]_<<part, vars, noticeVars, bookVars>> /\ MCFairness

\* Every notification leaves the work states, or has failed with its attempts used up:
\* no crash, lost claim or aborted batch leaves it leased for good.
EventuallySettled == part = "notifications" => D!EventuallySettled

\* Every claimed booking operation settles: its caller or lease recovery ends it.
EveryAttemptSettles == B!EveryAttemptSettles
=============================================================================
