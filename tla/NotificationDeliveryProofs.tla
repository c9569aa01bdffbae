---------------------- MODULE NotificationDeliveryProofs ----------------------
(***************************************************************************)
(* Proofs about NotificationDelivery, for any number of notifications,     *)
(* workers, action keys, attempts per cycle and crashes.                   *)
(***************************************************************************)
EXTENDS NotificationDelivery, TLAPS

-----------------------------------------------------------------------------
(* Type correctness.                                                       *)

(* The Twilio status map has its values in the code's status sets.         *)
LEMMA TwilioMapType ==
    ASSUME NEW s \in TwilioStatuses
    PROVE  /\ TwilioDelivery[s] \in DeliveryStatuses
           /\ ProviderOutcome[s] \in Outcomes
           /\ ProviderOutcome[s] # "leased"
           /\ ProviderCode(s) \in Codes
           /\ TwilioRank[s] \in 1..50
BY DEF TwilioStatuses, TwilioDelivery, ProviderOutcome, ProviderCode, TwilioRank,
       DeliveryStatuses, Outcomes, Codes

(* Leaving 'delivering' keeps the row's columns in their types.            *)
LEMMA SettleType ==
    ASSUME TypeOK, NEW n \in Notifications, NEW st \in DeliveryStatuses,
           NEW cd \in Codes, Settle(n, st, cd)
    PROVE  /\ status' \in [Notifications -> DeliveryStatuses]
           /\ code' \in [Notifications -> Codes]
           /\ token' \in [Notifications -> Nat]
           /\ live' \subseteq Notifications
           /\ dispatched' \subseteq Notifications
BY DEF TypeOK, Settle

(* Closing an attempt keeps the ledger's length and its outcomes.          *)
LEMMA FinishAttemptType ==
    ASSUME TypeOK, NEW n \in Notifications, NEW k, NEW o \in Outcomes,
           FinishAttempt(n, k, o)
    PROVE  /\ ledger' \in [Notifications -> Seq(Outcomes)]
           /\ \A m \in Notifications : Len(ledger'[m]) = attempts[m]
<1>1. CASE k \in DOMAIN ledger[n] /\ ledger[n][k] = "leased"
  <2>1. ledger[n] \in Seq(Outcomes)
    BY DEF TypeOK
  <2> DEFINE s == [ledger[n] EXCEPT ![k] = o]
  <2>2. s \in Seq(Outcomes) /\ Len(s) = Len(ledger[n])
    BY <2>1, <1>1
  <2>3. ledger' = [ledger EXCEPT ![n] = s]
    BY <1>1 DEF FinishAttempt
  <2> HIDE DEF s
  <2> QED
    BY <2>2, <2>3 DEF TypeOK
<1>2. CASE ~(k \in DOMAIN ledger[n] /\ ledger[n][k] = "leased")
  BY <1>2 DEF TypeOK, FinishAttempt
<1> QED BY <1>1, <1>2

(* A run that ends keeps the worker's memory in its types.                 *)
LEMMA EndRunType ==
    ASSUME TypeOK, NEW w \in Workers, EndRun(w)
    PROVE  /\ phase' \in [Workers -> Phases]
           /\ expired' \in [Workers -> SUBSET ExpiredLease]
           /\ batch' \in [Workers -> SUBSET Claim]
           /\ cur' \in [Workers -> Claim \cup {NoClaim}]
           /\ resp' \in [Workers -> Answers]
BY DEF TypeOK, EndRun, Phases, Answers

(* So does going on to the next claim of the batch.                        *)
LEMMA ProcessedType ==
    ASSUME TypeOK, NEW w \in Workers, NEW c, Processed(w, c)
    PROVE  /\ phase' \in [Workers -> Phases]
           /\ expired' \in [Workers -> SUBSET ExpiredLease]
           /\ batch' \in [Workers -> SUBSET Claim]
           /\ cur' \in [Workers -> Claim \cup {NoClaim}]
           /\ resp' \in [Workers -> Answers]
BY DEF TypeOK, Processed, Phases, Answers

(* The initial state is well typed.                                        *)
LEMMA TypeInit == Init => TypeOK
BY MaxCrashesAssumption DEF Init, TypeOK, DeliveryStatuses, Codes, Phases, Answers

(* RecoverExpiredLeases' discovery keeps the types.                        *)
LEMMA DiscoverType ==
    ASSUME TypeOK, NEW w \in Workers, DiscoverExpiredLeases(w)
    PROVE  TypeOK'
<1>1. expired' \in [Workers -> SUBSET ExpiredLease]
  BY DEF TypeOK, DiscoverExpiredLeases, ExpiredLease
<1>2. phase' \in [Workers -> Phases]
  BY DEF TypeOK, DiscoverExpiredLeases, Phases
<1> QED
  BY <1>1, <1>2 DEF TypeOK, DiscoverExpiredLeases, rowVars, claimCols, providerCols, cycleCols

(* recoverExpiredLease keeps the types.                                    *)
LEMMA RecoverType ==
    ASSUME TypeOK, NEW w \in Workers, NEW x \in expired[w], RecoverExpiredLease(w, x)
    PROVE  TypeOK'
<1>1. x.n \in Notifications
  BY DEF TypeOK, ExpiredLease
<1>2. expired' \in [Workers -> SUBSET ExpiredLease]
  BY DEF TypeOK, RecoverExpiredLease
<1>3. CASE RecoverDispatched(x)
  <2>1. /\ Settle(x.n, "dead_letter", "DELIVERY_OUTCOME_UNKNOWN")
        /\ FinishAttempt(x.n, x.token, "outcome_unknown")
        /\ due' = due
    BY <1>3 DEF RecoverDispatched
  <2> QED
    BY <1>1, <1>2, <2>1, SettleType, FinishAttemptType
    DEF TypeOK, RecoverExpiredLease, providerCols, cycleCols, DeliveryStatuses, Codes, Outcomes
<1>4. CASE RecoverBeforeDispatch(x)
  <2>1. /\ Settle(x.n, "failed", "DELIVERY_LEASE_EXPIRED")
        /\ FinishAttempt(x.n, x.token, "safe_retry")
        /\ due' = due \cup {x.n}
    BY <1>4 DEF RecoverBeforeDispatch
  <2> QED
    BY <1>1, <1>2, <2>1, SettleType, FinishAttemptType
    DEF TypeOK, RecoverExpiredLease, providerCols, cycleCols, DeliveryStatuses, Codes, Outcomes
<1>5. CASE UNCHANGED <<status, code, claimCols, due, ledger>>
  BY <1>2, <1>5 DEF TypeOK, RecoverExpiredLease, claimCols, providerCols, cycleCols
<1> QED BY <1>3, <1>4, <1>5 DEF RecoverExpiredLease

(* Claiming a batch keeps the types and opens one attempt per row.         *)
LEMMA ClaimBatchType ==
    ASSUME TypeOK, NEW w \in Workers, ClaimBatch(w)
    PROVE  TypeOK'
<1>1. PICK S \in SUBSET {n \in Notifications : Eligible(n)} :
         /\ status' = [n \in Notifications |-> IF n \in S THEN "delivering" ELSE status[n]]
         /\ code' = [n \in Notifications |-> IF n \in S THEN "none" ELSE code[n]]
         /\ attempts' = [n \in Notifications |-> IF n \in S THEN attempts[n] + 1 ELSE attempts[n]]
         /\ token' = [n \in Notifications |-> IF n \in S THEN attempts[n] + 1 ELSE token[n]]
         /\ live' = live \cup S
         /\ dispatched' = dispatched \ S
         /\ ledger' = [n \in Notifications |->
                         IF n \in S THEN Append(ledger[n], "leased") ELSE ledger[n]]
         /\ batch' = [batch EXCEPT ![w] =
              {[n |-> n, token |-> attempts[n] + 1, requeues |-> requeues[n]] : n \in S}]
  BY DEF ClaimBatch
<1>2. ledger' \in [Notifications -> Seq(Outcomes)] /\ \A n \in Notifications : Len(ledger'[n]) = attempts'[n]
  BY <1>1 DEF TypeOK, Outcomes
<1>3. batch' \in [Workers -> SUBSET Claim]
  <2>1. \A n \in S : attempts[n] + 1 \in Nat /\ requeues[n] \in Nat /\ n \in Notifications
    BY DEF TypeOK
  <2>2. {[n |-> n, token |-> attempts[n] + 1, requeues |-> requeues[n]] : n \in S} \in SUBSET Claim
    BY <2>1 DEF Claim
  <2>3. batch \in [Workers -> SUBSET Claim]
    BY DEF TypeOK
  <2> QED
    BY <1>1, <2>2, <2>3
<1>4. /\ status' \in [Notifications -> DeliveryStatuses]
      /\ code' \in [Notifications -> Codes]
  BY <1>1 DEF TypeOK, DeliveryStatuses, Codes
<1>5. /\ attempts' \in [Notifications -> Nat]
      /\ token' \in [Notifications -> Nat]
      /\ live' \subseteq Notifications
      /\ dispatched' \subseteq Notifications
  BY <1>1 DEF TypeOK
<1>6. phase' \in [Workers -> Phases]
  BY DEF ClaimBatch, TypeOK, Phases
<1> QED
  BY <1>2, <1>3, <1>4, <1>5, <1>6 DEF TypeOK, ClaimBatch, providerCols, cycleCols

(* A run with no claim left keeps the types.                               *)
LEMMA FinishRunType ==
    ASSUME TypeOK, NEW w \in Workers, FinishRun(w)
    PROVE  TypeOK'
BY EndRunType DEF TypeOK, FinishRun, rowVars, claimCols, providerCols, cycleCols

(* completeWithoutProvider keeps the types.                                *)
LEMMA CompleteType ==
    ASSUME TypeOK, NEW w \in Workers, NEW c \in Claim, NEW st \in DeliveryStatuses,
           NEW o \in Outcomes, NEW cd \in Codes, CompleteWithoutProvider(w, c, st, o, cd)
    PROVE  TypeOK'
<1>1. c.n \in Notifications
  BY DEF Claim
<1>2. CASE OwnsClaim(c)
  <2>1. /\ Settle(c.n, st, cd)
        /\ FinishAttempt(c.n, c.token, o)
        /\ due' \subseteq Notifications
        /\ Processed(w, c)
    BY <1>2 DEF CompleteWithoutProvider, TypeOK
  <2> QED
    BY <1>1, <2>1, SettleType, FinishAttemptType, ProcessedType
    DEF TypeOK, CompleteWithoutProvider, providerCols, cycleCols
<1>3. CASE ~OwnsClaim(c)
  BY <1>3, EndRunType DEF TypeOK, CompleteWithoutProvider, claimCols, providerCols, cycleCols
<1> QED BY <1>2, <1>3

(* RecordSafeFailure keeps the types.                                      *)
LEMMA SafeFailureType ==
    ASSUME TypeOK, NEW w \in Workers, NEW c \in Claim, NEW cd \in Codes,
           RecordSafeFailure(w, c, cd)
    PROVE  TypeOK'
BY CompleteType DEF RecordSafeFailure, DeliveryStatuses, Outcomes

(* A claim without a usable channel keeps the types.                       *)
LEMMA ChannelType ==
    ASSUME TypeOK, NEW w \in Workers, NEW c \in batch[w], ChannelUnavailable(w, c)
    PROVE  TypeOK'
<1>1. c \in Claim
  BY DEF TypeOK
<1> QED
  BY <1>1, CompleteType, SafeFailureType DEF ChannelUnavailable, DeliveryStatuses, Outcomes, Codes

(* MarkDispatchStarted keeps the types.                                    *)
LEMMA MarkDispatchType ==
    ASSUME TypeOK, NEW w \in Workers, NEW c \in batch[w], MarkDispatchStarted(w, c)
    PROVE  TypeOK'
<1>1. c \in Claim /\ c.n \in Notifications
  BY DEF TypeOK, Claim
<1>2. CASE DispatchAllowed(c)
  <2>1. /\ phase' \in [Workers -> Phases]
        /\ batch' \in [Workers -> SUBSET Claim]
        /\ cur' \in [Workers -> Claim \cup {NoClaim}]
    <3>1. /\ phase' = [phase EXCEPT ![w] = "send"]
          /\ batch' = [batch EXCEPT ![w] = @ \ {c}]
          /\ cur' = [cur EXCEPT ![w] = c]
      BY <1>2 DEF MarkDispatchStarted
    <3>2. /\ phase \in [Workers -> Phases]
          /\ batch \in [Workers -> SUBSET Claim]
          /\ cur \in [Workers -> Claim \cup {NoClaim}]
      BY DEF TypeOK
    <3> QED
      BY <1>1, <3>1, <3>2 DEF Phases
  <2> QED
    BY <1>1, <1>2, <2>1 DEF TypeOK, MarkDispatchStarted, providerCols, cycleCols
<1>3. CASE ~DispatchAllowed(c)
  BY <1>3, EndRunType DEF TypeOK, MarkDispatchStarted, providerCols, cycleCols
<1> QED BY <1>2, <1>3

(* Send keeps the types: a worker past the marker holds a claim.           *)
LEMMA SendType ==
    ASSUME TypeOK, SenderIsFenced, NEW w \in Workers, Send(w)
    PROVE  TypeOK'
<1>1. cur[w].n \in Notifications /\ cur[w].token \in Nat
  BY DEF SenderIsFenced, InFlight, Send, Claim
<1>2. resp' \in [Workers -> Answers]
  <2>1. PICK a \in Answers : resp' = [resp EXCEPT ![w] = a]
    BY DEF Send, Answers
  <2>2. resp \in [Workers -> Answers]
    BY DEF TypeOK
  <2> QED
    BY <2>1, <2>2
<1>3. twilio' \subseteq (Notifications \X Nat \X TwilioStatuses)
  BY <1>1 DEF TypeOK, Send
<1> QED
  BY <1>2, <1>3 DEF TypeOK, Send, rowVars, claimCols, providerCols, cycleCols, Phases

(* RecordProviderResult keeps the types.                                   *)
LEMMA ProviderResultType ==
    ASSUME TypeOK, NEW w \in Workers, NEW c \in Claim, NEW s \in TwilioStatuses,
           RecordProviderResult(w, c, s)
    PROVE  TypeOK'
<1>1. c.n \in Notifications /\ c.token \in Nat
  BY DEF Claim
<1>2. CASE OwnsClaim(c)
  <2>1. /\ Settle(c.n, TwilioDelivery[s], ProviderCode(s))
        /\ FinishAttempt(c.n, c.token, ProviderOutcome[s])
        /\ Processed(w, c)
        /\ msg' = [msg EXCEPT ![c.n] = c.token]
        /\ rank' = [rank EXCEPT ![c.n] = TwilioRank[s]]
    BY <1>2 DEF RecordProviderResult
  <2>2. msg' \in [Notifications -> Nat] /\ rank' \in [Notifications -> 0..50]
    BY <1>1, <2>1, TwilioMapType DEF TypeOK
  <2> QED
    BY <1>1, <2>1, <2>2, TwilioMapType, SettleType, FinishAttemptType, ProcessedType
    DEF TypeOK, RecordProviderResult, cycleCols
<1>3. CASE ~OwnsClaim(c)
  BY <1>3, EndRunType DEF TypeOK, RecordProviderResult, claimCols, providerCols, cycleCols
<1> QED BY <1>2, <1>3

(* Recording any answer of Send keeps the types.                           *)
LEMMA RecordOutcomeType ==
    ASSUME TypeOK, SenderIsFenced, NEW w \in Workers, RecordOutcome(w)
    PROVE  TypeOK'
<1>1. cur[w] \in Claim
  BY DEF SenderIsFenced, InFlight, RecordOutcome
<1> QED
  BY <1>1, CompleteType, SafeFailureType, ProviderResultType
  DEF RecordOutcome, DeliveryStatuses, Outcomes, Codes

(* ApplyProviderCallback keeps the types.                                  *)
LEMMA CallbackType ==
    ASSUME TypeOK, NEW n \in Notifications, NEW k \in 1..attempts[n],
           NEW s \in TwilioStatuses, ApplyProviderCallback(n, k, s)
    PROVE  TypeOK'
<1>1. k \in Nat /\ attempts[n] \in Nat
  BY DEF TypeOK
<1>2. ledger[n] \in Seq(Outcomes) /\ k \in DOMAIN ledger[n]
  BY DEF TypeOK
<1>3. TwilioRank[s] \in 1..50 /\ rank[n] \in 0..50
  BY TwilioMapType DEF TypeOK
<1>4. events' \subseteq (Notifications \X Nat \X TwilioStatuses)
  BY <1>1 DEF TypeOK, ApplyProviderCallback
<1>5. CASE /\ status' = [status EXCEPT ![n] = TwilioDelivery[s]]
           /\ code' = [code EXCEPT ![n] = ProviderCode(s)]
           /\ rank' = [rank EXCEPT ![n] = TwilioRank[s]]
           /\ ledger' = [ledger EXCEPT ![n] = [@ EXCEPT ![k] = ProviderOutcome[s]]]
  <2> DEFINE l == [ledger[n] EXCEPT ![k] = ProviderOutcome[s]]
  <2>1. l \in Seq(Outcomes) /\ Len(l) = Len(ledger[n])
    BY <1>2, TwilioMapType
  <2>2. ledger' = [ledger EXCEPT ![n] = l]
    BY <1>5
  <2>3. /\ ledger' \in [Notifications -> Seq(Outcomes)]
        /\ \A m \in Notifications : Len(ledger'[m]) = attempts[m]
    <3> HIDE DEF l
    <3> QED BY <2>1, <2>2 DEF TypeOK
  <2>4. /\ status' \in [Notifications -> DeliveryStatuses]
        /\ code' \in [Notifications -> Codes]
    BY <1>5, TwilioMapType DEF TypeOK
  <2>5. rank' \in [Notifications -> 0..50]
    BY <1>3, <1>5 DEF TypeOK
  <2> QED
    BY <1>4, <2>3, <2>4, <2>5 DEF TypeOK, ApplyProviderCallback, claimCols, cycleCols, workVars
<1>6. CASE UNCHANGED <<status, code, rank, ledger>>
  BY <1>4, <1>6 DEF TypeOK, ApplyProviderCallback, claimCols, cycleCols, workVars
<1> QED BY <1>5, <1>6 DEF ApplyProviderCallback

(* RequeueForOwner keeps the types.                                        *)
LEMMA RequeueType ==
    ASSUME TypeOK, NEW n \in Notifications, NEW key \in ActionKeys, RequeueForOwner(n, key)
    PROVE  TypeOK'
<1>1. /\ status' \in [Notifications -> DeliveryStatuses]
      /\ code' \in [Notifications -> Codes]
      /\ token' \in [Notifications -> Nat]
      /\ live' \subseteq Notifications
      /\ dispatched' \subseteq Notifications
  BY SettleType DEF RequeueForOwner, DeliveryStatuses, Codes
<1>2. /\ due' \subseteq Notifications
      /\ msg' \in [Notifications -> Nat]
      /\ requeues' \in [Notifications -> Nat]
      /\ cycleBase' \in [Notifications -> Nat]
  BY DEF TypeOK, RequeueForOwner
<1>3. rank' \in [Notifications -> 0..50]
  BY DEF TypeOK, RequeueForOwner
<1>4. actions' \subseteq (ActionKeys \X Notifications)
  BY DEF TypeOK, RequeueForOwner
<1> QED
  BY <1>1, <1>2, <1>3, <1>4 DEF TypeOK, RequeueForOwner, workVars

(* Redaction, lease expiry and due times keep the types.                   *)
LEMMA RowType ==
    ASSUME TypeOK, NEW n \in Notifications, Row(n)
    PROVE  TypeOK'
<1>1. CASE RedactNextOwnerNotification(n) \/ LeaseExpires(n) \/ BecomesDue(n)
  BY <1>1 DEF TypeOK, RedactNextOwnerNotification, LeaseExpires, BecomesDue,
              claimCols, providerCols, cycleCols, workVars
<1>2. ASSUME NEW k \in 1..attempts[n], NEW s \in TwilioStatuses, TwilioProgress(n, k, s)
      PROVE  TypeOK'
  <2>1. k \in Nat
    BY DEF TypeOK
  <2>2. twilio' \subseteq (Notifications \X Nat \X TwilioStatuses)
    BY <1>2, <2>1 DEF TypeOK, TwilioProgress
  <2> QED
    BY <1>2, <2>2 DEF TypeOK, TwilioProgress, rowVars, claimCols, providerCols, cycleCols, workVars
<1> QED
  BY <1>1, <1>2, CallbackType, RequeueType DEF Row

(* A crash keeps the types.                                                *)
LEMMA CrashType ==
    ASSUME TypeOK, NEW w \in Workers, Crash(w)
    PROVE  TypeOK'
<1>1. crashes' \in 0..MaxCrashes
  BY MaxCrashesAssumption DEF TypeOK, Crash
<1> QED
  BY <1>1, EndRunType DEF TypeOK, Crash, rowVars, claimCols, providerCols, cycleCols

(* Every step keeps the types while senders hold real claims.              *)
LEMMA TypeStep == TypeOK /\ SenderIsFenced /\ [Next]_vars => TypeOK'
<1> SUFFICES ASSUME TypeOK, SenderIsFenced, [Next]_vars PROVE TypeOK'
  OBVIOUS
<1>1. ASSUME NEW w \in Workers, Worker(w) PROVE TypeOK'
  BY <1>1, DiscoverType, RecoverType, ClaimBatchType, FinishRunType, ChannelType,
     MarkDispatchType, SendType, RecordOutcomeType DEF Worker
<1>2. CASE UNCHANGED vars
  BY <1>2 DEF TypeOK, vars, rowVars, claimCols, providerCols, cycleCols, workVars
<1> QED
  BY <1>1, <1>2, CrashType, RowType DEF Next
-----------------------------------------------------------------------------
(* The inductive invariant SmsInv.                                         *)

(* The inductive invariant holds initially.                                *)
LEMMA SmsInit == Init => SmsInv
BY DEF Init, SmsInv, ClaimShape, MessageShape, OneMessagePerAttempt, ClaimsAreUnique,
       BatchNotDispatched, SenderIsFenced, AnswerIsTrue, OnItsWayIsKnown, InFlight,
       OnItsWay, OwnsClaim, Unknown, SentIsMarked

(* A run that ends forgets its claims and touches no row.                  *)
LEMMA EndRunSms ==
    ASSUME TypeOK, SmsInv, NEW w \in Workers, EndRun(w),
           UNCHANGED <<status, code, attempts, token, dispatched, msg, twilio>>
    PROVE  SmsInv'
<1>1. /\ \A v \in Workers : InFlight(v)' => InFlight(v) /\ v # w
      /\ \A v \in Workers : v # w =>
            batch'[v] = batch[v] /\ cur'[v] = cur[v] /\ phase'[v] = phase[v] /\ resp'[v] = resp[v]
      /\ batch'[w] = {} /\ phase'[w] = "idle"
  BY DEF EndRun, InFlight, TypeOK
<1>2. (ClaimShape /\ MessageShape /\ OneMessagePerAttempt /\ OnItsWayIsKnown /\ SentIsMarked)'
  BY DEF SmsInv, SentIsMarked, ClaimShape, MessageShape, OneMessagePerAttempt, OnItsWayIsKnown, OnItsWay, Unknown
<1>3. ClaimsAreUnique'
  BY <1>1 DEF SmsInv, ClaimsAreUnique
<1>4. BatchNotDispatched'
  BY <1>1 DEF SmsInv, BatchNotDispatched, OwnsClaim
<1>5. SenderIsFenced'
  BY <1>1 DEF SmsInv, SenderIsFenced, OwnsClaim, Unknown
<1>6. AnswerIsTrue'
  BY <1>1 DEF SmsInv, AnswerIsTrue, Reported
<1> QED BY <1>2, <1>3, <1>4, <1>5, <1>6 DEF SmsInv

(* Discovery reads rows and changes none.                                  *)
LEMMA DiscoverSms ==
    ASSUME TypeOK, SmsInv, NEW w \in Workers, DiscoverExpiredLeases(w)
    PROVE  SmsInv'
<1>1. /\ \A v \in Workers : InFlight(v)' <=> InFlight(v)
      /\ \A v \in Workers : phase'[v] \in {"send", "record"} => phase'[v] = phase[v]
      /\ UNCHANGED <<status, code, attempts, token, dispatched, msg, twilio, batch, cur, resp>>
  BY DEF DiscoverExpiredLeases, InFlight, TypeOK, rowVars, claimCols, providerCols
<1>2. (ClaimShape /\ MessageShape /\ OneMessagePerAttempt /\ OnItsWayIsKnown /\ SentIsMarked)'
  BY <1>1 DEF SmsInv, SentIsMarked, ClaimShape, MessageShape, OneMessagePerAttempt, OnItsWayIsKnown, OnItsWay, Unknown
<1>3. ClaimsAreUnique'
  BY <1>1 DEF SmsInv, ClaimsAreUnique
<1>4. BatchNotDispatched'
  BY <1>1 DEF SmsInv, BatchNotDispatched, OwnsClaim
<1>5. SenderIsFenced'
  BY <1>1 DEF SmsInv, SenderIsFenced, OwnsClaim, Unknown
<1>6. AnswerIsTrue'
  BY <1>1 DEF SmsInv, AnswerIsTrue, Reported
<1> QED BY <1>2, <1>3, <1>4, <1>5, <1>6 DEF SmsInv

(* Lease recovery: a dispatched row becomes Unknown, so its sender stays   *)
(* fenced; an undispatched one has no sender and no message.               *)
LEMMA RecoverSms ==
    ASSUME TypeOK, SmsInv, NEW w \in Workers, NEW x \in expired[w], RecoverExpiredLease(w, x)
    PROVE  SmsInv'
<1>1. x.n \in Notifications
  BY DEF TypeOK, ExpiredLease
<1>2. UNCHANGED <<attempts, msg, phase, batch, cur, resp, twilio>>
  BY DEF RecoverExpiredLease, providerCols
<1>u. \A v \in Workers : InFlight(v)' <=> InFlight(v)
  BY <1>2 DEF InFlight
<1>3. ClaimsAreUnique' /\ AnswerIsTrue' /\ OneMessagePerAttempt'
  BY <1>2, <1>u DEF SmsInv, ClaimsAreUnique, AnswerIsTrue, OneMessagePerAttempt, Reported
<1>4. CASE RecoverDispatched(x)
  <2>1. /\ status' = [status EXCEPT ![x.n] = "dead_letter"]
        /\ code' = [code EXCEPT ![x.n] = "DELIVERY_OUTCOME_UNKNOWN"]
        /\ token' = [token EXCEPT ![x.n] = 0]
        /\ dispatched' = dispatched \ {x.n}
        /\ status[x.n] = "delivering"
    BY <1>4 DEF RecoverDispatched, Settle, StillExpired
  <2>2. ClaimShape' /\ MessageShape'
    BY <1>1, <1>2, <2>1 DEF SmsInv, ClaimShape, MessageShape, TypeOK, Unknown
  <2>3. BatchNotDispatched'
    BY <1>1, <1>2, <2>1 DEF SmsInv, BatchNotDispatched, TypeOK, OwnsClaim, Claim
  <2>4. SenderIsFenced'
    BY <1>1, <1>2, <1>u, <2>1 DEF SmsInv, SenderIsFenced, TypeOK, OwnsClaim, Unknown, Claim
  <2>5. OnItsWayIsKnown'
    <3>1. Unknown(x.n)'
      BY <1>1, <2>1 DEF TypeOK, Unknown
    <3>2. \A n \in Notifications \ {x.n} :
             /\ status'[n] = status[n] /\ code'[n] = code[n]
             /\ n \in dispatched <=> n \in dispatched'
      BY <2>1 DEF TypeOK
    <3>3. \A n, k : OnItsWay(n, k)' <=> OnItsWay(n, k)
      BY <1>2 DEF OnItsWay
    <3>4. OnItsWayIsKnown
      BY DEF SmsInv
    <3> QED BY <1>2, <3>1, <3>2, <3>3, <3>4 DEF OnItsWayIsKnown, Unknown
  <2>6. SentIsMarked'
    BY <1>1, <1>2, <2>1 DEF SmsInv, SentIsMarked, TypeOK
  <2> QED BY <1>3, <2>2, <2>3, <2>4, <2>5, <2>6 DEF SmsInv
<1>5. CASE RecoverBeforeDispatch(x)
  <2>1. /\ status' = [status EXCEPT ![x.n] = "failed"]
        /\ code' = [code EXCEPT ![x.n] = "DELIVERY_LEASE_EXPIRED"]
        /\ token' = [token EXCEPT ![x.n] = 0]
        /\ dispatched' = dispatched \ {x.n}
        /\ status[x.n] = "delivering" /\ x.n \notin dispatched
    BY <1>5 DEF RecoverBeforeDispatch, Settle, StillExpired
  <2>2. ClaimShape' /\ MessageShape'
    BY <1>1, <1>2, <2>1 DEF SmsInv, ClaimShape, MessageShape, TypeOK, Unknown
  <2>3. BatchNotDispatched'
    BY <1>1, <1>2, <2>1 DEF SmsInv, BatchNotDispatched, TypeOK, OwnsClaim, Claim
  <2>4. SenderIsFenced'
    BY <1>1, <1>2, <1>u, <2>1 DEF SmsInv, SenderIsFenced, TypeOK, OwnsClaim, Unknown, Claim
  <2>a. \A k \in 1..attempts[x.n] : ~OnItsWay(x.n, k)
    BY <1>1, <2>1 DEF SmsInv, OnItsWayIsKnown, MessageShape, Unknown
  <2>5. OnItsWayIsKnown'
    <3> SUFFICES ASSUME NEW n \in Notifications, NEW k \in 1..attempts[n], OnItsWay(n, k)
                 PROVE  /\ k = attempts[n]
                        /\ \/ Unknown(n)'
                           \/ status'[n] = "delivering" /\ n \in dispatched'
                           \/ msg[n] = k /\ status'[n] \in {"provider_accepted", "sent", "delivered"}
      BY <1>2 DEF OnItsWayIsKnown, OnItsWay
    <3>1. n # x.n
      BY <2>a
    <3> QED BY <1>1, <2>1, <3>1 DEF SmsInv, OnItsWayIsKnown, TypeOK, Unknown
  <2>6. SentIsMarked'
    BY <1>1, <1>2, <2>1 DEF SmsInv, SentIsMarked, TypeOK
  <2> QED BY <1>3, <2>2, <2>3, <2>4, <2>5, <2>6 DEF SmsInv
<1>6. CASE UNCHANGED <<status, code, claimCols, due, ledger>>
  <2>1. UNCHANGED <<status, code, token, dispatched>>
    BY <1>6 DEF claimCols
  <2> QED
    BY <1>2, <1>3, <1>u, <2>1 DEF SmsInv, ClaimShape, MessageShape, BatchNotDispatched,
       SenderIsFenced, OnItsWayIsKnown, SentIsMarked, OnItsWay, Unknown, OwnsClaim
<1> QED BY <1>4, <1>5, <1>6 DEF RecoverExpiredLease

(* Claiming: a fresh token, for rows with no message on its way.           *)
LEMMA ClaimBatchSms ==
    ASSUME TypeOK, SmsInv, NEW w \in Workers, ClaimBatch(w)
    PROVE  SmsInv'
<1>1. PICK S \in SUBSET {n \in Notifications : Eligible(n)} :
         /\ status' = [n \in Notifications |-> IF n \in S THEN "delivering" ELSE status[n]]
         /\ code' = [n \in Notifications |-> IF n \in S THEN "none" ELSE code[n]]
         /\ attempts' = [n \in Notifications |-> IF n \in S THEN attempts[n] + 1 ELSE attempts[n]]
         /\ token' = [n \in Notifications |-> IF n \in S THEN attempts[n] + 1 ELSE token[n]]
         /\ dispatched' = dispatched \ S
         /\ batch' = [batch EXCEPT ![w] =
              {[n |-> n, token |-> attempts[n] + 1, requeues |-> requeues[n]] : n \in S}]
  BY DEF ClaimBatch
<1>2. /\ phase[w] = "recover"
      /\ phase' = [phase EXCEPT ![w] = "batch"]
      /\ UNCHANGED <<msg, cur, resp, twilio>>
  BY DEF ClaimBatch, providerCols
<1>3. \A v \in Workers : InFlight(v)' => InFlight(v) /\ phase'[v] = phase[v] /\ v # w
  BY <1>2 DEF InFlight, TypeOK
<1>4. \A n \in S : n \in Notifications /\ status[n] \in {"queued", "failed"}
  BY DEF Eligible
<1>5. \A v \in Workers : \A c \in batch'[v] :
         \/ c \in batch[v] /\ v # w
         \/ v = w /\ c.n \in S /\ c.token = attempts[c.n] + 1 /\ c.requeues = requeues[c.n]
            /\ c = [n |-> c.n, token |-> attempts[c.n] + 1, requeues |-> requeues[c.n]]
  BY <1>1 DEF TypeOK
<1>6. \A v \in Workers : \A c \in batch[v] : c.n \in Notifications /\ c.token \in 1..attempts[c.n]
  BY DEF SmsInv, BatchNotDispatched, TypeOK, Claim
<1>7. \A v \in Workers : InFlight(v) =>
         cur[v].n \in Notifications /\ cur[v].token = attempts[cur[v].n] /\ cur[v].n \notin S
  BY <1>4 DEF SmsInv, SenderIsFenced, OwnsClaim, Unknown, Claim
<1>8. ClaimShape' /\ MessageShape'
  <2>1. ClaimShape'
    BY <1>1, <1>4 DEF SmsInv, ClaimShape, TypeOK
  <2>2. \A n \in S : msg[n] = 0
    BY <1>4 DEF SmsInv, MessageShape
  <2>3. MessageShape'
    BY <1>1, <1>2, <1>4, <2>2 DEF SmsInv, MessageShape, Unknown
  <2> QED BY <2>1, <2>3
<1>9. OneMessagePerAttempt'
  <2>1. \A m \in twilio : m[1] \in Notifications /\ m[2] \in 1..attempts[m[1]]
    BY DEF SmsInv, OneMessagePerAttempt, TypeOK
  <2>2. \A n \in Notifications : attempts[n] \in Nat /\ attempts'[n] \in {attempts[n], attempts[n] + 1}
    BY <1>1 DEF TypeOK
  <2>3. \A m \in twilio : m[2] \in 1..attempts'[m[1]]
    BY <2>1, <2>2
  <2>4. \A n \in Notifications, k \in Nat, s \in TwilioStatuses :
           <<n, k, s>> \in twilio => k \in 1..attempts[n]
    BY <2>1
  <2>5. \A n \in Notifications : \A k \in 1..attempts'[n] : \A s, t \in TwilioStatuses :
           <<n, k, s>> \in twilio /\ <<n, k, t>> \in twilio => s = t
    BY <2>2, <2>4 DEF SmsInv, OneMessagePerAttempt
  <2> QED BY <1>2, <2>3, <2>5 DEF OneMessagePerAttempt
<1>10. ClaimsAreUnique'
  BY <1>1, <1>2, <1>3, <1>5, <1>6, <1>7 DEF SmsInv, ClaimsAreUnique, TypeOK
<1>11. BatchNotDispatched'
  BY <1>1, <1>2, <1>5, <1>6 DEF SmsInv, BatchNotDispatched, OwnsClaim, TypeOK
<1>12. SenderIsFenced'
  BY <1>1, <1>2, <1>3, <1>7 DEF SmsInv, SenderIsFenced, OwnsClaim, Unknown, TypeOK
<1>13. AnswerIsTrue'
  BY <1>2, <1>3 DEF SmsInv, AnswerIsTrue, Reported, InFlight
<1>14. OnItsWayIsKnown'
  BY <1>1, <1>2, <1>4 DEF SmsInv, OnItsWayIsKnown, OneMessagePerAttempt, OnItsWay, Unknown, TypeOK
<1>15. SentIsMarked'
  <2> SUFFICES ASSUME NEW m \in twilio, status'[m[1]] = "delivering", token'[m[1]] = m[2]
               PROVE  m[1] \in dispatched'
    BY <1>2 DEF SentIsMarked
  <2>1. m[1] \in Notifications /\ m[2] \in 1..attempts[m[1]] /\ attempts[m[1]] \in Nat
    BY DEF TypeOK, SmsInv, OneMessagePerAttempt
  <2>2. m[1] \notin S
    BY <1>1, <2>1
  <2> QED BY <1>1, <2>1, <2>2 DEF SmsInv, SentIsMarked
<1> QED BY <1>8, <1>9, <1>10, <1>11, <1>12, <1>13, <1>14, <1>15 DEF SmsInv

(* The parts of the invariant about workers other than w, after w finished *)
(* with a claim it owned: the row leaves 'delivering', and no other worker *)
(* holds a claim on it that is still current.                              *)
LEMMA SettledSms ==
    ASSUME TypeOK, SmsInv, NEW w \in Workers, NEW c \in Claim, OwnsClaim(c),
           \/ c \in batch[w]
           \/ InFlight(w) /\ cur[w] = c,
           NEW st \in DeliveryStatuses \ {"delivering"}, NEW cd \in Codes,
           Settle(c.n, st, cd), Processed(w, c), UNCHANGED <<attempts, twilio>>
    PROVE  ClaimShape' /\ OneMessagePerAttempt' /\ ClaimsAreUnique'
           /\ BatchNotDispatched' /\ SenderIsFenced' /\ AnswerIsTrue' /\ SentIsMarked'
<1>1. c.n \in Notifications /\ c.token \in Nat
  BY DEF Claim
<1>2. /\ status' = [status EXCEPT ![c.n] = st]
      /\ code' = [code EXCEPT ![c.n] = cd]
      /\ token' = [token EXCEPT ![c.n] = 0]
      /\ dispatched' = dispatched \ {c.n}
  BY DEF Settle
<1>3. /\ batch'[w] = batch[w] \ {c}
      /\ \A v \in Workers : v # w =>
            batch'[v] = batch[v] /\ cur'[v] = cur[v] /\ phase'[v] = phase[v] /\ resp'[v] = resp[v]
      /\ \A v \in Workers : InFlight(v)' => InFlight(v) /\ v # w
      /\ phase'[w] = "batch"
  BY DEF Processed, InFlight, TypeOK
<1>4. ClaimShape'
  BY <1>1, <1>2 DEF SmsInv, ClaimShape, TypeOK
<1>5. OneMessagePerAttempt'
  BY DEF SmsInv, OneMessagePerAttempt
<1>6. ClaimsAreUnique'
  BY <1>3 DEF SmsInv, ClaimsAreUnique
<1>7. BatchNotDispatched'
  BY <1>1, <1>2, <1>3 DEF SmsInv, BatchNotDispatched, OwnsClaim, TypeOK, Claim
<1>8. AnswerIsTrue'
  BY <1>3 DEF SmsInv, AnswerIsTrue, Reported
<1>9. SenderIsFenced'
  <2> SUFFICES ASSUME NEW v \in Workers, InFlight(v), v # w
               PROVE  /\ cur[v] \in Claim
                      /\ cur[v].token = attempts[cur[v].n] /\ cur[v].token > 0
                      /\ \/ OwnsClaim(cur[v])' /\ cur[v].n \in dispatched'
                         \/ Unknown(cur[v].n)'
    BY <1>3 DEF SenderIsFenced, OwnsClaim, Unknown
  <2>1. /\ cur[v] \in Claim /\ cur[v].token = attempts[cur[v].n] /\ cur[v].token > 0
        /\ \/ OwnsClaim(cur[v]) /\ cur[v].n \in dispatched
           \/ Unknown(cur[v].n)
    BY DEF SmsInv, SenderIsFenced
  <2>2. cur[v].n # c.n
    BY <2>1 DEF SmsInv, ClaimsAreUnique, OwnsClaim, Unknown
  <2>3. cur'[v] = cur[v]
    BY <1>3
  <2> QED BY <1>1, <1>2, <2>1, <2>2, <2>3 DEF OwnsClaim, Unknown, TypeOK, Claim
<1>10. SentIsMarked'
  BY <1>1, <1>2 DEF SmsInv, SentIsMarked, TypeOK
<1> QED BY <1>4, <1>5, <1>6, <1>7, <1>8, <1>9, <1>10

(* Recording without a provider result: allowed for a claim not dispatched *)
(* yet, for an answer that proves no message exists, or as Unknown.        *)
LEMMA CompleteSms ==
    ASSUME TypeOK, SmsInv, NEW w \in Workers, NEW c \in Claim,
           \/ c \in batch[w]
           \/ InFlight(w) /\ cur[w] = c,
           NEW st \in {"disabled", "failed", "dead_letter"}, NEW o \in Outcomes, NEW cd \in Codes,
           \/ c \in batch[w]
           \/ \A s \in TwilioStatuses : <<c.n, c.token, s>> \notin twilio
           \/ st = "dead_letter" /\ cd = "DELIVERY_OUTCOME_UNKNOWN",
           CompleteWithoutProvider(w, c, st, o, cd)
    PROVE  SmsInv'
<1>1. c.n \in Notifications /\ c.token \in Nat
  BY DEF Claim
<1>2. CASE OwnsClaim(c)
  <2>1. /\ Settle(c.n, st, cd)
        /\ Processed(w, c)
        /\ UNCHANGED <<attempts, msg, twilio>>
    BY <1>2 DEF CompleteWithoutProvider, providerCols
  <2>2. /\ ClaimShape' /\ OneMessagePerAttempt' /\ ClaimsAreUnique'
        /\ BatchNotDispatched' /\ SenderIsFenced' /\ AnswerIsTrue' /\ SentIsMarked'
    BY <1>2, <2>1, SettledSms DEF DeliveryStatuses
  <2>3. /\ status' = [status EXCEPT ![c.n] = st]
        /\ code' = [code EXCEPT ![c.n] = cd]
        /\ dispatched' = dispatched \ {c.n}
    BY <2>1 DEF Settle
  <2>4. msg[c.n] = 0 /\ c.token = attempts[c.n] /\ status[c.n] = "delivering"
    BY <1>1, <1>2 DEF SmsInv, MessageShape, ClaimShape, OwnsClaim
  <2>5. MessageShape'
    BY <1>1, <2>1, <2>3, <2>4 DEF SmsInv, MessageShape, TypeOK, Unknown
  <2>6. Unknown(c.n)' \/ \A k \in 1..attempts[c.n] : ~OnItsWay(c.n, k)
    <3>1. CASE c \in batch[w]
      BY <1>1, <1>2, <2>4, <3>1 DEF SmsInv, BatchNotDispatched, OnItsWayIsKnown, Unknown
    <3>2. CASE \A s \in TwilioStatuses : <<c.n, c.token, s>> \notin twilio
      BY <1>1, <2>4, <3>2 DEF SmsInv, OnItsWayIsKnown, OnItsWay
    <3>3. CASE st = "dead_letter" /\ cd = "DELIVERY_OUTCOME_UNKNOWN"
      BY <1>1, <2>3, <3>3 DEF Unknown, TypeOK
    <3> QED BY <3>1, <3>2, <3>3
  <2>7. OnItsWayIsKnown'
    <3> SUFFICES ASSUME NEW n \in Notifications, NEW k \in 1..attempts[n], OnItsWay(n, k)
                 PROVE  /\ k = attempts[n]
                        /\ \/ Unknown(n)'
                           \/ status'[n] = "delivering" /\ n \in dispatched'
                           \/ msg[n] = k /\ status'[n] \in {"provider_accepted", "sent", "delivered"}
      BY <2>1 DEF OnItsWayIsKnown, OnItsWay
    <3>1. CASE n = c.n
      BY <2>6, <3>1 DEF SmsInv, OnItsWayIsKnown
    <3>2. CASE n # c.n
      BY <1>1, <2>3, <3>2 DEF SmsInv, OnItsWayIsKnown, TypeOK, Unknown
    <3> QED BY <3>1, <3>2
  <2> QED BY <2>2, <2>5, <2>7 DEF SmsInv
<1>3. CASE ~OwnsClaim(c)
  <2>1. EndRun(w) /\ UNCHANGED <<status, code, attempts, token, dispatched, msg, twilio>>
    BY <1>3 DEF CompleteWithoutProvider, claimCols, providerCols
  <2> QED BY <2>1, EndRunSms
<1> QED BY <1>2, <1>3

(* A claim without a channel completes before any dispatch.                *)
LEMMA ChannelSms ==
    ASSUME TypeOK, SmsInv, NEW w \in Workers, NEW c \in batch[w], ChannelUnavailable(w, c)
    PROVE  SmsInv'
<1>1. c \in Claim
  BY DEF TypeOK
<1> QED
  BY <1>1, CompleteSms DEF ChannelUnavailable, RecordSafeFailure, Outcomes, Codes

(* The dispatch marker is set only under a current claim.                  *)
LEMMA MarkDispatchSms ==
    ASSUME TypeOK, SmsInv, NEW w \in Workers, NEW c \in batch[w], MarkDispatchStarted(w, c)
    PROVE  SmsInv'
<1>1. c \in Claim /\ c.n \in Notifications /\ c.token \in Nat
  BY DEF TypeOK, Claim
<1>2. CASE DispatchAllowed(c)
  <2>1. /\ OwnsClaim(c)
        /\ dispatched' = dispatched \cup {c.n}
        /\ UNCHANGED <<status, code, attempts, token, msg, twilio, resp>>
    BY <1>2 DEF MarkDispatchStarted, DispatchAllowed, providerCols
  <2>2. /\ phase[w] = "batch" /\ phase'[w] = "send" /\ cur'[w] = c
        /\ batch'[w] = batch[w] \ {c}
        /\ \A v \in Workers : v # w =>
              batch'[v] = batch[v] /\ cur'[v] = cur[v] /\ phase'[v] = phase[v]
    BY <1>2 DEF MarkDispatchStarted, TypeOK
  <2>3. \A v \in Workers : v # w => (InFlight(v)' <=> InFlight(v))
    BY <2>2 DEF InFlight
  <2>4. /\ c.token = attempts[c.n] /\ c.token > 0
        /\ status[c.n] = "delivering" /\ c.n \notin dispatched
    BY <1>1, <2>1 DEF SmsInv, ClaimShape, OwnsClaim, BatchNotDispatched
  <2>5. ClaimShape' /\ MessageShape' /\ OneMessagePerAttempt'
    BY <2>1, <2>4 DEF SmsInv, ClaimShape, MessageShape, OneMessagePerAttempt, Unknown
  <2>6. ClaimsAreUnique'
    BY <2>2, <2>3 DEF SmsInv, ClaimsAreUnique, InFlight
  <2>7. BatchNotDispatched'
    BY <2>1, <2>2 DEF SmsInv, BatchNotDispatched, ClaimsAreUnique, OwnsClaim
  <2>8. SenderIsFenced'
    BY <1>1, <2>1, <2>2, <2>3, <2>4 DEF SmsInv, SenderIsFenced, OwnsClaim, Unknown
  <2>9. \A s \in TwilioStatuses : <<c.n, c.token, s>> \notin twilio
    BY <2>1, <2>4 DEF SmsInv, SentIsMarked, OwnsClaim
  <2>10. AnswerIsTrue'
    BY <2>1, <2>2, <2>9 DEF SmsInv, AnswerIsTrue, Reported
  <2>11. OnItsWayIsKnown'
    BY <2>1, <2>4 DEF SmsInv, OnItsWayIsKnown, OnItsWay, Unknown
  <2>12. SentIsMarked'
    BY <2>1 DEF SmsInv, SentIsMarked
  <2> QED BY <2>5, <2>6, <2>7, <2>8, <2>10, <2>11, <2>12 DEF SmsInv
<1>3. CASE ~DispatchAllowed(c)
  <2>1. EndRun(w) /\ UNCHANGED <<status, code, attempts, token, dispatched, msg, twilio>>
    BY <1>3 DEF MarkDispatchStarted, providerCols
  <2> QED BY <2>1, EndRunSms
<1> QED BY <1>2, <1>3

(* Send makes at most one message, for the claim it was marked for.        *)
LEMMA SendSms ==
    ASSUME TypeOK, SmsInv, NEW w \in Workers, Send(w)
    PROVE  SmsInv'
<1> DEFINE c == cur[w]
<1>1. /\ phase[w] = "send" /\ phase'[w] = "record"
      /\ \A v \in Workers : v # w => phase'[v] = phase[v] /\ resp'[v] = resp[v]
      /\ UNCHANGED <<status, code, attempts, token, dispatched, msg, batch, cur>>
  BY DEF Send, TypeOK, rowVars, claimCols, providerCols
<1>2. \A v \in Workers : InFlight(v)' <=> InFlight(v)
  BY <1>1 DEF InFlight
<1>3. /\ c \in Claim /\ c.n \in Notifications /\ c.token \in Nat /\ c.token = attempts[c.n]
      /\ \/ OwnsClaim(c) /\ c.n \in dispatched
         \/ Unknown(c.n)
  BY <1>1 DEF SmsInv, SenderIsFenced, InFlight, Claim
<1>4. \A s \in TwilioStatuses : <<c.n, c.token, s>> \notin twilio
  BY <1>1 DEF SmsInv, AnswerIsTrue
<1>5. c.token \in 1..attempts[c.n]
  BY <1>1, <1>3 DEF SmsInv, SenderIsFenced, InFlight
<1>6. ClaimShape' /\ MessageShape' /\ ClaimsAreUnique' /\ BatchNotDispatched' /\ SenderIsFenced'
  BY <1>1, <1>2 DEF SmsInv, ClaimShape, MessageShape, ClaimsAreUnique, BatchNotDispatched,
     SenderIsFenced, OwnsClaim, Unknown
<1>7. \A v \in Workers : v # w /\ InFlight(v) => ~(cur[v].n = c.n /\ cur[v].token = c.token)
  BY <1>1 DEF SmsInv, ClaimsAreUnique, InFlight
<1>8. CASE twilio' = twilio /\ resp'[w] \in {"retryable", "rejected", "ambiguous"}
  <2>1. AnswerIsTrue'
    <3>1. resp'[w] \notin TwilioStatuses
      BY <1>8 DEF TwilioStatuses
    <3>2. AnswerIsTrue
      BY DEF SmsInv
    <3> QED
      BY <1>1, <1>4, <1>8, <3>1, <3>2 DEF AnswerIsTrue, Reported
  <2>2. OneMessagePerAttempt' /\ OnItsWayIsKnown' /\ SentIsMarked'
    BY <1>1, <1>8 DEF SmsInv, OneMessagePerAttempt, OnItsWayIsKnown, SentIsMarked, OnItsWay, Unknown
  <2> QED BY <1>6, <2>1, <2>2 DEF SmsInv
<1>9. ASSUME NEW s \in TwilioStatuses, twilio' = twilio \cup {<<c.n, c.token, s>>},
             resp'[w] \in {s, "ambiguous"}
      PROVE  SmsInv'
  <2> HIDE DEF c
  <2>1. OneMessagePerAttempt'
    <3>1. \A m \in twilio' : m[2] \in 1..attempts[m[1]]
      BY <1>5, <1>9 DEF SmsInv, OneMessagePerAttempt
    <3>2. ASSUME NEW n \in Notifications, NEW k \in 1..attempts[n],
                 NEW t \in TwilioStatuses, NEW u \in TwilioStatuses,
                 <<n, k, t>> \in twilio', <<n, k, u>> \in twilio'
          PROVE  t = u
      <4>1. CASE n = c.n /\ k = c.token
        BY <1>4, <1>9, <3>2, <4>1
      <4>2. CASE ~(n = c.n /\ k = c.token)
        BY <1>9, <3>2, <4>2 DEF SmsInv, OneMessagePerAttempt
      <4> QED BY <4>1, <4>2
    <3> QED BY <1>1, <3>1, <3>2 DEF OneMessagePerAttempt
  <2>2. SentIsMarked'
    BY <1>1, <1>3, <1>9 DEF SmsInv, SentIsMarked, OwnsClaim, Unknown
  <2>3. OnItsWayIsKnown'
    <3> SUFFICES ASSUME NEW n \in Notifications, NEW k \in 1..attempts[n], OnItsWay(n, k)'
                 PROVE  /\ k = attempts[n]
                        /\ \/ Unknown(n)
                           \/ status[n] = "delivering" /\ n \in dispatched
                           \/ msg[n] = k /\ status[n] \in {"provider_accepted", "sent", "delivered"}
      BY <1>1 DEF OnItsWayIsKnown, Unknown
    <3>1. CASE OnItsWay(n, k)
      BY <3>1 DEF SmsInv, OnItsWayIsKnown
    <3>2. CASE n = c.n /\ k = c.token
      BY <1>3, <3>2 DEF OwnsClaim
    <3> QED BY <1>9, <3>1, <3>2 DEF OnItsWay
  <2>4. AnswerIsTrue'
    <3> SUFFICES ASSUME NEW v \in Workers
                 PROVE  /\ phase'[v] = "send" \/ (phase'[v] = "record" /\ resp'[v] \in {"retryable", "rejected"})
                             => \A t \in TwilioStatuses : <<cur[v].n, cur[v].token, t>> \notin twilio'
                        /\ phase'[v] = "record" /\ resp'[v] \in TwilioStatuses
                             => Reported(cur[v].n, cur[v].token, resp[v])'
      BY <1>1 DEF AnswerIsTrue
    <3>1. CASE v = w
      BY <1>1, <1>9, <3>1 DEF Reported, c, TwilioStatuses
    <3>2. CASE v # w
      BY <1>1, <1>7, <1>9, <3>2 DEF SmsInv, AnswerIsTrue, Reported, InFlight
    <3> QED BY <3>1, <3>2
  <2> QED BY <1>6, <2>1, <2>2, <2>3, <2>4 DEF SmsInv
<1> QED BY <1>8, <1>9 DEF Send, TypeOK

(* A message reported as undelivered is undelivered: the rank is final.    *)
LEMMA UndeliveredIsFinal ==
    ASSUME TypeOK, SmsInv, NEW n \in Notifications, NEW k \in 1..attempts[n],
           Reported(n, k, "undelivered")
    PROVE  ~OnItsWay(n, k)
<1>1. PICK t \in TwilioStatuses :
         <<n, k, t>> \in twilio /\ ("undelivered" = t \/ TwilioRank["undelivered"] < TwilioRank[t])
  BY DEF Reported
<1>2. t = "undelivered"
  BY <1>1 DEF TwilioRank, TwilioStatuses
<1> QED BY <1>1, <1>2 DEF SmsInv, OneMessagePerAttempt, OnItsWay

(* The delivery statuses a Twilio status maps to.                          *)
LEMMA TwilioDeliveryCases ==
    ASSUME NEW s \in TwilioStatuses
    PROVE  /\ s # "undelivered" => TwilioDelivery[s] \in {"provider_accepted", "sent", "delivered"}
           /\ s = "undelivered" => TwilioDelivery[s] = "dead_letter"
           /\ ProviderCode(s) # "DELIVERY_OUTCOME_UNKNOWN"
BY DEF TwilioStatuses, TwilioDelivery, ProviderCode

(* A recorded answer names the message of the row's last attempt.          *)
LEMMA ProviderResultSms ==
    ASSUME TypeOK, SmsInv, NEW w \in Workers, NEW s \in TwilioStatuses,
           phase[w] = "record", resp[w] = s, RecordProviderResult(w, cur[w], s)
    PROVE  SmsInv'
<1> DEFINE c == cur[w]
<1>1. /\ c \in Claim /\ c.n \in Notifications /\ c.token \in Nat /\ c.token = attempts[c.n]
      /\ InFlight(w)
  BY DEF SmsInv, SenderIsFenced, InFlight, Claim
<1>2. CASE OwnsClaim(c)
  <2>1. /\ Settle(c.n, TwilioDelivery[s], ProviderCode(s))
        /\ Processed(w, c)
        /\ msg' = [msg EXCEPT ![c.n] = c.token]
        /\ UNCHANGED <<attempts, twilio>>
    BY <1>2 DEF RecordProviderResult
  <2>2. Reported(c.n, c.token, s)
    BY DEF SmsInv, AnswerIsTrue
  <2> HIDE DEF c
  <2>3. TwilioDelivery[s] \in DeliveryStatuses \ {"delivering"}
    BY TwilioDeliveryCases, TwilioMapType
  <2>4. ProviderCode(s) \in Codes
    BY TwilioMapType
  <2>5. /\ ClaimShape' /\ OneMessagePerAttempt' /\ ClaimsAreUnique'
        /\ BatchNotDispatched' /\ SenderIsFenced' /\ AnswerIsTrue' /\ SentIsMarked'
    BY <1>1, <1>2, <2>1, <2>3, <2>4, SettledSms DEF c
  <2>6. /\ status' = [status EXCEPT ![c.n] = TwilioDelivery[s]]
        /\ code' = [code EXCEPT ![c.n] = ProviderCode(s)]
        /\ dispatched' = dispatched \ {c.n}
    BY <2>1 DEF Settle
  <2>7. attempts[c.n] # 0 /\ status[c.n] = "delivering"
    BY <1>1, <1>2 DEF SmsInv, ClaimShape, OwnsClaim
  <2>8. MessageShape'
    BY <1>1, <2>1, <2>6, <2>7, TwilioDeliveryCases DEF SmsInv, MessageShape, TypeOK, Unknown
  <2>9. OnItsWayIsKnown'
    <3> SUFFICES ASSUME NEW n \in Notifications, NEW k \in 1..attempts[n], OnItsWay(n, k)
                 PROVE  /\ k = attempts[n]
                        /\ \/ Unknown(n)'
                           \/ status'[n] = "delivering" /\ n \in dispatched'
                           \/ msg'[n] = k /\ status'[n] \in {"provider_accepted", "sent", "delivered"}
      BY <2>1 DEF OnItsWayIsKnown, OnItsWay
    <3>1. CASE n = c.n
      <4>1. k = attempts[n]
        BY DEF SmsInv, OnItsWayIsKnown
      <4>2. s # "undelivered"
        BY <1>1, <2>2, <3>1, <4>1, UndeliveredIsFinal
      <4> QED BY <1>1, <2>1, <2>6, <3>1, <4>1, <4>2, TwilioDeliveryCases DEF TypeOK
    <3>2. CASE n # c.n
      BY <1>1, <2>1, <2>6, <3>2 DEF SmsInv, OnItsWayIsKnown, TypeOK, Unknown
    <3> QED BY <3>1, <3>2
  <2> QED BY <2>5, <2>8, <2>9 DEF SmsInv
<1>3. CASE ~OwnsClaim(c)
  <2>1. EndRun(w) /\ UNCHANGED <<status, code, attempts, token, dispatched, msg, twilio>>
    BY <1>3 DEF RecordProviderResult, claimCols, providerCols
  <2> QED BY <2>1, EndRunSms
<1> QED BY <1>2, <1>3

(* Whatever Send answered, recording it keeps the invariant.               *)
LEMMA RecordOutcomeSms ==
    ASSUME TypeOK, SmsInv, NEW w \in Workers, RecordOutcome(w)
    PROVE  SmsInv'
<1>1. phase[w] = "record" /\ InFlight(w) /\ cur[w] \in Claim
  BY DEF RecordOutcome, SmsInv, SenderIsFenced, InFlight
<1>2. CASE /\ resp[w] = "ambiguous"
           /\ CompleteWithoutProvider(w, cur[w], "dead_letter", "outcome_unknown",
                                      "DELIVERY_OUTCOME_UNKNOWN")
  BY <1>1, <1>2, CompleteSms DEF Outcomes, Codes
<1>3. CASE resp[w] \in {"retryable", "rejected"}
  <2>1. \A s \in TwilioStatuses : <<cur[w].n, cur[w].token, s>> \notin twilio
    BY <1>1, <1>3 DEF SmsInv, AnswerIsTrue
  <2>2. PICK st \in {"failed", "dead_letter"}, o \in Outcomes, cd \in Codes :
           CompleteWithoutProvider(w, cur[w], st, o, cd)
    BY <1>3 DEF RecordOutcome, RecordSafeFailure, Outcomes, Codes, TwilioStatuses
  <2> QED BY <1>1, <2>1, <2>2, CompleteSms
<1>4. CASE resp[w] \in TwilioStatuses /\ RecordProviderResult(w, cur[w], resp[w])
  BY <1>1, <1>4, ProviderResultSms
<1> QED BY <1>2, <1>3, <1>4 DEF RecordOutcome

(* Callbacks: only rows with a provider message id, which are not leased.  *)
LEMMA CallbackSms ==
    ASSUME TypeOK, SmsInv, NEW n \in Notifications, NEW k \in 1..attempts[n],
           NEW s \in TwilioStatuses, ApplyProviderCallback(n, k, s)
    PROVE  SmsInv'
<1>1. /\ msg[n] = k /\ k # 0 /\ Reported(n, k, s)
      /\ UNCHANGED <<attempts, token, dispatched, msg, phase, batch, cur, resp, twilio>>
  BY DEF ApplyProviderCallback, claimCols, workVars, TypeOK
<1>2. \A v \in Workers : InFlight(v)' <=> InFlight(v)
  BY <1>1 DEF InFlight
<1>3. k = attempts[n] /\ status[n] # "delivering" /\ ~Unknown(n)
  BY <1>1 DEF SmsInv, MessageShape
<1>4. ClaimsAreUnique' /\ AnswerIsTrue' /\ OneMessagePerAttempt'
  BY <1>1, <1>2 DEF SmsInv, ClaimsAreUnique, AnswerIsTrue, OneMessagePerAttempt, Reported
<1>5. CASE /\ status' = [status EXCEPT ![n] = TwilioDelivery[s]]
           /\ code' = [code EXCEPT ![n] = ProviderCode(s)]
  <2>1. TwilioDelivery[s] # "delivering"
    BY TwilioDeliveryCases
  <2>2. ClaimShape' /\ SentIsMarked'
    BY <1>1, <1>3, <1>5, <2>1 DEF SmsInv, ClaimShape, SentIsMarked, TypeOK
  <2>3. MessageShape'
    BY <1>1, <1>3, <1>5, TwilioDeliveryCases DEF SmsInv, MessageShape, TypeOK, Unknown
  <2>4. BatchNotDispatched'
    BY <1>1, <1>5, <2>1 DEF SmsInv, BatchNotDispatched, OwnsClaim, TypeOK, Claim
  <2>5. SenderIsFenced'
    BY <1>1, <1>2, <1>3, <1>5 DEF SmsInv, SenderIsFenced, OwnsClaim, Unknown, TypeOK, Claim
  <2>6. OnItsWayIsKnown'
    <3> SUFFICES ASSUME NEW m \in Notifications, NEW j \in 1..attempts[m], OnItsWay(m, j)
                 PROVE  /\ j = attempts[m]
                        /\ \/ Unknown(m)'
                           \/ status'[m] = "delivering" /\ m \in dispatched
                           \/ msg[m] = j /\ status'[m] \in {"provider_accepted", "sent", "delivered"}
      BY <1>1 DEF OnItsWayIsKnown, OnItsWay
    <3>1. CASE m = n
      <4>1. j = k
        BY <1>3, <3>1 DEF SmsInv, OnItsWayIsKnown
      <4>2. s # "undelivered"
        BY <1>1, <3>1, <4>1, UndeliveredIsFinal
      <4> QED BY <1>1, <1>3, <1>5, <3>1, <4>1, <4>2, TwilioDeliveryCases DEF TypeOK
    <3>2. CASE m # n
      BY <1>1, <1>5, <3>2 DEF SmsInv, OnItsWayIsKnown, TypeOK, Unknown
    <3> QED BY <3>1, <3>2
  <2> QED BY <1>4, <2>2, <2>3, <2>4, <2>5, <2>6 DEF SmsInv
<1>6. CASE UNCHANGED <<status, code, rank, ledger>>
  <2>1. ClaimShape' /\ MessageShape'
    BY <1>1, <1>6 DEF SmsInv, ClaimShape, MessageShape, Unknown
  <2>2. BatchNotDispatched' /\ SenderIsFenced'
    BY <1>1, <1>2, <1>6 DEF SmsInv, BatchNotDispatched, SenderIsFenced, Unknown, OwnsClaim
  <2>3. OnItsWayIsKnown' /\ SentIsMarked'
    BY <1>1, <1>6 DEF SmsInv, OnItsWayIsKnown, SentIsMarked, OnItsWay, Unknown
  <2> QED BY <1>4, <2>1, <2>2, <2>3 DEF SmsInv
<1> QED BY <1>5, <1>6 DEF ApplyProviderCallback

(* Requeue: the guard leaves no message on its way and no sender behind.   *)
LEMMA RequeueSms ==
    ASSUME TypeOK, SmsInv, NEW n \in Notifications, NEW key \in ActionKeys, RequeueForOwner(n, key)
    PROVE  SmsInv'
<1>1. /\ status' = [status EXCEPT ![n] = "queued"]
      /\ code' = [code EXCEPT ![n] = "none"]
      /\ token' = [token EXCEPT ![n] = 0]
      /\ dispatched' = dispatched \ {n}
      /\ msg' = [msg EXCEPT ![n] = 0]
      /\ UNCHANGED <<attempts, phase, batch, cur, resp, twilio>>
  BY DEF RequeueForOwner, Settle, workVars
<1>2. status[n] = "dead_letter" /\ ~Unknown(n)
  BY DEF RequeueForOwner, Requeueable, Unknown
<1>3. \A v \in Workers : InFlight(v)' <=> InFlight(v)
  BY <1>1 DEF InFlight
<1>4. ClaimsAreUnique' /\ AnswerIsTrue' /\ OneMessagePerAttempt'
  BY <1>1, <1>3 DEF SmsInv, ClaimsAreUnique, AnswerIsTrue, OneMessagePerAttempt, Reported
<1>5. ClaimShape' /\ SentIsMarked'
  BY <1>1 DEF SmsInv, ClaimShape, SentIsMarked, TypeOK
<1>6. MessageShape'
  BY <1>1 DEF SmsInv, MessageShape, TypeOK, Unknown
<1>7. BatchNotDispatched'
  BY <1>1 DEF SmsInv, BatchNotDispatched, OwnsClaim, TypeOK, Claim
<1>8. SenderIsFenced'
  BY <1>1, <1>2, <1>3 DEF SmsInv, SenderIsFenced, OwnsClaim, Unknown, TypeOK, Claim
<1>9. \A k \in 1..attempts[n] : ~OnItsWay(n, k)
  BY <1>2 DEF SmsInv, OnItsWayIsKnown
<1>10. OnItsWayIsKnown'
  <2> SUFFICES ASSUME NEW m \in Notifications, NEW j \in 1..attempts[m], OnItsWay(m, j)
               PROVE  /\ j = attempts[m]
                      /\ \/ Unknown(m)'
                         \/ status'[m] = "delivering" /\ m \in dispatched'
                         \/ msg'[m] = j /\ status'[m] \in {"provider_accepted", "sent", "delivered"}
    BY <1>1 DEF OnItsWayIsKnown, OnItsWay
  <2>1. m # n
    BY <1>9
  <2> QED BY <1>1, <2>1 DEF SmsInv, OnItsWayIsKnown, TypeOK, Unknown
<1> QED BY <1>4, <1>5, <1>6, <1>7, <1>8, <1>10 DEF SmsInv

(* Twilio moves a message without making another.                          *)
LEMMA TwilioProgressSms ==
    ASSUME TypeOK, SmsInv, NEW n \in Notifications, NEW k \in 1..attempts[n],
           NEW s \in TwilioStatuses, TwilioProgress(n, k, s)
    PROVE  SmsInv'
<1>1. UNCHANGED <<status, code, attempts, token, dispatched, msg, phase, batch, cur, resp>>
  BY DEF TwilioProgress, rowVars, claimCols, providerCols, workVars
<1>2. PICK t \in TwilioStatuses :
         /\ <<n, k, t>> \in twilio
         /\ TwilioRank[s] > TwilioRank[t]
         /\ twilio' = (twilio \ {<<n, k, t>>}) \cup {<<n, k, s>>}
  BY DEF TwilioProgress
<1>3. \A v \in Workers : InFlight(v)' <=> InFlight(v)
  BY <1>1 DEF InFlight
<1>4. k \in Nat
  BY DEF TypeOK
<1>5. ClaimShape' /\ MessageShape' /\ ClaimsAreUnique' /\ BatchNotDispatched' /\ SenderIsFenced'
  BY <1>1, <1>3 DEF SmsInv, ClaimShape, MessageShape, ClaimsAreUnique, BatchNotDispatched,
     SenderIsFenced, OwnsClaim, Unknown
<1>6. OneMessagePerAttempt' /\ SentIsMarked'
  BY <1>1, <1>2, <1>4 DEF SmsInv, OneMessagePerAttempt, SentIsMarked
<1>7. t # "undelivered"
  BY <1>2 DEF TwilioRank, TwilioStatuses
<1>8. OnItsWayIsKnown'
  <2> SUFFICES ASSUME NEW m \in Notifications, NEW j \in 1..attempts[m], OnItsWay(m, j)'
               PROVE  OnItsWay(m, j)
    BY <1>1 DEF SmsInv, OnItsWayIsKnown, Unknown
  <2> QED BY <1>2, <1>7 DEF OnItsWay
<1>9. AnswerIsTrue'
  <2> SUFFICES ASSUME NEW v \in Workers
               PROVE  /\ phase[v] = "send" \/ (phase[v] = "record" /\ resp[v] \in {"retryable", "rejected"})
                           => \A u \in TwilioStatuses : <<cur[v].n, cur[v].token, u>> \notin twilio'
                      /\ phase[v] = "record" /\ resp[v] \in TwilioStatuses
                           => Reported(cur[v].n, cur[v].token, resp[v])'
    BY <1>1 DEF AnswerIsTrue
  <2>1. ASSUME phase[v] = "send" \/ (phase[v] = "record" /\ resp[v] \in {"retryable", "rejected"})
        PROVE  \A u \in TwilioStatuses : <<cur[v].n, cur[v].token, u>> \notin twilio'
    BY <1>2, <2>1 DEF SmsInv, AnswerIsTrue
  <2>2. ASSUME phase[v] = "record", resp[v] \in TwilioStatuses
        PROVE  Reported(cur[v].n, cur[v].token, resp[v])'
    <3>1. PICK u \in TwilioStatuses :
             /\ <<cur[v].n, cur[v].token, u>> \in twilio
             /\ resp[v] = u \/ TwilioRank[resp[v]] < TwilioRank[u]
      BY <2>2 DEF SmsInv, AnswerIsTrue, Reported
    <3>2. CASE <<cur[v].n, cur[v].token, u>> = <<n, k, t>>
      <4>1. u = t
        BY <3>2
      <4>2. TwilioRank[resp[v]] \in Nat /\ TwilioRank[t] \in Nat /\ TwilioRank[s] \in Nat
        BY <2>2, TwilioMapType
      <4>3. TwilioRank[resp[v]] < TwilioRank[s]
        BY <1>2, <3>1, <4>1, <4>2
      <4> QED BY <1>1, <1>2, <3>2, <4>3 DEF Reported
    <3>3. CASE <<cur[v].n, cur[v].token, u>> # <<n, k, t>>
      BY <1>1, <1>2, <3>1, <3>3 DEF Reported
    <3> QED BY <3>2, <3>3
  <2> QED BY <2>1, <2>2
<1> QED BY <1>5, <1>6, <1>8, <1>9 DEF SmsInv

(* Steps that leave every variable of the invariant alone.                 *)
LEMMA StutterSms ==
    ASSUME SmsInv,
           UNCHANGED <<status, code, attempts, token, dispatched, msg, phase, batch, cur, resp, twilio>>
    PROVE  SmsInv'
<1>1. \A w \in Workers : InFlight(w)' <=> InFlight(w)
  BY DEF InFlight
<1>2. ClaimShape' /\ MessageShape' /\ OneMessagePerAttempt'
  BY DEF SmsInv, ClaimShape, MessageShape, OneMessagePerAttempt, Unknown
<1>3. ClaimsAreUnique' /\ AnswerIsTrue'
  BY <1>1 DEF SmsInv, ClaimsAreUnique, AnswerIsTrue, Reported
<1>4. BatchNotDispatched' /\ SenderIsFenced'
  BY <1>1 DEF SmsInv, BatchNotDispatched, SenderIsFenced, OwnsClaim, Unknown
<1>5. OnItsWayIsKnown' /\ SentIsMarked'
  BY DEF SmsInv, OnItsWayIsKnown, SentIsMarked, OnItsWay, Unknown
<1> QED BY <1>2, <1>3, <1>4, <1>5 DEF SmsInv

(* Every step keeps the invariant.                                         *)
LEMMA SmsStep == TypeOK /\ SmsInv /\ [Next]_vars => SmsInv'
<1> SUFFICES ASSUME TypeOK, SmsInv, [Next]_vars PROVE SmsInv'
  OBVIOUS
<1>1. ASSUME NEW w \in Workers, FinishRun(w) \/ Crash(w) PROVE SmsInv'
  <2>1. EndRun(w) /\ UNCHANGED <<status, code, attempts, token, dispatched, msg, twilio>>
    BY <1>1 DEF FinishRun, Crash, rowVars, claimCols, providerCols
  <2> QED BY <2>1, EndRunSms
<1>2. ASSUME NEW w \in Workers, Worker(w) PROVE SmsInv'
  BY <1>1, <1>2, DiscoverSms, RecoverSms, ClaimBatchSms, ChannelSms, MarkDispatchSms,
     SendSms, RecordOutcomeSms DEF Worker
<1>3. ASSUME NEW n \in Notifications, Row(n) PROVE SmsInv'
  <2>1. CASE RedactNextOwnerNotification(n) \/ LeaseExpires(n) \/ BecomesDue(n)
    <3>1. UNCHANGED <<status, code, attempts, token, dispatched, msg, phase, batch, cur, resp, twilio>>
      BY <2>1 DEF RedactNextOwnerNotification, LeaseExpires, BecomesDue, claimCols,
                  providerCols, workVars
    <3> QED BY <3>1, StutterSms
  <2> QED
    BY <1>3, <2>1, CallbackSms, RequeueSms, TwilioProgressSms DEF Row
<1>4. CASE UNCHANGED vars
  <2>1. UNCHANGED <<status, code, attempts, token, dispatched, msg, phase, batch, cur, resp, twilio>>
    BY <1>4 DEF vars, rowVars, claimCols, providerCols, workVars
  <2> QED BY <2>1, StutterSms
<1> QED BY <1>1, <1>2, <1>3, <1>4 DEF Next

-----------------------------------------------------------------------------
(* Theorems.                                                               *)

(* The model is type-correct: in particular a worker only ever sends or    *)
(* records for a claim ClaimBatch gave it (processor.go, ProcessOnce).     *)
THEOREM TypeCorrect == Spec => []TypeOK
<1>1. Init => TypeOK /\ SmsInv
  BY TypeInit, SmsInit
<1>2. TypeOK /\ SmsInv /\ [Next]_vars => (TypeOK /\ SmsInv)'
  BY TypeStep, SmsStep DEF SmsInv
<1> QED BY <1>1, <1>2, PTL DEF Spec

(* The inductive invariant holds in every reachable state.                 *)
THEOREM SmsInvariant == Spec => [](TypeOK /\ SmsInv)
<1>1. Init => TypeOK /\ SmsInv
  BY TypeInit, SmsInit
<1>2. TypeOK /\ SmsInv /\ [Next]_vars => (TypeOK /\ SmsInv)'
  BY TypeStep, SmsStep DEF SmsInv
<1> QED BY <1>1, <1>2, PTL DEF Spec

(* No owner is texted twice for one notification, whatever the number of   *)
(* workers, crashes, lease expiries and owner requeues.                    *)
THEOREM OwnerIsTextedOnce == Spec => []NoDuplicateSms
<1>1. TypeOK /\ SmsInv => NoDuplicateSms
  BY DEF SmsInv, OnItsWayIsKnown, NoDuplicateSms
<1> QED BY <1>1, SmsInvariant, PTL

(* RequeueForOwner never puts a row back to work while a message of it may *)
(* still reach the owner.                                                  *)
THEOREM RequeueNeverDuplicates == Spec => []RequeueIsSafe
<1>1. TypeOK /\ SmsInv => RequeueIsSafe
  BY DEF SmsInv, OnItsWayIsKnown, RequeueIsSafe, Requeueable, Unknown
<1> QED BY <1>1, SmsInvariant, PTL

-----------------------------------------------------------------------------
(* What the row says of its claim, its message and its body.               *)

(* A delivered row has the highest rank, so no callback is applied to it.  *)
RankIsFinal ==
    \A n \in Notifications : status[n] = "delivered" => rank[n] = TwilioRank["delivered"]

RowInv == OpenAttemptIsTheClaim /\ RedactedNeverClaimed /\ DeliveredIsTrue /\ RankIsFinal

(* No entry of an empty ledger is open.                                    *)
LEMMA RowInit == Init => RowInv
BY DEF Init, RowInv, OpenAttemptIsTheClaim, RedactedNeverClaimed, DeliveredIsTrue, RankIsFinal

(* FinishAttempt closes its own attempt and no other.                      *)
LEMMA FinishAttemptCloses ==
    ASSUME TypeOK, NEW n \in Notifications, NEW k, NEW o \in Outcomes \ {"leased"},
           FinishAttempt(n, k, o)
    PROVE  \A m \in Notifications : \A j \in 1..attempts[m] :
              ledger'[m][j] = "leased" <=> ledger[m][j] = "leased" /\ ~(m = n /\ j = k)
<1>1. \A m \in Notifications : DOMAIN ledger[m] = 1..attempts[m]
  BY DEF TypeOK
<1>2. CASE k \in DOMAIN ledger[n] /\ ledger[n][k] = "leased"
  <2>1. ledger' = [ledger EXCEPT ![n] = [@ EXCEPT ![k] = o]]
    BY <1>2 DEF FinishAttempt
  <2> QED BY <1>1, <1>2, <2>1 DEF TypeOK
<1>3. CASE ~(k \in DOMAIN ledger[n] /\ ledger[n][k] = "leased")
  BY <1>1, <1>3 DEF FinishAttempt
<1> QED BY <1>2, <1>3

(* A row that leaves 'delivering' with its attempt closed says the truth   *)
(* of its claim and its body.                                              *)
LEMMA SettledRow ==
    ASSUME TypeOK, SmsInv, RowInv, NEW n \in Notifications, NEW k,
           NEW st \in DeliveryStatuses \ {"delivering"}, NEW cd, NEW o \in Outcomes \ {"leased"},
           status[n] = "delivering", token[n] = k,
           Settle(n, st, cd), FinishAttempt(n, k, o), UNCHANGED <<attempts, redacted>>
    PROVE  OpenAttemptIsTheClaim' /\ RedactedNeverClaimed'
<1>1. /\ status' = [status EXCEPT ![n] = st]
      /\ token' = [token EXCEPT ![n] = 0]
  BY DEF Settle
<1>2. OpenAttemptIsTheClaim'
  <2> SUFFICES ASSUME NEW m \in Notifications, NEW j \in 1..attempts[m]
               PROVE  ledger'[m][j] = "leased" <=> status'[m] = "delivering" /\ token'[m] = j
    BY DEF OpenAttemptIsTheClaim
  <2>1. ledger'[m][j] = "leased" <=> ledger[m][j] = "leased" /\ ~(m = n /\ j = k)
    BY FinishAttemptCloses
  <2>2. ledger[m][j] = "leased" <=> status[m] = "delivering" /\ token[m] = j
    BY DEF RowInv, OpenAttemptIsTheClaim
  <2>3. m # n => status'[m] = status[m] /\ token'[m] = token[m]
    BY <1>1 DEF TypeOK
  <2>4. status'[n] = st
    BY <1>1 DEF TypeOK
  <2> QED BY <2>1, <2>2, <2>3, <2>4
<1>3. RedactedNeverClaimed'
  BY <1>1 DEF RowInv, RedactedNeverClaimed, TypeOK
<1> QED BY <1>2, <1>3

(* Messages stay as they are, and no row becomes delivered.                *)
LEMMA MessagesKept ==
    ASSUME RowInv, UNCHANGED <<msg, rank, twilio>>,
           \A n \in Notifications : status'[n] = "delivered" => status[n] = "delivered"
    PROVE  DeliveredIsTrue' /\ RankIsFinal'
BY DEF RowInv, DeliveredIsTrue, RankIsFinal

(* A step that leaves these columns alone.                                 *)
LEMMA RowUntouched ==
    ASSUME RowInv, UNCHANGED <<status, attempts, token, msg, rank, redacted, ledger, twilio>>
    PROVE  RowInv'
BY DEF RowInv, OpenAttemptIsTheClaim, RedactedNeverClaimed, DeliveredIsTrue, RankIsFinal

(* Recovery closes the attempt of the lease it ends.                       *)
LEMMA RecoverRow ==
    ASSUME TypeOK, SmsInv, RowInv, NEW w \in Workers, NEW x \in expired[w],
           RecoverExpiredLease(w, x)
    PROVE  RowInv'
<1>1. x.n \in Notifications
  BY DEF TypeOK, ExpiredLease
<1>2. UNCHANGED <<attempts, msg, rank, redacted, twilio>>
  BY DEF RecoverExpiredLease, providerCols, cycleCols
<1>3. CASE RecoverDispatched(x)
  <2>1. /\ status[x.n] = "delivering" /\ token[x.n] = x.token
        /\ Settle(x.n, "dead_letter", "DELIVERY_OUTCOME_UNKNOWN")
        /\ FinishAttempt(x.n, x.token, "outcome_unknown")
    BY <1>3 DEF RecoverDispatched, StillExpired
  <2>2. OpenAttemptIsTheClaim' /\ RedactedNeverClaimed'
    BY <1>1, <1>2, <2>1, SettledRow DEF DeliveryStatuses, Outcomes
  <2>3. DeliveredIsTrue' /\ RankIsFinal'
    BY <1>1, <1>2, <2>1, MessagesKept DEF Settle, TypeOK
  <2> QED BY <2>2, <2>3 DEF RowInv
<1>4. CASE RecoverBeforeDispatch(x)
  <2>1. /\ status[x.n] = "delivering" /\ token[x.n] = x.token
        /\ Settle(x.n, "failed", "DELIVERY_LEASE_EXPIRED")
        /\ FinishAttempt(x.n, x.token, "safe_retry")
    BY <1>4 DEF RecoverBeforeDispatch, StillExpired
  <2>2. OpenAttemptIsTheClaim' /\ RedactedNeverClaimed'
    BY <1>1, <1>2, <2>1, SettledRow DEF DeliveryStatuses, Outcomes
  <2>3. DeliveredIsTrue' /\ RankIsFinal'
    BY <1>1, <1>2, <2>1, MessagesKept DEF Settle, TypeOK
  <2> QED BY <2>2, <2>3 DEF RowInv
<1>5. CASE UNCHANGED <<status, code, claimCols, due, ledger>>
  BY <1>2, <1>5, RowUntouched DEF claimCols
<1> QED BY <1>3, <1>4, <1>5 DEF RecoverExpiredLease

(* A claim opens the attempt it is issued for.                             *)
LEMMA ClaimBatchRow ==
    ASSUME TypeOK, SmsInv, RowInv, NEW w \in Workers, ClaimBatch(w)
    PROVE  RowInv'
<1>1. PICK S \in SUBSET {n \in Notifications : Eligible(n)} :
         /\ status' = [n \in Notifications |-> IF n \in S THEN "delivering" ELSE status[n]]
         /\ attempts' = [n \in Notifications |-> IF n \in S THEN attempts[n] + 1 ELSE attempts[n]]
         /\ token' = [n \in Notifications |-> IF n \in S THEN attempts[n] + 1 ELSE token[n]]
         /\ ledger' = [n \in Notifications |->
                         IF n \in S THEN Append(ledger[n], "leased") ELSE ledger[n]]
  BY DEF ClaimBatch
<1>2. UNCHANGED <<msg, rank, redacted, twilio>>
  BY DEF ClaimBatch, providerCols, cycleCols
<1>3. \A n \in S : n \in Notifications /\ status[n] \in {"queued", "failed"}
  BY DEF Eligible
<1>4. OpenAttemptIsTheClaim'
  <2> SUFFICES ASSUME NEW n \in Notifications, NEW k \in 1..attempts'[n]
               PROVE  ledger'[n][k] = "leased" <=> status'[n] = "delivering" /\ token'[n] = k
    BY DEF OpenAttemptIsTheClaim
  <2>1. CASE n \in S
    <3>1. /\ ledger[n] \in Seq(Outcomes) /\ Len(ledger[n]) = attempts[n] /\ attempts[n] \in Nat
          /\ attempts'[n] = attempts[n] + 1
      BY <1>1, <2>1 DEF TypeOK
    <3>2. ledger'[n][k] = IF k <= attempts[n] THEN ledger[n][k] ELSE "leased"
      BY <1>1, <2>1, <3>1
    <3>3. k <= attempts[n] => ledger[n][k] # "leased"
      BY <1>3, <2>1, <3>1 DEF RowInv, OpenAttemptIsTheClaim
    <3> QED BY <1>1, <2>1, <3>1, <3>2, <3>3
  <2>2. CASE n \notin S
    BY <1>1, <2>2 DEF RowInv, OpenAttemptIsTheClaim, TypeOK
  <2> QED BY <2>1, <2>2
<1>5. RedactedNeverClaimed'
  BY <1>1, <1>2, <1>3 DEF RowInv, RedactedNeverClaimed, TypeOK
<1>6. DeliveredIsTrue' /\ RankIsFinal'
  BY <1>1, <1>2, MessagesKept
<1> QED BY <1>4, <1>5, <1>6 DEF RowInv

(* completeWithoutProvider closes the attempt it owns, or changes nothing. *)
LEMMA CompleteRow ==
    ASSUME TypeOK, SmsInv, RowInv, NEW w \in Workers, NEW c, c.n \in Notifications,
           NEW st \in {"failed", "dead_letter", "disabled"}, NEW o \in Outcomes \ {"leased"},
           NEW cd, CompleteWithoutProvider(w, c, st, o, cd)
    PROVE  RowInv'
<1>1. UNCHANGED <<attempts, msg, rank, redacted, twilio>>
  BY DEF CompleteWithoutProvider, providerCols, cycleCols
<1>2. CASE OwnsClaim(c) /\ Settle(c.n, st, cd) /\ FinishAttempt(c.n, c.token, o)
  <2>1. OpenAttemptIsTheClaim' /\ RedactedNeverClaimed'
    BY <1>1, <1>2, SettledRow DEF DeliveryStatuses, OwnsClaim
  <2>2. DeliveredIsTrue' /\ RankIsFinal'
    BY <1>1, <1>2, MessagesKept DEF Settle, TypeOK
  <2> QED BY <2>1, <2>2 DEF RowInv
<1>3. CASE UNCHANGED <<status, code, claimCols, due, ledger>>
  BY <1>1, <1>3, RowUntouched DEF claimCols
<1> QED BY <1>2, <1>3 DEF CompleteWithoutProvider

(* The processor's failures before a send, and its classified answers.     *)
LEMMA SafeFailureRow ==
    ASSUME TypeOK, SmsInv, RowInv, NEW w \in Workers, NEW c, c.n \in Notifications,
           NEW cd, RecordSafeFailure(w, c, cd)
    PROVE  RowInv'
<1>1. CASE CompleteWithoutProvider(w, c, "dead_letter", "dead_letter", cd)
  BY <1>1, CompleteRow DEF Outcomes
<1>2. CASE CompleteWithoutProvider(w, c, "failed", "safe_retry", cd)
  BY <1>2, CompleteRow DEF Outcomes
<1> QED BY <1>1, <1>2 DEF RecordSafeFailure

LEMMA ChannelRow ==
    ASSUME TypeOK, SmsInv, RowInv, NEW w \in Workers, NEW c \in batch[w],
           ChannelUnavailable(w, c)
    PROVE  RowInv'
<1>1. c.n \in Notifications
  BY DEF TypeOK, Claim
<1>2. CASE CompleteWithoutProvider(w, c, "disabled", "disabled", "OWNER_SMS_DISABLED")
  BY <1>1, <1>2, CompleteRow DEF Outcomes
<1>3. CASE RecordSafeFailure(w, c, "DELIVERY_CONFIG_NOT_READY")
  BY <1>1, <1>3, SafeFailureRow
<1> QED BY <1>2, <1>3 DEF ChannelUnavailable

(* A reported status of rank 50 that says delivered is what Twilio holds.  *)
LEMMA ReportedDelivered ==
    ASSUME NEW n, NEW k, NEW s \in TwilioStatuses, Reported(n, k, s),
           TwilioDelivery[s] = "delivered"
    PROVE  <<n, k, "delivered">> \in twilio /\ TwilioRank[s] = TwilioRank["delivered"]
<1>1. s = "delivered"
  BY DEF TwilioStatuses, TwilioDelivery
<1>2. PICK t \in TwilioStatuses :
         <<n, k, t>> \in twilio /\ (s = t \/ TwilioRank[s] < TwilioRank[t])
  BY DEF Reported
<1>3. t = "delivered"
  BY <1>1, <1>2 DEF TwilioRank, TwilioStatuses
<1> QED BY <1>1, <1>2, <1>3

(* The answer of the provider closes the attempt and names its message.    *)
LEMMA ProviderResultRow ==
    ASSUME TypeOK, SmsInv, RowInv, NEW w \in Workers, NEW s \in TwilioStatuses,
           phase[w] = "record", resp[w] = s, RecordProviderResult(w, cur[w], s)
    PROVE  RowInv'
<1> DEFINE c == cur[w]
<1>1. c.n \in Notifications /\ c.token \in Nat /\ Reported(c.n, c.token, s)
  BY DEF SmsInv, SenderIsFenced, AnswerIsTrue, InFlight, Claim
<1>2. UNCHANGED <<attempts, redacted, twilio>>
  BY DEF RecordProviderResult, cycleCols
<1>3. CASE /\ OwnsClaim(c)
           /\ Settle(c.n, TwilioDelivery[s], ProviderCode(s))
           /\ msg' = [msg EXCEPT ![c.n] = c.token]
           /\ rank' = [rank EXCEPT ![c.n] = TwilioRank[s]]
           /\ FinishAttempt(c.n, c.token, ProviderOutcome[s])
  <2>1. TwilioDelivery[s] \in DeliveryStatuses \ {"delivering"}
    BY TwilioMapType, TwilioDeliveryCases
  <2>2. ProviderOutcome[s] \in Outcomes \ {"leased"}
    BY TwilioMapType
  <2> HIDE DEF c
  <2>3. OpenAttemptIsTheClaim' /\ RedactedNeverClaimed'
    BY <1>1, <1>2, <1>3, <2>1, <2>2, SettledRow DEF OwnsClaim
  <2>4. TwilioDelivery[s] = "delivered" =>
          <<c.n, c.token, "delivered">> \in twilio /\ TwilioRank[s] = TwilioRank["delivered"]
    BY <1>1, ReportedDelivered
  <2>5. status' = [status EXCEPT ![c.n] = TwilioDelivery[s]]
    BY <1>3 DEF Settle
  <2>6. DeliveredIsTrue'
    BY <1>1, <1>2, <1>3, <2>4, <2>5 DEF RowInv, DeliveredIsTrue, TypeOK
  <2>7. RankIsFinal'
    BY <1>1, <1>3, <2>4, <2>5 DEF RowInv, RankIsFinal, TypeOK
  <2> QED BY <2>3, <2>6, <2>7 DEF RowInv
<1>4. CASE UNCHANGED <<status, code, claimCols, providerCols, ledger>>
  BY <1>2, <1>4, RowUntouched DEF claimCols, providerCols
<1> QED BY <1>3, <1>4 DEF RecordProviderResult

LEMMA RecordOutcomeRow ==
    ASSUME TypeOK, SmsInv, RowInv, NEW w \in Workers, RecordOutcome(w)
    PROVE  RowInv'
<1>1. phase[w] = "record" /\ cur[w].n \in Notifications
  BY DEF RecordOutcome, SmsInv, SenderIsFenced, InFlight, Claim
<1>2. CASE CompleteWithoutProvider(w, cur[w], "dead_letter", "outcome_unknown",
                                   "DELIVERY_OUTCOME_UNKNOWN")
  BY <1>1, <1>2, CompleteRow DEF Outcomes
<1>3. CASE RecordSafeFailure(w, cur[w], "DELIVERY_REQUEST_INVALID")
  BY <1>1, <1>3, SafeFailureRow
<1>4. CASE CompleteWithoutProvider(w, cur[w], "dead_letter", "dead_letter",
                                   "TWILIO_MESSAGE_REJECTED")
  BY <1>1, <1>4, CompleteRow DEF Outcomes
<1>5. CASE resp[w] \in TwilioStatuses /\ RecordProviderResult(w, cur[w], resp[w])
  BY <1>1, <1>5, ProviderResultRow
<1> QED BY <1>2, <1>3, <1>4, <1>5 DEF RecordOutcome

(* A message enters Twilio; none leaves.                                   *)
LEMMA SendRow ==
    ASSUME TypeOK, RowInv, NEW w \in Workers, Send(w)
    PROVE  RowInv'
<1>1. UNCHANGED <<status, attempts, token, msg, rank, redacted, ledger>>
  BY DEF Send, rowVars, claimCols, providerCols, cycleCols
<1>2. twilio \subseteq twilio'
  BY DEF Send
<1> QED
  BY <1>1, <1>2 DEF RowInv, OpenAttemptIsTheClaim, RedactedNeverClaimed, DeliveredIsTrue,
     RankIsFinal

(* A callback moves a row that is not claimed, and never a delivered one.  *)
LEMMA CallbackRow ==
    ASSUME TypeOK, SmsInv, RowInv, NEW n \in Notifications, NEW k \in 1..attempts[n],
           NEW s \in TwilioStatuses, ApplyProviderCallback(n, k, s)
    PROVE  RowInv'
<1>1. /\ msg[n] = k /\ k # 0 /\ Reported(n, k, s)
      /\ UNCHANGED <<attempts, token, msg, redacted, twilio>>
  BY DEF ApplyProviderCallback, claimCols, cycleCols, TypeOK
<1>2. status[n] \in {"provider_accepted", "sent", "delivered", "dead_letter"}
  BY <1>1 DEF SmsInv, MessageShape
<1>3. CASE /\ status' = [status EXCEPT ![n] = TwilioDelivery[s]]
           /\ rank' = [rank EXCEPT ![n] = TwilioRank[s]]
           /\ ledger' = [ledger EXCEPT ![n] = [@ EXCEPT ![k] = ProviderOutcome[s]]]
  <2>1. /\ TwilioDelivery[s] \in {"provider_accepted", "sent", "delivered", "dead_letter"}
        /\ ProviderOutcome[s] # "leased"
    BY TwilioDeliveryCases, TwilioMapType
  <2>2. OpenAttemptIsTheClaim'
    <3> SUFFICES ASSUME NEW m \in Notifications, NEW j \in 1..attempts[m]
                 PROVE  ledger'[m][j] = "leased" <=> status'[m] = "delivering" /\ token[m] = j
      BY <1>1 DEF OpenAttemptIsTheClaim
    <3>1. ledger[m][j] = "leased" <=> status[m] = "delivering" /\ token[m] = j
      BY DEF RowInv, OpenAttemptIsTheClaim
    <3>2. CASE m = n
      <4>1. DOMAIN ledger[n] = 1..attempts[n]
        BY DEF TypeOK
      <4>2. ledger'[n][j] # "leased"
        BY <1>2, <1>3, <2>1, <3>1, <3>2, <4>1 DEF TypeOK
      <4> QED BY <1>3, <2>1, <3>2, <4>2 DEF TypeOK
    <3>3. CASE m # n
      BY <1>3, <3>1, <3>3 DEF TypeOK
    <3> QED BY <3>2, <3>3
  <2>3. RedactedNeverClaimed'
    BY <1>1, <1>3, <2>1 DEF RowInv, RedactedNeverClaimed, TypeOK
  <2>4. TwilioDelivery[s] = "delivered" =>
          <<n, k, "delivered">> \in twilio /\ TwilioRank[s] = TwilioRank["delivered"]
    BY <1>1, ReportedDelivered
  <2>5. DeliveredIsTrue' /\ RankIsFinal'
    BY <1>1, <1>3, <2>4 DEF RowInv, DeliveredIsTrue, RankIsFinal, TypeOK
  <2> QED BY <2>2, <2>3, <2>5 DEF RowInv
<1>4. CASE UNCHANGED <<status, code, rank, ledger>>
  BY <1>1, <1>4, RowUntouched
<1> QED BY <1>3, <1>4 DEF ApplyProviderCallback

(* Requeue: only a dead letter that keeps its body, whose attempt is over. *)
LEMMA RequeueRow ==
    ASSUME TypeOK, SmsInv, RowInv, NEW n \in Notifications, NEW key \in ActionKeys,
           RequeueForOwner(n, key)
    PROVE  RowInv'
<1>1. /\ n \notin redacted /\ status[n] = "dead_letter"
      /\ status' = [status EXCEPT ![n] = "queued"]
      /\ token' = [token EXCEPT ![n] = 0]
      /\ msg' = [msg EXCEPT ![n] = 0]
      /\ rank' = [rank EXCEPT ![n] = 0]
      /\ UNCHANGED <<attempts, redacted, ledger, twilio>>
  BY DEF RequeueForOwner, Requeueable, Settle
<1>2. OpenAttemptIsTheClaim'
  BY <1>1 DEF RowInv, OpenAttemptIsTheClaim, TypeOK
<1>3. RedactedNeverClaimed' /\ DeliveredIsTrue' /\ RankIsFinal'
  BY <1>1 DEF RowInv, RedactedNeverClaimed, DeliveredIsTrue, RankIsFinal, TypeOK
<1> QED BY <1>2, <1>3 DEF RowInv

(* Nothing is past 'delivered' at Twilio.                                  *)
LEMMA TwilioProgressRow ==
    ASSUME RowInv, NEW n \in Notifications, NEW k \in 1..attempts[n],
           NEW s \in TwilioStatuses, TwilioProgress(n, k, s)
    PROVE  RowInv'
<1>1. UNCHANGED <<status, attempts, token, msg, rank, redacted, ledger>>
  BY DEF TwilioProgress, rowVars, claimCols, providerCols, cycleCols
<1>2. \A m, j : <<m, j, "delivered">> \in twilio => <<m, j, "delivered">> \in twilio'
  BY DEF TwilioProgress, TwilioRank, TwilioStatuses
<1> QED
  BY <1>1, <1>2 DEF RowInv, OpenAttemptIsTheClaim, RedactedNeverClaimed, DeliveredIsTrue,
     RankIsFinal

(* Every step keeps RowInv.                                                *)
LEMMA RowStep == TypeOK /\ SmsInv /\ RowInv /\ [Next]_vars => RowInv'
<1> SUFFICES ASSUME TypeOK, SmsInv, RowInv, [Next]_vars PROVE RowInv'
  OBVIOUS
<1>1. ASSUME NEW w \in Workers, Worker(w) \/ Crash(w) PROVE RowInv'
  <2>1. CASE DiscoverExpiredLeases(w)
    BY <2>1, RowUntouched DEF DiscoverExpiredLeases, rowVars, claimCols, providerCols, cycleCols
  <2>2. CASE \E x \in expired[w] : RecoverExpiredLease(w, x)
    BY <2>2, RecoverRow
  <2>3. CASE ClaimBatch(w)
    BY <2>3, ClaimBatchRow
  <2>4. CASE FinishRun(w)
    BY <2>4, RowUntouched DEF FinishRun, rowVars, claimCols, providerCols, cycleCols
  <2>5. CASE \E c \in batch[w] : ChannelUnavailable(w, c)
    BY <2>5, ChannelRow
  <2>6. CASE \E c \in batch[w] : MarkDispatchStarted(w, c)
    BY <2>6, RowUntouched DEF MarkDispatchStarted, providerCols, cycleCols
  <2>7. CASE Send(w)
    BY <2>7, SendRow
  <2>8. CASE RecordOutcome(w)
    BY <2>8, RecordOutcomeRow
  <2>9. CASE Crash(w)
    BY <2>9, RowUntouched DEF Crash, rowVars, claimCols, providerCols, cycleCols
  <2> QED BY <1>1, <2>1, <2>2, <2>3, <2>4, <2>5, <2>6, <2>7, <2>8, <2>9 DEF Worker
<1>2. ASSUME NEW n \in Notifications, Row(n) PROVE RowInv'
  <2>1. CASE \E key \in ActionKeys : RequeueForOwner(n, key)
    BY <2>1, RequeueRow
  <2>2. CASE RedactNextOwnerNotification(n)
    <3>1. /\ status[n] \in {"delivered", "dead_letter", "disabled"}
          /\ redacted' = redacted \cup {n}
          /\ UNCHANGED <<status, attempts, token, msg, rank, ledger, twilio>>
      BY <2>2 DEF RedactNextOwnerNotification, claimCols, providerCols
    <3> QED
      BY <3>1 DEF RowInv, OpenAttemptIsTheClaim, RedactedNeverClaimed, DeliveredIsTrue,
         RankIsFinal
  <2>3. CASE LeaseExpires(n)
    BY <2>3, RowUntouched DEF LeaseExpires, providerCols, cycleCols
  <2>4. CASE BecomesDue(n)
    BY <2>4, RowUntouched DEF BecomesDue, claimCols, providerCols, cycleCols
  <2>5. CASE \E k \in 1..attempts[n], s \in TwilioStatuses : ApplyProviderCallback(n, k, s)
    BY <2>5, CallbackRow
  <2>6. CASE \E k \in 1..attempts[n], s \in TwilioStatuses : TwilioProgress(n, k, s)
    BY <2>6, TwilioProgressRow
  <2> QED BY <1>2, <2>1, <2>2, <2>3, <2>4, <2>5, <2>6 DEF Row
<1>3. CASE UNCHANGED vars
  BY <1>3, RowUntouched DEF vars, rowVars, claimCols, providerCols, cycleCols
<1> QED BY <1>1, <1>2, <1>3 DEF Next

(* What a row says of its attempt is, in every reachable state, what the   *)
(* ledger, the provider and the workers know of it.                        *)
THEOREM RowInvariant == Spec => [](TypeOK /\ SmsInv /\ RowInv)
<1>1. Init => RowInv
  BY RowInit
<1>2. TypeOK /\ SmsInv /\ RowInv /\ [Next]_vars => RowInv'
  BY RowStep
<1> QED BY <1>1, <1>2, SmsInvariant, PTL DEF Spec

(* What the owner is shown is true: an open ledger entry is the claim that *)
(* is being worked on, 'delivered' is what Twilio delivered, and a body    *)
(* that was redacted is not about to be sent.                              *)
THEOREM RowIsTrue == Spec => []RowTellsTheTruth
<1>1. RowInv => RowTellsTheTruth
  BY DEF RowInv, RowTellsTheTruth
<1> QED BY <1>1, RowInvariant, PTL

-----------------------------------------------------------------------------
(* What is settled stays settled.                                          *)

DeliveredKept == \A n \in Notifications : status[n] = "delivered" => status'[n] = "delivered"
UnknownKept ==
    \A n \in Notifications : Unknown(n) => Unknown(n)' /\ attempts'[n] = attempts[n]

(* A row that is neither delivered nor unknown may move.                   *)
LEMMA OtherRowMoves ==
    ASSUME TypeOK, NEW n \in Notifications, status[n] # "delivered", ~Unknown(n),
           NEW st, NEW cd,
           status' = [status EXCEPT ![n] = st], code' = [code EXCEPT ![n] = cd],
           UNCHANGED attempts
    PROVE  DeliveredKept /\ UnknownKept
BY DEF DeliveredKept, UnknownKept, Unknown, TypeOK

LEMMA NoRowMoves ==
    ASSUME UNCHANGED <<status, code, attempts>>
    PROVE  DeliveredKept /\ UnknownKept
BY DEF DeliveredKept, UnknownKept, Unknown

LEMMA CompleteKeeps ==
    ASSUME TypeOK, NEW w \in Workers, NEW c, c.n \in Notifications, NEW st, NEW o, NEW cd,
           CompleteWithoutProvider(w, c, st, o, cd)
    PROVE  DeliveredKept /\ UnknownKept
<1>1. UNCHANGED attempts
  BY DEF CompleteWithoutProvider
<1>2. CASE OwnsClaim(c) /\ Settle(c.n, st, cd)
  BY <1>1, <1>2, OtherRowMoves DEF Settle, OwnsClaim, Unknown
<1>3. CASE UNCHANGED <<status, code>>
  BY <1>1, <1>3, NoRowMoves
<1> QED BY <1>2, <1>3 DEF CompleteWithoutProvider

LEMMA WorkerKeeps ==
    ASSUME TypeOK, SmsInv, NEW w \in Workers, Worker(w)
    PROVE  DeliveredKept /\ UnknownKept
<1>1. CASE DiscoverExpiredLeases(w) \/ FinishRun(w) \/ Send(w)
  BY <1>1, NoRowMoves DEF DiscoverExpiredLeases, FinishRun, Send, rowVars
<1>2. ASSUME NEW x \in expired[w], RecoverExpiredLease(w, x)
      PROVE  DeliveredKept /\ UnknownKept
  <2>1. x.n \in Notifications /\ UNCHANGED attempts
    BY <1>2 DEF TypeOK, ExpiredLease, RecoverExpiredLease
  <2>2. CASE RecoverDispatched(x) \/ RecoverBeforeDispatch(x)
    BY <2>1, <2>2, OtherRowMoves DEF RecoverDispatched, RecoverBeforeDispatch, StillExpired,
       Settle, Unknown
  <2>3. CASE UNCHANGED <<status, code>>
    BY <2>1, <2>3, NoRowMoves
  <2> QED BY <1>2, <2>2, <2>3 DEF RecoverExpiredLease
<1>3. CASE ClaimBatch(w)
  <2>1. PICK S \in SUBSET {n \in Notifications : Eligible(n)} :
          /\ status' = [n \in Notifications |-> IF n \in S THEN "delivering" ELSE status[n]]
          /\ code' = [n \in Notifications |-> IF n \in S THEN "none" ELSE code[n]]
          /\ attempts' = [n \in Notifications |->
                            IF n \in S THEN attempts[n] + 1 ELSE attempts[n]]
    BY <1>3 DEF ClaimBatch
  <2>2. \A n \in S : status[n] \in {"queued", "failed"}
    BY DEF Eligible
  <2> QED BY <2>1, <2>2 DEF DeliveredKept, UnknownKept, Unknown
<1>4. ASSUME NEW c \in batch[w], ChannelUnavailable(w, c)
      PROVE  DeliveredKept /\ UnknownKept
  <2>1. c.n \in Notifications
    BY DEF TypeOK, Claim
  <2> QED BY <1>4, <2>1, CompleteKeeps DEF ChannelUnavailable, RecordSafeFailure
<1>5. CASE \E c \in batch[w] : MarkDispatchStarted(w, c)
  BY <1>5, NoRowMoves DEF MarkDispatchStarted
<1>6. CASE RecordOutcome(w)
  <2>1. cur[w].n \in Notifications
    BY <1>6 DEF RecordOutcome, SmsInv, SenderIsFenced, InFlight, Claim
  <2>2. CASE resp[w] \in TwilioStatuses /\ RecordProviderResult(w, cur[w], resp[w])
    <3>1. UNCHANGED attempts
      BY <2>2 DEF RecordProviderResult
    <3>2. CASE /\ OwnsClaim(cur[w])
               /\ Settle(cur[w].n, TwilioDelivery[resp[w]], ProviderCode(resp[w]))
      BY <2>1, <3>1, <3>2, OtherRowMoves DEF Settle, OwnsClaim, Unknown
    <3>3. CASE UNCHANGED <<status, code>>
      BY <3>1, <3>3, NoRowMoves
    <3> QED BY <2>2, <3>2, <3>3 DEF RecordProviderResult
  <2> QED BY <1>6, <2>1, <2>2, CompleteKeeps DEF RecordOutcome, RecordSafeFailure
<1> QED BY <1>1, <1>2, <1>3, <1>4, <1>5, <1>6 DEF Worker

LEMMA RowKeeps ==
    ASSUME TypeOK, SmsInv, RowInv, NEW n \in Notifications, Row(n)
    PROVE  DeliveredKept /\ UnknownKept
<1>1. CASE \E key \in ActionKeys : RequeueForOwner(n, key)
  <2>1. /\ status' = [status EXCEPT ![n] = "queued"]
        /\ code' = [code EXCEPT ![n] = "none"]
        /\ status[n] = "dead_letter" /\ ~Unknown(n) /\ UNCHANGED attempts
    BY <1>1 DEF RequeueForOwner, Requeueable, Settle, Unknown
  <2> QED BY <2>1, OtherRowMoves
<1>2. ASSUME NEW k \in 1..attempts[n], NEW s \in TwilioStatuses, ApplyProviderCallback(n, k, s)
      PROVE  DeliveredKept /\ UnknownKept
  <2>1. msg[n] = k /\ k # 0 /\ UNCHANGED attempts
    BY <1>2 DEF ApplyProviderCallback, TypeOK
  <2>2. ~Unknown(n)
    BY <2>1 DEF SmsInv, MessageShape
  <2>3. CASE /\ TwilioRank[s] > rank[n]
             /\ status' = [status EXCEPT ![n] = TwilioDelivery[s]]
             /\ code' = [code EXCEPT ![n] = ProviderCode(s)]
    <3>1. TwilioRank[s] \in 1..50
      BY TwilioMapType
    <3>2. status[n] # "delivered"
      BY <2>3, <3>1 DEF RowInv, RankIsFinal, TwilioRank
    <3> QED BY <2>1, <2>2, <2>3, <3>2, OtherRowMoves
  <2>4. CASE UNCHANGED <<status, code>>
    BY <2>1, <2>4, NoRowMoves
  <2> QED BY <1>2, <2>3, <2>4 DEF ApplyProviderCallback
<1>3. CASE RedactNextOwnerNotification(n) \/ LeaseExpires(n) \/ BecomesDue(n)
  BY <1>3, NoRowMoves DEF RedactNextOwnerNotification, LeaseExpires, BecomesDue
<1>4. CASE \E k \in 1..attempts[n], s \in TwilioStatuses : TwilioProgress(n, k, s)
  BY <1>4, NoRowMoves DEF TwilioProgress, rowVars
<1> QED BY <1>1, <1>2, <1>3, <1>4 DEF Row

(* A delivery is final and an unknown outcome is never tried again: no     *)
(* late callback, lease recovery, stale worker or requeue moves the row.   *)
THEOREM SettledRowsStay == Spec => SettledStays
<1>1. TypeOK /\ SmsInv /\ RowInv /\ [Next]_vars => [DeliveredKept]_vars /\ [UnknownKept]_vars
  <2> SUFFICES ASSUME TypeOK, SmsInv, RowInv, Next PROVE DeliveredKept /\ UnknownKept
    OBVIOUS
  <2>1. ASSUME NEW w \in Workers, Crash(w) PROVE DeliveredKept /\ UnknownKept
    BY <2>1, NoRowMoves DEF Crash, rowVars
  <2> QED BY <2>1, WorkerKeeps, RowKeeps DEF Next
<1>2. Spec => [][DeliveredKept]_vars /\ [][UnknownKept]_vars
  BY <1>1, RowInvariant, PTL DEF Spec
<1> QED BY <1>2 DEF SettledStays, DeliveredIsFinal, UnknownIsNeverRetried, DeliveredKept, UnknownKept
================================================================================
