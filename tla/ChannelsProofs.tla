--------------------------- MODULE ChannelsProofs ---------------------------
(***************************************************************************)
(* Proofs about what reaches the program from outside and what it sends    *)
(* back: the texts to customers, Square's events, the sessions of the      *)
(* calls and the voice stream, for any number of messages, senders,        *)
(* workers, handlers, calls, salons and utterances and any size of the     *)
(* stream's buffers: each component alone, and the channels as MCChannels  *)
(* composes them.                                                          *)
(***************************************************************************)
EXTENDS MCChannels, FiniteSetTheorems, SequenceTheorems, WellFoundedInduction, TLAPS

-----------------------------------------------------------------------------
\* The texts to customers: the rows.

Reported == {"provider_accepted", "sent", "delivered"}
SmsStatuses == {"queued", "quiet_hours", "delivering", "failed", "dead_letter", "suppressed"}
                   \cup Reported
DeliveryRows == [status : SmsStatuses, attempts : Nat, requeues : 0 .. MaxOwnerRequeues,
                 token : Nat, live : BOOLEAN, dispatched : BOOLEAN, consentV : Nat,
                 policyV : Nat, msg : Nat, rank : {0, 10, 30, 50}, unknown : BOOLEAN,
                 redacted : BOOLEAN, stops : Nat]
SendAnswers == TextStatus \cup {"ambiguous", "retryable", "rejected"}
DispatchPlans == {"suppressed", "quiet_hours", "safe_retry", "mark"}
SenderRows == [phase : {"claimed"}, d : SmsRows, plan : {"none"}, token : Nat \ {0}]
    \cup [phase : {"planned"}, d : SmsRows, plan : DispatchPlans, token : Nat \ {0}]
    \cup [phase : {"send"}, d : SmsRows, plan : Nat, token : Nat \ {0}]
    \cup [phase : {"record"}, d : SmsRows, plan : SendAnswers, token : Nat \ {0}]
TextRows == [d : SmsRows, token : Nat \ {0}, by : Senders, marked : Nat, sent : Nat,
             state : TextStatus]
ConsentRows == [status : {"none", "pending", "consented", "declined", "opted_out"},
                version : 0 .. MaxConsent, stops : Nat]

(* A row by itself: its token is its latest attempt while it is delivered  *)
(* and NULL otherwise, an outcome that is not known stays a dead letter,   *)
(* and what a callback word of an earlier attempt is final.                *)
RowFits(row) ==
    /\ row.attempts <= (row.requeues + 1) * MaxSmsAttempts
    /\ row.token = IF row.status = "delivering" THEN row.attempts ELSE 0
    /\ row.status = "delivering" => row.attempts # 0
    /\ row.dispatched => row.status = "delivering"
    /\ row.unknown => row.status = "dead_letter"
    /\ row.status \in Reported \/ row.msg = 0 \/ row.rank = 50
    /\ row.status \in Reported => row.rank # 0
\* A row of the consent there is was enqueued after the same STOPs.
RowConsented(row, con) ==
    row.consentV <= con.version /\ (row.consentV = con.version => row.stops = con.stops)

\* The latest attempt may be at Twilio, and the row knows it.
UnderWay(row) == row.dispatched \/ row.unknown
NoText(s, T) == \A t \in T : t.d = s.d => t.token # s.token

(* What a worker holds of a row: before the dispatch marker nothing was    *)
(* sent, after it the attempt is the row's latest and under way.           *)
SenderFits(s, row, T) ==
    /\ row # NoRow /\ s.token <= row.attempts
    /\ s.phase \in {"claimed", "planned"} =>
          (row.token = s.token => ~ row.dispatched) /\ NoText(s, T)
    /\ s.phase = "send" =>
          /\ s.plan = row.stops /\ s.token = row.attempts /\ UnderWay(row) /\ NoText(s, T)
    /\ s.phase = "record" /\ s.plan \in {"retryable", "rejected"} => NoText(s, T)
    /\ s.phase = "record" /\ s.plan = "undelivered" =>
          \A t \in T : t.d = s.d /\ t.token = s.token => t.state = "undelivered"

(* A text that may still be read is of the row's latest attempt, and the   *)
(* row knows it.                                                           *)
TextFits(t, row) ==
    /\ row # NoRow /\ t.token <= row.attempts /\ t.marked = row.stops
    /\ t.state # "undelivered" =>
          /\ t.token = row.attempts
          /\ UnderWay(row) \/ (row.msg = t.token /\ row.status \in Reported)

PolicyTyped == smsPolicy.version \in Nat
ConsentTyped == consent \in ConsentRows /\ (consent.status = "opted_out" => consent.stops > 0)
SourceTyped == source.version \in 0 .. MaxSource
DeliveriesHold ==
    /\ smsRow \in [SmsRows -> DeliveryRows \cup {NoRow}]
    /\ \A d \in SmsRows : smsRow[d] # NoRow =>
          d <= source.version /\ RowFits(smsRow[d]) /\ RowConsented(smsRow[d], consent)
SendersHold ==
    /\ sender \in [Senders -> SenderRows \cup {IdleSender}]
    /\ \A w \in Senders : sender[w] # IdleSender =>
          SenderFits(sender[w], smsRow[sender[w].d], texts)
    /\ \A v, w \in Senders :
          sender[v] # IdleSender /\ sender[w] # IdleSender /\ sender[v].d = sender[w].d
          /\ sender[v].token = sender[w].token => v = w
TextsHold ==
    /\ texts \subseteq TextRows
    /\ \A t \in texts : TextFits(t, smsRow[t.d])
    /\ \A t, u \in texts : t.d = u.d /\ t.token = u.token => t = u

SmsInv == PolicyTyped /\ ConsentTyped /\ SourceTyped /\ DeliveriesHold /\ SendersHold /\ TextsHold

LEMMA SmsInitially == SmsInit => SmsInv
<1> SUFFICES ASSUME SmsInit PROVE SmsInv
  OBVIOUS
<1>1. PolicyTyped /\ SourceTyped
  BY SmsConstants DEF SmsInit, PolicyTyped, SourceTyped
<1>2. ConsentTyped
  <2>1. PICK c : c = [status |-> "none", version |-> 0, stops |-> 0]
    OBVIOUS
  <2>2. c \in ConsentRows /\ consent = c
    BY <2>1, SmsConstants DEF ConsentRows, SmsInit
  <2> QED BY <2>1, <2>2 DEF ConsentTyped
<1>3. DeliveriesHold
  BY DEF SmsInit, DeliveriesHold
<1>4. SendersHold
  BY DEF SmsInit, SendersHold
<1>5. TextsHold
  BY DEF SmsInit, TextsHold
<1> QED BY <1>1, <1>2, <1>3, <1>4, <1>5 DEF SmsInv

-----------------------------------------------------------------------------
\* What the parts of a step keep.

LEMMA KindsOfSenders ==
    ASSUME NEW s \in SenderRows
    PROVE  /\ s # IdleSender /\ s.d \in SmsRows /\ s.token \in Nat \ {0}
           /\ s.phase \in {"claimed", "planned", "send", "record"}
           /\ s.phase = "planned" => s.plan \in DispatchPlans
           /\ s.phase = "send" => s.plan \in Nat
           /\ s.phase = "record" => s.plan \in SendAnswers
BY DEF SenderRows, IdleSender, SendAnswers

LEMMA RowsAreNotNone == \A row \in DeliveryRows : row # NoRow /\ row.status # "none"
BY DEF DeliveryRows, NoRow, SmsStatuses, Reported

\* One worker goes on, and the others' rows and claims stay what they are.
LEMMA SenderWritten ==
    ASSUME SendersHold, NEW w \in Senders, NEW s \in SenderRows \cup {IdleSender},
           sender' = [sender EXCEPT ![w] = s],
           \A v \in Senders \ {w} : sender[v] # IdleSender =>
               SenderFits(sender[v], smsRow'[sender[v].d], texts'),
           s # IdleSender => SenderFits(s, smsRow'[s.d], texts'),
           s # IdleSender => \A v \in Senders \ {w} :
               sender[v] # IdleSender /\ sender[v].d = s.d => sender[v].token # s.token
    PROVE  SendersHold'
<1>1. sender' \in [Senders -> SenderRows \cup {IdleSender}] /\ sender'[w] = s
      /\ \A v \in Senders \ {w} : sender'[v] = sender[v]
  BY DEF SendersHold
<1>2. ASSUME NEW v \in Senders, sender'[v] # IdleSender
      PROVE  SenderFits(sender'[v], smsRow'[sender'[v].d], texts')
  BY <1>1, <1>2
<1>3. ASSUME NEW u \in Senders, NEW v \in Senders,
             sender'[u] # IdleSender, sender'[v] # IdleSender,
             sender'[u].d = sender'[v].d, sender'[u].token = sender'[v].token
      PROVE  u = v
  BY <1>1, <1>3 DEF SendersHold
<1>4. sender' \in [Senders -> SenderRows \cup {IdleSender}]
  BY <1>1
<1>5. \A v \in Senders : sender'[v] # IdleSender =>
         SenderFits(sender'[v], smsRow'[sender'[v].d], texts')
  BY <1>2
<1>6. \A u, v \in Senders :
         sender'[u] # IdleSender /\ sender'[v] # IdleSender /\ sender'[u].d = sender'[v].d
         /\ sender'[u].token = sender'[v].token => u = v
  BY <1>3
<1> QED BY <1>4, <1>5, <1>6, Zenon DEF SendersHold

(* A row that goes from one state to another leaves what workers hold of   *)
(* it: a lost claim stays lost.                                            *)
RowGoes(old, new) ==
    /\ new.attempts >= old.attempts /\ new.stops = old.stops
    /\ new.token \in {old.token, 0, old.attempts + 1}
    /\ new.dispatched => old.dispatched /\ new.token = old.token

LEMMA SenderFollows ==
    ASSUME NEW s \in SenderRows, NEW old \in DeliveryRows, NEW new \in DeliveryRows, NEW T,
           RowGoes(old, new), SenderFits(s, old, T),
           s.phase = "send" => UnderWay(new) /\ new.attempts = old.attempts
    PROVE  SenderFits(s, new, T)
<1>1. s.token \in Nat \ {0}
  BY KindsOfSenders
<1>2. old.attempts \in Nat /\ new.attempts \in Nat /\ old.token \in Nat /\ new.token \in Nat
      /\ old.dispatched \in BOOLEAN /\ new.dispatched \in BOOLEAN
  BY DEF DeliveryRows
<1>3. new # NoRow
  BY RowsAreNotNone
<1> QED BY <1>1, <1>2, <1>3 DEF SenderFits, RowGoes

\* What is under way in a row stays so, except by the worker that sent it.
LEMMA SendersFollow ==
    ASSUME SmsInv, NEW d \in SmsRows, smsRow[d] # NoRow, NEW new \in DeliveryRows,
           smsRow' = [smsRow EXCEPT ![d] = new], RowGoes(smsRow[d], new), UNCHANGED texts,
           NEW w \in Senders, sender[w] # IdleSender,
           sender[w].d = d /\ sender[w].phase = "send" =>
               UnderWay(new) /\ new.attempts = smsRow[d].attempts
    PROVE  SenderFits(sender[w], smsRow'[sender[w].d], texts')
<1>1. PICK s : s = sender[w]
  OBVIOUS
<1>2. s \in SenderRows /\ SenderFits(s, smsRow[s.d], texts)
  BY <1>1 DEF SmsInv, SendersHold
<1>3. s.d \in SmsRows
  BY <1>2, KindsOfSenders
<1>4. PICK old \in DeliveryRows : old = smsRow[d]
  BY DEF SmsInv, DeliveriesHold
<1>5. CASE s.d # d
  BY <1>1, <1>2, <1>3, <1>5 DEF SmsInv, DeliveriesHold
<1>6. CASE s.d = d
  BY <1>1, <1>2, <1>4, <1>6, SenderFollows DEF SmsInv, DeliveriesHold
<1> QED BY <1>5, <1>6

\* A row is written: it is a row, and every text about it still fits.
LEMMA RowWritten ==
    ASSUME SmsInv, NEW d \in SmsRows, smsRow[d] # NoRow, NEW new \in DeliveryRows,
           smsRow' = [smsRow EXCEPT ![d] = new], RowFits(new),
           new.consentV = smsRow[d].consentV, new.stops = smsRow[d].stops,
           UNCHANGED <<consent, source>>
    PROVE  DeliveriesHold'
<1>1. smsRow' \in [SmsRows -> DeliveryRows \cup {NoRow}] /\ smsRow'[d] = new
      /\ \A e \in SmsRows \ {d} : smsRow'[e] = smsRow[e]
  BY DEF SmsInv, DeliveriesHold
<1>2. d <= source.version /\ RowConsented(smsRow[d], consent)
  BY DEF SmsInv, DeliveriesHold
<1>3. RowConsented(new, consent)
  BY <1>2 DEF RowConsented
<1>4. ASSUME NEW e \in SmsRows, smsRow'[e] # NoRow
      PROVE  e <= source'.version /\ RowFits(smsRow'[e]) /\ RowConsented(smsRow'[e], consent')
  BY <1>1, <1>2, <1>3, <1>4 DEF SmsInv, DeliveriesHold
<1> QED BY <1>1, <1>4 DEF DeliveriesHold

LEMMA TextsFollow ==
    ASSUME SmsInv, NEW d \in SmsRows, smsRow[d] # NoRow, NEW new \in DeliveryRows,
           smsRow' = [smsRow EXCEPT ![d] = new], UNCHANGED texts,
           new.attempts >= smsRow[d].attempts, new.stops = smsRow[d].stops,
           \A t \in texts : t.d = d /\ t.state # "undelivered" => TextFits(t, new)
    PROVE  TextsHold'
<1>1. ASSUME NEW t \in texts PROVE TextFits(t, smsRow'[t.d])
  <2>1. t \in TextRows /\ t.d \in SmsRows /\ TextFits(t, smsRow[t.d])
    BY DEF SmsInv, TextsHold, TextRows
  <2>2. CASE t.d # d
    BY <2>1, <2>2 DEF SmsInv, DeliveriesHold
  <2>3. CASE t.d = d
    <3>1. smsRow'[t.d] = new /\ smsRow[d] \in DeliveryRows
      BY <2>3 DEF SmsInv, DeliveriesHold
    <3>2. PICK old \in DeliveryRows : old = smsRow[d]
      BY <3>1
    <3>3. old.attempts \in Nat /\ new.attempts \in Nat /\ t.token \in Nat /\ new # NoRow
      BY <2>1, RowsAreNotNone DEF DeliveryRows, TextRows
    <3>4. TextFits(t, old) /\ new.attempts >= old.attempts /\ new.stops = old.stops
      BY <2>1, <2>3, <3>2
    <3>5. CASE t.state = "undelivered"
      BY <3>1, <3>3, <3>4, <3>5 DEF TextFits
    <3>6. CASE t.state # "undelivered"
      BY <2>3, <3>1, <3>6
    <3> QED BY <3>5, <3>6
  <2> QED BY <2>2, <2>3
<1> QED BY <1>1 DEF SmsInv, TextsHold
-----------------------------------------------------------------------------
\* Consent, policy and the source.

LEMMA ConsentMoves ==
    ASSUME SmsInv, NEW e, e.next \in {"pending", "consented", "declined", "opted_out"},
           mutateConsent(e), UNCHANGED <<smsPolicy, source, smsRow, sender, texts>>
    PROVE  SmsInv'
<1>1. consent \in ConsentRows /\ consent.version \in Nat /\ consent.stops \in Nat
      /\ consent.version < MaxConsent /\ MaxConsent \in Nat
  BY SmsConstants DEF SmsInv, ConsentTyped, ConsentRows, mutateConsent
<1>2. PICK more \in Nat : more = IF e.next = "opted_out" THEN 1 ELSE 0
  OBVIOUS
<1>3. consent' = [status |-> e.next, version |-> consent.version + 1,
                  stops |-> consent.stops + more]
  BY <1>2 DEF mutateConsent
<1>4. PICK v \in 0 .. MaxConsent : v = consent.version + 1
  BY <1>1
<1>5. PICK n \in Nat : n = consent.stops + more
  BY <1>1
<1>6. PICK new : new = [status |-> e.next, version |-> v, stops |-> n]
  OBVIOUS
<1>7. consent' = new /\ new \in ConsentRows /\ new.version = v /\ new.stops = n
      /\ new.status = e.next
  BY <1>3, <1>4, <1>5, <1>6 DEF ConsentRows
<1>8. ConsentTyped'
  BY <1>1, <1>2, <1>5, <1>7 DEF ConsentTyped
<1>9. DeliveriesHold'
  BY <1>1, <1>4, <1>7 DEF SmsInv, DeliveriesHold, DeliveryRows, RowConsented
<1> QED BY <1>8, <1>9 DEF SmsInv, PolicyTyped, SourceTyped, SendersHold, TextsHold

LEMMA ConsentKeep ==
    ASSUME SmsInv,
           \/ \E k \in ConsentKeys : \/ RecordConsentRequested(k) \/ AttestConsent(k)
                                     \/ \E granted \in BOOLEAN : RecordConversationConsent(k, granted)
           \/ \E m \in Messages : InboundStop(m) \/ ReadStart(m) \/ ApplyStart(m)
    PROVE  SmsInv'
<1>1. CASE \E e : /\ e.next \in {"pending", "consented", "declined", "opted_out"}
                  /\ mutateConsent(e) /\ ConsentOnly
  BY <1>1, ConsentMoves DEF ConsentOnly
<1>2. CASE UNCHANGED consent /\ ConsentOnly
  BY <1>2 DEF ConsentOnly, SmsInv, PolicyTyped, ConsentTyped, SourceTyped, DeliveriesHold,
              SendersHold, TextsHold
<1>3. ASSUME NEW k \in ConsentKeys, RecordConsentRequested(k) PROVE SmsInv'
  <2>1. PICK e : e = ConsentEvent(<<"ask", k>>, "pending", "conversation", "consent_requested")
    OBVIOUS
  <2>2. e.next = "pending" /\ mutateConsent(e) /\ ConsentOnly
    BY <1>3, <2>1 DEF RecordConsentRequested, ConsentEvent
  <2> QED BY <1>1, <2>2
<1>4. ASSUME NEW k \in ConsentKeys, AttestConsent(k) PROVE SmsInv'
  <2>1. PICK e : e = ConsentEvent(<<"attest", k>>, "consented", "owner", "consented")
    OBVIOUS
  <2>2. e.next = "consented" /\ mutateConsent(e) /\ ConsentOnly
    BY <1>4, <2>1 DEF AttestConsent, ConsentEvent
  <2> QED BY <1>1, <2>2
<1>5. ASSUME NEW k \in ConsentKeys, NEW granted \in BOOLEAN, RecordConversationConsent(k, granted)
      PROVE  SmsInv'
  <2>1. PICK word : word = IF granted THEN "consented" ELSE "declined"
    OBVIOUS
  <2>2. PICK e : e = ConsentEvent(<<"answer", k>>, word, "conversation", word)
    OBVIOUS
  <2>3. e.next = word /\ mutateConsent(e) /\ ConsentOnly
    BY <1>5, <2>1, <2>2 DEF RecordConversationConsent, ConsentEvent
  <2> QED BY <1>1, <2>1, <2>3
<1>6. ASSUME NEW m \in Messages, InboundStop(m) PROVE SmsInv'
  <2>1. PICK e : e = ConsentEvent(<<"stop", m>>, "opted_out", "twilio", "opt_out")
    OBVIOUS
  <2>2. e.next = "opted_out" /\ mutateConsent(e) /\ ConsentOnly
    BY <1>6, <2>1 DEF InboundStop, ConsentEvent
  <2> QED BY <1>1, <2>2
<1>7. ASSUME NEW m \in Messages, ReadStart(m) PROVE SmsInv'
  BY <1>2, <1>7 DEF ReadStart
<1>8. ASSUME NEW m \in Messages, ApplyStart(m) PROVE SmsInv'
  <2>1. PICK e : e = ConsentEvent(<<"start", m>>, "consented", "twilio", "opt_in")
    OBVIOUS
  <2>2. e.next = "consented"
    BY <2>1 DEF ConsentEvent
  <2>3. ConsentOnly /\ (mutateConsent(e) \/ UNCHANGED consent)
    BY <1>8, <2>1 DEF ApplyStart, AppliedStart
  <2> QED BY <1>1, <1>2, <2>2, <2>3
<1> QED BY <1>3, <1>4, <1>5, <1>6, <1>7, <1>8

LEMMA PolicyKeeps == ASSUME SmsInv, NEW p \in QuietPolicies, UpdatePolicy(p) PROVE SmsInv'
<1>1. smsPolicy' = [enabled |-> p.enabled, from |-> p.from, to |-> p.to,
                    version |-> smsPolicy.version + 1]
      /\ UNCHANGED <<consent, source, smsRow, sender, texts>>
  BY DEF UpdatePolicy
<1>2. smsPolicy'.version = smsPolicy.version + 1
  BY <1>1
<1>3. PolicyTyped'
  BY <1>2 DEF PolicyTyped, SmsInv
<1> QED BY <1>1, <1>3 DEF SmsInv, ConsentTyped, SourceTyped, DeliveriesHold, SendersHold, TextsHold

LEMMA QueuedFits ==
    ASSUME SmsInv, NEW v
    PROVE  QueuedRow(v) \in DeliveryRows /\ RowFits(QueuedRow(v)) /\ RowConsented(QueuedRow(v), consent)
<1>1. consent.version \in Nat /\ consent.stops \in Nat /\ smsPolicy.version \in Nat
  BY SmsConstants DEF SmsInv, ConsentTyped, ConsentRows, PolicyTyped
<1>2. PICK row : row = QueuedRow(v)
  OBVIOUS
<1>3. row \in DeliveryRows
  BY <1>1, <1>2, SmsConstants DEF QueuedRow, DeliveryRows, SmsStatuses
<1>4. row.attempts = 0 /\ row.requeues = 0 /\ row.token = 0 /\ row.status = "queued"
      /\ ~ row.dispatched /\ ~ row.unknown /\ row.msg = 0
  BY <1>2 DEF QueuedRow
<1>5. row.consentV = consent.version /\ row.stops = consent.stops
  BY <1>2 DEF QueuedRow
<1>6. RowConsented(row, consent)
  BY <1>1, <1>5 DEF RowConsented
<1>7. RowFits(row)
  BY <1>4, SmsConstants DEF RowFits, Reported
<1> QED BY <1>2, <1>3, <1>6, <1>7

\* A new row is about a version nobody has a row of.
LEMMA SourceKeeps ==
    ASSUME SmsInv, SourceChanges("current") \/ SourceSynced
    PROVE  SmsInv'
<1>1. source.version \in Nat /\ source.version < MaxSource /\ MaxSource \in Nat
      /\ UNCHANGED <<smsPolicy, consent, sender, texts>>
  BY SmsConstants DEF SmsInv, SourceTyped, SourceChanges, SourceSynced
<1>2. PICK v \in SmsRows : v = source.version + 1
  BY <1>1 DEF SmsRows
<1>3. source'.version = v
  <2>1. PICK status : source' = [version |-> v, status |-> status]
    BY <1>2 DEF SourceChanges, SourceSynced
  <2> QED BY <2>1
<1>4. smsRow[v] = NoRow
  BY <1>1, <1>2 DEF SmsInv, DeliveriesHold
<1>5. smsRow' = smsRow \/ smsRow' = [smsRow EXCEPT ![v] = QueuedRow(v)]
  BY <1>2 DEF SourceChanges, SourceSynced
<1>6. \A d \in SmsRows \ {v} : smsRow'[d] = smsRow[d]
  BY <1>5 DEF SmsInv, DeliveriesHold
<1>7. SourceTyped'
  BY <1>2, <1>3 DEF SourceTyped, SmsRows
<1>8. DeliveriesHold'
  <2>1. smsRow' \in [SmsRows -> DeliveryRows \cup {NoRow}]
    BY <1>5, QueuedFits DEF SmsInv, DeliveriesHold
  <2>2. ASSUME NEW d \in SmsRows, smsRow'[d] # NoRow
        PROVE  d <= v /\ RowFits(smsRow'[d]) /\ RowConsented(smsRow'[d], consent)
    <3>1. CASE d = v
      <4>1. smsRow'[v] = QueuedRow(v)
        BY <1>4, <1>5, <2>2, <3>1 DEF SmsInv, DeliveriesHold
      <4> QED BY <3>1, <4>1, QueuedFits DEF SmsRows
    <3>2. CASE d # v
      BY <1>1, <1>2, <1>6, <2>2, <3>2 DEF SmsInv, DeliveriesHold, SmsRows
    <3> QED BY <3>1, <3>2
  <2> QED BY <1>1, <1>3, <2>1, <2>2 DEF DeliveriesHold
<1>9. SendersHold'
  BY <1>1, <1>4, <1>6, KindsOfSenders DEF SmsInv, SendersHold, SenderFits
<1>10. TextsHold'
  BY <1>1, <1>4, <1>6 DEF SmsInv, TextsHold, TextRows, TextFits
<1> QED BY <1>1, <1>7, <1>8, <1>9, <1>10 DEF SmsInv, PolicyTyped, ConsentTyped
-----------------------------------------------------------------------------
\* Steps on a row alone.

LEMMA RowMoves ==
    ASSUME SmsInv, NEW d \in SmsRows, smsRow[d] # NoRow, NEW new \in DeliveryRows,
           smsRow' = [smsRow EXCEPT ![d] = new], WorkOnly, UNCHANGED <<sender, texts>>,
           RowFits(new), RowGoes(smsRow[d], new), new.consentV = smsRow[d].consentV,
           UnderWay(smsRow[d]) => UnderWay(new) /\ new.attempts = smsRow[d].attempts,
           \A t \in texts : t.d = d /\ t.state # "undelivered" => TextFits(t, new)
    PROVE  SmsInv'
<1>1. UNCHANGED <<smsPolicy, consent, source>>
  BY DEF WorkOnly
<1>2. new.attempts >= smsRow[d].attempts /\ new.stops = smsRow[d].stops
  BY DEF RowGoes
<1>3. DeliveriesHold'
  BY <1>1, <1>2, RowWritten
<1>4. TextsHold'
  BY <1>2, TextsFollow
<1>5. ASSUME NEW w \in Senders, sender[w] # IdleSender, sender[w].d = d, sender[w].phase = "send"
      PROVE  UnderWay(new) /\ new.attempts = smsRow[d].attempts
  BY <1>5 DEF SmsInv, SendersHold, SenderFits
<1>6. \A w \in Senders : sender[w] # IdleSender =>
               SenderFits(sender[w], smsRow'[sender[w].d], texts')
  BY <1>5, SendersFollow
<1>7. SendersHold'
  BY <1>6 DEF SmsInv, SendersHold
<1> QED BY <1>1, <1>3, <1>4, <1>7 DEF SmsInv, PolicyTyped, ConsentTyped, SourceTyped

\* What is word of a row that there is.
LEMMA RowThere ==
    ASSUME SmsInv, NEW d \in SmsRows, smsRow[d].status # "none"
    PROVE  smsRow[d] # NoRow /\ smsRow[d] \in DeliveryRows /\ RowFits(smsRow[d])
<1>1. smsRow[d] # NoRow
  BY DEF NoRow
<1> QED BY <1>1 DEF SmsInv, DeliveriesHold

LEMMA LiveTextsFit ==
    ASSUME SmsInv, NEW t \in texts
    PROVE  t \in TextRows /\ t.d \in SmsRows /\ t.token \in Nat \ {0} /\ TextFits(t, smsRow[t.d])
BY DEF SmsInv, TextsHold, TextRows

LEMMA LeaseEndKeeps == ASSUME SmsInv, NEW d \in SmsRows, SmsLeaseEnds(d) PROVE SmsInv'
<1>1. smsRow[d] # NoRow /\ smsRow[d] \in DeliveryRows /\ RowFits(smsRow[d])
  BY RowThere DEF SmsLeaseEnds
<1>2. PICK old \in DeliveryRows : old = smsRow[d]
  BY <1>1
<1>3. PICK new : new = [old EXCEPT !.live = FALSE]
  OBVIOUS
<1>4. smsRow' = [smsRow EXCEPT ![d] = new] /\ WorkOnly /\ UNCHANGED <<sender, texts>>
  BY <1>2, <1>3 DEF SmsLeaseEnds
<1>5. /\ new \in DeliveryRows /\ new.status = old.status /\ new.attempts = old.attempts
      /\ new.requeues = old.requeues /\ new.token = old.token /\ new.dispatched = old.dispatched
      /\ new.consentV = old.consentV /\ new.msg = old.msg /\ new.rank = old.rank
      /\ new.unknown = old.unknown /\ new.stops = old.stops /\ old.attempts \in Nat
  BY <1>3 DEF DeliveryRows
<1>6. RowFits(new) /\ RowGoes(old, new) /\ (UnderWay(old) => UnderWay(new))
  BY <1>1, <1>2, <1>5 DEF RowFits, RowGoes, UnderWay
<1>7. ASSUME NEW t \in texts, t.d = d PROVE TextFits(t, new)
  BY <1>2, <1>5, <1>7, LiveTextsFit, RowsAreNotNone DEF TextFits, UnderWay
<1> QED BY <1>1, <1>2, <1>4, <1>5, <1>6, <1>7, RowMoves

LEMMA RedactKeeps == ASSUME SmsInv, NEW d \in SmsRows, RedactSms(d) PROVE SmsInv'
<1>1. smsRow[d] # NoRow /\ smsRow[d] \in DeliveryRows /\ RowFits(smsRow[d])
  BY RowThere DEF RedactSms
<1>2. PICK old \in DeliveryRows : old = smsRow[d]
  BY <1>1
<1>3. PICK new : new = [old EXCEPT !.redacted = TRUE]
  OBVIOUS
<1>4. smsRow' = [smsRow EXCEPT ![d] = new] /\ WorkOnly /\ UNCHANGED <<sender, texts>>
  BY <1>2, <1>3 DEF RedactSms
<1>5. /\ new \in DeliveryRows /\ new.status = old.status /\ new.attempts = old.attempts
      /\ new.requeues = old.requeues /\ new.token = old.token /\ new.dispatched = old.dispatched
      /\ new.consentV = old.consentV /\ new.msg = old.msg /\ new.rank = old.rank
      /\ new.unknown = old.unknown /\ new.stops = old.stops /\ old.attempts \in Nat
  BY <1>3 DEF DeliveryRows
<1>6. RowFits(new) /\ RowGoes(old, new) /\ (UnderWay(old) => UnderWay(new))
  BY <1>1, <1>2, <1>5 DEF RowFits, RowGoes, UnderWay
<1>7. ASSUME NEW t \in texts, t.d = d PROVE TextFits(t, new)
  BY <1>2, <1>5, <1>7, LiveTextsFit, RowsAreNotNone DEF TextFits, UnderWay
<1> QED BY <1>1, <1>2, <1>4, <1>5, <1>6, <1>7, RowMoves

\* SmsSettled: the claim ends.
LEMMA SettledIs ==
    ASSUME NEW d, smsRow[d] \in DeliveryRows, NEW status \in SmsStatuses,
           NEW row, row = SmsSettled(d, status)
    PROVE  /\ row \in DeliveryRows /\ row.status = status /\ row.token = 0 /\ ~ row.dispatched
           /\ row.attempts = smsRow[d].attempts /\ row.requeues = smsRow[d].requeues
           /\ row.consentV = smsRow[d].consentV /\ row.msg = smsRow[d].msg
           /\ row.rank = smsRow[d].rank /\ row.unknown = smsRow[d].unknown
           /\ row.stops = smsRow[d].stops
BY DEF SmsSettled, DeliveryRows

LEMMA UnknownIs ==
    ASSUME NEW row \in DeliveryRows, NEW new, new = [row EXCEPT !.unknown = TRUE]
    PROVE  /\ new \in DeliveryRows /\ new.status = row.status /\ new.token = row.token
           /\ new.dispatched = row.dispatched
           /\ new.attempts = row.attempts /\ new.requeues = row.requeues
           /\ new.consentV = row.consentV /\ new.msg = row.msg
           /\ new.rank = row.rank /\ new.unknown /\ new.stops = row.stops
BY DEF DeliveryRows

LEMMA RecoverKeeps == ASSUME SmsInv, NEW d \in SmsRows, RecoverExpiredLease(d) PROVE SmsInv'
<1>1. /\ smsRow[d] # NoRow /\ smsRow[d] \in DeliveryRows /\ RowFits(smsRow[d])
      /\ smsRow[d].status = "delivering"
  BY RowThere DEF RecoverExpiredLease
<1>2. PICK old \in DeliveryRows : old = smsRow[d]
  BY <1>1
<1>3. PICK new : new = SmsRecovered(d)
  OBVIOUS
<1>4. smsRow' = [smsRow EXCEPT ![d] = new] /\ WorkOnly /\ UNCHANGED <<sender, texts>>
  BY <1>3 DEF RecoverExpiredLease
<1>5. /\ new \in DeliveryRows /\ new.status \in {"dead_letter", "failed"} /\ new.token = 0
      /\ ~ new.dispatched /\ new.attempts = old.attempts /\ new.requeues = old.requeues
      /\ new.consentV = old.consentV /\ new.msg = old.msg /\ new.rank = old.rank
      /\ new.stops = old.stops
      /\ old.dispatched => new.unknown
      /\ new.unknown => new.status = "dead_letter"
  <2>1. PICK status \in SmsStatuses : status = SafeFailure(d)
    BY DEF SafeFailure, SmsStatuses
  <2>2. status \in {"dead_letter", "failed"}
    BY <2>1 DEF SafeFailure
  <2>3. ~ old.unknown
    BY <1>1, <1>2 DEF RowFits
  <2>4. CASE old.dispatched
    <3>1. PICK row : row = SmsSettled(d, "dead_letter")
      OBVIOUS
    <3>2. new = [row EXCEPT !.unknown = TRUE]
      BY <1>2, <1>3, <2>4, <3>1 DEF SmsRecovered
    <3>3. "dead_letter" \in SmsStatuses
      BY DEF SmsStatuses
    <3>4. /\ row \in DeliveryRows /\ row.status = "dead_letter" /\ row.token = 0
          /\ ~ row.dispatched /\ row.attempts = old.attempts /\ row.requeues = old.requeues
          /\ row.consentV = old.consentV /\ row.msg = old.msg /\ row.rank = old.rank
          /\ row.stops = old.stops
      BY <1>1, <1>2, <3>1, <3>3, SettledIs
    <3> QED BY <2>4, <3>2, <3>4, UnknownIs
  <2>5. CASE ~ old.dispatched
    BY <1>1, <1>2, <1>3, <2>1, <2>2, <2>3, <2>5, SettledIs DEF SmsRecovered
  <2> QED BY <2>4, <2>5
<1>6. old.attempts \in Nat /\ new.attempts \in Nat
  BY <1>5 DEF DeliveryRows
<1>7. RowFits(new) /\ RowGoes(old, new) /\ (UnderWay(old) => UnderWay(new))
  BY <1>1, <1>2, <1>5, <1>6 DEF RowFits, Reported, RowGoes, UnderWay
<1>8. ASSUME NEW t \in texts, t.d = d, t.state # "undelivered" PROVE TextFits(t, new)
  BY <1>1, <1>2, <1>5, <1>7, <1>8, LiveTextsFit, RowsAreNotNone DEF Reported, TextFits
<1> QED BY <1>1, <1>2, <1>4, <1>5, <1>6, <1>7, <1>8, RowMoves

LEMMA RequeuedAttempts ==
    ASSUME NEW n \in Nat, NEW a \in Nat, a <= (n + 1) * MaxSmsAttempts
    PROVE  a <= (n + 1 + 1) * MaxSmsAttempts
<1>1. PICK m \in Nat : m = MaxSmsAttempts
  BY SmsConstants
<1>2. (n + 1 + 1) * m = (n + 1) * m + m /\ (n + 1) * m \in Nat
  OBVIOUS
<1> QED BY <1>1, <1>2

LEMMA RequeueKeeps == ASSUME SmsInv, NEW d \in SmsRows, RequeueSms(d) PROVE SmsInv'
<1>1. /\ smsRow[d] # NoRow /\ smsRow[d] \in DeliveryRows /\ RowFits(smsRow[d])
      /\ smsRow[d].status = "dead_letter" /\ ~ smsRow[d].unknown
      /\ smsRow[d].requeues < MaxOwnerRequeues
  BY RowThere DEF RequeueSms
<1>2. PICK old \in DeliveryRows : old = smsRow[d]
  BY <1>1
<1>3. PICK n \in 0 .. MaxOwnerRequeues : n = old.requeues + 1
  BY <1>1, <1>2, SmsConstants DEF DeliveryRows
<1>4. PICK new : new = [old EXCEPT !.status = "queued", !.requeues = n]
  OBVIOUS
<1>5. smsRow' = [smsRow EXCEPT ![d] = new] /\ WorkOnly /\ UNCHANGED <<sender, texts>>
  BY <1>2, <1>3, <1>4 DEF RequeueSms, SmsInv, DeliveriesHold, DeliveryRows
<1>6. /\ new \in DeliveryRows /\ new.status = "queued" /\ new.attempts = old.attempts
      /\ new.requeues = n /\ new.token = old.token /\ new.dispatched = old.dispatched
      /\ new.consentV = old.consentV /\ new.msg = old.msg /\ new.rank = old.rank
      /\ new.unknown = old.unknown /\ new.stops = old.stops
      /\ old.attempts \in Nat /\ old.requeues \in Nat
  <2>1. "queued" \in SmsStatuses /\ old.requeues \in Nat
    BY SmsConstants DEF SmsStatuses, DeliveryRows
  <2> QED BY <1>4, <2>1 DEF DeliveryRows
<1>7. ~ UnderWay(old) /\ old.status \notin Reported
  BY <1>1, <1>2 DEF UnderWay, RowFits, Reported
<1>8. RowGoes(old, new)
  BY <1>6 DEF RowGoes
<1>9. old.attempts <= (n + 1) * MaxSmsAttempts
  BY <1>1, <1>2, <1>3, <1>6, RequeuedAttempts DEF RowFits
<1>10. RowFits(new)
  BY <1>1, <1>2, <1>6, <1>9 DEF RowFits, Reported
<1>11. ASSUME NEW t \in texts, t.d = d, t.state # "undelivered" PROVE TextFits(t, new)
  BY <1>2, <1>7, <1>11, LiveTextsFit DEF TextFits
<1> QED BY <1>1, <1>2, <1>5, <1>6, <1>7, <1>8, <1>10, <1>11, RowMoves
LEMMA TextStates ==
    ASSUME NEW t \in TextRows
    PROVE  /\ TextRank[t.state] \in {10, 30, 50} /\ t.state \in TextStatus
           /\ t.state = "undelivered" => TextRank[t.state] = 50
BY DEF TextRows, TextRank, TextStatus

LEMMA RowStatusIs ==
    ASSUME NEW s \in TextStatus
    PROVE  /\ RowStatus(s) \in SmsStatuses \ {"delivering"} /\ TextRank[s] \in {10, 30, 50}
           /\ s = "undelivered" => RowStatus(s) = "dead_letter" /\ TextRank[s] = 50
           /\ s # "undelivered" => RowStatus(s) \in Reported
BY DEF TextStatus, RowStatus, TextRank, SmsStatuses, Reported

(* A callback finds the row of its text, and a row that is not waiting for *)
(* one has heard the last of it.                                           *)
LEMMA CallbackKeeps == ASSUME SmsInv, NEW t \in texts, ApplySmsCallback(t) PROVE SmsInv'
<1>1. t \in TextRows /\ t.d \in SmsRows /\ t.token \in Nat \ {0} /\ TextFits(t, smsRow[t.d])
  BY LiveTextsFit
<1>2. PICK d \in SmsRows : d = t.d
  BY <1>1
<1>3. smsRow[d] # NoRow
  BY <1>1, <1>2 DEF TextFits
<1>4. PICK old \in DeliveryRows : old = smsRow[d]
  BY <1>3 DEF SmsInv, DeliveriesHold
<1>5. RowFits(old) /\ TextFits(t, old)
  BY <1>1, <1>2, <1>3, <1>4 DEF SmsInv, DeliveriesHold
<1>6. PICK rank \in {10, 30, 50} : rank = TextRank[t.state]
  BY <1>1, TextStates
<1>7. /\ old.msg = t.token /\ rank > old.rank /\ old.status # "delivering"
      /\ WorkOnly /\ UNCHANGED <<sender, texts>>
  BY <1>2, <1>4, <1>6 DEF ApplySmsCallback
<1>8. PICK status : status = RowStatus(t.state)
  OBVIOUS
<1>9. old.rank \in {0, 10, 30, 50} /\ old.rank # 50 /\ old.rank >= 0
  BY <1>6, <1>7 DEF DeliveryRows
<1>10. old.status \in Reported /\ ~ old.unknown /\ ~ old.dispatched
  BY <1>1, <1>5, <1>7, <1>9 DEF RowFits, Reported
<1>11. PICK new : new = [old EXCEPT !.rank = rank, !.status = status]
  OBVIOUS
<1>12. smsRow' = [smsRow EXCEPT ![d] = new]
  BY <1>2, <1>4, <1>6, <1>8, <1>11 DEF ApplySmsCallback, SmsInv, DeliveriesHold
<1>13. status \in SmsStatuses
       /\ (IF t.state = "undelivered" THEN status = "dead_letter" /\ rank = 50
                                     ELSE status \in Reported /\ rank # 0)
  BY <1>1, <1>6, <1>8, TextStates, RowStatusIs DEF SmsStatuses, Reported
<1>14. /\ new \in DeliveryRows /\ new.status = status /\ new.attempts = old.attempts
       /\ new.requeues = old.requeues /\ new.token = old.token /\ new.dispatched = old.dispatched
       /\ new.consentV = old.consentV /\ new.msg = old.msg /\ new.rank = rank
       /\ new.unknown = old.unknown /\ new.stops = old.stops /\ old.attempts \in Nat
  BY <1>6, <1>11, <1>13 DEF DeliveryRows
<1>15. ~ UnderWay(old)
  BY <1>10 DEF UnderWay
<1>16. RowFits(new) /\ RowGoes(old, new)
  BY <1>5, <1>6, <1>7, <1>10, <1>13, <1>14 DEF Reported, RowFits, RowGoes
<1>17. ASSUME NEW u \in texts, u.d = d, u.state # "undelivered" PROVE TextFits(u, new)
  BY <1>2, <1>4, <1>7, <1>13, <1>14, <1>15, <1>17, LiveTextsFit, RowsAreNotNone DEF TextFits,
     SmsInv, TextsHold
<1> QED BY <1>3, <1>4, <1>7, <1>12, <1>14, <1>15, <1>16, <1>17, RowMoves

-----------------------------------------------------------------------------
\* The workers.

LEMMA SenderThere ==
    ASSUME SmsInv, NEW w \in Senders, NEW s, s = sender[w], s.phase # "idle"
    PROVE  /\ s \in SenderRows /\ s # IdleSender /\ s.d \in SmsRows /\ s.token \in Nat \ {0}
           /\ smsRow[s.d] # NoRow /\ smsRow[s.d] \in DeliveryRows /\ RowFits(smsRow[s.d])
           /\ RowConsented(smsRow[s.d], consent) /\ SenderFits(s, smsRow[s.d], texts)
<1>1. s # IdleSender
  BY DEF IdleSender
<1>2. s \in SenderRows /\ SenderFits(s, smsRow[s.d], texts)
  BY <1>1 DEF SmsInv, SendersHold
<1>3. s.d \in SmsRows /\ s.token \in Nat \ {0}
  BY <1>2, KindsOfSenders
<1>4. smsRow[s.d] # NoRow
  BY <1>2 DEF SenderFits
<1> QED BY <1>1, <1>2, <1>3, <1>4 DEF SmsInv, DeliveriesHold

\* Only a worker goes on.
LEMMA WorkerMoves ==
    ASSUME SmsInv, NEW w \in Senders, NEW s \in SenderRows \cup {IdleSender},
           sender' = [sender EXCEPT ![w] = s], WorkOnly, UNCHANGED <<smsRow, texts>>,
           s # IdleSender => /\ SenderFits(s, smsRow[s.d], texts)
                             /\ sender[w] # IdleSender
                             /\ s.d = sender[w].d /\ s.token = sender[w].token
    PROVE  SmsInv'
<1>1. SendersHold
  BY DEF SmsInv
<1>2. \A v \in Senders \ {w} : sender[v] # IdleSender =>
           SenderFits(sender[v], smsRow'[sender[v].d], texts')
  BY <1>1 DEF SendersHold
<1>3. s # IdleSender => \A v \in Senders \ {w} :
           sender[v] # IdleSender /\ sender[v].d = s.d => sender[v].token # s.token
  BY <1>1 DEF SendersHold
<1>4. s # IdleSender => SenderFits(s, smsRow'[s.d], texts')
  OBVIOUS
<1>5. SendersHold'
  BY <1>1, <1>2, <1>3, <1>4, SenderWritten
<1> QED BY <1>5 DEF WorkOnly, SmsInv, PolicyTyped, ConsentTyped, SourceTyped, DeliveriesHold, TextsHold

LEMMA WorkerStops ==
    ASSUME SmsInv, NEW w \in Senders, sender' = [sender EXCEPT ![w] = IdleSender],
           WorkOnly, UNCHANGED <<smsRow, texts>>
    PROVE  SmsInv'
BY WorkerMoves

LEMMA PlanKeeps ==
    ASSUME SmsInv, NEW w \in Senders, sender[w].phase \in {"claimed", "planned"},
           NEW plan \in DispatchPlans, DispatchPlanned(w, plan), WorkOnly, UNCHANGED <<smsRow, texts>>
    PROVE  SmsInv'
<1>1. PICK s : s = sender[w]
  OBVIOUS
<1>2. s \in SenderRows /\ s # IdleSender /\ s.d \in SmsRows /\ s.token \in Nat \ {0}
      /\ SenderFits(s, smsRow[s.d], texts)
  BY <1>1, SenderThere
<1>3. PICK new : new = [s EXCEPT !.phase = "planned", !.plan = plan]
  OBVIOUS
<1>4. new \in SenderRows /\ new.d = s.d /\ new.token = s.token /\ new.phase = "planned"
  BY <1>1, <1>2, <1>3 DEF SenderRows
<1>5. sender' = [sender EXCEPT ![w] = new]
  BY <1>1, <1>3 DEF DispatchPlanned, SmsInv, SendersHold
<1>6. SenderFits(new, smsRow[new.d], texts)
  BY <1>1, <1>2, <1>4 DEF SenderFits, NoText
<1> QED BY <1>1, <1>2, <1>4, <1>5, <1>6, WorkerMoves

LEMMA ResolveKeeps == ASSUME SmsInv, NEW w \in Senders, ResolveDispatchReadiness(w) PROVE SmsInv'
<1>1. CASE sender' = [sender EXCEPT ![w] = IdleSender]
  BY <1>1, WorkerStops DEF ResolveDispatchReadiness
<1>2. CASE \E plan \in DispatchPlans : DispatchPlanned(w, plan)
  BY <1>2, PlanKeeps DEF ResolveDispatchReadiness
<1>3. {"suppressed", "quiet_hours", "safe_retry", "mark"} = DispatchPlans
  BY DEF DispatchPlans
<1> QED BY <1>1, <1>2, <1>3 DEF ResolveDispatchReadiness

LEMMA ClaimRowKeeps ==
    ASSUME SmsInv, NEW w \in Senders, NEW d \in SmsRows, ClaimRow(w, d) PROVE SmsInv'
<1>1. /\ smsRow[d] # NoRow /\ smsRow[d] \in DeliveryRows /\ RowFits(smsRow[d])
      /\ smsRow[d].status \in {"queued", "quiet_hours", "failed"}
  BY RowThere DEF ClaimRow
<1>2. PICK old \in DeliveryRows : old = smsRow[d]
  BY <1>1
<1>3. PICK n \in Nat \ {0} : n = old.attempts + 1
  BY DEF DeliveryRows
<1>4. PICK new : new = [old EXCEPT !.status = "delivering", !.live = TRUE, !.attempts = n,
                                   !.token = n, !.dispatched = FALSE]
  OBVIOUS
<1>5. PICK s : s = [phase |-> "claimed", d |-> d, plan |-> "none", token |-> n]
  OBVIOUS
<1>6. s \in SenderRows /\ s.d = d /\ s.token = n /\ s.phase = "claimed" /\ s # IdleSender
  BY <1>5 DEF SenderRows, IdleSender
<1>7. sender[w] = IdleSender /\ sender' = [sender EXCEPT ![w] = s] /\ WorkOnly /\ UNCHANGED texts
  BY <1>2, <1>3, <1>5 DEF ClaimRow
<1>8. smsRow' = [smsRow EXCEPT ![d] = new]
  BY <1>2, <1>3, <1>4 DEF ClaimRow, SmsInv, DeliveriesHold
<1>9. /\ new \in DeliveryRows /\ new.status = "delivering" /\ new.attempts = n
      /\ new.requeues = old.requeues /\ new.token = n /\ ~ new.dispatched
      /\ new.consentV = old.consentV /\ new.msg = old.msg /\ new.rank = old.rank
      /\ new.unknown = old.unknown /\ new.stops = old.stops
      /\ old.attempts \in Nat /\ old.requeues \in Nat
  <2>1. "delivering" \in SmsStatuses /\ old.requeues \in Nat
    BY SmsConstants DEF SmsStatuses, DeliveryRows
  <2> QED BY <1>4, <2>1 DEF DeliveryRows
<1>10. ~ UnderWay(old) /\ old.status \notin Reported /\ ~ old.unknown
  BY <1>1, <1>2 DEF UnderWay, RowFits, Reported
<1>11. RowGoes(old, new)
  BY <1>3, <1>9 DEF RowGoes
<1>12. n <= (old.requeues + 1) * MaxSmsAttempts
  <2>1. old.attempts < (old.requeues + 1) * MaxSmsAttempts
    BY <1>2 DEF ClaimRow
  <2>2. PICK m \in Nat : m = (old.requeues + 1) * MaxSmsAttempts
    BY <1>9, SmsConstants
  <2> QED BY <1>3, <1>9, <2>1, <2>2
<1>13. RowFits(new)
  BY <1>1, <1>2, <1>3, <1>9, <1>10, <1>12 DEF RowFits, Reported
<1>14. UNCHANGED <<consent, source, smsPolicy>>
  BY <1>7 DEF WorkOnly
<1>15. DeliveriesHold'
  BY <1>1, <1>2, <1>8, <1>9, <1>13, <1>14, RowWritten
<1>16. ASSUME NEW t \in texts, t.d = d
       PROVE  TextFits(t, old) /\ t.token <= old.attempts /\ t.token \in Nat
  BY <1>2, <1>16, LiveTextsFit DEF TextFits
<1>17. ASSUME NEW t \in texts, t.d = d, t.state # "undelivered" PROVE TextFits(t, new)
  BY <1>10, <1>16, <1>17 DEF TextFits
<1>18. TextsHold'
  <2>1. new.attempts >= smsRow[d].attempts /\ new.stops = smsRow[d].stops
    BY <1>2, <1>3, <1>9
  <2> QED BY <1>1, <1>7, <1>8, <1>9, <1>17, <2>1, TextsFollow
<1>19. ASSUME NEW v \in Senders \ {w}, sender[v] # IdleSender, sender[v].d = d
       PROVE  sender[v].token <= old.attempts /\ sender[v].token \in Nat /\ sender[v].phase # "send"
  BY <1>2, <1>10, <1>19, KindsOfSenders DEF SmsInv, SendersHold, SenderFits
<1>20. \A v \in Senders \ {w} : sender[v] # IdleSender =>
               SenderFits(sender[v], smsRow'[sender[v].d], texts')
  BY <1>1, <1>2, <1>7, <1>8, <1>9, <1>11, <1>19, SendersFollow
<1>21. SenderFits(s, smsRow'[s.d], texts')
  BY <1>3, <1>6, <1>7, <1>8, <1>9, <1>16, RowsAreNotNone DEF SmsInv, DeliveriesHold, NoText,
     SenderFits
<1>22. SendersHold'
  <2>1. \A v \in Senders \ {w} :
           sender[v] # IdleSender /\ sender[v].d = s.d => sender[v].token # s.token
    BY <1>3, <1>6, <1>9, <1>19
  <2>2. SendersHold
    BY DEF SmsInv
  <2> QED BY <1>6, <1>7, <1>20, <1>21, <2>1, <2>2, SenderWritten
<1> QED BY <1>14, <1>15, <1>18, <1>22 DEF SmsInv, PolicyTyped, ConsentTyped, SourceTyped

(* A claim is a worker's alone, and a row's token is that of its latest    *)
(* claim.                                                                  *)
LEMMA ClaimHeld ==
    ASSUME SmsInv, NEW w \in Senders, sender[w].phase # "idle", HoldsRow(w),
           NEW old \in DeliveryRows, old = smsRow[sender[w].d]
    PROVE  /\ sender[w].token = old.attempts /\ old.token = old.attempts
           /\ old.attempts \in Nat \ {0}
           /\ old.status = "delivering"
           /\ \A v \in Senders \ {w} : sender[v] # IdleSender /\ sender[v].d = sender[w].d =>
                 sender[v].token # old.attempts /\ sender[v].phase # "send"
<1>1. PICK s : s = sender[w]
  OBVIOUS
<1>2. s # IdleSender /\ s.d \in SmsRows /\ RowFits(old) /\ s.token \in Nat \ {0}
  BY <1>1, SenderThere
<1>3. old.status = "delivering" /\ old.token = s.token
  BY <1>1 DEF HoldsRow
<1>4. old.token = old.attempts
  BY <1>2, <1>3 DEF RowFits
<1>5. ASSUME NEW v \in Senders \ {w}, sender[v] # IdleSender, sender[v].d = s.d
      PROVE  sender[v].token # old.attempts /\ sender[v].phase # "send"
  <2>1. sender[v].token # s.token
    BY <1>1, <1>2, <1>5 DEF SmsInv, SendersHold
  <2>2. SenderFits(sender[v], old, texts)
    BY <1>1, <1>5 DEF SmsInv, SendersHold
  <2> QED BY <1>3, <1>4, <2>1, <2>2 DEF SenderFits
<1> QED BY <1>1, <1>2, <1>3, <1>4, <1>5

\* The worker that holds a row records how its attempt ended.
LEMMA RowEnds ==
    ASSUME SmsInv, NEW w \in Senders, sender[w].phase # "idle",
           NEW new \in DeliveryRows, CompletesClaim(w, new), RowFits(new),
           HoldsRow(w) =>
              /\ new.token = 0 /\ ~ new.dispatched
              /\ new.attempts = smsRow[sender[w].d].attempts
              /\ new.consentV = smsRow[sender[w].d].consentV
              /\ new.stops = smsRow[sender[w].d].stops,
           HoldsRow(w) =>
              \A t \in texts : t.d = sender[w].d /\ t.state # "undelivered" => TextFits(t, new)
    PROVE  SmsInv'
<1>1. CASE ~ HoldsRow(w)
  BY <1>1, WorkerStops DEF CompletesClaim
<1>2. CASE HoldsRow(w)
  <2>1. PICK d \in SmsRows : d = sender[w].d /\ smsRow[d] # NoRow /\ smsRow[d] \in DeliveryRows
    BY SenderThere
  <2>2. PICK old \in DeliveryRows : old = smsRow[d]
    BY <2>1
  <2>3. old.attempts \in Nat \ {0}
        /\ \A v \in Senders \ {w} : sender[v] # IdleSender /\ sender[v].d = d =>
              sender[v].phase # "send"
    BY <1>2, <2>1, <2>2, ClaimHeld
  <2>4. new.token = 0 /\ ~ new.dispatched /\ new.attempts = old.attempts
        /\ new.consentV = old.consentV /\ new.stops = old.stops
    BY <1>2, <2>1, <2>2
  <2>5. smsRow' = [smsRow EXCEPT ![d] = new] /\ sender' = [sender EXCEPT ![w] = IdleSender]
        /\ WorkOnly /\ UNCHANGED texts
    BY <1>2, <2>1 DEF CompletesClaim
  <2>6. RowGoes(smsRow[d], new)
    BY <2>2, <2>3, <2>4 DEF RowGoes
  <2>7. UNCHANGED <<smsPolicy, consent, source>>
    BY <2>5 DEF WorkOnly
  <2>8. DeliveriesHold'
    BY <2>1, <2>2, <2>4, <2>5, <2>7, RowWritten
  <2>9. TextsHold'
    <3>1. new.attempts >= smsRow[d].attempts /\ new.stops = smsRow[d].stops
      BY <2>2, <2>3, <2>4
    <3>2. \A t \in texts : t.d = d /\ t.state # "undelivered" => TextFits(t, new)
      BY <1>2, <2>1
    <3> QED BY <2>1, <2>5, <3>1, <3>2, TextsFollow
  <2>10. ASSUME NEW v \in Senders \ {w}, sender[v] # IdleSender
         PROVE  SenderFits(sender[v], smsRow'[sender[v].d], texts')
    BY <2>1, <2>3, <2>5, <2>6, <2>10, SendersFollow
  <2>11. SendersHold'
    BY <2>5, <2>10, SenderWritten DEF SmsInv
  <2> QED BY <2>7, <2>8, <2>9, <2>11 DEF SmsInv, PolicyTyped, ConsentTyped, SourceTyped
<1> QED BY <1>1, <1>2

\* An attempt that sent nothing leaves no text that may still be read.
LEMMA NothingSent ==
    ASSUME SmsInv, NEW w \in Senders, sender[w].phase # "idle", HoldsRow(w),
           NoText(sender[w], texts), NEW t \in texts, t.d = sender[w].d
    PROVE  t.state = "undelivered"
<1>1. PICK old \in DeliveryRows : old = smsRow[sender[w].d]
  BY SenderThere
<1>2. sender[w].token = old.attempts
  BY <1>1, ClaimHeld
<1>3. TextFits(t, old)
  BY <1>1, LiveTextsFit
<1> QED BY <1>2, <1>3 DEF TextFits, NoText

\* An attempt ends without anything to wait for: the row's next state.
LEMMA EndedFits ==
    ASSUME SmsInv, NEW w \in Senders, sender[w].phase # "idle",
           NEW status \in SmsStatuses \ (Reported \cup {"delivering"}),
           NEW new, new = SmsSettled(sender[w].d, status), HoldsRow(w)
    PROVE  /\ new \in DeliveryRows /\ RowFits(new) /\ ~ new.unknown /\ new.status = status
           /\ new.token = 0 /\ ~ new.dispatched
           /\ new.attempts = smsRow[sender[w].d].attempts
           /\ new.requeues = smsRow[sender[w].d].requeues
           /\ new.consentV = smsRow[sender[w].d].consentV
           /\ new.stops = smsRow[sender[w].d].stops
<1>1. PICK old \in DeliveryRows : old = smsRow[sender[w].d] /\ RowFits(old)
  BY SenderThere
<1>2. old.status = "delivering"
  BY <1>1 DEF HoldsRow
<1>3. old.attempts <= (old.requeues + 1) * MaxSmsAttempts /\ ~ old.unknown
      /\ (old.msg = 0 \/ old.rank = 50)
  BY <1>1, <1>2 DEF RowFits, Reported
<1>4. /\ new \in DeliveryRows /\ new.status = status /\ new.token = 0 /\ ~ new.dispatched
      /\ new.attempts = old.attempts /\ new.requeues = old.requeues
      /\ new.consentV = old.consentV /\ new.msg = old.msg
      /\ new.rank = old.rank /\ new.unknown = old.unknown /\ new.stops = old.stops
  BY <1>1, SettledIs
<1>5. status # "delivering" /\ status \notin Reported
  OBVIOUS
<1>6. RowFits(new)
  BY <1>3, <1>4, <1>5 DEF RowFits
<1> QED BY <1>1, <1>3, <1>4, <1>6

LEMMA CompleteKeeps == ASSUME SmsInv, NEW w \in Senders, CompleteWithoutProvider(w) PROVE SmsInv'
<1>1. sender[w].phase = "planned" /\ sender[w].plan # "mark"
  BY DEF CompleteWithoutProvider
<1>2. PICK status : status = IF sender[w].plan = "safe_retry" THEN SafeFailure(sender[w].d)
                                                              ELSE sender[w].plan
  OBVIOUS
<1>3. PICK new : new = SmsSettled(sender[w].d, status)
  OBVIOUS
<1>4. CompletesClaim(w, new)
  BY <1>2, <1>3 DEF CompleteWithoutProvider
<1>5. CASE ~ HoldsRow(w)
  BY <1>4, <1>5, WorkerStops DEF CompletesClaim
<1>6. CASE HoldsRow(w)
  <2>1. sender[w] \in SenderRows /\ SenderFits(sender[w], smsRow[sender[w].d], texts)
    BY <1>1, SenderThere
  <2>2. sender[w].plan \in DispatchPlans
    BY <1>1, <2>1, KindsOfSenders
  <2>3. status \in SmsStatuses \ (Reported \cup {"delivering"})
    BY <1>1, <1>2, <2>2 DEF SafeFailure, DispatchPlans, SmsStatuses, Reported
  <2>4. /\ new \in DeliveryRows /\ RowFits(new)
        /\ new.token = 0 /\ ~ new.dispatched
        /\ new.attempts = smsRow[sender[w].d].attempts
        /\ new.consentV = smsRow[sender[w].d].consentV
        /\ new.stops = smsRow[sender[w].d].stops
    BY <1>1, <1>3, <1>6, <2>3, EndedFits
  <2>5. NoText(sender[w], texts)
    BY <1>1, <2>1 DEF SenderFits
  <2>6. \A t \in texts : t.d = sender[w].d /\ t.state # "undelivered" => TextFits(t, new)
    BY <1>1, <1>6, <2>5, NothingSent
  <2> QED BY <1>1, <1>4, <2>4, <2>6, RowEnds
<1> QED BY <1>5, <1>6

LEMMA RecordKeeps == ASSUME SmsInv, NEW w \in Senders, RecordSend(w) PROVE SmsInv'
<1>1. sender[w].phase = "record"
  BY DEF RecordSend
<1>2. PICK d : d = sender[w].d
  OBVIOUS
<1>3. sender[w].plan \in SendAnswers /\ SenderFits(sender[w], smsRow[d], texts)
      /\ sender[w].token \in Nat \ {0}
  BY <1>1, <1>2, SenderThere, KindsOfSenders
<1>4. "dead_letter" \in SmsStatuses \ (Reported \cup {"delivering"})
      /\ "failed" \in SmsStatuses \ (Reported \cup {"delivering"})
      /\ "provider_accepted" \in SmsStatuses
  BY DEF SmsStatuses, Reported
<1>5. CASE ~ HoldsRow(w)
  BY <1>5, WorkerStops DEF RecordSend, CompletesClaim
<1>6. CASE HoldsRow(w) /\ sender[w].plan \in TextStatus
  <2>1. PICK answer \in TextStatus : answer = sender[w].plan
    BY <1>6
  <2>2. PICK status \in SmsStatuses \ {"delivering"} : status = RowStatus(answer)
    BY <2>1, RowStatusIs
  <2>3. PICK rank \in {10, 30, 50} : rank = TextRank[answer]
    BY <2>1, RowStatusIs
  <2>4. IF answer = "undelivered" THEN status = "dead_letter" /\ rank = 50 ELSE status \in Reported
    BY <2>1, <2>2, <2>3, RowStatusIs
  <2>5. PICK row : row = SmsSettled(d, status)
    OBVIOUS
  <2>6. PICK token \in Nat \ {0} : token = sender[w].token
    BY <1>3
  <2>7. PICK new : new = [row EXCEPT !.msg = token, !.rank = rank]
    OBVIOUS
  <2>8. CompletesClaim(w, new)
    BY <1>2, <2>1, <2>2, <2>3, <2>5, <2>6, <2>7 DEF RecordSend, TextStatus
  <2>9. PICK old \in DeliveryRows : old = smsRow[d] /\ RowFits(old)
    BY <1>1, <1>2, SenderThere
  <2>10. old.status = "delivering" /\ old.token = token /\ token = old.attempts
    BY <1>1, <1>2, <1>6, <2>6, <2>9, ClaimHeld DEF HoldsRow
  <2>11. /\ row \in DeliveryRows /\ row.status = status /\ row.token = 0
         /\ ~ row.dispatched /\ row.attempts = old.attempts /\ row.requeues = old.requeues
         /\ row.consentV = old.consentV /\ row.unknown = old.unknown /\ row.stops = old.stops
    BY <2>2, <2>5, <2>9, SettledIs
  <2>12. /\ new \in DeliveryRows /\ new.status = status /\ new.token = 0
         /\ ~ new.dispatched /\ new.attempts = old.attempts /\ new.requeues = old.requeues
         /\ new.consentV = old.consentV /\ new.unknown = old.unknown /\ new.stops = old.stops
         /\ new.msg = token /\ new.rank = rank
    <3>1. token \in Nat /\ rank \in {0, 10, 30, 50} /\ row \in DeliveryRows
      BY <2>3, <2>6, <2>11
    <3>2. new \in DeliveryRows
      BY <2>7, <3>1 DEF DeliveryRows
    <3>3. /\ new.status = row.status /\ new.token = row.token /\ new.dispatched = row.dispatched
          /\ new.attempts = row.attempts /\ new.requeues = row.requeues
          /\ new.consentV = row.consentV /\ new.unknown = row.unknown /\ new.stops = row.stops
          /\ new.msg = token /\ new.rank = rank
      BY <2>7, <3>1 DEF DeliveryRows
    <3> QED BY <2>11, <3>2, <3>3
  <2>13. RowFits(new)
    BY <2>3, <2>4, <2>9, <2>10, <2>12 DEF RowFits, Reported
  <2>14. ASSUME NEW t \in texts, t.d = d, t.state # "undelivered" PROVE TextFits(t, new)
    BY <1>1, <1>2, <1>3, <2>1, <2>4, <2>6, <2>9, <2>10, <2>12, <2>14, LiveTextsFit,
       RowsAreNotNone DEF TextFits, SenderFits
  <2> QED BY <1>1, <1>2, <2>8, <2>9, <2>12, <2>13, <2>14, RowEnds
<1>7. CASE HoldsRow(w) /\ sender[w].plan = "ambiguous"
  <2>1. PICK row : row = SmsSettled(d, "dead_letter")
    OBVIOUS
  <2>2. PICK new : new = [row EXCEPT !.unknown = TRUE]
    OBVIOUS
  <2>3. CompletesClaim(w, new)
    BY <1>2, <1>7, <2>1, <2>2 DEF RecordSend, TextStatus
  <2>4. PICK old \in DeliveryRows : old = smsRow[d] /\ RowFits(old)
    BY <1>1, <1>2, SenderThere
  <2>5. old.status = "delivering"
    BY <1>2, <1>7, <2>4 DEF HoldsRow
  <2>6. /\ row \in DeliveryRows /\ row.status = "dead_letter" /\ row.token = 0
        /\ ~ row.dispatched /\ row.attempts = old.attempts /\ row.requeues = old.requeues
        /\ row.consentV = old.consentV /\ row.msg = old.msg /\ row.rank = old.rank
        /\ row.stops = old.stops
    BY <1>4, <2>1, <2>4, SettledIs
  <2>7. /\ new \in DeliveryRows /\ new.status = "dead_letter" /\ new.token = 0
        /\ ~ new.dispatched /\ new.attempts = old.attempts /\ new.requeues = old.requeues
        /\ new.consentV = old.consentV /\ new.msg = old.msg /\ new.rank = old.rank
        /\ new.unknown /\ new.stops = old.stops
    BY <2>2, <2>6, UnknownIs
  <2>8. RowFits(new)
    BY <2>4, <2>5, <2>7 DEF RowFits, Reported
  <2>9. ASSUME NEW t \in texts, t.d = d, t.state # "undelivered" PROVE TextFits(t, new)
    BY <2>4, <2>7, <2>9, LiveTextsFit, RowsAreNotNone DEF TextFits, UnderWay
  <2> QED BY <1>1, <1>2, <2>3, <2>4, <2>7, <2>8, <2>9, RowEnds
<1>8. CASE HoldsRow(w) /\ sender[w].plan \in {"retryable", "rejected"}
  <2>1. PICK status : status = IF sender[w].plan = "retryable" THEN SafeFailure(d) ELSE "dead_letter"
    OBVIOUS
  <2>2. status \in SmsStatuses \ (Reported \cup {"delivering"})
    BY <1>4, <2>1 DEF SafeFailure
  <2>3. PICK new : new = SmsSettled(d, status)
    OBVIOUS
  <2>4. CompletesClaim(w, new)
    BY <1>2, <1>8, <2>1, <2>3 DEF RecordSend, TextStatus
  <2>5. /\ new \in DeliveryRows /\ RowFits(new)
        /\ new.token = 0 /\ ~ new.dispatched
        /\ new.attempts = smsRow[d].attempts /\ new.consentV = smsRow[d].consentV
        /\ new.stops = smsRow[d].stops
    BY <1>1, <1>2, <1>8, <2>2, <2>3, EndedFits
  <2>6. NoText(sender[w], texts)
    BY <1>1, <1>3, <1>8 DEF SenderFits
  <2>7. \A t \in texts : t.d = d /\ t.state # "undelivered" => TextFits(t, new)
    BY <1>1, <1>2, <1>8, <2>6, NothingSent
  <2> QED BY <1>1, <1>2, <2>4, <2>5, <2>7, RowEnds
<1> QED BY <1>3, <1>5, <1>6, <1>7, <1>8 DEF SendAnswers

(* The marker: the row is of the consent there is, and the worker that set *)
(* it sends what the row was enqueued for.                                 *)
LEMMA MarkKeeps == ASSUME SmsInv, NEW w \in Senders, MarkDispatchStarted(w) PROVE SmsInv'
<1>1. sender[w].phase = "planned" /\ HoldsRow(w) /\ WorkOnly /\ UNCHANGED texts
  BY DEF MarkDispatchStarted
<1>2. CASE DispatchPlanned(w, "suppressed") /\ UNCHANGED smsRow
  BY <1>1, <1>2, PlanKeeps DEF DispatchPlans
<1>3. CASE sender' = [sender EXCEPT ![w] = IdleSender] /\ UNCHANGED smsRow
  BY <1>1, <1>3, WorkerStops
<1>4. CASE MarkAllowed(w)
  <2>1. PICK s : s = sender[w]
    OBVIOUS
  <2>2. s \in SenderRows /\ s # IdleSender /\ s.token \in Nat \ {0}
    BY <1>1, <2>1, SenderThere
  <2>3. PICK d \in SmsRows : d = s.d
    BY <1>1, <2>1, SenderThere
  <2>4. PICK old \in DeliveryRows : old = smsRow[d]
    BY <1>1, <2>1, <2>3, SenderThere
  <2>5. RowFits(old) /\ RowConsented(old, consent) /\ SenderFits(s, old, texts) /\ smsRow[d] # NoRow
    BY <1>1, <2>1, <2>3, <2>4, SenderThere
  <2>6. s.token = old.attempts /\ old.token = old.attempts /\ old.attempts \in Nat \ {0}
        /\ old.status = "delivering"
        /\ \A v \in Senders \ {w} : sender[v] # IdleSender /\ sender[v].d = d =>
              sender[v].token # old.attempts /\ sender[v].phase # "send"
    BY <1>1, <2>1, <2>3, <2>4, ClaimHeld
  <2>7. PICK new : new = [old EXCEPT !.dispatched = TRUE]
    OBVIOUS
  <2>8. /\ new \in DeliveryRows /\ new.status = old.status /\ new.attempts = old.attempts
        /\ new.requeues = old.requeues /\ new.token = old.token /\ new.dispatched
        /\ new.consentV = old.consentV /\ new.msg = old.msg /\ new.rank = old.rank
        /\ new.unknown = old.unknown /\ new.stops = old.stops
    BY <2>7 DEF DeliveryRows
  <2>9. old.stops = consent.stops
    BY <1>4, <2>1, <2>3, <2>4, <2>5 DEF MarkAllowed, SmsFenced, RowConsented
  <2>10. PICK stops \in Nat : stops = old.stops
    BY DEF DeliveryRows
  <2>11. PICK sent : sent = [s EXCEPT !.phase = "send", !.plan = stops]
    OBVIOUS
  <2>12. sent \in SenderRows /\ sent.d = d /\ sent.token = s.token /\ sent.phase = "send"
         /\ sent.plan = stops
    BY <1>1, <2>1, <2>2, <2>3, <2>11 DEF SenderRows
  <2>13. sender' = [sender EXCEPT ![w] = sent]
    BY <1>4, <2>1, <2>9, <2>10, <2>11 DEF MarkDispatchStarted, SmsInv, SendersHold
  <2>14. smsRow' = [smsRow EXCEPT ![d] = new]
    BY <1>4, <2>1, <2>3, <2>4, <2>7 DEF MarkDispatchStarted, SmsInv, DeliveriesHold
  <2>15. UNCHANGED <<smsPolicy, consent, source>>
    BY <1>1 DEF WorkOnly
  <2>16. RowFits(new)
    BY <2>5, <2>6, <2>8 DEF RowFits
  <2>17. DeliveriesHold'
    BY <2>4, <2>5, <2>8, <2>14, <2>15, <2>16, RowWritten
  <2>18. NoText(s, texts)
    BY <1>1, <2>1, <2>5 DEF SenderFits
  <2>19. TextsHold'
    <3>1. new.attempts >= smsRow[d].attempts /\ new.stops = smsRow[d].stops
      BY <2>4, <2>6, <2>8
    <3>2. \A t \in texts : t.d = d /\ t.state # "undelivered" => TextFits(t, new)
      BY <1>1, <2>1, <2>3, <2>18, NothingSent
    <3> QED BY <1>1, <2>5, <2>8, <2>14, <3>1, <3>2, TextsFollow
  <2>20. new # NoRow
    BY <2>8, RowsAreNotNone
  <2>21. smsRow'[d] = new /\ \A e \in SmsRows \ {d} : smsRow'[e] = smsRow[e]
    BY <2>14 DEF SmsInv, DeliveriesHold
  <2>22. ASSUME NEW v \in Senders \ {w}, sender[v] # IdleSender
         PROVE  SenderFits(sender[v], smsRow'[sender[v].d], texts)
    <3>1. PICK u \in SenderRows : u = sender[v] /\ SenderFits(u, smsRow[u.d], texts)
      BY <2>22 DEF SmsInv, SendersHold
    <3>2. u.d \in SmsRows
      BY KindsOfSenders
    <3>3. CASE u.d # d
      BY <2>21, <3>1, <3>2, <3>3
    <3>4. CASE u.d = d
      BY <2>4, <2>6, <2>8, <2>20, <2>21, <2>22, <3>1, <3>4 DEF SenderFits
    <3> QED BY <3>3, <3>4
  <2>23. SenderFits(sent, new, texts)
    BY <2>3, <2>6, <2>8, <2>10, <2>12, <2>18, <2>20 DEF NoText, SenderFits, UnderWay
  <2>24. \A v \in Senders \ {w} : sender[v] # IdleSender /\ sender[v].d = sent.d =>
            sender[v].token # sent.token
    BY <2>6, <2>12
  <2>25. SendersHold'
    BY <1>1, <2>12, <2>13, <2>21, <2>22, <2>23, <2>24, SenderWritten DEF SmsInv
  <2> QED BY <2>15, <2>17, <2>19, <2>25 DEF SmsInv, PolicyTyped, ConsentTyped, SourceTyped
<1> QED BY <1>2, <1>3, <1>4 DEF MarkDispatchStarted

-----------------------------------------------------------------------------
\* The messages at Twilio.

LEMMA SendKeeps == ASSUME SmsInv, NEW w \in Senders, SendText(w) PROVE SmsInv'
<1>1. sender[w].phase = "send" /\ UNCHANGED <<smsPolicy, consent, source, smsRow>>
  BY DEF SendText, WorkOnly
<1>2. PICK s : s = sender[w]
  OBVIOUS
<1>3. s \in SenderRows /\ s # IdleSender /\ s.token \in Nat \ {0} /\ s.phase = "send"
  BY <1>1, <1>2, SenderThere
<1>4. PICK d \in SmsRows : d = s.d
  BY <1>1, <1>2, SenderThere
<1>5. PICK row \in DeliveryRows : row = smsRow[d] /\ SenderFits(s, row, texts)
  BY <1>1, <1>2, <1>4, SenderThere
<1>6. s.token <= row.attempts /\ row # NoRow /\ s.plan = row.stops /\ s.token = row.attempts
      /\ UnderWay(row) /\ NoText(s, texts)
  BY <1>3, <1>5 DEF SenderFits
<1>7. ASSUME NEW answer \in SendAnswers, Answered(w, answer),
             \/ texts' = texts
             \/ \E state \in TextStatus : /\ texts' = texts \cup {Text(w, state)}
                                          /\ answer \in {state, "ambiguous"}
      PROVE  SmsInv'
  <2>1. PICK next : next = [s EXCEPT !.phase = "record", !.plan = answer]
    OBVIOUS
  <2>2. next \in SenderRows /\ next.d = d /\ next.token = s.token /\ next.phase = "record"
        /\ next.plan = answer
    BY <1>2, <1>3, <1>4, <2>1 DEF SenderRows
  <2>3. sender' = [sender EXCEPT ![w] = next]
    BY <1>2, <1>7, <2>1 DEF Answered, SmsInv, SendersHold
  <2>4. PICK text \in TextRows :
           /\ text.d = d /\ text.token = s.token /\ text.marked = s.plan
           /\ \/ texts' = texts
              \/ texts' = texts \cup {text} /\ answer \in {text.state, "ambiguous"}
    <3>1. PICK state \in TextStatus :
             texts' = texts \/ (texts' = texts \cup {Text(w, state)} /\ answer \in {state, "ambiguous"})
      BY <1>7 DEF TextStatus
    <3>2. PICK text : text = Text(w, state)
      OBVIOUS
    <3>3. consent.stops \in Nat /\ s.plan \in Nat
      BY <1>3, KindsOfSenders DEF SmsInv, ConsentTyped, ConsentRows
    <3>4. text \in TextRows
      BY <1>2, <1>3, <1>4, <3>2, <3>3 DEF Text, TextRows
    <3>5. text.d = d /\ text.token = s.token /\ text.marked = s.plan /\ text.state = state
      BY <1>2, <1>4, <3>2 DEF Text
    <3> QED BY <3>1, <3>2, <3>4, <3>5
  <2>5. answer \in {"retryable", "rejected"} => texts' = texts
    BY <2>4 DEF TextRows, TextStatus
  <2>6. ASSUME answer = "undelivered", NEW t \in texts', t.d = d, t.token = s.token
        PROVE  t.state = "undelivered"
    BY <1>6, <2>4, <2>6, <1>4 DEF NoText
  <2>8. TextsHold'
    BY <1>1, <1>4, <1>5, <1>6, <2>4 DEF TextFits, SmsInv, TextsHold, NoText
  <2>9. SenderFits(next, smsRow[next.d], texts')
    BY <1>4, <1>5, <1>6, <2>2, <2>5, <2>6 DEF NoText, SenderFits
  <2>10. ASSUME NEW v \in Senders \ {w}, sender[v] # IdleSender
         PROVE  SenderFits(sender[v], smsRow[sender[v].d], texts')
                /\ (sender[v].d = d => sender[v].token # s.token)
    <3>1. PICK u \in SenderRows : u = sender[v] /\ SenderFits(u, smsRow[u.d], texts)
      BY <2>10 DEF SmsInv, SendersHold
    <3>2. u.d = d => u.token # s.token
      BY <1>2, <1>3, <1>4, <2>10, <3>1 DEF SmsInv, SendersHold
    <3>3. NoText(u, texts) => NoText(u, texts')
      BY <2>4, <3>2 DEF NoText
    <3>4. \A t \in texts' : t.d = u.d /\ t.token = u.token => t \in texts
      BY <2>4, <3>2
    <3> QED BY <3>1, <3>2, <3>3, <3>4 DEF SenderFits
  <2>11. SendersHold'
    BY <1>1, <2>2, <2>3, <2>9, <2>10, SenderWritten DEF SmsInv
  <2> QED BY <1>1, <2>8, <2>11 DEF SmsInv, PolicyTyped, ConsentTyped, SourceTyped, DeliveriesHold
<1>8. TextStatus \cup {"ambiguous", "retryable", "rejected"} = SendAnswers
  BY DEF SendAnswers
<1>9. CASE \E state \in TextStatus : /\ texts' = texts \cup {Text(w, state)}
                                      /\ \E answer \in {state, "ambiguous"} : Answered(w, answer)
  <2>1. PICK state \in TextStatus, answer \in SendAnswers :
           texts' = texts \cup {Text(w, state)} /\ answer \in {state, "ambiguous"} /\ Answered(w, answer)
    BY <1>8, <1>9
  <2> QED BY <1>7, <2>1
<1>10. CASE UNCHANGED texts /\ \E answer \in {"ambiguous", "retryable", "rejected"} : Answered(w, answer)
  <2>1. PICK answer \in {"ambiguous", "retryable", "rejected"} : Answered(w, answer)
    BY <1>10
  <2>2. answer \in SendAnswers
    BY <1>8
  <2>3. texts' = texts
    BY <1>10
  <2> QED BY <1>7, <2>1, <2>2, <2>3
<1> QED BY <1>9, <1>10 DEF SendText

\* A text moves on, and one that was not delivered stays so.
LEMMA AdvanceKeeps == ASSUME SmsInv, NEW t \in texts, TextAdvances(t) PROVE SmsInv'
<1>1. UNCHANGED <<smsPolicy, consent, source, smsRow, sender>>
  BY DEF TextAdvances, WorkOnly
<1>2. t \in TextRows /\ TextFits(t, smsRow[t.d])
  BY LiveTextsFit
<1>3. PICK s \in TextStatus :
         /\ TextRank[s] > TextRank[t.state]
         /\ texts' = (texts \ {t}) \cup {[t EXCEPT !.state = s]}
  BY DEF TextAdvances
<1>4. PICK new : new = [t EXCEPT !.state = s]
  OBVIOUS
<1>5. new \in TextRows /\ new.d = t.d /\ new.token = t.token /\ new.marked = t.marked /\ new.state = s
  BY <1>2, <1>3, <1>4 DEF TextRows
<1>6. t.state # "undelivered"
  BY <1>2, <1>3, <1>5, TextStates
<1>7. TextFits(new, smsRow[new.d])
  BY <1>2, <1>5, <1>6 DEF TextFits
<1>8. texts' = (texts \ {t}) \cup {new}
  BY <1>3, <1>4
<1>9. TextsHold'
  BY <1>1, <1>5, <1>7, <1>8 DEF SmsInv, TextsHold
<1>10. SendersHold'
  <2>1. ASSUME NEW v \in Senders, sender[v] # IdleSender
        PROVE  SenderFits(sender[v], smsRow[sender[v].d], texts')
    <3>1. PICK u \in SenderRows : u = sender[v] /\ SenderFits(u, smsRow[u.d], texts)
      BY <2>1 DEF SmsInv, SendersHold
    <3>2. NoText(u, texts) => NoText(u, texts')
      BY <1>5, <1>8 DEF NoText
    <3>3. \A x \in texts' : x \in texts \/ (x = new /\ new.d = t.d /\ new.token = t.token)
      BY <1>5, <1>8
    <3> QED BY <1>6, <3>1, <3>2, <3>3 DEF SenderFits
  <2> QED BY <1>1, <2>1 DEF SmsInv, SendersHold
<1> QED BY <1>1, <1>9, <1>10 DEF SmsInv, PolicyTyped, ConsentTyped, SourceTyped, DeliveriesHold

-----------------------------------------------------------------------------
\* The theorems about the texts.

LEMMA SmsStep == SmsInv /\ [SmsNext]_smsVars => SmsInv'
<1> SUFFICES ASSUME SmsInv, [SmsNext]_smsVars PROVE SmsInv'
  OBVIOUS
<1>1. CASE UNCHANGED smsVars
  BY <1>1 DEF smsVars, SmsInv, PolicyTyped, ConsentTyped, SourceTyped, DeliveriesHold,
              SendersHold, TextsHold
<1>2. CASE \E w \in Senders :
         \/ \E d \in SmsRows : ClaimRow(w, d)
         \/ ResolveDispatchReadiness(w) \/ CompleteWithoutProvider(w)
         \/ MarkDispatchStarted(w) \/ SendText(w) \/ RecordSend(w) \/ SenderStops(w)
  BY <1>2, ClaimRowKeeps, ResolveKeeps, CompleteKeeps, MarkKeeps, SendKeeps, RecordKeeps,
     WorkerStops DEF SenderStops
<1>3. CASE \E d \in SmsRows : \/ SmsLeaseEnds(d) \/ RecoverExpiredLease(d)
                              \/ RequeueSms(d) \/ RedactSms(d)
  BY <1>3, LeaseEndKeeps, RecoverKeeps, RequeueKeeps, RedactKeeps
<1>4. CASE \E t \in texts : TextAdvances(t) \/ ApplySmsCallback(t)
  BY <1>4, AdvanceKeeps, CallbackKeeps
<1>5. CASE \/ \E k \in ConsentKeys : \/ RecordConsentRequested(k) \/ AttestConsent(k)
                                     \/ \E granted \in BOOLEAN : RecordConversationConsent(k, granted)
           \/ \E m \in Messages : InboundStop(m) \/ ReadStart(m) \/ ApplyStart(m)
  BY <1>5, ConsentKeep
<1>6. CASE \E p \in QuietPolicies : UpdatePolicy(p)
  BY <1>6, PolicyKeeps
<1>7. CASE SourceChanges("current") \/ SourceSynced
  BY <1>7, SourceKeeps
<1> QED BY <1>1, <1>2, <1>3, <1>4, <1>5, <1>6, <1>7 DEF SmsNext

THEOREM SmsInvariant == SmsSpec => []SmsInv
BY SmsInitially, SmsStep, PTL DEF SmsSpec

(* The windows between a worker's markers and its texts: each ends before  *)
(* the next one begins, as the STOPs that there were count them.           *)
WindowsHold ==
    /\ \A t \in texts : t.marked <= t.sent /\ t.sent <= consent.stops
    /\ \A t, u \in texts : t # u /\ t.by = u.by => t.sent <= u.marked \/ u.sent <= t.marked
    /\ \A w \in Senders : sender[w].phase = "send" =>
          /\ sender[w].plan <= consent.stops
          /\ \A t \in texts : t.by = w => t.sent <= sender[w].plan

LEMMA WindowNumbers ==
    ASSUME SmsInv
    PROVE  /\ consent.stops \in Nat /\ \A t \in texts : t.marked \in Nat /\ t.sent \in Nat
           /\ \A w \in Senders : sender[w].phase = "send" => sender[w].plan \in Nat
<1>1. consent.stops \in Nat /\ \A t \in texts : t.marked \in Nat /\ t.sent \in Nat
  BY DEF SmsInv, ConsentTyped, ConsentRows, TextsHold, TextRows
<1>2. ASSUME NEW w \in Senders, sender[w].phase = "send" PROVE sender[w].plan \in Nat
  BY <1>2, SenderThere, KindsOfSenders
<1> QED BY <1>1, <1>2

LEMMA StopsGrow ==
    ASSUME SmsInv, SmsNext
    PROVE  consent'.stops \in Nat /\ consent.stops <= consent'.stops
<1>1. consent.stops \in Nat
  BY WindowNumbers
<1>2. ASSUME NEW e, mutateConsent(e) PROVE consent'.stops \in Nat /\ consent.stops <= consent'.stops
  <2>1. PICK more \in Nat : more = IF e.next = "opted_out" THEN 1 ELSE 0
    OBVIOUS
  <2>2. consent' = [status |-> e.next, version |-> consent.version + 1,
                    stops |-> consent.stops + more]
    BY <1>2, <2>1 DEF mutateConsent
  <2> QED BY <1>1, <2>1, <2>2
<1>3. ASSUME UNCHANGED consent PROVE consent'.stops \in Nat /\ consent.stops <= consent'.stops
  BY <1>1, <1>3
<1>4. ASSUME NEW m \in Messages, InboundStop(m) \/ ReadStart(m) \/ ApplyStart(m)
      PROVE  (\E e : mutateConsent(e)) \/ UNCHANGED consent
  BY <1>4, Zenon DEF InboundStop, ReadStart, ApplyStart, AppliedStart
<1>5. ASSUME NEW k \in ConsentKeys, \/ RecordConsentRequested(k) \/ AttestConsent(k)
                                    \/ \E granted \in BOOLEAN : RecordConversationConsent(k, granted)
      PROVE  \E e : mutateConsent(e)
  BY <1>5, Zenon DEF RecordConsentRequested, AttestConsent, RecordConversationConsent
<1>6. ASSUME NEW w \in Senders, \/ \E d \in SmsRows : ClaimRow(w, d)
                                \/ ResolveDispatchReadiness(w) \/ CompleteWithoutProvider(w)
                                \/ MarkDispatchStarted(w) \/ SendText(w) \/ RecordSend(w)
                                \/ SenderStops(w)
      PROVE  UNCHANGED consent
  BY <1>6, Zenon DEF ClaimRow, ResolveDispatchReadiness, CompleteWithoutProvider,
     CompletesClaim, MarkDispatchStarted, SendText, RecordSend, SenderStops, WorkOnly
<1>7. ASSUME \/ \E d \in SmsRows : \/ SmsLeaseEnds(d) \/ RecoverExpiredLease(d)
                                    \/ RequeueSms(d) \/ RedactSms(d)
             \/ \E t \in texts : TextAdvances(t) \/ ApplySmsCallback(t)
      PROVE  UNCHANGED consent
  BY <1>7, Zenon DEF SmsLeaseEnds, RecoverExpiredLease, RequeueSms, RedactSms, TextAdvances,
     ApplySmsCallback, WorkOnly
<1>8. ASSUME (\E p \in QuietPolicies : UpdatePolicy(p)) \/ SourceChanges("current") \/ SourceSynced
      PROVE  UNCHANGED consent
  BY <1>8 DEF UpdatePolicy, SourceChanges, SourceSynced
<1> QED BY <1>2, <1>3, <1>4, <1>5, <1>6, <1>7, <1>8 DEF SmsNext

LEMMA WindowsStay ==
    ASSUME SmsInv, WindowsHold, UNCHANGED texts,
           consent'.stops \in Nat, consent.stops <= consent'.stops,
           \A w \in Senders : sender'[w].phase = "send" =>
               \/ sender'[w] = sender[w]
               \/ sender'[w].plan = consent.stops
    PROVE  WindowsHold'
<1>1. ASSUME NEW w \in Senders, sender'[w].phase = "send"
      PROVE  /\ sender'[w].plan <= consent'.stops
             /\ \A t \in texts : t.by = w => t.sent <= sender'[w].plan
  BY <1>1, WindowNumbers DEF WindowsHold
<1> QED BY <1>1, WindowNumbers DEF WindowsHold

LEMMA SenderGoes ==
    ASSUME SmsInv, NEW w \in Senders, NEW s, sender' = [sender EXCEPT ![w] = s]
    PROVE  sender'[w] = s /\ \A v \in Senders \ {w} : sender'[v] = sender[v]
BY DEF SmsInv, SendersHold

LEMMA WindowsStep == SmsInv /\ WindowsHold /\ [SmsNext]_smsVars => WindowsHold'
<1> SUFFICES ASSUME SmsInv, WindowsHold, [SmsNext]_smsVars PROVE WindowsHold'
  OBVIOUS
<1>1. CASE UNCHANGED smsVars
  BY <1>1 DEF smsVars, WindowsHold
<1>2. ASSUME NEW w \in Senders, SendText(w) PROVE WindowsHold'
  <2>1. sender[w].phase = "send" /\ UNCHANGED consent
    BY <1>2 DEF SendText, WorkOnly
  <2>2. PICK answer : Answered(w, answer)
    BY <1>2, Zenon DEF SendText
  <2>3. PICK next : next = [sender[w] EXCEPT !.phase = "record", !.plan = answer]
    OBVIOUS
  <2>4. sender'[w].phase = "record" /\ \A v \in Senders \ {w} : sender'[v] = sender[v]
    BY <2>1, <2>2, <2>3, SenderThere DEF Answered, SmsInv, SendersHold, SenderRows
  <2>5. CASE UNCHANGED texts
    BY <2>1, <2>4, <2>5, WindowNumbers, WindowsStay
  <2>6. ASSUME NEW s \in TextStatus, texts' = texts \cup {Text(w, s)} PROVE WindowsHold'
    <3>1. PICK text : text = Text(w, s)
      OBVIOUS
    <3>2. text.by = w /\ text.marked = sender[w].plan /\ text.sent = consent.stops
      BY <3>1 DEF Text
    <3>3. sender[w].plan \in Nat /\ consent.stops \in Nat /\ sender[w].plan <= consent.stops
          /\ \A t \in texts : t.by = w => t.sent <= sender[w].plan
      BY <2>1, WindowNumbers DEF WindowsHold
    <3>4. texts' = texts \cup {text}
      BY <2>6, <3>1
    <3>5. \A t \in texts' : t.marked <= t.sent /\ t.sent <= consent'.stops
      BY <2>1, <3>2, <3>3, <3>4 DEF WindowsHold
    <3>6. ASSUME NEW t \in texts', NEW u \in texts', t # u, t.by = u.by
          PROVE  t.sent <= u.marked \/ u.sent <= t.marked
      BY <3>2, <3>3, <3>4, <3>6 DEF WindowsHold
    <3>7. ASSUME NEW v \in Senders, sender'[v].phase = "send"
          PROVE  /\ sender'[v].plan <= consent'.stops
                 /\ \A t \in texts' : t.by = v => t.sent <= sender'[v].plan
      BY <2>1, <2>4, <3>2, <3>4, <3>7 DEF WindowsHold
    <3> QED BY <3>5, <3>6, <3>7 DEF WindowsHold
  <2> QED BY <1>2, <2>5, <2>6 DEF SendText
<1>3. ASSUME NEW t \in texts, TextAdvances(t) PROVE WindowsHold'
  <2>1. PICK s \in TextStatus : texts' = (texts \ {t}) \cup {[t EXCEPT !.state = s]}
    BY <1>3 DEF TextAdvances
  <2>2. PICK new : new = [t EXCEPT !.state = s]
    OBVIOUS
  <2>3. new.by = t.by /\ new.marked = t.marked /\ new.sent = t.sent
    BY <2>2, LiveTextsFit DEF TextRows
  <2>4. texts' = (texts \ {t}) \cup {new} /\ UNCHANGED <<consent, sender>>
    BY <1>3, <2>1, <2>2 DEF TextAdvances, WorkOnly
  <2>5. ASSUME NEW x \in texts', NEW y \in texts', x # y, x.by = y.by
        PROVE  x.sent <= y.marked \/ y.sent <= x.marked
    BY <2>3, <2>4, <2>5 DEF WindowsHold
  <2>6. \A x \in texts' : x.marked <= x.sent /\ x.sent <= consent'.stops
    BY <2>3, <2>4 DEF WindowsHold
  <2>7. ASSUME NEW w \in Senders, sender'[w].phase = "send"
        PROVE  /\ sender'[w].plan <= consent'.stops
               /\ \A x \in texts' : x.by = w => x.sent <= sender'[w].plan
    BY <2>3, <2>4, <2>7 DEF WindowsHold
  <2> QED BY <2>5, <2>6, <2>7 DEF WindowsHold
<1>4. ASSUME NEW w \in Senders, NEW s, sender' = [sender EXCEPT ![w] = s],
             s.phase = "send" => s.plan = consent.stops, UNCHANGED texts, SmsNext
      PROVE  WindowsHold'
  BY <1>4, SenderGoes, StopsGrow, WindowsStay
<1>5. CASE SmsNext /\ UNCHANGED <<sender, texts>>
  BY <1>5, StopsGrow, WindowsStay
<1>6. ASSUME NEW w \in Senders, NEW plan, DispatchPlanned(w, plan), UNCHANGED texts, SmsNext,
             sender[w].phase \in {"claimed", "planned"}
      PROVE  WindowsHold'
  <2>1. sender[w] \in SenderRows
    BY <1>6, SenderThere
  <2>2. PICK s : s = [sender[w] EXCEPT !.phase = "planned", !.plan = plan]
    OBVIOUS
  <2>3. s.phase = "planned" /\ sender' = [sender EXCEPT ![w] = s]
    BY <1>6, <2>1, <2>2 DEF DispatchPlanned, SmsInv, SendersHold, SenderRows
  <2> QED BY <1>4, <1>6, <2>3
<1>7. ASSUME NEW w \in Senders, NEW d \in SmsRows, ClaimRow(w, d), SmsNext PROVE WindowsHold'
  <2>1. PICK s : s = [phase |-> "claimed", d |-> d, plan |-> "none", token |-> smsRow[d].attempts + 1]
    OBVIOUS
  <2> QED BY <1>4, <1>7, <2>1 DEF ClaimRow
<1>8. ASSUME NEW w \in Senders, sender' = [sender EXCEPT ![w] = IdleSender], UNCHANGED texts, SmsNext
      PROVE  WindowsHold'
  BY <1>4, <1>8 DEF IdleSender
<1>9. ASSUME NEW w \in Senders, MarkDispatchStarted(w), SmsNext PROVE WindowsHold'
  <2>1. sender[w].phase = "planned" /\ UNCHANGED texts
    BY <1>9 DEF MarkDispatchStarted
  <2>2. sender[w] \in SenderRows
    BY <2>1, SenderThere
  <2>3. CASE MarkAllowed(w)
    <3>1. PICK s : s = [sender[w] EXCEPT !.phase = "send", !.plan = consent.stops]
      OBVIOUS
    <3>2. s.plan = consent.stops /\ sender' = [sender EXCEPT ![w] = s]
      BY <1>9, <2>2, <2>3, <3>1 DEF MarkDispatchStarted, SmsInv, SendersHold, SenderRows
    <3> QED BY <1>4, <1>9, <2>1, <3>2
  <2>4. CASE ~ MarkAllowed(w)
    BY <1>6, <1>8, <1>9, <2>1, <2>4 DEF MarkDispatchStarted
  <2> QED BY <2>3, <2>4
<1>10. ASSUME NEW w \in Senders, SmsNext,
              ResolveDispatchReadiness(w) \/ CompleteWithoutProvider(w) \/ RecordSend(w) \/ SenderStops(w)
       PROVE  WindowsHold'
  BY <1>6, <1>8, <1>10 DEF ResolveDispatchReadiness, CompleteWithoutProvider, RecordSend,
     SenderStops, CompletesClaim
<1>11. CASE SmsNext
  BY <1>2, <1>3, <1>5, <1>7, <1>9, <1>10, <1>11, Zenon DEF RecordConsentRequested,
     AttestConsent, RecordConversationConsent, InboundStop, ReadStart, ApplyStart, ConsentOnly,
     UpdatePolicy, SourceChanges, SourceSynced, SmsLeaseEnds, RecoverExpiredLease, RequeueSms,
     RedactSms, ApplySmsCallback, SmsNext
<1> QED BY <1>1, <1>11

LEMMA WindowsInitially == SmsInit => WindowsHold
BY DEF SmsInit, WindowsHold, IdleSender

LEMMA AttemptsBound ==
    ASSUME NEW n \in 0 .. MaxOwnerRequeues, NEW a \in Nat, a <= (n + 1) * MaxSmsAttempts
    PROVE  a <= (MaxOwnerRequeues + 1) * MaxSmsAttempts
<1>1. PICK m \in Nat : m = MaxSmsAttempts
  BY SmsConstants
<1>2. PICK k \in Nat : MaxOwnerRequeues = n + k
  BY SmsConstants
<1>3. (n + k + 1) * m = (n + 1) * m + k * m /\ (n + 1) * m \in Nat /\ k * m \in Nat
  OBVIOUS
<1> QED BY <1>1, <1>2, <1>3

LEMMA SmsFits == SmsInv => SmsTypeOK
<1> SUFFICES ASSUME SmsInv PROVE SmsTypeOK
  OBVIOUS
<1>1. consent.status \in {"none", "pending", "consented", "declined", "opted_out"}
      /\ consent.version \in 0 .. MaxConsent
  BY DEF SmsInv, ConsentTyped, ConsentRows
<1>2. ASSUME NEW d \in SmsRows, smsRow[d] # NoRow
      PROVE  /\ smsRow[d].status \in {"queued", "quiet_hours", "delivering", "provider_accepted",
                                      "sent", "delivered", "failed", "dead_letter", "suppressed"}
             /\ (smsRow[d].status = "delivering") = (smsRow[d].token # 0)
             /\ smsRow[d].dispatched => smsRow[d].status = "delivering"
             /\ smsRow[d].attempts <= (MaxOwnerRequeues + 1) * MaxSmsAttempts
  <2>1. PICK row \in DeliveryRows : row = smsRow[d] /\ RowFits(row)
    BY <1>2 DEF SmsInv, DeliveriesHold
  <2>2. row.status \in SmsStatuses /\ row.attempts \in Nat /\ row.requeues \in 0 .. MaxOwnerRequeues
    BY DEF DeliveryRows
  <2>3. row.attempts <= (MaxOwnerRequeues + 1) * MaxSmsAttempts
    BY <2>1, <2>2, AttemptsBound DEF RowFits
  <2>4. (row.status = "delivering") <=> (row.token # 0)
    BY <2>1, <2>2 DEF RowFits
  <2>5. row.dispatched => row.status = "delivering"
    BY <2>1 DEF RowFits
  <2> QED BY <2>1, <2>2, <2>3, <2>4, <2>5 DEF SmsStatuses, Reported
<1> QED BY <1>1, <1>2 DEF SmsTypeOK

LEMMA SmsWanted == SmsInv /\ WindowsHold => TextsAreWanted
<1> SUFFICES ASSUME SmsInv, WindowsHold PROVE TextsAreWanted
  OBVIOUS
<1>1. \A t \in texts : t.marked = smsRow[t.d].stops
  BY LiveTextsFit DEF TextFits
<1>2. ASSUME NEW t \in texts, NEW u \in texts, t.d = u.d,
             t.state # "undelivered", u.state # "undelivered"
      PROVE  t = u
  BY <1>2, LiveTextsFit DEF TextFits, SmsInv, TextsHold
<1> QED BY <1>1, <1>2 DEF TextsAreWanted, WindowsHold

\* The shapes of rows and of consent.
THEOREM SmsTypeCorrect == SmsSpec => []SmsTypeOK
BY SmsInvariant, SmsFits, PTL

(* TextsAreWanted: a customer is texted about a change at most once, on a  *)
(* consent that no STOP ended before the dispatch marker, and a STOP that  *)
(* comes after the marker is overtaken by one text of each sender at most. *)
THEOREM TextsStayWanted == SmsSpec => []TextsAreWanted
BY SmsInitially, SmsStep, WindowsInitially, WindowsStep, SmsWanted, PTL DEF SmsSpec

LEMMA OptOutEnds ==
    [SmsNext]_smsVars =>
      (consent.status = "opted_out" /\ consent'.status # "opted_out" =>
          \E m \in Messages : EventsWith(<<"start", m>>) = {} /\ inbound[m] # "none")
<1> SUFFICES ASSUME [SmsNext]_smsVars, consent.status = "opted_out", consent'.status # "opted_out"
             PROVE  \E m \in Messages : EventsWith(<<"start", m>>) = {} /\ inbound[m] # "none"
  OBVIOUS
<1>1. ASSUME NEW key, NEW next, NEW origin, NEW event,
             mutateConsent(ConsentEvent(key, next, origin, event))
      PROVE  EventsWith(key) = {} /\ (next # "opted_out" => origin = "twilio" /\ event = "opt_in")
  BY <1>1 DEF mutateConsent, NewEvent, ConsentEvent, legalConsentTransition
<1>2. ASSUME NEW key, NEW event, mutateConsent(ConsentEvent(key, "opted_out", "twilio", event))
      PROVE  FALSE
  BY <1>2 DEF mutateConsent, ConsentEvent
<1>3. CASE UNCHANGED consent
  BY <1>3
<1>4. CASE \E k \in ConsentKeys : \/ RecordConsentRequested(k) \/ AttestConsent(k)
                                  \/ \E granted \in BOOLEAN : RecordConversationConsent(k, granted)
  <2>1. PICK k \in ConsentKeys : \/ RecordConsentRequested(k) \/ AttestConsent(k)
                                 \/ \E granted \in BOOLEAN : RecordConversationConsent(k, granted)
    BY <1>4
  <2>2. CASE RecordConsentRequested(k)
    BY <1>1, <2>2 DEF RecordConsentRequested
  <2>3. CASE AttestConsent(k)
    BY <1>1, <2>3 DEF AttestConsent
  <2>4. ASSUME NEW granted \in BOOLEAN, RecordConversationConsent(k, granted) PROVE FALSE
    <3>1. PICK word : word = IF granted THEN "consented" ELSE "declined"
      OBVIOUS
    <3>2. mutateConsent(ConsentEvent(<<"answer", k>>, word, "conversation", word))
      BY <2>4, <3>1 DEF RecordConversationConsent
    <3>3. word # "opted_out"
      BY <3>1
    <3> QED BY <1>1, <3>2, <3>3
  <2> QED BY <2>1, <2>2, <2>3, <2>4
<1>5. ASSUME NEW m \in Messages, InboundStop(m) PROVE FALSE
  BY <1>2, <1>5 DEF InboundStop
<1>6. ASSUME NEW m \in Messages, ApplyStart(m)
      PROVE  EventsWith(<<"start", m>>) = {} /\ inbound[m] # "none"
  BY <1>1, <1>3, <1>6 DEF ApplyStart, AppliedStart
<1>7. ASSUME NEW m \in Messages, ReadStart(m) PROVE UNCHANGED consent
  BY <1>7 DEF ReadStart
<1>8. ASSUME NEW w \in Senders, \/ \E d \in SmsRows : ClaimRow(w, d)
         \/ ResolveDispatchReadiness(w) \/ CompleteWithoutProvider(w)
         \/ MarkDispatchStarted(w) \/ SendText(w) \/ RecordSend(w) \/ SenderStops(w)
      PROVE UNCHANGED consent
  BY <1>8 DEF ClaimRow, ResolveDispatchReadiness, CompleteWithoutProvider, MarkDispatchStarted,
              SendText, RecordSend, SenderStops, CompletesClaim, WorkOnly
<1>9. ASSUME NEW d \in SmsRows, \/ SmsLeaseEnds(d) \/ RecoverExpiredLease(d)
                              \/ RequeueSms(d) \/ RedactSms(d)
      PROVE UNCHANGED consent
  BY <1>9 DEF SmsLeaseEnds, RecoverExpiredLease, RequeueSms, RedactSms, WorkOnly
<1>10. ASSUME NEW t \in texts, TextAdvances(t) \/ ApplySmsCallback(t) PROVE UNCHANGED consent
  BY <1>10 DEF TextAdvances, ApplySmsCallback, WorkOnly
<1>11. ASSUME NEW p \in QuietPolicies, UpdatePolicy(p) PROVE UNCHANGED consent
  BY <1>11 DEF UpdatePolicy
<1>12. ASSUME SourceChanges("current") \/ SourceSynced PROVE UNCHANGED consent
  BY <1>12 DEF SourceChanges, SourceSynced
<1>13. CASE UNCHANGED smsVars
  BY <1>3, <1>13 DEF smsVars
<1> QED BY <1>3, <1>4, <1>5, <1>6, <1>7, <1>8, <1>9, <1>10, <1>11, <1>12, <1>13 DEF SmsNext

(* OptOutHolds: an opt-out ends only with a START that was not counted     *)
(* before.                                                                 *)
THEOREM OptOutStays == SmsSpec => OptOutHolds
<1>1. [SmsNext]_smsVars =>
        [consent.status = "opted_out" /\ consent'.status # "opted_out" =>
          \E m \in Messages : EventsWith(<<"start", m>>) = {} /\ inbound[m] # "none"]_smsVars
  BY OptOutEnds
<1> QED BY <1>1, PTL DEF SmsSpec, OptOutHolds

-----------------------------------------------------------------------------
\* The events of Square.

HookStatuses == {"pending", "processing", "succeeded", "failed", "dead_letter"}
HookRows == [status : HookStatuses, attempts : Nat, requeues : 0 .. MaxHookRequeues,
             token : Nat, live : BOOLEAN, error : {"none", "exhausted", "dependency"}]
HookRuns == [phase : {"claimed", "listed", "synced"}, event : HookEvents \cup {0},
             token : Nat, generation : Nat, seen : 0 .. MaxChanges, ok : BOOLEAN]

\* The calendar holds what the event announced, or a later event is owed, or it could
\* not take the booking.
Takes(sq, an, v) == sq.fit /\ ~ sq.protected /\ (an[v] # NoDay \/ sq.day <= RepairDays)
Reached(v, sq, an, level) == level >= v \/ sq.version > v \/ ~ Takes(sq, an, v)

\* A row by itself: its token is its latest attempt while it is processed.
HookFits(e) ==
    /\ e.attempts <= (e.requeues + 1) * MaxHookAttempts
    /\ e.token = IF e.status = "processing" THEN e.attempts ELSE 0
    /\ e.status = "processing" => e.attempts # 0
    /\ e.live => e.status = "processing"

(* A worker has an event that was announced; what it listed for it holds   *)
(* the event's version, and so does the calendar once it was stored.       *)
RunFits(r, sq, an, level) ==
    /\ r.event <= sq.version
    /\ r.seen <= sq.version
    /\ r.event # 0 /\ r.phase = "listed" => Reached(r.event, sq, an, r.seen)
    /\ r.event # 0 /\ r.phase = "synced" /\ r.ok => Reached(r.event, sq, an, level)
    /\ r.phase # "synced" => ~ r.ok

SquareHolds ==
    /\ square \in [version : HookEvents, day : HookDays, fit : BOOLEAN, protected : BOOLEAN]
    /\ announced \in [HookEvents -> HookDays \cup {NoDay}]
    /\ announced[square.version] \in {square.day, NoDay}
ConnectionHolds ==
    hookFence \in [status : TargetStatuses, generation : 1 .. MaxGenerations]
InboxHolds ==
    /\ hook \in [HookEvents -> HookRows \cup {NoHook}]
    /\ \A v \in HookEvents : hook[v] # NoHook => v <= square.version /\ HookFits(hook[v])
RunsHold ==
    /\ hookRun \in [HookRunners -> HookRuns \cup {IdleHookRun}]
    /\ \A w \in HookRunners : hookRun[w] # IdleHookRun => RunFits(hookRun[w], square, announced, mirror)
    /\ \A w \in HookWorkers : hookRun[w] # IdleHookRun => hookRun[w].event # 0
RepairHolds == repairState.token \in Nat
MirrorHolds == mirror \in 0 .. square.version /\ ProcessedIsMirrored

HookInv ==
    SquareHolds /\ ConnectionHolds /\ InboxHolds /\ RunsHold /\ RepairHolds /\ MirrorHolds

LEMMA HookInitially == HookInit => HookInv
<1> SUFFICES ASSUME HookInit PROVE HookInv
  OBVIOUS
<1>1. 1 \in HookEvents /\ MaxChanges \in Nat /\ MaxGenerations \in Nat /\ 1 \in 1 .. MaxGenerations
  BY HookConstants DEF HookEvents
<1>2. PICK d \in HookDays, fit, protected, told \in BOOLEAN :
         /\ square = [version |-> 1, day |-> d, fit |-> fit, protected |-> protected]
         /\ announced = [v \in HookEvents |-> IF told THEN d ELSE NoDay]
  BY DEF HookInit
<1>3. SquareHolds
  BY <1>1, <1>2 DEF SquareHolds
<1>4. ConnectionHolds
  BY <1>1 DEF HookInit, ConnectionHolds, TargetStatuses
<1>5. \A v \in HookEvents : hook[v] = NoHook
  BY DEF HookInit
<1>6. InboxHolds
  BY <1>5 DEF HookInit, InboxHolds
<1>7. \A w \in HookRunners : hookRun[w] = IdleHookRun
  BY DEF HookInit
<1>8. RunsHold
  BY <1>7 DEF HookInit, HookRunners, RunsHold
<1>9. RepairHolds /\ MirrorHolds
  BY <1>2, <1>5 DEF NoHook, HookInit, RepairHolds, MirrorHolds, ProcessedIsMirrored
<1> QED BY <1>3, <1>4, <1>6, <1>8, <1>9 DEF HookInv

LEMMA HookTyped ==
    ASSUME HookInv
    PROVE  /\ square.version \in HookEvents /\ square.version \in Nat /\ square.version <= MaxChanges
           /\ mirror \in Nat /\ mirror <= square.version /\ MaxChanges \in Nat
           /\ hookFence.generation \in Nat
<1>1. square.version \in 1 .. MaxChanges /\ MaxChanges \in Nat /\ MaxGenerations \in Nat
      /\ mirror \in 0 .. square.version /\ hookFence.generation \in 1 .. MaxGenerations
  BY HookConstants DEF HookInv, SquareHolds, MirrorHolds, ConnectionHolds, HookEvents
<1> QED BY <1>1 DEF HookEvents

\* What a worker listed stays true of a later calendar, and of a booking that changed.
LEMMA RunStays ==
    ASSUME NEW r \in HookRuns, NEW sq, NEW an, NEW m \in Nat, NEW m2 \in Nat,
           m <= m2, RunFits(r, sq, an, m)
    PROVE  RunFits(r, sq, an, m2)
<1>1. r.event \in Nat
  BY HookConstants DEF HookRuns, HookEvents
<1> QED BY <1>1 DEF RunFits, Reached

LEMMA RunOutdated ==
    ASSUME NEW r \in HookRuns, NEW sq, NEW an, NEW sq2, NEW an2, NEW m \in Nat,
           sq.version \in Nat, sq2.version \in Nat, sq.version < sq2.version,
           RunFits(r, sq, an, m)
    PROVE  RunFits(r, sq2, an2, m)
<1>1. r.event \in Nat /\ r.seen \in Nat
  BY HookConstants DEF HookRuns, HookEvents
<1> QED BY <1>1 DEF RunFits, Reached

LEMMA MirrorReached ==
    ProcessedIsMirrored <=>
        \A v \in HookEvents : hook[v].status = "succeeded" => Reached(v, square, announced, mirror)
BY DEF ProcessedIsMirrored, Importable, Reached, Takes

\* One worker goes on.
LEMMA RunWritten ==
    ASSUME HookInv, NEW w \in HookRunners, NEW r \in HookRuns \cup {IdleHookRun},
           hookRun' = [hookRun EXCEPT ![w] = r], UNCHANGED <<square, announced>>,
           mirror' \in Nat, mirror' >= mirror,
           r # IdleHookRun => RunFits(r, square, announced, mirror'),
           r # IdleHookRun /\ w \in HookWorkers => r.event # 0
    PROVE  RunsHold'
<1>1. hookRun' \in [HookRunners -> HookRuns \cup {IdleHookRun}] /\ hookRun'[w] = r
      /\ \A v \in HookRunners \ {w} : hookRun'[v] = hookRun[v]
  BY DEF HookInv, RunsHold
<1>2. ASSUME NEW v \in HookRunners, hookRun'[v] # IdleHookRun
      PROVE  RunFits(hookRun'[v], square, announced, mirror')
  BY <1>1, <1>2, HookTyped, RunStays DEF HookInv, RunsHold
<1>3. \A v \in HookWorkers : hookRun'[v] # IdleHookRun => hookRun'[v].event # 0
  BY <1>1 DEF HookInv, RunsHold, HookRunners
<1> QED BY <1>1, <1>2, <1>3 DEF RunsHold

LEMMA InboxWritten ==
    ASSUME HookInv, UNCHANGED <<square, announced, mirror>>, hook' \in [HookEvents -> HookRows \cup {NoHook}],
           \A v \in HookEvents : hook'[v] # hook[v] =>
               /\ v <= square.version /\ HookFits(hook'[v])
               /\ hook'[v].status = "succeeded" => Reached(v, square, announced, mirror)
    PROVE  InboxHolds' /\ MirrorHolds'
<1>1. \A v \in HookEvents : hook'[v] # NoHook => v <= square.version /\ HookFits(hook'[v])
  BY DEF HookInv, InboxHolds
<1>2. \A v \in HookEvents : hook'[v].status = "succeeded" => Reached(v, square, announced, mirror)
  BY MirrorReached DEF HookInv, MirrorHolds
<1>3. ProcessedIsMirrored'
  BY <1>2 DEF ProcessedIsMirrored, Importable, Reached, Takes
<1> QED BY <1>1, <1>3 DEF InboxHolds, MirrorHolds, HookInv

\* An event of the inbox.
LEMMA EventThere ==
    ASSUME HookInv, NEW v \in HookEvents, NEW e, e = hook[v], e.status # "none"
    PROVE  e \in HookRows /\ HookFits(e) /\ v <= square.version
<1>1. e # NoHook
  BY DEF NoHook
<1> QED BY <1>1 DEF HookInv, InboxHolds

LEMMA InboxKeeps ==
    ASSUME HookInv, NEW v \in HookEvents, NEW e \in HookRows, hook[v].status # "none",
           hook' = [hook EXCEPT ![v] = e], UNCHANGED <<square, announced, mirror>>, HookFits(e),
           e.status = "succeeded" => Reached(v, square, announced, mirror)
    PROVE  InboxHolds' /\ MirrorHolds'
<1>1. hook' \in [HookEvents -> HookRows \cup {NoHook}] /\ hook'[v] = e
      /\ \A u \in HookEvents \ {v} : hook'[u] = hook[u]
  BY DEF HookInv, InboxHolds
<1>2. v <= square.version
  BY EventThere
<1>3. \A u \in HookEvents : hook'[u] # hook[u] =>
               /\ u <= square.version /\ HookFits(hook'[u])
               /\ hook'[u].status = "succeeded" => Reached(u, square, announced, mirror)
  BY <1>1, <1>2
<1> QED BY <1>1, <1>3, InboxWritten

\* A row that nobody holds.
LEMMA ReleasedFits ==
    ASSUME NEW e \in HookRows, HookFits(e), NEW new \in HookRows,
           new.status # "processing", new.token = 0, ~ new.live,
           new.attempts = e.attempts, new.requeues = e.requeues
    PROVE  HookFits(new)
BY DEF HookFits

LEMMA DeadLetteredIs ==
    ASSUME NEW e \in HookRows, HookFits(e), NEW new, new = HookDeadLettered(e)
    PROVE  new \in HookRows /\ HookFits(new) /\ new.status = "dead_letter"
<1>1. /\ new \in HookRows /\ new.status = "dead_letter" /\ new.token = 0 /\ ~ new.live
      /\ new.attempts = e.attempts /\ new.requeues = e.requeues
  BY DEF HookDeadLettered, HookRows, HookStatuses
<1> QED BY <1>1, ReleasedFits

LEMMA HookSpentBound ==
    ASSUME NEW e \in HookRows, ~ HookExhausted(e)
    PROVE  e.attempts + 1 <= (e.requeues + 1) * MaxHookAttempts
<1>1. PICK a \in Nat : a = e.attempts
  BY DEF HookRows
<1>2. PICK q \in Nat : q = e.requeues
  BY HookConstants DEF HookRows
<1>3. PICK m \in Nat : m = (q + 1) * MaxHookAttempts
  BY <1>2, HookConstants
<1> QED BY <1>1, <1>2, <1>3 DEF HookExhausted

LEMMA ClaimedIs ==
    ASSUME NEW e \in HookRows, HookFits(e), ~ HookExhausted(e), NEW new, new = ClaimedEvent(e)
    PROVE  new \in HookRows /\ HookFits(new) /\ new.status = "processing"
<1>1. PICK n \in Nat \ {0} : n = e.attempts + 1
  BY DEF HookRows
<1>2. new = [e EXCEPT !.status = "processing", !.attempts = n, !.token = n, !.live = TRUE,
                      !.error = "none"]
  BY <1>1 DEF ClaimedEvent, HookRows
<1>3. /\ new \in HookRows /\ new.status = "processing" /\ new.token = n /\ new.attempts = n
      /\ new.requeues = e.requeues
  BY <1>2 DEF HookRows, HookStatuses
<1>4. n <= (e.requeues + 1) * MaxHookAttempts
  BY <1>1, HookSpentBound
<1> QED BY <1>3, <1>4 DEF HookFits

LEMMA ResultIs ==
    ASSUME NEW e \in HookRows, HookFits(e), NEW r, NEW new,
           new = (IF r.ok THEN HookSucceeded(e) ELSE HookFailed(e))
    PROVE  new \in HookRows /\ HookFits(new) /\ (new.status = "succeeded" => r.ok)
<1>1. CASE r.ok
  BY <1>1, ReleasedFits DEF HookSucceeded, HookRows, HookStatuses
<1>2. CASE ~ r.ok /\ HookExhausted(e)
  BY <1>2, DeadLetteredIs DEF HookFailed
<1>3. CASE ~ r.ok /\ ~ HookExhausted(e)
  BY <1>3, ReleasedFits DEF HookFailed, HookRows, HookStatuses
<1> QED BY <1>1, <1>2, <1>3

-----------------------------------------------------------------------------
\* The steps.

LEMMA BookingKeeps ==
    ASSUME HookInv, NEW d \in HookDays, NEW fit \in BOOLEAN, NEW told \in BOOLEAN,
           BookingChanges(d, fit, told)
    PROVE  HookInv'
<1>1. PICK v \in HookEvents : v = square.version + 1
  BY HookTyped DEF BookingChanges, HookEvents
<1>2. PICK day \in HookDays \cup {NoDay} : day = IF told THEN d ELSE NoDay
  OBVIOUS
<1>3. square' = [square EXCEPT !.version = v, !.day = d, !.fit = fit]
      /\ announced' = [announced EXCEPT ![v] = day]
      /\ UNCHANGED <<hookFence, hook, repairState, hookRun, mirror>>
  BY <1>1, <1>2 DEF BookingChanges, HookInv, SquareHolds
<1>4. square' \in [version : HookEvents, day : HookDays, fit : BOOLEAN, protected : BOOLEAN]
      /\ square'.version = v /\ square'.day = d
  BY <1>3 DEF HookInv, SquareHolds
<1>5. v \in Nat /\ square.version < v /\ square.version \in Nat
  BY <1>1, HookTyped DEF HookEvents
<1>6. SquareHolds'
  BY <1>2, <1>3, <1>4 DEF HookInv, SquareHolds
<1>7. InboxHolds'
  BY <1>3, <1>4, <1>5 DEF HookInv, InboxHolds, HookEvents
<1>8. RunsHold'
  BY <1>3, <1>4, <1>5, HookTyped, RunOutdated DEF HookInv, RunsHold
<1>9. MirrorHolds'
  BY <1>3, <1>4, <1>5, EventThere, HookTyped DEF HookEvents, ProcessedIsMirrored, MirrorHolds
<1> QED BY <1>3, <1>6, <1>7, <1>8, <1>9 DEF HookInv, ConnectionHolds, RepairHolds

LEMMA ConnectionKeeps == ASSUME HookInv, ConnectionChanges PROVE HookInv'
<1>1. UNCHANGED <<square, announced, hook, hookActions, repairState, hookRun, mirror>>
  BY DEF ConnectionChanges
<1>2. hookFence \in [status : TargetStatuses, generation : 1 .. MaxGenerations]
  BY DEF HookInv, ConnectionHolds
<1>3. ConnectionHolds'
  <2>1. CASE /\ hookFence.generation < MaxGenerations
             /\ hookFence' = [status |-> "syncing", generation |-> hookFence.generation + 1]
    <3>1. PICK g \in 1 .. MaxGenerations : g = hookFence.generation + 1
      BY <1>2, <2>1, HookConstants
    <3> QED BY <2>1, <3>1 DEF ConnectionHolds, TargetStatuses
  <2>2. CASE \E st \in {"active", "error"} : hookFence' = [hookFence EXCEPT !.status = st]
    BY <1>2, <2>2 DEF ConnectionHolds, TargetStatuses
  <2> QED BY <2>1, <2>2 DEF ConnectionChanges
<1> QED BY <1>1, <1>3 DEF HookInv, SquareHolds, InboxHolds, RunsHold, RepairHolds, MirrorHolds,
                          ProcessedIsMirrored, Importable

LEMMA ReceiveKeeps == ASSUME HookInv, NEW v \in HookEvents, ReceiveBookingWebhook(v) PROVE HookInv'
<1>1. UNCHANGED <<square, announced, hookFence, repairState, hookRun, mirror>> /\ v <= square.version
  BY DEF ReceiveBookingWebhook
<1>2. PICK e : e = [status |-> "pending", attempts |-> 0, requeues |-> 0,
                    token |-> 0, live |-> FALSE, error |-> "none"]
  OBVIOUS
<1>3. e \in HookRows /\ e.status = "pending" /\ e.attempts = 0 /\ e.requeues = 0 /\ e.token = 0 /\ ~ e.live
  BY <1>2, HookConstants DEF HookRows, HookStatuses
<1>4. HookFits(e)
  BY <1>3, HookConstants DEF HookFits
<1>5. hook' = [hook EXCEPT ![v] = e]
  BY <1>2 DEF ReceiveBookingWebhook
<1>6. hook' \in [HookEvents -> HookRows \cup {NoHook}] /\ hook'[v] = e
      /\ \A u \in HookEvents \ {v} : hook'[u] = hook[u]
  BY <1>3, <1>5 DEF HookInv, InboxHolds
<1>7. InboxHolds' /\ MirrorHolds'
  BY <1>1, <1>3, <1>4, <1>6, InboxWritten
<1> QED BY <1>1, <1>7 DEF HookInv, SquareHolds, ConnectionHolds, RunsHold, RepairHolds

LEMMA LeaseEndsKeeps == ASSUME HookInv, NEW v \in HookEvents, HookLeaseEnds(v) PROVE HookInv'
<1>1. UNCHANGED <<square, announced, hookFence, repairState, hookRun, mirror>>
  BY DEF HookLeaseEnds, InboxOnly
<1>2. PICK e \in HookRows : e = hook[v] /\ HookFits(e)
  BY DEF HookLeaseEnds, HookInv, InboxHolds
<1>3. PICK new : new = [e EXCEPT !.live = FALSE]
  OBVIOUS
<1>4. hook' = [hook EXCEPT ![v] = new]
  BY <1>2, <1>3 DEF HookLeaseEnds
<1>5. /\ new \in HookRows /\ new.status = e.status /\ new.token = e.token /\ ~ new.live
      /\ new.attempts = e.attempts /\ new.requeues = e.requeues
  BY <1>3 DEF HookRows
<1>6. HookFits(new)
  BY <1>2, <1>5 DEF HookFits
<1>7. e.status # "none"
  BY DEF HookRows, HookStatuses
<1>8. e.status = "succeeded" => Reached(v, square, announced, mirror)
  BY <1>2, MirrorReached DEF HookInv, MirrorHolds
<1>9. InboxHolds' /\ MirrorHolds'
  BY <1>1, <1>2, <1>4, <1>5, <1>6, <1>7, <1>8, InboxKeeps
<1> QED BY <1>1, <1>9 DEF HookInv, SquareHolds, ConnectionHolds, RunsHold, RepairHolds

LEMMA RequeueHookKeeps ==
    ASSUME HookInv, NEW v \in HookEvents, NEW k \in HookKeys, RequeueBookingWebhook(v, k)
    PROVE  HookInv'
<1>1. UNCHANGED <<square, announced, hookFence, repairState, hookRun, mirror>>
  BY DEF RequeueBookingWebhook, InboxOnly
<1>2. PICK e \in HookRows : e = hook[v] /\ HookFits(e)
  BY DEF RequeueBookingWebhook, HookInv, InboxHolds
<1>3. PICK q \in 0 .. MaxHookRequeues : q = e.requeues + 1
  BY <1>2, HookConstants DEF RequeueBookingWebhook, CanRequeue, HookRows
<1>4. PICK new : new = [e EXCEPT !.status = "pending", !.token = 0, !.live = FALSE,
                                 !.error = "none", !.requeues = q]
  OBVIOUS
<1>5. hook' = [hook EXCEPT ![v] = new]
  <2>1. PICK row : row = [e EXCEPT !.status = "pending", !.token = 0, !.live = FALSE,
                                   !.error = "none", !.requeues = e.requeues + 1]
    OBVIOUS
  <2>2. hook' = [hook EXCEPT ![v] = row]
    BY <1>2, <2>1 DEF RequeueBookingWebhook, HookInv, InboxHolds
  <2>3. row = new
    BY <1>3, <1>4, <2>1 DEF HookRows
  <2> QED BY <2>2, <2>3
<1>6. /\ new \in HookRows /\ new.status = "pending" /\ new.token = 0 /\ ~ new.live
      /\ new.attempts = e.attempts /\ new.requeues = q
  BY <1>4 DEF HookRows, HookStatuses
<1>7. new.attempts <= (q + 1) * MaxHookAttempts
  <2>1. PICK a \in Nat : a = e.attempts
    BY DEF HookRows
  <2>2. PICK n \in Nat : n = e.requeues
    BY HookConstants DEF HookRows
  <2>3. PICK m \in Nat : m = MaxHookAttempts
    BY HookConstants
  <2>4. a <= (n + 1) * m /\ (n + 1) * m \in Nat
    BY <1>2, <2>1, <2>2, <2>3 DEF HookFits
  <2>5. (n + 1 + 1) * m = (n + 1) * m + m
    BY <2>2, <2>3
  <2> QED BY <1>3, <1>6, <2>1, <2>2, <2>3, <2>4, <2>5
<1>8. HookFits(new)
  BY <1>6, <1>7 DEF HookFits
<1>9. e.status # "none"
  BY DEF HookRows, HookStatuses
<1>10. InboxHolds' /\ MirrorHolds'
  BY <1>1, <1>2, <1>5, <1>6, <1>8, <1>9, InboxKeeps
<1> QED BY <1>1, <1>10 DEF HookInv, SquareHolds, ConnectionHolds, RunsHold, RepairHolds

LEMMA ClaimHookKeeps == ASSUME HookInv, NEW w \in HookWorkers, ClaimBookingWebhook(w) PROVE HookInv'
<1> DEFINE spent == {v \in HookDue : HookExhausted(hook[v])}
           swept(v) == IF v \in spent THEN HookDeadLettered(hook[v]) ELSE hook[v]
<1>1. UNCHANGED <<square, announced, hookFence, repairState, mirror>> /\ hookRun[w] = IdleHookRun
  BY DEF ClaimBookingWebhook, InboxOnly
<1>2. \A v \in HookDue : hook[v] \in HookRows /\ HookFits(hook[v]) /\ v \in HookEvents
                         /\ v <= square.version
  BY DEF HookDue, HookInv, InboxHolds
<1>3. \A v \in HookEvents : swept(v) \in HookRows \cup {NoHook} /\
         (swept(v) # hook[v] => v <= square.version /\ HookFits(swept(v))
                                /\ swept(v).status = "dead_letter")
  <2> SUFFICES ASSUME NEW v \in HookEvents
               PROVE  swept(v) \in HookRows \cup {NoHook} /\
                        (swept(v) # hook[v] => v <= square.version /\ HookFits(swept(v))
                                /\ swept(v).status = "dead_letter")
    OBVIOUS
  <2>1. CASE v \in spent
    BY <1>2, <2>1, DeadLetteredIs
  <2>2. CASE v \notin spent
    BY <2>2 DEF HookInv, InboxHolds
  <2> QED BY <2>1, <2>2
<1>4. CASE /\ hook' = [u \in HookEvents |-> swept(u)]
           /\ UNCHANGED hookRun
  BY <1>1, <1>3, <1>4, InboxWritten DEF HookInv, SquareHolds, ConnectionHolds, RunsHold,
     RepairHolds
<1>5. ASSUME NEW v \in HookDue \ spent,
             hook' = [u \in HookEvents |-> IF u = v THEN ClaimedEvent(hook[v]) ELSE swept(u)],
             hookRun' = [hookRun EXCEPT ![w] =
                      [phase |-> "claimed", event |-> v, token |-> hook[v].attempts + 1,
                       generation |-> 0, seen |-> 0, ok |-> FALSE]]
      PROVE HookInv'
  <2>1. PICK e : e = ClaimedEvent(hook[v])
    OBVIOUS
  <2>2. e \in HookRows /\ HookFits(e) /\ e.status = "processing" /\ v \in HookEvents
        /\ v <= square.version
    BY <1>2, <1>5, <2>1, ClaimedIs
  <2> HIDE DEF swept
  <2>3. hook' \in [HookEvents -> HookRows \cup {NoHook}]
    BY <1>3, <1>5, <2>1, <2>2
  <2>4. \A u \in HookEvents : hook'[u] # hook[u] =>
               /\ u <= square.version /\ HookFits(hook'[u])
               /\ hook'[u].status = "succeeded" => Reached(u, square, announced, mirror)
    BY <1>3, <1>5, <2>1, <2>2
  <2>5. InboxHolds' /\ MirrorHolds'
    BY <1>1, <2>3, <2>4, InboxWritten
  <2>6. PICK n \in Nat : n = hook[v].attempts + 1
    BY <1>2, <1>5 DEF HookRows
  <2>7. PICK r : r = [phase |-> "claimed", event |-> v, token |-> n,
                      generation |-> 0, seen |-> 0, ok |-> FALSE]
    OBVIOUS
  <2>8. r \in HookRuns /\ r.event = v /\ r.seen = 0 /\ r.phase = "claimed" /\ ~ r.ok
    BY <2>2, <2>6, <2>7, HookTyped DEF HookRuns
  <2>9. RunFits(r, square, announced, mirror)
    BY <2>2, <2>8, HookTyped DEF RunFits
  <2>10. v # 0 /\ w \in HookRunners
    BY <2>2 DEF HookEvents, HookRunners
  <2>11. hookRun' = [hookRun EXCEPT ![w] = r]
    BY <1>5, <2>6, <2>7
  <2>12. RunsHold'
    <3>1. mirror' = mirror /\ mirror' \in Nat /\ mirror' >= mirror /\ UNCHANGED <<square, announced>>
      BY <1>1, HookTyped
    <3>2. RunFits(r, square, announced, mirror')
      BY <2>9, <3>1
    <3> QED BY <2>8, <2>10, <2>11, <3>1, <3>2, RunWritten
  <2> QED BY <1>1, <2>5, <2>12 DEF HookInv, SquareHolds, ConnectionHolds, RepairHolds
<1> QED BY <1>4, <1>5 DEF ClaimBookingWebhook

\* What a worker holds of its run.
LEMMA RunThere ==
    ASSUME HookInv, NEW w \in HookRunners, NEW r, r = hookRun[w], r # IdleHookRun
    PROVE  /\ r \in HookRuns /\ RunFits(r, square, announced, mirror)
           /\ r.event \in HookEvents \cup {0} /\ r.event \in Nat /\ r.seen \in Nat
           /\ r.ok \in BOOLEAN /\ (w \in HookWorkers => r.event # 0)
<1>1. r \in HookRuns /\ RunFits(r, square, announced, mirror) /\ (w \in HookWorkers => r.event # 0)
  BY DEF HookInv, RunsHold
<1> QED BY <1>1, HookTyped DEF HookRuns, HookEvents

\* Only a worker goes on.
LEMMA OnlyRunKeeps ==
    ASSUME HookInv, NEW w \in HookRunners, NEW r \in HookRuns \cup {IdleHookRun},
           hookRun' = [hookRun EXCEPT ![w] = r],
           UNCHANGED <<square, announced, hookFence, hook, repairState, mirror>>,
           r # IdleHookRun => RunFits(r, square, announced, mirror),
           r # IdleHookRun /\ w \in HookWorkers => r.event # 0
    PROVE  HookInv'
<1>1. mirror' = mirror /\ mirror' \in Nat /\ mirror' >= mirror
  BY HookTyped
<1>2. r # IdleHookRun => RunFits(r, square, announced, mirror')
  BY <1>1
<1>3. RunsHold'
  BY <1>1, <1>2, RunWritten
<1> QED BY <1>3 DEF HookInv, SquareHolds, ConnectionHolds, InboxHolds, RepairHolds, MirrorHolds,
                    ProcessedIsMirrored, Importable

\* The listing holds the booking as it is, if it is of the event's version.
LEMMA ListKeeps == ASSUME HookInv, NEW w \in HookRunners, ListAppointments(w) PROVE HookInv'
<1>1. PICK r : r = hookRun[w]
  OBVIOUS
<1>2. r # IdleHookRun /\ r.phase = "claimed"
  BY <1>1 DEF ListAppointments, IdleHookRun
<1>3. /\ r \in HookRuns /\ RunFits(r, square, announced, mirror)
      /\ r.event \in HookEvents \cup {0} /\ r.event \in Nat /\ (w \in HookWorkers => r.event # 0)
  BY <1>1, <1>2, RunThere
<1>4. UNCHANGED <<square, announced, hookFence, hook, repairState, mirror>>
  BY DEF ListAppointments, InboxOnly
<1>5. CASE hookRun' = [hookRun EXCEPT ![w] = [@ EXCEPT !.phase = "synced"]]
  <2>1. PICK new : new = [r EXCEPT !.phase = "synced"]
    OBVIOUS
  <2>2. new \in HookRuns /\ new.event = r.event /\ new.seen = r.seen /\ new.ok = r.ok
        /\ new.phase = "synced"
    BY <1>3, <2>1 DEF HookRuns
  <2>3. hookRun' = [hookRun EXCEPT ![w] = new]
    BY <1>1, <1>5, <2>1 DEF HookInv, RunsHold
  <2>4. RunFits(new, square, announced, mirror)
    BY <1>2, <1>3, <2>2 DEF RunFits
  <2> QED BY <1>3, <1>4, <2>2, <2>3, <2>4, OnlyRunKeeps
<1>6. CASE hookRun' = [hookRun EXCEPT ![w] =
                [@ EXCEPT !.phase = "listed", !.generation = hookFence.generation,
                          !.seen = IF square.day \in RunRange(hookRun[w]) /\ square.fit
                                   THEN square.version ELSE 0]]
  <2>1. PICK seen \in 0 .. MaxChanges :
           seen = IF square.day \in RunRange(r) /\ square.fit THEN square.version ELSE 0
    BY HookTyped
  <2>2. PICK g \in Nat : g = hookFence.generation
    BY HookTyped
  <2>3. PICK new : new = [r EXCEPT !.phase = "listed", !.generation = g, !.seen = seen]
    OBVIOUS
  <2>4. new \in HookRuns /\ new.event = r.event /\ new.seen = seen /\ new.ok = r.ok
        /\ new.phase = "listed"
    BY <1>3, <2>3 DEF HookRuns
  <2>5. hookRun' = [hookRun EXCEPT ![w] = new]
    BY <1>1, <1>6, <2>1, <2>2, <2>3 DEF HookInv, RunsHold
  <2>6. seen <= square.version
    BY <2>1, HookTyped
  <2>7. ASSUME r.event # 0 PROVE Reached(r.event, square, announced, seen)
    <3>1. CASE r.event = square.version /\ Takes(square, announced, r.event)
      <4>1. square.fit /\ square.day \in Nat /\ RepairDays \in Nat
            /\ announced[r.event] \in {square.day, NoDay}
            /\ (announced[r.event] = NoDay => square.day <= RepairDays)
        BY <3>1, HookConstants DEF Takes, HookInv, SquareHolds
      <4>2. square.day \in RunRange(r)
        BY <2>7, <4>1 DEF RunRange, webhookCalendarRepairRange, scheduledCalendarRepairRange, NoDay
      <4> QED BY <1>3, <2>1, <3>1, <4>1, <4>2, HookTyped DEF Reached
    <3>2. CASE r.event # square.version \/ ~ Takes(square, announced, r.event)
      BY <1>3, <3>2, HookTyped DEF RunFits, Reached
    <3> QED BY <3>1, <3>2
  <2>8. RunFits(new, square, announced, mirror)
    BY <1>2, <1>3, <2>4, <2>6, <2>7 DEF RunFits
  <2> QED BY <1>3, <1>4, <2>4, <2>5, <2>8, OnlyRunKeeps
<1> QED BY <1>5, <1>6 DEF ListAppointments

\* The calendar only takes later versions.
LEMMA StoreKeeps == ASSUME HookInv, NEW w \in HookRunners, StoreListing(w) PROVE HookInv'
<1>1. PICK r : r = hookRun[w]
  OBVIOUS
<1>2. r # IdleHookRun /\ r.phase = "listed"
  BY <1>1 DEF StoreListing, IdleHookRun
<1>3. /\ r \in HookRuns /\ RunFits(r, square, announced, mirror)
      /\ r.event \in Nat /\ r.seen \in Nat /\ (w \in HookWorkers => r.event # 0)
  BY <1>1, <1>2, RunThere
<1>4. UNCHANGED <<square, announced, hookFence, hook, repairState>>
  BY DEF StoreListing
<1>5. PICK stored, ok \in BOOLEAN :
         /\ ok => stored
         /\ stored => FenceHolds(hookRun[w])
         /\ mirror' = IF stored /\ ~ square.protected /\ hookRun[w].seen > mirror
                      THEN hookRun[w].seen ELSE mirror
         /\ hookRun' = [hookRun EXCEPT ![w] =
                          [@ EXCEPT !.phase = "synced", !.ok = ok, !.generation = 0, !.seen = 0]]
  BY Zenon DEF StoreListing
<1>6. mirror' = IF stored /\ ~ square.protected /\ r.seen > mirror THEN r.seen ELSE mirror
  BY <1>1, <1>5
<1>7. r.seen <= square.version
  BY <1>3 DEF RunFits
<1>8. mirror' \in Nat /\ mirror' >= mirror /\ mirror' <= square.version
      /\ (ok /\ ~ square.protected => mirror' >= r.seen)
  BY <1>3, <1>5, <1>6, <1>7, HookTyped
<1>9. PICK new : new = [r EXCEPT !.phase = "synced", !.ok = ok, !.generation = 0, !.seen = 0]
  OBVIOUS
<1>10. new \in HookRuns /\ new.event = r.event /\ new.seen = 0 /\ new.ok = ok
       /\ new.phase = "synced"
  <2>1. 0 \in 0 .. MaxChanges /\ 0 \in Nat /\ "synced" \in {"claimed", "listed", "synced"}
    BY HookTyped
  <2>2. r.event \in HookEvents \cup {0} /\ r.token \in Nat
    BY <1>3 DEF HookRuns
  <2>3. new = [phase |-> "synced", event |-> r.event, token |-> r.token,
               generation |-> 0, seen |-> 0, ok |-> ok]
    BY <1>3, <1>9 DEF HookRuns
  <2> QED BY <1>5, <2>1, <2>2, <2>3 DEF HookRuns
<1>11. hookRun' = [hookRun EXCEPT ![w] = new]
  BY <1>1, <1>5, <1>9 DEF HookInv, RunsHold
<1>12. r.event # 0 /\ ok => Reached(r.event, square, announced, mirror')
  BY <1>2, <1>3, <1>8, HookTyped DEF RunFits, Reached, Takes
<1>13. RunFits(new, square, announced, mirror')
  BY <1>3, <1>10, <1>12, HookTyped DEF RunFits
<1>14. RunsHold'
  BY <1>3, <1>4, <1>8, <1>10, <1>11, <1>13, RunWritten
<1>15. MirrorHolds'
  BY <1>4, <1>8, HookTyped DEF HookInv, MirrorHolds, ProcessedIsMirrored, Importable, HookEvents
<1> QED BY <1>4, <1>14, <1>15 DEF HookInv, SquareHolds, ConnectionHolds, InboxHolds, RepairHolds

\* An event counts as processed only when its synchronization was stored.
LEMMA CompleteHookKeeps ==
    ASSUME HookInv, NEW w \in HookWorkers, CompleteBookingWebhook(w) PROVE HookInv'
<1>1. PICK r : r = hookRun[w]
  OBVIOUS
<1>2. r # IdleHookRun /\ r.phase = "synced" /\ w \in HookRunners
  BY <1>1 DEF CompleteBookingWebhook, IdleHookRun, HookRunners
<1>3. /\ r \in HookRuns /\ RunFits(r, square, announced, mirror) /\ r.event \in HookEvents
      /\ r.event # 0
  BY <1>1, <1>2, RunThere
<1>4. UNCHANGED <<square, announced, hookFence, repairState, mirror>>
      /\ hookRun' = [hookRun EXCEPT ![w] = IdleHookRun]
  BY DEF CompleteBookingWebhook, InboxOnly
<1>5. CASE hook' = hook
  BY <1>2, <1>4, <1>5, OnlyRunKeeps
<1>6. CASE HookFenced(r) /\ hook' = [hook EXCEPT ![r.event] = HookResult(r)]
  <2>1. PICK e : e = hook[r.event]
    OBVIOUS
  <2>2. e.status = "processing"
    BY <1>6, <2>1 DEF HookFenced
  <2>3. e \in HookRows /\ HookFits(e)
    BY <1>3, <2>1, <2>2, EventThere
  <2>4. PICK new : new = IF r.ok THEN HookSucceeded(e) ELSE HookFailed(e)
    OBVIOUS
  <2>5. hook' = [hook EXCEPT ![r.event] = new]
    BY <1>6, <2>1, <2>4 DEF HookResult
  <2>6. new \in HookRows /\ HookFits(new) /\ (new.status = "succeeded" => r.ok)
    BY <2>3, <2>4, ResultIs
  <2>7. new.status = "succeeded" => Reached(r.event, square, announced, mirror)
    BY <1>2, <1>3, <2>6 DEF RunFits
  <2>8. InboxHolds' /\ MirrorHolds'
    BY <1>3, <1>4, <2>1, <2>2, <2>5, <2>6, <2>7, InboxKeeps
  <2>9. RunsHold'
    <3>1. mirror' \in Nat /\ mirror' >= mirror
      BY <1>4, HookTyped
    <3> QED BY <1>2, <1>4, <3>1, RunWritten
  <2> QED BY <1>4, <2>8, <2>9 DEF HookInv, SquareHolds, ConnectionHolds, RepairHolds
<1> QED BY <1>1, <1>5, <1>6 DEF CompleteBookingWebhook

LEMMA HookStopKeeps == ASSUME HookInv, NEW w \in HookRunners, HookWorkerStops(w) PROVE HookInv'
BY OnlyRunKeeps DEF HookWorkerStops, InboxOnly

LEMMA RepairKeeps ==
    ASSUME HookInv, ClaimCalendarRepairTargets \/ CompleteCalendarRepair \/ RepairTimePasses
    PROVE  HookInv'
<1>1. "repair" \in HookRunners /\ "repair" \notin HookWorkers
  BY HookConstants DEF HookRunners
<1>2. UNCHANGED <<square, announced, hookFence, hook, mirror>>
  BY DEF ClaimCalendarRepairTargets, CompleteCalendarRepair, RepairTimePasses
<1>3. mirror' \in Nat /\ mirror' >= mirror /\ UNCHANGED <<square, announced>>
  BY <1>2, HookTyped
<1>4. ASSUME NEW r \in HookRuns \cup {IdleHookRun}, hookRun' = [hookRun EXCEPT !["repair"] = r],
             r # IdleHookRun => RunFits(r, square, announced, mirror)
      PROVE  RunsHold'
  BY <1>1, <1>2, <1>3, <1>4, RunWritten
<1>5. repairState.token \in Nat
  BY DEF HookInv, RepairHolds
<1>6. CASE ClaimCalendarRepairTargets
  <2>1. PICK n \in Nat : n = repairState.token + 1
    BY <1>5
  <2>2. PICK r : r = [phase |-> "claimed", event |-> 0, token |-> n,
                      generation |-> 0, seen |-> 0, ok |-> FALSE]
    OBVIOUS
  <2>3. r \in HookRuns /\ r.event = 0 /\ r.seen = 0 /\ ~ r.ok
    BY <2>2, HookTyped DEF HookRuns
  <2>4. RunFits(r, square, announced, mirror)
    BY <2>3, HookTyped DEF RunFits
  <2>5. hookRun' = [hookRun EXCEPT !["repair"] = r]
        /\ repairState' = [due |-> FALSE, live |-> TRUE, token |-> n]
    BY <1>6, <2>1, <2>2 DEF ClaimCalendarRepairTargets
  <2>6. RunsHold' /\ RepairHolds'
    BY <1>4, <2>3, <2>4, <2>5 DEF RepairHolds
  <2> QED BY <1>2, <2>6 DEF HookInv, SquareHolds, ConnectionHolds, InboxHolds, MirrorHolds,
                            ProcessedIsMirrored, Importable
<1>7. CASE CompleteCalendarRepair
  <2>1. hookRun' = [hookRun EXCEPT !["repair"] = IdleHookRun]
    BY <1>7 DEF CompleteCalendarRepair
  <2>2. repairState'.token = repairState.token
    BY <1>7 DEF CompleteCalendarRepair
  <2>3. RunsHold' /\ RepairHolds'
    BY <1>4, <1>5, <2>1, <2>2 DEF RepairHolds
  <2> QED BY <1>2, <2>3 DEF HookInv, SquareHolds, ConnectionHolds, InboxHolds, MirrorHolds,
                            ProcessedIsMirrored, Importable
<1>8. CASE RepairTimePasses
  BY <1>2, <1>5, <1>8 DEF RepairTimePasses, HookInv, SquareHolds, ConnectionHolds, InboxHolds,
     MirrorHolds, ProcessedIsMirrored, Importable, RunsHold, RepairHolds
<1> QED BY <1>6, <1>7, <1>8

-----------------------------------------------------------------------------
\* The theorems about the events.

LEMMA HookStep == HookInv /\ [HookNext]_hookVars => HookInv'
<1> SUFFICES ASSUME HookInv, [HookNext]_hookVars PROVE HookInv'
  OBVIOUS
<1>1. CASE UNCHANGED hookVars
  BY <1>1 DEF hookVars, HookInv, SquareHolds, ConnectionHolds, InboxHolds, RunsHold, RepairHolds,
              MirrorHolds, ProcessedIsMirrored, Importable
<1>2. CASE \E d \in HookDays, fit, told \in BOOLEAN : BookingChanges(d, fit, told)
  BY <1>2, BookingKeeps
<1>3. CASE ConnectionChanges
  BY <1>3, ConnectionKeeps
<1>4. CASE \E v \in HookEvents : ReceiveBookingWebhook(v) \/ HookLeaseEnds(v)
  BY <1>4, ReceiveKeeps, LeaseEndsKeeps
<1>5. CASE \E v \in HookEvents, k \in HookKeys : RequeueBookingWebhook(v, k)
  BY <1>5, RequeueHookKeeps
<1>6. CASE \E w \in HookWorkers : ClaimBookingWebhook(w) \/ CompleteBookingWebhook(w)
  BY <1>6, ClaimHookKeeps, CompleteHookKeeps
<1>7. CASE \E w \in HookRunners : ListAppointments(w) \/ StoreListing(w) \/ HookWorkerStops(w)
  BY <1>7, ListKeeps, StoreKeeps, HookStopKeeps
<1>8. CASE ClaimCalendarRepairTargets \/ CompleteCalendarRepair \/ RepairTimePasses
  BY <1>8, RepairKeeps
<1> QED BY <1>1, <1>2, <1>3, <1>4, <1>5, <1>6, <1>7, <1>8 DEF HookNext

THEOREM HookInvariant == HookSpec => []HookInv
BY HookInitially, HookStep, PTL DEF HookSpec

LEMMA HookRunTypes == HookInv => HookTypeOK
<1> SUFFICES ASSUME HookInv PROVE HookTypeOK
  OBVIOUS
<1>1. square.version \in HookEvents /\ square.day \in HookDays
      /\ square.fit \in BOOLEAN /\ square.protected \in BOOLEAN
      /\ announced \in [HookEvents -> HookDays \cup {NoDay}]
      /\ hookFence.status \in TargetStatuses /\ hookFence.generation \in 1 .. MaxGenerations
  BY DEF HookInv, SquareHolds, ConnectionHolds
<1>2. ASSUME NEW v \in HookEvents, hook[v] # NoHook
      PROVE  /\ hook[v].status \in {"pending", "processing", "succeeded", "failed", "dead_letter"}
             /\ (hook[v].status = "processing") = (hook[v].token # 0)
             /\ hook[v].live => hook[v].status = "processing"
             /\ hook[v].requeues \in 0 .. MaxHookRequeues
             /\ hook[v].attempts <= (hook[v].requeues + 1) * MaxHookAttempts
  <2>1. PICK e \in HookRows : e = hook[v] /\ HookFits(e)
    BY <1>2 DEF HookInv, InboxHolds
  <2>2. e.status \in HookStatuses /\ e.requeues \in 0 .. MaxHookRequeues /\ e.attempts \in Nat
    BY DEF HookRows
  <2>3. (e.status = "processing") <=> (e.token # 0)
    BY <2>1, <2>2 DEF HookFits
  <2>4. (e.live => e.status = "processing") /\ e.attempts <= (e.requeues + 1) * MaxHookAttempts
    BY <2>1 DEF HookFits
  <2> QED BY <2>1, <2>2, <2>3, <2>4 DEF HookStatuses
<1>3. mirror \in 0 .. square.version
  BY DEF HookInv, MirrorHolds
<1>4. \A w \in HookRunners : hookRun[w] = IdleHookRun \/
         hookRun[w].phase \in {"claimed", "listed", "synced"}
  BY DEF HookInv, RunsHold, HookRuns
<1> QED BY <1>1, <1>2, <1>3, <1>4 DEF HookTypeOK

\* The shapes of the inbox, the workers' runs and the calendar.
THEOREM HookTypeCorrect == HookSpec => []HookTypeOK
BY HookInvariant, HookRunTypes, PTL

(* ProcessedIsMirrored: an event that counts as processed is in the calendar, or a later
   one is owed, or the calendar could not take the booking. *)
THEOREM ProcessedStaysMirrored == HookSpec => []ProcessedIsMirrored
<1>1. HookInv => ProcessedIsMirrored
  BY DEF HookInv, MirrorHolds
<1> QED BY <1>1, HookInvariant, PTL

-----------------------------------------------------------------------------
\* The sessions of the calls.

EventKeys == (TurnEvents \cup {"", "voice-input-unintelligible"}) \X Nat
CallRows == [status : {"active"} \cup Terminal, salon : VoiceSalons, revision : Nat,
             redacted : BOOLEAN, personal : BOOLEAN, archived : BOOLEAN]
Posted == [step : {"resolved", "starting", "started", "locked", "loaded", "executed"},
           endpoint : {"incoming", "turn", "noise"}, salon : VoiceSalons, call : CallIds,
           key : EventKeys, version : Nat, locked : BOOLEAN, revision : Nat, conflicts : Nat]
Replying == [step : {"speaking"}, salon : VoiceSalons, call : CallIds]
Requests == Posted \cup Replying \cup {IdleRequest}

(* A request about a call that exists works on the session of its salon,   *)
(* and a turn that was loaded is of the revision it can still be saved to, *)
(* or of an older one.                                                     *)
PostedFits(r, row) ==
    /\ r.endpoint # "incoming" \/ r.step = "started" => row # NoCall /\ row.salon = r.salon
    /\ r.step \in {"locked", "loaded", "executed"} => r.endpoint # "incoming"
    /\ r.step \in {"loaded", "executed"} =>
         r.revision <= row.revision /\ (r.revision = row.revision => row.status = "active")

\* A key occurs once in a transcript.
KeysOnce(seq) == \A i, j \in DOMAIN seq : seq[i] = seq[j] /\ seq[i] # NoKey => i = j

RoutesHold ==
    routes \in [VoiceSalons -> [enabled : BOOLEAN, version : 0 .. MaxRouteChanges, token : Nat]]
RowsHold ==
    /\ calls \in [CallIds -> CallRows \cup {NoCall}]
    /\ \A c \in CallIds : calls[c] # NoCall /\ calls[c].redacted => ~ calls[c].personal
TranscriptsHold ==
    /\ transcript \in [CallIds -> Seq(EventKeys)]
    /\ \A c \in CallIds : Len(transcript[c]) <= MaxTurns /\ KeysOnce(transcript[c])
RequestsHold ==
    /\ request \in [CallHandlers -> Requests]
    /\ \A h \in CallHandlers : request[h] \in Posted => PostedFits(request[h], calls[request[h].call])
OperationsHold == executedCalls \subseteq CallIds

CallInv == RoutesHold /\ RowsHold /\ TranscriptsHold /\ RequestsHold /\ OperationsHold

LEMMA CallInitially == CallInit => CallInv
<1> SUFFICES ASSUME CallInit PROVE CallInv
  OBVIOUS
<1>1. RoutesHold
  BY CallConstants DEF CallInit, RoutesHold
<1>2. RowsHold
  BY DEF CallInit, RowsHold
<1>3. TranscriptsHold
  BY EmptySeq, CallConstants DEF CallInit, TranscriptsHold, KeysOnce
<1>4. RequestsHold
  BY DEF IdleRequest, Posted, Requests, CallInit, RequestsHold
<1> QED BY <1>1, <1>2, <1>3, <1>4 DEF CallInit, CallInv, OperationsHold

LEMMA CallRowIs ==
    ASSUME CallInv, NEW c \in CallIds
    PROVE  /\ calls[c] # NoCall <=> calls[c].status # "none"
           /\ calls[c] # NoCall => calls[c] \in CallRows
BY DEF CallInv, RowsHold, CallRows, NoCall, Terminal

(* What a session becomes: its salon stays, and a turn that is saved makes *)
(* a new revision.                                                         *)
CallGoes(old, new) ==
    old # NoCall =>
      /\ new # NoCall /\ new.salon = old.salon /\ new.revision >= old.revision
      /\ new.revision = old.revision => new.status = old.status

LEMMA PostedStays ==
    ASSUME NEW r \in Posted, NEW old \in CallRows \cup {NoCall}, NEW new \in CallRows \cup {NoCall},
           CallGoes(old, new), PostedFits(r, old)
    PROVE  PostedFits(r, new)
<1>1. CASE r.endpoint # "incoming" \/ r.step = "started"
  BY <1>1 DEF PostedFits, CallGoes, Posted, CallRows
<1>2. CASE ~ (r.endpoint # "incoming" \/ r.step = "started")
  BY <1>2 DEF PostedFits
<1> QED BY <1>1, <1>2

\* The sessions change, and with them what one request is doing.
LEMMA RequestsFollow ==
    ASSUME CallInv, NEW h \in CallHandlers, NEW r \in Requests,
           request' = [request EXCEPT ![h] = r],
           calls' \in [CallIds -> CallRows \cup {NoCall}],
           \A c \in CallIds : CallGoes(calls[c], calls'[c]),
           r \in Posted => PostedFits(r, calls'[r.call])
    PROVE  RequestsHold'
<1>1. request' \in [CallHandlers -> Requests] /\ request'[h] = r
      /\ \A g \in CallHandlers \ {h} : request'[g] = request[g]
  BY DEF CallInv, RequestsHold
<1>2. ASSUME NEW g \in CallHandlers, g # h, request[g] \in Posted
      PROVE  PostedFits(request[g], calls'[request[g].call])
  <2>1. PICK q \in Posted : q = request[g]
    BY <1>2
  <2>2. q.call \in CallIds
    BY DEF Posted
  <2>3. PostedFits(q, calls[q.call])
    BY <2>1 DEF CallInv, RequestsHold
  <2>4. calls[q.call] \in CallRows \cup {NoCall} /\ calls'[q.call] \in CallRows \cup {NoCall}
        /\ CallGoes(calls[q.call], calls'[q.call])
    BY <2>2 DEF CallInv, RowsHold
  <2> QED BY <2>1, <2>3, <2>4, PostedStays
<1> QED BY <1>1, <1>2 DEF RequestsHold

LEMMA RowsStay ==
    ASSUME CallInv, calls' = calls
    PROVE  /\ calls' \in [CallIds -> CallRows \cup {NoCall}] /\ RowsHold'
           /\ \A c \in CallIds : CallGoes(calls[c], calls'[c])
<1>1. ASSUME NEW c \in CallIds PROVE CallGoes(calls[c], calls'[c])
  BY CallRowIs DEF CallGoes, CallRows
<1> QED BY <1>1 DEF CallInv, RowsHold

\* Only one request goes on.
LEMMA RequestKeeps ==
    ASSUME CallInv, NEW h \in CallHandlers, NEW r \in Requests,
           request' = [request EXCEPT ![h] = r],
           calls' = calls, transcript' = transcript, routes' = routes,
           executedCalls' \subseteq CallIds,
           r \in Posted => PostedFits(r, calls[r.call])
    PROVE  CallInv'
<1>1. RequestsHold' /\ RowsHold'
  BY RequestsFollow, RowsStay
<1> QED BY <1>1 DEF CallInv, RoutesHold, TranscriptsHold, OperationsHold

\* A request that is at work, and what it answers when it is done.
LEMMA RequestThere ==
    ASSUME CallInv, NEW h \in CallHandlers,
           request[h].step \in {"resolved", "starting", "started", "locked", "loaded", "executed"}
    PROVE  /\ request[h] \in Posted /\ PostedFits(request[h], calls[request[h].call])
           /\ request[h].call \in CallIds /\ request[h].salon \in VoiceSalons
<1>1. request[h] \in Requests
  BY DEF CallInv, RequestsHold
<1>2. request[h] \in Posted
  BY <1>1 DEF Requests, Replying, IdleRequest
<1> QED BY <1>2 DEF CallInv, RequestsHold, Posted

LEMMA AnswersAreRequests ==
    /\ IdleRequest \in Requests /\ IdleRequest \notin Posted
    /\ \A s \in VoiceSalons, c \in CallIds :
         LET r == [step |-> "speaking", salon |-> s, call |-> c]
         IN  r \in Requests /\ r \notin Posted
BY DEF Requests, Replying, Posted, IdleRequest

\* A request ends, or the caller hears the answer.
LEMMA AnsweredKeeps ==
    ASSUME CallInv, NEW h \in CallHandlers, CallAnswered(h), calls' = calls,
           transcript' = transcript, routes' = routes, executedCalls' = executedCalls
    PROVE  CallInv'
<1>1. request' = [request EXCEPT ![h] = IdleRequest] /\ executedCalls' \subseteq CallIds
  BY DEF CallAnswered, CallInv, OperationsHold
<1> QED BY <1>1, AnswersAreRequests, RequestKeeps

LEMMA SpeaksKeeps ==
    ASSUME CallInv, NEW h \in CallHandlers, NEW s \in VoiceSalons, NEW c \in CallIds,
           Speaks(h, s, c), calls' = calls,
           transcript' = transcript, routes' = routes, executedCalls' = executedCalls
    PROVE  CallInv'
<1>1. PICK r : r = [step |-> "speaking", salon |-> s, call |-> c]
  OBVIOUS
<1>2. r \in Requests /\ r \notin Posted
  BY <1>1, AnswersAreRequests
<1>3. request' = [request EXCEPT ![h] = r] /\ executedCalls' \subseteq CallIds
  BY <1>1 DEF Speaks, CallInv, OperationsHold
<1> QED BY <1>2, <1>3, RequestKeeps

\* A webhook is accepted for the salon the call is of.
LEMMA KeysAreKeys ==
    ASSUME CallInv, NEW s \in VoiceSalons, NEW e \in TurnEvents \cup {""}
    PROVE  /\ NoKey \in EventKeys /\ NoiseKey \in EventKeys
           /\ speechTurnEventKey(e, routes[s].token) \in EventKeys
<1>1. routes[s].token \in Nat
  BY DEF CallInv, RoutesHold
<1> QED BY <1>1 DEF EventKeys, NoKey, NoiseKey, speechTurnEventKey

LEMMA AcceptedKeeps ==
    ASSUME CallInv, NEW h \in CallHandlers, NEW s \in VoiceSalons, NEW c \in CallIds,
           NEW endpoint \in {"incoming", "turn", "noise"}, NEW key \in EventKeys,
           Accepted(h, s, c, endpoint, key)
    PROVE  CallInv'
<1>1. PICK v \in Nat : v = IF endpoint = "incoming" THEN routes[s].version ELSE 0
  BY CallConstants DEF CallInv, RoutesHold
<1>2. PICK r : r = [step |-> "resolved", endpoint |-> endpoint, salon |-> s, call |-> c, key |-> key,
                    version |-> v, locked |-> FALSE, revision |-> 0, conflicts |-> 0]
  OBVIOUS
<1>3. r \in Posted /\ r \in Requests /\ r.call = c /\ r.salon = s /\ r.endpoint = endpoint
      /\ r.step = "resolved"
  BY <1>2 DEF Posted, Requests
<1>4. endpoint # "incoming" => calls[c] # NoCall /\ calls[c].salon = s
  BY CallRowIs DEF Accepted, ResolveTwilioVoiceRoute, requiresExistingCall, CallRoute
<1>5. PostedFits(r, calls[r.call])
  BY <1>3, <1>4 DEF PostedFits
<1>6. request' = [request EXCEPT ![h] = r]
  BY <1>1, <1>2 DEF Accepted
<1>7. executedCalls' \subseteq CallIds /\ calls' = calls /\ transcript' = transcript /\ routes' = routes
  BY DEF Accepted, CallInv, OperationsHold
<1> QED BY <1>3, <1>5, <1>6, <1>7, RequestKeeps

LEMMA PostedKeeps ==
    ASSUME CallInv, NEW h \in CallHandlers, NEW s \in VoiceSalons, NEW c \in CallIds,
           \/ NoisePosted(h, s, c) \/ IncomingPosted(h, s, c)
           \/ \E e \in TurnEvents \cup {""} : TurnPosted(h, s, c, e)
    PROVE  CallInv'
<1>1. NoKey \in EventKeys /\ NoiseKey \in EventKeys
  BY KeysAreKeys
<1>2. CASE NoisePosted(h, s, c)
  BY <1>1, <1>2, AcceptedKeeps DEF NoisePosted
<1>3. CASE IncomingPosted(h, s, c)
  BY <1>1, <1>3, AcceptedKeeps DEF IncomingPosted
<1>4. CASE \E e \in TurnEvents \cup {""} : TurnPosted(h, s, c, e)
  <2>1. PICK e \in TurnEvents \cup {""} : TurnPosted(h, s, c, e)
    BY <1>4
  <2>2. speechTurnEventKey(e, routes[s].token) \in EventKeys
    BY KeysAreKeys
  <2> QED BY <2>1, <2>2, AcceptedKeeps DEF TurnPosted
<1> QED BY <1>2, <1>3, <1>4

(* A request takes its next step: only the step, the lock, the revision    *)
(* and the conflicts of what it keeps change.                              *)
LEMMA StepKeeps ==
    ASSUME CallInv, NEW h \in CallHandlers, NEW r \in Posted, request[h] \in Posted,
           r.call = request[h].call,
           request' = [request EXCEPT ![h] = r], PostedFits(r, calls[r.call]),
           calls' = calls, transcript' = transcript, routes' = routes,
           executedCalls' \subseteq CallIds
    PROVE  CallInv'
BY RequestKeeps DEF Requests

LEMMA StartKeeps == ASSUME CallInv, NEW h \in CallHandlers, getOrStartPhoneSession(h) PROVE CallInv'
<1>1. PICK r : r = request[h]
  OBVIOUS
<1>2. r \in Posted /\ PostedFits(r, calls[r.call]) /\ r.call \in CallIds /\ r.endpoint = "incoming"
  BY <1>1, RequestThere DEF getOrStartPhoneSession
<1>3. PICK step \in {"started", "starting"} :
         step = IF CallRoute(r.call, r.salon) THEN "started" ELSE "starting"
  OBVIOUS
<1>4. PICK new : new = [r EXCEPT !.step = step]
  OBVIOUS
<1>5. new \in Posted /\ new.call = r.call /\ new.salon = r.salon /\ new.step = step
      /\ new.endpoint = "incoming"
  BY <1>2, <1>4 DEF Posted
<1>6. step = "started" => calls[r.call] # NoCall /\ calls[r.call].salon = r.salon
  BY <1>2, <1>3, CallRowIs DEF CallRoute
<1>7. PostedFits(new, calls[new.call])
  BY <1>5, <1>6 DEF PostedFits
<1>8. request' = [request EXCEPT ![h] = new]
  BY <1>1, <1>3, <1>4 DEF getOrStartPhoneSession, Goto, CallInv, RequestsHold
<1>9. executedCalls' \subseteq CallIds /\ calls' = calls /\ transcript' = transcript /\ routes' = routes
  BY DEF getOrStartPhoneSession, CallInv, OperationsHold
<1> QED BY <1>1, <1>2, <1>5, <1>7, <1>8, <1>9, StepKeeps

LEMMA LockKeeps ==
    ASSUME CallInv, NEW h \in CallHandlers,
           WithSessionTurnSerialization(h) \/ LockConnectionLost(h)
    PROVE  CallInv'
<1>1. PICK r : r = request[h]
  OBVIOUS
<1>2. r \in Posted /\ PostedFits(r, calls[r.call]) /\ r.call \in CallIds
  BY <1>1, RequestThere DEF WithSessionTurnSerialization, LockConnectionLost
<1>3. executedCalls' \subseteq CallIds /\ calls' = calls /\ transcript' = transcript /\ routes' = routes
  BY DEF WithSessionTurnSerialization, LockConnectionLost, CallInv, OperationsHold
<1>4. CASE WithSessionTurnSerialization(h)
  <2>1. PICK new : new = [r EXCEPT !.step = "locked", !.locked = TRUE]
    OBVIOUS
  <2>2. r.endpoint # "incoming"
    BY <1>1, <1>4 DEF WithSessionTurnSerialization
  <2>3. new \in Posted /\ new.call = r.call /\ new.salon = r.salon /\ new.step = "locked"
        /\ new.endpoint = r.endpoint
    BY <1>2, <2>1 DEF Posted
  <2>4. PostedFits(new, calls[new.call])
    BY <1>2, <2>2, <2>3 DEF PostedFits
  <2>5. request' = [request EXCEPT ![h] = new]
    BY <1>1, <1>4, <2>1 DEF WithSessionTurnSerialization, CallInv, RequestsHold
  <2> QED BY <1>1, <1>2, <1>3, <2>3, <2>4, <2>5, StepKeeps
<1>5. CASE LockConnectionLost(h)
  <2>1. PICK new : new = [r EXCEPT !.locked = FALSE]
    OBVIOUS
  <2>2. new \in Posted /\ new.call = r.call /\ new.salon = r.salon /\ new.step = r.step
        /\ new.endpoint = r.endpoint /\ new.revision = r.revision
    BY <1>2, <2>1 DEF Posted
  <2>3. PostedFits(new, calls[new.call])
    BY <1>2, <2>2 DEF PostedFits
  <2>4. request' = [request EXCEPT ![h] = new]
    BY <1>1, <1>5, <2>1 DEF LockConnectionLost, CallInv, RequestsHold
  <2> QED BY <1>1, <1>2, <1>3, <2>2, <2>3, <2>4, StepKeeps
<1> QED BY <1>4, <1>5

LEMMA LoadKeeps == ASSUME CallInv, NEW h \in CallHandlers, messageOnce(h) PROVE CallInv'
<1>1. PICK r : r = request[h]
  OBVIOUS
<1>2. r \in Posted /\ PostedFits(r, calls[r.call]) /\ r.call \in CallIds /\ r.salon \in VoiceSalons
      /\ r.step = "locked"
  BY <1>1, RequestThere DEF messageOnce
<1>3. executedCalls' = executedCalls /\ calls' = calls /\ transcript' = transcript /\ routes' = routes
  BY DEF messageOnce
<1>4. CASE SpeaksTo(h)
  BY <1>1, <1>2, <1>3, <1>4, SpeaksKeeps DEF SpeaksTo
<1>5. CASE /\ calls[r.call].status = "active"
           /\ request' = [request EXCEPT ![h].step = "loaded", ![h].revision = calls[r.call].revision]
  <2>1. PICK n \in Nat : n = calls[r.call].revision
    BY <1>2, <1>5, CallRowIs DEF CallRows
  <2>2. PICK new : new = [r EXCEPT !.step = "loaded", !.revision = n]
    OBVIOUS
  <2>3. new \in Posted /\ new.call = r.call /\ new.salon = r.salon /\ new.step = "loaded"
        /\ new.endpoint = r.endpoint /\ new.revision = n
    BY <1>2, <2>2 DEF Posted
  <2>4. PostedFits(new, calls[new.call])
    BY <1>2, <1>5, <2>1, <2>3 DEF PostedFits
  <2>5. request' = [request EXCEPT ![h] = new]
    BY <1>1, <1>5, <2>1, <2>2 DEF CallInv, RequestsHold
  <2>6. executedCalls' \subseteq CallIds
    BY <1>3 DEF CallInv, OperationsHold
  <2> QED BY <1>1, <1>2, <1>3, <2>3, <2>4, <2>5, <2>6, StepKeeps
<1> QED BY <1>1, <1>4, <1>5 DEF messageOnce

LEMMA ExecuteKeeps == ASSUME CallInv, NEW h \in CallHandlers, Execute(h) PROVE CallInv'
<1>1. PICK r : r = request[h]
  OBVIOUS
<1>2. r \in Posted /\ PostedFits(r, calls[r.call]) /\ r.call \in CallIds /\ r.step = "loaded"
  BY <1>1, RequestThere DEF Execute
<1>3. PICK new : new = [r EXCEPT !.step = "executed"]
  OBVIOUS
<1>4. new \in Posted /\ new.call = r.call /\ new.salon = r.salon /\ new.step = "executed"
      /\ new.endpoint = r.endpoint /\ new.revision = r.revision
  BY <1>2, <1>3 DEF Posted
<1>5. PostedFits(new, calls[new.call])
  BY <1>2, <1>4 DEF PostedFits
<1>6. request' = [request EXCEPT ![h] = new]
  BY <1>1, <1>3 DEF Execute, CallInv, RequestsHold
<1>7. calls' = calls /\ transcript' = transcript /\ routes' = routes
      /\ executedCalls' = executedCalls \cup {r.call}
  BY <1>1 DEF Execute, conversationOperationKey
<1>8. executedCalls' \subseteq CallIds
  BY <1>2, <1>7 DEF CallInv, OperationsHold
<1> QED BY <1>1, <1>2, <1>4, <1>5, <1>6, <1>7, <1>8, StepKeeps

\* The answers that change nothing of the session.
LEMMA RepliesKeep ==
    ASSUME CallInv, NEW h \in CallHandlers,
           NoSpeech(h) \/ HandleVerifiedIncomingCall(h) \/ RequestFails(h) \/ SaveAudioOutput(h)
    PROVE  CallInv'
<1>1. /\ executedCalls' = executedCalls /\ calls' = calls /\ transcript' = transcript
      /\ routes' = routes
  BY DEF NoSpeech, HandleVerifiedIncomingCall, RequestFails, SaveAudioOutput
<1>2. CASE NoSpeech(h) \/ HandleVerifiedIncomingCall(h)
  BY <1>1, <1>2, RequestThere, SpeaksKeeps DEF NoSpeech, HandleVerifiedIncomingCall, SpeaksTo
<1>3. CASE RequestFails(h) \/ SaveAudioOutput(h)
  BY <1>1, <1>3, AnsweredKeeps DEF RequestFails, SaveAudioOutput
<1> QED BY <1>2, <1>3

\* One session is written.
LEMMA CallWritten ==
    ASSUME CallInv, NEW c \in CallIds, NEW row \in CallRows, calls' = [calls EXCEPT ![c] = row],
           row.redacted => ~ row.personal, CallGoes(calls[c], row)
    PROVE  /\ RowsHold' /\ calls' \in [CallIds -> CallRows \cup {NoCall}] /\ calls'[c] = row
           /\ \A d \in CallIds : CallGoes(calls[d], calls'[d])
<1>1. calls' \in [CallIds -> CallRows \cup {NoCall}] /\ calls'[c] = row
      /\ \A d \in CallIds \ {c} : calls'[d] = calls[d]
  BY DEF CallInv, RowsHold
<1>2. ASSUME NEW d \in CallIds, d # c PROVE CallGoes(calls[d], calls'[d])
  BY <1>1, <1>2, CallRowIs DEF CallGoes, CallRows
<1>3. \A d \in CallIds : CallGoes(calls[d], calls'[d])
  BY <1>1, <1>2
<1>4. \A d \in CallIds : calls'[d] # NoCall /\ calls'[d].redacted => ~ calls'[d].personal
  BY <1>1 DEF CallInv, RowsHold
<1> QED BY <1>1, <1>3, <1>4 DEF RowsHold

(* The session is made for the salon the call was verified for, or the     *)
(* one that won is taken when it is of that salon.                         *)
LEMMA CreateKeeps == ASSUME CallInv, NEW h \in CallHandlers, CreateSession(h) PROVE CallInv'
<1>1. PICK r : r = request[h]
  OBVIOUS
<1>2. r \in Posted /\ PostedFits(r, calls[r.call]) /\ r.call \in CallIds /\ r.salon \in VoiceSalons
      /\ r.step = "starting"
  BY <1>1, RequestThere DEF CreateSession
<1>3. executedCalls' = executedCalls /\ transcript' = transcript /\ routes' = routes
  BY DEF CreateSession
<1>4. PICK new : new = [r EXCEPT !.step = "started"]
  OBVIOUS
<1>5. new \in Posted /\ new.call = r.call /\ new.salon = r.salon /\ new.step = "started"
  BY <1>2, <1>4 DEF Posted
<1>6. Goto(h, "started") => request' = [request EXCEPT ![h] = new]
  BY <1>1, <1>4 DEF Goto, CallInv, RequestsHold
<1>7. CASE CallAnswered(h) /\ calls' = calls
  BY <1>3, <1>7, AnsweredKeeps
<1>8. CASE /\ calls[r.call].status = "none" /\ Goto(h, "started")
           /\ calls' = [calls EXCEPT ![r.call] = NewCall(r.salon)]
  <2>1. PICK row : row = NewCall(r.salon)
    OBVIOUS
  <2>2. row \in CallRows /\ ~ row.redacted /\ row.salon = r.salon
    BY <1>2, <2>1 DEF NewCall, CallRows
  <2>3. calls[r.call] = NoCall /\ row # NoCall
    BY <1>2, <1>8, <2>1, CallRowIs DEF NewCall, NoCall
  <2>4. RowsHold' /\ calls' \in [CallIds -> CallRows \cup {NoCall}] /\ calls'[r.call] = row
        /\ \A d \in CallIds : CallGoes(calls[d], calls'[d])
    BY <1>2, <1>8, <2>1, <2>2, <2>3, CallWritten DEF CallGoes
  <2>5. PostedFits(new, calls'[new.call])
    BY <1>5, <2>2, <2>3, <2>4 DEF PostedFits
  <2>6. RequestsHold'
    BY <1>5, <1>6, <1>8, <2>4, <2>5, RequestsFollow DEF Requests
  <2> QED BY <1>3, <2>4, <2>6 DEF CallInv, RoutesHold, TranscriptsHold, OperationsHold
<1>9. CASE /\ calls[r.call].status # "none" /\ SameIdentity(r.call, r.salon)
           /\ Goto(h, "started") /\ calls' = calls
  BY <1>1, <1>2, <1>3, <1>5, <1>6, <1>9, CallRowIs, StepKeeps DEF SameIdentity, PostedFits,
     CallInv, OperationsHold
<1> QED BY <1>1, <1>7, <1>8, <1>9 DEF CreateSession

\* A key is added to a transcript that does not have it.
LEMMA KeyAdded ==
    ASSUME NEW seq \in Seq(EventKeys), NEW key \in EventKeys, KeysOnce(seq),
           key = NoKey \/ \A i \in DOMAIN seq : seq[i] # key
    PROVE  /\ Append(seq, key) \in Seq(EventKeys) /\ KeysOnce(Append(seq, key))
           /\ Len(Append(seq, key)) = Len(seq) + 1
<1>1. PICK new : new = Append(seq, key)
  OBVIOUS
<1>2. /\ new \in Seq(EventKeys) /\ Len(new) = Len(seq) + 1
      /\ \A i \in 1 .. Len(seq) : new[i] = seq[i]
      /\ new[Len(seq) + 1] = key
  BY <1>1, AppendProperties
<1>3. Len(seq) \in Nat /\ DOMAIN seq = 1 .. Len(seq) /\ DOMAIN new = 1 .. Len(seq) + 1
  BY <1>2, LenProperties
<1>4. ASSUME NEW i \in DOMAIN new, NEW j \in DOMAIN new, new[i] = new[j], new[i] # NoKey
      PROVE  i = j
  BY <1>2, <1>3, <1>4 DEF KeysOnce
<1> QED BY <1>1, <1>2, <1>4 DEF KeysOnce

LEMMA TurnIsNew ==
    ASSUME CallInv, NEW c \in CallIds, NEW key \in EventKeys, TakesTurn(c), ~ TurnRecorded(c, key)
    PROVE  key = NoKey \/ \A i \in DOMAIN transcript[c] : transcript[c][i] # key
BY DEF TakesTurn, TurnRecorded

\* The row a turn leaves.
LEMMA NextStatuses ==
    ASSUME NEW h \in CallHandlers, NEW st \in NextStatus(h) PROVE st \in {"active"} \cup Terminal
BY DEF NextStatus, Terminal

LEMMA SaveKeeps == ASSUME CallInv, NEW h \in CallHandlers, SaveTurn(h) PROVE CallInv'
<1>1. PICK r : r = request[h]
  OBVIOUS
<1>2. /\ r \in Posted /\ PostedFits(r, calls[r.call]) /\ r.call \in CallIds /\ r.salon \in VoiceSalons
      /\ r.step \in {"loaded", "executed"}
  BY <1>1, RequestThere DEF SaveTurn
<1>3. executedCalls' = executedCalls /\ routes' = routes
  BY DEF SaveTurn
<1>4. CASE CallAnswered(h) /\ UNCHANGED <<calls, transcript>>
  BY <1>3, <1>4, AnsweredKeeps
<1>5. CASE SpeaksTo(h) /\ UNCHANGED <<calls, transcript>>
  BY <1>1, <1>2, <1>3, <1>5, SpeaksKeeps DEF SpeaksTo
<1>6. CASE /\ request' = [request EXCEPT ![h] =
                 IF @.conflicts < MaxConflicts
                 THEN [@ EXCEPT !.step = "locked", !.conflicts = request[h].conflicts + 1]
                 ELSE IdleRequest]
           /\ UNCHANGED <<calls, transcript>>
  <2>1. PICK n \in Nat : n = r.conflicts + 1
    BY <1>2 DEF Posted
  <2>2. PICK new : new = [r EXCEPT !.step = "locked", !.conflicts = n]
    OBVIOUS
  <2>3. new \in Posted /\ new.call = r.call /\ new.salon = r.salon /\ new.step = "locked"
        /\ new.endpoint = r.endpoint
    BY <1>2, <2>2 DEF Posted
  <2>4. PostedFits(new, calls[new.call])
    BY <1>2, <2>3 DEF PostedFits
  <2>5. executedCalls' \subseteq CallIds
    BY <1>3 DEF CallInv, OperationsHold
  <2>6. CASE request' = [request EXCEPT ![h] = new]
    BY <1>1, <1>2, <1>3, <1>6, <2>3, <2>4, <2>5, <2>6, StepKeeps
  <2>7. CASE request' = [request EXCEPT ![h] = IdleRequest]
    BY <1>3, <1>6, <2>7, AnsweredKeeps DEF CallAnswered
  <2>8. request \in [CallHandlers -> Requests]
    BY DEF CallInv, RequestsHold
  <2>9. CASE r.conflicts < MaxConflicts
    BY <1>1, <1>6, <2>1, <2>2, <2>6, <2>8, <2>9
  <2>10. CASE ~ (r.conflicts < MaxConflicts)
    BY <1>1, <1>6, <2>7, <2>8, <2>10
  <2> QED BY <2>9, <2>10
<1>7. CASE /\ TakesTurn(r.call) /\ ~ TurnRecorded(r.call, r.key) /\ CurrentRevision(h)
           /\ Len(transcript[r.call]) < MaxTurns
           /\ \E st \in NextStatus(h) :
                calls' = [calls EXCEPT ![r.call].status = st, ![r.call].revision = @ + 1,
                                       ![r.call].personal = TRUE]
           /\ transcript' = [transcript EXCEPT ![r.call] = Append(@, r.key)]
           /\ SpeaksTo(h)
  <2>1. PICK old : old = calls[r.call]
    OBVIOUS
  <2>2. old \in CallRows /\ old # NoCall /\ ~ old.redacted /\ old.revision \in Nat
    BY <1>2, <1>7, <2>1, CallRowIs DEF PostedFits, TakesTurn, CallRows
  <2>3. PICK st \in NextStatus(h) :
           calls' = [calls EXCEPT ![r.call].status = st, ![r.call].revision = @ + 1,
                                  ![r.call].personal = TRUE]
    BY <1>7
  <2>4. PICK n \in Nat : n = old.revision + 1
    BY <2>2
  <2>5. PICK row : row = [old EXCEPT !.status = st, !.revision = n, !.personal = TRUE]
    OBVIOUS
  <2>6. row \in CallRows /\ ~ row.redacted /\ row.salon = old.salon /\ row.revision = n
    BY <2>2, <2>3, <2>5, NextStatuses DEF CallRows
  <2>7. calls' = [calls EXCEPT ![r.call] = row]
    BY <1>2, <2>1, <2>3, <2>4, <2>5 DEF CallInv, RowsHold
  <2>8. CallGoes(old, row)
    BY <2>2, <2>4, <2>6 DEF CallGoes, CallRows, NoCall
  <2>9. RowsHold' /\ calls' \in [CallIds -> CallRows \cup {NoCall}]
        /\ \A d \in CallIds : CallGoes(calls[d], calls'[d])
    BY <1>2, <2>1, <2>6, <2>7, <2>8, CallWritten
  <2>10. RequestsHold'
    <3>1. PICK new : new = [step |-> "speaking", salon |-> r.salon, call |-> r.call]
      OBVIOUS
    <3>2. new \in Requests /\ new \notin Posted
      BY <1>2, <3>1, AnswersAreRequests
    <3>3. request' = [request EXCEPT ![h] = new]
      BY <1>1, <1>7, <3>1 DEF SpeaksTo, Speaks
    <3> QED BY <2>9, <3>2, <3>3, RequestsFollow
  <2>11. TranscriptsHold'
    <3>1. PICK seq : seq = transcript[r.call]
      OBVIOUS
    <3>2. seq \in Seq(EventKeys) /\ KeysOnce(seq) /\ r.key \in EventKeys /\ Len(seq) < MaxTurns
      BY <1>2, <1>7, <3>1 DEF CallInv, TranscriptsHold, Posted
    <3>3. r.key = NoKey \/ \A i \in DOMAIN seq : seq[i] # r.key
      BY <1>2, <1>7, <3>1, <3>2, TurnIsNew
    <3>4. PICK next : next = Append(seq, r.key)
      OBVIOUS
    <3>5. next \in Seq(EventKeys) /\ KeysOnce(next) /\ Len(next) = Len(seq) + 1
      BY <3>2, <3>3, <3>4, KeyAdded
    <3>6. Len(next) <= MaxTurns
      BY <3>2, <3>5, CallConstants, LenProperties
    <3>7. transcript' = [transcript EXCEPT ![r.call] = next]
      BY <1>7, <3>1, <3>4
    <3> QED BY <1>2, <3>5, <3>6, <3>7 DEF CallInv, TranscriptsHold
  <2> QED BY <1>3, <2>9, <2>10, <2>11 DEF CallInv, RoutesHold, OperationsHold
<1> QED BY <1>1, <1>4, <1>5, <1>6, <1>7 DEF SaveTurn

\* Retention leaves a session's salon, status and revision.
LEMMA RetentionKeeps ==
    ASSUME CallInv, NEW c \in CallIds,
           ArchiveSession(c) \/ RedactSession(c) \/ RedactExpiredSessions(c)
    PROVE  CallInv'
<1>1. PICK old : old = calls[c]
  OBVIOUS
<1>2. UNCHANGED <<routes, transcript, executedCalls, request>>
  BY DEF ArchiveSession, RedactSession, RedactExpiredSessions, redactSessionInTx
<1>3. old \in CallRows /\ old # NoCall /\ old.revision \in Nat
  BY <1>1, CallRowIs DEF ArchiveSession, RedactSession, RedactExpiredSessions, Terminal,
     CallRows
<1>4. \E row \in CallRows :
        /\ row.salon = old.salon /\ row.revision = old.revision /\ row.status = old.status
        /\ row.redacted => ~ row.personal
        /\ calls' = [calls EXCEPT ![c] = row]
  <2>1. CASE ArchiveSession(c)
    <3>1. PICK row : row = [old EXCEPT !.archived = TRUE]
      OBVIOUS
    <3>2. row \in CallRows /\ row.salon = old.salon /\ row.revision = old.revision
          /\ row.status = old.status /\ row.redacted = old.redacted /\ row.personal = old.personal
      BY <1>3, <3>1 DEF CallRows
    <3>3. calls' = [calls EXCEPT ![c] = row] /\ ~ old.redacted
      BY <1>1, <2>1, <3>1 DEF ArchiveSession, CallInv, RowsHold
    <3> QED BY <3>2, <3>3
  <2>2. CASE redactSessionInTx(c)
    <3>1. PICK row : row = [old EXCEPT !.redacted = TRUE, !.personal = FALSE, !.archived = FALSE]
      OBVIOUS
    <3>2. row \in CallRows /\ row.salon = old.salon /\ row.revision = old.revision
          /\ row.status = old.status /\ ~ row.personal
      BY <1>3, <3>1 DEF CallRows
    <3>3. calls' = [calls EXCEPT ![c] = row]
      BY <1>1, <2>2, <3>1 DEF redactSessionInTx, CallInv, RowsHold
    <3> QED BY <3>2, <3>3
  <2> QED BY <2>1, <2>2 DEF RedactSession, RedactExpiredSessions
<1>5. PICK row \in CallRows :
        /\ row.salon = old.salon /\ row.revision = old.revision /\ row.status = old.status
        /\ row.redacted => ~ row.personal
        /\ calls' = [calls EXCEPT ![c] = row]
  BY <1>4
<1>6. CallGoes(old, row)
  BY <1>3, <1>5 DEF CallRows, NoCall, Terminal, CallGoes
<1>7. RowsHold' /\ calls' \in [CallIds -> CallRows \cup {NoCall}]
      /\ \A d \in CallIds : CallGoes(calls[d], calls'[d])
  BY <1>1, <1>5, <1>6, CallWritten
<1>8. RequestsHold'
  <2>1. ASSUME NEW h \in CallHandlers, request[h] \in Posted
        PROVE  PostedFits(request[h], calls'[request[h].call])
    <3>1. PICK q \in Posted : q = request[h]
      BY <2>1
    <3>2. q.call \in CallIds /\ PostedFits(q, calls[q.call])
      BY <3>1 DEF Posted, CallInv, RequestsHold
    <3>3. calls[q.call] \in CallRows \cup {NoCall} /\ calls'[q.call] \in CallRows \cup {NoCall}
      BY <1>7, <3>2 DEF CallInv, RowsHold
    <3> QED BY <1>7, <3>1, <3>2, <3>3, PostedStays
  <2> QED BY <1>2, <2>1 DEF CallInv, RequestsHold
<1> QED BY <1>2, <1>7, <1>8 DEF CallInv, RoutesHold, TranscriptsHold, OperationsHold

\* Routing.
LEMMA RoutesKeep == ASSUME CallInv, NEW s \in VoiceSalons, RouteChanges(s) PROVE CallInv'
<1>1. PICK old : old = routes[s]
  OBVIOUS
<1>2. old.version \in Nat /\ old.version < MaxRouteChanges /\ old.token \in Nat
  BY <1>1, CallConstants DEF RouteChanges, CallInv, RoutesHold
<1>3. PICK on \in BOOLEAN, rotate \in BOOLEAN :
         routes' = [routes EXCEPT ![s] = [enabled |-> on, version |-> @.version + 1,
                                          token |-> IF rotate THEN @.token + 1 ELSE @.token]]
  BY DEF RouteChanges
<1>4. PICK v \in 0 .. MaxRouteChanges, t \in Nat :
         v = old.version + 1 /\ t = IF rotate THEN old.token + 1 ELSE old.token
  BY <1>2, CallConstants
<1>5. routes' = [routes EXCEPT ![s] = [enabled |-> on, version |-> v, token |-> t]]
  BY <1>1, <1>3, <1>4 DEF CallInv, RoutesHold
<1>6. RoutesHold'
  BY <1>3, <1>4, <1>5 DEF CallInv, RoutesHold
<1>7. UNCHANGED <<calls, transcript, executedCalls, request>>
  BY DEF RouteChanges
<1> QED BY <1>6, <1>7 DEF CallInv, RowsHold, TranscriptsHold, RequestsHold, OperationsHold

LEMMA FallbackKeeps ==
    ASSUME CallInv, NEW h \in CallHandlers, NEW s \in VoiceSalons, NEW c \in CallIds,
           handleStreamFallback(h, s, c)
    PROVE  CallInv'
BY SpeaksKeeps DEF handleStreamFallback

\* What is recorded of the stream and of what was said.
LEMMA RecordsKeep ==
    ASSUME CallInv, UNCHANGED <<routes, calls, transcript, executedCalls, request>>
    PROVE  CallInv'
BY DEF CallInv, RoutesHold, RowsHold, TranscriptsHold, RequestsHold, OperationsHold

LEMMA CallStep == CallInv /\ [CallNext]_callVars => CallInv'
<1> SUFFICES ASSUME CallInv, [CallNext]_callVars PROVE CallInv'
  OBVIOUS
<1>1. CASE UNCHANGED callVars
  BY <1>1, RecordsKeep DEF callVars
<1>2. ASSUME NEW h \in CallHandlers,
             \/ RequestFails(h) \/ WithSessionTurnSerialization(h) \/ NoSpeech(h)
             \/ LockConnectionLost(h) \/ messageOnce(h) \/ Execute(h) \/ SaveTurn(h)
             \/ SaveAudioOutput(h) \/ getOrStartPhoneSession(h) \/ CreateSession(h)
             \/ HandleVerifiedIncomingCall(h)
      PROVE  CallInv'
  BY <1>2, RepliesKeep, LockKeeps, LoadKeeps, ExecuteKeeps, SaveKeeps, StartKeeps, CreateKeeps
<1>3. ASSUME NEW h \in CallHandlers, NEW s \in VoiceSalons, NEW c \in CallIds,
             \/ NoisePosted(h, s, c) \/ IncomingPosted(h, s, c)
             \/ \E e \in TurnEvents \cup {""} : TurnPosted(h, s, c, e)
             \/ handleStreamFallback(h, s, c)
      PROVE  CallInv'
  BY <1>3, PostedKeeps, FallbackKeeps
<1>4. ASSUME NEW c \in CallIds, ArchiveSession(c) \/ RedactSession(c) \/ RedactExpiredSessions(c)
      PROVE  CallInv'
  BY <1>4, RetentionKeeps
<1>5. CASE \E s \in VoiceSalons, c \in CallIds : handleStreamStatus(s, c)
  BY <1>5, RecordsKeep DEF handleStreamStatus
<1>6. CASE \E a \in audios : AudioExpires(a)
  BY <1>6, RecordsKeep DEF AudioExpires
<1>7. CASE \E s \in VoiceSalons : RouteChanges(s)
  BY <1>7, RoutesKeep
<1>8. CASE CallTurns
  BY <1>2, <1>3, <1>4, <1>8 DEF CallTurns
<1>9. CASE CallRouting
  BY <1>2, <1>3, <1>4, <1>5, <1>6, <1>7, <1>9 DEF CallRouting
<1> QED BY <1>1, <1>8, <1>9 DEF CallNext

THEOREM CallInvariant == CallSpec => []CallInv
BY CallInitially, CallStep, PTL DEF CallSpec

LEMMA CallIsSound == CallInv => CallsAreSound
<1> SUFFICES ASSUME CallInv PROVE CallsAreSound
  OBVIOUS
<1>1. AppliedOnce
  BY DEF CallInv, TranscriptsHold, KeysOnce, AppliedOnce
<1>2. CallOfOneSalon
  BY RequestThere DEF PostedFits, CallOfOneSalon
<1>3. RedactedIsEmpty
  BY CallRowIs DEF CallInv, RowsHold, RedactedIsEmpty
<1> QED BY <1>1, <1>2, <1>3 DEF CallsAreSound

LEMMA CallFits == CallInv => CallTypeOK
<1> SUFFICES ASSUME CallInv PROVE CallTypeOK
  OBVIOUS
<1>1. \A s \in VoiceSalons : routes[s].version \in 0 .. MaxRouteChanges
  BY DEF CallInv, RoutesHold
<1>2. \A c \in CallIds : calls[c].status \in {"none", "active"} \cup Terminal
  BY CallRowIs DEF CallRows
<1>3. \A h \in CallHandlers : request[h].step \in
         {"idle", "resolved", "starting", "started", "locked", "loaded", "executed", "speaking"}
  BY DEF CallInv, RequestsHold, Requests, Posted, Replying, IdleRequest
<1> QED BY <1>1, <1>2, <1>3 DEF CallInv, TranscriptsHold, OperationsHold, CallTypeOK

\* CallTypeOK: the shapes of the routes, the sessions and the requests.
THEOREM CallTypeCorrect == CallSpec => []CallTypeOK
BY CallInvariant, CallFits, PTL

(* CallsAreSound: a turn that is posted again is applied once, to the      *)
(* session of the salon that was called, and a redacted session stays      *)
(* empty.                                                                  *)
THEOREM CallsStaySound == CallSpec => []CallsAreSound
BY CallInvariant, CallIsSound, PTL

\* A step leaves the status of a session that ended.
LEMMA StatusKept ==
    ASSUME CallInv, [CallNext]_callVars, NEW c \in CallIds, calls[c].status \in Terminal
    PROVE  calls'[c].status = calls[c].status
<1>1. calls[c] \in CallRows /\ calls[c].status # "none" /\ calls \in [CallIds -> CallRows \cup {NoCall}]
  BY CallRowIs DEF Terminal, CallInv, RowsHold
<1>2. CASE calls' = calls
  BY <1>2
<1>3. ASSUME NEW h \in CallHandlers, CreateSession(h), calls' # calls
      PROVE  calls'[c].status = calls[c].status
  BY <1>1, <1>3 DEF CreateSession
<1>4. ASSUME NEW h \in CallHandlers, SaveTurn(h), calls' # calls
      PROVE  calls'[c].status = calls[c].status
  <2>1. PICK r : r = request[h]
    OBVIOUS
  <2>2. /\ PostedFits(r, calls[r.call]) /\ r.step \in {"loaded", "executed"} /\ r.call \in CallIds
    BY <1>4, <2>1, RequestThere DEF SaveTurn
  <2>3. CurrentRevision(h)
    BY <1>4, <2>1 DEF SaveTurn
  <2>4. PICK st \in NextStatus(h) :
           calls' = [calls EXCEPT ![r.call].status = st, ![r.call].revision = @ + 1,
                                  ![r.call].personal = TRUE]
    BY <1>4, <2>1 DEF SaveTurn
  <2>5. calls[r.call].status = "active"
    BY <2>1, <2>2, <2>3 DEF PostedFits, CurrentRevision
  <2>6. r.call # c
    BY <2>5 DEF Terminal
  <2> QED BY <1>1, <2>4, <2>6
<1>5. ASSUME NEW d \in CallIds, ArchiveSession(d) \/ redactSessionInTx(d)
      PROVE  calls'[c].status = calls[c].status
  BY <1>1, <1>5 DEF ArchiveSession, redactSessionInTx, CallRows, NoCall
<1>6. ASSUME [CallNext]_callVars, calls' # calls
      PROVE  \/ \E h \in CallHandlers : CreateSession(h) \/ SaveTurn(h)
             \/ \E d \in CallIds : ArchiveSession(d) \/ redactSessionInTx(d)
  <2>1. ~ UNCHANGED callVars
    BY <1>6 DEF callVars
  <2>2. ASSUME NEW h \in CallHandlers
        PROVE  ~ (\/ RequestFails(h) \/ WithSessionTurnSerialization(h) \/ NoSpeech(h)
                  \/ LockConnectionLost(h) \/ messageOnce(h) \/ Execute(h)
                  \/ SaveAudioOutput(h) \/ getOrStartPhoneSession(h)
                  \/ HandleVerifiedIncomingCall(h))
    BY <1>6 DEF RequestFails, WithSessionTurnSerialization, NoSpeech, LockConnectionLost,
       messageOnce, Execute, SaveAudioOutput, getOrStartPhoneSession, HandleVerifiedIncomingCall
  <2>3. ASSUME NEW h \in CallHandlers, NEW s \in VoiceSalons, NEW c0 \in CallIds
        PROVE  ~ (\/ NoisePosted(h, s, c0) \/ IncomingPosted(h, s, c0)
                  \/ \E e \in TurnEvents \cup {""} : TurnPosted(h, s, c0, e)
                  \/ handleStreamFallback(h, s, c0))
    BY <1>6 DEF NoisePosted, IncomingPosted, TurnPosted, Accepted, handleStreamFallback
  <2>4. ~ \E s \in VoiceSalons, c0 \in CallIds : handleStreamStatus(s, c0)
    BY <1>6 DEF handleStreamStatus
  <2>5. ~ (\E s \in VoiceSalons : RouteChanges(s)) /\ ~ (\E a \in audios : AudioExpires(a))
    BY <1>6 DEF RouteChanges, AudioExpires
  <2>6. \A d \in CallIds : RedactSession(d) \/ RedactExpiredSessions(d) => redactSessionInTx(d)
    BY DEF RedactSession, RedactExpiredSessions
  <2>7. CASE CallTurns
    BY <2>2, <2>3, <2>6, <2>7, Zenon DEF CallTurns
  <2>8. CASE CallRouting
    BY <2>2, <2>3, <2>4, <2>5, <2>6, <2>8, Zenon DEF CallRouting
  <2> QED BY <1>6, <2>1, <2>7, <2>8 DEF CallNext
<1> QED BY <1>2, <1>3, <1>4, <1>5, <1>6

LEMMA EndedStep ==
    CallInv /\ [CallNext]_callVars =>
      [\A c \in CallIds : calls[c].status \in Terminal => calls'[c].status = calls[c].status]_callVars
BY StatusKept

(* EndedStaysEnded: a turn that was still running does not take up a       *)
(* conversation that has ended.                                            *)
THEOREM EndedStays == CallSpec => EndedStaysEnded
BY CallInvariant, EndedStep, PTL DEF CallSpec, EndedStaysEnded

-----------------------------------------------------------------------------
\* The voice stream: the state of the goroutine that owns the bridge.

QueuedReplies == [kind : ReplyKinds, generation : Nat, id : Nat]
ActiveReplies == [kind : ReplyKinds \cup {"none"}, generation : Nat, id : Nat]
CallFields == DOMAIN ClosedCall(FALSE)

(* The shape of the state, and what it holds of the call itself: n of the  *)
(* caller's utterances began.                                              *)
CallShaped(c, n) ==
    /\ DOMAIN c = CallFields /\ c.stage \in {"connecting", "open", "closed"}
    /\ c.active \in ActiveReplies /\ c.pending \in Seq(QueuedReplies) /\ c.frames \in Seq(Nat)
    /\ c.queue \in Seq(Nat) /\ c.inFlight \in Nat /\ c.sequence \in Nat
    /\ c.generation \in Nat /\ c.latest \in Nat /\ c.latest <= c.generation
    /\ Len(c.pending) <= ReplyQueueLimit /\ Len(c.frames) <= QueueFrameLimit
    /\ c.awaiting \subseteq 1 .. n /\ (c.speaking => n # 0)
HeardFits(c) ==
    /\ \A i \in DOMAIN c.frames : c.frames[i] = c.active.id
    /\ c.sent \in {0, c.active.id}
    /\ Streaming(c) /\ ResponseActive(c) /\ InputBusy(c) => c.interrupted
    /\ Streaming(c) /\ c.active.kind = "backend" /\ c.active.generation < c.latest => c.interrupted
TurnsFit(c) ==
    /\ c.terminal => c.queue = <<>>
    /\ c.inFlight <= c.latest
    /\ \A i \in DOMAIN c.queue : c.inFlight < c.queue[i] /\ c.queue[i] <= c.latest
    /\ \A i, j \in DOMAIN c.queue : i < j => c.queue[i] < c.queue[j]
    /\ c.queue # <<>> => c.queue[Len(c.queue)] = c.latest
    /\ c.inFlight # 0 /\ c.inFlight < c.latest /\ ~ c.terminal => c.queue # <<>>
PendingFits(c) ==
    \A i \in DOMAIN c.pending : c.pending[i].kind = "backend" => c.pending[i].generation <= c.latest
Ended(c) == c.stage = "open" /\ c.finalized => c.terminal
Working(c) == c.stage = "open" /\ c.queue # <<>> => c.inFlight # 0
Sound(c, n) == CallShaped(c, n) /\ HeardFits(c) /\ TurnsFit(c) /\ PendingFits(c)
StallFree(c) ==
    c.stage = "open" /\ ~ ResponseActive(c) /\ ~ InputBusy(c) /\ (~ BackendBusy(c) \/ c.terminal) =>
      \A i \in DOMAIN c.pending : Outdated(c, c.pending[i]) \/ ~ Speakable(c, c.pending[i])
ConnectingCall == call.active = NoReply /\ call.queue = <<>> /\ ~ call.finalized
VoiceInv ==
    /\ said \in Nat /\ Sound(call, said) /\ StallFree(call) /\ Working(call) /\ Ended(call)
    /\ call.stage = "connecting" => ConnectingCall /\ turnResults = <<>>
    /\ turnResults \in Seq([generation : Nat, outcome : TurnOutcomes])
    /\ turnResults # <<>> => /\ Tail(turnResults) = <<>>
                             /\ call.stage = "open" => /\ call.inFlight # 0
                                                       /\ Head(turnResults).generation = call.inFlight
    /\ producing \subseteq 1 .. call.sequence \/ call.stage = "closed"
\* The queue of replies that wait to be spoken.

\* The least element of a set of naturals.
LEMMA LeastNatural ==
    ASSUME NEW S \in SUBSET Nat, S # {}
    PROVE  \E n \in S : \A m \in S : n <= m
<1> DEFINE Less == {pair \in Nat \X Nat : pair[1] < pair[2]}
<1>1. OpToRel(<, Nat) = Less
  BY Zenon DEF OpToRel
<1>2. \E n \in S : \A m \in S : ~ (<<m, n>> \in Less)
  <2> HIDE DEF Less
  <2> QED BY <1>1, NatLessThanWellFounded, WFMin
<1>3. \A m, n \in Nat : <<m, n>> \in Less <=> m < n
  OBVIOUS
<1> HIDE DEF Less
<1>4. PICK n \in S : \A m \in S : ~ (<<m, n>> \in Less)
  BY <1>2
<1>5. \A m \in S : ~ (m < n)
  BY <1>3, <1>4
<1> QED BY <1>5

LEMMA UptoInterval ==
    ASSUME NEW n \in Nat
    PROVE  IsFiniteSet(1 .. n) /\ Cardinality(1 .. n) = n
<1>1. n \in Int /\ 1 \in Int
  OBVIOUS
<1>2. IsFiniteSet(1 .. n) /\ Cardinality(1 .. n) = IF 1 > n THEN 0 ELSE n - 1 + 1
  BY <1>1, FS_Interval
<1> QED BY <1>2

\* The place of rank k among some places of a queue.
LEMMA RankedPlace ==
    ASSUME NEW n \in Nat, NEW P \in SUBSET (1 .. n), NEW k \in 1 .. Cardinality(P)
    PROVE  \E i \in P : Cardinality({j \in P : j <= i}) = k
<1> DEFINE Upto(i) == {j \in P : j <= i}
           Enough == {i \in Nat : k <= Cardinality(Upto(i))}
<1>1. ASSUME NEW i \in Nat PROVE IsFiniteSet(Upto(i)) /\ Cardinality(Upto(i)) \in Nat
  BY <1>1, UptoInterval, FS_Subset, FS_CardinalityType
<1>2. \A i, x : x \in Upto(i) <=> x \in P /\ x <= i
  OBVIOUS
<1>a. P \in SUBSET Nat /\ \A x \in P : x <= n /\ ~ (x <= 0)
  OBVIOUS
<1> HIDE DEF Upto
<1>3. Upto(n) = P /\ Upto(0) = {} /\ Cardinality({}) = 0
  BY <1>a, <1>2, FS_EmptySet
<1>4. ASSUME NEW i \in Nat
      PROVE  /\ i + 1 \in P => Upto(i + 1) = Upto(i) \cup {i + 1} /\ i + 1 \notin Upto(i)
             /\ i + 1 \notin P => Upto(i + 1) = Upto(i)
  <2>1. \A x \in P : x <= i + 1 <=> x <= i \/ x = i + 1
    BY <1>a
  <2>2. ~ (i + 1 <= i) /\ i + 1 <= i + 1
    OBVIOUS
  <2>3. i + 1 \in P => Upto(i + 1) = Upto(i) \cup {i + 1}
    BY <1>2, <2>1, <2>2
  <2>4. i + 1 \notin P => Upto(i + 1) = Upto(i)
    BY <1>2, <2>1
  <2> QED BY <1>2, <2>2, <2>3, <2>4
<1>5. n \in Enough /\ 0 \notin Enough
  BY <1>3
<1>6. PICK m \in Enough : \A i \in Enough : m <= i
  BY <1>5, LeastNatural
<1>7. m - 1 \in Nat /\ m - 1 \notin Enough /\ (m - 1) + 1 = m
  BY <1>5, <1>6
<1>8. Cardinality(Upto(m - 1)) < k /\ k <= Cardinality(Upto(m))
  BY <1>1, <1>6, <1>7
<1>9. m \in P
  BY <1>1, <1>4, <1>7, <1>8
<1>10. Cardinality(Upto(m)) = Cardinality(Upto(m - 1)) + 1
  BY <1>1, <1>4, <1>7, <1>9, FS_AddElement
<1>11. Cardinality(Upto(m)) = k
  BY <1>1, <1>7, <1>8, <1>10
<1> QED BY <1>9, <1>11 DEF Upto

\* What is kept of a queue was in it, at one of the places.
LEMMA OnlyKeeps ==
    ASSUME NEW S, NEW s \in Seq(S), NEW P \in SUBSET DOMAIN s
    PROVE  /\ Only(s, P) \in Seq(S) /\ Len(Only(s, P)) = Cardinality(P)
           /\ Cardinality(P) <= Len(s)
           /\ \A k \in DOMAIN Only(s, P) : \E i \in P : Only(s, P)[k] = s[i]
<1>1. Len(s) \in Nat /\ DOMAIN s = 1 .. Len(s) /\ P \in SUBSET (1 .. Len(s))
  OBVIOUS
<1>2. Cardinality(P) \in Nat /\ Cardinality(P) <= Len(s)
  BY <1>1, UptoInterval, FS_Subset, FS_CardinalityType
<1> DEFINE Place(k) == CHOOSE i \in P : Cardinality({j \in P : j <= i}) = k
<1>3. \A k \in 1 .. Cardinality(P) : Place(k) \in P
  BY <1>1, RankedPlace
<1>4. Only(s, P) = [k \in 1 .. Cardinality(P) |-> s[Place(k)]]
  BY DEF Only
<1> HIDE DEF Place
<1>5. Only(s, P) \in [1 .. Cardinality(P) -> S]
  BY <1>1, <1>3, <1>4
<1> QED BY <1>2, <1>3, <1>4, <1>5

\* One of the replies that may be spoken is the most important.
LEMMA BestReply ==
    ASSUME NEW s \in Seq(QueuedReplies), NEW P \in SUBSET DOMAIN s, P # {}
    PROVE  (CHOOSE i \in P : \A j \in P : MoreImportant(s, i, j)) \in P
<1> DEFINE pr(i) == realtimeReplyPriority(s[i].kind)
           Ranks == {5 - pr(i) : i \in P}
<1>1. P \in SUBSET Nat /\ \A i \in P : pr(i) \in 0 .. 5
  BY DEF realtimeReplyPriority
<1>2. \A i, j \in P : MoreImportant(s, i, j) <=> pr(i) > pr(j) \/ (pr(i) = pr(j) /\ i <= j)
  BY DEF MoreImportant
<1> HIDE DEF pr
<1>3. Ranks \in SUBSET Nat /\ Ranks # {} /\ \A j \in P : 5 - pr(j) \in Ranks
  BY <1>1
<1>4. PICK r \in Ranks : \A q \in Ranks : r <= q
  BY <1>3, LeastNatural
<1> DEFINE First == {i \in P : 5 - pr(i) = r}
<1>5. First \in SUBSET Nat /\ First # {}
  BY <1>1, <1>4
<1>6. PICK i \in First : \A j \in First : i <= j
  BY <1>5, LeastNatural
<1>7. ASSUME NEW j \in P PROVE pr(i) > pr(j) \/ (pr(i) = pr(j) /\ i <= j)
  <2>1. r <= 5 - pr(j) /\ r = 5 - pr(i) /\ pr(i) \in 0 .. 5 /\ pr(j) \in 0 .. 5
    BY <1>1, <1>3, <1>4, <1>6
  <2>2. pr(j) = pr(i) => i <= j
    BY <1>6, <2>1
  <2> QED BY <2>1, <2>2
<1> QED BY <1>2, <1>6, <1>7

\* A reply that is queued replaces some of the others.
LEMMA QueuedReply ==
    ASSUME NEW s \in Seq(QueuedReplies), NEW reply \in QueuedReplies
    PROVE  LET q == enqueueRealtimeReply(s, reply) IN
           /\ q \in Seq(QueuedReplies)
           /\ \A k \in DOMAIN q : q[k] = reply \/ \E i \in DOMAIN s : q[k] = s[i]
<1> DEFINE P == {i \in DOMAIN s : ~ ReplySuperseded(s[i], reply)}
<1> SUFFICES ASSUME P \in SUBSET DOMAIN s
             PROVE  LET q == enqueueRealtimeReply(s, reply) IN
                    /\ q \in Seq(QueuedReplies)
                    /\ \A k \in DOMAIN q : q[k] = reply \/ \E i \in DOMAIN s : q[k] = s[i]
  OBVIOUS
<1>2. enqueueRealtimeReply(s, reply) = Append(Only(s, P), reply)
  BY DEF enqueueRealtimeReply
<1> HIDE DEF P
<1>1. Only(s, P) \in Seq(QueuedReplies) /\ \A k \in DOMAIN Only(s, P) : \E i \in P : Only(s, P)[k] = s[i]
  BY OnlyKeeps
<1> DEFINE o == Only(s, P)
<1> HIDE DEF o
<1>3. /\ Append(o, reply) \in Seq(QueuedReplies) /\ Len(Append(o, reply)) = Len(o) + 1
      /\ \A k \in 1 .. Len(o) : Append(o, reply)[k] = o[k]
      /\ Append(o, reply)[Len(o) + 1] = reply
  BY <1>1, AppendProperties DEF o
<1>4. ASSUME NEW k \in DOMAIN Append(o, reply)
      PROVE  Append(o, reply)[k] = reply \/ \E i \in DOMAIN s : Append(o, reply)[k] = s[i]
  BY <1>1, <1>3, <1>4 DEF o
<1> QED BY <1>2, <1>3, <1>4 DEF o

\* What the handlers keep: the state of the goroutine by itself.

LEMMA Limits ==
    /\ ReplyQueueLimit \in Nat \ {0} /\ QueueFrameLimit \in Nat \ {0}
    /\ InputHandoffThreshold \in Nat \ {0} /\ MaxUtterances \in Nat
BY VoiceConstants

LEMMA ClosedIsSound ==
    ASSUME NEW failed \in BOOLEAN, NEW n \in Nat
    PROVE  LET c == ClosedCall(failed) IN
           Sound(c, n) /\ StallFree(c) /\ c.stage = "closed"
<1> DEFINE c == ClosedCall(failed)
<1>1. NoReply \in ActiveReplies
  BY DEF NoReply, ActiveReplies
<1>3. /\ DOMAIN c = CallFields /\ c.stage = "closed" /\ c.mode = "none" /\ c.pending = <<>>
      /\ c.frames = <<>> /\ c.queue = <<>> /\ c.awaiting = {} /\ c.speaking = FALSE
      /\ c.latest = 0 /\ c.generation = 0 /\ c.sent = 0 /\ c.finalized = FALSE
      /\ c.terminal = FALSE /\ c.inFlight = 0 /\ c.active = NoReply /\ c.sequence = 0
  BY DEF ClosedCall, CallFields
<1> HIDE DEF c
<1>4. CallShaped(c, n)
  BY <1>1, <1>3, Limits DEF CallShaped
<1>5. HeardFits(c) /\ TurnsFit(c) /\ PendingFits(c) /\ StallFree(c)
  BY <1>3 DEF HeardFits, TurnsFit, PendingFits, StallFree, Streaming
<1> QED BY <1>3, <1>4, <1>5 DEF Sound, c

(* A handler leads on: it ends the call or keeps the turn under way, and a *)
(* reply it begins is one that is timely.                                  *)
Timely(c) == /\ ~ InputBusy(c)
             /\ c.active.kind = "backend" => c.active.generation = c.latest /\ ~ BackendBusy(c)
LeadsOn(c, r) ==
    /\ r.stage \in {"open", "closed"}
    /\ r.stage = "open" => /\ c.sequence <= r.sequence
                           /\ c.inFlight # 0 => r.inFlight = c.inFlight
                           /\ r.active.id > c.active.id => Timely(r)
                           /\ (Working(c) => Working(r)) /\ (Ended(c) => Ended(r))

LEMMA CloseLeadsOn ==
    ASSUME NEW failed \in BOOLEAN, NEW n \in Nat, NEW c
    PROVE  LET r == closeStream(failed) IN Sound(r, n) /\ StallFree(r) /\ LeadsOn(c, r)
BY ClosedIsSound DEF closeStream, LeadsOn

\* The speech of a reply is requested.
LEMMA BegunKeeps ==
    ASSUME NEW n \in Nat, NEW c, Sound(c, n), c.stage = "open", ~ InputBusy(c),
           NEW kind \in ReplyKinds, NEW g \in Nat,
           kind = "backend" => g = c.latest /\ ~ BackendBusy(c)
    PROVE  LET r == StartReply(c, kind, g) IN
           /\ Sound(r, n) /\ StallFree(r) /\ LeadsOn(c, r) /\ ResponseActive(r)
           /\ r.stage = "open" /\ r.queue = c.queue /\ r.inFlight = c.inFlight
<1> DEFINE r == StartReply(c, kind, g)
           a == [kind |-> kind, generation |-> g, id |-> c.sequence + 1]
<1>1. CallShaped(c, n) /\ c.sequence \in Nat
  BY DEF Sound, CallShaped
<1>2. a \in ActiveReplies /\ a # NoReply /\ a.kind = kind /\ a.generation = g
  BY <1>1 DEF ActiveReplies, NoReply, ReplyKinds
<1>3. /\ DOMAIN r = CallFields /\ r.stage = "open" /\ r.mode = c.mode /\ r.active = a /\ r.sent = 0
      /\ r.frames = <<>> /\ r.pending = c.pending /\ r.speaking = c.speaking
      /\ r.awaiting = c.awaiting /\ r.generation = c.generation /\ r.latest = c.latest
      /\ r.terminal = c.terminal /\ r.queue = c.queue /\ r.inFlight = c.inFlight
      /\ r.finalized = c.finalized /\ r.sequence = c.sequence + 1
  BY <1>1 DEF StartReply, CallShaped, CallFields, ClosedCall
<1> HIDE DEF a, r
<1>4. CallShaped(r, n)
  BY <1>1, <1>2, <1>3, Limits DEF CallShaped
<1>7. HeardFits(r)
  BY <1>2, <1>3 DEF HeardFits, InputBusy, CallShaped
<1>8. TurnsFit(r) /\ PendingFits(r)
  BY <1>3 DEF Sound, TurnsFit, PendingFits
<1>9. ResponseActive(r) /\ StallFree(r)
  BY <1>2, <1>3 DEF StallFree, ResponseActive
<1>10. LeadsOn(c, r)
  BY <1>1, <1>2, <1>3 DEF LeadsOn, Timely, InputBusy, BackendBusy, Working, Ended
<1> QED BY <1>3, <1>4, <1>7, <1>8, <1>9, <1>10 DEF Sound, r

(* A reply waits while another is spoken or the caller is heard, and an    *)
(* apology also while a turn is worked on.                                 *)
LEMMA QueueKeeps ==
    ASSUME NEW n \in Nat, NEW c, Sound(c, n), c.stage = "open", NEW reply \in QueuedReplies,
           reply.kind = "backend" => reply.generation = c.latest,
           Len(enqueueRealtimeReply(c.pending, reply)) <= ReplyQueueLimit,
           \/ ResponseActive(c) \/ InputBusy(c) \/ (BackendBusy(c) /\ ~ c.terminal)
    PROVE  LET r == [c EXCEPT !.pending = enqueueRealtimeReply(c.pending, reply)] IN
           Sound(r, n) /\ StallFree(r) /\ LeadsOn(c, r)
<1> DEFINE q == enqueueRealtimeReply(c.pending, reply)
           r == [c EXCEPT !.pending = q]
<1>1. CallShaped(c, n)
  BY DEF Sound
<1>2. c.pending \in Seq(QueuedReplies)
  BY <1>1 DEF CallShaped
<1>3. q \in Seq(QueuedReplies) /\ \A k \in DOMAIN q : q[k] = reply \/ \E i \in DOMAIN c.pending : q[k] = c.pending[i]
  BY <1>2, QueuedReply
<1> HIDE DEF q
<1>4. /\ DOMAIN r = CallFields /\ r.stage = "open" /\ r.mode = c.mode /\ r.active = c.active
      /\ r.sent = c.sent /\ r.interrupted = c.interrupted /\ r.pending = q
      /\ r.speaking = c.speaking /\ r.awaiting = c.awaiting /\ r.generation = c.generation
      /\ r.latest = c.latest /\ r.terminal = c.terminal /\ r.queue = c.queue
      /\ r.inFlight = c.inFlight /\ r.sequence = c.sequence /\ r.frames = c.frames
      /\ r.finalized = c.finalized
  BY <1>1 DEF CallShaped, CallFields, ClosedCall
<1> HIDE DEF r
<1>5. CallShaped(r, n)
  BY <1>1, <1>3, <1>4 DEF CallShaped, q
<1>6. HeardFits(r) /\ TurnsFit(r)
  BY <1>4 DEF Sound, HeardFits, TurnsFit, Streaming, ResponseActive, InputBusy
<1>7. PendingFits(r)
  <2>1. PendingFits(c)
    BY DEF Sound
  <2>2. ASSUME NEW k \in DOMAIN q, q[k].kind = "backend" PROVE q[k].generation <= c.latest
    <3>1. CASE q[k] = reply
      BY <1>1, <2>2, <3>1 DEF CallShaped
    <3>2. CASE q[k] # reply
      BY <1>3, <2>1, <2>2, <3>2 DEF PendingFits
    <3> QED BY <3>1, <3>2
  <2> QED BY <1>4, <2>2 DEF PendingFits
<1>8. StallFree(r)
  BY <1>4 DEF StallFree, ResponseActive, InputBusy, BackendBusy
<1>9. LeadsOn(c, r)
  BY <1>1, <1>4 DEF LeadsOn, Working, Ended, CallShaped, ActiveReplies
<1> QED BY <1>5, <1>6, <1>7, <1>8, <1>9 DEF Sound, r, q

LEMMA SpeakKeeps ==
    ASSUME NEW n \in Nat, NEW c, Sound(c, n), c.stage = "open", NEW kind \in ReplyKinds, NEW g \in Nat,
           kind = "backend" => g = c.latest /\ ~ BackendBusy(c),
           kind = "recovery" => ~ c.terminal
    PROVE  LET r == speakReply(c, kind, g) IN
           /\ Sound(r, n) /\ StallFree(r) /\ LeadsOn(c, r)
           /\ kind = "terminal" => Ended(r)
<1> DEFINE reply == [kind |-> kind, generation |-> g, id |-> 0]
           b == IF kind = "terminal"
                THEN [c EXCEPT !.terminal = TRUE, !.queue = <<>>, !.pending = <<>>] ELSE c
           q == enqueueRealtimeReply(b.pending, reply)
<1>1. reply \in QueuedReplies /\ reply.kind = kind /\ reply.generation = g
  BY DEF QueuedReplies
<1>2. CallShaped(c, n)
  BY DEF Sound
<1>3. /\ Sound(b, n) /\ b.stage = "open" /\ b.active = c.active /\ b.inFlight = c.inFlight
      /\ b.sequence = c.sequence /\ b.speaking = c.speaking /\ b.awaiting = c.awaiting
      /\ b.latest = c.latest /\ (kind # "terminal" => b = c) /\ (b.queue = c.queue \/ b.queue = <<>>)
      /\ (Ended(c) => Ended(b)) /\ (kind = "terminal" => Ended(b))
  BY <1>2, Limits DEF CallShaped, CallFields, ClosedCall, Sound, HeardFits, TurnsFit,
     PendingFits, Streaming, ResponseActive, InputBusy, Ended
<1>4. speakReply(c, kind, g) =
        IF ResponseActive(b) \/ InputBusy(b) \/ (kind = "recovery" /\ BackendBusy(b))
        THEN IF Len(q) > ReplyQueueLimit THEN closeStream(TRUE) ELSE [b EXCEPT !.pending = q]
        ELSE StartReply(b, kind, g)
  BY DEF speakReply
<1> HIDE DEF b, reply
<1> DEFINE r == speakReply(c, kind, g)
<1>5. /\ ResponseActive(b) <=> ResponseActive(c)
      /\ InputBusy(b) <=> InputBusy(c)
      /\ kind = "recovery" => (BackendBusy(b) <=> BackendBusy(c))
      /\ kind = "backend" => ~ BackendBusy(b)
  BY <1>3 DEF ResponseActive, InputBusy, BackendBusy
<1>6. Sound(r, n) /\ StallFree(r) /\ LeadsOn(b, r)
  <2>1. CASE ~ (ResponseActive(b) \/ InputBusy(b) \/ (kind = "recovery" /\ BackendBusy(b)))
    BY <1>3, <1>4, <1>5, <2>1, BegunKeeps
  <2>2. CASE /\ ResponseActive(b) \/ InputBusy(b) \/ (kind = "recovery" /\ BackendBusy(b))
             /\ Len(q) > ReplyQueueLimit
    BY <1>4, <2>2, CloseLeadsOn
  <2>3. CASE /\ ResponseActive(b) \/ InputBusy(b) \/ (kind = "recovery" /\ BackendBusy(b))
             /\ ~ (Len(q) > ReplyQueueLimit)
    <3>1. r = [b EXCEPT !.pending = q]
      BY <1>4, <2>3
    <3>2. b.pending \in Seq(QueuedReplies)
      BY <1>3 DEF Sound, CallShaped
    <3>3. Len(q) <= ReplyQueueLimit
      BY <1>1, <2>3, <3>2, QueuedReply, Limits
    <3> HIDE DEF r
    <3> QED BY <1>1, <1>3, <2>3, <3>1, <3>3, QueueKeeps
  <2> QED BY <2>1, <2>2, <2>3
<1>7. LeadsOn(c, r)
  BY <1>3, <1>6 DEF LeadsOn, Working
<1>8. kind = "terminal" => Ended(r)
  BY <1>3, <1>6 DEF LeadsOn, Ended
<1> QED BY <1>6, <1>7, <1>8

\* The next turn is taken from the queue: the same reply, the same input.
LEMMA NextTurnKeeps ==
    ASSUME NEW n \in Nat, NEW c, Sound(c, n), StallFree(c), NEW o, LeadsOn(o, c)
    PROVE  LET r == startNextTurn(c) IN
           /\ Sound(r, n) /\ StallFree(r) /\ LeadsOn(o, r) /\ Working(r)
           /\ (r.stage = "open" => (c.queue # <<>> => BackendBusy(r)))
<1>1. CallShaped(c, n)
  BY DEF Sound
<1>2. CASE c.stage = "closed" \/ c.inFlight # 0 \/ c.queue = <<>>
  BY <1>2 DEF startNextTurn, Working, BackendBusy
<1>3. CASE ~ (c.stage = "closed" \/ c.inFlight # 0 \/ c.queue = <<>>)
  <2> DEFINE h == Head(c.queue)
             t == Tail(c.queue)
             r == [c EXCEPT !.inFlight = h, !.queue = t, !.progressTimer = TRUE]
  <2>1. startNextTurn(c) = r
    BY <1>3 DEF startNextTurn
  <2>2. c.queue \in Seq(Nat) /\ c.queue # <<>> /\ c.inFlight = 0
    BY <1>1, <1>3 DEF CallShaped
  <2>3. /\ t \in Seq(Nat) /\ h = c.queue[1] /\ h \in Nat /\ Len(t) = Len(c.queue) - 1
        /\ 1 \in DOMAIN c.queue
        /\ \A i \in DOMAIN t : i + 1 \in DOMAIN c.queue /\ t[i] = c.queue[i + 1]
    BY <2>2
  <2> HIDE DEF h, t
  <2>4. /\ DOMAIN r = CallFields /\ r.stage = c.stage /\ r.mode = c.mode /\ r.active = c.active
        /\ r.sent = c.sent /\ r.interrupted = c.interrupted /\ r.pending = c.pending
        /\ r.speaking = c.speaking /\ r.awaiting = c.awaiting /\ r.generation = c.generation
        /\ r.latest = c.latest /\ r.terminal = c.terminal /\ r.queue = t
        /\ r.inFlight = h /\ r.sequence = c.sequence /\ r.frames = c.frames
        /\ r.finalized = c.finalized
    BY <1>1 DEF CallShaped, CallFields, ClosedCall
  <2> HIDE DEF r
  <2>5. CallShaped(r, n)
    BY <1>1, <2>3, <2>4 DEF CallShaped
  <2>6. /\ ~ c.terminal /\ c.queue[Len(c.queue)] = c.latest
        /\ \A i \in DOMAIN c.queue : 0 < c.queue[i] /\ c.queue[i] <= c.latest
        /\ \A i, j \in DOMAIN c.queue : i < j => c.queue[i] < c.queue[j]
    BY <2>2 DEF Sound, TurnsFit
  <2>7. h # 0 /\ h <= c.latest /\ ~ c.terminal
    BY <2>3, <2>6
  <2>8. TurnsFit(r)
    <3>1. ASSUME NEW i \in DOMAIN t
          PROVE  h < t[i] /\ t[i] <= c.latest
      <4>1. i \in Nat /\ 1 < i + 1
        BY <2>3
      <4> QED BY <4>1, <2>3, <2>6
    <3>2. ASSUME NEW i \in DOMAIN t, NEW j \in DOMAIN t, i < j
          PROVE  t[i] < t[j]
      <4>1. i \in Nat /\ j \in Nat
        <5>1. DOMAIN t = 1 .. Len(t)
          BY <2>3
        <5> QED BY <5>1
      <4>2. i + 1 < j + 1
        BY <3>2, <4>1
      <4> QED BY <4>2, <2>3, <2>6
    <3>3. t # <<>> => t[Len(t)] = c.latest
      BY <2>2, <2>3, <2>6
    <3>4. t = <<>> => h = c.latest
      BY <2>2, <2>3, <2>6
    <3>6. r.terminal => r.queue = <<>>
      BY <2>4, <2>7
    <3>8. r.inFlight # 0 /\ r.inFlight < r.latest /\ ~ r.terminal => r.queue # <<>>
      BY <1>1, <2>3, <2>4, <3>4 DEF CallShaped
    <3> QED BY <2>4, <2>7, <3>1, <3>2, <3>3, <3>6, <3>8 DEF TurnsFit
  <2>9. HeardFits(r) /\ PendingFits(r)
    BY <2>4 DEF Sound, HeardFits, PendingFits, Streaming, ResponseActive, InputBusy
  <2>10. StallFree(r) /\ BackendBusy(r) /\ Working(r)
    BY <2>4, <2>7 DEF StallFree, BackendBusy, Working
  <2>11. LeadsOn(o, r)
    BY <2>2, <2>4, <2>10 DEF LeadsOn, Timely, InputBusy, BackendBusy, Working, Ended
  <2> QED BY <2>1, <2>5, <2>8, <2>9, <2>10, <2>11 DEF Sound
<1> QED BY <1>2, <1>3

(* Only the speech of the reply changes, and what the invariants do not    *)
(* read.                                                                   *)
SpokenCall(c, r) ==
    /\ DOMAIN r = CallFields /\ r.stage = c.stage /\ r.mode = c.mode /\ r.active = c.active
    /\ r.pending = c.pending /\ r.speaking = c.speaking /\ r.awaiting = c.awaiting
    /\ r.generation = c.generation /\ r.latest = c.latest /\ r.terminal = c.terminal
    /\ r.queue = c.queue /\ r.inFlight = c.inFlight /\ r.sequence = c.sequence
    /\ r.finalized = c.finalized
    /\ r.frames \in Seq(Nat) /\ Len(r.frames) <= QueueFrameLimit
    /\ \A i \in DOMAIN r.frames : r.frames[i] = c.active.id
    /\ r.sent \in {0, c.active.id} /\ (c.interrupted => r.interrupted)

LEMMA SpokenKeeps ==
    ASSUME NEW n \in Nat, NEW c, NEW r, SpokenCall(c, r), Sound(c, n)
    PROVE  /\ Sound(r, n) /\ (StallFree(c) => StallFree(r))
           /\ \A o : LeadsOn(o, c) => LeadsOn(o, r)
           /\ c.stage = "open" => LeadsOn(c, r)
<1>1. CallShaped(r, n)
  BY DEF Sound, CallShaped, SpokenCall
<1>2. HeardFits(r) /\ TurnsFit(r) /\ PendingFits(r)
  BY DEF SpokenCall, Sound, HeardFits, TurnsFit, PendingFits, Streaming, ResponseActive, InputBusy
<1>3. StallFree(c) => StallFree(r)
  BY DEF SpokenCall, StallFree, ResponseActive, InputBusy, BackendBusy, Outdated, Speakable
<1>4. ASSUME NEW o, LeadsOn(o, c) PROVE LeadsOn(o, r)
  BY <1>4 DEF SpokenCall, LeadsOn, Timely, InputBusy, BackendBusy, Working, Ended
<1>5. c.stage = "open" => LeadsOn(c, r)
  BY DEF SpokenCall, LeadsOn, Working, Ended, Sound, CallShaped, ActiveReplies
<1> QED BY <1>1, <1>2, <1>3, <1>4, <1>5 DEF Sound

LEMMA ItselfSpoken ==
    ASSUME NEW n \in Nat, NEW c, Sound(c, n)
    PROVE  SpokenCall(c, c)
BY DEF Sound, CallShaped, HeardFits, SpokenCall

\* What waited and is not out of date is spoken, the most important first.
LEMMA FlushKeeps ==
    ASSUME NEW n \in Nat, NEW c, Sound(c, n), c.stage = "open"
    PROVE  LET r == flushPendingReply(c) IN Sound(r, n) /\ StallFree(r) /\ LeadsOn(c, r)
<1> DEFINE p == c.pending
           kept == {i \in DOMAIN p : ~ Outdated(c, p[i])}
           ready == {i \in kept : Speakable(c, p[i])}
           best == CHOOSE i \in ready : \A j \in ready : MoreImportant(p, i, j)
           w(P) == [c EXCEPT !.pending = Only(p, P)]
           r == flushPendingReply(c)
<1>1. CallShaped(c, n) /\ PendingFits(c) /\ p \in Seq(QueuedReplies)
  BY DEF Sound, CallShaped
<1>2. kept \in SUBSET DOMAIN p /\ ready \in SUBSET kept /\ ready \in SUBSET DOMAIN p
  OBVIOUS
<1>3. ASSUME NEW P \in SUBSET DOMAIN p
      PROVE  /\ w(P).stage = "open" /\ Sound(w(P), n) /\ LeadsOn(c, w(P))
             /\ w(P).active = c.active /\ w(P).speaking = c.speaking /\ w(P).awaiting = c.awaiting
             /\ w(P).latest = c.latest /\ w(P).queue = c.queue /\ w(P).inFlight = c.inFlight
             /\ w(P).terminal = c.terminal /\ w(P).pending = Only(p, P)
             /\ w(P).sequence = c.sequence /\ w(P).finalized = c.finalized
  <2> DEFINE q == Only(p, P)
             u == w(P)
  <2>1. q \in Seq(QueuedReplies) /\ Len(q) <= Len(p) /\ \A k \in DOMAIN q : \E i \in P : q[k] = p[i]
    BY <1>1, OnlyKeeps
  <2> HIDE DEF q
  <2>2. /\ DOMAIN u = CallFields /\ u.stage = "open" /\ u.mode = c.mode /\ u.active = c.active
        /\ u.sent = c.sent /\ u.interrupted = c.interrupted /\ u.pending = q
        /\ u.speaking = c.speaking /\ u.awaiting = c.awaiting /\ u.generation = c.generation
        /\ u.latest = c.latest /\ u.terminal = c.terminal /\ u.queue = c.queue
        /\ u.inFlight = c.inFlight /\ u.sequence = c.sequence /\ u.frames = c.frames
        /\ u.finalized = c.finalized
    BY <1>1 DEF CallShaped, CallFields, ClosedCall, q
  <2> HIDE DEF u
  <2>3. CallShaped(u, n)
    BY <1>1, <2>1, <2>2, Limits DEF CallShaped
  <2>4. HeardFits(u) /\ TurnsFit(u)
    BY <2>2 DEF Sound, HeardFits, TurnsFit, Streaming, ResponseActive, InputBusy
  <2>5. PendingFits(u)
    BY <1>1, <2>1, <2>2 DEF PendingFits
  <2>6. LeadsOn(c, u)
    BY <1>1, <2>2 DEF LeadsOn, Working, Ended, CallShaped, ActiveReplies
  <2> QED BY <2>2, <2>3, <2>4, <2>5, <2>6 DEF Sound, u, q
<1>4. r = IF c.stage = "closed" \/ ResponseActive(c) \/ InputBusy(c) \/ p = <<>> THEN c
          ELSE IF ready = {} THEN w(kept)
          ELSE speakReply(w(kept \ {best}), p[best].kind, p[best].generation)
  BY DEF flushPendingReply
<1>5. CASE ResponseActive(c) \/ InputBusy(c) \/ p = <<>>
  <2>1. r = c
    BY <1>4, <1>5
  <2>2. StallFree(c)
    BY <1>5 DEF StallFree
  <2>3. LeadsOn(c, c)
    BY <1>1 DEF LeadsOn, CallShaped, ActiveReplies
  <2> HIDE DEF r
  <2> QED BY <2>1, <2>2, <2>3 DEF r
<1>6. CASE ~ (ResponseActive(c) \/ InputBusy(c) \/ p = <<>>) /\ ready = {}
  <2>1. r = w(kept)
    BY <1>4, <1>6
  <2> DEFINE u == w(kept)
  <2>2. /\ u.terminal = c.terminal /\ u.queue = c.queue /\ u.inFlight = c.inFlight
        /\ Sound(u, n) /\ LeadsOn(c, u) /\ u.pending = Only(p, kept)
    BY <1>2, <1>3
  <2>3. \A k \in DOMAIN Only(p, kept) : \E i \in kept : Only(p, kept)[k] = p[i]
    <3> HIDE DEF kept, p
    <3> QED BY <1>1, <1>2, OnlyKeeps
  <2>4. \A i \in kept : ~ Speakable(c, p[i])
    BY <1>6
  <2> HIDE DEF kept, ready, u, r
  <2>5. StallFree(u)
    BY <2>2, <2>3, <2>4 DEF StallFree, Speakable, BackendBusy
  <2> QED BY <2>1, <2>2, <2>5 DEF u, r
<1>7. CASE ~ (ResponseActive(c) \/ InputBusy(c) \/ p = <<>>) /\ ready # {}
  <2> DEFINE u == w(kept \ {best})
  <2>1. r = speakReply(u, p[best].kind, p[best].generation)
    BY <1>4, <1>7
  <2>2. best \in ready
    BY <1>1, <1>2, <1>7, BestReply
  <2>3. /\ u.stage = "open" /\ Sound(u, n) /\ u.terminal = c.terminal /\ u.queue = c.queue
        /\ u.inFlight = c.inFlight /\ u.latest = c.latest /\ u.active = c.active
        /\ u.sequence = c.sequence /\ u.finalized = c.finalized
    BY <1>2, <1>3
  <2> HIDE DEF best, u, r
  <2>4. /\ p[best] \in QueuedReplies /\ ~ Outdated(c, p[best]) /\ Speakable(c, p[best])
        /\ p[best].kind = "backend" => p[best].generation <= c.latest
    BY <1>1, <2>2 DEF PendingFits
  <2>5. p[best].kind \in ReplyKinds /\ p[best].generation \in Nat /\ c.latest \in Nat
    BY <1>1, <2>4 DEF QueuedReplies, CallShaped
  <2>6. p[best].kind = "backend" => p[best].generation = u.latest /\ ~ BackendBusy(u)
    BY <2>3, <2>4, <2>5 DEF Outdated, Speakable, BackendBusy
  <2>7. p[best].kind = "recovery" => ~ u.terminal
    BY <2>3, <2>4 DEF Speakable
  <2>8. Sound(r, n) /\ StallFree(r) /\ LeadsOn(u, r)
    BY <2>1, <2>3, <2>5, <2>6, <2>7, SpeakKeeps
  <2>9. LeadsOn(c, r)
    BY <2>3, <2>8 DEF LeadsOn, Working, Ended
  <2> QED BY <2>8, <2>9 DEF r
<1> QED BY <1>5, <1>6, <1>7

\* A reply is over: the next one, or the end of the call.
LEMMA AnswerKeeps ==
    ASSUME NEW n \in Nat, NEW c, Sound(c, n), c.stage = "open"
    PROVE  LET r == completeReply(c) IN Sound(r, n) /\ StallFree(r) /\ LeadsOn(c, r)
<1> DEFINE d == [c EXCEPT !.active = NoReply, !.sent = 0, !.interrupted = FALSE,
                          !.identified = FALSE, !.buffered = FALSE, !.spoken = "none",
                          !.frames = <<>>, !.startup = 0, !.firstByteTimer = FALSE,
                          !.providerDone = FALSE, !.ticker = FALSE]
           e == flushPendingReply(d)
           r == completeReply(c)
<1>1. CallShaped(c, n)
  BY DEF Sound
<1>2. /\ DOMAIN d = CallFields /\ d.stage = "open" /\ d.mode = c.mode /\ d.active = NoReply
      /\ d.sent = 0 /\ d.pending = c.pending
      /\ d.speaking = c.speaking /\ d.awaiting = c.awaiting /\ d.generation = c.generation
      /\ d.latest = c.latest /\ d.terminal = c.terminal /\ d.queue = c.queue
      /\ d.inFlight = c.inFlight /\ d.sequence = c.sequence /\ d.frames = <<>>
      /\ d.finalized = c.finalized
  BY <1>1 DEF CallShaped, CallFields, ClosedCall
<1>3. r = e \/ r = beginTerminalCloseDrain(e, c.sent)
  BY DEF completeReply
<1> HIDE DEF d
<1>4. NoReply \in ActiveReplies /\ NoReply.id = 0 /\ NoReply.kind = "none"
  BY DEF NoReply, ActiveReplies
<1>5. CallShaped(d, n)
  BY <1>1, <1>2, <1>4, Limits DEF CallShaped
<1>6. HeardFits(d) /\ TurnsFit(d) /\ PendingFits(d)
  BY <1>2, <1>4 DEF Sound, HeardFits, TurnsFit, PendingFits, ResponseActive
<1>7. Sound(e, n) /\ StallFree(e) /\ LeadsOn(d, e)
  BY <1>2, <1>5, <1>6, FlushKeeps DEF Sound
<1> HIDE DEF e
<1>8. LeadsOn(c, e)
  BY <1>1, <1>2, <1>4, <1>7 DEF CallShaped, ActiveReplies, Sound, LeadsOn, Working, Ended
<1>9. CASE r = e
  <2> HIDE DEF r
  <2> QED BY <1>7, <1>8, <1>9 DEF r
<1>10. CASE r = closeStream(FALSE)
  <2> HIDE DEF r
  <2> QED BY <1>10, CloseLeadsOn DEF r
<1>11. CASE r = [e EXCEPT !.marksSent = @ + 1, !.mark = e.marksSent + 1]
  <2>1. CallShaped(e, n)
    BY <1>7 DEF Sound
  <2> HIDE DEF r
  <2>2. SpokenCall(e, e)
    BY <1>7, ItselfSpoken
  <2>3. SpokenCall(e, r)
    BY <1>11, <2>1, <2>2 DEF CallShaped, SpokenCall, CallFields, ClosedCall
  <2> QED BY <1>7, <1>8, <2>3, SpokenKeeps DEF r
<1> QED BY <1>3, <1>9, <1>10, <1>11 DEF beginTerminalCloseDrain

-----------------------------------------------------------------------------
\* Every step keeps the invariant, and begins only what is timely.
BeganTimely == call'.stage = "open" /\ call'.active.id > call.active.id => Timely(call')
VoiceStep == VoiceInv' /\ BeganTimely

LEMMA StreamStepKeeps ==
    ASSUME VoiceInv, call.stage # "closed", said' \in Nat, NEW r, call' = r,
           Sound(r, said'), StallFree(r), Working(r), Ended(r),
           NEW o, LeadsOn(o, r), o.sequence = call.sequence, o.active = call.active,
           \/ turnResults' = <<>>
           \/ call.stage = "open" /\ turnResults' = turnResults /\ o.inFlight = call.inFlight,
           producing' \subseteq producing \cup (call.sequence + 1 .. r.sequence)
    PROVE  VoiceStep
<1>1. BeganTimely
  BY DEF LeadsOn, BeganTimely
<1>2. r.stage \in {"open", "closed"}
  BY DEF LeadsOn
<1>3. producing' \subseteq 1 .. r.sequence \/ r.stage = "closed"
  <2>1. call.sequence \in Nat /\ r.sequence \in Nat
    BY DEF VoiceInv, Sound, CallShaped
  <2>2. r.stage = "open" => call.sequence <= r.sequence
    BY DEF LeadsOn
  <2> QED BY <1>2, <2>1, <2>2 DEF VoiceInv
<1>4. /\ turnResults' \in Seq([generation : Nat, outcome : TurnOutcomes])
      /\ turnResults' # <<>> =>
           /\ Tail(turnResults') = <<>>
           /\ r.stage = "open" => r.inFlight # 0 /\ Head(turnResults').generation = r.inFlight
  <2>1. CASE turnResults' = <<>>
    BY <2>1
  <2>2. CASE call.stage = "open" /\ turnResults' = turnResults /\ o.inFlight = call.inFlight
    BY <2>2 DEF LeadsOn, VoiceInv
  <2> QED BY <2>1, <2>2
<1> QED BY <1>1, <1>2, <1>3, <1>4 DEF VoiceInv, VoiceStep

LEMMA OpenStep ==
    ASSUME VoiceInv, call.stage = "open", said' = said, turnResults' = turnResults,
           NEW r, call' = r, Sound(r, said), StallFree(r), NEW o, LeadsOn(o, r),
           o.sequence = call.sequence, o.active = call.active, o.inFlight = call.inFlight,
           o.stage = "open", o.queue = call.queue, Ended(o) \/ Ended(r),
           producing' \subseteq producing \cup (call.sequence + 1 .. r.sequence)
    PROVE  VoiceStep
<1>1. Working(o)
  BY DEF VoiceInv, Working
<1>2. Working(r) /\ Ended(r)
  BY <1>1 DEF LeadsOn, Working, Ended
<1>3. said' \in Nat
  BY DEF VoiceInv
<1> QED BY <1>2, <1>3, StreamStepKeeps

\* The speech goes on, or the reply is over, or the call.
LEMMA SpeechStep ==
    ASSUME VoiceInv, call.stage = "open", said' = said, turnResults' = turnResults,
           NEW x, SpokenCall(call, x), NEW r, call' = r,
           r \in {x, completeReply(x), closeStream(TRUE), closeStream(FALSE)},
           producing' \subseteq producing \cup (call.sequence + 1 .. r.sequence)
    PROVE  VoiceStep
<1>1. said \in Nat /\ Sound(call, said) /\ StallFree(call)
  BY DEF VoiceInv
<1>2. /\ x.sequence = call.sequence /\ x.active = call.active /\ x.inFlight = call.inFlight
      /\ x.stage = "open" /\ x.queue = call.queue /\ Ended(x)
  BY DEF SpokenCall, VoiceInv, Ended
<1>3. Sound(x, said) /\ StallFree(x) /\ LeadsOn(x, x)
  BY <1>1, <1>2, SpokenKeeps, ItselfSpoken
<1>4. Sound(r, said) /\ StallFree(r) /\ LeadsOn(x, r)
  BY <1>1, <1>2, <1>3, AnswerKeeps, CloseLeadsOn
<1> QED BY <1>2, <1>4, OpenStep

LEMMA BridgeSpeaks ==
    ASSUME VoiceInv, call.stage = "open", said' = said, turnResults' = turnResults,
           NEW x, SpokenCall(call, x), NEW r, Bridge(r),
           r \in {x, completeReply(x), closeStream(TRUE), closeStream(FALSE)}
    PROVE  VoiceStep
BY SpeechStep DEF Bridge

LEMMA CallSpoken ==
    ASSUME VoiceInv
    PROVE  CallShaped(call, said) /\ SpokenCall(call, call) /\ said \in Nat
BY ItselfSpoken DEF VoiceInv, Sound

LEMMA StreamKeeps ==
    ASSUME VoiceInv, NEW mode \in OutputModes, Stream(mode) PROVE VoiceStep
<1> DEFINE o == [call EXCEPT !.stage = "open", !.mode = mode]
           r == speakReply(o, "initial", 0)
<1>1. CallShaped(call, said) /\ said \in Nat /\ Sound(call, said) /\ ConnectingCall
      /\ turnResults = <<>>
  BY CallSpoken DEF VoiceInv, Stream
<1>2. /\ DOMAIN o = CallFields /\ o.stage = "open" /\ o.active = call.active
      /\ o.sent = call.sent /\ o.pending = call.pending /\ o.speaking = call.speaking
      /\ o.awaiting = call.awaiting /\ o.generation = call.generation /\ o.latest = call.latest
      /\ o.terminal = call.terminal /\ o.queue = call.queue /\ o.inFlight = call.inFlight
      /\ o.sequence = call.sequence /\ o.frames = call.frames /\ o.finalized = call.finalized
  BY <1>1 DEF CallShaped, CallFields, ClosedCall
<1> HIDE DEF o
<1>3. CallShaped(o, said) /\ HeardFits(o) /\ TurnsFit(o) /\ PendingFits(o)
  BY <1>1, <1>2 DEF Sound, CallShaped, HeardFits, TurnsFit, PendingFits, ResponseActive,
       NoReply, ConnectingCall
<1>4. Sound(r, said) /\ StallFree(r) /\ LeadsOn(o, r)
  BY <1>1, <1>2, <1>3, SpeakKeeps DEF Sound, ReplyKinds
<1>5. Working(o) /\ Ended(o)
  BY <1>1, <1>2 DEF ConnectingCall, Working, Ended
<1>6. Working(r) /\ Ended(r)
  BY <1>4, <1>5 DEF LeadsOn, Working, Ended
<1>7. /\ call' = r /\ call.stage = "connecting" /\ said' = said /\ turnResults' = turnResults
      /\ producing' = producing \cup (call.sequence + 1 .. r.sequence)
  BY DEF Stream, Bridge, o
<1> HIDE DEF r
<1> QED BY <1>1, <1>2, <1>4, <1>6, <1>7, StreamStepKeeps

LEMMA RefusedKeeps == ASSUME VoiceInv, StreamRefused PROVE VoiceStep
<1> DEFINE r == closeStream(TRUE)
<1>1. said \in Nat /\ turnResults = <<>> /\ call.stage = "connecting"
  BY DEF VoiceInv, StreamRefused
<1>2. /\ call' = r /\ said' = said /\ turnResults' = turnResults
      /\ producing' = producing \cup (call.sequence + 1 .. r.sequence)
  BY DEF StreamRefused, Bridge
<1>3. Sound(r, said) /\ StallFree(r) /\ LeadsOn(call, r) /\ r.stage = "closed"
  BY <1>1, CloseLeadsOn DEF closeStream, ClosedCall
<1>4. Working(r) /\ Ended(r)
  BY <1>3 DEF Working, Ended
<1> HIDE DEF r
<1> QED BY <1>1, <1>2, <1>3, <1>4, StreamStepKeeps

LEMMA StopsKeep == ASSUME VoiceInv, StreamStops \/ TwilioWriteFails \/ CloseDrainTimeout PROVE VoiceStep
<1>1. PICK failed \in BOOLEAN : Bridge(closeStream(failed))
  BY DEF StreamStops, TwilioWriteFails, CloseDrainTimeout
<1>2. call.stage = "open" /\ said' = said /\ turnResults' = turnResults
  BY DEF StreamStops, TwilioWriteFails, CloseDrainTimeout
<1> QED BY <1>1, <1>2, CallSpoken, BridgeSpeaks

LEMMA PlayedKeeps == ASSUME VoiceInv, NEW m \in marks, MarkReturned(m) PROVE VoiceStep
<1>1. call' = closeStream(FALSE) \/ call' = call
  BY DEF MarkReturned
<1>2. call.stage = "open" /\ said' = said /\ turnResults' = turnResults /\ producing' = producing
  BY DEF MarkReturned
<1> QED BY <1>1, <1>2, CallSpoken, SpeechStep

LEMMA ProduceKeeps ==
    ASSUME VoiceInv, NEW id \in producing, NEW what, Produce(id, what) PROVE VoiceStep
<1>1. call.stage = "open" /\ said' = said /\ turnResults' = turnResults /\ call' = call
      /\ producing' \subseteq producing
  BY DEF Produce
<1> QED BY <1>1, CallSpoken, SpeechStep

LEMMA TurnCompletesKeeps ==
    ASSUME VoiceInv, NEW outcome \in TurnOutcomes, TurnCompletes(outcome) PROVE VoiceStep
<1> DEFINE result == [generation |-> call.inFlight, outcome |-> outcome]
<1>1. call.inFlight \in Nat
  BY CallSpoken DEF CallShaped
<1>2. turnResults' = <<result>> /\ result \in [generation : Nat, outcome : TurnOutcomes]
      /\ result.generation = call.inFlight /\ call.inFlight # 0 /\ call' = call /\ said' = said
      /\ producing' = producing
  BY <1>1 DEF TurnCompletes
<1> HIDE DEF result
<1>3. turnResults' \in Seq([generation : Nat, outcome : TurnOutcomes]) /\ Tail(turnResults') = <<>>
      /\ Head(turnResults') = result
  BY <1>2
<1> QED BY <1>2, <1>3 DEF VoiceStep, VoiceInv, BeganTimely, TurnCompletes, CallShaped, Sound, ActiveReplies

\* What is done with the speech of the active reply.
LEMMA CancelSpoken ==
    ASSUME NEW n \in Nat, NEW c, Sound(c, n)
    PROVE  SpokenCall(c, cancelSpeech(c)) /\ (cancelSpeech(c)).interrupted = TRUE
BY Limits DEF Sound, CallShaped, HeardFits, cancelSpeech, SpokenCall, CallFields, ClosedCall

LEMMA FieldsSpoken ==
    ASSUME VoiceInv, NEW b, NEW s, NEW t
    PROVE  /\ SpokenCall(call, [call EXCEPT !.providerDone = b])
           /\ SpokenCall(call, [call EXCEPT !.identified = b])
           /\ SpokenCall(call, [call EXCEPT !.buffered = b])
           /\ SpokenCall(call, [call EXCEPT !.spoken = b])
           /\ SpokenCall(call, [call EXCEPT !.progressTimer = b])
           /\ SpokenCall(call, [[call EXCEPT !.progressTimer = b] EXCEPT !.progressSpoken = s])
           /\ SpokenCall(call, [call EXCEPT !.sent = call.active.id, !.played = b])
BY CallSpoken DEF CallShaped, SpokenCall, CallFields, ClosedCall

LEMMA AddFrameSpoken ==
    ASSUME VoiceInv, Len(call.frames) < QueueFrameLimit
    PROVE  SpokenCall(call, AddFrame(call, call.active.id))
<1> DEFINE id == call.active.id
           q == Append(call.frames, id)
<1>1. CallShaped(call, said) /\ SpokenCall(call, call) /\ id \in Nat /\ call.frames \in Seq(Nat)
      /\ \A i \in DOMAIN call.frames : call.frames[i] = id
  BY CallSpoken DEF CallShaped, ActiveReplies, SpokenCall
<1>2. q \in Seq(Nat) /\ Len(q) <= QueueFrameLimit /\ \A i \in DOMAIN q : q[i] = id
  BY <1>1, Limits
<1> HIDE DEF q
<1>3. AddFrame(call, id) \in {[call EXCEPT !.frames = q, !.firstByteTimer = FALSE],
        [call EXCEPT !.startup = call.startup + 1, !.firstByteTimer = FALSE],
        [call EXCEPT !.startup = 0, !.started = TRUE, !.sent = id, !.played = TRUE,
                     !.ticker = TRUE, !.firstByteTimer = FALSE]}
  BY <1>1 DEF AddFrame, q, CallShaped, CallFields, ClosedCall
<1>4. SpokenCall(call, [call EXCEPT !.frames = q, !.firstByteTimer = FALSE])
  BY <1>1, <1>2 DEF SpokenCall, CallShaped, CallFields, ClosedCall
<1>5. SpokenCall(call, [call EXCEPT !.startup = call.startup + 1, !.firstByteTimer = FALSE])
  BY <1>1 DEF SpokenCall, CallShaped, CallFields, ClosedCall
<1>6. SpokenCall(call, [call EXCEPT !.startup = 0, !.started = TRUE, !.sent = id, !.played = TRUE,
                                    !.ticker = TRUE, !.firstByteTimer = FALSE])
  BY <1>1 DEF SpokenCall, CallShaped, CallFields, ClosedCall
<1> QED BY <1>3, <1>4, <1>5, <1>6

LEMMA SpeechEventKeeps == ASSUME VoiceInv, SpeechEvent PROVE VoiceStep
<1> DEFINE event == Head(speechEvents)
           d == [call EXCEPT !.providerDone = TRUE]
           f == FinishFrames(d)
<1>1. /\ call.stage = "open" /\ said' = said /\ turnResults' = turnResults
      /\ Len(call.frames) < QueueFrameLimit
      /\ Bridge(IF ~ IsActiveSpeech(event) THEN call
                ELSE IF event.what # "chunk" THEN ProviderDone(call, event.what)
                ELSE IF call.interrupted THEN call ELSE AddFrame(call, event.id))
  BY DEF SpeechEvent
<1>2. SpokenCall(call, call) /\ SpokenCall(call, d) /\ CallShaped(call, said)
  BY CallSpoken, FieldsSpoken
<1>3. SpokenCall(call, f)
  <2>1. DOMAIN d = CallFields /\ d.active = call.active
    BY <1>2 DEF SpokenCall
  <2> HIDE DEF d
  <2>2. f = d \/ f = [d EXCEPT !.startup = 0, !.started = TRUE, !.sent = call.active.id, !.played = TRUE]
    BY <2>1 DEF FinishFrames
  <2> DEFINE e == [d EXCEPT !.startup = 0, !.started = TRUE, !.sent = call.active.id, !.played = TRUE]
  <2>3. SpokenCall(d, e) /\ SpokenCall(call, d)
    BY <1>2, <2>1 DEF SpokenCall, CallFields, ClosedCall
  <2> HIDE DEF e, f
  <2>4. SpokenCall(call, e)
    BY <2>1, <2>3 DEF SpokenCall
  <2> QED BY <1>2, <2>2, <2>4 DEF e
<1>4. SpokenCall(call, [f EXCEPT !.ticker = TRUE])
  <2> HIDE DEF f
  <2> QED BY <1>3 DEF SpokenCall, CallFields, ClosedCall
<1>5. ProviderDone(call, event.what) \in
        {closeStream(TRUE), completeReply(d), completeReply(f), [f EXCEPT !.ticker = TRUE]}
  BY DEF ProviderDone
<1> HIDE DEF d, f
<1>6. CASE ~ IsActiveSpeech(event) \/ (event.what = "chunk" /\ call.interrupted)
  BY <1>1, <1>2, <1>6, BridgeSpeaks
<1>7. CASE IsActiveSpeech(event) /\ event.what # "chunk"
  BY <1>1, <1>2, <1>3, <1>4, <1>5, <1>7, BridgeSpeaks
<1>8. CASE IsActiveSpeech(event) /\ event.what = "chunk" /\ ~ call.interrupted
  BY <1>1, <1>8, AddFrameSpoken, BridgeSpeaks DEF IsActiveSpeech
<1> QED BY <1>6, <1>7, <1>8

LEMMA PlayoutKeeps == ASSUME VoiceInv, PlayoutTick PROVE VoiceStep
<1> DEFINE u == [call EXCEPT !.frames = Tail(call.frames), !.sent = Head(call.frames), !.played = TRUE]
           c == IF call.frames = <<>> THEN call ELSE u
<1>1. /\ call.stage = "open" /\ said' = said /\ turnResults' = turnResults
      /\ Bridge(IF call.interrupted THEN (IF call.providerDone THEN completeReply(call) ELSE call)
                ELSE IF c.providerDone /\ c.frames = <<>> THEN completeReply(c) ELSE c)
  BY CallSpoken DEF PlayoutTick, CallShaped, CallFields, ClosedCall
<1>2. SpokenCall(call, call) /\ CallShaped(call, said)
  BY CallSpoken
<1>3. ASSUME call.frames # <<>> PROVE SpokenCall(call, u)
  <2> DEFINE t == Tail(call.frames)
             h == Head(call.frames)
  <2>1. call.frames \in Seq(Nat) /\ Len(call.frames) <= QueueFrameLimit
        /\ \A i \in DOMAIN call.frames : call.frames[i] = call.active.id
    BY <1>2 DEF CallShaped, SpokenCall
  <2>2. t \in Seq(Nat) /\ Len(t) = Len(call.frames) - 1 /\ Len(call.frames) \in Nat
        /\ h = call.active.id /\ \A i \in DOMAIN t : t[i] = call.active.id
    BY <1>3, <2>1
  <2>3. Len(t) <= QueueFrameLimit
    BY <2>1, <2>2, Limits
  <2> HIDE DEF t, h
  <2> QED BY <1>2, <2>2, <2>3 DEF SpokenCall, CallShaped, CallFields, ClosedCall, t, h
<1>4. SpokenCall(call, c)
  BY <1>2, <1>3
<1> HIDE DEF c, u
<1> QED BY <1>1, <1>2, <1>4, BridgeSpeaks

LEMMA FirstByteKeeps == ASSUME VoiceInv, SpeechFirstByteTimeout PROVE VoiceStep
<1> DEFINE x == cancelSpeech(call)
           y == [x EXCEPT !.providerDone = TRUE]
<1>1. SpokenCall(call, x)
  BY CancelSpoken DEF VoiceInv
<1>2. call.stage = "open" /\ said' = said /\ turnResults' = turnResults /\ Bridge(completeReply(y))
  BY DEF SpeechFirstByteTimeout
<1> HIDE DEF x
<1>3. SpokenCall(call, y)
  BY <1>1 DEF SpokenCall, CallFields, ClosedCall
<1> HIDE DEF y
<1> QED BY <1>2, <1>3, BridgeSpeaks

LEMMA SessionSpeechKeeps ==
    ASSUME VoiceInv, NEW id \in producing, NEW spoken,
           ResponseCreated(id) \/ AudioDelta(id) \/ AudioTranscriptDone(id, spoken)
    PROVE  VoiceStep
<1>1. call.stage = "open" /\ said' = said /\ turnResults' = turnResults
  BY DEF ResponseCreated, AudioDelta, AudioTranscriptDone
<1>2. PICK x : Bridge(x) /\ x \in {call, [call EXCEPT !.identified = TRUE],
        [call EXCEPT !.buffered = TRUE], [call EXCEPT !.spoken = spoken],
        [call EXCEPT !.sent = call.active.id, !.played = TRUE]}
  BY DEF ResponseCreated, AudioDelta, AudioTranscriptDone, responseEventMatchesActive
<1>3. SpokenCall(call, x)
  BY <1>2, CallSpoken, FieldsSpoken
<1> QED BY <1>1, <1>2, <1>3, BridgeSpeaks

LEMMA ResponseDoneKeeps ==
    ASSUME VoiceInv, NEW id \in producing, NEW status, ResponseDone(id, status) PROVE VoiceStep
<1> DEFINE u == [call EXCEPT !.sent = call.active.id, !.played = TRUE]
<1>1. /\ call.stage = "open" /\ said' = said /\ turnResults' = turnResults
      /\ id = call.active.id
  BY DEF ResponseDone, responseEventMatchesActive
<1>2. /\ call' \in {closeStream(TRUE), completeReply(u), completeReply(call)}
      /\ producing' = (producing \ {id}) \cup (call.sequence + 1 .. (call').sequence)
  BY <1>1 DEF ResponseDone
<1>3. SpokenCall(call, u) /\ SpokenCall(call, call)
  BY CallSpoken, FieldsSpoken
<1> HIDE DEF u
<1> QED BY <1>1, <1>2, <1>3, SpeechStep

(* An answer that comes late is dropped, and the next turn is taken up; an *)
(* answer to what was last said finds the queue of turns empty.            *)
LEMMA TurnResultKeeps == ASSUME VoiceInv, TurnResult PROVE VoiceStep
<1> DEFINE result == Head(turnResults)
           b == [call EXCEPT !.inFlight = 0, !.progressTimer = FALSE]
           d == IF result.outcome # "error" /\ Streaming(b) /\ b.active.kind \in {"progress", "recovery"}
                THEN cancelSpeech(b) ELSE b
           kind == IF result.outcome = "terminal" THEN "terminal" ELSE "backend"
           r == handleTurnResult(call, result)
<1>1. /\ call.stage = "open" /\ said' = said /\ call' = r /\ said \in Nat
      /\ producing' = producing \cup (call.sequence + 1 .. r.sequence)
  BY DEF TurnResult, Bridge, VoiceInv
<1>2. /\ result \in [generation : Nat, outcome : TurnOutcomes] /\ turnResults' = <<>>
      /\ call.inFlight # 0 /\ result.generation = call.inFlight
  <2>1. /\ turnResults # <<>> /\ turnResults' = Tail(turnResults) /\ Tail(turnResults) = <<>>
        /\ turnResults \in Seq([generation : Nat, outcome : TurnOutcomes])
        /\ call.inFlight # 0 /\ Head(turnResults).generation = call.inFlight
    BY <1>1 DEF TurnResult, VoiceInv
  <2>2. \A S, s : s \in Seq(S) /\ s # <<>> => Head(s) \in S
    OBVIOUS
  <2> QED BY <2>1, <2>2
<1>3. CallShaped(call, said) /\ Sound(call, said) /\ StallFree(call) /\ Ended(call)
  BY DEF VoiceInv, Sound
<1>4. /\ DOMAIN b = CallFields /\ b.stage = "open" /\ b.mode = call.mode /\ b.active = call.active
      /\ b.sent = call.sent /\ b.interrupted = call.interrupted /\ b.pending = call.pending
      /\ b.speaking = call.speaking /\ b.awaiting = call.awaiting
      /\ b.generation = call.generation /\ b.latest = call.latest /\ b.terminal = call.terminal
      /\ b.queue = call.queue /\ b.inFlight = 0 /\ b.sequence = call.sequence
      /\ b.frames = call.frames /\ b.finalized = call.finalized
  BY <1>1, <1>3 DEF CallShaped, CallFields, ClosedCall
<1>5. r = IF staleReply(call, result) THEN startNextTurn(b)
          ELSE startNextTurn(speakReply(d, kind, result.generation))
  BY DEF handleTurnResult
<1> HIDE DEF b, r, result
<1>6. CallShaped(b, said) /\ HeardFits(b) /\ PendingFits(b)
  BY <1>3, <1>4 DEF CallShaped, Sound, HeardFits, PendingFits, Streaming, ResponseActive, InputBusy
<1>7. TurnsFit(b)
  BY <1>3, <1>4 DEF Sound, CallShaped, TurnsFit
<1>8. Sound(b, said) /\ Ended(b) /\ LeadsOn(b, b)
  BY <1>1, <1>3, <1>4, <1>6, <1>7, ItselfSpoken, SpokenKeeps DEF Sound, Ended
<1>9. Sound(d, said) /\ SpokenCall(b, d)
  BY <1>1, <1>8, ItselfSpoken, CancelSpoken, SpokenKeeps
<1> HIDE DEF d
<1>10. CASE staleReply(call, result)
  BY <1>1, <1>2, <1>3, <1>4, <1>5, <1>8, <1>10, NextTurnKeeps, StreamStepKeeps DEF staleReply, Sound,
     TurnsFit, BackendBusy, StallFree, ResponseActive, InputBusy, Outdated, Speakable, LeadsOn,
     Ended
<1>11. CASE ~ staleReply(call, result)
  <2> DEFINE s == speakReply(d, kind, result.generation)
  <2>1. d.stage = "open" /\ d.latest = call.latest /\ d.inFlight = 0 /\ d.queue = call.queue
        /\ d.sequence = call.sequence /\ d.active = call.active /\ Ended(d)
    BY <1>4, <1>8, <1>9 DEF SpokenCall, Ended
  <2>2. kind \in ReplyKinds /\ result.generation \in Nat /\ kind # "recovery"
    BY <1>2 DEF ReplyKinds
  <2>3. kind = "backend" => result.generation = d.latest /\ ~ BackendBusy(d)
    BY <1>2, <1>3, <1>11, <2>1 DEF staleReply, Sound, TurnsFit, CallShaped, BackendBusy
  <2> HIDE DEF kind
  <2>4. Sound(s, said) /\ StallFree(s) /\ LeadsOn(d, s)
    BY <1>1, <1>9, <2>1, <2>2, <2>3, SpeakKeeps
  <2>5. r = startNextTurn(s)
    BY <1>5, <1>11
  <2> HIDE DEF s
  <2>6. Sound(r, said) /\ StallFree(r) /\ LeadsOn(d, r) /\ Working(r)
    BY <1>1, <2>4, <2>5, NextTurnKeeps
  <2>7. Ended(r)
    BY <2>1, <2>6 DEF LeadsOn, Ended
  <2> QED BY <1>1, <1>2, <2>1, <2>6, <2>7, StreamStepKeeps
<1> QED BY <1>10, <1>11

LEMMA TurnProgressKeeps == ASSUME VoiceInv, TurnProgress PROVE VoiceStep
<1> DEFINE c == [call EXCEPT !.progressTimer = FALSE]
           o == [c EXCEPT !.progressSpoken = TRUE]
           r == speakReply(o, "progress", c.latest)
<1>1. /\ call.stage = "open" /\ said' = said /\ turnResults' = turnResults /\ said \in Nat
      /\ Bridge(c) \/ Bridge(r)
  BY DEF TurnProgress, VoiceInv
<1>2. SpokenCall(call, c) /\ SpokenCall(call, o)
  BY FieldsSpoken
<1>3. c.latest \in Nat
  BY <1>2, CallSpoken DEF SpokenCall, CallShaped
<1> HIDE DEF c, o
<1>4. /\ Sound(o, said) /\ o.stage = "open" /\ o.sequence = call.sequence /\ o.active = call.active
      /\ o.inFlight = call.inFlight /\ o.queue = call.queue /\ Ended(o)
  BY <1>1, <1>2, SpokenKeeps DEF VoiceInv, SpokenCall, Ended
<1>5. Sound(r, said) /\ StallFree(r) /\ LeadsOn(o, r)
  BY <1>1, <1>3, <1>4, SpeakKeeps DEF ReplyKinds
<1>6. CASE Bridge(r)
  <2> HIDE DEF r
  <2> QED BY <1>1, <1>4, <1>5, <1>6, OpenStep DEF Bridge
<1>7. CASE Bridge(c)
  BY <1>1, <1>2, <1>7, BridgeSpeaks
<1> QED BY <1>1, <1>6, <1>7

\* Who speaks is heard: what is being said is cut off, and nothing begins.
LEMMA SpeechStartedKeeps == ASSUME VoiceInv, NEW elapsed \in BOOLEAN, SpeechStarted(elapsed) PROVE VoiceStep
<1> DEFINE c == [call EXCEPT !.speaking = TRUE]
           d == [c EXCEPT !.mark = 0]
           m == said + 1
<1>1. CallShaped(call, said) /\ said \in Nat /\ Sound(call, said) /\ Ended(call) /\ Working(call)
  BY CallSpoken DEF VoiceInv
<1>2. PICK r : /\ Bridge(r)
               /\ \/ r = closeStream(FALSE)
                  \/ r \in {c, d} /\ (Streaming(call) /\ ResponseActive(call) => r.interrupted)
                  \/ r \in {cancelSpeech(d), [d EXCEPT !.interrupted = TRUE]}
  BY <1>1 DEF CallShaped, CallFields, ClosedCall, SpeechStarted, shouldInterruptPlayback,
     Streaming, ResponseActive, Ended, c, d
<1>3. call.stage = "open" /\ said' = m /\ turnResults' = turnResults /\ m \in Nat /\ m # 0
  BY <1>1 DEF SpeechStarted
<1> HIDE DEF m
<1>4. CASE r = closeStream(FALSE)
  BY <1>1, <1>2, <1>3, <1>4, CloseLeadsOn, StreamStepKeeps DEF LeadsOn, Working, Ended, Bridge
<1>5. CASE r # closeStream(FALSE)
  <2> DEFINE Heard(x) ==
        /\ DOMAIN x = CallFields /\ x.stage = "open" /\ x.mode = call.mode /\ x.active = call.active
        /\ x.sent = call.sent /\ (call.interrupted => x.interrupted) /\ x.pending = call.pending
        /\ x.speaking = TRUE /\ x.awaiting = call.awaiting /\ x.generation = call.generation
        /\ x.latest = call.latest /\ x.terminal = call.terminal /\ x.queue = call.queue
        /\ x.inFlight = call.inFlight /\ x.sequence = call.sequence
        /\ (x.frames = call.frames \/ x.frames = <<>>) /\ x.finalized = call.finalized
  <2>2. Heard(c) /\ Heard(d)
    BY <1>1, <1>3 DEF CallShaped, CallFields, ClosedCall
  <2>3. Streaming(call) /\ ResponseActive(call) => r.interrupted
    BY <1>1, <1>2, <1>5 DEF CallShaped, CallFields, ClosedCall, cancelSpeech
  <2> HIDE DEF c, d
  <2>1. Heard(r)
    <3>1. Heard(cancelSpeech(d)) /\ Heard([d EXCEPT !.interrupted = TRUE])
      BY <2>2 DEF CallFields, ClosedCall, cancelSpeech
    <3> HIDE DEF Heard
    <3> QED BY <1>2, <1>5, <2>2, <3>1
  <2>4. CallShaped(r, m)
    <3>1. 1 .. said \subseteq 1 .. m
      BY <1>1 DEF m
    <3>2. r.awaiting \subseteq 1 .. m /\ r.speaking = TRUE
      BY <1>1, <2>1, <3>1 DEF CallShaped
    <3>3. r.frames \in Seq(Nat) /\ Len(r.frames) <= QueueFrameLimit
      <4>1. r.frames = call.frames \/ r.frames = <<>>
        BY <2>1
      <4>2. call.frames \in Seq(Nat) /\ Len(call.frames) <= QueueFrameLimit
        BY <1>1 DEF CallShaped
      <4>3. <<>> \in Seq(Nat) /\ Len(<<>>) <= QueueFrameLimit
        BY Limits
      <4> QED BY <4>1, <4>2, <4>3
    <3> QED BY <1>1, <1>3, <2>1, <3>2, <3>3 DEF CallShaped
  <2>5. HeardFits(r)
    BY <1>1, <2>1, <2>3 DEF Sound, HeardFits, Streaming, ResponseActive
  <2>6. TurnsFit(r) /\ PendingFits(r) /\ StallFree(r) /\ Working(r) /\ Ended(r)
    BY <1>1, <1>3, <2>1 DEF Sound, TurnsFit, PendingFits, StallFree, InputBusy, Outdated, Speakable,
         Working, Ended
  <2>7. LeadsOn(call, r)
    BY <1>1, <2>1, <2>6 DEF LeadsOn, CallShaped, ActiveReplies
  <2> QED BY <1>2, <1>3, <2>4, <2>5, <2>6, <2>7, StreamStepKeeps DEF Bridge, Sound
<1> QED BY <1>4, <1>5

LEMMA SpeechStoppedKeeps == ASSUME VoiceInv, SpeechStopped PROVE VoiceStep
<1> DEFINE r == [call EXCEPT !.speaking = FALSE, !.awaiting = call.awaiting \cup {said}]
<1>1. CallShaped(call, said) /\ said \in Nat /\ Sound(call, said) /\ call.stage = "open" /\ call.speaking
  BY CallSpoken DEF VoiceInv, SpeechStopped
<1>2. said' = said /\ turnResults' = turnResults /\ Bridge(r) /\ Ended(call)
  BY <1>1 DEF SpeechStopped, VoiceInv, CallShaped, CallFields, ClosedCall
<1>3. /\ DOMAIN r = CallFields /\ r.stage = "open" /\ r.mode = call.mode /\ r.active = call.active
      /\ r.sent = call.sent /\ r.interrupted = call.interrupted /\ r.pending = call.pending
      /\ r.speaking = FALSE /\ r.awaiting = call.awaiting \cup {said}
      /\ r.generation = call.generation /\ r.latest = call.latest /\ r.terminal = call.terminal
      /\ r.queue = call.queue /\ r.inFlight = call.inFlight /\ r.sequence = call.sequence
      /\ r.frames = call.frames /\ r.finalized = call.finalized
  BY <1>1 DEF CallShaped, CallFields, ClosedCall
<1> HIDE DEF r
<1>4. CallShaped(r, said)
  BY <1>1, <1>3 DEF CallShaped
<1>5. HeardFits(r) /\ TurnsFit(r) /\ PendingFits(r) /\ StallFree(r)
  BY <1>1, <1>3 DEF Sound, HeardFits, TurnsFit, PendingFits, StallFree, Streaming, ResponseActive, InputBusy
<1>6. LeadsOn(call, r)
  BY <1>1, <1>3 DEF LeadsOn, CallShaped, ActiveReplies, Working, Ended
<1> QED BY <1>1, <1>2, <1>4, <1>5, <1>6, OpenStep DEF Sound, Bridge


(* The transcript of an utterance: nothing to answer, the next turn, or an *)
(* apology and in the end the goodbye.                                     *)
LEMMA TranscriptKeeps ==
    ASSUME VoiceInv, NEW item, NEW heard, NEW handoff, TranscriptDone(item, heard, handoff)
    PROVE  VoiceStep
<1> DEFINE Same(x) ==
      /\ DOMAIN x = CallFields /\ x.stage = "open" /\ x.mode = call.mode /\ x.active = call.active
      /\ x.sent = call.sent /\ x.interrupted = call.interrupted /\ x.pending = call.pending
      /\ x.speaking = call.speaking /\ x.awaiting = call.awaiting \ {item}
      /\ x.terminal = call.terminal /\ x.inFlight = call.inFlight /\ x.sequence = call.sequence
      /\ x.frames = call.frames
    c == [call EXCEPT !.awaiting = call.awaiting \ {item}]
    g == call.generation + 1
    fresh == [c EXCEPT !.seen = call.seen \cup {item}, !.generation = g]
    t == [fresh EXCEPT !.rejections = 0, !.latest = g, !.queue = Append(call.queue, g)]
    a == [fresh EXCEPT !.strong = fresh.strong \/ ~ Admissible(fresh, heard)]
    d == [a EXCEPT !.rejections = IF a.rejections < InputHandoffThreshold
                                  THEN a.rejections + 1 ELSE a.rejections]
    f == [d EXCEPT !.finalized = TRUE]
<1>1. CallShaped(call, said) /\ said \in Nat /\ Sound(call, said) /\ Ended(call) /\ call.stage = "open"
  BY CallSpoken DEF VoiceInv, TranscriptDone
<1>2. g \in Nat /\ call.generation <= g /\ call.latest < g /\ call.latest \in Nat
  BY <1>1 DEF CallShaped
<1>3. /\ Same(c) /\ c.generation = call.generation /\ c.seen = call.seen
      /\ c.latest = call.latest /\ c.queue = call.queue /\ c.finalized = call.finalized
  BY <1>1 DEF CallShaped, CallFields, ClosedCall
<1> HIDE DEF c, g
<1>4. /\ Same(fresh) /\ fresh.generation = g /\ fresh.latest = call.latest
      /\ fresh.queue = call.queue /\ fresh.finalized = call.finalized
  BY <1>3 DEF CallFields, ClosedCall
<1>5. PICK r : Bridge(r) /\ said' = said /\ turnResults' = turnResults /\
        \/ r = flushPendingReply(c)
        \/ /\ item \in call.awaiting /\ ~ call.terminal /\ ~ call.finalized
           /\ r \in {startNextTurn(t), speakReply(d, "recovery", g), speakReply(f, "terminal", g)}
  BY <1>3, <1>4 DEF TranscriptDone, Unheard, c, g, TurnAccepted, Rejected, Admit
<1>6. /\ Same(d) /\ d.generation = g /\ d.latest = call.latest
      /\ d.queue = call.queue /\ d.finalized = call.finalized
  BY <1>4 DEF CallFields, ClosedCall
<1>7. /\ Same(f) /\ f.generation = g /\ f.latest = call.latest /\ f.queue = call.queue
  <2> HIDE DEF d
  <2> QED BY <1>6 DEF CallFields, ClosedCall
<1>8. /\ Same(t) /\ t.generation = g /\ t.latest = g /\ t.queue = Append(call.queue, g)
      /\ t.finalized = call.finalized
  BY <1>4 DEF CallFields, ClosedCall
<1> HIDE DEF fresh, a, d, f, t
\* Only what is heard of the caller has changed.
<1>9. ASSUME NEW x, Same(x), x.generation \in {call.generation, g}, x.latest = call.latest,
             x.queue = call.queue
      PROVE  Sound(x, said)
  BY <1>1, <1>2, <1>9 DEF CallShaped, Sound, HeardFits, TurnsFit, PendingFits, Streaming,
     ResponseActive, InputBusy
<1>10. ASSUME NEW x, Same(x), Sound(x, said), x.queue = call.queue, StallFree(r), Sound(r, said),
              LeadsOn(x, r), Ended(x) \/ Ended(r)
       PROVE  VoiceStep
  BY <1>1, <1>5, <1>10, OpenStep DEF Bridge
<1>11. CASE r = flushPendingReply(c)
  BY <1>1, <1>3, <1>9, <1>10, <1>11, FlushKeeps DEF Ended
<1>12. CASE ~ call.terminal /\ r = speakReply(d, "recovery", g)
  BY <1>1, <1>2, <1>6, <1>9, <1>10, <1>12, SpeakKeeps DEF Ended, ReplyKinds
<1>13. CASE r = speakReply(f, "terminal", g)
  BY <1>1, <1>2, <1>7, <1>9, <1>10, <1>13, SpeakKeeps DEF ReplyKinds
<1>14. CASE item \in call.awaiting /\ ~ call.terminal /\ ~ call.finalized /\ r = startNextTurn(t)
  <2> DEFINE q == Append(call.queue, g)
  <2>1. call.queue \in Seq(Nat) /\ call.inFlight \in Nat /\ TurnsFit(call)
    BY <1>1 DEF CallShaped, Sound
  <2>2. /\ q \in Seq(Nat) /\ Len(q) = Len(call.queue) + 1 /\ q # <<>> /\ q[Len(q)] = g
        /\ Len(call.queue) \in Nat /\ DOMAIN q = 1 .. Len(q)
        /\ \A i \in DOMAIN q : i = Len(q) \/ (i \in DOMAIN call.queue /\ q[i] = call.queue[i])
    BY <1>2, <2>1
  <2> HIDE DEF q
  <2>3. TurnsFit(t)
    <3>3. \A i \in DOMAIN call.queue :
             call.inFlight < call.queue[i] /\ call.queue[i] <= call.latest /\ call.queue[i] \in Nat
      BY <2>1 DEF TurnsFit
    <3>4. call.inFlight < g
      BY <1>2, <2>1 DEF TurnsFit
    <3>1. \A i \in DOMAIN q : call.inFlight < q[i] /\ q[i] <= g
      <4>1. ASSUME NEW i \in DOMAIN q PROVE call.inFlight < q[i] /\ q[i] <= g
        <5>1. CASE i = Len(q)
          BY <1>2, <2>2, <3>4, <5>1
        <5>2. CASE i # Len(q)
          BY <1>2, <2>2, <3>3, <5>2
        <5> QED BY <5>1, <5>2
      <4> QED BY <4>1
    <3>2. ASSUME NEW i \in DOMAIN q, NEW j \in DOMAIN q, i < j PROVE q[i] < q[j]
      <4>1. i \in DOMAIN call.queue /\ q[i] = call.queue[i] /\ call.queue[i] <= call.latest
            /\ call.queue[i] \in Nat
        BY <2>2, <3>2, <3>3
      <4>2. CASE j = Len(q)
        BY <1>2, <2>2, <4>1, <4>2
      <4>3. CASE j # Len(q)
        BY <2>1, <2>2, <3>2, <4>1, <4>3 DEF TurnsFit
      <4> QED BY <4>2, <4>3
    <3> QED BY <1>2, <1>8, <1>14, <2>1, <2>2, <3>1, <3>2 DEF TurnsFit, q
  <2>4. CallShaped(t, said)
    BY <1>1, <1>2, <1>8, <2>2 DEF CallShaped, q
  <2>5. HeardFits(t)
    BY <1>1, <1>8, <1>14 DEF Sound, HeardFits, Streaming, ResponseActive, InputBusy, NoReply
  <2>6. PendingFits(t)
    <3>1. \A i \in DOMAIN call.pending : call.pending[i] \in QueuedReplies
      BY <1>1 DEF CallShaped
    <3> QED BY <1>1, <1>2, <1>8, <3>1 DEF Sound, PendingFits, QueuedReplies
  <2>7. Sound(t, said) /\ Ended(t) /\ LeadsOn(t, t)
    BY <1>1, <1>8, <1>14, <2>3, <2>4, <2>5, <2>6, ItselfSpoken, SpokenKeeps DEF Sound, Ended
  <2>8. StallFree(t)
    BY <1>8, <1>14, <2>2 DEF StallFree, BackendBusy, q
  <2>9. Sound(r, said) /\ StallFree(r) /\ LeadsOn(t, r) /\ Working(r)
    BY <1>1, <1>14, <2>7, <2>8, NextTurnKeeps
  <2>10. Ended(r)
    BY <2>7, <2>9 DEF LeadsOn, Ended
  <2> QED BY <1>1, <1>5, <1>8, <2>9, <2>10, StreamStepKeeps DEF Bridge
<1> QED BY <1>5, <1>11, <1>12, <1>13, <1>14

LEMMA VoiceInitially == VoiceInit => VoiceInv
<1> SUFFICES ASSUME VoiceInit PROVE VoiceInv
  OBVIOUS
<1> DEFINE c == ClosedCall(FALSE)
<1>1. said = 0 /\ turnResults = <<>> /\ producing = {} /\ call = [c EXCEPT !.stage = "connecting"]
  BY DEF VoiceInit
<1>2. /\ DOMAIN call = CallFields /\ call.stage = "connecting" /\ call.mode = "none"
      /\ call.pending = <<>> /\ call.frames = <<>> /\ call.queue = <<>> /\ call.awaiting = {}
      /\ call.speaking = FALSE /\ call.latest = 0 /\ call.generation = 0 /\ call.sent = 0
      /\ call.finalized = FALSE /\ call.terminal = FALSE /\ call.inFlight = 0
      /\ call.active = NoReply /\ call.sequence = 0
  BY <1>1 DEF ClosedCall, CallFields
<1>5. NoReply \in ActiveReplies
  BY DEF NoReply, ActiveReplies
<1>7. <<>> \in Seq(QueuedReplies) /\ <<>> \in Seq(Nat) /\ Len(<<>>) = 0 /\ {} \subseteq 1 .. said
  OBVIOUS
<1>3. CallShaped(call, said)
  <2> HIDE DEF c
  <2> QED BY <1>2, <1>5, <1>7, Limits DEF CallShaped
<1>4. HeardFits(call) /\ TurnsFit(call) /\ PendingFits(call) /\ StallFree(call)
  BY <1>2 DEF HeardFits, TurnsFit, PendingFits, StallFree, Streaming
<1>6. ConnectingCall /\ Working(call) /\ Ended(call)
  BY <1>2 DEF ConnectingCall, Working, Ended
<1>9. \A S : <<>> \in Seq(S)
  OBVIOUS
<1>8. Sound(call, said) /\ said \in Nat /\ producing \subseteq 1 .. call.sequence
      /\ (turnResults # <<>> => FALSE)
  BY <1>1, <1>2, <1>3, <1>4 DEF Sound
<1> HIDE DEF c
<1> QED BY <1>1, <1>4, <1>6, <1>8, <1>9 DEF VoiceInv

LEMMA VoiceStepKeeps == VoiceInv /\ [VoiceNext]_voiceVars => VoiceStep
<1> SUFFICES ASSUME VoiceInv, [VoiceNext]_voiceVars PROVE VoiceStep
  OBVIOUS
<1>1. CASE UNCHANGED voiceVars
  BY <1>1, CallSpoken DEF CallShaped, ActiveReplies, voiceVars, VoiceInv, ConnectingCall,
     VoiceStep, BeganTimely
<1>2. CASE \E mode \in OutputModes : Stream(mode)
  BY <1>2, StreamKeeps
<1>3. CASE StreamRefused
  BY <1>3, RefusedKeeps
<1>4. CASE StreamStops \/ TwilioWriteFails \/ CloseDrainTimeout
  BY <1>4, StopsKeep
<1>5. CASE \E m \in marks : MarkReturned(m)
  BY <1>5, PlayedKeeps
<1>6. CASE \E outcome \in TurnOutcomes : TurnCompletes(outcome)
  BY <1>6, TurnCompletesKeeps
<1>7. CASE TurnResult \/ TurnProgress
  BY <1>7, TurnResultKeeps, TurnProgressKeeps
<1>8. CASE SpeechEvent \/ PlayoutTick \/ SpeechFirstByteTimeout
  BY <1>8, SpeechEventKeeps, PlayoutKeeps, FirstByteKeeps
<1>9. ASSUME NEW id \in producing, NEW what, Produce(id, what) PROVE VoiceStep
  BY <1>9, ProduceKeeps
<1>10. ASSUME NEW id \in producing, NEW spoken,
              ResponseCreated(id) \/ AudioDelta(id) \/ AudioTranscriptDone(id, spoken)
       PROVE  VoiceStep
  BY <1>10, SessionSpeechKeeps
<1>11. ASSUME NEW id \in producing, NEW status, ResponseDone(id, status) PROVE VoiceStep
  BY <1>11, ResponseDoneKeeps
<1>12. CASE (\E elapsed \in BOOLEAN : SpeechStarted(elapsed)) \/ SpeechStopped
  BY <1>12, SpeechStartedKeeps, SpeechStoppedKeeps
<1>13. ASSUME NEW item, NEW heard, NEW handoff, TranscriptDone(item, heard, handoff) PROVE VoiceStep
  BY <1>13, TranscriptKeeps
<1> QED BY <1>1, <1>2, <1>3, <1>4, <1>5, <1>6, <1>7, <1>8, <1>9, <1>10, <1>11, <1>12, <1>13, Zenon
        DEF VoiceNext

\* The inductive invariant of the voice stream.
THEOREM VoiceInvariant == VoiceSpec => []VoiceInv
<1>1. VoiceInv /\ [VoiceNext]_voiceVars => VoiceInv'
  BY VoiceStepKeeps DEF VoiceStep
<1> QED BY <1>1, VoiceInitially, PTL DEF VoiceSpec

\* VoiceTypeOK: the state of the goroutine and its bounds.
THEOREM VoiceTypeCorrect == VoiceSpec => []VoiceTypeOK
<1>1. VoiceInv => VoiceTypeOK
  BY DEF VoiceInv, Sound, CallShaped, VoiceTypeOK, ActiveReplies
<1> QED BY <1>1, VoiceInvariant, PTL

(* HeardIsCurrent: what the caller hears is of the reply that is spoken,   *)
(* and an answer that was overtaken is not spoken on.                      *)
THEOREM HeardStaysCurrent == VoiceSpec => []HeardIsCurrent
<1>1. VoiceInv => HeardIsCurrent
  BY DEF VoiceInv, Sound, HeardFits, HeardIsCurrent, Streaming
<1> QED BY <1>1, VoiceInvariant, PTL

(* NoSilentStall: when nothing is spoken, heard or worked on, nothing that *)
(* could be spoken waits.                                                  *)
THEOREM NeverSilent == VoiceSpec => []NoSilentStall
<1>1. VoiceInv => NoSilentStall
  BY DEF VoiceInv, StallFree, NoSilentStall
<1> QED BY <1>1, VoiceInvariant, PTL

(* RepliesAreTimely: no reply begins over the caller, and an answer begins *)
(* only when it is the answer to what was last said.                       *)
THEOREM RepliesStayTimely == VoiceSpec => RepliesAreTimely
<1>1. VoiceInv /\ [VoiceNext]_voiceVars =>
        [call'.stage = "open" /\ call'.active.id > call.active.id =>
           /\ ~ InputBusy(call')
           /\ call'.active.kind = "backend" =>
                call'.active.generation = call'.latest /\ call'.inFlight = 0]_voiceVars
  BY VoiceStepKeeps DEF VoiceStep, BeganTimely, Timely, BackendBusy
<1> QED BY <1>1, VoiceInvariant, PTL DEF VoiceSpec, RepliesAreTimely

-----------------------------------------------------------------------------
\* The channels together: a behaviour of the whole is one of each part.

LEMMA ChannelsBegin == MCInit => VoiceInit /\ CallInit /\ SmsInit /\ HookInit
BY DEF MCInit

LEMMA ChannelsStep ==
    [MCNext]_allVars => /\ [VoiceNext]_voiceVars /\ [CallNext]_callVars
                        /\ [SmsNext]_smsVars /\ [HookNext]_hookVars
<1> SUFFICES ASSUME [MCNext]_allVars
             PROVE  /\ [VoiceNext]_voiceVars /\ [CallNext]_callVars
                    /\ [SmsNext]_smsVars /\ [HookNext]_hookVars
  OBVIOUS
<1> USE DEF CallNext
<1>1. CASE UNCHANGED allVars
  BY <1>1 DEF allVars
<1>2. CASE MCNext
  BY <1>2 DEF MCNext
<1> QED BY <1>1, <1>2

\* What the channels do together is what each of them does alone.
THEOREM StreamIsKept == MCSpec => VoiceSpec
BY ChannelsBegin, ChannelsStep, PTL DEF MCSpec, VoiceSpec

THEOREM CallsAreKept == MCSpec => CallSpec
BY ChannelsBegin, ChannelsStep, PTL DEF MCSpec, CallSpec

THEOREM TextsAreKept == MCSpec => SmsSpec
BY ChannelsBegin, ChannelsStep, PTL DEF MCSpec, SmsSpec

THEOREM EventsAreKept == MCSpec => HookSpec
BY ChannelsBegin, ChannelsStep, PTL DEF MCSpec, HookSpec

\* CallsAreSound, as the channels are composed.
THEOREM ChannelCallsSound == MCSpec => []CallsAreSound
BY CallsAreKept, CallsStaySound, PTL

(* DeliveredAsRecorded: a customer is texted once about a change, on a     *)
(* consent that stood at the dispatch marker, and an event that counts as  *)
(* processed is in the calendar, unless the calendar cannot hold it.       *)
THEOREM ChannelsDeliver == MCSpec => []DeliveredAsRecorded
<1>1. TextsAreWanted /\ ProcessedIsMirrored => DeliveredAsRecorded
  BY DEF DeliveredAsRecorded
<1> QED BY <1>1, TextsAreKept, TextsStayWanted, EventsAreKept, ProcessedStaysMirrored, PTL

\* ChannelsTypeOK: what the tables and the memory of every channel hold.
THEOREM ChannelsTyped == MCSpec => []ChannelsTypeOK
<1>1. VoiceTypeOK /\ CallTypeOK /\ SmsTypeOK /\ HookTypeOK => ChannelsTypeOK
  BY DEF ChannelsTypeOK
<1> QED BY <1>1, StreamIsKept, VoiceTypeCorrect, CallsAreKept, CallTypeCorrect, TextsAreKept,
        SmsTypeCorrect, EventsAreKept, HookTypeCorrect, PTL

(* CallersAreAnswered: what a caller hears is the answer to what was last  *)
(* said, and nothing that could be spoken is withheld.                     *)
THEOREM ChannelsAnswer == MCSpec => []CallersAreAnswered
<1>1. HeardIsCurrent /\ NoSilentStall => CallersAreAnswered
  BY DEF CallersAreAnswered
<1> QED BY <1>1, StreamIsKept, HeardStaysCurrent, NeverSilent, PTL

(* ChannelsKeepOrder: replies begin in time, an ended conversation stays   *)
(* ended, and an opt-out is undone only by the customer.                   *)
THEOREM ChannelsStayInOrder == MCSpec => ChannelsKeepOrder
<1>1. RepliesAreTimely /\ EndedStaysEnded /\ OptOutHolds => ChannelsKeepOrder
  BY DEF ChannelsKeepOrder
<1> QED BY <1>1, StreamIsKept, RepliesStayTimely, CallsAreKept, EndedStays, TextsAreKept,
        OptOutStays
=============================================================================
