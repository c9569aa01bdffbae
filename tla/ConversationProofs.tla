-------------------------- MODULE ConversationProofs --------------------------
(***************************************************************************)
(* Proofs about the conversation, for any salon, any caller and any        *)
(* number of turns and changes: the answer context, the availability       *)
(* quotes, service guidance, the lifecycle and the booking dialogue, and   *)
(* the parts together, as MCConversation runs them: each part keeps, in    *)
(* every behaviour of the run, what was proved of it alone.                *)
(***************************************************************************)
EXTENDS MCConversation, FiniteSetTheorems, SequenceTheorems, TLAPS

(*************************** The answer context ****************************)
-----------------------------------------------------------------------------
(* A fence stands for what is read behind it.                              *)

ShopRows == [authority : Authorities, switches : Nat, versions : [Collections -> Nat],
             localHours : Nat, calendar : Nat, activated : Nat, fit : BOOLEAN,
             generation : Nat, synced : BOOLEAN]
FenceRows == [authority : Authorities, switches : Nat, versions : [Collections -> Nat],
              localHours : Nat, calendar : Nat \X Nat, provider : Nat \X BOOLEAN]

FenceBookable(f) ==
    CASE f.authority = "owner_manual" -> f.versions["staff"]
      [] f.authority = "manleai_calendar" ->
           IF f.calendar[2] = f.calendar[1] THEN f.calendar[1] ELSE Nothing
      [] f.authority = "external_provider" -> IF f.provider[2] THEN f.provider[1] ELSE Nothing
FenceHours(f) == IF f.authority = "owner_manual" THEN f.localHours ELSE FenceBookable(f)
FencePart(f, p) ==
    CASE p = "bookable" -> FenceBookable(f) [] p = "hours" -> FenceHours(f)
      [] OTHER -> f.versions[p]
FenceReady(f, fit) ==
    CASE f.authority = "owner_manual" -> TRUE
      [] f.authority = "external_provider" -> f.provider[2]
      [] f.authority = "manleai_calendar" -> f.calendar[2] = f.calendar[1] /\ fit
FenceContext(f, ready) ==
    [p \in Parts |-> IF ready \/ p \notin Scheduling \cup {"staff"} THEN FencePart(f, p)
                     ELSE Nothing]

(* A fence that was read earlier; the fields of its authority count.       *)
OlderFence(f, sd) ==
    /\ \A c \in Collections : f.versions[c] <= sd.versions[c]
    /\ f.authority = "owner_manual" => f.localHours <= sd.localHours
    /\ f.authority = "manleai_calendar" =>
          f.calendar[1] <= sd.calendar /\ f.calendar[2] <= sd.activated
    /\ f.authority = "external_provider" =>
          /\ f.provider[1] <= sd.generation
          /\ f.provider[1] = sd.generation /\ f.provider[2] => sd.synced
(* What a part is read from is still as the fence says.                    *)
SameSchedule(f, sd) ==
    /\ f.authority = "manleai_calendar" =>
          f.calendar[1] = sd.calendar /\ f.calendar[2] = sd.activated
    /\ f.authority = "external_provider" =>
          f.provider[1] = sd.generation /\ f.provider[2] = sd.synced
SamePart(f, p, sd) ==
    /\ p \in Collections => f.versions[p] = sd.versions[p]
    /\ p = "bookable" => /\ f.authority = "owner_manual" => f.versions["staff"] = sd.versions["staff"]
                         /\ SameSchedule(f, sd)
    /\ p = "hours" => /\ f.authority = "owner_manual" => f.localHours = sd.localHours
                      /\ SameSchedule(f, sd)
(* What was found of the readiness, while the staff are the same.          *)
ReadyStands(f, ready, sd) ==
    f.versions["staff"] = sd.versions["staff"] => ready = FenceReady(f, sd.fit)

LoadingRows == [phase : {"loading"}, loads : Nat, fence : FenceRows, ready : BOOLEAN,
                left : SUBSET Parts, context : [Parts -> Nat]]
AnswerTurnFits(turn, sd) ==
    /\ turn.phase \in {"fence", "readiness", "loading", "answering", "answered", "failed"}
    /\ turn.phase \in {"fence", "readiness"} => turn.loads \in Nat
    /\ turn.phase = "readiness" => turn.fence \in FenceRows /\ OlderFence(turn.fence, sd)
    /\ turn.phase = "loading" =>
          /\ turn \in LoadingRows /\ OlderFence(turn.fence, sd)
          /\ ReadyStands(turn.fence, turn.ready, sd)
          /\ \A p \in Parts \ turn.left :
                SamePart(turn.fence, p, sd) => turn.context[p] = FencePart(turn.fence, p)
    /\ turn.phase = "answering" => turn.context = turn.truth
    /\ turn.phase = "answered" => turn.reply = turn.truth
EntryFits(k, sd) ==
    /\ k.fence \in FenceRows /\ OlderFence(k.fence, sd)
    /\ \E ready \in BOOLEAN :
          k.context = FenceContext(k.fence, ready) /\ ReadyStands(k.fence, ready, sd)

AnswerInv ==
    /\ shopData \in ShopRows /\ shopData.activated <= shopData.calendar
    /\ turns = [t \in TurnIds |-> turns[t]]
    /\ \A t \in TurnIds : AnswerTurnFits(turns[t], shopData)
    /\ kept # NoEntry => EntryFits(kept, shopData)

-----------------------------------------------------------------------------
(* The salon changes: every version grows.                                 *)

ShopMoves(sd, new) ==
    /\ \A c \in Collections : sd.versions[c] <= new.versions[c]
    /\ sd.localHours <= new.localHours
    /\ sd.calendar <= new.calendar /\ sd.activated <= new.activated
    /\ sd.generation <= new.generation
    /\ sd.generation = new.generation /\ sd.synced => new.synced
    /\ sd.versions["staff"] = new.versions["staff"] => sd.fit = new.fit

LEMMA OlderStays ==
  ASSUME NEW sd \in ShopRows, NEW new \in ShopRows, ShopMoves(sd, new), NEW f \in FenceRows,
         OlderFence(f, sd)
  PROVE  OlderFence(f, new)
<1>1. /\ \A c \in Collections : f.versions[c] \in Nat /\ sd.versions[c] \in Nat
                                 /\ new.versions[c] \in Nat
      /\ f.localHours \in Nat /\ f.calendar[1] \in Nat /\ f.calendar[2] \in Nat
      /\ f.provider[1] \in Nat /\ f.provider[2] \in BOOLEAN
  BY DEF ShopRows, FenceRows
<1>2. /\ sd.localHours \in Nat /\ new.localHours \in Nat /\ sd.calendar \in Nat
      /\ new.calendar \in Nat /\ sd.activated \in Nat /\ new.activated \in Nat
      /\ sd.generation \in Nat /\ new.generation \in Nat
      /\ sd.synced \in BOOLEAN /\ new.synced \in BOOLEAN
  BY DEF ShopRows
<1>3. \A c \in Collections : f.versions[c] <= new.versions[c]
  BY <1>1 DEF ShopMoves, OlderFence
<1> QED
  BY <1>1, <1>2, <1>3 DEF ShopMoves, OlderFence

LEMMA SameBefore ==
  ASSUME NEW sd \in ShopRows, NEW new \in ShopRows, ShopMoves(sd, new), NEW f \in FenceRows,
         OlderFence(f, sd), NEW p \in Parts, SamePart(f, p, new)
  PROVE  SamePart(f, p, sd)
<1>0. "staff" \in Collections
  BY AnswerConstants
<1>1. /\ \A c \in Collections : f.versions[c] \in Nat /\ sd.versions[c] \in Nat
                                 /\ new.versions[c] \in Nat
      /\ f.localHours \in Nat /\ f.calendar[1] \in Nat /\ f.calendar[2] \in Nat
      /\ f.provider[1] \in Nat /\ f.provider[2] \in BOOLEAN
  BY DEF ShopRows, FenceRows
<1>2. /\ sd.localHours \in Nat /\ new.localHours \in Nat /\ sd.calendar \in Nat
      /\ new.calendar \in Nat /\ sd.activated \in Nat /\ new.activated \in Nat
      /\ sd.generation \in Nat /\ new.generation \in Nat
      /\ sd.synced \in BOOLEAN /\ new.synced \in BOOLEAN
  BY DEF ShopRows
<1>3. \A c \in Collections : f.versions[c] = new.versions[c] => f.versions[c] = sd.versions[c]
  BY <1>1 DEF ShopMoves, OlderFence
<1>4. f.authority = "owner_manual" /\ f.localHours = new.localHours => f.localHours = sd.localHours
  BY <1>1, <1>2 DEF ShopMoves, OlderFence
<1>5. f.authority = "manleai_calendar" /\ f.calendar[1] = new.calendar
      /\ f.calendar[2] = new.activated => f.calendar[1] = sd.calendar /\ f.calendar[2] = sd.activated
  BY <1>1, <1>2 DEF ShopMoves, OlderFence
<1>6. f.authority = "external_provider" /\ f.provider[1] = new.generation
      => f.provider[1] = sd.generation
  BY <1>1, <1>2 DEF ShopMoves, OlderFence
<1>7. f.authority = "external_provider" /\ f.provider[1] = new.generation
      /\ f.provider[2] = new.synced => f.provider[2] = sd.synced
  BY <1>1, <1>2, <1>6 DEF ShopMoves, OlderFence
<1>8. SameSchedule(f, new) => SameSchedule(f, sd)
  BY <1>5, <1>6, <1>7 DEF SameSchedule
<1> QED
  BY <1>0, <1>3, <1>4, <1>8 DEF SamePart

LEMMA ReadyStays ==
  ASSUME NEW sd \in ShopRows, NEW new \in ShopRows, ShopMoves(sd, new), NEW f \in FenceRows,
         OlderFence(f, sd), NEW ready, ReadyStands(f, ready, sd)
  PROVE  ReadyStands(f, ready, new)
<1>0. "staff" \in Collections
  BY AnswerConstants
<1>1. /\ f.versions["staff"] \in Nat /\ sd.versions["staff"] \in Nat /\ new.versions["staff"] \in Nat
  BY <1>0 DEF ShopRows, FenceRows
<1>2. f.versions["staff"] = new.versions["staff"] =>
        f.versions["staff"] = sd.versions["staff"] /\ sd.fit = new.fit
  BY <1>0, <1>1 DEF ShopMoves, OlderFence
<1> QED
  BY <1>2 DEF ReadyStands

LEMMA TurnStays ==
  ASSUME NEW sd \in ShopRows, NEW new \in ShopRows, ShopMoves(sd, new), NEW turn,
         AnswerTurnFits(turn, sd)
  PROVE  AnswerTurnFits(turn, new)
<1>1. turn.phase = "readiness" => OlderFence(turn.fence, new)
  BY OlderStays DEF AnswerTurnFits
<1>2. ASSUME turn.phase = "loading"
      PROVE  /\ OlderFence(turn.fence, new) /\ ReadyStands(turn.fence, turn.ready, new)
             /\ \A p \in Parts \ turn.left :
                   SamePart(turn.fence, p, new) => turn.context[p] = FencePart(turn.fence, p)
  BY <1>2, OlderStays, ReadyStays, SameBefore DEF AnswerTurnFits, LoadingRows
<1> QED
  BY <1>1, <1>2 DEF AnswerTurnFits

LEMMA EntryStays ==
  ASSUME NEW sd \in ShopRows, NEW new \in ShopRows, ShopMoves(sd, new), NEW k,
         EntryFits(k, sd)
  PROVE  EntryFits(k, new)
<1>1. PICK ready \in BOOLEAN :
        k.context = FenceContext(k.fence, ready) /\ ReadyStands(k.fence, ready, sd)
  BY DEF EntryFits
<1>2. k.fence \in FenceRows /\ OlderFence(k.fence, sd)
  BY DEF EntryFits
<1>3. ReadyStands(k.fence, ready, new) /\ OlderFence(k.fence, new)
  BY <1>1, <1>2, ReadyStays, OlderStays
<1> QED
  BY <1>1, <1>2, <1>3 DEF EntryFits

LEMMA ShopStep ==
  ASSUME AnswerInv, UNCHANGED <<kept, turns>>, shopData' \in ShopRows,
         shopData'.activated <= shopData'.calendar, ShopMoves(shopData, shopData')
  PROVE  AnswerInv'
<1>1. \A t \in TurnIds : AnswerTurnFits(turns[t], shopData')
  BY TurnStays DEF AnswerInv
<1>2. kept # NoEntry => EntryFits(kept, shopData')
  BY EntryStays DEF AnswerInv
<1> QED
  BY <1>1, <1>2 DEF AnswerInv

LEMMA ShopActions ==
  ASSUME AnswerInv, SalonChanges \/ SalonSettles
  PROVE  AnswerInv'
<1> USE AnswerConstants
<1>0. UNCHANGED <<kept, turns>>
  BY DEF SalonChanges, SalonSettles
<1>1. PICK a \in Authorities, w \in Nat, v \in [Collections -> Nat], h \in Nat, k \in Nat,
           d \in Nat, b \in BOOLEAN, g \in Nat, y \in BOOLEAN :
        shopData = [authority |-> a, switches |-> w, versions |-> v, localHours |-> h,
                    calendar |-> k, activated |-> d, fit |-> b, generation |-> g, synced |-> y]
  BY DEF AnswerInv, ShopRows
<1>2. d <= k
  BY <1>1 DEF AnswerInv
<1>3. h <= h + 1 /\ k <= k + 1 /\ g <= g + 1 /\ g # g + 1 /\ h <= h /\ k <= k /\ g <= g /\ d <= d
      /\ d <= k + 1 /\ h + 1 \in Nat /\ k + 1 \in Nat /\ g + 1 \in Nat /\ w + 1 \in Nat
  BY <1>2
<1>4. \A c \in Collections : v[c] <= v[c]
  OBVIOUS
<1>5. ASSUME NEW c \in Collections, NEW fit \in BOOLEAN, EditCollection(c, fit)
      PROVE  AnswerInv'
  <2> DEFINE v1 == [v EXCEPT ![c] = v[c] + 1]
             b1 == IF c = "staff" THEN fit ELSE b
  <2>1. shopData' = [authority |-> a, switches |-> w, versions |-> v1, localHours |-> h,
                     calendar |-> k, activated |-> d, fit |-> b1, generation |-> g, synced |-> y]
    BY <1>1, <1>5 DEF EditCollection
  <2>2. v1 \in [Collections -> Nat] /\ b1 \in BOOLEAN
        /\ \A x \in Collections : v[x] <= v1[x]
    OBVIOUS
  <2>3. v["staff"] = v1["staff"] => b = b1
    OBVIOUS
  <2> HIDE DEF v1, b1
  <2>4. shopData' \in ShopRows /\ shopData'.activated <= shopData'.calendar
    BY <1>2, <1>3, <2>1, <2>2 DEF ShopRows
  <2>5. ShopMoves(shopData, shopData')
    BY <1>1, <1>2, <1>3, <2>1, <2>2, <2>3 DEF ShopMoves
  <2> QED
    BY <1>0, <2>4, <2>5, ShopStep
<1>6. CASE EditLocalHours
  BY <1>0, <1>1, <1>2, <1>3, <1>4, <1>6, ShopStep DEF EditLocalHours, ShopRows, ShopMoves
<1>7. CASE EditCalendar
  BY <1>0, <1>1, <1>2, <1>3, <1>4, <1>7, ShopStep DEF EditCalendar, ShopRows, ShopMoves
<1>8. CASE BeginImport
  BY <1>0, <1>1, <1>2, <1>3, <1>4, <1>8, ShopStep DEF BeginImport, ShopRows, ShopMoves
<1>9. ASSUME NEW x \in Authorities, SwitchTo(x)
      PROVE  AnswerInv'
  BY <1>0, <1>1, <1>2, <1>3, <1>4, <1>9, ShopStep DEF SwitchTo, ShopRows, ShopMoves
<1>10. CASE ActivateCalendar
  BY <1>0, <1>1, <1>2, <1>3, <1>4, <1>10, ShopStep DEF ActivateCalendar, ShopRows, ShopMoves
<1>11. CASE FinishImport
  BY <1>0, <1>1, <1>2, <1>3, <1>4, <1>11, ShopStep DEF FinishImport, ShopRows, ShopMoves
<1> QED
  BY <1>5, <1>6, <1>7, <1>8, <1>9, <1>10, <1>11 DEF SalonChanges, SalonSettles

-----------------------------------------------------------------------------
(* The present fence.                                                      *)

LEMMA FenceOfNow ==
  ASSUME shopData \in ShopRows
  PROVE  LET f == GetAnswerContextFence IN
         /\ f \in FenceRows /\ OlderFence(f, shopData)
         /\ \A p \in Parts : SamePart(f, p, shopData)
         /\ ReadyStands(f, ContextReady(f), shopData)
         /\ ContextReady(f) = FenceReady(f, shopData.fit)
<1> DEFINE f == GetAnswerContextFence
           hours == IF shopData.authority = "owner_manual" THEN shopData.localHours ELSE 0
           calendar == IF shopData.authority = "manleai_calendar"
                       THEN <<shopData.calendar, shopData.activated>> ELSE <<0, 0>>
           provider == IF shopData.authority = "external_provider"
                       THEN <<shopData.generation, shopData.synced>> ELSE <<0, FALSE>>
<1>1. f = [authority |-> shopData.authority, switches |-> shopData.switches,
           versions |-> shopData.versions, localHours |-> hours, calendar |-> calendar,
           provider |-> provider]
  BY DEF GetAnswerContextFence
<1>2. /\ shopData.authority \in Authorities /\ shopData.switches \in Nat
      /\ shopData.versions \in [Collections -> Nat] /\ shopData.localHours \in Nat
      /\ shopData.calendar \in Nat /\ shopData.activated \in Nat /\ shopData.generation \in Nat
      /\ shopData.synced \in BOOLEAN /\ shopData.fit \in BOOLEAN
  BY DEF ShopRows
<1>3. hours \in Nat /\ calendar \in Nat \X Nat /\ provider \in Nat \X BOOLEAN
  BY <1>2
<1>4. f \in FenceRows
  BY <1>1, <1>2, <1>3 DEF FenceRows
<1>5. /\ f.authority = shopData.authority /\ f.versions = shopData.versions
      /\ f.authority = "owner_manual" => f.localHours = shopData.localHours
      /\ f.authority = "manleai_calendar" => f.calendar = <<shopData.calendar, shopData.activated>>
      /\ f.authority = "external_provider" => f.provider = <<shopData.generation, shopData.synced>>
  BY <1>1
<1> HIDE DEF f, hours, calendar, provider
<1>6. /\ f.authority = "manleai_calendar" =>
            f.calendar[1] = shopData.calendar /\ f.calendar[2] = shopData.activated
      /\ f.authority = "external_provider" =>
            f.provider[1] = shopData.generation /\ f.provider[2] = shopData.synced
  BY <1>5
<1>7. OlderFence(f, shopData)
  BY <1>2, <1>5, <1>6 DEF OlderFence
<1>8. \A p \in Parts : SamePart(f, p, shopData)
  BY <1>5, <1>6 DEF SamePart, SameSchedule
<1>9. ContextReady(f) = FenceReady(f, shopData.fit)
  BY <1>2, <1>5, <1>6 DEF ContextReady, FenceReady, CalendarReady, CalendarLive, Authorities
<1>10. ReadyStands(f, ContextReady(f), shopData)
  BY <1>9 DEF ReadyStands
<1> QED
  BY <1>4, <1>7, <1>8, <1>9, <1>10 DEF f

(* A part is read as a fence that still stands for it says.                *)
LEMMA ReadAsFenced ==
  ASSUME shopData \in ShopRows, NEW f \in FenceRows, NEW p \in Parts, SamePart(f, p, shopData)
  PROVE  ReadPart(f.authority, p) = FencePart(f, p)
<1> USE AnswerConstants
<1>1. f.authority \in Authorities
  BY DEF FenceRows
<1>2. CASE p = "bookable"
  BY <1>1, <1>2 DEF SamePart, SameSchedule, ListBookable, FenceBookable, CalendarLive,
     Authorities, ReadPart, FencePart
<1>3. CASE p = "hours"
  BY <1>1, <1>3 DEF SamePart, SameSchedule, ListHours, FenceHours, FenceBookable, CalendarLive,
     Authorities, ReadPart, FencePart
<1>4. CASE p \notin {"bookable", "hours"}
  BY <1>4 DEF Parts, Scheduling, SamePart, ReadPart, ReadCollection, FencePart
<1> QED
  BY <1>2, <1>3, <1>4

LEMMA NowAsFenced ==
  ASSUME shopData \in ShopRows
  PROVE  ContextOfNow = FenceContext(GetAnswerContextFence,
                                     FenceReady(GetAnswerContextFence, shopData.fit))
<1> DEFINE f == GetAnswerContextFence
           all == [p \in Parts |-> ReadPart(shopData.authority, p)]
           ready == ContextReady(f)
<1>1. f \in FenceRows /\ (\A p \in Parts : SamePart(f, p, shopData))
      /\ ready = FenceReady(f, shopData.fit)
  BY FenceOfNow
<1>2. f.authority = shopData.authority
  BY DEF GetAnswerContextFence
<1>3. \A p \in Parts : all[p] = FencePart(f, p)
  BY <1>1, <1>2, ReadAsFenced
<1>4. ContextOfNow = IF ready THEN all ELSE failClosedSchedulingContext(all)
  BY DEF ContextOfNow
<1> HIDE DEF f, ready
<1>5. CASE ready
  BY <1>1, <1>3, <1>4, <1>5 DEF FenceContext, f
<1>6. CASE ~ ready
  BY <1>1, <1>3, <1>4, <1>6 DEF failClosedSchedulingContext, FenceContext, f
<1> QED
  BY <1>5, <1>6

(* So a cache entry of the present fence is the present context.           *)
LEMMA EntryOfNow ==
  ASSUME shopData \in ShopRows, NEW k, EntryFits(k, shopData), k.fence = GetAnswerContextFence
  PROVE  k.context = ContextOfNow
<1>1. PICK ready \in BOOLEAN :
        k.context = FenceContext(k.fence, ready) /\ ReadyStands(k.fence, ready, shopData)
  BY DEF EntryFits
<1>2. k.fence.versions = shopData.versions
  BY DEF GetAnswerContextFence
<1>3. ready = FenceReady(k.fence, shopData.fit)
  BY <1>1, <1>2 DEF ReadyStands
<1> QED
  BY <1>1, <1>3, NowAsFenced

-----------------------------------------------------------------------------
(* The steps of a turn.                                                    *)

LEMMA TurnStep ==
  ASSUME AnswerInv, UNCHANGED shopData, NEW t \in TurnIds, NEW next, Step(t, next),
         AnswerTurnFits(next, shopData),
         kept' # NoEntry => EntryFits(kept', shopData)
  PROVE  AnswerInv'
<1>1. turns' = [turns EXCEPT ![t] = next] /\ turns = [x \in TurnIds |-> turns[x]]
  BY DEF Step, AnswerInv
<1>2. turns' = [x \in TurnIds |-> turns'[x]]
      /\ \A x \in TurnIds : turns'[x] = IF x = t THEN next ELSE turns[x]
  BY <1>1
<1>3. \A x \in TurnIds : AnswerTurnFits(turns'[x], shopData)
  BY <1>2 DEF AnswerInv
<1> QED
  BY <1>2, <1>3 DEF AnswerInv

LEMMA AgainFits ==
  ASSUME AnswerInv, NEW t \in TurnIds, turns[t].phase \in {"readiness", "loading"},
         turns[t].loads \in Nat
  PROVE  AnswerTurnFits(Again(t), shopData)
BY DEF Again, Ended, AnswerTurnFits

LEMMA FenceRead ==
  ASSUME AnswerInv, NEW t \in TurnIds, ReadFence(t)
  PROVE  AnswerInv'
<1> DEFINE f == GetAnswerContextFence
<1>1. UNCHANGED shopData /\ turns[t].phase = "fence" /\ shopData \in ShopRows
  BY DEF ReadFence, AnswerInv
<1>2. CASE CacheHit(f)
  <2> DEFINE next == Ended("answering", kept.context, ContextOfNow)
  <2>1. Step(t, next) /\ UNCHANGED kept
    BY <1>2 DEF ReadFence
  <2>2. kept # NoEntry /\ kept.fence = f /\ EntryFits(kept, shopData)
    BY <1>2 DEF CacheHit, AnswerInv
  <2>3. kept.context = ContextOfNow
    BY <1>1, <2>2, EntryOfNow
  <2>4. AnswerTurnFits(next, shopData)
    BY <2>3 DEF Ended, AnswerTurnFits
  <2> QED
    BY <1>1, <2>1, <2>2, <2>4, TurnStep
<1>3. CASE ~ CacheHit(f)
  <2> DEFINE next == [phase |-> "readiness", loads |-> turns[t].loads, fence |-> f]
  <2>1. Step(t, next) /\ kept' = NoEntry
    BY <1>3 DEF ReadFence
  <2>2. turns[t].loads \in Nat
    BY <1>1 DEF AnswerInv, AnswerTurnFits
  <2>3. f \in FenceRows /\ OlderFence(f, shopData)
    BY <1>1, FenceOfNow
  <2> HIDE DEF f
  <2>4. AnswerTurnFits(next, shopData)
    BY <2>2, <2>3 DEF AnswerTurnFits
  <2> QED
    BY <1>1, <2>1, <2>4, TurnStep
<1> QED
  BY <1>2, <1>3

LEMMA ReadinessLoaded ==
  ASSUME AnswerInv, NEW t \in TurnIds, loadAnswerContextReadiness(t)
  PROVE  AnswerInv'
<1> DEFINE turn == turns[t]
           f == turn.fence
<1>1. UNCHANGED shopData /\ turn.phase = "readiness" /\ shopData \in ShopRows
  BY DEF loadAnswerContextReadiness, AnswerInv
<1>2. AnswerTurnFits(turn, shopData)
  BY DEF AnswerInv
<1>3. turn.loads \in Nat /\ f \in FenceRows /\ OlderFence(f, shopData)
  BY <1>1, <1>2 DEF AnswerTurnFits
<1>4. CASE ~ EvidenceMatches(f)
  BY <1>1, <1>3, <1>4, AgainFits, TurnStep DEF loadAnswerContextReadiness
<1>5. CASE EvidenceMatches(f)
  <2> DEFINE ready == ContextReady(f)
             next == [phase |-> "loading", loads |-> turn.loads, fence |-> f, ready |-> ready,
                      left |-> Parts, context |-> Empty]
  <2>1. Step(t, next) /\ UNCHANGED kept
    BY <1>5 DEF loadAnswerContextReadiness
  <2>2. f.authority \in Authorities /\ f.provider[2] \in BOOLEAN
    BY <1>3 DEF FenceRows
  <2>3. f.authority = "manleai_calendar" =>
          f.calendar[1] = shopData.calendar /\ f.calendar[2] = shopData.activated
    BY <1>5 DEF EvidenceMatches
  <2>4. ready = FenceReady(f, shopData.fit)
    BY <2>2, <2>3 DEF ContextReady, FenceReady, CalendarReady, CalendarLive, Authorities
  <2>5. ready \in BOOLEAN
    BY <1>1, <2>2 DEF ContextReady, CalendarReady, CalendarLive, Authorities, ShopRows
  <2>6. Empty \in [Parts -> Nat]
    BY DEF Empty, Nothing
  <2> HIDE DEF ready, f
  <2>7. next \in LoadingRows
    BY <1>3, <2>5, <2>6 DEF LoadingRows
  <2>8. AnswerTurnFits(next, shopData)
    BY <1>3, <2>4, <2>7 DEF AnswerTurnFits, ReadyStands
  <2>9. kept # NoEntry => EntryFits(kept, shopData)
    BY DEF AnswerInv
  <2> QED
    BY <1>1, <2>1, <2>8, <2>9, TurnStep DEF f
<1> QED
  BY <1>4, <1>5

LEMMA PartType ==
  ASSUME shopData \in ShopRows, NEW a \in Authorities, NEW p \in Parts
  PROVE  ReadPart(a, p) \in Nat
<1> USE AnswerConstants
<1>1. ListBookable(a) \in Nat /\ ListHours(a) \in Nat
  BY DEF ListBookable, ListHours, ShopRows, Authorities, Nothing
<1>2. p \notin Scheduling => ReadCollection(p) \in Nat
  BY DEF Parts, ReadCollection, ShopRows
<1> QED
  BY <1>1, <1>2 DEF ReadPart, Scheduling

LEMMA PartLoaded ==
  ASSUME AnswerInv, NEW t \in TurnIds, loadFreshAnswerContext(t)
  PROVE  AnswerInv'
<1> DEFINE turn == turns[t]
           f == turn.fence
<1>1. /\ UNCHANGED <<shopData, kept>> /\ turn.phase = "loading" /\ turn.left # {}
      /\ shopData \in ShopRows
  BY DEF loadFreshAnswerContext, AnswerInv
<1>2. /\ turn \in LoadingRows /\ OlderFence(f, shopData)
      /\ ReadyStands(f, turn.ready, shopData)
      /\ \A p \in Parts \ turn.left : SamePart(f, p, shopData) => turn.context[p] = FencePart(f, p)
  BY <1>1 DEF AnswerInv, AnswerTurnFits
<1>3. PICK p \in turn.left :
        Step(t, [turn EXCEPT !.context = [turn.context EXCEPT ![p] = ReadPart(f.authority, p)],
                          !.left = turn.left \ {p}])
  <2>1. (CHOOSE q \in turn.left : TRUE) \in turn.left
    BY <1>1
  <2> QED
    BY <2>1 DEF loadFreshAnswerContext
<1>4. PICK old \in LoadingRows : old = turn
  BY <1>2
<1>5. p \in Parts /\ f \in FenceRows /\ f.authority \in Authorities
  BY <1>2 DEF LoadingRows, FenceRows
<1>6. ReadPart(f.authority, p) \in Nat
  BY <1>1, <1>5, PartType
<1> DEFINE read == ReadPart(f.authority, p)
           ctx == [old.context EXCEPT ![p] = read]
           left == old.left \ {p}
           next == [old EXCEPT !.context = ctx, !.left = left]
<1>7. [turn EXCEPT !.context = [turn.context EXCEPT ![p] = read], !.left = turn.left \ {p}] = next
  BY <1>4
<1>8. ctx \in [Parts -> Nat] /\ left \in SUBSET Parts
      /\ \A q \in Parts : ctx[q] = IF q = p THEN read ELSE old.context[q]
  BY <1>5, <1>6 DEF LoadingRows
<1>9. SamePart(f, p, shopData) => read = FencePart(f, p)
  BY <1>1, <1>5, ReadAsFenced
<1>10. Step(t, next)
  BY <1>3, <1>7
<1>11. left = old.left \ {p}
  OBVIOUS
<1> HIDE DEF read, ctx, left
<1>12. /\ next \in LoadingRows /\ next.phase = "loading" /\ next.fence = old.fence
       /\ next.ready = old.ready /\ next.left = left /\ next.context = ctx
  BY <1>8 DEF LoadingRows
<1> HIDE DEF next
<1>13. \A q \in Parts \ left : SamePart(f, q, shopData) => ctx[q] = FencePart(f, q)
  BY <1>2, <1>4, <1>8, <1>9, <1>11
<1>14. AnswerTurnFits(next, shopData)
  BY <1>2, <1>4, <1>12, <1>13 DEF AnswerTurnFits
<1>15. kept # NoEntry => EntryFits(kept, shopData)
  BY DEF AnswerInv
<1> QED
  BY <1>1, <1>10, <1>14, <1>15, TurnStep

LEMMA FenceVerifies ==
  ASSUME AnswerInv, NEW t \in TurnIds, VerifyFence(t)
  PROVE  AnswerInv'
<1> DEFINE turn == turns[t]
           f == turn.fence
           ctx == IF turn.ready THEN turn.context ELSE failClosedSchedulingContext(turn.context)
<1>1. /\ UNCHANGED shopData /\ turn.phase = "loading" /\ turn.left = {} /\ shopData \in ShopRows
  BY DEF VerifyFence, AnswerInv
<1>2. /\ turn \in LoadingRows /\ OlderFence(f, shopData)
      /\ ReadyStands(f, turn.ready, shopData)
      /\ \A p \in Parts \ turn.left : SamePart(f, p, shopData) => turn.context[p] = FencePart(f, p)
  BY <1>1 DEF AnswerInv, AnswerTurnFits
<1>3. /\ turn.loads \in Nat /\ f \in FenceRows /\ turn.ready \in BOOLEAN
      /\ turn.context \in [Parts -> Nat]
  BY <1>2 DEF LoadingRows
<1>4. CASE ~ FenceVerified(f)
  BY <1>1, <1>3, <1>4, AgainFits, TurnStep DEF VerifyFence
<1>5. CASE FenceVerified(f)
  <2> DEFINE entry == [fence |-> f, context |-> ctx]
             next == Ended("answering", ctx, ContextOfNow)
  <2>1. kept' = entry /\ Step(t, next)
    BY <1>5 DEF VerifyFence
  <2>2. f = GetAnswerContextFence
    BY <1>5 DEF FenceVerified
  <2>3. \A p \in Parts : turn.context[p] = FencePart(f, p)
    BY <1>1, <1>2, <2>2, FenceOfNow
  <2>4. ctx = FenceContext(f, turn.ready)
    BY <1>3, <2>3 DEF FenceContext, failClosedSchedulingContext
  <2> HIDE DEF ctx
  <2>5. EntryFits(entry, shopData) /\ entry.fence = f /\ entry.context = ctx
    BY <1>2, <1>3, <2>4 DEF EntryFits
  <2>6. ctx = ContextOfNow
    BY <1>1, <2>2, <2>5, EntryOfNow
  <2>7. AnswerTurnFits(next, shopData)
    BY <2>6 DEF Ended, AnswerTurnFits
  <2> QED
    BY <1>1, <2>1, <2>5, <2>7, TurnStep
<1> QED
  BY <1>4, <1>5

LEMMA QuestionAnswered ==
  ASSUME AnswerInv, NEW t \in TurnIds, NEW subject \in Subjects,
         routeStructuredQuestionAnswer(t, subject)
  PROVE  AnswerInv'
<1> DEFINE next == [phase |-> "answered",
                    reply |-> [p \in SourceOf(subject) |-> turns[t].context[p]],
                    truth |-> [p \in SourceOf(subject) |-> turns[t].truth[p]]]
<1>1. UNCHANGED <<shopData, kept>> /\ turns[t].phase = "answering" /\ Step(t, next)
  BY DEF routeStructuredQuestionAnswer
<1>2. turns[t].context = turns[t].truth
  BY <1>1 DEF AnswerInv, AnswerTurnFits
<1>3. AnswerTurnFits(next, shopData)
  BY <1>2 DEF AnswerTurnFits
<1>4. kept # NoEntry => EntryFits(kept, shopData)
  BY DEF AnswerInv
<1> QED
  BY <1>1, <1>3, <1>4, TurnStep

LEMMA AnswerInitial == AnswerInit => AnswerInv
<1> SUFFICES ASSUME AnswerInit PROVE AnswerInv
  OBVIOUS
<1>1. shopData \in ShopRows /\ shopData.activated <= shopData.calendar
  BY DEF AnswerInit, ShopRows
<1>2. turns = [t \in TurnIds |-> NewTurn] /\ kept = NoEntry
  BY DEF AnswerInit
<1>3. AnswerTurnFits(NewTurn, shopData)
  BY DEF NewTurn, AnswerTurnFits
<1> QED
  BY <1>1, <1>2, <1>3 DEF AnswerInv

LEMMA AnswerInductive == AnswerInv /\ [AnswerNext]_answerVars => AnswerInv'
<1> SUFFICES ASSUME AnswerInv, [AnswerNext]_answerVars PROVE AnswerInv'
  OBVIOUS
<1>1. CASE SalonChanges \/ SalonSettles
  BY <1>1, ShopActions
<1>2. CASE CacheExpires
  BY <1>2 DEF CacheExpires, AnswerInv
<1>3. CASE \E t \in TurnIds : ReadFence(t)
  BY <1>3, FenceRead
<1>4. CASE \E t \in TurnIds : loadAnswerContextReadiness(t)
  BY <1>4, ReadinessLoaded
<1>5. CASE \E t \in TurnIds : loadFreshAnswerContext(t)
  BY <1>5, PartLoaded
<1>6. CASE \E t \in TurnIds : VerifyFence(t)
  BY <1>6, FenceVerifies
<1>7. CASE \E t \in TurnIds, subject \in Subjects : routeStructuredQuestionAnswer(t, subject)
  BY <1>7, QuestionAnswered
<1>8. CASE UNCHANGED answerVars
  BY <1>8 DEF answerVars, AnswerInv
<1> QED
  BY <1>1, <1>2, <1>3, <1>4, <1>5, <1>6, <1>7, <1>8 DEF AnswerNext

LEMMA AnswersOfOneMoment == AnswerInv => AnswerTypeOK /\ KnownOfOneMoment
BY DEF AnswerInv, ShopRows, AnswerTurnFits, AnswerTypeOK, KnownOfOneMoment

(************************* The availability quotes *************************)
-----------------------------------------------------------------------------
(* What the variables hold.                                                *)

TryKinds == {"book", "retry", "reschedule"}
QuoteFences == [place : Places, generation : Nat]
QuoteSlots == [start : Starts, length : Menus]
StoreRows == [place : Places, generation : Nat, synced : BOOLEAN, menu : Menus,
              external : BOOLEAN, version : Nat]
VisitRows == [live : BOOLEAN, version : Nat, menu : Menus]
SearchPhases == {"asked", "resolved", "scheduled", "staffed", "listed", "filtered"}
SearchRows == [phase : SearchPhases, kind : TryKinds, origin : Nat, target : Nat,
               fence : QuoteFences, seen : SUBSET Menus, slots : SUBSET QuoteSlots]
QuoteRows == [provenance : {"known", "retry_origin", "target_origin"}, version : Nat,
              origin : Nat, target : Nat, fence : QuoteFences, slots : SUBSET QuoteSlots,
              seen : SUBSET Menus, expired : BOOLEAN, consumedBy : Nat]
TryStatuses == {"pos_pending", "slot_conflict", "confirmed", "fallback_safe"}
ClaimMoments == [synced : BOOLEAN, place : Places, menu : Menus, external : BOOLEAN]
TryRows == [kind : TryKinds, customer : Customers, quote : Nat, start : Starts, length : Menus,
            menu : Menus, fence : QuoteFences, origin : Nat, status : TryStatuses,
            superseded : BOOLEAN, target : Nat, seen : SUBSET Menus, visit : Nat,
            now : ClaimMoments]
AnswerRows == [phase : {"resolved"}, kind : TryKinds, quote : Nat, slot : QuoteSlots,
               origin : Nat, target : Nat, fence : QuoteFences, menu : Menus]

QuoteTyped ==
    /\ store \in StoreRows /\ visit \in VisitRows
    /\ search \in [Searches -> SearchRows \cup {IdleSearch}]
    /\ quotes \in Seq(QuoteRows \cup {Deleted})
    /\ tries \in Seq(TryRows)
    /\ answer \in [Customers -> AnswerRows \cup {IdleAnswer}]
QuoteBounded ==
    /\ store.generation >= 1 /\ store.version >= 1 /\ visit.version >= 1
    /\ store.generation + store.version + visit.version <= MaxDisturbances + 3
    /\ Len(quotes) <= MaxQuotes

(* What was read behind a fence: a fence of the present generation is the  *)
(* present fence, the import is complete and nothing else was seen.        *)
ReadBehind(st, f, seen) ==
    /\ f.generation <= st.generation
    /\ f.generation = st.generation => /\ st.synced /\ f.place = st.place
                                       /\ seen = {st.menu}

SearchRead(st, s) ==
    IF s.phase = "asked" THEN s.seen = {} ELSE ReadBehind(st, s.fence, s.seen)
SearchesRead(st) ==
    \A r \in Searches : search[r] # IdleSearch => SearchRead(st, search[r])
QuotesRead(st) ==
    \A q \in DOMAIN quotes : quotes[q] # Deleted =>
        ReadBehind(st, quotes[q].fence, quotes[q].seen)
AnswersRead(st) ==
    \A c \in Customers : answer[c] # IdleAnswer /\ answer[c].kind # "reschedule" =>
        ReadBehind(st, answer[c].fence, {answer[c].menu})

(* A retry has an attempt that it retries.                                 *)
SearchesOrigin ==
    \A r \in Searches : search[r] # IdleSearch /\ search[r].kind = "retry" =>
        search[r].origin \in DOMAIN tries
AnswersOrigin ==
    \A c \in Customers : answer[c] # IdleAnswer =>
        /\ answer[c].quote \in DOMAIN quotes
        /\ answer[c].kind = "retry" => answer[c].origin \in DOMAIN tries
(* A quote for a retry offers the interval of that attempt, which used     *)
(* another quote.                                                          *)
RepeatsOrigin(q, quote) ==
    /\ quote.origin \in DOMAIN tries /\ tries[quote.origin].quote # q
    /\ \A slot \in quote.slots :
          slot.start = tries[quote.origin].start /\ slot.length = tries[quote.origin].length
QuotesOrigin ==
    \A q \in DOMAIN quotes : quotes[q] # Deleted /\ quotes[q].provenance = "retry_origin" =>
        RepeatsOrigin(q, quotes[q])
(* The quote of an attempt is there and spent on it.                       *)
TriesHaveQuotes ==
    \A i \in DOMAIN tries :
        /\ tries[i].quote \in DOMAIN quotes /\ quotes[tries[i].quote] # Deleted
        /\ quotes[tries[i].quote].consumedBy = i
(* Each attempt by itself, and against the one it retries.                 *)
ClaimSound(t) ==
    /\ t.now.synced /\ t.now.place = t.fence.place
    /\ t.seen = {t.now.menu}
    /\ t.kind # "reschedule" => t.menu = t.now.menu
    /\ t.kind = "book" => t.now.external
    /\ t.kind = "reschedule" => t.target = t.visit
RetrySound(t, o) ==
    /\ o.superseded /\ t.start = o.start /\ t.length = o.length
    /\ t.fence.place = o.fence.place
TriesSound ==
    \A i \in DOMAIN tries :
        /\ ClaimSound(tries[i])
        /\ tries[i].kind = "retry" =>
              tries[i].origin \in DOMAIN tries /\ RetrySound(tries[i], tries[tries[i].origin])
RetriesApart ==
    \A i, j \in DOMAIN tries :
        i # j /\ tries[i].kind = "retry" /\ tries[j].kind = "retry" =>
            tries[j].origin # tries[i].origin

QuoteReads == SearchesRead(store) /\ QuotesRead(store) /\ AnswersRead(store)
QuoteOrigins == SearchesOrigin /\ AnswersOrigin /\ QuotesOrigin
QuoteClaims == TriesHaveQuotes /\ TriesSound /\ RetriesApart
QuoteInv == QuoteTyped /\ QuoteBounded /\ QuoteReads /\ QuoteOrigins /\ QuoteClaims


-----------------------------------------------------------------------------
LEMMA QuoteInitial == QuoteInit => QuoteInv
<1> SUFFICES ASSUME QuoteInit PROVE QuoteInv
  OBVIOUS
<1> USE QuoteConstants
<1>1. PICK p \in Places, m \in Menus :
        /\ store = [place |-> p, generation |-> 1, synced |-> TRUE, menu |-> m,
                    external |-> TRUE, version |-> 1]
        /\ visit = [live |-> TRUE, version |-> 1, menu |-> m]
  BY DEF QuoteInit
<1>2. /\ quotes = <<>> /\ tries = <<>> /\ search = [r \in Searches |-> IdleSearch]
      /\ answer = [c \in Customers |-> IdleAnswer]
  BY DEF QuoteInit
<1>3. quotes \in Seq(QuoteRows \cup {Deleted}) /\ Len(quotes) = 0 /\ DOMAIN quotes = {}
  BY <1>2
<1>4. tries \in Seq(TryRows) /\ DOMAIN tries = {}
  BY <1>2
<1>5. store \in StoreRows /\ visit \in VisitRows
  BY <1>1 DEF StoreRows, VisitRows
<1>6. QuoteTyped
  BY <1>2, <1>3, <1>4, <1>5 DEF QuoteTyped
<1>7. QuoteBounded
  BY <1>1, <1>3 DEF QuoteBounded
<1>8. QuoteReads /\ QuoteOrigins
  BY <1>2, <1>3 DEF QuoteReads, SearchesRead, QuotesRead, AnswersRead, QuoteOrigins,
     SearchesOrigin, AnswersOrigin, QuotesOrigin
<1>9. QuoteClaims
  BY <1>4 DEF QuoteClaims, TriesHaveQuotes, TriesSound, RetriesApart
<1> QED
  BY <1>6, <1>7, <1>8, <1>9 DEF QuoteInv

(* An import begins with a new generation, so what was read before it is   *)
(* of an older one, and while one is under way nothing is of the present.  *)
StoreMoves(st, new) ==
    \/ /\ new.generation = st.generation /\ new.place = st.place /\ new.menu = st.menu
       /\ new.synced = st.synced
    \/ new.generation = st.generation /\ ~ st.synced
    \/ new.generation > st.generation
LEMMA ReadBehindStands ==
  ASSUME NEW st \in StoreRows, NEW new \in StoreRows, StoreMoves(st, new),
         NEW f \in QuoteFences, NEW seen, ReadBehind(st, f, seen)
  PROVE  ReadBehind(new, f, seen)
BY DEF StoreRows, QuoteFences, StoreMoves, ReadBehind

LEMMA StoreStep ==
  ASSUME QuoteInv, UNCHANGED <<search, quotes, tries, answer, visit>>,
         store' \in StoreRows, StoreMoves(store, store'),
         store'.generation >= 1, store'.version >= 1,
         store'.generation + store'.version + visit.version <= MaxDisturbances + 3
  PROVE  QuoteInv'
<1>1. QuoteTyped'
  BY DEF QuoteInv, QuoteTyped
<1>2. QuoteBounded'
  BY DEF QuoteInv, QuoteBounded
<1>3. SearchesRead(store)'
  <2> SUFFICES ASSUME NEW r \in Searches, search[r] # IdleSearch, search[r].phase # "asked"
               PROVE  ReadBehind(store', search[r].fence, search[r].seen)
    BY DEF SearchesRead, SearchRead, QuoteInv, QuoteReads
  <2>1. search[r] \in SearchRows
    BY DEF QuoteInv, QuoteTyped
  <2>2. search[r].fence \in QuoteFences
    BY <2>1 DEF SearchRows
  <2>3. ReadBehind(store, search[r].fence, search[r].seen)
    BY DEF QuoteInv, QuoteReads, SearchesRead, SearchRead
  <2> QED
    BY <2>2, <2>3, ReadBehindStands DEF QuoteInv, QuoteTyped
<1>4. QuotesRead(store)'
  <2> SUFFICES ASSUME NEW q \in DOMAIN quotes, quotes[q] # Deleted
               PROVE  ReadBehind(store', quotes[q].fence, quotes[q].seen)
    BY DEF QuotesRead
  <2>1. quotes[q] \in QuoteRows
    BY DEF QuoteInv, QuoteTyped
  <2>2. quotes[q].fence \in QuoteFences
    BY <2>1 DEF QuoteRows
  <2>3. ReadBehind(store, quotes[q].fence, quotes[q].seen)
    BY DEF QuoteInv, QuoteReads, QuotesRead
  <2> QED
    BY <2>2, <2>3, ReadBehindStands DEF QuoteInv, QuoteTyped
<1>5. AnswersRead(store)'
  <2> SUFFICES ASSUME NEW c \in Customers, answer[c] # IdleAnswer, answer[c].kind # "reschedule"
               PROVE  ReadBehind(store', answer[c].fence, {answer[c].menu})
    BY DEF AnswersRead
  <2>1. answer[c] \in AnswerRows
    BY DEF QuoteInv, QuoteTyped
  <2>2. answer[c].fence \in QuoteFences
    BY <2>1 DEF AnswerRows
  <2>3. ReadBehind(store, answer[c].fence, {answer[c].menu})
    BY DEF QuoteInv, QuoteReads, AnswersRead
  <2> QED
    BY <2>2, <2>3, ReadBehindStands DEF QuoteInv, QuoteTyped
<1>6. QuoteOrigins'
  BY DEF QuoteInv, QuoteOrigins, SearchesOrigin, AnswersOrigin, QuotesOrigin, RepeatsOrigin
<1>7. QuoteClaims'
  BY DEF QuoteInv, QuoteClaims, TriesHaveQuotes, TriesSound, RetriesApart, ClaimSound, RetrySound
<1> QED
  BY <1>1, <1>2, <1>3, <1>4, <1>5, <1>6, <1>7 DEF QuoteInv, QuoteReads

LEMMA StoreActions ==
  ASSUME QuoteInv,
         \/ SnapshotBegins \/ AuthoritySwitches
         \/ \E m \in Menus : SnapshotApplied(m)
         \/ \E p \in Places : LocationMoves(p)
  PROVE  QuoteInv'
<1> USE QuoteConstants
<1>0. PICK pl \in Places, g \in Nat, sy \in BOOLEAN, me \in Menus, ex \in BOOLEAN, ve \in Nat :
        store = [place |-> pl, generation |-> g, synced |-> sy, menu |-> me, external |-> ex,
                 version |-> ve]
  BY DEF QuoteInv, QuoteTyped, StoreRows
<1>1. /\ g >= 1 /\ ve >= 1 /\ visit.version \in Nat
      /\ g + ve + visit.version <= MaxDisturbances + 3
  BY <1>0 DEF QuoteInv, QuoteBounded, QuoteTyped, VisitRows
<1>2. CASE SnapshotBegins
  <2>1. /\ store' = [place |-> pl, generation |-> g + 1, synced |-> FALSE, menu |-> me,
                     external |-> ex, version |-> ve]
        /\ UNCHANGED <<search, quotes, tries, answer, visit>>
    BY <1>0, <1>2 DEF SnapshotBegins
  <2>2. g + ve + visit.version < MaxDisturbances + 3
    BY <1>0, <1>2 DEF SnapshotBegins, Undisturbed
  <2>3. store' \in StoreRows
    BY <1>0, <2>1 DEF StoreRows
  <2>3a. store'.generation = g + 1 /\ store.generation = g
    BY <1>0, <2>1
  <2>4. StoreMoves(store, store')
    BY <2>3a DEF StoreMoves
  <2> QED
    BY <1>1, <1>0, <2>1, <2>2, <2>3, <2>4, StoreStep
<1>3. CASE AuthoritySwitches
  <2>1. /\ store' = [place |-> pl, generation |-> g, synced |-> sy, menu |-> me,
                     external |-> ~ ex, version |-> ve + 1]
        /\ UNCHANGED <<search, quotes, tries, answer, visit>>
    BY <1>0, <1>3 DEF AuthoritySwitches
  <2>2. g + ve + visit.version < MaxDisturbances + 3
    BY <1>0, <1>3 DEF AuthoritySwitches, Undisturbed
  <2>3. store' \in StoreRows
    BY <1>0, <2>1 DEF StoreRows
  <2>4. StoreMoves(store, store')
    BY <1>0, <2>1 DEF StoreMoves
  <2> QED
    BY <1>1, <1>0, <2>1, <2>2, <2>3, <2>4, StoreStep
<1>4. CASE \E m \in Menus : SnapshotApplied(m)
  <2>0. PICK m \in Menus : SnapshotApplied(m)
    BY <1>4
  <2>1. /\ store' = [place |-> pl, generation |-> g, synced |-> TRUE, menu |-> m,
                     external |-> ex, version |-> ve]
        /\ UNCHANGED <<search, quotes, tries, answer, visit>> /\ ~ sy
    BY <1>0, <2>0 DEF SnapshotApplied
  <2>3. store' \in StoreRows
    BY <1>0, <2>1 DEF StoreRows
  <2>4. StoreMoves(store, store')
    BY <1>0, <2>1 DEF StoreMoves
  <2> QED
    BY <1>0, <1>1, <2>1, <2>3, <2>4, StoreStep
<1>5. CASE \E p \in Places : LocationMoves(p)
  <2>0. PICK p \in Places : LocationMoves(p)
    BY <1>5
  <2>1. /\ store' = [place |-> p, generation |-> g + 1, synced |-> FALSE, menu |-> me,
                     external |-> ex, version |-> ve]
        /\ UNCHANGED <<search, quotes, tries, answer, visit>>
    BY <1>0, <2>0 DEF LocationMoves
  <2>2. g + ve + visit.version < MaxDisturbances + 3
    BY <1>0, <2>0 DEF LocationMoves, Undisturbed
  <2>3. store' \in StoreRows
    BY <1>0, <2>1 DEF StoreRows
  <2>3a. store'.generation = g + 1 /\ store.generation = g
    BY <1>0, <2>1
  <2>4. StoreMoves(store, store')
    BY <2>3a DEF StoreMoves
  <2> QED
    BY <1>1, <1>0, <2>1, <2>2, <2>3, <2>4, StoreStep
<1> QED
  BY <1>2, <1>3, <1>4, <1>5

LEMMA VisitStep ==
  ASSUME QuoteInv, NEW live \in BOOLEAN, VisitChanges(live)
  PROVE  QuoteInv'
<1> USE QuoteConstants
<1>0. UNCHANGED <<store, search, quotes, tries, answer>>
  BY DEF VisitChanges
<1>1. PICK l \in BOOLEAN, v \in Nat, m \in Menus : visit = [live |-> l, version |-> v, menu |-> m]
  BY DEF QuoteInv, QuoteTyped, VisitRows
<1>2. visit' = [live |-> live, version |-> v + 1, menu |-> m]
  BY <1>1 DEF VisitChanges
<1>3. visit' \in VisitRows
  BY <1>2 DEF VisitRows
<1>4. store.generation + store.version + v < MaxDisturbances + 3
  BY <1>1 DEF VisitChanges, Undisturbed
<1>4a. store.generation \in Nat /\ store.version \in Nat
  BY DEF QuoteInv, QuoteTyped, StoreRows
<1>5. QuoteTyped'
  BY <1>0, <1>3 DEF QuoteInv, QuoteTyped
<1>6. QuoteBounded'
  BY <1>0, <1>1, <1>2, <1>4, <1>4a DEF QuoteInv, QuoteBounded
<1>7. QuoteReads' /\ QuoteOrigins'
  BY <1>0 DEF QuoteInv, QuoteReads, SearchesRead, QuotesRead, AnswersRead, QuoteOrigins,
     SearchesOrigin, AnswersOrigin, QuotesOrigin, RepeatsOrigin, ReadBehind
<1>8. QuoteClaims'
  BY <1>0 DEF QuoteInv, QuoteClaims, TriesHaveQuotes, TriesSound, RetriesApart, ClaimSound,
     RetrySound
<1> QED
  BY <1>5, <1>6, <1>7, <1>8 DEF QuoteInv

-----------------------------------------------------------------------------
(* A search goes on from its first service: it keeps its fence and sees    *)
(* the present import behind it, or gives up.                              *)

SearchFits(s) ==
    /\ s \in SearchRows
    /\ SearchRead(store, s)
    /\ s.kind = "retry" => s.origin \in DOMAIN tries
LEMMA SearchFitsNow ==
  ASSUME QuoteInv, NEW r \in Searches, search[r] # IdleSearch
  PROVE  SearchFits(search[r])
BY DEF QuoteInv, QuoteTyped, QuoteReads, QuoteOrigins, SearchesRead, SearchesOrigin, SearchFits

LEMMA SearchStep ==
  ASSUME QuoteInv, UNCHANGED <<store, visit, quotes, tries, answer>>,
         NEW r \in Searches, NEW next, search' = [search EXCEPT ![r] = next],
         next = IdleSearch \/ SearchFits(next)
  PROVE  QuoteInv'
<1>0. search \in [Searches -> SearchRows \cup {IdleSearch}]
  BY DEF QuoteInv, QuoteTyped
<1>1. search' \in [Searches -> SearchRows \cup {IdleSearch}]
  BY <1>0 DEF SearchFits
<1>2. \A x \in Searches : search'[x] = IF x = r THEN next ELSE search[x]
  BY <1>0
<1>3. QuoteTyped' /\ QuoteBounded'
  BY <1>1 DEF QuoteInv, QuoteTyped, QuoteBounded
<1>4. SearchesRead(store)'
  BY <1>2 DEF QuoteInv, QuoteReads, SearchesRead, SearchRead, SearchFits, ReadBehind
<1>5. SearchesOrigin'
  BY <1>2 DEF QuoteInv, QuoteOrigins, SearchesOrigin, SearchFits
<1>6. QuotesRead(store)' /\ AnswersRead(store)'
  BY DEF QuoteInv, QuoteReads, QuotesRead, AnswersRead, ReadBehind
<1>7. AnswersOrigin' /\ QuotesOrigin'
  BY DEF QuoteInv, QuoteOrigins, AnswersOrigin, QuotesOrigin, RepeatsOrigin
<1>8. QuoteClaims'
  BY DEF QuoteInv, QuoteClaims, TriesHaveQuotes, TriesSound, RetriesApart, ClaimSound,
     RetrySound
<1> QED
  BY <1>3, <1>4, <1>5, <1>6, <1>7, <1>8 DEF QuoteInv, QuoteReads, QuoteOrigins

LEMMA NewSearchFits ==
  ASSUME QuoteInv, NEW kind \in TryKinds, NEW o \in Nat, NEW v \in Nat,
         kind = "retry" => o \in DOMAIN tries
  PROVE  SearchFits(NewSearch(kind, o, v))
<1>1. Fence \in QuoteFences
  BY DEF Fence, QuoteFences, QuoteInv, QuoteTyped, StoreRows
<1>2. NewSearch(kind, o, v) \in SearchRows
  BY <1>1 DEF NewSearch, SearchRows, SearchPhases
<1> QED
  BY <1>2 DEF NewSearch, SearchFits, SearchRead

LEMMA SearchBegins ==
  ASSUME QuoteInv, NEW r \in Searches, AvailableSlots(r)
  PROVE  QuoteInv'
<1>1. UNCHANGED <<store, visit, quotes, tries, answer>>
  BY DEF AvailableSlots
<1>2. 0 \in Nat /\ {"book", "reschedule", "retry"} \subseteq TryKinds /\ visit.version \in Nat
  BY DEF TryKinds, QuoteInv, QuoteTyped, VisitRows
<1>3. CASE search' = [search EXCEPT ![r] = NewSearch("book", 0, 0)]
  BY <1>1, <1>2, <1>3, SearchStep, NewSearchFits
<1>4. CASE search' = [search EXCEPT ![r] = NewSearch("reschedule", 0, visit.version)]
  BY <1>1, <1>2, <1>4, SearchStep, NewSearchFits
<1>5. CASE \E i \in DOMAIN tries : search' = [search EXCEPT ![r] = NewSearch("retry", i, 0)]
  <2>1. PICK i \in DOMAIN tries : search' = [search EXCEPT ![r] = NewSearch("retry", i, 0)]
    BY <1>5
  <2>2. i \in Nat
    BY DEF QuoteInv, QuoteTyped
  <2>3. SearchFits(NewSearch("retry", i, 0))
    BY <1>2, <2>2, NewSearchFits
  <2> QED
    BY <1>1, <2>1, <2>3, SearchStep
<1> QED
  BY <1>3, <1>4, <1>5 DEF AvailableSlots

(* The phases that see another part of the import.                         *)
LEMMA SeesMore ==
  ASSUME QuoteInv, NEW r \in Searches, search[r] # IdleSearch, search[r].phase # "asked",
         FenceStands(search[r].fence), NEW phase \in SearchPhases \ {"asked"}
  PROVE  SearchFits(Saw(r, phase))
<1>1. SearchFits(search[r]) /\ store \in StoreRows
  BY SearchFitsNow DEF QuoteInv, QuoteTyped
<1>2. PICK s \in SearchRows : s = search[r]
  BY <1>1 DEF SearchFits
<1>2a. s.seen \cup {store.menu} \in SUBSET Menus
  BY <1>1 DEF StoreRows, SearchRows
<1>3. store.menu \in Menus /\ s.fence \in QuoteFences /\ phase \in SearchPhases
  BY <1>1 DEF StoreRows, SearchRows
<1> DEFINE n == Saw(r, phase)
<1>4. /\ n \in SearchRows /\ n.phase = phase /\ n.kind = s.kind /\ n.origin = s.origin
      /\ n.fence = s.fence /\ n.seen = s.seen \cup {store.menu}
  BY <1>2, <1>2a, <1>3 DEF Saw, SearchRows
<1> HIDE DEF n
<1>6. s.fence = Fence /\ store.synced
  BY <1>2 DEF FenceStands
<1>7. s.fence.generation = store.generation /\ ReadBehind(store, s.fence, s.seen)
  BY <1>1, <1>2, <1>6 DEF Fence, SearchFits, SearchRead
<1>8. s.seen \cup {store.menu} = {store.menu}
  BY <1>7 DEF ReadBehind
<1>9. ReadBehind(store, s.fence, s.seen \cup {store.menu})
  BY <1>7, <1>8 DEF ReadBehind
<1>10. SearchFits(n)
  BY <1>1, <1>2, <1>4, <1>9 DEF SearchFits, SearchRead
<1> QED
  BY <1>10 DEF n

LEMMA FirstServiceSeen ==
  ASSUME QuoteInv, NEW r \in Searches, resolveAvailabilitySegments(r)
  PROVE  QuoteInv'
<1>1. UNCHANGED <<store, visit, quotes, tries, answer>> /\ search[r].phase = "asked"
  BY DEF resolveAvailabilitySegments
<1>2. search[r] # IdleSearch
  BY <1>1 DEF IdleSearch
<1>3. SearchFits(search[r]) /\ store \in StoreRows
  BY <1>2, SearchFitsNow DEF QuoteInv, QuoteTyped
<1>4. CASE store.synced
  <2> DEFINE next == [Saw(r, "resolved") EXCEPT !.fence = Fence]
  <2>1. search' = [search EXCEPT ![r] = next]
    BY <1>4 DEF resolveAvailabilitySegments, Goes
  <2>2. PICK s \in SearchRows : s = search[r]
    BY <1>3 DEF SearchFits
  <2>3. /\ Fence \in QuoteFences /\ store.menu \in Menus /\ "resolved" \in SearchPhases
        /\ s.slots \in SUBSET QuoteSlots
    BY <1>3 DEF Fence, QuoteFences, StoreRows, SearchPhases, SearchRows
  <2>3a. s.seen \cup {store.menu} \in SUBSET Menus
    BY <2>3 DEF SearchRows
  <2> DEFINE n == Saw(r, "resolved")
  <2>4. /\ n \in SearchRows /\ n.phase = "resolved" /\ n.kind = s.kind /\ n.origin = s.origin
        /\ n.seen = s.seen \cup {store.menu}
    BY <2>2, <2>3, <2>3a DEF Saw, SearchRows
  <2> HIDE DEF n
  <2>5. /\ next \in SearchRows /\ next.phase = "resolved" /\ next.kind = s.kind
        /\ next.origin = s.origin /\ next.fence = Fence
        /\ next.seen = s.seen \cup {store.menu}
    BY <2>3, <2>4 DEF n, SearchRows
  <2> HIDE DEF next
  <2>6. s.seen = {}
    BY <1>1, <1>3, <2>2 DEF SearchFits, SearchRead
  <2>7. ReadBehind(store, Fence, {store.menu})
    BY <1>3, <1>4 DEF ReadBehind, Fence, StoreRows
  <2>8. SearchFits(next)
    BY <1>3, <2>2, <2>4, <2>5, <2>6, <2>7 DEF SearchFits, SearchRead
  <2> QED
    BY <1>1, <2>1, <2>8, SearchStep
<1>5. CASE ~ store.synced
  BY <1>1, <1>5, SearchStep DEF resolveAvailabilitySegments, GivesUp, Goes
<1> QED
  BY <1>4, <1>5

LEMMA SearchSees ==
  ASSUME QuoteInv, NEW r \in Searches,
         GetSchedule(r) \/ bookableStaffByPOSID(r)
  PROVE  QuoteInv'
<1>1. UNCHANGED <<store, visit, quotes, tries, answer>>
  BY DEF GetSchedule, bookableStaffByPOSID
<1>2. search[r] # IdleSearch /\ search[r].phase # "asked"
  BY DEF GetSchedule, bookableStaffByPOSID, IdleSearch
<1>3. CASE search' = [search EXCEPT ![r] = IdleSearch]
  BY <1>1, <1>3, SearchStep
<1>4. CASE /\ FenceStands(search[r].fence)
           /\ \/ search' = [search EXCEPT ![r] = Saw(r, "scheduled")]
              \/ search' = [search EXCEPT ![r] = Saw(r, "staffed")]
  BY <1>1, <1>2, <1>4, SeesMore, SearchStep DEF SearchPhases
<1> QED
  BY <1>3, <1>4 DEF GetSchedule, bookableStaffByPOSID, GivesUp, Goes

(* What the provider finds free is listed, and what is held left out.      *)
LEMMA SlotsChosen ==
  ASSUME QuoteInv, NEW r \in Searches, search[r] # IdleSearch, search[r].phase # "asked",
         NEW phase \in SearchPhases \ {"asked"}, NEW left \in SUBSET QuoteSlots
  PROVE  SearchFits([search[r] EXCEPT !.phase = phase, !.slots = left])
<1>1. SearchFits(search[r])
  BY SearchFitsNow
<1>2. PICK s \in SearchRows : s = search[r]
  BY <1>1 DEF SearchFits
<1> DEFINE next == [search[r] EXCEPT !.phase = phase, !.slots = left]
<1>3. /\ next \in SearchRows /\ next.phase = phase /\ next.kind = s.kind
      /\ next.origin = s.origin /\ next.fence = s.fence /\ next.seen = s.seen
  BY <1>2 DEF SearchRows
<1> HIDE DEF next
<1>5. SearchFits(next)
  BY <1>1, <1>2, <1>3 DEF SearchFits, SearchRead
<1> QED
  BY <1>5 DEF next

LEMMA SearchLists ==
  ASSUME QuoteInv, NEW r \in Searches, CheckAvailability(r)
  PROVE  QuoteInv'
<1>1. UNCHANGED <<store, visit, quotes, tries, answer>>
  BY DEF CheckAvailability
<1>2a. search[r].phase = "staffed"
  BY DEF CheckAvailability
<1>2. search[r] # IdleSearch /\ search[r].phase # "asked"
  BY <1>2a DEF IdleSearch
<1>3. CASE GivesUp(r)
  BY <1>1, <1>3, SearchStep DEF GivesUp, Goes
<1>4. CASE ~ GivesUp(r)
  <2>1. PICK free \in SUBSET Starts, length \in Menus :
          Goes(r, [search[r] EXCEPT !.phase = "listed",
                          !.slots = {slot \in ProviderSlots(free, length) :
                                       availabilitySlotMatchesRetryOrigin(search[r], slot)}])
    BY <1>4 DEF CheckAvailability
  <2> DEFINE left == {slot \in ProviderSlots(free, length) :
                        availabilitySlotMatchesRetryOrigin(search[r], slot)}
  <2>2. ProviderSlots(free, length) \subseteq QuoteSlots
    BY DEF ProviderSlots, QuoteSlots
  <2>3. left \in SUBSET QuoteSlots
    BY <2>2
  <2> HIDE DEF left
  <2>4. "listed" \in SearchPhases \ {"asked"}
    BY DEF SearchPhases
  <2>5. SearchFits([search[r] EXCEPT !.phase = "listed", !.slots = left])
    BY <1>2, <2>3, <2>4, SlotsChosen
  <2>6. search' = [search EXCEPT ![r] = [search[r] EXCEPT !.phase = "listed", !.slots = left]]
    BY <2>1 DEF Goes, left
  <2> QED
    BY <1>1, <2>5, <2>6, SearchStep
<1> QED
  BY <1>3, <1>4

LEMMA SearchFilters ==
  ASSUME QuoteInv, NEW r \in Searches, FilterExternalClaimedSlots(r)
  PROVE  QuoteInv'
<1>1. UNCHANGED <<store, visit, quotes, tries, answer>>
  BY DEF FilterExternalClaimedSlots
<1>2. search[r] # IdleSearch /\ search[r].phase # "asked"
  BY DEF FilterExternalClaimedSlots, IdleSearch
<1> DEFINE left == {slot \in search[r].slots : slot.start \notin Held}
<1>3. left \in SUBSET QuoteSlots
  BY <1>2, SearchFitsNow DEF SearchFits, SearchRows
<1> HIDE DEF left
<1>4. "filtered" \in SearchPhases \ {"asked"}
  BY DEF SearchPhases
<1>5. SearchFits([search[r] EXCEPT !.phase = "filtered", !.slots = left])
  BY <1>2, <1>3, <1>4, SlotsChosen
<1>6. \/ search' = [search EXCEPT ![r] = IdleSearch]
      \/ search' = [search EXCEPT ![r] = [search[r] EXCEPT !.phase = "filtered", !.slots = left]]
  BY DEF FilterExternalClaimedSlots, GivesUp, Goes, left
<1> QED
  BY <1>1, <1>5, <1>6, SearchStep

-----------------------------------------------------------------------------
(* The quotes are written, expire and are deleted.                         *)

QuoteFits(q, quote) ==
    /\ quote \in QuoteRows
    /\ ReadBehind(store, quote.fence, quote.seen)
    /\ quote.provenance = "retry_origin" => RepeatsOrigin(q, quote)
SpentOn(Q, i) ==
    /\ tries[i].quote \in DOMAIN Q /\ Q[tries[i].quote] # Deleted
    /\ Q[tries[i].quote].consumedBy = i

LEMMA QuoteFitsNow ==
  ASSUME QuoteInv, NEW q \in DOMAIN quotes, quotes[q] # Deleted
  PROVE  QuoteFits(q, quotes[q])
BY DEF QuoteInv, QuoteTyped, QuoteReads, QuoteOrigins, QuotesRead, QuotesOrigin, QuoteFits

LEMMA QuotesStep ==
  ASSUME QuoteInv, UNCHANGED <<store, visit, tries, answer>>,
         search' = search \/ \E r \in Searches : search' = [search EXCEPT ![r] = IdleSearch],
         quotes' \in Seq(QuoteRows \cup {Deleted}), Len(quotes') <= MaxQuotes,
         DOMAIN quotes \subseteq DOMAIN quotes',
         \A q \in DOMAIN quotes' : quotes'[q] # Deleted => QuoteFits(q, quotes'[q]),
         \A i \in DOMAIN tries : SpentOn(quotes', i)
  PROVE  QuoteInv'
<1>0. search \in [Searches -> SearchRows \cup {IdleSearch}]
  BY DEF QuoteInv, QuoteTyped
<1>1. /\ search' \in [Searches -> SearchRows \cup {IdleSearch}]
      /\ \A r \in Searches : search'[r] # IdleSearch => search'[r] = search[r]
  <2>1. CASE search' = search
    BY <1>0, <2>1
  <2>2. CASE \E r \in Searches : search' = [search EXCEPT ![r] = IdleSearch]
    <3>1. PICK r \in Searches : search' = [search EXCEPT ![r] = IdleSearch]
      BY <2>2
    <3> QED
      BY <1>0, <3>1
  <2> QED
    BY <2>1, <2>2
<1>2. QuoteTyped' /\ QuoteBounded'
  BY <1>1 DEF QuoteInv, QuoteTyped, QuoteBounded
<1>3. SearchesRead(store)'
  BY <1>1 DEF QuoteInv, QuoteReads, SearchesRead, SearchRead, ReadBehind
<1>4. SearchesOrigin'
  BY <1>1 DEF QuoteInv, QuoteOrigins, SearchesOrigin
<1>5. QuotesRead(store)'
  BY DEF QuotesRead, QuoteFits, ReadBehind
<1>6. QuotesOrigin'
  BY DEF QuotesOrigin, QuoteFits, RepeatsOrigin
<1>7. AnswersRead(store)' /\ AnswersOrigin'
  BY DEF QuoteInv, QuoteReads, AnswersRead, QuoteOrigins, AnswersOrigin, ReadBehind
<1>8. TriesHaveQuotes'
  BY DEF TriesHaveQuotes, SpentOn
<1>9. TriesSound' /\ RetriesApart'
  BY DEF QuoteInv, QuoteClaims, TriesSound, RetriesApart, ClaimSound, RetrySound
<1> QED
  BY <1>2, <1>3, <1>4, <1>5, <1>6, <1>7, <1>8, <1>9
  DEF QuoteInv, QuoteReads, QuoteOrigins, QuoteClaims

LEMMA SpentNow ==
  ASSUME QuoteInv, NEW i \in DOMAIN tries
  PROVE  SpentOn(quotes, i)
BY DEF QuoteInv, QuoteClaims, TriesHaveQuotes, SpentOn

LEMMA QuoteWritten ==
  ASSUME QuoteInv, NEW r \in Searches, CreateAvailabilityQuote(r)
  PROVE  QuoteInv'
<1> DEFINE s == search[r]
<1>1. /\ UNCHANGED <<store, visit, tries, answer>> /\ s.phase = "filtered"
      /\ search' = [search EXCEPT ![r] = IdleSearch] /\ Len(quotes) < MaxQuotes
  BY DEF CreateAvailabilityQuote, GivesUp, Goes
<1>2. s # IdleSearch
  BY <1>1 DEF IdleSearch
<1>3. SearchFits(s)
  BY <1>2, SearchFitsNow
<1>4. quotes \in Seq(QuoteRows \cup {Deleted}) /\ store \in StoreRows
  BY DEF QuoteInv, QuoteTyped
<1>5. CASE ~ QuoteWritable(s)
  BY <1>1, <1>4, <1>5, QuoteFitsNow, SpentNow, QuotesStep DEF CreateAvailabilityQuote, QuoteInv,
     QuoteBounded
<1>6. CASE QuoteWritable(s)
  <2> DEFINE new == [provenance |-> Provenance(s),
                     version |-> IF s.kind = "book" THEN store.version ELSE 0,
                     origin |-> s.origin, target |-> s.target, fence |-> s.fence,
                     slots |-> s.slots, seen |-> s.seen, expired |-> FALSE, consumedBy |-> 0]
  <2>1. quotes' = Append(quotes, new)
    BY <1>6 DEF CreateAvailabilityQuote
  <2>2. /\ s.kind \in TryKinds /\ s.origin \in Nat /\ s.target \in Nat /\ s.fence \in QuoteFences
        /\ s.slots \in SUBSET QuoteSlots /\ s.seen \in SUBSET Menus
    BY <1>3 DEF SearchFits, SearchRows
  <2>3. Provenance(s) \in {"known", "retry_origin", "target_origin"}
        /\ (Provenance(s) = "retry_origin" => s.kind = "retry")
    BY <2>2 DEF Provenance, TryKinds
  <2>4. (IF s.kind = "book" THEN store.version ELSE 0) \in Nat
    BY <1>4 DEF StoreRows
  <2>5. new \in QuoteRows
    BY <2>2, <2>3, <2>4 DEF QuoteRows
  <2>6. ReadBehind(store, new.fence, new.seen)
    BY <1>1, <1>3 DEF SearchFits, SearchRead
  <2>7. new.provenance = "retry_origin" => RepeatsOrigin(Len(quotes) + 1, new)
    <3> SUFFICES ASSUME s.kind = "retry" PROVE RepeatsOrigin(Len(quotes) + 1, new)
      BY <2>3
    <3>1. s.origin \in DOMAIN tries
      BY <1>3 DEF SearchFits
    <3>2. s.slots = {[start |-> tries[s.origin].start, length |-> tries[s.origin].length]}
      BY <1>6 DEF QuoteWritable, validateRetryAvailabilityQuoteOriginTx
    <3>3. tries[s.origin].quote \in DOMAIN quotes
      BY <3>1, SpentNow DEF SpentOn
    <3>4. tries[s.origin].quote # Len(quotes) + 1
      BY <1>4, <3>3
    <3> QED
      BY <3>1, <3>2, <3>4 DEF RepeatsOrigin
  <2> HIDE DEF new
  <2>8. QuoteFits(Len(quotes) + 1, new)
    BY <2>5, <2>6, <2>7 DEF QuoteFits
  <2>9. /\ quotes' \in Seq(QuoteRows \cup {Deleted}) /\ Len(quotes') = Len(quotes) + 1
        /\ DOMAIN quotes' = DOMAIN quotes \cup {Len(quotes) + 1}
        /\ \A q \in DOMAIN quotes : quotes'[q] = quotes[q]
        /\ quotes'[Len(quotes) + 1] = new
    BY <1>4, <2>1, <2>5, AppendProperties
  <2>10. \A q \in DOMAIN quotes' : quotes'[q] # Deleted => QuoteFits(q, quotes'[q])
    BY <2>8, <2>9, QuoteFitsNow
  <2>11. \A i \in DOMAIN tries : SpentOn(quotes', i)
    BY <2>9, SpentNow DEF SpentOn
  <2>12. Len(quotes') <= MaxQuotes
    BY <1>1, <1>4, <2>9, QuoteConstants
  <2> QED
    BY <1>1, <2>9, <2>10, <2>11, <2>12, QuotesStep
<1> QED
  BY <1>5, <1>6

LEMMA QuoteExpired ==
  ASSUME QuoteInv, NEW q \in DOMAIN quotes, QuoteExpires(q)
  PROVE  QuoteInv'
<1>1. /\ UNCHANGED <<store, visit, search, tries, answer>> /\ quotes[q] # Deleted
      /\ quotes' = [quotes EXCEPT ![q].expired = TRUE]
  BY DEF QuoteExpires
<1>2. quotes \in Seq(QuoteRows \cup {Deleted}) /\ QuoteFits(q, quotes[q])
  BY <1>1, QuoteFitsNow DEF QuoteInv, QuoteTyped
<1>3. PICK old \in QuoteRows : old = quotes[q]
  BY <1>2 DEF QuoteFits
<1> DEFINE new == [old EXCEPT !.expired = TRUE]
<1>4. quotes' = [quotes EXCEPT ![q] = new]
  BY <1>1, <1>3
<1>5. /\ new \in QuoteRows /\ new.fence = old.fence /\ new.seen = old.seen
      /\ new.provenance = old.provenance /\ new.origin = old.origin /\ new.slots = old.slots
      /\ new.consumedBy = old.consumedBy
  BY DEF QuoteRows
<1> HIDE DEF new
<1>6. /\ quotes' \in Seq(QuoteRows \cup {Deleted}) /\ Len(quotes') = Len(quotes)
      /\ DOMAIN quotes' = DOMAIN quotes
      /\ \A p \in DOMAIN quotes : quotes'[p] = IF p = q THEN new ELSE quotes[p]
  BY <1>2, <1>4, <1>5, ExceptSeq
<1>7. new # Deleted
  BY <1>5 DEF QuoteRows, Deleted
<1>8. QuoteFits(q, new)
  BY <1>2, <1>3, <1>5 DEF QuoteFits, RepeatsOrigin
<1>9. \A p \in DOMAIN quotes' : quotes'[p] # Deleted => QuoteFits(p, quotes'[p])
  BY <1>6, <1>8, QuoteFitsNow
<1>10. \A i \in DOMAIN tries : SpentOn(quotes', i)
  BY <1>3, <1>5, <1>6, <1>7, SpentNow DEF SpentOn
<1>11. Len(quotes') <= MaxQuotes
  BY <1>6 DEF QuoteInv, QuoteBounded
<1> QED
  BY <1>1, <1>6, <1>9, <1>10, <1>11, QuotesStep

LEMMA QuotesCleaned ==
  ASSUME QuoteInv, CleanupAvailabilityQuotes
  PROVE  QuoteInv'
<1>1. /\ UNCHANGED <<store, visit, search, tries, answer>>
      /\ quotes' = [q \in DOMAIN quotes |-> IF Collectable(q) THEN Deleted ELSE quotes[q]]
  BY DEF CleanupAvailabilityQuotes
<1>2. quotes \in Seq(QuoteRows \cup {Deleted}) /\ Len(quotes) \in Nat
      /\ DOMAIN quotes = 1 .. Len(quotes)
  BY DEF QuoteInv, QuoteTyped
<1>3. \A q \in DOMAIN quotes :
        (IF Collectable(q) THEN Deleted ELSE quotes[q]) \in QuoteRows \cup {Deleted}
  BY <1>2
<1>4. /\ quotes' \in Seq(QuoteRows \cup {Deleted}) /\ Len(quotes') = Len(quotes)
      /\ DOMAIN quotes' = DOMAIN quotes
  BY <1>1, <1>2, <1>3, SeqDef, LenProperties
<1>5. \A q \in DOMAIN quotes' : quotes'[q] # Deleted => QuoteFits(q, quotes'[q])
  BY <1>1, <1>4, QuoteFitsNow
<1>6. \A i \in DOMAIN tries : SpentOn(quotes', i)
  <2> SUFFICES ASSUME NEW i \in DOMAIN tries PROVE SpentOn(quotes', i)
    OBVIOUS
  <2>1. SpentOn(quotes, i)
    BY SpentNow
  <2>2. ~ Collectable(tries[i].quote)
    BY DEF Collectable
  <2> QED
    BY <1>1, <1>4, <2>1, <2>2 DEF SpentOn
<1>7. Len(quotes') <= MaxQuotes
  BY <1>4 DEF QuoteInv, QuoteBounded
<1> QED
  BY <1>1, <1>4, <1>5, <1>6, <1>7, QuotesStep

-----------------------------------------------------------------------------
(* A caller takes a slot.                                                  *)

AnswerFits(a) ==
    /\ a \in AnswerRows
    /\ a.kind # "reschedule" => ReadBehind(store, a.fence, {a.menu})
    /\ a.quote \in DOMAIN quotes
    /\ a.kind = "retry" => a.origin \in DOMAIN tries
LEMMA AnswerFitsNow ==
  ASSUME QuoteInv, NEW c \in Customers, answer[c] # IdleAnswer
  PROVE  AnswerFits(answer[c])
BY DEF QuoteInv, QuoteTyped, QuoteReads, QuoteOrigins, AnswersRead, AnswersOrigin, AnswerFits

LEMMA AnswerStep ==
  ASSUME QuoteInv, UNCHANGED <<store, visit, search, quotes, tries>>,
         NEW c \in Customers, NEW next, answer' = [answer EXCEPT ![c] = next],
         next = IdleAnswer \/ AnswerFits(next)
  PROVE  QuoteInv'
<1>0. answer \in [Customers -> AnswerRows \cup {IdleAnswer}]
  BY DEF QuoteInv, QuoteTyped
<1>1. /\ answer' \in [Customers -> AnswerRows \cup {IdleAnswer}]
      /\ \A x \in Customers : answer'[x] = IF x = c THEN next ELSE answer[x]
  BY <1>0 DEF AnswerFits
<1>2. QuoteTyped' /\ QuoteBounded'
  BY <1>1 DEF QuoteInv, QuoteTyped, QuoteBounded
<1>3. AnswersRead(store)'
  BY <1>1 DEF QuoteInv, QuoteReads, AnswersRead, AnswerFits, ReadBehind
<1>4. AnswersOrigin'
  BY <1>1 DEF QuoteInv, QuoteOrigins, AnswersOrigin, AnswerFits
<1>5. SearchesRead(store)' /\ QuotesRead(store)'
  BY DEF QuoteInv, QuoteReads, SearchesRead, SearchRead, QuotesRead, ReadBehind
<1>6. SearchesOrigin' /\ QuotesOrigin'
  BY DEF QuoteInv, QuoteOrigins, SearchesOrigin, QuotesOrigin, RepeatsOrigin
<1>7. QuoteClaims'
  BY DEF QuoteInv, QuoteClaims, TriesHaveQuotes, TriesSound, RetriesApart, ClaimSound,
     RetrySound
<1> QED
  BY <1>2, <1>3, <1>4, <1>5, <1>6, <1>7 DEF QuoteInv, QuoteReads, QuoteOrigins

LEMMA ResolvedFits ==
  ASSUME QuoteInv, NEW kind \in TryKinds, NEW q \in DOMAIN quotes, quotes[q] # Deleted,
         NEW slot \in quotes[q].slots, NEW o \in Nat,
         kind = "retry" => o \in DOMAIN tries, kind # "reschedule" => store.synced
  PROVE  AnswerFits(resolveBookingSegments(kind, q, slot, o))
<1>1. QuoteFits(q, quotes[q])
  BY QuoteFitsNow
<1>2. q \in Nat /\ store \in StoreRows /\ visit \in VisitRows
  BY DEF QuoteInv, QuoteTyped
<1>3. slot \in QuoteSlots /\ quotes[q].fence \in QuoteFences
  BY <1>1 DEF QuoteFits, QuoteRows
<1>4. /\ Fence \in QuoteFences /\ store.menu \in Menus /\ visit.menu \in Menus
      /\ visit.version \in Nat
  BY <1>2 DEF StoreRows, VisitRows, Fence, QuoteFences
<1> DEFINE target == IF kind = "reschedule" THEN visit.version ELSE 0
           fence == IF kind = "reschedule" THEN quotes[q].fence ELSE Fence
           read == IF kind = "reschedule" THEN visit.menu ELSE store.menu
           a == [phase |-> "resolved", kind |-> kind, quote |-> q, slot |-> slot, origin |-> o,
                 target |-> target, fence |-> fence, menu |-> read]
<1>5. resolveBookingSegments(kind, q, slot, o) = a
  BY DEF resolveBookingSegments
<1>6. target \in Nat /\ fence \in QuoteFences /\ read \in Menus
  BY <1>3, <1>4
<1>7. a \in AnswerRows
  BY <1>2, <1>3, <1>6 DEF AnswerRows
<1>8. kind # "reschedule" => ReadBehind(store, fence, {read})
  BY <1>2 DEF ReadBehind, Fence, StoreRows
<1>9. AnswerFits(a)
  BY <1>7, <1>8 DEF AnswerFits
<1> QED
  BY <1>5, <1>9

LEMMA SlotAccepted ==
  ASSUME QuoteInv, NEW c \in Customers, AcceptSlot(c)
  PROVE  QuoteInv'
<1>1. UNCHANGED <<store, visit, search, quotes, tries>>
  BY DEF AcceptSlot
<1>2. PICK q \in DOMAIN quotes :
        /\ quotes[q] # Deleted
        /\ \E slot \in quotes[q].slots :
              \/ /\ store.synced
                 /\ answer' = [answer EXCEPT ![c] = resolveBookingSegments("book", q, slot, 0)]
              \/ /\ store.synced
                 /\ \E i \in {j \in DOMAIN tries : SafeRetryOrigin(j) /\ tries[j].customer = c} :
                      answer' = [answer EXCEPT ![c] = resolveBookingSegments("retry", q, slot, i)]
              \/ /\ visit.live /\ QuoteUsable(q)
                 /\ answer' = [answer EXCEPT ![c] = resolveBookingSegments("reschedule", q, slot, 0)]
  BY DEF AcceptSlot
<1>3. PICK slot \in quotes[q].slots :
              \/ /\ store.synced
                 /\ answer' = [answer EXCEPT ![c] = resolveBookingSegments("book", q, slot, 0)]
              \/ /\ store.synced
                 /\ \E i \in {j \in DOMAIN tries : SafeRetryOrigin(j) /\ tries[j].customer = c} :
                      answer' = [answer EXCEPT ![c] = resolveBookingSegments("retry", q, slot, i)]
              \/ /\ visit.live /\ QuoteUsable(q)
                 /\ answer' = [answer EXCEPT ![c] = resolveBookingSegments("reschedule", q, slot, 0)]
  BY <1>2
<1>4. \A i \in DOMAIN tries : i \in Nat
  BY DEF QuoteInv, QuoteTyped
<1>5. {"book", "retry", "reschedule"} \subseteq TryKinds /\ 0 \in Nat
  BY DEF TryKinds
<1>6. CASE /\ store.synced
           /\ answer' = [answer EXCEPT ![c] = resolveBookingSegments("book", q, slot, 0)]
  BY <1>1, <1>2, <1>5, <1>6, ResolvedFits, AnswerStep
<1>7. CASE /\ store.synced
           /\ \E i \in {j \in DOMAIN tries : SafeRetryOrigin(j) /\ tries[j].customer = c} :
                answer' = [answer EXCEPT ![c] = resolveBookingSegments("retry", q, slot, i)]
  <2>0. PICK i \in DOMAIN tries :
          answer' = [answer EXCEPT ![c] = resolveBookingSegments("retry", q, slot, i)]
    BY <1>7
  <2>1. AnswerFits(resolveBookingSegments("retry", q, slot, i))
    BY <1>2, <1>4, <1>5, <1>7, ResolvedFits
  <2> QED
    BY <1>1, <2>0, <2>1, AnswerStep
<1>8. CASE answer' = [answer EXCEPT ![c] = resolveBookingSegments("reschedule", q, slot, 0)]
  BY <1>1, <1>2, <1>5, <1>8, ResolvedFits, AnswerStep
<1> QED
  BY <1>3, <1>6, <1>7, <1>8

-----------------------------------------------------------------------------
(* The attempts are written, settle and give way.                          *)

KeepsTry(old, new) ==
    /\ new.kind = old.kind /\ new.quote = old.quote /\ new.start = old.start
    /\ new.length = old.length /\ new.menu = old.menu /\ new.fence = old.fence
    /\ new.origin = old.origin /\ new.target = old.target /\ new.seen = old.seen
    /\ new.visit = old.visit /\ new.now = old.now
    /\ old.superseded => new.superseded
KeepTries(T, U) == DOMAIN T \subseteq DOMAIN U /\ \A i \in DOMAIN T : KeepsTry(T[i], U[i])

LEMMA OriginsStay ==
  ASSUME QuoteInv, KeepTries(tries, tries'), UNCHANGED <<search, quotes>>
  PROVE  SearchesOrigin' /\ QuotesOrigin'
<1>1. SearchesOrigin'
  BY DEF QuoteInv, QuoteOrigins, SearchesOrigin, KeepTries
<1>2. QuotesOrigin'
  BY DEF QuoteInv, QuoteOrigins, QuotesOrigin, RepeatsOrigin, KeepTries, KeepsTry
<1> QED
  BY <1>1, <1>2

LEMMA TrySettles ==
  ASSUME QuoteInv, NEW i \in DOMAIN tries, Settles(i)
  PROVE  QuoteInv'
<1>1. UNCHANGED <<store, search, quotes, answer>>
  BY DEF Settles
<1>2. tries \in Seq(TryRows) /\ visit \in VisitRows /\ store \in StoreRows
  BY DEF QuoteInv, QuoteTyped
<1>3. PICK status \in {"confirmed", "fallback_safe"} : tries' = [tries EXCEPT ![i].status = status]
  BY DEF Settles
<1>4. PICK old \in TryRows : old = tries[i]
  BY <1>2
<1> DEFINE new == [old EXCEPT !.status = status]
<1>5. tries' = [tries EXCEPT ![i] = new]
  BY <1>3, <1>4
<1>6. new \in TryRows /\ KeepsTry(old, new)
  BY DEF TryRows, TryStatuses, KeepsTry
<1> HIDE DEF new
<1>7. /\ tries' \in Seq(TryRows) /\ DOMAIN tries' = DOMAIN tries
      /\ \A j \in DOMAIN tries : tries'[j] = IF j = i THEN new ELSE tries[j]
  BY <1>2, <1>5, <1>6, ExceptSeq
<1>8. KeepTries(tries, tries')
  BY <1>4, <1>6, <1>7 DEF KeepTries, KeepsTry
<1>9. visit' \in VisitRows /\ QuoteBounded'
  <2>1. CASE visit' = visit
    BY <1>1, <1>2, <2>1 DEF QuoteInv, QuoteBounded
  <2>2. CASE visit' = [visit EXCEPT !.version = @ + 1] /\ Undisturbed
    <3>1. PICK l \in BOOLEAN, v \in Nat, m \in Menus :
            visit = [live |-> l, version |-> v, menu |-> m]
      BY <1>2 DEF VisitRows
    <3>2. visit' = [live |-> l, version |-> v + 1, menu |-> m]
      BY <2>2, <3>1
    <3>3. visit' \in VisitRows
      BY <3>2 DEF VisitRows
    <3>4. store.generation + store.version + v < MaxDisturbances + 3
      BY <2>2, <3>1 DEF Undisturbed
    <3>5. store.generation \in Nat /\ store.version \in Nat
      BY <1>2 DEF StoreRows
    <3> QED
      BY <1>1, <3>1, <3>2, <3>3, <3>4, <3>5, QuoteConstants DEF QuoteInv, QuoteBounded
  <2> QED
    BY <2>1, <2>2 DEF Settles
<1>10. QuoteTyped'
  BY <1>1, <1>7, <1>9 DEF QuoteInv, QuoteTyped
<1>11. QuoteReads'
  BY <1>1 DEF QuoteInv, QuoteReads, SearchesRead, SearchRead, QuotesRead, AnswersRead, ReadBehind
<1>12. SearchesOrigin' /\ QuotesOrigin'
  BY <1>1, <1>8, OriginsStay
<1>13. AnswersOrigin'
  BY <1>1, <1>7 DEF QuoteInv, QuoteOrigins, AnswersOrigin
<1>14. TriesHaveQuotes'
  BY <1>1, <1>7, <1>8 DEF QuoteInv, QuoteClaims, TriesHaveQuotes, KeepTries, KeepsTry
<1>15. TriesSound'
  <2> SUFFICES ASSUME NEW j \in DOMAIN tries
               PROVE  /\ ClaimSound(tries'[j])
                      /\ tries'[j].kind = "retry" =>
                            /\ tries'[j].origin \in DOMAIN tries
                            /\ RetrySound(tries'[j], tries'[tries'[j].origin])
    BY <1>7 DEF TriesSound
  <2>1. ClaimSound(tries[j])
    BY DEF QuoteInv, QuoteClaims, TriesSound
  <2>2. KeepsTry(tries[j], tries'[j])
    BY <1>8 DEF KeepTries
  <2>3. ClaimSound(tries'[j])
    BY <2>1, <2>2 DEF ClaimSound, KeepsTry
  <2>4. ASSUME tries[j].kind = "retry"
        PROVE  /\ tries[j].origin \in DOMAIN tries
               /\ RetrySound(tries'[j], tries'[tries[j].origin])
    BY <1>8, <2>2, <2>4 DEF QuoteInv, QuoteClaims, TriesSound, KeepTries, RetrySound, KeepsTry
  <2> QED
    BY <2>2, <2>3, <2>4 DEF KeepsTry
<1>16. RetriesApart'
  BY <1>7, <1>8 DEF QuoteInv, QuoteClaims, RetriesApart, KeepTries, KeepsTry
<1> QED
  BY <1>9, <1>10, <1>11, <1>12, <1>13, <1>14, <1>15, <1>16 DEF QuoteInv, QuoteOrigins, QuoteClaims

(* A request that can be claimed: the quote's fence is the present one, so *)
(* what was seen behind it, and what was resolved for it, is of the        *)
(* present import.                                                         *)
LEMMA ClaimedNow ==
  ASSUME QuoteInv, NEW c \in Customers, answer[c] # IdleAnswer, Claimable(c)
  PROVE  LET a == answer[c] IN
         /\ store.synced /\ a.fence = quotes[a.quote].fence /\ a.fence.place = store.place
         /\ quotes[a.quote] # Deleted /\ quotes[a.quote].seen = {store.menu}
         /\ a.kind # "reschedule" => a.menu = store.menu
<1> DEFINE a == answer[c]
<1>1. AnswerFits(a) /\ a.quote \in DOMAIN quotes
  BY AnswerFitsNow DEF AnswerFits
<1>2. /\ quotes[a.quote] # Deleted /\ FenceStands(quotes[a.quote].fence)
      /\ a.fence = quotes[a.quote].fence
  BY DEF Claimable, loadAvailabilityQuoteProviderFenceTx, QuoteUsable
<1>3. QuoteFits(a.quote, quotes[a.quote])
  BY <1>1, <1>2, QuoteFitsNow
<1>4. a.fence = Fence /\ store.synced
  BY <1>2 DEF FenceStands
<1>5. a.fence.generation = store.generation /\ a.fence.place = store.place
  BY <1>4 DEF Fence
<1>6. quotes[a.quote].seen = {store.menu}
  BY <1>2, <1>3, <1>5 DEF QuoteFits, ReadBehind
<1>7. a.kind # "reschedule" => a.menu = store.menu
  BY <1>1, <1>5 DEF AnswerFits, ReadBehind
<1> QED
  BY <1>2, <1>4, <1>5, <1>6, <1>7

(* The quote of the request is not of an attempt: of the retried one it    *)
(* was written later.                                                      *)
LEMMA QuoteUnspent ==
  ASSUME QuoteInv, NEW c \in Customers, answer[c] # IdleAnswer, Claimable(c),
         NEW i \in DOMAIN tries
  PROVE  tries[i].quote # answer[c].quote
<1> DEFINE a == answer[c]
<1>1. AnswerFits(a) /\ a.quote \in DOMAIN quotes
  BY AnswerFitsNow DEF AnswerFits
<1>2. /\ quotes[a.quote] # Deleted
      /\ quotes[a.quote].consumedBy \in IF a.kind = "retry" THEN {0, a.origin} ELSE {0}
  BY DEF Claimable, loadAvailabilityQuoteProviderFenceTx, QuoteUsable, Consumable
<1>3. SUFFICES ASSUME tries[i].quote = a.quote PROVE FALSE
  OBVIOUS
<1>4. quotes[a.quote].consumedBy = i /\ i # 0
  BY <1>3, SpentNow DEF QuoteInv, QuoteTyped, SpentOn
<1>5. a.kind = "retry" /\ a.origin = i
  BY <1>2, <1>4
<1>6. quotes[a.quote].provenance = "retry_origin" /\ quotes[a.quote].origin = i
  BY <1>5 DEF Claimable, loadAvailabilityQuoteProviderFenceTx, QuoteFor
<1>7. RepeatsOrigin(a.quote, quotes[a.quote])
  BY <1>1, <1>2, <1>6, QuoteFitsNow DEF QuoteFits
<1> QED
  BY <1>3, <1>6, <1>7 DEF RepeatsOrigin

LEMMA RetryRepeats ==
  ASSUME QuoteInv, NEW c \in Customers, answer[c] # IdleAnswer, Claimable(c),
         answer[c].kind = "retry"
  PROVE  LET a == answer[c] IN
         /\ a.origin \in DOMAIN tries /\ ~ tries[a.origin].superseded
         /\ a.slot.start = tries[a.origin].start /\ a.menu = tries[a.origin].length
         /\ a.fence.place = tries[a.origin].fence.place
<1> DEFINE a == answer[c]
<1>1. AnswerFits(a) /\ a.quote \in DOMAIN quotes /\ a.origin \in DOMAIN tries
  BY AnswerFitsNow DEF AnswerFits
<1>2. ~ tries[a.origin].superseded /\ a.fence.place = tries[a.origin].fence.place
  BY DEF Claimable, Retries, SafeRetryOrigin, sameRetryProviderLocation
<1>3. /\ quotes[a.quote] # Deleted /\ quotes[a.quote].provenance = "retry_origin"
      /\ quotes[a.quote].origin = a.origin
  BY DEF Claimable, loadAvailabilityQuoteProviderFenceTx, QuoteUsable, QuoteFor
<1>4. RepeatsOrigin(a.quote, quotes[a.quote])
  BY <1>1, <1>3, QuoteFitsNow DEF QuoteFits
<1>5. [start |-> a.slot.start, length |-> a.menu] \in quotes[a.quote].slots
  BY DEF Claimable, Consumable
<1> QED
  BY <1>1, <1>2, <1>3, <1>4, <1>5 DEF RepeatsOrigin

(* The attempt that is written.                                            *)
LEMMA NewTrySound ==
  ASSUME QuoteInv, NEW c \in Customers, answer[c] # IdleAnswer, Claimable(c)
  PROVE  /\ NewTry(c) \in TryRows /\ ClaimSound(NewTry(c))
         /\ NewTry(c).kind = answer[c].kind /\ NewTry(c).quote = answer[c].quote
         /\ NewTry(c).origin = answer[c].origin /\ NewTry(c).start = answer[c].slot.start
         /\ NewTry(c).length = answer[c].menu /\ NewTry(c).fence = answer[c].fence
<1> DEFINE a == answer[c]
           status == IF a.slot.start \in Held THEN "slot_conflict" ELSE "pos_pending"
           moved == IF a.kind = "reschedule" THEN visit.version ELSE 0
           now == [synced |-> store.synced, place |-> store.place, menu |-> store.menu,
                   external |-> store.external]
           new == [kind |-> a.kind, customer |-> c, quote |-> a.quote, start |-> a.slot.start,
                   length |-> a.menu, menu |-> a.menu, fence |-> a.fence, origin |-> a.origin,
                   status |-> status, superseded |-> FALSE, target |-> a.target,
                   seen |-> quotes[a.quote].seen, visit |-> moved, now |-> now]
<1>1. NewTry(c) = new
  BY DEF NewTry
<1>2. AnswerFits(a) /\ a \in AnswerRows /\ a.quote \in DOMAIN quotes
  BY AnswerFitsNow DEF AnswerFits
<1>3. /\ store.synced /\ a.fence.place = store.place
      /\ quotes[a.quote] # Deleted /\ quotes[a.quote].seen = {store.menu}
      /\ a.kind # "reschedule" => a.menu = store.menu
  BY ClaimedNow
<1>4. store \in StoreRows /\ visit \in VisitRows
  BY DEF QuoteInv, QuoteTyped
<1>5. /\ a.kind \in TryKinds /\ a.quote \in Nat /\ a.slot \in QuoteSlots /\ a.origin \in Nat
      /\ a.target \in Nat /\ a.fence \in QuoteFences /\ a.menu \in Menus
  BY <1>2 DEF AnswerRows
<1>6. now \in ClaimMoments
  BY <1>4 DEF StoreRows, ClaimMoments
<1>7. /\ a.slot.start \in Starts /\ moved \in Nat /\ {store.menu} \in SUBSET Menus
      /\ status \in TryStatuses
  BY <1>4, <1>5 DEF QuoteSlots, VisitRows, StoreRows, TryStatuses
<1>8. /\ now.synced = store.synced /\ now.place = store.place /\ now.menu = store.menu
      /\ now.external = store.external
  OBVIOUS
<1>9. a.kind = "book" => store.external
  BY DEF Claimable, AuthorityStands
<1>10. a.kind = "reschedule" => a.target = moved
  BY DEF Claimable, TargetStands
<1> HIDE DEF status, moved, now
<1>11. new \in TryRows
  BY <1>3, <1>5, <1>6, <1>7 DEF TryRows
<1>12. ClaimSound(new)
  BY <1>3, <1>8, <1>9, <1>10 DEF ClaimSound
<1> QED
  BY <1>1, <1>11, <1>12

LEMMA GivesWay ==
  ASSUME QuoteInv, NEW a, a.kind = "retry" => a.origin \in DOMAIN tries
  PROVE  /\ Superseded(a) \in Seq(TryRows) /\ Len(Superseded(a)) = Len(tries)
         /\ DOMAIN Superseded(a) = DOMAIN tries
         /\ KeepTries(tries, Superseded(a))
         /\ a.kind = "retry" => Superseded(a)[a.origin].superseded
<1>1. tries \in Seq(TryRows) /\ Len(tries) \in Nat /\ DOMAIN tries = 1 .. Len(tries)
  BY DEF QuoteInv, QuoteTyped
<1>2. CASE a.kind # "retry"
  BY <1>1, <1>2 DEF Superseded, KeepTries, KeepsTry
<1>3. CASE a.kind = "retry"
  <2>1. PICK old \in TryRows : old = tries[a.origin]
    BY <1>1, <1>3
  <2> DEFINE new == [old EXCEPT !.superseded = TRUE]
  <2>2. Superseded(a) = [tries EXCEPT ![a.origin] = new]
    BY <1>3, <2>1 DEF Superseded
  <2>3. new \in TryRows /\ KeepsTry(old, new) /\ new.superseded
    BY DEF TryRows, KeepsTry
  <2> HIDE DEF new
  <2>4. /\ Superseded(a) \in Seq(TryRows) /\ Len(Superseded(a)) = Len(tries)
        /\ DOMAIN Superseded(a) = DOMAIN tries
        /\ \A j \in DOMAIN tries : Superseded(a)[j] = IF j = a.origin THEN new ELSE tries[j]
    BY <1>1, <1>3, <2>2, <2>3, ExceptSeq
  <2> QED
    BY <1>3, <2>1, <2>3, <2>4 DEF KeepTries, KeepsTry
<1> QED
  BY <1>2, <1>3

LEMMA OperationClaimed ==
  ASSUME QuoteInv, NEW c \in Customers, answer[c] # IdleAnswer, Claimable(c),
         UNCHANGED <<store, visit, search>>,
         tries' = Append(Superseded(answer[c]), NewTry(c)),
         quotes' = [quotes EXCEPT ![answer[c].quote].consumedBy = Len(tries) + 1],
         answer' = [answer EXCEPT ![c] = IdleAnswer]
  PROVE  QuoteInv'
<1> DEFINE a == answer[c]
           n == Len(tries) + 1
           new == NewTry(c)
<1>1. /\ tries \in Seq(TryRows) /\ Len(tries) \in Nat /\ DOMAIN tries = 1 .. Len(tries)
      /\ quotes \in Seq(QuoteRows \cup {Deleted}) /\ n \in Nat
      /\ answer \in [Customers -> AnswerRows \cup {IdleAnswer}]
  BY DEF QuoteInv, QuoteTyped
<1>2. AnswerFits(a) /\ a.quote \in DOMAIN quotes /\ (a.kind = "retry" => a.origin \in DOMAIN tries)
  BY AnswerFitsNow DEF AnswerFits
<1>3. quotes[a.quote] # Deleted
  BY ClaimedNow
<1>4. /\ new \in TryRows /\ ClaimSound(new) /\ new.kind = a.kind /\ new.quote = a.quote
      /\ new.origin = a.origin /\ new.start = a.slot.start /\ new.length = a.menu
      /\ new.fence = a.fence
  BY NewTrySound
<1> HIDE DEF new
<1>5. /\ Superseded(a) \in Seq(TryRows) /\ Len(Superseded(a)) = Len(tries)
      /\ DOMAIN Superseded(a) = DOMAIN tries
      /\ KeepTries(tries, Superseded(a))
      /\ a.kind = "retry" => Superseded(a)[a.origin].superseded
  BY <1>2, GivesWay
<1>6. tries' = Append(Superseded(a), new)
  BY DEF new
<1>7. /\ tries' \in Seq(TryRows) /\ DOMAIN tries' = DOMAIN tries \cup {n}
      /\ \A i \in DOMAIN tries : tries'[i] = Superseded(a)[i]
      /\ tries'[n] = new
  BY <1>1, <1>4, <1>5, <1>6, AppendProperties
<1>8. KeepTries(tries, tries')
  BY <1>5, <1>7 DEF KeepTries
<1>9. PICK old \in QuoteRows : old = quotes[a.quote]
  BY <1>1, <1>2, <1>3
<1> DEFINE spent == [old EXCEPT !.consumedBy = n]
<1>10. quotes' = [quotes EXCEPT ![a.quote] = spent]
  BY <1>9
<1>11. /\ spent \in QuoteRows /\ spent.fence = old.fence /\ spent.seen = old.seen
       /\ spent.provenance = old.provenance /\ spent.origin = old.origin
       /\ spent.slots = old.slots /\ spent.consumedBy = n
  BY <1>1 DEF QuoteRows
<1> HIDE DEF spent
<1>11a. PICK p \in DOMAIN quotes : p = a.quote
  BY <1>2
<1>11b. quotes' = [quotes EXCEPT ![p] = spent]
  BY <1>10, <1>11a
<1>11c. /\ quotes' \in Seq(QuoteRows \cup {Deleted}) /\ Len(quotes') = Len(quotes)
        /\ DOMAIN quotes' = DOMAIN quotes
        /\ \A q \in DOMAIN quotes : quotes'[q] = IF q = p THEN spent ELSE quotes[q]
  <2>1. quotes \in Seq(QuoteRows \cup {Deleted}) /\ p \in 1 .. Len(quotes)
        /\ spent \in QuoteRows \cup {Deleted}
    BY <1>1, <1>11
  <2> DEFINE S == QuoteRows \cup {Deleted}
  <2>2. /\ [quotes EXCEPT ![p] = spent] \in Seq(S)
        /\ Len([quotes EXCEPT ![p] = spent]) = Len(quotes)
        /\ \A q \in 1 .. Len(quotes) :
              [quotes EXCEPT ![p] = spent][q] = IF q = p THEN spent ELSE quotes[q]
    BY <2>1, ExceptSeq DEF S
  <2>3. DOMAIN quotes = 1 .. Len(quotes) /\ DOMAIN quotes' = 1 .. Len(quotes)
    BY <1>11b, <2>1
  <2> QED
    BY <1>11b, <2>2, <2>3
<1>12. /\ quotes' \in Seq(QuoteRows \cup {Deleted}) /\ Len(quotes') = Len(quotes)
       /\ DOMAIN quotes' = DOMAIN quotes
       /\ \A q \in DOMAIN quotes : quotes'[q] = IF q = a.quote THEN spent ELSE quotes[q]
  BY <1>11a, <1>11c
<1>13. spent # Deleted
  BY <1>11 DEF QuoteRows, Deleted
<1>14. /\ answer' \in [Customers -> AnswerRows \cup {IdleAnswer}]
       /\ \A x \in Customers : answer'[x] # IdleAnswer => answer'[x] = answer[x]
  BY <1>1
<1>15. QuoteTyped' /\ QuoteBounded'
  BY <1>7, <1>12, <1>14 DEF QuoteInv, QuoteTyped, QuoteBounded
<1>16. SearchesRead(store)' /\ SearchesOrigin'
  BY <1>7 DEF QuoteInv, QuoteReads, SearchesRead, SearchRead, ReadBehind, QuoteOrigins,
     SearchesOrigin
<1>17. QuotesRead(store)'
  <2> SUFFICES ASSUME NEW q \in DOMAIN quotes, quotes'[q] # Deleted
               PROVE  ReadBehind(store, quotes'[q].fence, quotes'[q].seen)
    BY <1>12 DEF QuotesRead, ReadBehind
  <2>1. /\ quotes[q] # Deleted /\ quotes'[q].fence = quotes[q].fence
        /\ quotes'[q].seen = quotes[q].seen
    BY <1>3, <1>9, <1>11, <1>12
  <2> QED
    BY <2>1 DEF QuoteInv, QuoteReads, QuotesRead
<1>18. AnswersRead(store)' /\ AnswersOrigin'
  BY <1>7, <1>12, <1>14 DEF QuoteInv, QuoteReads, AnswersRead, ReadBehind, QuoteOrigins,
     AnswersOrigin
<1>19. QuotesOrigin'
  <2> SUFFICES ASSUME NEW q \in DOMAIN quotes, quotes'[q] # Deleted,
                      quotes'[q].provenance = "retry_origin"
               PROVE  RepeatsOrigin(q, quotes[q])'
    BY <1>12 DEF QuotesOrigin
  <2>1. /\ quotes[q] # Deleted /\ quotes'[q].origin = quotes[q].origin
        /\ quotes'[q].slots = quotes[q].slots /\ quotes[q].provenance = "retry_origin"
    BY <1>3, <1>9, <1>11, <1>12
  <2>2. RepeatsOrigin(q, quotes[q])
    BY <2>1 DEF QuoteInv, QuoteOrigins, QuotesOrigin
  <2>3. KeepsTry(tries[quotes[q].origin], tries'[quotes[q].origin])
    BY <1>8, <2>2 DEF KeepTries, RepeatsOrigin
  <2>4. /\ quotes[q].origin \in DOMAIN tries'
        /\ tries'[quotes[q].origin].quote # q
        /\ \A slot \in quotes[q].slots :
              /\ slot.start = tries'[quotes[q].origin].start
              /\ slot.length = tries'[quotes[q].origin].length
    BY <1>7, <2>2, <2>3 DEF RepeatsOrigin, KeepsTry
  <2> QED
    BY <2>1, <2>4 DEF RepeatsOrigin
<1>20. TriesHaveQuotes'
  <2> SUFFICES ASSUME NEW i \in DOMAIN tries'
               PROVE  /\ tries'[i].quote \in DOMAIN quotes' /\ quotes'[tries'[i].quote] # Deleted
                      /\ quotes'[tries'[i].quote].consumedBy = i
    BY DEF TriesHaveQuotes
  <2>1. CASE i = n
    BY <1>2, <1>4, <1>7, <1>11, <1>12, <1>13, <2>1
  <2>2. CASE i \in DOMAIN tries
    BY <1>8, <1>12, <2>2, SpentNow, QuoteUnspent DEF KeepTries, KeepsTry, SpentOn
  <2> QED
    BY <1>7, <2>1, <2>2
<1>21. TriesSound'
  <2> SUFFICES ASSUME NEW i \in DOMAIN tries'
               PROVE  /\ ClaimSound(tries'[i])
                      /\ tries'[i].kind = "retry" =>
                            /\ tries'[i].origin \in DOMAIN tries'
                            /\ RetrySound(tries'[i], tries'[tries'[i].origin])
    BY DEF TriesSound
  <2>1. CASE i = n
    <3>1. ClaimSound(tries'[i]) /\ tries'[i] = new
      BY <1>4, <1>7, <2>1
    <3>2. ASSUME new.kind = "retry"
          PROVE  /\ new.origin \in DOMAIN tries' /\ RetrySound(new, tries'[new.origin])
      <4>1. /\ a.origin \in DOMAIN tries /\ a.slot.start = tries[a.origin].start
            /\ a.menu = tries[a.origin].length /\ a.fence.place = tries[a.origin].fence.place
        BY <1>4, <3>2, RetryRepeats
      <4>2. tries'[a.origin].superseded /\ KeepsTry(tries[a.origin], tries'[a.origin])
        BY <1>4, <1>5, <1>7, <1>8, <3>2, <4>1 DEF KeepTries
      <4> QED
        BY <1>4, <1>7, <4>1, <4>2 DEF RetrySound, KeepsTry
    <3> QED
      BY <3>1, <3>2
  <2>2. CASE i \in DOMAIN tries
    <3>1. ClaimSound(tries[i]) /\ KeepsTry(tries[i], tries'[i])
      BY <1>8, <2>2 DEF QuoteInv, QuoteClaims, TriesSound, KeepTries
    <3>2. ClaimSound(tries'[i])
      BY <3>1 DEF ClaimSound, KeepsTry
    <3>3. ASSUME tries[i].kind = "retry"
          PROVE  /\ tries[i].origin \in DOMAIN tries' /\ RetrySound(tries'[i], tries'[tries[i].origin])
      BY <1>7, <1>8, <2>2, <3>1, <3>3 DEF QuoteInv, QuoteClaims, TriesSound, KeepTries,
         RetrySound, KeepsTry
    <3> QED
      BY <3>1, <3>2, <3>3 DEF KeepsTry
  <2> QED
    BY <1>7, <2>1, <2>2
<1>22. RetriesApart'
  <2>1. \A i, j \in DOMAIN tries :
          i # j /\ tries'[i].kind = "retry" /\ tries'[j].kind = "retry" =>
              tries'[j].origin # tries'[i].origin
    BY <1>8 DEF QuoteInv, QuoteClaims, RetriesApart, KeepTries, KeepsTry
  <2>2. \A i \in DOMAIN tries :
          tries'[i].kind = "retry" /\ new.kind = "retry" => tries'[i].origin # new.origin
    <3> SUFFICES ASSUME NEW i \in DOMAIN tries, tries'[i].kind = "retry", new.kind = "retry"
                 PROVE  tries'[i].origin # new.origin
      OBVIOUS
    <3>1. KeepsTry(tries[i], tries'[i])
      BY <1>8 DEF KeepTries
    <3>2. tries[tries[i].origin].superseded
      BY <3>1 DEF KeepsTry, QuoteInv, QuoteClaims, TriesSound, RetrySound
    <3>3. ~ tries[a.origin].superseded
      BY <1>4, RetryRepeats
    <3> QED
      BY <1>4, <3>1, <3>2, <3>3 DEF KeepsTry
  <2> QED
    BY <1>7, <2>1, <2>2 DEF RetriesApart
<1> QED
  BY <1>15, <1>16, <1>17, <1>18, <1>19, <1>20, <1>21, <1>22
  DEF QuoteInv, QuoteReads, QuoteOrigins, QuoteClaims

LEMMA ClaimStep ==
  ASSUME QuoteInv, NEW c \in Customers, claimPendingOperation(c)
  PROVE  QuoteInv'
<1>1. /\ UNCHANGED <<store, visit, search>> /\ answer[c].phase = "resolved"
      /\ answer' = [answer EXCEPT ![c] = IdleAnswer]
  BY DEF claimPendingOperation
<1>2. answer[c] # IdleAnswer
  BY <1>1 DEF IdleAnswer
<1>3. CASE Claimable(c)
  BY <1>1, <1>2, <1>3, OperationClaimed DEF claimPendingOperation
<1>4. CASE ~ Claimable(c)
  BY <1>1, <1>4, AnswerStep DEF claimPendingOperation
<1> QED
  BY <1>3, <1>4

-----------------------------------------------------------------------------
LEMMA QuoteUnchanged ==
  ASSUME QuoteInv, UNCHANGED quoteVars
  PROVE  QuoteInv'
<1>1. QuoteTyped' /\ QuoteBounded'
  BY DEF quoteVars, QuoteInv, QuoteTyped, QuoteBounded
<1>2. QuoteReads'
  BY DEF quoteVars, QuoteInv, QuoteReads, SearchesRead, SearchRead, QuotesRead, AnswersRead,
     ReadBehind
<1>3. QuoteOrigins'
  BY DEF quoteVars, QuoteInv, QuoteOrigins, SearchesOrigin, AnswersOrigin, QuotesOrigin,
     RepeatsOrigin
<1>4. QuoteClaims'
  BY DEF quoteVars, QuoteInv, QuoteClaims, TriesHaveQuotes, TriesSound, RetriesApart,
     ClaimSound, RetrySound
<1> QED
  BY <1>1, <1>2, <1>3, <1>4 DEF QuoteInv

LEMMA QuoteInductive == QuoteInv /\ [QuoteNext]_quoteVars => QuoteInv'
<1> SUFFICES ASSUME QuoteInv, [QuoteNext]_quoteVars PROVE QuoteInv'
  OBVIOUS
<1>1. CASE \/ SnapshotBegins \/ AuthoritySwitches
           \/ \E m \in Menus : SnapshotApplied(m)
           \/ \E p \in Places : LocationMoves(p)
  BY <1>1, StoreActions
<1>2. CASE \E live \in BOOLEAN : VisitChanges(live)
  BY <1>2, VisitStep
<1>3. CASE \E r \in Searches : AvailableSlots(r)
  BY <1>3, SearchBegins
<1>4. CASE \E r \in Searches : resolveAvailabilitySegments(r)
  BY <1>4, FirstServiceSeen
<1>5. CASE \E r \in Searches : GetSchedule(r) \/ bookableStaffByPOSID(r)
  BY <1>5, SearchSees
<1>6. CASE \E r \in Searches : CheckAvailability(r)
  BY <1>6, SearchLists
<1>7. CASE \E r \in Searches : FilterExternalClaimedSlots(r)
  BY <1>7, SearchFilters
<1>8. CASE \E r \in Searches : CreateAvailabilityQuote(r)
  BY <1>8, QuoteWritten
<1>9. CASE \E q \in DOMAIN quotes : QuoteExpires(q)
  BY <1>9, QuoteExpired
<1>10. CASE CleanupAvailabilityQuotes
  BY <1>10, QuotesCleaned
<1>11. CASE \E c \in Customers : AcceptSlot(c)
  BY <1>11, SlotAccepted
<1>12. CASE \E c \in Customers : claimPendingOperation(c)
  BY <1>12, ClaimStep
<1>13. CASE \E i \in DOMAIN tries : Settles(i)
  BY <1>13, TrySettles
<1>14. CASE UNCHANGED quoteVars
  BY <1>14, QuoteUnchanged
<1> QED
  BY <1>1, <1>2, <1>3, <1>4, <1>5, <1>6, <1>7, <1>8, <1>9, <1>10, <1>11, <1>12, <1>13, <1>14
  DEF QuoteNext

LEMMA QuotesClaimedAsOffered == QuoteInv => QuoteTypeOK /\ ClaimedAsOffered
<1> SUFFICES ASSUME QuoteInv PROVE QuoteTypeOK /\ ClaimedAsOffered
  OBVIOUS
<1>1. tries \in Seq(TryRows) /\ DOMAIN tries = 1 .. Len(tries)
  BY DEF QuoteInv, QuoteTyped
<1>2. QuoteTypeOK
  <2>1. {store.generation, store.version, visit.version} \subseteq 1 .. MaxDisturbances + 1
    BY QuoteConstants DEF QuoteInv, QuoteTyped, QuoteBounded, StoreRows, VisitRows
  <2>2. \A i \in DOMAIN tries :
          tries[i].status \in {"pos_pending", "slot_conflict", "confirmed", "fallback_safe"}
    <3>1. \A i \in DOMAIN tries : tries[i] \in TryRows
      BY <1>1
    <3> QED
      BY <3>1 DEF TryRows, TryStatuses
  <2> QED
    BY <2>1, <2>2 DEF QuoteTypeOK, QuoteInv, QuoteTyped, QuoteBounded, StoreRows
<1>3. \A i \in DOMAIN tries : ClaimSound(tries[i]) /\ SpentOn(quotes, i)
  BY SpentNow DEF QuoteInv, QuoteClaims, TriesSound
<1>4. \A i \in DOMAIN tries : tries[i].kind = "retry" =>
        RetrySound(tries[i], tries[tries[i].origin])
  BY DEF QuoteInv, QuoteClaims, TriesSound
<1>5. \A i \in DOMAIN tries : \A j \in DOMAIN tries \ {i} :
        /\ tries[j].quote # tries[i].quote
        /\ tries[i].kind = "retry" /\ tries[j].kind = "retry" => tries[j].origin # tries[i].origin
  BY <1>3 DEF SpentOn, QuoteInv, QuoteClaims, RetriesApart
<1>6. ClaimedAsOffered
  BY <1>3, <1>4, <1>5 DEF ClaimedAsOffered, ClaimSound, RetrySound, SpentOn
<1> QED
  BY <1>2, <1>6

(**************************** Service guidance *****************************)
-----------------------------------------------------------------------------
(* Rows.                                                                   *)

Profiles == [revision : Nat \ {0}, ready : BOOLEAN, outcomes : SUBSET Outcomes,
             favoured : BOOLEAN]
ParlourRows ==
    [authority : {"manleai_calendar", "external_provider"}, linked : SUBSET Offerings,
     synced : BOOLEAN, enabled : BOOLEAN, bookings : BOOLEAN,
     services : [Offerings -> [active : BOOLEAN, profile : Profiles]]]
NeedRows == [outcome : Outcomes \cup {"", "compare"}, priority : BOOLEAN,
             compared : SUBSET Offerings]
Choice == Offerings \cup {""}
ConsultStatuses == {"none", "collecting", "selecting", "booking", "completed", "handed_off"}
Asked == {"", "none", "outcome", "priority", "booking_intent", "service_selection",
          "service_comparison"}
Prints == ConsultStatuses \X NeedRows \X (SUBSET Offerings) \X (SUBSET Offerings)
          \X Choice \X Asked
ConsultRows ==
    [status : ConsultStatuses, resume : {"open", "drafting"}, needs : NeedRows,
     among : SUBSET Offerings, recommended : SUBSET Offerings, selected : Choice,
     revisions : [Offerings -> Nat], idle : 0 .. MaxNoProgress, failures : 0 .. 2,
     asked : Asked, print : {<<>>} \cup Prints]
GuidanceRows ==
    [stage : {"none", "caller_goal", "service"}, idle : Nat, failures : Nat,
     offered : SUBSET {"book", "salon_question", "service_catalog", "name_service",
                       "consultation", "human_handoff"}]
AdviceRows ==
    [status : {"active", "handoff", "completed"},
     phase : {"open", "drafting", "clarifying", "consultation"}, chosen : Choice,
     consultation : ConsultRows, guidance : GuidanceRows]
StartRows == {NotStarted} \cup
    [how : {"named", "accepted"}, service : Offerings, needs : NeedRows, at : Profiles,
     offer : Choice, told : Nat]
PromiseRows == [told : [Offerings -> Nat], offer : Choice, started : StartRows]

(* What a turn loaded is the salon of now or of before.                    *)
MenuFits(services, salon) ==
    /\ DOMAIN services \subseteq Offerings
    /\ \A s \in DOMAIN services :
         /\ services[s].profile \in Profiles
         /\ services[s].profile.revision <= salon.services[s].profile.revision
         /\ services[s].profile.revision = salon.services[s].profile.revision =>
              services[s].profile = salon.services[s].profile

Guiding(c) == c.status \in {"collecting", "selecting", "booking"}
(* What was recommended is what was told, and a profile that did not       *)
(* change since serves the needs.                                          *)
RecommendedFits(c, told, salon) ==
    c.status \in {"selecting", "booking"} =>
      \A s \in Offerings :
        /\ c.revisions[s] = told[s]
        /\ c.revisions[s] <= salon.services[s].profile.revision
        /\ c.revisions[s] = salon.services[s].profile.revision =>
             Fits(salon.services[s].profile, c.needs)
(* The caller was asked about the service that is selected.                *)
OfferFits(c, offer) == c.status = "booking" => c.selected # "" /\ offer = c.selected
ConsultBounded(c) ==
    /\ Cardinality(c.recommended) <= 2
    /\ Guiding(c) => c.idle < MaxNoProgress /\ c.failures < 2
ConsultFits(c, p, salon) ==
    ConsultBounded(c) /\ RecommendedFits(c, p.told, salon) /\ OfferFits(c, p.offer)

StartSound(b) ==
    b.how = "accepted" =>
        b.service = b.offer /\ b.at.ready /\ b.at.revision = b.told /\ Fits(b.at, b.needs)

(* The inductive invariant.                                                *)
GuideInv ==
    /\ parlour \in ParlourRows /\ advice \in AdviceRows /\ promised \in PromiseRows
    /\ guideLeft \in [turns : 0 .. MaxGuideTurns, edits : 0 .. MaxGuideEdits]
    /\ loaded.open \in BOOLEAN
    /\ loaded.open => guideLeft.turns > 0 /\ MenuFits(loaded.services, parlour)
    /\ ConsultFits(advice.consultation, promised, parlour)
    /\ StartSound(promised.started)

-----------------------------------------------------------------------------
(* The best two of a finite set can be chosen.                             *)

LEMMA TopScore ==
    ASSUME NEW S, S # {}, NEW f \in [S -> {0, 1, 2, 4, 6}]
    PROVE  \E s \in S : \A t \in S : f[s] >= f[t]
<1>1. CASE \E s \in S : f[s] = 6
  BY <1>1
<1>2. CASE (\A s \in S : f[s] # 6) /\ \E s \in S : f[s] = 4
  BY <1>2
<1>3. CASE (\A s \in S : f[s] \notin {4, 6}) /\ \E s \in S : f[s] = 2
  BY <1>3
<1>4. CASE (\A s \in S : f[s] \notin {2, 4, 6}) /\ \E s \in S : f[s] = 1
  BY <1>4
<1>5. CASE \A s \in S : f[s] = 0
  BY <1>5
<1> QED BY <1>1, <1>2, <1>3, <1>4, <1>5

LEMMA BestPair ==
    ASSUME NEW S, IsFiniteSet(S), NEW f \in [S -> {0, 1, 2, 4, 6}]
    PROVE  \E best \in SUBSET S :
             /\ Cardinality(best) = IF Cardinality(S) < 2 THEN Cardinality(S) ELSE 2
             /\ \A s \in best, t \in S \ best : f[s] >= f[t]
<1>0. Cardinality(S) \in Nat
  BY FS_CardinalityType
<1>1. CASE Cardinality(S) < 2
  <2> WITNESS S \in SUBSET S
  <2> QED BY <1>1
<1>2. CASE ~ (Cardinality(S) < 2)
  <2>1. S # {}
    BY <1>2, FS_EmptySet
  <2>2. PICK a \in S : \A t \in S : f[a] >= f[t]
    BY <2>1, TopScore
  <2> DEFINE T == S \ {a}
  <2>3. IsFiniteSet(T) /\ Cardinality(T) = Cardinality(S) - 1
    BY FS_RemoveElement
  <2>4. T # {}
    BY <1>0, <1>2, <2>3, FS_EmptySet
  <2> DEFINE g == [s \in T |-> f[s]]
  <2>5. g \in [T -> {0, 1, 2, 4, 6}]
    OBVIOUS
  <2>6. PICK b \in T : \A t \in T : g[b] >= g[t]
    BY <2>4, <2>5, TopScore
  <2>7. \A t \in T : f[b] >= f[t]
    BY <2>6
  <2>8. IsFiniteSet({a}) /\ Cardinality({a}) = 1 /\ b \notin {a}
    BY FS_Singleton
  <2>9. Cardinality({a} \cup {b}) = 2
    BY <2>8, FS_AddElement
  <2>10. {a, b} = {a} \cup {b}
    OBVIOUS
  <2>11. \A s \in {a, b}, t \in S \ {a, b} : f[s] >= f[t]
    BY <2>2, <2>7
  <2> WITNESS {a, b} \in SUBSET S
  <2> QED BY <1>2, <2>9, <2>10, <2>11
<1> QED BY <1>1, <1>2

LEMMA RankedFit ==
    ASSUME NEW services, DOMAIN services \subseteq Offerings, NEW needs, NEW among,
           NEW s \in rankConsultationServices(services, needs, among)
    PROVE  /\ s \in DOMAIN services /\ s \in Offerings
           /\ Fits(services[s].profile, needs)
BY DEF rankConsultationServices, Considered

(* BestTwo: at most two of the services that are ranked, and one at least  *)
(* if there is one.                                                        *)
LEMMA BestTwoIs ==
    ASSUME NEW services, DOMAIN services \subseteq Offerings, NEW needs, NEW among
    PROVE  LET ranked == rankConsultationServices(services, needs, among)
               best == BestTwo(services, needs, among)
           IN  /\ best \in SUBSET ranked
               /\ Cardinality(best) <= 2 /\ IsFiniteSet(best)
               /\ ranked # {} => best # {}
<1> DEFINE ranked == rankConsultationServices(services, needs, among)
           score(s) == Score(services[s].profile, needs, among)
           f == [s \in ranked |-> score(s)]
           Good(best) ==
             /\ Cardinality(best) = IF Cardinality(ranked) < 2 THEN Cardinality(ranked) ELSE 2
             /\ \A s \in best, t \in ranked \ best : score(s) >= score(t)
<1>1. ranked \subseteq Offerings
  BY RankedFit
<1>2. IsFiniteSet(ranked) /\ Cardinality(ranked) \in Nat
  BY <1>1, GuidanceConstants, FS_Subset, FS_CardinalityType
<1>3. f \in [ranked -> {0, 1, 2, 4, 6}]
  BY DEF Score
<1>4. \E best \in SUBSET ranked :
             /\ Cardinality(best) = IF Cardinality(ranked) < 2 THEN Cardinality(ranked) ELSE 2
             /\ \A s \in best, t \in ranked \ best : f[s] >= f[t]
  <2> HIDE DEF ranked, f
  <2> QED BY <1>2, <1>3, BestPair
<1>5. \E best \in SUBSET ranked : Good(best)
  BY <1>4
<1>6. BestTwo(services, needs, among) = CHOOSE best \in SUBSET ranked : Good(best)
  BY DEF BestTwo
<1> DEFINE best == BestTwo(services, needs, among)
<1>7. best \in SUBSET ranked /\ Good(best)
  BY <1>5, <1>6
<1>8. IsFiniteSet(best)
  BY <1>2, <1>7, FS_Subset
<1>9. Cardinality(best) <= 2
  BY <1>2, <1>7
<1>10. ranked # {} => best # {}
  BY <1>2, <1>7, FS_EmptySet
<1> QED BY <1>7, <1>8, <1>9, <1>10

-----------------------------------------------------------------------------
(* Rows that are written.                                                  *)

LEMMA GuideBounds ==
    /\ MaxNoProgress \in Nat /\ MaxNoProgress > 0
    /\ MaxGuideTurns \in Nat /\ MaxGuideEdits \in Nat
<1>1. MaxNoProgress \in Nat \ {0} /\ MaxGuideTurns \in Nat /\ MaxGuideEdits \in Nat
  BY GuidanceConstants
<1> QED BY <1>1

LEMMA NothingToDo ==
    /\ NoConsultation \in ConsultRows /\ NoGuidance \in GuidanceRows
    /\ NoConsultation.status = "none" /\ NoConsultation.idle = 0
    /\ NoConsultation.failures = 0 /\ Cardinality(NoConsultation.recommended) <= 2
<1>1. NoNeeds \in NeedRows /\ NoRevisions \in [Offerings -> Nat]
  BY DEF NoNeeds, NeedRows, NoRevisions
<1>2. MaxNoProgress \in Nat /\ Cardinality({}) = 0
  BY GuideBounds, FS_EmptySet
<1>3. NoConsultation \in ConsultRows
  BY <1>1, <1>2 DEF NoConsultation, ConsultRows, Choice, ConsultStatuses, Asked
<1>4. NoGuidance \in GuidanceRows
  BY DEF NoGuidance, GuidanceRows
<1>5. NoConsultation.recommended = {} /\ NoConsultation.status = "none"
      /\ NoConsultation.idle = 0 /\ NoConsultation.failures = 0
  BY DEF NoConsultation
<1> QED BY <1>2, <1>3, <1>4, <1>5

(* A consultation that begins anew, or the one that is going on.           *)
LEMMA InitializedFits ==
    ASSUME GuideInv
    PROVE  LET c == initializeConsultationState IN
           /\ c \in ConsultRows /\ Guiding(c) /\ ConsultBounded(c)
           /\ c = advice.consultation \/ c.status = "collecting"
<1>1. advice.consultation \in ConsultRows /\ ConsultBounded(advice.consultation)
  BY DEF GuideInv, AdviceRows, ConsultFits
<1>2. CASE consultationStateActive
  BY <1>1, <1>2 DEF initializeConsultationState, consultationStateActive, Guiding
<1>3. CASE ~ consultationStateActive
  <2> DEFINE r == IF HasDraft THEN "drafting" ELSE "open"
  <2>1. PICK n \in ConsultRows : n = NoConsultation
    BY NothingToDo
  <2>5. r \in {"open", "drafting"}
    OBVIOUS
  <2> HIDE DEF r
  <2> DEFINE c == [n EXCEPT !.status = "collecting", !.resume = r]
  <2>2. c = initializeConsultationState
    BY <1>3, <2>1 DEF initializeConsultationState, r
  <2>3. c \in ConsultRows
    BY <2>5 DEF ConsultRows, ConsultStatuses
  <2>6. /\ c.status = "collecting" /\ c.idle = n.idle
        /\ c.failures = n.failures /\ c.recommended = n.recommended
    BY DEF ConsultRows
  <2>4. n.idle = 0 /\ n.failures = 0 /\ Cardinality(n.recommended) <= 2
    BY <2>1, NothingToDo
  <2> HIDE DEF c
  <2>7. Guiding(c) /\ ConsultBounded(c)
    BY <2>4, <2>6, GuideBounds DEF Guiding, ConsultBounded
  <2> QED BY <2>2, <2>3, <2>6, <2>7
<1> QED BY <1>2, <1>3

(* What is saved of a turn.                                                *)
LEMMA TurnEndsFits ==
    ASSUME GuideInv, loaded.open, TurnEnds
    PROVE  /\ loaded'.open = FALSE
           /\ guideLeft' \in [turns : 0 .. MaxGuideTurns, edits : 0 .. MaxGuideEdits]
<1>1. PICK old \in [turns : 0 .. MaxGuideTurns, edits : 0 .. MaxGuideEdits] :
        old = guideLeft /\ old.turns > 0
  BY DEF GuideInv
<1>2. guideLeft' = [old EXCEPT !.turns = @ - 1]
  BY <1>1 DEF TurnEnds
<1>3. old.turns - 1 \in 0 .. MaxGuideTurns
  BY <1>1, GuideBounds
<1>4. guideLeft' \in [turns : 0 .. MaxGuideTurns, edits : 0 .. MaxGuideEdits]
  BY <1>2, <1>3
<1> QED BY <1>4 DEF TurnEnds, NoTurn

LEMMA TurnIsKept ==
    ASSUME GuideInv, loaded.open, TurnEnds, UNCHANGED parlour,
           advice' \in AdviceRows, promised' \in PromiseRows,
           ConsultFits(advice'.consultation, promised', parlour),
           StartSound(promised'.started)
    PROVE  GuideInv'
<1>1. /\ loaded'.open = FALSE
      /\ guideLeft' \in [turns : 0 .. MaxGuideTurns, edits : 0 .. MaxGuideEdits]
  BY TurnEndsFits
<1>2. parlour' \in ParlourRows
  BY DEF GuideInv
<1> QED BY <1>1, <1>2 DEF GuideInv

LEMMA ConsultationSaved ==
    ASSUME GuideInv, NEW c \in ConsultRows, saveConsultationTurn(c)
    PROVE  /\ advice' \in AdviceRows /\ TurnEnds
           /\ \A p, salon : ConsultFits(c, p, salon) => ConsultFits(advice'.consultation, p, salon)
<1>1. consultationProgressFingerprint(c) \in Prints
  BY DEF ConsultRows, Prints, consultationProgressFingerprint
<1> DEFINE d == [c EXCEPT !.print = consultationProgressFingerprint(c)]
<1>2. d \in ConsultRows
  <2> HIDE DEF d
  <2>1. PICK f : f = consultationProgressFingerprint(c)
    OBVIOUS
  <2>2. d = [c EXCEPT !.print = f] /\ f \in Prints
    BY <1>1, <2>1 DEF d
  <2> QED BY <2>2 DEF ConsultRows
<1>3. /\ d.status = c.status /\ d.needs = c.needs /\ d.recommended = c.recommended
      /\ d.selected = c.selected /\ d.revisions = c.revisions
      /\ d.idle = c.idle /\ d.failures = c.failures
  BY DEF ConsultRows
<1>4. PICK old \in AdviceRows : old = advice
  BY DEF GuideInv
<1>5. advice' = [old EXCEPT !.phase = "consultation", !.guidance = NoGuidance, !.consultation = d]
      /\ TurnEnds
  BY <1>4 DEF saveConsultationTurn
<1> HIDE DEF d
<1>6. advice' \in AdviceRows /\ advice'.consultation = d
  BY <1>2, <1>5, NothingToDo DEF AdviceRows
<1> QED BY <1>3, <1>5, <1>6 DEF ConsultFits, ConsultBounded, RecommendedFits, OfferFits, Guiding

(* A consultation that is over.                                            *)
LEMMA OverFits ==
    ASSUME NEW c \in ConsultRows, NEW status \in {"completed", "handed_off"},
           Cardinality(c.recommended) <= 2
    PROVE  /\ [c EXCEPT !.status = status] \in ConsultRows
           /\ \A p, salon : ConsultFits([c EXCEPT !.status = status], p, salon)
<1> DEFINE d == [c EXCEPT !.status = status]
<1>1. d \in ConsultRows
  BY DEF ConsultRows, ConsultStatuses
<1>4. d.status = status /\ d.recommended = c.recommended
  BY DEF ConsultRows
<1> HIDE DEF d
<1>2. \A p, salon : ConsultFits(d, p, salon)
  BY <1>4 DEF ConsultFits, ConsultBounded, RecommendedFits, OfferFits, Guiding
<1> QED BY <1>1, <1>2 DEF d

LEMMA HandedOff ==
    ASSUME GuideInv, NEW c \in ConsultRows, Cardinality(c.recommended) <= 2,
           saveGuidanceHandoff(c)
    PROVE  /\ advice' \in AdviceRows /\ TurnEnds
           /\ \A p, salon : ConsultFits(advice'.consultation, p, salon)
<1> DEFINE d == IF c.status = "none" THEN c ELSE [c EXCEPT !.status = "handed_off"]
<1>1. d \in ConsultRows /\ \A p, salon : ConsultFits(d, p, salon)
  <2>1. CASE c.status = "none"
    BY <2>1 DEF ConsultFits, ConsultBounded, RecommendedFits, OfferFits, Guiding
  <2>2. CASE c.status # "none"
    BY <2>2, OverFits
  <2> QED BY <2>1, <2>2
<1>2. PICK old \in AdviceRows : old = advice
  BY DEF GuideInv
<1>3. advice' = [old EXCEPT !.status = "handoff", !.consultation = d] /\ TurnEnds
  BY <1>2 DEF saveGuidanceHandoff
<1> HIDE DEF d
<1>4. advice' \in AdviceRows /\ advice'.consultation = d
  BY <1>1, <1>3 DEF AdviceRows
<1> QED BY <1>1, <1>3, <1>4

LEMMA PhaseResumed ==
    ASSUME GuideInv, NEW c \in ConsultRows, Cardinality(c.recommended) <= 2,
           consultationResumePhase(c) \/ CallCompleted(c)
    PROVE  /\ advice' \in AdviceRows /\ TurnEnds
           /\ \A p, salon : ConsultFits(advice'.consultation, p, salon)
<1>1. PICK d \in ConsultRows : d = Completed(c) /\ \A p, salon : ConsultFits(d, p, salon)
  BY OverFits DEF Completed
<1>2. PICK old \in AdviceRows : old = advice
  BY DEF GuideInv
<1>3. c.resume \in {"open", "drafting"}
  BY DEF ConsultRows
<1>4. CASE consultationResumePhase(c)
  BY <1>1, <1>2, <1>3, <1>4, NothingToDo DEF consultationResumePhase, AdviceRows
<1>5. CASE CallCompleted(c)
  BY <1>1, <1>2, <1>3, <1>5 DEF CallCompleted, AdviceRows
<1> QED BY <1>4, <1>5

(* The menu that a turn loads is of the salon as it is.                    *)
LEMMA MenuIsFresh ==
    ASSUME parlour \in ParlourRows, NEW linkedOnly \in BOOLEAN
    PROVE  /\ MenuFits(MenuOf(linkedOnly), parlour)
           /\ \A s \in DOMAIN MenuOf(linkedOnly) :
                s \in Offerings /\ MenuOf(linkedOnly)[s].profile = parlour.services[s].profile
<1> DEFINE m == MenuOf(linkedOnly)
<1>1. DOMAIN m \subseteq Offerings
  BY DEF MenuOf, ListGuidance
<1>2. \A s \in DOMAIN m : m[s].profile = parlour.services[s].profile
  BY DEF MenuOf
<1>3. \A s \in Offerings : parlour.services[s].profile \in Profiles
  BY DEF ParlourRows
<1>4. \A s \in DOMAIN m : m[s].profile.revision <= parlour.services[s].profile.revision
  BY <1>1, <1>2, <1>3 DEF Profiles
<1> HIDE DEF m
<1>5. MenuFits(m, parlour)
  BY <1>1, <1>2, <1>3, <1>4 DEF MenuFits
<1> QED BY <1>1, <1>2, <1>5 DEF m

LEMMA OfferTold ==
    ASSUME promised \in PromiseRows, NEW s \in Choice, promised' = [promised EXCEPT !.offer = s]
    PROVE  /\ promised' \in PromiseRows /\ promised'.told = promised.told
           /\ promised'.offer = s /\ promised'.started = promised.started
BY DEF PromiseRows

(* Recommendation: the caller is told of the best of the ranked services   *)
(* and of the revisions that they have.                                    *)
LEMMA RecommendationFits ==
    ASSUME GuideInv, NEW c \in ConsultRows, c.idle < MaxNoProgress,
           NEW services, MenuFits(services, parlour),
           rankConsultationServices(services, c.needs, c.among) # {}
    PROVE  LET r == Recommendation(c, services) IN
           /\ r \in ConsultRows /\ r.needs = c.needs /\ r.idle = c.idle /\ r.failures = 0
           /\ Guiding(r) /\ Cardinality(r.recommended) <= 2
           /\ ToldOf(r, services) \in PromiseRows
           /\ ToldOf(r, services).started = promised.started
           /\ ToldOf(r, services).offer = r.selected
           /\ RecommendedFits(r, ToldOf(r, services).told, parlour)
           /\ r.status = "booking" => r.selected # ""
<1> DEFINE ranked == rankConsultationServices(services, c.needs, c.among)
           best == BestTwo(services, c.needs, c.among)
           one == Cardinality(best) = 1
           rev == [s \in Offerings |-> IF s \in best THEN services[s].profile.revision ELSE 0]
           status == IF one THEN "booking" ELSE "selecting"
           selected == IF one THEN CHOOSE s \in best : TRUE ELSE c.selected
           asked == IF one THEN "booking_intent" ELSE "service_selection"
           r == [c EXCEPT !.recommended = best, !.failures = 0, !.revisions = rev,
                          !.status = status, !.selected = selected, !.asked = asked]
<1>1. r = Recommendation(c, services)
  BY DEF Recommendation
<1>2. DOMAIN services \subseteq Offerings
  BY DEF MenuFits
<1>3. /\ best \in SUBSET ranked /\ Cardinality(best) <= 2 /\ IsFiniteSet(best) /\ best # {}
  BY <1>2, BestTwoIs
<1>4. \A s \in best : /\ s \in DOMAIN services /\ s \in Offerings
                      /\ Fits(services[s].profile, c.needs)
  BY <1>2, <1>3, RankedFit
<1>5. best \in SUBSET Offerings
  BY <1>4
<1>6. rev \in [Offerings -> Nat]
  BY <1>4 DEF MenuFits, Profiles
<1>7. /\ status \in ConsultStatuses /\ asked \in Asked /\ selected \in Choice
      /\ status = "booking" => selected # ""
  <2>1. (CHOOSE s \in best : TRUE) \in best
    BY <1>3
  <2>2. c.selected \in Choice
    BY DEF ConsultRows
  <2>3. "" \notin Offerings
    BY GuidanceConstants
  <2> HIDE DEF best
  <2> QED BY <1>5, <2>1, <2>2, <2>3 DEF ConsultStatuses, Asked, Choice
<1>8. status \in {"selecting", "booking"}
  OBVIOUS
<1>9. \A s \in Offerings :
        /\ rev[s] <= parlour.services[s].profile.revision
        /\ rev[s] = parlour.services[s].profile.revision =>
             Fits(parlour.services[s].profile, c.needs)
  <2> SUFFICES ASSUME NEW s \in Offerings
               PROVE  /\ rev[s] <= parlour.services[s].profile.revision
                      /\ rev[s] = parlour.services[s].profile.revision =>
                           Fits(parlour.services[s].profile, c.needs)
    OBVIOUS
  <2>1. parlour.services[s].profile.revision \in Nat \ {0}
    BY DEF GuideInv, ParlourRows, Profiles
  <2>2. CASE s \in best
    BY <1>4, <2>2 DEF MenuFits
  <2>3. CASE s \notin best
    BY <2>1, <2>3
  <2> QED BY <2>2, <2>3
<1> HIDE DEF best, rev, status, selected, asked, one
<1>10. r \in ConsultRows
  <2>1. /\ best \in SUBSET Offerings /\ rev \in [Offerings -> Nat] /\ status \in ConsultStatuses
        /\ selected \in Choice /\ asked \in Asked
    BY <1>5, <1>6, <1>7, Zenon
  <2>2. 0 \in 0 .. 2
    OBVIOUS
  <2> QED BY ONLY <2>1, <2>2, c \in ConsultRows DEF ConsultRows
<1>11. /\ r.status = status /\ r.needs = c.needs /\ r.recommended = best
       /\ r.selected = selected /\ r.revisions = rev /\ r.idle = c.idle /\ r.failures = 0
  BY DEF ConsultRows
<1> HIDE DEF r
<1>12. ToldOf(r, services) = [promised EXCEPT !.told = rev, !.offer = selected]
  BY <1>11 DEF ToldOf, rev
<1>13. ToldOf(r, services) \in PromiseRows
  BY <1>6, <1>7, <1>12 DEF PromiseRows, GuideInv
<1>14. /\ ToldOf(r, services).started = promised.started
       /\ ToldOf(r, services).offer = selected /\ ToldOf(r, services).told = rev
  BY <1>12 DEF PromiseRows, GuideInv
<1>15. RecommendedFits(r, rev, parlour)
  BY <1>9, <1>11 DEF RecommendedFits
<1>16. Guiding(r)
  BY <1>8, <1>11 DEF Guiding
<1>17. r.status = "booking" => r.selected # ""
  BY <1>7, <1>11
<1> QED BY <1>1, <1>3, <1>10, <1>11, <1>13, <1>14, <1>15, <1>16, <1>17

(* startBookingFromConsultation.                                           *)
LEMMA BookingStarts ==
    ASSUME GuideInv, loaded.open, UNCHANGED parlour, NEW c \in ConsultRows,
           Cardinality(c.recommended) <= 2, NEW services, MenuFits(services, parlour),
           NEW s \in DOMAIN services, NEW how \in {"named", "accepted"},
           how = "accepted" =>
             /\ s = promised.offer /\ services[s].profile.ready
             /\ services[s].profile.revision = promised.told[s]
             /\ Fits(services[s].profile, c.needs),
           StartBooking(c, s, services, how)
    PROVE  GuideInv'
<1>1. s \in Offerings /\ services[s].profile \in Profiles
  BY DEF MenuFits
<1>2. PICK d \in ConsultRows : d = [c EXCEPT !.selected = s] /\ d.recommended = c.recommended
  <2> DEFINE e == [c EXCEPT !.selected = s]
  <2>1. s \in Choice
    BY <1>1 DEF Choice
  <2>2. e \in ConsultRows
    BY <2>1 DEF ConsultRows
  <2>3. e.recommended = c.recommended
    BY DEF ConsultRows
  <2> QED BY <2>2, <2>3
<1>3. promised \in PromiseRows /\ StartSound(promised.started)
  BY DEF GuideInv
<1>4. CASE saveGuidanceHandoff(d) /\ SaysNothingNew
  BY <1>2, <1>3, <1>4, HandedOff, TurnIsKept DEF SaysNothingNew
<1>5. PICK e \in ConsultRows : e = Completed(d) /\ \A p, salon : ConsultFits(e, p, salon)
  BY <1>2, OverFits DEF Completed
<1>6. PICK old \in AdviceRows : old = advice
  BY DEF GuideInv
<1>7. c.resume \in {"open", "drafting"}
  BY DEF ConsultRows
<1>8. CASE /\ advice' = [advice EXCEPT !.phase = "clarifying", !.guidance = NoGuidance,
                                      !.consultation = e]
           /\ TurnEnds /\ SaysNothingNew
  BY <1>3, <1>5, <1>6, <1>8, NothingToDo, TurnIsKept DEF AdviceRows, SaysNothingNew
<1>9. CASE /\ advice' = [advice EXCEPT !.chosen = s, !.phase = c.resume, !.guidance = NoGuidance,
                                   !.status = IF parlour.bookings THEN @ ELSE "handoff",
                                   !.consultation = e]
           /\ TurnEnds
           /\ promised' = [promised EXCEPT !.started = Started(c, s, services, how)]
  <2> DEFINE status == IF parlour.bookings THEN old.status ELSE "handoff"
  <2>1. advice' = [old EXCEPT !.chosen = s, !.phase = c.resume, !.guidance = NoGuidance,
                              !.status = status, !.consultation = e]
    BY <1>6, <1>9
  <2>2. status \in {"active", "handoff", "completed"} /\ s \in Choice
    BY <1>1 DEF AdviceRows, Choice
  <2> HIDE DEF status
  <2>3. advice' \in AdviceRows /\ advice'.consultation = e
    BY <1>7, <2>1, <2>2, NothingToDo DEF AdviceRows
  <2>4. PICK b : b = Started(c, s, services, how)
    OBVIOUS
  <2>5. b = [how |-> how, service |-> s, needs |-> c.needs, at |-> services[s].profile,
             offer |-> promised.offer, told |-> promised.told[s]]
    BY <2>4 DEF Started
  <2>6. b \in StartRows
    BY <1>1, <1>3, <2>5 DEF ConsultRows, PromiseRows, StartRows
  <2>7. StartSound(b)
    BY <2>5 DEF StartSound
  <2>8. promised' \in PromiseRows /\ promised'.started = b
    BY <1>3, <1>9, <2>4, <2>6 DEF PromiseRows
  <2>9. ConsultFits(advice'.consultation, promised', parlour)
    BY <1>5, <2>3
  <2> QED BY <1>9, <2>3, <2>7, <2>8, <2>9, TurnIsKept
<1> QED BY <1>2, <1>4, <1>5, <1>8, <1>9 DEF StartBooking

-----------------------------------------------------------------------------
(* The steps.                                                              *)

LEMMA SaysNothing ==
    ASSUME GuideInv, loaded.open, UNCHANGED parlour, SaysNothingNew,
           advice' \in AdviceRows, TurnEnds, ConsultFits(advice'.consultation, promised, parlour)
    PROVE  GuideInv'
<1>1. promised' = promised /\ promised \in PromiseRows /\ StartSound(promised.started)
  BY DEF SaysNothingNew, GuideInv
<1> QED BY <1>1, TurnIsKept

LEMMA OldConsultation ==
    ASSUME GuideInv
    PROVE  /\ advice.consultation \in ConsultRows /\ Cardinality(advice.consultation.recommended) <= 2
           /\ ConsultFits(advice.consultation, promised, parlour)
BY DEF GuideInv, AdviceRows, ConsultFits, ConsultBounded

LEMMA SafetyStep == GuideInv /\ SafetyConcern => GuideInv'
<1> SUFFICES ASSUME GuideInv, SafetyConcern PROVE GuideInv'
  OBVIOUS
<1>1. PICK c \in ConsultRows : c = initializeConsultationState /\ Cardinality(c.recommended) <= 2
  BY InitializedFits DEF ConsultBounded
<1> DEFINE d == [c EXCEPT !.status = "collecting"]
<1>2. d \in ConsultRows
  BY DEF ConsultRows, ConsultStatuses
<1>3. d.recommended = c.recommended
  BY DEF ConsultRows
<1>4. loaded.open /\ saveGuidanceHandoff(d) /\ SaysNothingNew /\ UNCHANGED parlour
  BY <1>1 DEF SafetyConcern, TurnOpen
<1> HIDE DEF d
<1> QED BY <1>1, <1>2, <1>3, <1>4, HandedOff, SaysNothing

LEMMA ResumeStep ==
    GuideInv /\ (\/ ConsultationDisabled \/ BookingDeclined \/ BackToBooking
                 \/ \E goodbye \in BOOLEAN : CallerDone(goodbye)) => GuideInv'
<1> SUFFICES ASSUME GuideInv, \/ ConsultationDisabled \/ BookingDeclined \/ BackToBooking
                              \/ \E goodbye \in BOOLEAN : CallerDone(goodbye)
             PROVE  GuideInv'
  OBVIOUS
<1>1. /\ loaded.open /\ SaysNothingNew /\ UNCHANGED parlour
      /\ consultationResumePhase(advice.consultation) \/ CallCompleted(advice.consultation)
  BY DEF ConsultationDisabled, BookingDeclined, BackToBooking, CallerDone, Consulting, TurnOpen
<1> QED BY <1>1, OldConsultation, PhaseResumed, SaysNothing

LEMMA UnavailableStep == GuideInv /\ InterpreterUnavailable => GuideInv'
<1> SUFFICES ASSUME GuideInv, InterpreterUnavailable PROVE GuideInv'
  OBVIOUS
<1>1. PICK c \in ConsultRows : c = advice.consultation /\ ConsultFits(c, promised, parlour)
  BY OldConsultation
<1>2. c.failures \in {0, 1} /\ Guiding(c) /\ loaded.open /\ SaysNothingNew /\ UNCHANGED parlour
  BY <1>1 DEF InterpreterUnavailable, Consulting, TurnOpen, consultationStateActive, Guiding,
     ConsultFits, ConsultBounded, ConsultRows
<1> DEFINE d == [c EXCEPT !.failures = @ + 1]
<1>3. d \in ConsultRows /\ d.failures = c.failures + 1
  BY <1>2 DEF ConsultRows
<1>4. /\ d.status = c.status /\ d.needs = c.needs /\ d.recommended = c.recommended
      /\ d.selected = c.selected /\ d.revisions = c.revisions /\ d.idle = c.idle
  BY DEF ConsultRows
<1>5. IF d.failures >= 2 THEN saveGuidanceHandoff(d) ELSE saveConsultationTurn(d)
  BY <1>1 DEF InterpreterUnavailable
<1> HIDE DEF d
<1>6. Cardinality(d.recommended) <= 2
  BY <1>1, <1>4 DEF ConsultFits, ConsultBounded
<1>7. CASE d.failures >= 2
  BY <1>2, <1>3, <1>5, <1>6, <1>7, HandedOff, SaysNothing
<1>8. CASE ~ (d.failures >= 2)
  <2>1. d.failures < 2
    BY <1>2, <1>3, <1>8
  <2>2. ConsultFits(d, promised, parlour)
    BY <1>1, <1>4, <2>1 DEF ConsultFits, ConsultBounded, RecommendedFits, OfferFits, Guiding
  <2> QED BY <1>2, <1>3, <1>5, <1>8, <2>2, ConsultationSaved, SaysNothing
<1> QED BY <1>7, <1>8

LEMMA NamedStep ==
    ASSUME GuideInv, NEW s \in Offerings, ExplicitBooking(s)
    PROVE  GuideInv'
<1>1. /\ loaded.open /\ UNCHANGED parlour /\ s \in DOMAIN loaded.services
      /\ StartBooking(advice.consultation, s, loaded.services, "named")
  BY DEF ExplicitBooking, Consulting, TurnOpen, menu
<1>2. MenuFits(loaded.services, parlour)
  BY <1>1 DEF GuideInv
<1> QED BY <1>1, <1>2, OldConsultation, BookingStarts

(* What is saved with a new question to the caller.                        *)
LEMMA Asks ==
    ASSUME GuideInv, loaded.open, UNCHANGED parlour, NEW c \in ConsultRows,
           saveConsultationTurn(c), NEW s \in Choice, promised' = [promised EXCEPT !.offer = s],
           ConsultBounded(c), RecommendedFits(c, promised.told, parlour), OfferFits(c, s)
    PROVE  GuideInv'
<1>1. /\ promised' \in PromiseRows /\ promised'.told = promised.told
      /\ promised'.offer = s /\ promised'.started = promised.started
  BY OfferTold DEF GuideInv
<1>2. ConsultFits(c, promised', parlour)
  BY <1>1 DEF ConsultFits
<1>3. StartSound(promised'.started)
  BY <1>1 DEF GuideInv
<1> QED BY <1>1, <1>2, <1>3, ConsultationSaved, TurnIsKept

LEMMA MenuStep == GuideInv /\ AsksForMenu => GuideInv'
<1> SUFFICES ASSUME GuideInv, AsksForMenu PROVE GuideInv'
  OBVIOUS
<1>1. PICK c \in ConsultRows : c = advice.consultation /\ ConsultFits(c, promised, parlour)
  BY OldConsultation
<1> DEFINE d == [c EXCEPT !.status = "collecting", !.among = {}, !.recommended = {},
                          !.selected = "", !.asked = "service_comparison", !.idle = 0]
<1>2. d \in ConsultRows
  <2>1. 0 \in 0 .. MaxNoProgress /\ {} \in SUBSET Offerings /\ "" \in Choice
    BY GuideBounds DEF Choice
  <2>2. "collecting" \in ConsultStatuses /\ "service_comparison" \in Asked
    BY DEF ConsultStatuses, Asked
  <2> QED BY ONLY <2>1, <2>2, c \in ConsultRows DEF ConsultRows
<1>3. d.status = "collecting" /\ d.recommended = {} /\ d.idle = 0 /\ d.failures = c.failures
  BY DEF ConsultRows
<1>4. /\ loaded.open /\ UNCHANGED parlour /\ saveConsultationTurn(d) /\ Guiding(c)
      /\ promised' = [promised EXCEPT !.offer = ""]
  BY <1>1 DEF AsksForMenu, Consulting, TurnOpen, consultationStateActive, Guiding
<1> HIDE DEF d
<1>5. Cardinality({}) = 0
  BY FS_EmptySet
<1>6. ConsultBounded(d)
  <2>1. c.failures < 2
    BY <1>1, <1>4 DEF ConsultFits, ConsultBounded
  <2>2. Cardinality(d.recommended) <= 2
    BY <1>3, <1>5
  <2> QED BY <1>3, <2>1, <2>2, GuideBounds DEF ConsultBounded
<1>7. RecommendedFits(d, promised.told, parlour) /\ OfferFits(d, "") /\ "" \in Choice
  BY <1>3 DEF RecommendedFits, OfferFits, Choice
<1> QED BY <1>2, <1>4, <1>6, <1>7, Asks

LEMMA SelectStep ==
    ASSUME GuideInv, NEW s \in Offerings, SelectRecommended(s)
    PROVE  GuideInv'
<1>1. PICK c \in ConsultRows : c = advice.consultation /\ ConsultFits(c, promised, parlour)
  BY OldConsultation
<1> DEFINE d == [c EXCEPT !.selected = s, !.status = "booking", !.asked = "booking_intent"]
<1>2. d \in ConsultRows
  BY DEF ConsultRows, ConsultStatuses, Choice, Asked
<1>3. /\ d.status = "booking" /\ d.recommended = c.recommended /\ d.idle = c.idle
      /\ d.failures = c.failures /\ d.needs = c.needs /\ d.revisions = c.revisions
      /\ d.selected = s
  BY DEF ConsultRows
<1>4. /\ loaded.open /\ UNCHANGED parlour /\ saveConsultationTurn(d) /\ c.status = "selecting"
      /\ promised' = [promised EXCEPT !.offer = s]
  BY <1>1 DEF SelectRecommended, Consulting, TurnOpen
<1> HIDE DEF d
<1>5. ConsultBounded(d) /\ RecommendedFits(d, promised.told, parlour)
  BY <1>1, <1>3, <1>4 DEF ConsultFits, ConsultBounded, RecommendedFits, Guiding
<1>6. OfferFits(d, s) /\ s \in Choice
  BY <1>3, GuidanceConstants DEF OfferFits, Choice
<1> QED BY <1>2, <1>4, <1>5, <1>6, Asks

(* A recommendation that is told anew.                                     *)
LEMMA Recommends ==
    ASSUME GuideInv, loaded.open, UNCHANGED parlour, NEW r \in ConsultRows,
           saveConsultationTurn(r), NEW told \in PromiseRows, promised' = told,
           ConsultFits(r, told, parlour), told.started = promised.started
    PROVE  GuideInv'
<1>1. ConsultFits(advice'.consultation, promised', parlour) /\ advice' \in AdviceRows /\ TurnEnds
  BY ConsultationSaved
<1>2. StartSound(promised'.started)
  BY DEF GuideInv
<1> QED BY <1>1, <1>2, TurnIsKept

LEMMA RestartStep ==
    ASSUME GuideInv, loaded.open, UNCHANGED parlour, NEW c \in ConsultRows, Guiding(c),
           ConsultBounded(c), NEW fresh, MenuFits(fresh, parlour),
           restartConsultationAfterStaleRecommendation(c, fresh)
    PROVE  GuideInv'
<1> DEFINE again == [c EXCEPT !.status = "collecting", !.among = {}, !.recommended = {},
                              !.selected = "", !.revisions = NoRevisions, !.idle = 0]
<1>1. again \in ConsultRows
  <2>1. NoRevisions \in [Offerings -> Nat]
    BY DEF NoRevisions
  <2>2. 0 \in 0 .. MaxNoProgress /\ {} \in SUBSET Offerings /\ "" \in Choice
        /\ "collecting" \in ConsultStatuses
    BY GuideBounds DEF Choice, ConsultStatuses
  <2> QED BY ONLY <2>1, <2>2, c \in ConsultRows DEF ConsultRows
<1>2. again.recommended = {} /\ again.needs = c.needs /\ again.among = {} /\ again.idle = 0
  BY DEF ConsultRows
<1>3. \/ /\ rankConsultationServices(fresh, c.needs, {}) = {}
         /\ saveGuidanceHandoff(again) /\ UNCHANGED promised
      \/ /\ rankConsultationServices(fresh, c.needs, {}) # {}
         /\ saveConsultationTurn([Recommendation(again, fresh) EXCEPT !.failures = c.failures])
         /\ promised' = ToldOf([Recommendation(again, fresh) EXCEPT !.failures = c.failures], fresh)
  BY DEF restartConsultationAfterStaleRecommendation
<1> HIDE DEF again
<1>4. CASE saveGuidanceHandoff(again) /\ UNCHANGED promised
  BY <1>1, <1>2, <1>4, FS_EmptySet, HandedOff, SaysNothing DEF SaysNothingNew
<1>5. ASSUME rankConsultationServices(fresh, c.needs, {}) # {},
             saveConsultationTurn([Recommendation(again, fresh) EXCEPT !.failures = c.failures]),
             promised' = ToldOf([Recommendation(again, fresh) EXCEPT !.failures = c.failures], fresh)
      PROVE  GuideInv'
  <2>1. again.idle < MaxNoProgress /\ rankConsultationServices(fresh, again.needs, again.among) # {}
    BY <1>2, <1>5, GuideBounds
  <2>2. PICK r \in ConsultRows :
           /\ r = Recommendation(again, fresh)
           /\ r.needs = again.needs /\ r.idle = 0
           /\ Guiding(r) /\ Cardinality(r.recommended) <= 2
           /\ ToldOf(r, fresh) \in PromiseRows
           /\ ToldOf(r, fresh).started = promised.started
           /\ ToldOf(r, fresh).offer = r.selected
           /\ RecommendedFits(r, ToldOf(r, fresh).told, parlour)
           /\ r.status = "booking" => r.selected # ""
    BY <1>1, <1>2, <2>1, RecommendationFits
  <2> DEFINE d == [r EXCEPT !.failures = c.failures]
  <2>3. c.failures \in 0 .. 2 /\ c.failures < 2
    BY DEF ConsultRows, ConsultBounded
  <2>4. d \in ConsultRows
    BY <2>3 DEF ConsultRows
  <2>5. /\ d.status = r.status /\ d.needs = r.needs /\ d.recommended = r.recommended
        /\ d.selected = r.selected /\ d.revisions = r.revisions /\ d.idle = r.idle
        /\ d.failures = c.failures
    BY DEF ConsultRows
  <2>6. saveConsultationTurn(d) /\ promised' = ToldOf(d, fresh)
    BY <1>5, <2>2
  <2> HIDE DEF d
  <2>7. ToldOf(d, fresh) = ToldOf(r, fresh)
    BY <2>5 DEF ToldOf
  <2>8. PICK told \in PromiseRows : told = ToldOf(r, fresh) /\ promised' = told
    BY <2>2, <2>6, <2>7
  <2>9. ConsultBounded(d) /\ RecommendedFits(d, told.told, parlour) /\ OfferFits(d, told.offer)
    BY <2>2, <2>3, <2>5, <2>8, GuideBounds
    DEF ConsultBounded, RecommendedFits, OfferFits, Guiding
  <2>10. ConsultFits(d, told, parlour)
    BY <2>9 DEF ConsultFits
  <2> QED BY <2>2, <2>4, <2>6, <2>8, <2>10, Recommends
<1> QED BY <1>3, <1>4, <1>5

LEMMA AcceptStep == GuideInv /\ AcceptRecommendation => GuideInv'
<1> SUFFICES ASSUME GuideInv, AcceptRecommendation PROVE GuideInv'
  OBVIOUS
<1>1. PICK c \in ConsultRows : c = advice.consultation /\ ConsultFits(c, promised, parlour)
  BY OldConsultation
<1>2. /\ loaded.open /\ UNCHANGED parlour /\ c.status = "booking" /\ Guiding(c)
  BY <1>1 DEF AcceptRecommendation, Consulting, TurnOpen, Guiding
<1>3. c.selected # "" /\ promised.offer = c.selected
  BY <1>1, <1>2 DEF ConsultFits, OfferFits
<1> DEFINE fresh == MenuOf(TRUE)
           s == c.selected
           d == [c EXCEPT !.status = "selecting", !.asked = "service_selection"]
<1>4. \/ /\ s \notin DOMAIN menu /\ saveConsultationTurn(d)
         /\ promised' = [promised EXCEPT !.offer = ""]
      \/ RecommendationStands(c, s, fresh) /\ StartBooking(c, s, fresh, "accepted")
      \/ restartConsultationAfterStaleRecommendation(c, fresh)
  BY <1>1, <1>3 DEF AcceptRecommendation
<1>5. /\ MenuFits(fresh, parlour)
      /\ \A x \in DOMAIN fresh : x \in Offerings /\ fresh[x].profile = parlour.services[x].profile
  BY MenuIsFresh DEF GuideInv
<1>6. CASE saveConsultationTurn(d) /\ promised' = [promised EXCEPT !.offer = ""]
  <2>1. d \in ConsultRows
    BY DEF ConsultRows, ConsultStatuses, Asked
  <2>2. /\ d.status = "selecting" /\ d.recommended = c.recommended /\ d.idle = c.idle
        /\ d.failures = c.failures /\ d.needs = c.needs /\ d.revisions = c.revisions
    BY DEF ConsultRows
  <2> HIDE DEF d
  <2>3. ConsultBounded(d) /\ RecommendedFits(d, promised.told, parlour)
    BY <1>1, <1>2, <2>2 DEF ConsultFits, ConsultBounded, RecommendedFits, Guiding
  <2>4. OfferFits(d, "") /\ "" \in Choice
    BY <2>2 DEF OfferFits, Choice
  <2> QED BY <1>2, <1>6, <2>1, <2>3, <2>4, Asks
<1>7. CASE RecommendationStands(c, s, fresh) /\ StartBooking(c, s, fresh, "accepted")
  <2> HIDE DEF fresh, s
  <2>1. /\ s \in DOMAIN fresh /\ s \in Offerings /\ fresh[s].profile.ready
        /\ fresh[s].profile.revision = c.revisions[s]
    BY <1>5, <1>7 DEF RecommendationStands, Recommendable
  <2>2. fresh[s].profile.revision = promised.told[s] /\ Fits(fresh[s].profile, c.needs)
    BY <1>1, <1>2, <1>5, <2>1 DEF ConsultFits, RecommendedFits
  <2>3. s = promised.offer
    BY <1>3 DEF s
  <2>4. Cardinality(c.recommended) <= 2
    BY <1>1 DEF ConsultFits, ConsultBounded
  <2> QED BY <1>2, <1>5, <1>7, <2>1, <2>2, <2>3, <2>4, BookingStarts
<1>8. CASE restartConsultationAfterStaleRecommendation(c, fresh)
  BY <1>1, <1>2, <1>5, <1>8, RestartStep DEF ConsultFits
<1> QED BY <1>4, <1>6, <1>7, <1>8

(* askConsultationQuestion.                                                *)
LEMMA QuestionStep ==
    ASSUME GuideInv, loaded.open, UNCHANGED parlour, NEW c \in ConsultRows, Guiding(c),
           ConsultBounded(c), NEW worded \in BOOLEAN, askConsultationQuestion(c, worded),
           promised' = [promised EXCEPT !.offer = ""]
    PROVE  GuideInv'
<1> DEFINE field == nextConsultationQuestionSpec(menu, c.needs, c.among)
           rev == [s \in Offerings |-> IF s \in Askable(menu, c.needs, c.among)
                                       THEN menu[s].profile.revision ELSE c.revisions[s]]
           fails == IF worded THEN 0 ELSE c.failures + 1
           d == [c EXCEPT !.status = "collecting", !.asked = field, !.revisions = rev,
                          !.failures = fails]
<1>1. IF ~ worded /\ d.failures >= 2 THEN saveGuidanceHandoff(d) ELSE saveConsultationTurn(d)
  BY DEF askConsultationQuestion
<1>2. field \in Asked
  BY DEF nextConsultationQuestionSpec, Asked
<1>3. rev \in [Offerings -> Nat]
  <2>1. \A s \in Askable(menu, c.needs, c.among) : menu[s].profile.revision \in Nat
    BY DEF Askable, Considered, GuideInv, MenuFits, Profiles, menu
  <2>2. \A s \in Offerings : c.revisions[s] \in Nat
    BY DEF ConsultRows
  <2> QED BY <2>1, <2>2
<1>4. c.failures \in {0, 1} /\ c.idle < MaxNoProgress /\ Cardinality(c.recommended) <= 2
  <2>1. c.failures \in 0 .. 2
    BY DEF ConsultRows
  <2>2. c.failures < 2 /\ c.idle < MaxNoProgress /\ Cardinality(c.recommended) <= 2
    BY DEF ConsultBounded
  <2> QED BY ONLY <2>1, <2>2
<1>5. fails \in 0 .. 2 /\ (worded => fails = 0)
  <2>1. c.failures + 1 \in 0 .. 2
    BY ONLY <1>4
  <2>2. CASE worded
    <3>1. fails = 0
      BY <2>2
    <3> HIDE DEF fails
    <3> QED BY ONLY <3>1
  <2>3. CASE ~ worded
    BY <2>1, <2>3
  <2> QED BY <2>2, <2>3
<1> HIDE DEF field, rev, fails
<1>6. d \in ConsultRows
  <2>1. "collecting" \in ConsultStatuses
    BY DEF ConsultStatuses
  <2> QED BY ONLY <2>1, <1>2, <1>3, <1>5, c \in ConsultRows DEF ConsultRows
<1>7. /\ d.status = "collecting" /\ d.recommended = c.recommended /\ d.idle = c.idle
      /\ d.failures = fails
  BY DEF ConsultRows
<1> HIDE DEF d
<1>8. CASE ~ worded /\ d.failures >= 2
  <2>1. /\ promised' \in PromiseRows /\ promised'.started = promised.started
    BY OfferTold DEF GuideInv, Choice
  <2>2. /\ advice' \in AdviceRows /\ TurnEnds
        /\ ConsultFits(advice'.consultation, promised', parlour)
    BY <1>1, <1>4, <1>6, <1>7, <1>8, HandedOff
  <2>3. StartSound(promised'.started)
    BY <2>1 DEF GuideInv
  <2> QED BY <2>1, <2>2, <2>3, TurnIsKept
<1>9. CASE ~ (~ worded /\ d.failures >= 2)
  <2>1. d.failures < 2
    <3>1. CASE worded
      BY ONLY <1>5, <1>7, <3>1
    <3>2. CASE ~ (d.failures >= 2)
      BY ONLY <1>5, <1>7, <3>2
    <3> QED BY <1>9, <3>1, <3>2
  <2>2. ConsultBounded(d)
    BY <1>4, <1>7, <2>1 DEF ConsultBounded
  <2>3. RecommendedFits(d, promised.told, parlour) /\ OfferFits(d, "") /\ "" \in Choice
    BY <1>7 DEF RecommendedFits, OfferFits, Choice
  <2>4. saveConsultationTurn(d)
    BY <1>1, <1>9
  <2> QED BY <1>6, <2>2, <2>3, <2>4, Asks
<1> QED BY <1>8, <1>9

LEMMA NeedsStep ==
    ASSUME GuideInv, loaded.open, NEW needs \in NeedsAfter(initializeConsultationState.needs),
           StateNeeds(needs)
    PROVE  GuideInv'
<1>1. PICK b \in ConsultRows :
         /\ b = initializeConsultationState /\ Guiding(b) /\ ConsultBounded(b)
  BY InitializedFits
<1>2. MenuFits(menu, parlour) /\ DOMAIN menu \subseteq Offerings
  BY DEF GuideInv, MenuFits, menu
<1>3. needs \in NeedRows
  <2>1. b.needs \in NeedRows /\ needs \in NeedsAfter(b.needs)
    BY <1>1 DEF ConsultRows
  <2>2. PICK n \in NeedRows : n = b.needs
    BY <2>1
  <2>3. CASE needs = n
    BY <2>3
  <2>4. CASE \E o \in Outcomes \cup {"", "compare"} : needs = [n EXCEPT !.outcome = o]
    BY <2>4 DEF NeedRows
  <2>5. CASE \E p \in BOOLEAN : needs = [n EXCEPT !.priority = p]
    BY <2>5 DEF NeedRows
  <2>6. CASE \E c \in {{}, DOMAIN menu} : needs = [n EXCEPT !.compared = c]
    <3>1. PICK c \in SUBSET Offerings : needs = [n EXCEPT !.compared = c]
      BY <1>2, <2>6
    <3> QED BY <3>1 DEF NeedRows
  <2> QED BY <2>1, <2>2, <2>3, <2>4, <2>5, <2>6 DEF NeedsAfter
<1>4. PICK after \in ConsultRows :
         /\ after = WithNeeds(b, needs) /\ after.status = b.status /\ after.idle = b.idle
         /\ after.failures = b.failures /\ Cardinality(after.recommended) <= 2
         /\ after.needs = needs
  <2>1. CASE needs = b.needs
    BY <1>1, <2>1 DEF WithNeeds, ConsultBounded
  <2>2. CASE needs # b.needs
    <3> DEFINE among == IF needs.compared # b.needs.compared THEN needs.compared ELSE b.among
               d == [b EXCEPT !.needs = needs, !.among = among, !.recommended = {},
                              !.selected = "", !.revisions = NoRevisions]
    <3>1. d = WithNeeds(b, needs)
      BY <2>2 DEF WithNeeds
    <3>2. among \in SUBSET Offerings
      BY <1>3 DEF NeedRows, ConsultRows
    <3> HIDE DEF among
    <3>3. d \in ConsultRows
      <4>1. NoRevisions \in [Offerings -> Nat] /\ {} \in SUBSET Offerings /\ "" \in Choice
        BY DEF NoRevisions, Choice
      <4> QED BY ONLY <4>1, <3>2, <1>3, b \in ConsultRows DEF ConsultRows
    <3>4. /\ d.status = b.status /\ d.idle = b.idle /\ d.failures = b.failures
          /\ d.recommended = {} /\ d.needs = needs
      BY DEF ConsultRows
    <3>5. Cardinality({}) = 0
      BY FS_EmptySet
    <3>6. Cardinality(d.recommended) <= 2
      BY <3>4, <3>5
    <3> HIDE DEF d
    <3> QED BY <3>1, <3>3, <3>4, <3>6
  <2> QED BY <2>1, <2>2
<1> DEFINE stuck == needs = b.needs /\ consultationStateActive
                    /\ b.print = consultationProgressFingerprint(after)
           idle == IF stuck THEN after.idle + 1 ELSE 0
           c == [after EXCEPT !.idle = idle]
           comparing == Cardinality(c.among) > 1 \/ needs.outcome = "compare"
           question == nextConsultationQuestionSpec(menu, needs, c.among)
           ranked == rankConsultationServices(menu, needs, c.among)
           asks == \/ ~ comparing /\ consultationNeedsMoreDiscrimination(menu, needs, c.among)
                   \/ ranked = {} /\ question # "none"
<1>5. idle \in 0 .. MaxNoProgress
  BY <1>1, <1>4, GuideBounds DEF ConsultRows, ConsultBounded
<1>6. c = [WithNeeds(b, needs) EXCEPT !.idle = IF stuck THEN @ + 1 ELSE 0]
  BY <1>4
<1>7. /\ UNCHANGED parlour
      /\ \/ saveGuidanceHandoff(c) /\ SaysNothingNew
         \/ /\ c.idle < MaxNoProgress
            /\ \E worded \in BOOLEAN : askConsultationQuestion(c, worded)
            /\ promised' = [promised EXCEPT !.offer = ""]
         \/ /\ c.idle < MaxNoProgress /\ ranked # {}
            /\ saveConsultationTurn(Recommendation(c, menu))
            /\ promised' = ToldOf(Recommendation(c, menu), menu)
  <2> HIDE DEF c
  <2>1. WithNeeds(initializeConsultationState, needs) = after
    BY <1>1, <1>4
  <2> QED BY <1>1, <1>4, <1>6, <2>1 DEF StateNeeds
<1> HIDE DEF idle, ranked
<1>8. c \in ConsultRows
  BY <1>5 DEF ConsultRows
<1>9. /\ c.status = after.status /\ c.needs = after.needs /\ c.recommended = after.recommended
      /\ c.failures = after.failures /\ c.idle = idle
  BY DEF ConsultRows
<1> HIDE DEF c
<1>10. Cardinality(c.recommended) <= 2 /\ Guiding(c) /\ c.failures < 2
  BY <1>1, <1>4, <1>9 DEF Guiding, ConsultBounded
<1>11. CASE saveGuidanceHandoff(c) /\ SaysNothingNew
  BY <1>7, <1>8, <1>10, <1>11, HandedOff, SaysNothing
<1>12. CASE /\ c.idle < MaxNoProgress
            /\ \E worded \in BOOLEAN : askConsultationQuestion(c, worded)
            /\ promised' = [promised EXCEPT !.offer = ""]
  <2>1. ConsultBounded(c)
    BY <1>10, <1>12 DEF ConsultBounded
  <2> QED BY <1>7, <1>8, <1>10, <1>12, <2>1, QuestionStep
<1>13. CASE /\ c.idle < MaxNoProgress /\ ranked # {}
            /\ saveConsultationTurn(Recommendation(c, menu))
            /\ promised' = ToldOf(Recommendation(c, menu), menu)
  <2>1. rankConsultationServices(menu, c.needs, c.among) # {}
    BY <1>4, <1>9, <1>13 DEF ranked
  <2>2. PICK r \in ConsultRows :
           /\ r = Recommendation(c, menu) /\ r.idle = c.idle /\ r.failures = 0
           /\ Guiding(r) /\ Cardinality(r.recommended) <= 2
           /\ ToldOf(r, menu) \in PromiseRows
           /\ ToldOf(r, menu).started = promised.started
           /\ ToldOf(r, menu).offer = r.selected
           /\ RecommendedFits(r, ToldOf(r, menu).told, parlour)
           /\ r.status = "booking" => r.selected # ""
    BY <1>2, <1>8, <1>13, <2>1, RecommendationFits
  <2>3. PICK told \in PromiseRows : told = ToldOf(r, menu) /\ promised' = told
    BY <1>13, <2>2
  <2>4. ConsultFits(r, told, parlour)
    <3>1. ConsultBounded(r)
      <4>1. r.idle < MaxNoProgress /\ r.failures = 0
        BY <1>13, <2>2
      <4>2. r.failures < 2
        BY ONLY <4>1
      <4> QED BY <2>2, <4>1, <4>2 DEF ConsultBounded
    <3>2. RecommendedFits(r, told.told, parlour) /\ OfferFits(r, told.offer)
      BY <2>2, <2>3 DEF OfferFits
    <3> QED BY <3>1, <3>2 DEF ConsultFits
  <2> QED BY <1>7, <1>13, <2>2, <2>3, <2>4, Recommends
<1> QED BY <1>7, <1>11, <1>12, <1>13

LEMMA WorkflowStep ==
    ASSUME GuideInv, NEW s \in Offerings, closeConsultationForWorkflow(s)
    PROVE  GuideInv'
<1>1. PICK c \in ConsultRows : c = advice.consultation /\ ConsultFits(c, promised, parlour)
                              /\ Cardinality(c.recommended) <= 2
  BY OldConsultation
<1> DEFINE d == IF consultationStateActive THEN Completed(c) ELSE c
<1>2. d \in ConsultRows /\ \A p, salon : ConsultFits(d, p, salon)
  <2>1. CASE consultationStateActive
    BY <1>1, <2>1, OverFits DEF Completed
  <2>2. CASE ~ consultationStateActive
    BY <1>1, <2>2
    DEF consultationStateActive, ConsultFits, ConsultBounded, RecommendedFits, OfferFits, Guiding
  <2> QED BY <2>1, <2>2
<1>3. PICK old \in AdviceRows : old = advice
  BY DEF GuideInv
<1>4. /\ loaded.open /\ UNCHANGED parlour /\ s \in DOMAIN menu /\ TurnEnds
      /\ advice' = [old EXCEPT !.chosen = s, !.phase = "drafting", !.guidance = NoGuidance,
                               !.consultation = d]
      /\ promised' = [promised EXCEPT !.started = Started(c, s, menu, "named")]
  BY <1>1, <1>3 DEF closeConsultationForWorkflow, TurnOpen
<1> HIDE DEF d
<1>5. advice' \in AdviceRows /\ advice'.consultation = d
  BY <1>2, <1>4, NothingToDo DEF AdviceRows, Choice
<1>6. PICK b : b = Started(c, s, menu, "named")
  OBVIOUS
<1>7. b = [how |-> "named", service |-> s, needs |-> c.needs, at |-> menu[s].profile,
           offer |-> promised.offer, told |-> promised.told[s]]
  BY <1>6 DEF Started
<1>8. b \in StartRows /\ StartSound(b)
  BY <1>4, <1>7 DEF GuideInv, ConsultRows, PromiseRows, MenuFits, menu, StartRows, StartSound
<1>9. promised' \in PromiseRows /\ promised'.started = b
  BY <1>4, <1>6, <1>8 DEF PromiseRows, GuideInv
<1>10. ConsultFits(advice'.consultation, promised', parlour)
  BY <1>2, <1>5
<1> QED BY <1>4, <1>5, <1>8, <1>9, <1>10, TurnIsKept

Evidence == {"failure", "no_progress", "question", "catalog", "consultation", "owner"}

LEMMA RecoveryStep ==
    ASSUME GuideInv, NEW evidence \in Evidence, handleGuidanceRecovery(evidence)
    PROVE  GuideInv'
<1>1. PICK old \in AdviceRows : old = advice
  BY DEF GuideInv
<1> DEFINE g == reduceGuidanceRecoveryState(evidence)
           offered == guidanceRecoveryOfferedActions(g.stage)
<1>2. /\ loaded.open /\ SaysNothingNew /\ UNCHANGED parlour
      /\ \/ saveGuidanceHandoff(advice.consultation)
         \/ /\ advice' = [old EXCEPT !.phase = "clarifying",
                                      !.guidance = [g EXCEPT !.offered = offered]]
            /\ TurnEnds
  BY <1>1 DEF handleGuidanceRecovery, TurnOpen
<1>3. g \in GuidanceRows
  <2>1. PICK x \in GuidanceRows : x = advice.guidance
    BY <1>1 DEF AdviceRows
  <2> DEFINE stage == IF x.stage = "none" THEN "caller_goal" ELSE x.stage
             y == [x EXCEPT !.stage = stage]
  <2>2. y \in GuidanceRows
    BY DEF GuidanceRows
  <2>3. y = [advice.guidance EXCEPT !.stage = IF @ = "none" THEN "caller_goal" ELSE @]
    BY <2>1
  <2> HIDE DEF y
  <2>4. \/ g = [y EXCEPT !.failures = @ + 1]
        \/ g = [y EXCEPT !.idle = @ + 1, !.failures = 0]
        \/ g = [y EXCEPT !.idle = 0, !.failures = 0]
        \/ g = [y EXCEPT !.stage = "service", !.idle = 0, !.failures = 0]
    BY <2>3 DEF reduceGuidanceRecoveryState, Evidence
  <2> HIDE DEF g
  <2>5. y.failures + 1 \in Nat /\ y.idle + 1 \in Nat
    BY <2>2 DEF GuidanceRows
  <2>6. CASE g = [y EXCEPT !.failures = @ + 1]
    BY <2>2, <2>5, <2>6 DEF GuidanceRows
  <2>7. CASE g = [y EXCEPT !.idle = @ + 1, !.failures = 0]
    BY <2>2, <2>5, <2>7 DEF GuidanceRows
  <2>8. CASE g = [y EXCEPT !.idle = 0, !.failures = 0]
    BY <2>2, <2>8 DEF GuidanceRows
  <2>9. CASE g = [y EXCEPT !.stage = "service", !.idle = 0, !.failures = 0]
    BY <2>2, <2>9 DEF GuidanceRows
  <2> QED BY <2>4, <2>6, <2>7, <2>8, <2>9
<1>4. offered \in SUBSET {"book", "salon_question", "service_catalog", "name_service",
                          "consultation", "human_handoff"}
  BY DEF guidanceRecoveryOfferedActions
<1> HIDE DEF g, offered
<1>5. CASE saveGuidanceHandoff(advice.consultation)
  BY <1>2, <1>5, OldConsultation, HandedOff, SaysNothing
<1>6. CASE /\ advice' = [old EXCEPT !.phase = "clarifying",
                                    !.guidance = [g EXCEPT !.offered = offered]]
           /\ TurnEnds
  <2>1. PICK h \in GuidanceRows : h = [g EXCEPT !.offered = offered]
    BY <1>3, <1>4 DEF GuidanceRows
  <2>2. advice' \in AdviceRows /\ advice'.consultation = old.consultation
    BY <1>6, <2>1 DEF AdviceRows
  <2> QED BY <1>1, <1>2, <1>6, <2>2, OldConsultation, SaysNothing
<1> QED BY <1>2, <1>5, <1>6

LEMMA BeginStep == GuideInv /\ BeginGuideTurn => GuideInv'
<1> SUFFICES ASSUME GuideInv, BeginGuideTurn PROVE GuideInv'
  OBVIOUS
<1>1. /\ loaded' = [open |-> TRUE, services |-> MenuOf(ByProvider)]
      /\ promised' = [promised EXCEPT !.started = NotStarted]
      /\ UNCHANGED <<parlour, advice, guideLeft>> /\ guideLeft.turns > 0
  BY DEF BeginGuideTurn
<1>2. MenuFits(MenuOf(ByProvider), parlour)
  BY MenuIsFresh DEF ByProvider, GuideInv
<1>3. loaded'.open \in BOOLEAN /\ MenuFits(loaded'.services, parlour)
  BY <1>1, <1>2
<1>4. /\ promised' \in PromiseRows /\ promised'.told = promised.told
      /\ promised'.offer = promised.offer /\ promised'.started = NotStarted
  BY <1>1 DEF GuideInv, PromiseRows, StartRows
<1>5. ConsultFits(advice.consultation, promised', parlour)
  BY <1>4 DEF GuideInv, ConsultFits
<1>6. StartSound(promised'.started)
  BY <1>4 DEF StartSound, NotStarted
<1> QED BY <1>1, <1>3, <1>4, <1>5, <1>6 DEF GuideInv

EditFits(old, new) ==
    \A s \in Offerings :
        \/ new.services[s].profile = old.services[s].profile
        \/ new.services[s].profile.revision = old.services[s].profile.revision + 1

(* A profile that the owner writes has a higher revision than any that was *)
(* loaded or told before.                                                  *)
LEMMA EditKeeps ==
    ASSUME GuideInv, NEW salon \in ParlourRows,
           EditFits(parlour, salon)
    PROVE  /\ loaded.open => MenuFits(loaded.services, salon)
           /\ ConsultFits(advice.consultation, promised, salon)
<1>1. \A s \in Offerings : parlour.services[s].profile.revision \in Nat
  BY DEF GuideInv, ParlourRows, Profiles
<1>2. \A s \in Offerings :
        LET now == salon.services[s].profile
            old == parlour.services[s].profile
        IN  \A n \in Nat : n <= old.revision =>
              n <= now.revision /\ (n = now.revision => now = old /\ n = old.revision)
  <2> SUFFICES ASSUME NEW s \in Offerings, NEW n \in Nat,
                      n <= parlour.services[s].profile.revision
               PROVE  /\ n <= salon.services[s].profile.revision
                      /\ n = salon.services[s].profile.revision =>
                           /\ salon.services[s].profile = parlour.services[s].profile
                           /\ n = parlour.services[s].profile.revision
    OBVIOUS
  <2>1. PICK r \in Nat : r = parlour.services[s].profile.revision
    BY <1>1
  <2>2. CASE salon.services[s].profile = parlour.services[s].profile
    BY <2>2
  <2>3. CASE salon.services[s].profile.revision = r + 1
    <3>1. n <= r /\ r + 1 > n
      BY <2>1
    <3>2. n <= r + 1 /\ n # r + 1
      BY ONLY <3>1, r \in Nat, n \in Nat
    <3> QED BY <2>3, <3>2
  <2> QED BY <2>1, <2>2, <2>3 DEF EditFits
<1>3. ASSUME loaded.open PROVE MenuFits(loaded.services, salon)
  BY <1>2, <1>3 DEF GuideInv, MenuFits, Profiles
<1>4. ConsultFits(advice.consultation, promised, salon)
  <2>1. PICK c \in ConsultRows : c = advice.consultation /\ ConsultFits(c, promised, parlour)
    BY OldConsultation
  <2>2. \A s \in Offerings : c.revisions[s] \in Nat
    BY DEF ConsultRows
  <2>3. RecommendedFits(c, promised.told, salon)
    BY <1>2, <2>1, <2>2 DEF ConsultFits, RecommendedFits
  <2> QED BY <2>1, <2>3 DEF ConsultFits
<1> QED BY <1>3, <1>4

LEMMA EditsStep == GuideInv /\ OwnerEdits => GuideInv'
<1> SUFFICES ASSUME GuideInv, OwnerEdits PROVE GuideInv'
  OBVIOUS
<1>1. PICK old \in ParlourRows : old = parlour
  BY DEF GuideInv
<1>2. parlour' \in ParlourRows /\ EditFits(parlour, parlour')
  <2>1. ASSUME NEW s \in Offerings, NEW content \in Approved, NEW ready \in BOOLEAN,
               UpdateConsultationProfile(s, content, ready)
        PROVE  EditFits(parlour, parlour') /\ parlour' \in ParlourRows
    <3> DEFINE p == [revision |-> old.services[s].profile.revision + 1, ready |-> ready,
                     outcomes |-> content.outcomes, favoured |-> content.favoured]
               row == [old.services[s] EXCEPT !.profile = p]
               services == [old.services EXCEPT ![s] = row]
    <3>1. old.services[s].profile.revision \in Nat /\ old.services[s].active \in BOOLEAN
      BY DEF ParlourRows, Profiles
    <3>2. p \in Profiles
      <4>1. content.outcomes \in SUBSET Outcomes /\ content.favoured \in BOOLEAN
        BY GuidanceConstants
      <4>2. old.services[s].profile.revision + 1 \in Nat \ {0}
        BY ONLY <3>1
      <4> QED BY <4>1, <4>2 DEF Profiles
    <3>3. p.revision = old.services[s].profile.revision + 1
      OBVIOUS
    <3>4. parlour' = [old EXCEPT !.services = services]
      BY <1>1, <2>1 DEF UpdateConsultationProfile
    <3> HIDE DEF p
    <3>5. row \in [active : BOOLEAN, profile : Profiles] /\ row.profile = p
      BY <3>2 DEF ParlourRows
    <3> HIDE DEF row
    <3>6. services \in [Offerings -> [active : BOOLEAN, profile : Profiles]]
      BY <3>5 DEF ParlourRows
    <3>7. \A t \in Offerings : services[t] = IF t = s THEN row ELSE old.services[t]
      BY DEF ParlourRows
    <3> HIDE DEF services
    <3>8. parlour' \in ParlourRows /\ parlour'.services = services
      BY <3>4, <3>6 DEF ParlourRows
    <3> QED BY <1>1, <3>3, <3>5, <3>7, <3>8 DEF EditFits
  <2>2. ASSUME NEW s \in Offerings, ArchiveOffering(s)
        PROVE  EditFits(parlour, parlour') /\ parlour' \in ParlourRows
    <3> DEFINE row == [old.services[s] EXCEPT !.active = FALSE]
               services == [old.services EXCEPT ![s] = row]
    <3>4. parlour' = [old EXCEPT !.services = services]
      BY <1>1, <2>2 DEF ArchiveOffering
    <3>5. row \in [active : BOOLEAN, profile : Profiles] /\ row.profile = old.services[s].profile
      BY DEF ParlourRows
    <3> HIDE DEF row
    <3>6. services \in [Offerings -> [active : BOOLEAN, profile : Profiles]]
      BY <3>5 DEF ParlourRows
    <3>7. \A t \in Offerings : services[t] = IF t = s THEN row ELSE old.services[t]
      BY DEF ParlourRows
    <3> HIDE DEF services
    <3>8. parlour' \in ParlourRows /\ parlour'.services = services
      BY <3>4, <3>6 DEF ParlourRows
    <3> QED BY <1>1, <3>5, <3>7, <3>8 DEF EditFits
  <2>3. ASSUME ImportProgress \/ SetConsultationEnabled \/ SetBookingEnabled
        PROVE  EditFits(parlour, parlour') /\ parlour' \in ParlourRows
    BY <1>1, <2>3 DEF ImportProgress, SetConsultationEnabled, SetBookingEnabled, ParlourRows,
       EditFits
  <2> QED BY <2>1, <2>2, <2>3 DEF OwnerEdits
<1>3. /\ loaded.open => MenuFits(loaded.services, parlour')
      /\ ConsultFits(advice.consultation, promised, parlour')
  <2>1. PICK salon \in ParlourRows : salon = parlour'
    BY <1>2
  <2> QED BY <1>2, <2>1, EditKeeps
<1>4. /\ guideLeft' \in [turns : 0 .. MaxGuideTurns, edits : 0 .. MaxGuideEdits]
      /\ guideLeft'.turns = guideLeft.turns
  <2>1. PICK left \in [turns : 0 .. MaxGuideTurns, edits : 0 .. MaxGuideEdits] :
          left = guideLeft /\ left.edits > 0
    BY DEF GuideInv, OwnerEdits
  <2>2. guideLeft' = [left EXCEPT !.edits = @ - 1]
    BY <2>1 DEF OwnerEdits
  <2>3. left.edits - 1 \in 0 .. MaxGuideEdits
    BY <2>1, GuideBounds
  <2> QED BY <2>1, <2>2, <2>3
<1>5. UNCHANGED <<advice, loaded, promised>>
  BY DEF OwnerEdits
<1> QED BY <1>2, <1>3, <1>4, <1>5 DEF GuideInv

LEMMA CallerStep == GuideInv /\ CallerSays => GuideInv'
<1> SUFFICES ASSUME GuideInv, CallerSays PROVE GuideInv'
  OBVIOUS
<1>1. CASE SafetyConcern
  BY <1>1, SafetyStep
<1>2. CASE \/ ConsultationDisabled \/ BookingDeclined \/ BackToBooking
           \/ \E goodbye \in BOOLEAN : CallerDone(goodbye)
  BY <1>2, ResumeStep
<1>3. CASE InterpreterUnavailable
  BY <1>3, UnavailableStep
<1>4. CASE AsksForMenu
  BY <1>4, MenuStep
<1>5. CASE AcceptRecommendation
  BY <1>5, AcceptStep
<1>6. CASE \E s \in Offerings : ExplicitBooking(s)
  BY <1>6, NamedStep
<1>7. CASE \E s \in Offerings : SelectRecommended(s)
  BY <1>7, SelectStep
<1>8. CASE \E s \in Offerings : closeConsultationForWorkflow(s)
  BY <1>8, WorkflowStep
<1>9. CASE /\ TurnOpen
           /\ \E needs \in NeedsAfter(initializeConsultationState.needs) : StateNeeds(needs)
  BY <1>9, NeedsStep DEF TurnOpen
<1>10. CASE \E evidence \in Evidence : handleGuidanceRecovery(evidence)
  BY <1>10, RecoveryStep
<1> QED
  BY <1>1, <1>2, <1>3, <1>4, <1>5, <1>6, <1>7, <1>8, <1>9, <1>10 DEF CallerSays, Evidence

LEMMA GuideInitial == GuideInit => GuideInv
<1> SUFFICES ASSUME GuideInit PROVE GuideInv
  OBVIOUS
<1>1. parlour \in ParlourRows
  <2>1. PICK authority \in {"manleai_calendar", "external_provider"},
             linked \in {{}, Offerings} :
           parlour = [authority |-> authority, linked |-> linked, synced |-> TRUE,
                      enabled |-> TRUE, bookings |-> TRUE,
                      services |-> [s \in Offerings |->
                         [active |-> TRUE,
                          profile |-> [revision |-> 1, ready |-> TRUE,
                                       outcomes |-> FirstProfiles[s].outcomes,
                                       favoured |-> FirstProfiles[s].favoured]]]]
    BY DEF GuideInit
  <2>2. \A s \in Offerings :
          [revision |-> 1, ready |-> TRUE, outcomes |-> FirstProfiles[s].outcomes,
           favoured |-> FirstProfiles[s].favoured] \in Profiles
    <3>1. \A s \in Offerings : FirstProfiles[s] \in [outcomes : SUBSET Outcomes, favoured : BOOLEAN]
      BY GuidanceConstants
    <3> QED BY <3>1 DEF Profiles
  <2> QED BY <2>1, <2>2 DEF ParlourRows
<1>2. advice \in AdviceRows /\ advice.consultation = NoConsultation
  <2>1. PICK s \in Choice :
           advice = [status |-> "active", phase |-> IF s = "" THEN "open" ELSE "drafting",
                     chosen |-> s, consultation |-> NoConsultation, guidance |-> NoGuidance]
    BY DEF GuideInit, Choice
  <2> QED BY <2>1, NothingToDo DEF AdviceRows
<1>3. promised \in PromiseRows /\ StartSound(promised.started)
  <2>1. NoRevisions \in [Offerings -> Nat]
    BY DEF NoRevisions
  <2> QED BY <2>1 DEF GuideInit, PromiseRows, StartRows, Choice, NotStarted, StartSound
<1>4. ConsultFits(advice.consultation, promised, parlour)
  BY <1>2, NothingToDo DEF ConsultFits, ConsultBounded, RecommendedFits, OfferFits, Guiding
<1>5. guideLeft \in [turns : 0 .. MaxGuideTurns, edits : 0 .. MaxGuideEdits]
  <2>1. guideLeft = [turns |-> MaxGuideTurns, edits |-> MaxGuideEdits]
    BY DEF GuideInit
  <2>2. MaxGuideTurns \in 0 .. MaxGuideTurns /\ MaxGuideEdits \in 0 .. MaxGuideEdits
    BY GuideBounds
  <2> QED BY ONLY <2>1, <2>2
<1>6. loaded.open = FALSE
  BY DEF GuideInit, NoTurn
<1> QED BY <1>1, <1>2, <1>3, <1>4, <1>5, <1>6 DEF GuideInv

LEMMA GuideInductive == GuideInv /\ [GuideNext]_guideVars => GuideInv'
<1> SUFFICES ASSUME GuideInv, [GuideNext]_guideVars PROVE GuideInv'
  OBVIOUS
<1>1. CASE OwnerEdits
  BY <1>1, EditsStep
<1>2. CASE BeginGuideTurn
  BY <1>2, BeginStep
<1>3. CASE CallerSays
  BY <1>3, CallerStep
<1>4. CASE UNCHANGED guideVars
  BY <1>4 DEF guideVars, GuideInv
<1> QED BY <1>1, <1>2, <1>3, <1>4 DEF GuideNext

LEMMA GuideSafe == GuideInv => GuideTypeOK /\ BookedAsRecommended
<1> SUFFICES ASSUME GuideInv PROVE GuideTypeOK /\ BookedAsRecommended
  OBVIOUS
<1>1. PICK c \in ConsultRows : c = advice.consultation /\ Cardinality(c.recommended) <= 2
  BY OldConsultation
<1>2. c.recommended \subseteq Offerings /\ c.idle \in 0 .. MaxNoProgress /\ c.failures \in 0 .. 2
  BY DEF ConsultRows
<1>3. advice.status \in {"active", "handoff", "completed"} /\ advice.chosen \in Offerings \cup {""}
  BY DEF GuideInv, AdviceRows, Choice
<1>4. GuideTypeOK
  BY <1>1, <1>2, <1>3 DEF GuideTypeOK, GuideInv
<1>5. BookedAsRecommended
  BY DEF GuideInv, StartSound, BookedAsRecommended
<1> QED BY <1>4, <1>5

(************************* The lifecycle dialogue **************************)
-----------------------------------------------------------------------------
(* Rows.                                                                   *)

LifeTimes == VisitTimes \cup {0}
VisitStates == [when : LifeTimes, version : Nat, active : BOOLEAN]
Seen == [when : LifeTimes, version : Nat]
SeenSets == {<<>>} \cup UNION {[S -> Seen] : S \in SUBSET Visits}
LifeTargets == Visits \cup {NoVisit, Manual}
LifeAuthorities == {"", "manleai_calendar", "external_provider"} \cup {p.authority : p \in LifePolicies}
LifeResults ==
    {"collecting", "booking_rescheduled", "booking_cancelled", "owner_review_pending",
     "booking_fallback_pending"}
LifeRows ==
    [status : {"active", "completed", "handoff"}, outcome : LifeResults,
     action : {"book", "reschedule", "cancel"}, phone : BOOLEAN, candidates : SeenSets,
     target : LifeTargets, when : LifeTimes, options : SUBSET VisitTimes, chosen : LifeTimes, proof : Nat,
     pending : {"none", "manual", "move", "reason", "cancel"}, authority : LifeAuthorities]
LifeTurns ==
    [stage : {"idle", "loaded", "executing", "saving"}, cfg : LifePolicies \cup {IdleLife.cfg},
     next : LifeRows]
Budgets == [turns : 0 .. MaxLifeTurns, edits : 0 .. MaxVisitEdits, policies : 0 .. MaxLifePolicies]

(* A session that goes on: what it awaits an answer to is what the caller  *)
(* was last asked to approve.                                              *)
AskedOf(t, a) == a.action = t.action /\ a.target = t.target
SessionFits(t, a) ==
    /\ t.outcome = "collecting"
    /\ ~ t.phone \/ t.action = "book" => t.target = NoVisit /\ t.pending = "none"
    /\ t.target \in Visits => t.target \in DOMAIN t.candidates
    /\ t.pending \in {"reason", "cancel"} => t.action = "cancel"
    /\ t.pending = "move" /\ t.action = "reschedule" =>
         /\ t.target \in Visits /\ t.when = t.chosen
         /\ AskedOf(t, a) /\ a.version = VersionSeen(t) /\ a.when = t.when
    /\ t.pending = "cancel" =>
         t.target \in Visits /\ AskedOf(t, a) /\ a.version = VersionSeen(t)
    /\ t.action = "cancel" /\ t.target \in Visits \ InternalVisits => AskedOf(t, a)
LifeFits(t, a) == t \in LifeRows /\ (t.status = "active" => SessionFits(t, a))

(* What is to be executed.                                                 *)
ExecFits(t, a) ==
    /\ t.status = "active" /\ t.outcome = "collecting" /\ t.phone
    /\ t.action \in {"reschedule", "cancel"}
    /\ t.target \in Visits \cup {Manual}
    /\ t.target \in Visits => t.target \in DOMAIN t.candidates
    /\ IsInternal(t) =>
         /\ AskedOf(t, a) /\ a.version = VersionSeen(t)
         /\ t.action = "reschedule" => a.when = t.when
    /\ t.action = "cancel" /\ t.target \in Visits => AskedOf(t, a)

(* What a caller is told of happened.                                      *)
ToldFits(t, ops, all) ==
    t.outcome \in {"booking_rescheduled", "booking_cancelled"} =>
        /\ LifeKey(t) \in DOMAIN ops
        /\ ops[LifeKey(t)].kind = "confirmed" /\ ops[LifeKey(t)].request = Request(t)
        /\ t.outcome = "booking_cancelled" => ~ all[t.target].active

OpSound(key, op, all) ==
    /\ op.kind \in {"confirmed", "owner_review", "fallback"}
    /\ op.request.action = key[1] /\ op.request.target = key[2]
    /\ op.kind = "confirmed" =>
         /\ key[2] \in Visits
         /\ key[1] = "cancel" => ~ all[key[2]].active
         /\ key[2] \in InternalVisits =>
              /\ AskedOf(op.request, op.approved) /\ op.approved.version = op.found
              /\ op.request.action = "reschedule" => op.approved.when = op.request.when
         /\ op.request.action = "cancel" => AskedOf(op.request, op.approved)
OpsFit(ops, all) ==
    /\ DOMAIN ops \subseteq {"reschedule", "cancel"} \X (Visits \cup {Manual})
    /\ \A key \in DOMAIN ops : OpSound(key, ops[key], all)

(* A visit changes with an edit of the owner or with an operation on it.   *)
Moved(ops, v) == IF <<"reschedule", v>> \in DOMAIN ops THEN 1 ELSE 0
Cancelled(ops, v) == IF <<"cancel", v>> \in DOMAIN ops THEN 1 ELSE 0
VersionsFit(all, ops, left) ==
    \A v \in Visits :
        /\ 1 <= all[v].version
        /\ all[v].version <= 1 + (MaxVisitEdits - left.edits) + Moved(ops, v) + Cancelled(ops, v)

(* The inductive invariant.                                                *)
LifeInv ==
    /\ visits \in [Visits -> VisitStates] /\ lifePolicy \in LifePolicies
    /\ lifeTurn \in LifeTurns /\ lifeBudget \in Budgets
    /\ LifeFits(life, approved) /\ ToldFits(life, lifeOps, visits)
    /\ lifeTurn.stage # "idle" => life.status = "active"
    /\ lifeTurn.stage = "executing" => ExecFits(lifeTurn.next, approved)
    /\ lifeTurn.stage = "saving" =>
         lifeTurn.next.status = "completed" /\ ToldFits(lifeTurn.next, lifeOps, visits)
    /\ OpsFit(lifeOps, visits)
    /\ VersionsFit(visits, lifeOps, lifeBudget)

-----------------------------------------------------------------------------
(* Helpers of the session.                                                 *)

LEMMA NewLifeRow ==
    /\ NewLife \in LifeRows
    /\ \A phone \in BOOLEAN : \A a : LifeFits([NewLife EXCEPT !.phone = phone], a)
<1>1. NewLife \in LifeRows
  BY DEF NewLife, LifeRows, LifeResults, SeenSets, LifeTargets, LifeTimes, LifeAuthorities
<1> SUFFICES ASSUME NEW phone \in BOOLEAN, NEW a
             PROVE  LifeFits([NewLife EXCEPT !.phone = phone], a)
  BY <1>1
<1>2. PICK n \in LifeRows : n = NewLife /\ n.outcome = "collecting" /\ n.target = NoVisit
                          /\ n.pending = "none" /\ n.action = "book"
  BY <1>1 DEF NewLife
<1> DEFINE d == [n EXCEPT !.phone = phone]
<1>3. d \in LifeRows
  BY DEF LifeRows
<1>4. d.outcome = n.outcome /\ d.target = n.target /\ d.pending = n.pending /\ d.action = n.action
  BY DEF LifeRows
<1>5. NoVisit \notin Visits
  BY LifecycleConstants
<1> HIDE DEF d
<1>6. LifeFits(d, a)
  BY <1>2, <1>3, <1>4, <1>5 DEF LifeFits, SessionFits
<1> QED BY <1>2, <1>6 DEF d

(* The parts of a session that the helpers leave alone.                    *)
SameCall(d, t) ==
    /\ d.status = t.status /\ d.outcome = t.outcome /\ d.action = t.action /\ d.phone = t.phone

LEMMA ClearedSlot ==
    ASSUME NEW t \in LifeRows
    PROVE  LET d == clearNewRescheduleSlot(t) IN
           /\ d \in LifeRows /\ SameCall(d, t) /\ d.candidates = t.candidates
           /\ d.target = (IF t.target = Manual THEN NoVisit ELSE t.target)
           /\ d.pending = (IF t.pending = "manual" THEN "none" ELSE t.pending)
<1> DEFINE target == IF t.target = Manual THEN NoVisit ELSE t.target
           pending == IF t.pending = "manual" THEN "none" ELSE t.pending
           d == [t EXCEPT !.when = 0, !.options = {}, !.chosen = 0,
                          !.target = target, !.pending = pending]
<1>1. d = clearNewRescheduleSlot(t)
  BY DEF clearNewRescheduleSlot
<1>2. target \in LifeTargets /\ pending \in {"none", "manual", "move", "reason", "cancel"}
  BY DEF LifeRows, LifeTargets
<1> HIDE DEF target, pending
<1>3. d \in LifeRows
  BY <1>2 DEF LifeRows, LifeTimes
<1>4. SameCall(d, t) /\ d.candidates = t.candidates /\ d.target = target /\ d.pending = pending
  BY DEF LifeRows, SameCall
<1> QED BY <1>1, <1>3, <1>4 DEF target, pending

LEMMA ClearedSelection ==
    ASSUME NEW t \in LifeRows
    PROVE  LET d == clearCancelSelection(t) IN
           /\ d \in LifeRows /\ SameCall(d, t) /\ d.candidates = t.candidates
           /\ d.target = NoVisit
           /\ d.pending = (IF t.pending \in {"manual", "reason", "cancel"} THEN "none"
                           ELSE t.pending)
<1> DEFINE pending == IF t.pending \in {"manual", "reason", "cancel"} THEN "none" ELSE t.pending
           d == [t EXCEPT !.target = NoVisit, !.when = 0, !.options = {}, !.chosen = 0,
                          !.pending = pending]
<1>1. d = clearCancelSelection(t)
  BY DEF clearCancelSelection
<1>2. NoVisit \in LifeTargets /\ pending \in {"none", "manual", "move", "reason", "cancel"}
  BY DEF LifeRows, LifeTargets
<1> HIDE DEF pending
<1>3. d \in LifeRows
  BY <1>2 DEF LifeRows, LifeTimes
<1>4. SameCall(d, t) /\ d.candidates = t.candidates /\ d.target = NoVisit /\ d.pending = pending
  BY DEF LifeRows, SameCall
<1> QED BY <1>1, <1>3, <1>4 DEF pending

LEMMA ClearedPending ==
    ASSUME NEW t \in LifeRows
    PROVE  LET d == clearInternalLifecyclePending(t) IN
           /\ d \in LifeRows /\ SameCall(d, t) /\ d.candidates = t.candidates
           /\ d.target = t.target /\ d.when = t.when
           /\ d.pending = (IF t.pending \in {"move", "reason", "cancel"} THEN "none"
                           ELSE t.pending)
<1> DEFINE pending == IF t.pending \in {"move", "reason", "cancel"} THEN "none" ELSE t.pending
           d == [t EXCEPT !.pending = pending]
<1>1. d = clearInternalLifecyclePending(t)
  BY DEF clearInternalLifecyclePending
<1>2. pending \in {"none", "manual", "move", "reason", "cancel"}
  BY DEF LifeRows
<1> HIDE DEF pending
<1>3. d \in LifeRows
  BY <1>2 DEF LifeRows
<1>4. /\ SameCall(d, t) /\ d.candidates = t.candidates /\ d.target = t.target /\ d.when = t.when
      /\ d.pending = pending
  BY DEF LifeRows, SameCall
<1> QED BY <1>1, <1>3, <1>4 DEF pending

LEMMA RescheduleCandidate ==
    ASSUME NEW t \in LifeRows, NEW v \in Visits
    PROVE  LET d == applyRescheduleCandidate(t, v) IN
           /\ d \in LifeRows /\ SameCall(d, t) /\ d.candidates = t.candidates
           /\ d.target = v /\ d.pending = t.pending
<1> DEFINE d == [t EXCEPT !.target = v, !.when = 0, !.options = {}, !.chosen = 0]
<1>1. d \in LifeRows
  BY DEF LifeRows, LifeTargets, LifeTimes
<1>2. SameCall(d, t) /\ d.candidates = t.candidates /\ d.target = v /\ d.pending = t.pending
  BY DEF LifeRows, SameCall
<1> QED BY <1>1, <1>2 DEF applyRescheduleCandidate

LEMMA SeenOf ==
    ASSUME NEW t \in LifeRows
    PROVE  /\ DOMAIN t.candidates \subseteq Visits
           /\ \A v \in DOMAIN t.candidates : t.candidates[v] \in Seen
<1>1. t.candidates \in SeenSets
  BY DEF LifeRows
<1>2. CASE t.candidates = <<>>
  BY <1>2
<1>3. CASE \E S \in SUBSET Visits : t.candidates \in [S -> Seen]
  BY <1>3
<1> QED BY <1>1, <1>2, <1>3 DEF SeenSets

LEMMA CancelCandidate ==
    ASSUME NEW t \in LifeRows, NEW v \in DOMAIN t.candidates
    PROVE  LET d == applyCancelCandidate(t, v) IN
           /\ d \in LifeRows /\ SameCall(d, t) /\ d.candidates = t.candidates
           /\ d.target = v /\ d.pending = t.pending /\ v \in Visits
<1>1. v \in Visits /\ t.candidates[v].when \in LifeTimes
  BY SeenOf DEF Seen
<1>2. PICK x \in LifeRows : /\ x = applyRescheduleCandidate(t, v) /\ SameCall(x, t)
                            /\ x.candidates = t.candidates /\ x.target = v /\ x.pending = t.pending
  BY <1>1, RescheduleCandidate
<1> DEFINE d == [x EXCEPT !.when = t.candidates[v].when]
<1>3. d = applyCancelCandidate(t, v)
  BY <1>2 DEF applyCancelCandidate
<1>4. d \in LifeRows
  BY <1>1 DEF LifeRows
<1>5. /\ d.status = x.status /\ d.outcome = x.outcome /\ d.action = x.action /\ d.phone = x.phone
      /\ d.candidates = x.candidates /\ d.target = x.target /\ d.pending = x.pending
  BY DEF LifeRows
<1> HIDE DEF d
<1> QED BY <1>1, <1>2, <1>3, <1>4, <1>5 DEF SameCall

LEMMA FoundCandidates ==
    ASSUME visits \in [Visits -> VisitStates]
    PROVE  /\ Candidates(Upcoming) \in SeenSets /\ DOMAIN Candidates(Upcoming) = Upcoming
           /\ Upcoming \subseteq Visits
<1>1. Upcoming \in SUBSET Visits
  BY DEF Upcoming
<1>2. \A v \in Upcoming : [when |-> visits[v].when, version |-> visits[v].version] \in Seen
  BY <1>1 DEF VisitStates, Seen
<1>3. Candidates(Upcoming) \in [Upcoming -> Seen]
  BY <1>2 DEF Candidates
<1> QED BY <1>1, <1>3 DEF SeenSets

LEMMA WithFound ==
    ASSUME visits \in [Visits -> VisitStates], NEW t \in LifeRows
    PROVE  LET d == [t EXCEPT !.candidates = Candidates(Upcoming)] IN
           /\ d \in LifeRows /\ SameCall(d, t) /\ DOMAIN d.candidates = Upcoming
           /\ d.target = t.target /\ d.pending = t.pending
<1>1. PICK c \in SeenSets : c = Candidates(Upcoming) /\ DOMAIN c = Upcoming
  BY FoundCandidates
<1> DEFINE d == [t EXCEPT !.candidates = c]
<1>2. d \in LifeRows
  BY DEF LifeRows
<1>3. SameCall(d, t) /\ d.candidates = c /\ d.target = t.target /\ d.pending = t.pending
  BY DEF LifeRows, SameCall
<1> QED BY <1>1, <1>2, <1>3

LEMMA OfferedInternal ==
    ASSUME NEW t \in LifeRows, t.target \in DOMAIN t.candidates, NEW times \in SUBSET VisitTimes
    PROVE  LET d == InternalOffer(t, times) IN
           /\ d \in LifeRows /\ SameCall(d, t) /\ d.candidates = t.candidates
           /\ d.target = t.target /\ d.pending = t.pending
<1>1. PICK n \in Nat : n = VersionSeen(t)
  BY SeenOf DEF VersionSeen, Seen
<1> DEFINE d == [t EXCEPT !.when = 0, !.chosen = 0, !.options = times, !.proof = n,
                          !.authority = "manleai_calendar"]
<1>2. d = InternalOffer(t, times)
  BY <1>1 DEF InternalOffer
<1>3. d \in LifeRows
  BY DEF LifeRows, LifeTimes, LifeAuthorities
<1>4. SameCall(d, t) /\ d.candidates = t.candidates /\ d.target = t.target /\ d.pending = t.pending
  BY DEF LifeRows, SameCall
<1> QED BY <1>2, <1>3, <1>4

LEMMA OfferedOther ==
    ASSUME NEW t \in LifeRows, NEW times \in SUBSET VisitTimes
    PROVE  LET d == OtherOffer(t, times) IN
           /\ d \in LifeRows /\ SameCall(d, t) /\ d.candidates = t.candidates
           /\ d.target = t.target /\ d.pending = t.pending
<1> DEFINE d == [t EXCEPT !.when = 0, !.options = times, !.authority = "external_provider"]
<1>1. d \in LifeRows
  BY DEF LifeRows, LifeTimes, LifeAuthorities
<1>2. SameCall(d, t) /\ d.candidates = t.candidates /\ d.target = t.target /\ d.pending = t.pending
  BY DEF LifeRows, SameCall
<1> QED BY <1>1, <1>2 DEF OtherOffer

-----------------------------------------------------------------------------
(* Ends of a turn.                                                         *)

LEMMA IdleRow == IdleLife \in LifeTurns /\ IdleLife.stage = "idle"
BY NewLifeRow DEF IdleLife, LifeTurns

LEMMA SaidFits ==
    ASSUME LifeInv, NEW t, LifeFits(t, approved), ToldFits(t, lifeOps, visits), SayLife(t)
    PROVE  LifeInv'
<1>1. /\ life' = t /\ lifeTurn' = IdleLife
      /\ UNCHANGED <<visits, lifePolicy, lifeOps, approved, lifeBudget>>
  BY DEF SayLife
<1> QED BY <1>1, IdleRow DEF LifeInv

(* A session that goes on, or that is handed to the owner.                 *)
LEMMA GoesOn ==
    ASSUME LifeInv, NEW t \in LifeRows, SessionFits(t, approved), SayLife(t)
    PROVE  LifeInv'
BY SaidFits DEF LifeFits, SessionFits, ToldFits

LEMMA HandedOver ==
    ASSUME LifeInv, NEW t \in LifeRows, t.outcome = "collecting", HandOver(t)
    PROVE  LifeInv'
<1> DEFINE d == [t EXCEPT !.status = "handoff"]
<1>1. d \in LifeRows
  BY DEF LifeRows
<1>2. d.status = "handoff" /\ d.outcome = "collecting"
  BY DEF LifeRows
<1>3. SayLife(d)
  BY DEF HandOver
<1> HIDE DEF d
<1> QED BY <1>1, <1>2, <1>3, SaidFits DEF LifeFits, ToldFits

(* AskApproval.                                                            *)
LEMMA ApprovalAsked ==
    ASSUME LifeInv, NEW t \in LifeRows, NEW action, NEW when, AskApproval(t, action, when),
           SessionFits(t, [action |-> action, target |-> t.target, when |-> when,
                           version |-> VersionSeen(t)])
    PROVE  LifeInv'
<1>1. /\ life' = t /\ lifeTurn' = IdleLife
      /\ UNCHANGED <<visits, lifePolicy, lifeOps, lifeBudget>>
      /\ approved' = [action |-> action, target |-> t.target, when |-> when,
                      version |-> VersionSeen(t)]
  BY DEF AskApproval
<1>2. LifeFits(life', approved')
  BY <1>1 DEF LifeFits
<1>3. ToldFits(life', lifeOps', visits')
  BY <1>1 DEF SessionFits, ToldFits
<1>4. lifeTurn' \in LifeTurns /\ lifeTurn'.stage = "idle"
  BY <1>1, IdleRow
<1> QED BY <1>1, <1>2, <1>3, <1>4 DEF LifeInv

LEMMA ExecutionBegins ==
    ASSUME LifeInv, lifeTurn.stage # "idle", NEW t \in LifeRows, ExecFits(t, approved),
           GoExecute(t)
    PROVE  LifeInv'
<1>1. /\ lifeTurn' = [lifeTurn EXCEPT !.stage = "executing", !.next = t]
      /\ UNCHANGED <<life, visits, lifePolicy, lifeOps, approved, lifeBudget>>
  BY DEF GoExecute
<1>2. lifeTurn' \in LifeTurns /\ lifeTurn'.stage = "executing" /\ lifeTurn'.next = t
  BY <1>1 DEF LifeInv, LifeTurns
<1> QED BY <1>1, <1>2 DEF LifeInv

-----------------------------------------------------------------------------
(* Replacement times.                                                      *)

(* reofferInternalLifecycleAfterConflict.                                  *)
LEMMA Reoffers ==
    ASSUME LifeInv, NEW t \in LifeRows, t.outcome = "collecting", t.status = "active",
           t.phone, t.target \in InternalVisits,
           NEW action \in {"reschedule", "cancel"},
           reofferInternalLifecycleAfterConflict(t, action)
    PROVE  LifeInv'
<1>1. visits \in [Visits -> VisitStates] /\ t.target \in Visits
  BY LifecycleConstants DEF LifeInv
<1>2. CASE HandOver(t)
  BY <1>2, HandedOver
<1>3. PICK x \in LifeRows :
        /\ x = clearInternalLifecyclePending(t) /\ SameCall(x, t) /\ x.target = t.target
        /\ x.pending \in {"none", "manual"}
  BY ClearedPending DEF LifeRows
<1>4. PICK f \in LifeRows :
        /\ f = [x EXCEPT !.candidates = Candidates(Upcoming), !.chosen = 0, !.proof = 0]
        /\ SameCall(f, t) /\ f.target = t.target /\ DOMAIN f.candidates = Upcoming
        /\ f.pending \in {"none", "manual"}
  <2>1. PICK c \in SeenSets : c = Candidates(Upcoming) /\ DOMAIN c = Upcoming
    BY <1>1, FoundCandidates
  <2> DEFINE d == [x EXCEPT !.candidates = c, !.chosen = 0, !.proof = 0]
  <2>2. d \in LifeRows
    BY DEF LifeRows, LifeTimes
  <2>3. /\ d.status = x.status /\ d.outcome = x.outcome /\ d.action = x.action
        /\ d.phone = x.phone /\ d.candidates = c /\ d.target = x.target /\ d.pending = x.pending
    BY DEF LifeRows
  <2>4. d = [x EXCEPT !.candidates = Candidates(Upcoming), !.chosen = 0, !.proof = 0]
    BY <2>1
  <2> HIDE DEF d
  <2> QED BY <1>3, <2>1, <2>2, <2>3, <2>4 DEF SameCall
<1>5. f.status = "active" /\ f.outcome = "collecting" /\ f.phone
  BY <1>4 DEF SameCall
<1>6. CASE HandOver(f)
  BY <1>5, <1>6, HandedOver
<1>7. ASSUME f.target \in Upcoming,
             SayLife([applyCancelCandidate(f, f.target) EXCEPT !.action = "cancel",
                                                              !.pending = "reason"])
      PROVE  LifeInv'
  <2>1. PICK y \in LifeRows :
          /\ y = applyCancelCandidate(f, f.target) /\ SameCall(y, f)
          /\ y.candidates = f.candidates /\ y.target = f.target
    <3>1. f \in LifeRows /\ f.target \in DOMAIN f.candidates
      BY <1>4, <1>7
    <3> QED BY ONLY <3>1, CancelCandidate
  <2> DEFINE d == [y EXCEPT !.action = "cancel", !.pending = "reason"]
  <2>2. d \in LifeRows
    BY DEF LifeRows
  <2>3. /\ d.status = y.status /\ d.outcome = y.outcome /\ d.action = "cancel"
        /\ d.phone = y.phone /\ d.candidates = y.candidates /\ d.target = y.target
        /\ d.pending = "reason"
    BY DEF LifeRows
  <2>4. SayLife(d)
    BY <1>7, <2>1
  <2> HIDE DEF d
  <2>5. SessionFits(d, approved)
    BY <1>4, <1>5, <1>7, <2>1, <2>3 DEF SessionFits, SameCall
  <2> QED BY <2>2, <2>4, <2>5, GoesOn
<1>8. ASSUME f.target \in Upcoming, NEW times \in SUBSET VisitTimes,
             SayLife(InternalOffer([applyRescheduleCandidate(f, f.target) EXCEPT
                                    !.action = "reschedule"], times))
      PROVE  LifeInv'
  <2>1. PICK y \in LifeRows :
          /\ y = applyRescheduleCandidate(f, f.target) /\ SameCall(y, f)
          /\ y.candidates = f.candidates /\ y.target = f.target /\ y.pending = f.pending
    <3>1. f \in LifeRows /\ f.target \in Visits
      BY <1>1, <1>4
    <3> QED BY ONLY <3>1, RescheduleCandidate
  <2> DEFINE d == [y EXCEPT !.action = "reschedule"]
  <2>2. d \in LifeRows
    BY DEF LifeRows
  <2>3. /\ d.status = y.status /\ d.outcome = y.outcome /\ d.action = "reschedule"
        /\ d.phone = y.phone /\ d.candidates = y.candidates /\ d.target = y.target
        /\ d.pending = y.pending
    BY DEF LifeRows
  <2>4. SayLife(InternalOffer(d, times))
    BY <1>8, <2>1
  <2> HIDE DEF d
  <2>5. PICK o \in LifeRows :
          /\ o = InternalOffer(d, times) /\ SameCall(o, d) /\ o.candidates = d.candidates
          /\ o.target = d.target /\ o.pending = d.pending
    BY <1>4, <1>8, <2>1, <2>2, <2>3, OfferedInternal
  <2>6. SessionFits(o, approved)
    BY <1>4, <1>5, <1>8, <2>1, <2>3, <2>5 DEF SessionFits, SameCall
  <2> QED BY <2>4, <2>5, <2>6, GoesOn
<1>9. \/ HandOver(t) \/ HandOver(f)
      \/ /\ f.target \in Upcoming
         /\ SayLife([applyCancelCandidate(f, f.target) EXCEPT !.action = "cancel",
                                                              !.pending = "reason"])
      \/ /\ f.target \in Upcoming
         /\ \E times \in SUBSET VisitTimes :
              SayLife(InternalOffer([applyRescheduleCandidate(f, f.target) EXCEPT
                                     !.action = "reschedule"], times))
  BY <1>3, <1>4 DEF reofferInternalLifecycleAfterConflict
<1> QED BY <1>2, <1>6, <1>7, <1>8, <1>9

(* A session in which an appointment was picked and nothing is pending.    *)
Picked(t) ==
    /\ t.status = "active" /\ t.outcome = "collecting" /\ t.phone
    /\ t.action = "reschedule" /\ t.pending = "none"
    /\ t.target \in Visits => t.target \in DOMAIN t.candidates

LEMMA PickedGoesOn ==
    ASSUME LifeInv, NEW t \in LifeRows, Picked(t), SayLife(t)
    PROVE  LifeInv'
<1>1. SessionFits(t, approved)
  BY DEF Picked, SessionFits
<1> QED BY <1>1, GoesOn

LEMMA InternalTimes ==
    ASSUME LifeInv, NEW t \in LifeRows, Picked(t), t.target \in InternalVisits,
           InternalAvailability(t)
    PROVE  LifeInv'
<1>1. \/ HandOver(t)
      \/ reofferInternalLifecycleAfterConflict(t, "reschedule")
      \/ \E times \in SUBSET VisitTimes : SayLife(InternalOffer(t, times))
  BY DEF InternalAvailability
<1>2. CASE HandOver(t)
  BY <1>2, HandedOver DEF Picked
<1>3. CASE reofferInternalLifecycleAfterConflict(t, "reschedule")
  BY <1>3, Reoffers DEF Picked
<1>4. ASSUME NEW times \in SUBSET VisitTimes, SayLife(InternalOffer(t, times))
      PROVE  LifeInv'
  <2>1. t.target \in DOMAIN t.candidates
    BY LifecycleConstants DEF Picked
  <2>2. PICK o \in LifeRows :
          /\ o = InternalOffer(t, times) /\ SameCall(o, t) /\ o.candidates = t.candidates
          /\ o.target = t.target /\ o.pending = t.pending
    BY <2>1, OfferedInternal
  <2>3. Picked(o)
    BY <2>2 DEF Picked, SameCall
  <2> QED BY <1>4, <2>2, <2>3, PickedGoesOn
<1> QED BY <1>1, <1>2, <1>3, <1>4

LEMMA OtherTimes ==
    ASSUME LifeInv, NEW t \in LifeRows, Picked(t), NEW times \in SUBSET VisitTimes,
           SayLife(OtherOffer(t, times))
    PROVE  LifeInv'
<1>1. PICK o \in LifeRows :
        /\ o = OtherOffer(t, times) /\ SameCall(o, t) /\ o.candidates = t.candidates
        /\ o.target = t.target /\ o.pending = t.pending
  BY OfferedOther
<1>2. Picked(o)
  BY <1>1 DEF Picked, SameCall
<1> QED BY <1>1, <1>2, PickedGoesOn

LEMMA OtherReschedules ==
    ASSUME LifeInv, lifeTurn.stage # "idle", NEW t \in LifeRows, Picked(t), ~ IsInternal(t),
           t.target # NoVisit, NEW when \in VisitTimes, tryReschedule(t, when)
    PROVE  LifeInv'
<1>1. CASE HandOver(t)
  BY <1>1, HandedOver DEF Picked
<1>2. CASE \E times \in SUBSET VisitTimes : SayLife(OtherOffer(t, times))
  BY <1>2, OtherTimes
<1> DEFINE authority == IF t.target = Manual THEN lifePolicy.authority ELSE "external_provider"
<1>3. CASE GoExecute([t EXCEPT !.when = when, !.options = {}, !.authority = authority])
  <2>1. authority \in LifeAuthorities
    BY DEF LifeAuthorities, LifeInv
  <2> HIDE DEF authority
  <2> DEFINE d == [t EXCEPT !.when = when, !.options = {}, !.authority = authority]
  <2>2. d \in LifeRows
    BY <2>1 DEF LifeRows, LifeTimes
  <2>3. /\ d.status = t.status /\ d.outcome = t.outcome /\ d.action = t.action
        /\ d.candidates = t.candidates /\ d.target = t.target /\ d.phone = t.phone
    BY DEF LifeRows
  <2>4. GoExecute(d)
    BY <1>3
  <2> HIDE DEF d
  <2>5. t.target \in Visits \cup {Manual}
    BY DEF LifeRows, LifeTargets
  <2>6. ExecFits(d, approved)
    BY <2>3, <2>5 DEF ExecFits, Picked, IsInternal
  <2> QED BY <2>2, <2>4, <2>6, ExecutionBegins
<1> QED BY <1>1, <1>2, <1>3 DEF tryReschedule

LEMMA ReplacementReviewed ==
    ASSUME LifeInv, NEW t \in LifeRows, Picked(t), t.target \in Visits,
           NEW when \in VisitTimes, ReviewReplacement(t, when)
    PROVE  LifeInv'
<1> DEFINE d == [t EXCEPT !.chosen = when, !.when = when, !.pending = "move"]
<1>1. d \in LifeRows
  BY DEF LifeRows, LifeTimes
<1>2. /\ d.status = t.status /\ d.outcome = t.outcome /\ d.action = t.action
      /\ d.candidates = t.candidates /\ d.target = t.target /\ d.phone = t.phone
      /\ d.pending = "move" /\ d.when = when /\ d.chosen = when
  BY DEF LifeRows
<1>3. AskApproval(d, "reschedule", when)
  BY DEF ReviewReplacement
<1> HIDE DEF d
<1>4. SessionFits(d, [action |-> "reschedule", target |-> d.target, when |-> when,
                      version |-> VersionSeen(d)])
  BY <1>2 DEF SessionFits, Picked, AskedOf
<1> QED BY <1>1, <1>3, <1>4, ApprovalAsked

-----------------------------------------------------------------------------
(* Turns that move an appointment.                                         *)

LEMMA NoVisitIsNone == NoVisit \notin Visits /\ Manual \notin Visits /\ NoVisit # Manual
BY LifecycleConstants DEF NoVisit, Manual

LEMMA NothingIsFound ==
    ASSUME LifeInv, NEW t \in LifeRows, t.outcome = "collecting", t.phone,
           t.action \in {"reschedule", "cancel"}, t.target = NoVisit, NothingFound(t)
    PROVE  LifeInv'
<1> DEFINE d == [t EXCEPT !.pending = "manual"]
<1>1. d \in LifeRows
  BY DEF LifeRows
<1>2. /\ d.outcome = t.outcome /\ d.action = t.action /\ d.target = t.target
      /\ d.phone = t.phone /\ d.pending = "manual"
  BY DEF LifeRows
<1>3. SayLife(d) \/ HandOver(t)
  BY DEF NothingFound
<1> HIDE DEF d
<1>4. SessionFits(d, approved)
  BY <1>2, NoVisitIsNone DEF SessionFits
<1> QED BY <1>1, <1>3, <1>4, GoesOn, HandedOver

LEMMA TargetOfMove ==
    ASSUME LifeInv, NEW t \in LifeRows, Picked(t), t.target = NoVisit, RescheduleTarget(t)
    PROVE  LifeInv'
<1>1. PICK b \in LifeRows :
        /\ b = clearNewRescheduleSlot(t) /\ SameCall(b, t) /\ b.candidates = t.candidates
        /\ b.target = NoVisit /\ b.pending = "none"
  BY NoVisitIsNone, ClearedSlot DEF Picked
<1>2. Picked(b)
  BY <1>1, NoVisitIsNone DEF Picked, SameCall
<1>3. ASSUME NEW v \in DOMAIN t.candidates
      PROVE  /\ v \in Visits
             /\ applyRescheduleCandidate(b, v) \in LifeRows /\ Picked(applyRescheduleCandidate(b, v))
             /\ applyRescheduleCandidate(b, v).target = v
  <2>1. v \in Visits
    BY SeenOf
  <2>2. PICK x \in LifeRows :
          /\ x = applyRescheduleCandidate(b, v) /\ SameCall(x, b)
          /\ x.candidates = b.candidates /\ x.target = v /\ x.pending = b.pending
    BY <2>1, RescheduleCandidate
  <2>3. Picked(x)
    BY <1>1, <1>2, <2>2 DEF Picked, SameCall
  <2> QED BY <2>1, <2>2, <2>3
<1>4. ASSUME NEW v \in DOMAIN t.candidates, NEW x \in LifeRows, Picked(x), x.target = v,
             \/ HandOver(x) \/ SayLife(x)
             \/ IF v \in InternalVisits THEN InternalAvailability(x)
                ELSE \E times \in SUBSET VisitTimes : SayLife(OtherOffer(x, times))
      PROVE  LifeInv'
  BY <1>4, HandedOver, PickedGoesOn, InternalTimes, OtherTimes DEF Picked
<1>5. PICK f \in LifeRows :
        /\ f = [b EXCEPT !.candidates = Candidates(Upcoming)] /\ SameCall(f, b)
        /\ f.target = b.target /\ f.pending = b.pending
  BY WithFound DEF LifeInv
<1>6. Picked(f) /\ f.target = NoVisit
  BY <1>1, <1>2, <1>5, NoVisitIsNone DEF Picked, SameCall
<1>7. \/ \E v \in DOMAIN t.candidates :
           LET x == applyRescheduleCandidate(b, v) IN
             \/ HandOver(x) \/ SayLife(x)
             \/ IF v \in InternalVisits THEN InternalAvailability(x)
                ELSE \E times \in SUBSET VisitTimes : SayLife(OtherOffer(x, times))
      \/ SayLife(b) \/ HandOver(b) \/ NothingFound(f) \/ SayLife(f)
  BY <1>1, <1>5 DEF RescheduleTarget
<1>8. CASE SayLife(b) \/ HandOver(b)
  BY <1>2, <1>8, PickedGoesOn, HandedOver DEF Picked
<1>9. CASE NothingFound(f) \/ SayLife(f)
  BY <1>6, <1>9, PickedGoesOn, NothingIsFound DEF Picked
<1> QED BY <1>3, <1>4, <1>7, <1>8, <1>9

LEMMA TimeOfMove ==
    ASSUME LifeInv, lifeTurn.stage # "idle", NEW t \in LifeRows, Picked(t),
           t.target # NoVisit, ReplacementTime(t)
    PROVE  LifeInv'
<1>1. CASE SayLife(t) \/ HandOver(t)
  BY <1>1, PickedGoesOn, HandedOver DEF Picked
<1>2. CASE /\ IsInternal(t)
           /\ \/ \E when \in t.options : ReviewReplacement(t, when)
              \/ InternalAvailability(t)
  BY <1>2, LifecycleConstants, ReplacementReviewed, InternalTimes DEF LifeRows, IsInternal
<1>3. CASE /\ ~ IsInternal(t)
           /\ \/ \E when \in VisitTimes : tryReschedule(t, when)
              \/ \E times \in SUBSET VisitTimes : SayLife(OtherOffer(t, times))
  BY <1>3, OtherReschedules, OtherTimes
<1> QED BY <1>1, <1>2, <1>3 DEF ReplacementTime

LEMMA AnswerToMove ==
    ASSUME LifeInv, lifeTurn.stage # "idle", NEW t \in LifeRows, SessionFits(t, approved),
           t.status = "active", t.pending = "move", t.action = "reschedule",
           ReplacementAnswer(t)
    PROVE  LifeInv'
<1>0. t.phone /\ t.outcome = "collecting" /\ t.target \in Visits /\ t.target \in DOMAIN t.candidates
  BY NoVisitIsNone DEF SessionFits, LifeRows
<1>1. CASE SayLife([clearInternalLifecyclePending(t) EXCEPT !.chosen = 0, !.when = 0, !.proof = 0])
  <2>1. PICK x \in LifeRows :
          /\ x = clearInternalLifecyclePending(t) /\ SameCall(x, t)
          /\ x.candidates = t.candidates /\ x.target = t.target /\ x.pending = "none"
    BY ClearedPending
  <2> DEFINE d == [x EXCEPT !.chosen = 0, !.when = 0, !.proof = 0]
  <2>2. d \in LifeRows
    BY DEF LifeRows, LifeTimes
  <2>3. /\ d.status = x.status /\ d.outcome = x.outcome /\ d.action = x.action
        /\ d.phone = x.phone /\ d.candidates = x.candidates /\ d.target = x.target
        /\ d.pending = x.pending
    BY DEF LifeRows
  <2>4. SayLife(d)
    BY <1>1, <2>1
  <2> HIDE DEF d
  <2>5. Picked(d)
    BY <1>0, <2>1, <2>3 DEF Picked, SameCall
  <2> QED BY <2>2, <2>4, <2>5, PickedGoesOn
<1>2. CASE AskApproval(t, "reschedule", t.chosen)
  BY <1>0, <1>2, ApprovalAsked DEF SessionFits, AskedOf
<1>3. CASE GoExecute(t)
  BY <1>0, <1>3, ExecutionBegins DEF SessionFits, ExecFits, AskedOf
<1> QED BY <1>1, <1>2, <1>3 DEF ReplacementAnswer

LEMMA MoveStep == LifeInv /\ handleRescheduleMessage => LifeInv'
<1> SUFFICES ASSUME LifeInv, handleRescheduleMessage PROVE LifeInv'
  OBVIOUS
<1>1. /\ life \in LifeRows /\ life.status = "active" /\ SessionFits(life, approved)
      /\ lifeTurn.stage # "idle" /\ life.action \in {"book", "reschedule"}
  BY DEF LifeInv, LifeFits, handleRescheduleMessage, LifeRows
<1>2. PICK b \in LifeRows :
        /\ b = (IF life.action = "reschedule" THEN life ELSE clearNewRescheduleSlot(life))
        /\ SameCall(b, life) /\ b.candidates = life.candidates
        /\ life.action = "reschedule" => b = life
        /\ life.action = "book" => b.target = NoVisit /\ b.pending = "none"
  BY <1>1, ClearedSlot, NoVisitIsNone DEF SameCall, SessionFits
<1> DEFINE t == [b EXCEPT !.action = "reschedule"]
<1>3. t \in LifeRows
  BY DEF LifeRows
<1>4. /\ t.status = b.status /\ t.outcome = b.outcome /\ t.action = "reschedule"
      /\ t.phone = b.phone /\ t.candidates = b.candidates /\ t.target = b.target
      /\ t.pending = b.pending
  BY DEF LifeRows
<1>5. \/ HandOver(t)
      \/ ~ t.phone /\ (SayLife(t) \/ RescheduleTarget(WithPhone(t)))
      \/ t.phone /\ life.pending = "manual"
         /\ (SayLife(t) \/ SayLife([t EXCEPT !.pending = "none", !.target = Manual, !.when = 0]))
      \/ life.pending = "move" /\ ReplacementAnswer(life)
      \/ t.phone /\ life.pending \notin {"manual", "move"} /\ t.target = NoVisit /\ RescheduleTarget(t)
      \/ t.phone /\ life.pending \notin {"manual", "move"} /\ t.target # NoVisit /\ ReplacementTime(t)
  BY <1>2 DEF handleRescheduleMessage
<1> HIDE DEF t
<1>6. /\ t.status = "active" /\ t.outcome = "collecting" /\ t.phone = life.phone
      /\ t.target \in Visits => t.target \in DOMAIN t.candidates
      /\ ~ t.phone => t.target = NoVisit /\ t.pending = "none"
      /\ t.pending = life.pending \/ t.pending = "none"
      /\ life.pending \in {"none", "manual", "move"}
  BY <1>1, <1>2, <1>4, NoVisitIsNone DEF LifeRows, SessionFits, SameCall
<1>7. CASE HandOver(t)
  BY <1>3, <1>6, <1>7, HandedOver
<1>8. CASE ~ t.phone /\ (SayLife(t) \/ RescheduleTarget(WithPhone(t)))
  <2>1. SessionFits(t, approved)
    BY <1>6, <1>8, NoVisitIsNone DEF SessionFits
  <2> DEFINE d == [t EXCEPT !.phone = TRUE]
  <2>2. d \in LifeRows
    BY <1>3 DEF LifeRows
  <2>3. /\ d.status = t.status /\ d.outcome = t.outcome /\ d.action = t.action
        /\ d.phone /\ d.candidates = t.candidates /\ d.target = t.target /\ d.pending = t.pending
    BY <1>3 DEF LifeRows
  <2>4. d = WithPhone(t)
    BY DEF WithPhone
  <2> HIDE DEF d
  <2>5. Picked(d) /\ d.target = NoVisit
    BY <1>4, <1>6, <1>8, <2>3 DEF Picked
  <2> QED BY <1>3, <1>8, <2>1, <2>2, <2>4, <2>5, GoesOn, TargetOfMove
<1>9. CASE t.phone /\ life.pending = "manual"
         /\ (SayLife(t) \/ SayLife([t EXCEPT !.pending = "none", !.target = Manual, !.when = 0]))
  <2>1. SessionFits(t, approved)
    BY <1>4, <1>6, <1>9 DEF SessionFits
  <2> DEFINE d == [t EXCEPT !.pending = "none", !.target = Manual, !.when = 0]
  <2>2. d \in LifeRows
    BY <1>3 DEF LifeRows, LifeTargets, LifeTimes
  <2>3. /\ d.status = t.status /\ d.outcome = t.outcome /\ d.action = t.action
        /\ d.phone = t.phone /\ d.target = Manual /\ d.pending = "none"
    BY <1>3 DEF LifeRows
  <2> HIDE DEF d
  <2>4. Picked(d)
    BY <1>4, <1>6, <1>9, <2>3, NoVisitIsNone DEF Picked
  <2> QED BY <1>3, <1>9, <2>1, <2>2, <2>4, GoesOn, PickedGoesOn DEF d
<1>10. CASE life.pending = "move" /\ ReplacementAnswer(life)
  BY <1>1, <1>10, AnswerToMove DEF SessionFits
<1>11. CASE t.phone /\ life.pending \notin {"manual", "move"} /\ t.target = NoVisit /\ RescheduleTarget(t)
  BY <1>3, <1>4, <1>6, <1>11, TargetOfMove DEF Picked
<1>12. CASE t.phone /\ life.pending \notin {"manual", "move"} /\ t.target # NoVisit /\ ReplacementTime(t)
  BY <1>1, <1>3, <1>4, <1>6, <1>12, TimeOfMove DEF Picked
<1> QED BY <1>5, <1>7, <1>8, <1>9, <1>10, <1>11, <1>12

-----------------------------------------------------------------------------
(* Turns that cancel an appointment.                                       *)

(* A session in which the caller wants to cancel.                          *)
Cancels(t) ==
    t.status = "active" /\ t.outcome = "collecting" /\ t.phone /\ t.action = "cancel"

LEMMA CancelIsChosen ==
    ASSUME LifeInv, NEW t \in LifeRows, Cancels(t), NEW v \in DOMAIN t.candidates,
           CancelChosen(t, v)
    PROVE  LifeInv'
<1>1. PICK x \in LifeRows :
        /\ x = applyCancelCandidate(t, v) /\ SameCall(x, t) /\ x.candidates = t.candidates
        /\ x.target = v /\ v \in Visits
  BY CancelCandidate
<1>2. \/ v \in InternalVisits /\ SayLife([x EXCEPT !.pending = "reason"])
      \/ v \notin InternalVisits /\ AskApproval(x, "cancel", x.when)
  BY <1>1 DEF CancelChosen
<1>3. CASE v \in InternalVisits /\ SayLife([x EXCEPT !.pending = "reason"])
  <2> DEFINE d == [x EXCEPT !.pending = "reason"]
  <2>1. d \in LifeRows
    BY DEF LifeRows
  <2>2. /\ d.status = x.status /\ d.outcome = x.outcome /\ d.action = x.action
        /\ d.phone = x.phone /\ d.candidates = x.candidates /\ d.target = x.target
        /\ d.pending = "reason"
    BY DEF LifeRows
  <2>3. SayLife(d)
    BY <1>3
  <2> HIDE DEF d
  <2>4. SessionFits(d, approved)
    BY <1>1, <1>3, <2>2 DEF SessionFits, SameCall, Cancels
  <2> QED BY <2>1, <2>3, <2>4, GoesOn
<1>4. CASE v \notin InternalVisits /\ AskApproval(x, "cancel", x.when)
  BY <1>1, <1>4, ApprovalAsked DEF SessionFits, SameCall, Cancels, AskedOf
<1> QED BY <1>2, <1>3, <1>4

LEMMA TargetOfCancel ==
    ASSUME LifeInv, NEW t \in LifeRows, Cancels(t), t.target = NoVisit,
           t.pending \notin {"reason", "cancel"}, CancelTarget(t)
    PROVE  LifeInv'
<1>1. PICK f \in LifeRows :
        /\ f = [t EXCEPT !.candidates = Candidates(Upcoming)] /\ SameCall(f, t)
        /\ DOMAIN f.candidates = Upcoming /\ f.target = t.target /\ f.pending = t.pending
  BY WithFound DEF LifeInv
<1>2. Cancels(f) /\ f.target = NoVisit
  BY <1>1 DEF Cancels, SameCall
<1>3. SessionFits(t, approved) /\ SessionFits(f, approved)
  BY <1>1, <1>2, NoVisitIsNone DEF SessionFits, Cancels
<1>4. \/ \E v \in DOMAIN t.candidates : CancelChosen(t, v)
      \/ HandOver(t) \/ SayLife(t) \/ NothingFound(f) \/ SayLife(f)
      \/ \E v \in Upcoming : CancelChosen(f, v)
  BY <1>1 DEF CancelTarget
<1>5. CASE HandOver(t) \/ SayLife(t)
  BY <1>3, <1>5, HandedOver, GoesOn DEF Cancels
<1>6. CASE NothingFound(f) \/ SayLife(f)
  BY <1>2, <1>3, <1>6, NothingIsFound, GoesOn DEF Cancels
<1>7. CASE \E v \in DOMAIN t.candidates : CancelChosen(t, v)
  BY <1>7, CancelIsChosen
<1>8. CASE \E v \in Upcoming : CancelChosen(f, v)
  BY <1>1, <1>2, <1>8, CancelIsChosen
<1> QED BY <1>4, <1>5, <1>6, <1>7, <1>8

LEMMA SelectionCleared ==
    ASSUME LifeInv, NEW t \in LifeRows, Cancels(t), SayLife(clearCancelSelection(t))
    PROVE  LifeInv'
<1>1. PICK x \in LifeRows :
        /\ x = clearCancelSelection(t) /\ SameCall(x, t) /\ x.target = NoVisit
        /\ x.pending \in {"none", "move"}
  BY ClearedSelection DEF LifeRows
<1>2. SessionFits(x, approved)
  BY <1>1, NoVisitIsNone DEF SessionFits, SameCall, Cancels
<1> QED BY <1>1, <1>2, GoesOn

LEMMA ReasonGiven ==
    ASSUME LifeInv, NEW t \in LifeRows, Cancels(t), SessionFits(t, approved), CancelReason(t)
    PROVE  LifeInv'
<1>1. CASE HandOver(t)
  BY <1>1, HandedOver DEF Cancels
<1>2. CASE SayLife(clearCancelSelection(t))
  BY <1>2, SelectionCleared
<1>3. CASE /\ IsInternal(t)
           /\ AskApproval([t EXCEPT !.pending = "cancel"], "cancel", t.candidates[t.target].when)
  <2> DEFINE d == [t EXCEPT !.pending = "cancel"]
  <2>1. d \in LifeRows
    BY DEF LifeRows
  <2>2. /\ d.status = t.status /\ d.outcome = t.outcome /\ d.action = t.action
        /\ d.phone = t.phone /\ d.candidates = t.candidates /\ d.target = t.target
        /\ d.pending = "cancel"
    BY DEF LifeRows
  <2>3. AskApproval(d, "cancel", t.candidates[t.target].when)
    BY <1>3
  <2> HIDE DEF d
  <2>4. t.target \in Visits /\ t.target \in DOMAIN t.candidates
    BY <1>3, LifecycleConstants DEF IsInternal
  <2>5. SessionFits(d, [action |-> "cancel", target |-> d.target,
                        when |-> t.candidates[t.target].when, version |-> VersionSeen(d)])
    BY <2>2, <2>4 DEF SessionFits, Cancels, AskedOf
  <2> QED BY <2>1, <2>3, <2>5, ApprovalAsked
<1> QED BY <1>1, <1>2, <1>3 DEF CancelReason

(* A cancellation that may be executed, or asked about once more.          *)
LEMMA CancelConfirmed ==
    ASSUME LifeInv, lifeTurn.stage # "idle", NEW t \in LifeRows, Cancels(t),
           SessionFits(t, approved), t.target \in Visits,
           t.pending = "cancel" \/ ~ IsInternal(t),
           GoExecute(t) \/ \E when : AskApproval(t, "cancel", when)
    PROVE  LifeInv'
<1>1. CASE GoExecute(t)
  BY <1>1, ExecutionBegins DEF SessionFits, IsInternal, ExecFits, Cancels, AskedOf
<1>2. ASSUME NEW when, AskApproval(t, "cancel", when)
      PROVE  LifeInv'
  BY <1>2, ApprovalAsked DEF SessionFits, Cancels, AskedOf
<1> QED BY <1>1, <1>2

LEMMA AnswerToCancel ==
    ASSUME LifeInv, lifeTurn.stage # "idle", NEW t \in LifeRows, Cancels(t),
           SessionFits(t, approved), t.pending = "cancel", CancelAnswer(t)
    PROVE  LifeInv'
<1>1. t.target \in Visits
  BY DEF SessionFits
<1>2. CASE HandOver(t)
  BY <1>2, HandedOver DEF Cancels
<1>3. CASE GoExecute(t) \/ AskApproval(t, "cancel", t.candidates[t.target].when)
  BY <1>1, <1>3, CancelConfirmed
<1>4. CASE SayLife(clearInternalLifecyclePending(t))
  <2>1. PICK x \in LifeRows :
          /\ x = clearInternalLifecyclePending(t) /\ SameCall(x, t)
          /\ x.candidates = t.candidates /\ x.target = t.target /\ x.pending = "none"
    BY ClearedPending
  <2>2. SessionFits(x, approved)
    BY <1>1, <2>1 DEF SessionFits, SameCall, Cancels, AskedOf
  <2> QED BY <1>4, <2>1, <2>2, GoesOn
<1> QED BY <1>2, <1>3, <1>4 DEF CancelAnswer

LEMMA ManualCancel ==
    ASSUME LifeInv, lifeTurn.stage # "idle", NEW t \in LifeRows, Cancels(t), t.target = Manual,
           GoExecute(t)
    PROVE  LifeInv'
<1>1. ExecFits(t, approved)
  BY NoVisitIsNone, LifecycleConstants DEF ExecFits, Cancels, IsInternal
<1> QED BY <1>1, ExecutionBegins

LEMMA CancelStep == LifeInv /\ handleCancelMessage => LifeInv'
<1> SUFFICES ASSUME LifeInv, handleCancelMessage PROVE LifeInv'
  OBVIOUS
<1>1. /\ life \in LifeRows /\ life.status = "active" /\ SessionFits(life, approved)
      /\ lifeTurn.stage # "idle"
      /\ life.pending \in {"none", "manual", "move", "reason", "cancel"}
  BY DEF LifeInv, LifeFits, handleCancelMessage, LifeRows
<1>2. PICK b \in LifeRows :
        /\ b = (IF life.action = "cancel" THEN life ELSE clearCancelSelection(life))
        /\ SameCall(b, life) /\ b.candidates = life.candidates
        /\ life.action = "cancel" => b = life
        /\ life.action # "cancel" => b.target = NoVisit /\ b.pending \in {"none", "move"}
                                   /\ (b.pending = "move" => life.pending = "move")
  BY <1>1, ClearedSelection DEF SameCall
<1> DEFINE t == [b EXCEPT !.action = "cancel"]
<1>3. t \in LifeRows
  BY DEF LifeRows
<1>4. /\ t.status = b.status /\ t.outcome = b.outcome /\ t.action = "cancel"
      /\ t.phone = b.phone /\ t.candidates = b.candidates /\ t.target = b.target
      /\ t.pending = b.pending /\ t.when = b.when
  BY DEF LifeRows
<1>5. \/ HandOver(t)
      \/ ~ t.phone /\ (SayLife(t) \/ CancelTarget(WithPhone(t)))
      \/ t.phone /\ (SayLife(t) \/ GoExecute([t EXCEPT !.pending = "none", !.target = Manual, !.when = 0]))
      \/ t.phone /\ life.pending = "reason" /\ CancelReason(life)
      \/ t.phone /\ life.pending = "cancel" /\ CancelAnswer(life)
      \/ t.phone /\ t.target = Manual
         /\ (SayLife(clearCancelSelection(t)) \/ SayLife(t) \/ GoExecute(t))
      \/ t.phone /\ life.pending \notin {"reason", "cancel"} /\ t.target = NoVisit /\ CancelTarget(t)
      \/ t.phone /\ IsInternal(t) /\ SayLife([t EXCEPT !.pending = "reason"])
      \/ t.phone /\ t.target \notin {NoVisit, Manual} /\ ~ IsInternal(t) /\ CancelConfirmation(t)
  BY <1>2 DEF handleCancelMessage
<1> HIDE DEF t
<1>6. /\ t.status = "active" /\ t.outcome = "collecting" /\ t.phone = life.phone
      /\ SessionFits(t, approved)
      /\ t.phone => Cancels(t)
      /\ ~ t.phone => t.target = NoVisit /\ t.pending = "none"
      /\ t.pending \in {"reason", "cancel"} => life.pending \in {"reason", "cancel"}
      /\ life.pending \in {"reason", "cancel"} => life.action = "cancel"
  BY <1>1, <1>2, <1>4, NoVisitIsNone DEF SessionFits, AskedOf, VersionSeen, SameCall, Cancels
<1>7. CASE HandOver(t) \/ SayLife(t)
  BY <1>3, <1>6, <1>7, HandedOver, GoesOn
<1>8. CASE ~ t.phone /\ CancelTarget(WithPhone(t))
  <2> DEFINE d == [t EXCEPT !.phone = TRUE]
  <2>2. d \in LifeRows
    BY <1>3 DEF LifeRows
  <2>3. /\ d.status = t.status /\ d.outcome = t.outcome /\ d.action = t.action
        /\ d.phone /\ d.candidates = t.candidates /\ d.target = t.target /\ d.pending = t.pending
    BY <1>3 DEF LifeRows
  <2>4. d = WithPhone(t)
    BY DEF WithPhone
  <2> HIDE DEF d
  <2>5. Cancels(d) /\ d.target = NoVisit /\ d.pending = "none"
    BY <1>4, <1>6, <1>8, <2>3 DEF Cancels
  <2> QED BY <1>8, <2>2, <2>4, <2>5, TargetOfCancel
<1>9. CASE t.phone /\ GoExecute([t EXCEPT !.pending = "none", !.target = Manual, !.when = 0])
  <2> DEFINE d == [t EXCEPT !.pending = "none", !.target = Manual, !.when = 0]
  <2>2. d \in LifeRows
    BY <1>3 DEF LifeRows, LifeTargets, LifeTimes
  <2>3. /\ d.status = t.status /\ d.outcome = t.outcome /\ d.action = t.action
        /\ d.phone = t.phone /\ d.target = Manual
    BY <1>3 DEF LifeRows
  <2> HIDE DEF d
  <2>4. Cancels(d)
    BY <1>6, <1>9, <2>3 DEF Cancels
  <2> QED BY <1>1, <1>9, <2>2, <2>3, <2>4, ManualCancel DEF d
<1>10. CASE t.phone /\ life.pending = "reason" /\ CancelReason(life)
  BY <1>1, <1>6, <1>10, ReasonGiven DEF Cancels, SessionFits
<1>11. CASE t.phone /\ life.pending = "cancel" /\ CancelAnswer(life)
  BY <1>1, <1>6, <1>11, AnswerToCancel DEF Cancels, SessionFits
<1>12. CASE t.phone /\ t.target = Manual
         /\ (SayLife(clearCancelSelection(t)) \/ GoExecute(t))
  BY <1>1, <1>3, <1>6, <1>12, SelectionCleared, ManualCancel
<1>13. CASE t.phone /\ life.pending \notin {"reason", "cancel"} /\ t.target = NoVisit /\ CancelTarget(t)
  BY <1>3, <1>6, <1>13, TargetOfCancel
<1>14. CASE t.phone /\ IsInternal(t) /\ SayLife([t EXCEPT !.pending = "reason"])
  <2> DEFINE d == [t EXCEPT !.pending = "reason"]
  <2>1. d \in LifeRows
    BY <1>3 DEF LifeRows
  <2>2. /\ d.status = t.status /\ d.outcome = t.outcome /\ d.action = t.action
        /\ d.phone = t.phone /\ d.candidates = t.candidates /\ d.target = t.target
        /\ d.pending = "reason"
    BY <1>3 DEF LifeRows
  <2> HIDE DEF d
  <2>3. t.target \in InternalVisits /\ t.target \in DOMAIN t.candidates
    BY <1>14 DEF IsInternal
  <2>4. SessionFits(d, approved)
    BY <1>4, <1>6, <1>14, <2>2, <2>3 DEF SessionFits
  <2> QED BY <1>14, <2>1, <2>4, GoesOn DEF d
<1>15. CASE t.phone /\ t.target \notin {NoVisit, Manual} /\ ~ IsInternal(t) /\ CancelConfirmation(t)
  BY <1>1, <1>3, <1>6, <1>15, SelectionCleared, CancelConfirmed DEF LifeRows, LifeTargets,
     CancelConfirmation
<1> QED BY <1>5, <1>7, <1>8, <1>9, <1>10, <1>11, <1>12, <1>13, <1>14, <1>15

-----------------------------------------------------------------------------
(* Execution.                                                              *)

OpKinds == {"confirmed", "owner_review", "fallback"}

LEMMA SettledFits ==
    ASSUME lifeTurn \in LifeTurns, NEW t \in LifeRows, t.action \in {"reschedule", "cancel"},
           NEW kind \in OpKinds, Settled(t, kind)
    PROVE  /\ UNCHANGED <<life, lifePolicy, approved, lifeBudget>>
           /\ \E n \in LifeRows :
                /\ lifeTurn' \in LifeTurns /\ lifeTurn'.stage = "saving" /\ lifeTurn'.next = n
                /\ n.status = "completed"
                /\ LifeKey(n) = LifeKey(t) /\ Request(n) = Request(t) /\ n.target = t.target
                /\ n.outcome \in {"booking_rescheduled", "booking_cancelled"} => kind = "confirmed"
                /\ n.outcome = "booking_cancelled" => t.action = "cancel"
<1>1. PICK x \in LifeRows :
        /\ x = clearInternalLifecyclePending(t) /\ SameCall(x, t)
        /\ x.candidates = t.candidates /\ x.target = t.target /\ x.when = t.when
  BY ClearedPending
<1>2. PICK o : o = LifeOutcomes[kind][t.action]
  OBVIOUS
<1>3. /\ o \in LifeResults
      /\ o \in {"booking_rescheduled", "booking_cancelled"} => kind = "confirmed"
      /\ o = "booking_cancelled" => t.action = "cancel"
  BY <1>2 DEF LifeOutcomes, LifeResults, OpKinds
<1> DEFINE n == [x EXCEPT !.status = "completed", !.outcome = o]
<1>4. n \in LifeRows
  BY <1>3 DEF LifeRows
<1>5. /\ n.status = "completed" /\ n.outcome = o /\ n.action = x.action
      /\ n.candidates = x.candidates /\ n.target = x.target /\ n.when = x.when
  BY DEF LifeRows
<1>6. /\ lifeTurn' = [lifeTurn EXCEPT !.stage = "saving", !.next = n]
      /\ UNCHANGED <<life, lifePolicy, approved, lifeBudget>>
  BY <1>1, <1>2 DEF Settled
<1> HIDE DEF n
<1>7. lifeTurn' \in LifeTurns /\ lifeTurn'.stage = "saving" /\ lifeTurn'.next = n
  BY <1>4, <1>6 DEF LifeTurns
<1>8. n.action = t.action /\ n.candidates = t.candidates /\ n.target = t.target /\ n.when = t.when
  BY <1>1, <1>5 DEF SameCall
<1>9. LifeKey(n) = LifeKey(t) /\ Request(n) = Request(t)
  BY <1>8 DEF LifeKey, Request, IsInternal, VersionSeen
<1> QED BY <1>3, <1>4, <1>5, <1>6, <1>7, <1>8, <1>9

(* An operation that was done is answered as it was done.                  *)
LEMMA Replayed ==
    ASSUME LifeInv, lifeTurn.stage = "executing", NEW t \in LifeRows, t = lifeTurn.next,
           ExecFits(t, approved), LifeKey(t) \in DOMAIN lifeOps, ReplayMatches(lifeOps[LifeKey(t)], t),
           Settled(t, lifeOps[LifeKey(t)].kind), UNCHANGED <<visits, lifeOps>>
    PROVE  LifeInv'
<1>1. PICK op : op = lifeOps[LifeKey(t)]
  OBVIOUS
<1>2. /\ op.kind \in OpKinds /\ op.request = Request(t)
      /\ op.kind = "confirmed" /\ t.action = "cancel" => ~ visits[t.target].active
  BY <1>1 DEF LifeInv, OpsFit, OpSound, OpKinds, LifeKey, ReplayMatches
<1>3. /\ UNCHANGED <<life, lifePolicy, approved, lifeBudget>>
      /\ \E n \in LifeRows :
           /\ lifeTurn' \in LifeTurns /\ lifeTurn'.stage = "saving" /\ lifeTurn'.next = n
           /\ n.status = "completed"
           /\ LifeKey(n) = LifeKey(t) /\ Request(n) = Request(t) /\ n.target = t.target
           /\ n.outcome \in {"booking_rescheduled", "booking_cancelled"} => op.kind = "confirmed"
           /\ n.outcome = "booking_cancelled" => t.action = "cancel"
  BY <1>1, <1>2, SettledFits DEF ExecFits, LifeInv
<1>4. PICK n \in LifeRows :
           /\ lifeTurn' \in LifeTurns /\ lifeTurn'.stage = "saving" /\ lifeTurn'.next = n
           /\ n.status = "completed"
           /\ LifeKey(n) = LifeKey(t) /\ Request(n) = Request(t) /\ n.target = t.target
           /\ n.outcome \in {"booking_rescheduled", "booking_cancelled"} => op.kind = "confirmed"
           /\ n.outcome = "booking_cancelled" => t.action = "cancel"
  BY <1>3
<1>5. ToldFits(n, lifeOps, visits)
  BY <1>1, <1>2, <1>4 DEF ToldFits
<1> QED BY <1>3, <1>4, <1>5 DEF LifeInv

(* An operation that is done.                                              *)
LEMMA Done ==
    ASSUME LifeInv, lifeTurn.stage = "executing", NEW t \in LifeRows, t = lifeTurn.next,
           ExecFits(t, approved), LifeKey(t) \notin DOMAIN lifeOps, NEW kind \in OpKinds,
           Noted(t, kind), Settled(t, kind), visits' \in [Visits -> VisitStates],
           \A v \in Visits : ~ visits[v].active => ~ visits'[v].active,
           \A v \in Visits :
             visits'[v].version = visits[v].version + IF visits' # visits /\ v = t.target THEN 1 ELSE 0,
           kind = "confirmed" =>
             /\ t.target \in Visits
             /\ t.action = "cancel" => ~ visits'[t.target].active
             /\ IsInternal(t) => visits[t.target].version = VersionSeen(t)
    PROVE  LifeInv'
<1> DEFINE key == LifeKey(t)
           op == [kind |-> kind, request |-> Request(t), approved |-> approved,
                  found |-> IF t.target \in Visits THEN visits[t.target].version ELSE 0]
<1>1. /\ DOMAIN lifeOps' = DOMAIN lifeOps \cup {key} /\ lifeOps'[key] = op
      /\ \A k \in DOMAIN lifeOps : lifeOps'[k] = lifeOps[k]
  BY DEF Noted
<1>2. t.action \in {"reschedule", "cancel"} /\ t.target \in Visits \cup {Manual}
  BY DEF ExecFits
<1>3. PICK n \in LifeRows :
           /\ lifeTurn' \in LifeTurns /\ lifeTurn'.stage = "saving" /\ lifeTurn'.next = n
           /\ n.status = "completed"
           /\ LifeKey(n) = LifeKey(t) /\ Request(n) = Request(t) /\ n.target = t.target
           /\ n.outcome \in {"booking_rescheduled", "booking_cancelled"} => kind = "confirmed"
           /\ n.outcome = "booking_cancelled" => t.action = "cancel"
  BY <1>2, SettledFits DEF LifeInv
<1>4. UNCHANGED <<life, lifePolicy, approved, lifeBudget>>
  BY DEF Settled
<1>5. key = <<t.action, t.target>> /\ key[1] = t.action /\ key[2] = t.target
  BY DEF LifeKey
<1>6. /\ op.kind = kind /\ op.request = Request(t) /\ op.approved = approved
      /\ op.found = IF t.target \in Visits THEN visits[t.target].version ELSE 0
  OBVIOUS
<1>7. /\ Request(t).action = t.action /\ Request(t).target = t.target
      /\ t.action = "reschedule" => Request(t).when = t.when
  BY DEF Request
<1> HIDE DEF op, key
<1>8. OpSound(key, op, visits')
  BY <1>5, <1>6, <1>7, LifecycleConstants DEF OpKinds, ExecFits, IsInternal, AskedOf, OpSound
<1>9. OpsFit(lifeOps', visits')
  <2>1. DOMAIN lifeOps' \subseteq {"reschedule", "cancel"} \X (Visits \cup {Manual})
    BY <1>1, <1>2, <1>5 DEF LifeInv, OpsFit
  <2>2. \A k \in DOMAIN lifeOps : OpSound(k, lifeOps[k], visits')
    BY DEF LifeInv, OpsFit, OpSound
  <2> QED BY <1>1, <1>8, <2>1, <2>2 DEF OpsFit
<1>10. VersionsFit(visits', lifeOps', lifeBudget)
  <2> SUFFICES ASSUME NEW v \in Visits
               PROVE  /\ 1 <= visits'[v].version
                      /\ visits'[v].version <= 1 + (MaxVisitEdits - lifeBudget.edits)
                                                 + Moved(lifeOps', v) + Cancelled(lifeOps', v)
    BY DEF VersionsFit
  <2>1. /\ Moved(lifeOps, v) \in {0, 1} /\ Cancelled(lifeOps, v) \in {0, 1}
        /\ Moved(lifeOps', v) \in {0, 1} /\ Cancelled(lifeOps', v) \in {0, 1}
        /\ Moved(lifeOps', v) >= Moved(lifeOps, v)
        /\ Cancelled(lifeOps', v) >= Cancelled(lifeOps, v)
    BY <1>1 DEF Moved, Cancelled
  <2>2. v = t.target => Moved(lifeOps', v) + Cancelled(lifeOps', v)
                          = Moved(lifeOps, v) + Cancelled(lifeOps, v) + 1
    BY <1>1, <1>2, <1>5 DEF key, Moved, Cancelled
  <2>3. /\ visits[v].version \in Nat /\ 1 <= visits[v].version
        /\ visits[v].version <= 1 + (MaxVisitEdits - lifeBudget.edits)
                                  + Moved(lifeOps, v) + Cancelled(lifeOps, v)
    BY DEF LifeInv, VersionsFit, VisitStates
  <2>4. \/ visits'[v].version = visits[v].version
        \/ visits'[v].version = visits[v].version + 1 /\ v = t.target
    BY <2>3
  <2>5. MaxVisitEdits \in Nat /\ lifeBudget.edits \in Nat
    BY LifecycleConstants DEF LifeInv, Budgets
  <2> QED BY ONLY <2>1, <2>2, <2>3, <2>4, <2>5
<1>11. ToldFits(n, lifeOps', visits')
  BY <1>1, <1>3, <1>6 DEF ToldFits, key
<1>12. ToldFits(life', lifeOps', visits') /\ LifeFits(life', approved')
  BY <1>4 DEF LifeInv, LifeFits, SessionFits, ToldFits
<1>13. life'.status = "active"
  BY <1>4 DEF LifeInv
<1> QED BY <1>3, <1>4, <1>9, <1>10, <1>11, <1>12, <1>13 DEF LifeInv

LEMMA Conflicts ==
    ASSUME LifeInv, NEW t \in LifeRows, ExecFits(t, approved), Conflicted(t)
    PROVE  LifeInv'
<1>1. CASE HandOver(t)
  BY <1>1, HandedOver DEF ExecFits
<1>2. CASE IsInternal(t) /\ reofferInternalLifecycleAfterConflict(t, t.action)
  BY <1>2, Reoffers DEF ExecFits, IsInternal
<1> QED BY <1>1, <1>2 DEF Conflicted

LEMMA VisitEdits ==
    ASSUME LifeInv, NEW t \in LifeRows, t.target \in Visits, visits[t.target].active, Changed(t)
    PROVE  /\ visits' \in [Visits -> VisitStates]
           /\ \A v \in Visits : ~ visits[v].active => ~ visits'[v].active
           /\ \A v \in Visits : visits'[v].version = visits[v].version + IF v = t.target THEN 1 ELSE 0
           /\ t.action = "cancel" => ~ visits'[t.target].active
           /\ visits' # visits
<1>1. PICK old \in VisitStates : old = visits[t.target]
  BY DEF LifeInv
<1> DEFINE new == [when |-> IF t.action = "cancel" THEN old.when ELSE t.when,
                   version |-> old.version + 1, active |-> t.action # "cancel"]
<1>2. visits' = [visits EXCEPT ![t.target] = new]
  BY <1>1 DEF Changed
<1>3. old.version \in Nat /\ old.version + 1 # old.version
  BY DEF VisitStates
<1>4. new \in VisitStates
  <2>1. old.version + 1 \in Nat
    BY ONLY <1>3
  <2>2. t.when \in LifeTimes /\ old.when \in LifeTimes
    BY DEF LifeRows, VisitStates
  <2> QED BY <2>1, <2>2 DEF VisitStates
<1>5. new.version = old.version + 1 /\ (t.action = "cancel" => ~ new.active)
  OBVIOUS
<1> HIDE DEF new
<1>6. /\ visits' \in [Visits -> VisitStates]
      /\ \A v \in Visits : visits'[v] = IF v = t.target THEN new ELSE visits[v]
  BY <1>2, <1>4 DEF LifeInv
<1>7. \A v \in Visits : visits[v].version \in Nat
  BY DEF LifeInv, VisitStates
<1>8. \A v \in Visits : ~ visits[v].active => ~ visits'[v].active
  BY <1>6
<1>9. ASSUME NEW v \in Visits
      PROVE  visits'[v].version = visits[v].version + IF v = t.target THEN 1 ELSE 0
  BY <1>1, <1>5, <1>6, <1>7, <1>9
<1>10. visits' # visits
  BY <1>1, <1>3, <1>5, <1>6
<1>11. t.action = "cancel" => ~ visits'[t.target].active
  BY <1>5, <1>6
<1> QED BY <1>6, <1>8, <1>9, <1>10, <1>11

LEMMA ExecuteStep == LifeInv /\ ExecuteLifecycle => LifeInv'
<1> SUFFICES ASSUME LifeInv, ExecuteLifecycle PROVE LifeInv'
  OBVIOUS
<1>1. PICK t \in LifeRows : t = lifeTurn.next /\ ExecFits(t, approved)
  BY DEF LifeInv, LifeTurns, ExecuteLifecycle
<1>2. lifeTurn.stage = "executing"
  BY DEF ExecuteLifecycle
<1>3. t.target \in Visits \cup {Manual} /\ visits \in [Visits -> VisitStates]
  BY <1>1 DEF ExecFits, LifeInv
<1>4. \/ /\ LifeKey(t) \in DOMAIN lifeOps /\ ReplayMatches(lifeOps[LifeKey(t)], t)
         /\ Settled(t, lifeOps[LifeKey(t)].kind) /\ UNCHANGED <<visits, lifeOps>>
      \/ Conflicted(t) \/ HandOver(t)
      \/ /\ LifeKey(t) \notin DOMAIN lifeOps
         /\ \E kind \in {"owner_review", "fallback"} :
              Noted(t, kind) /\ Settled(t, kind) /\ UNCHANGED visits
      \/ /\ LifeKey(t) \notin DOMAIN lifeOps /\ t.target # Manual
         /\ visits[t.target].active /\ (IsInternal(t) => VersionStands(t))
         /\ Changed(t) /\ Noted(t, "confirmed") /\ Settled(t, "confirmed")
  BY <1>1 DEF ExecuteLifecycle, VersionStands
<1>5. CASE /\ LifeKey(t) \in DOMAIN lifeOps /\ ReplayMatches(lifeOps[LifeKey(t)], t)
           /\ Settled(t, lifeOps[LifeKey(t)].kind) /\ UNCHANGED <<visits, lifeOps>>
  BY <1>1, <1>2, <1>5, Replayed
<1>6. CASE Conflicted(t) \/ HandOver(t)
  BY <1>1, <1>6, Conflicts, HandedOver DEF ExecFits
<1>7. ASSUME LifeKey(t) \notin DOMAIN lifeOps, NEW kind \in {"owner_review", "fallback"},
             Noted(t, kind), Settled(t, kind), UNCHANGED visits
      PROVE  LifeInv'
  BY <1>1, <1>2, <1>3, <1>7, Done DEF OpKinds, VisitStates
<1>8. ASSUME LifeKey(t) \notin DOMAIN lifeOps, t.target # Manual,
             visits[t.target].active, IsInternal(t) => VersionStands(t),
             Changed(t), Noted(t, "confirmed"), Settled(t, "confirmed")
      PROVE  LifeInv'
  BY <1>1, <1>2, <1>3, <1>8, VisitEdits, Done DEF VersionStands, OpKinds
<1> QED BY <1>4, <1>5, <1>6, <1>7, <1>8

LEMMA SaveStep == LifeInv /\ SaveLifecycleTurn => LifeInv'
<1> SUFFICES ASSUME LifeInv, SaveLifecycleTurn PROVE LifeInv'
  OBVIOUS
<1>1. PICK t \in LifeRows : t = lifeTurn.next /\ t.status = "completed"
                           /\ ToldFits(t, lifeOps, visits) /\ SayLife(t)
  BY DEF LifeInv, LifeTurns, SaveLifecycleTurn
<1>2. LifeFits(t, approved)
  BY <1>1 DEF LifeFits
<1> QED BY <1>1, <1>2, SaidFits

-----------------------------------------------------------------------------
(* The salon meanwhile.                                                    *)

LEMMA OwnerStep == LifeInv /\ OwnerChangesVisit => LifeInv'
<1> SUFFICES ASSUME LifeInv, OwnerChangesVisit PROVE LifeInv'
  OBVIOUS
<1>1. PICK left \in Budgets : left = lifeBudget /\ left.edits > 0
  BY DEF LifeInv, OwnerChangesVisit
<1>2. /\ lifeBudget' = [left EXCEPT !.edits = @ - 1]
      /\ UNCHANGED <<life, lifePolicy, lifeTurn, lifeOps, approved>>
  BY <1>1 DEF OwnerChangesVisit
<1>3. MaxVisitEdits \in Nat /\ left.edits \in 0 .. MaxVisitEdits
  BY LifecycleConstants DEF Budgets
<1>4. lifeBudget' \in Budgets /\ lifeBudget'.edits = left.edits - 1
  BY <1>1, <1>2, <1>3 DEF Budgets
<1>5. PICK v \in Visits, row \in VisitStates :
        /\ visits[v].active /\ row.version = visits[v].version + 1
        /\ visits' = [visits EXCEPT ![v] = row]
  <2>1. PICK v \in Upcoming :
         \/ \E when \in VisitTimes \ {visits[v].when} :
              visits' = [visits EXCEPT ![v].when = when, ![v].version = @ + 1]
         \/ visits' = [visits EXCEPT ![v].active = FALSE, ![v].version = @ + 1]
    BY DEF OwnerChangesVisit
  <2>2. v \in Visits /\ visits[v].active
    BY DEF Upcoming
  <2>3. PICK old \in VisitStates : old = visits[v]
    BY <2>2 DEF LifeInv
  <2>4. old.version + 1 \in Nat
    BY DEF VisitStates
  <2>5. ASSUME NEW when \in VisitTimes,
               visits' = [visits EXCEPT ![v].when = when, ![v].version = @ + 1]
        PROVE  \E row \in VisitStates :
                 row.version = visits[v].version + 1 /\ visits' = [visits EXCEPT ![v] = row]
    <3> DEFINE row == [old EXCEPT !.when = when, !.version = @ + 1]
    <3>1. row \in VisitStates /\ row.version = old.version + 1
      BY <2>4 DEF VisitStates, LifeTimes
    <3>2. visits' = [visits EXCEPT ![v] = row]
      BY <2>2, <2>3, <2>5 DEF LifeInv
    <3> HIDE DEF row
    <3> QED BY <2>3, <3>1, <3>2
  <2>6. ASSUME visits' = [visits EXCEPT ![v].active = FALSE, ![v].version = @ + 1]
        PROVE  \E row \in VisitStates :
                 row.version = visits[v].version + 1 /\ visits' = [visits EXCEPT ![v] = row]
    <3> DEFINE row == [old EXCEPT !.active = FALSE, !.version = @ + 1]
    <3>1. row \in VisitStates /\ row.version = old.version + 1
      BY <2>4 DEF VisitStates
    <3>2. visits' = [visits EXCEPT ![v] = row]
      BY <2>2, <2>3, <2>6 DEF LifeInv
    <3> HIDE DEF row
    <3> QED BY <2>3, <3>1, <3>2
  <2> QED BY <2>1, <2>2, <2>5, <2>6
<1>6. /\ visits' \in [Visits -> VisitStates]
      /\ \A w \in Visits : visits'[w] = IF w = v THEN row ELSE visits[w]
  BY <1>5 DEF LifeInv
<1>7. \A w \in Visits : ~ visits[w].active => ~ visits'[w].active
  BY <1>5, <1>6
<1>8. OpsFit(lifeOps, visits') /\ \A t : ToldFits(t, lifeOps, visits) /\ t.target \in Visits => ToldFits(t, lifeOps, visits')
  BY <1>7 DEF LifeInv, OpsFit, OpSound, ToldFits
<1>9. VersionsFit(visits', lifeOps, lifeBudget')
  <2> SUFFICES ASSUME NEW w \in Visits
               PROVE  /\ 1 <= visits'[w].version
                      /\ visits'[w].version <= 1 + (MaxVisitEdits - lifeBudget'.edits)
                                                 + Moved(lifeOps, w) + Cancelled(lifeOps, w)
    BY DEF VersionsFit
  <2>1. Moved(lifeOps, w) \in {0, 1} /\ Cancelled(lifeOps, w) \in {0, 1}
    BY DEF Moved, Cancelled
  <2>2. /\ visits[w].version \in Nat /\ 1 <= visits[w].version
        /\ visits[w].version <= 1 + (MaxVisitEdits - left.edits)
                                  + Moved(lifeOps, w) + Cancelled(lifeOps, w)
    BY <1>1 DEF LifeInv, VersionsFit, VisitStates
  <2>3. visits'[w].version \in {visits[w].version, visits[w].version + 1}
    BY <1>5, <1>6
  <2> QED BY ONLY <1>3, <1>4, <2>1, <2>2, <2>3
<1>10. ToldFits(life, lifeOps, visits')
  BY <1>7 DEF LifeInv, ToldFits, OpsFit, OpSound, LifeKey
<1>11. lifeTurn.stage = "saving" => ToldFits(lifeTurn.next, lifeOps, visits')
  <2> SUFFICES ASSUME lifeTurn.stage = "saving" PROVE ToldFits(lifeTurn.next, lifeOps, visits')
    OBVIOUS
  <2>1. ToldFits(lifeTurn.next, lifeOps, visits)
    BY DEF LifeInv
  <2>2. lifeTurn.next.outcome = "booking_cancelled" => lifeTurn.next.target \in Visits
    BY <2>1 DEF LifeInv, ToldFits, OpsFit, OpSound, LifeKey
  <2> QED BY <1>7, <2>1, <2>2 DEF ToldFits
<1> QED BY <1>2, <1>4, <1>6, <1>8, <1>9, <1>10, <1>11 DEF LifeInv

LEMMA LoadStep == LifeInv /\ LifeLoads => LifeInv'
<1> SUFFICES ASSUME LifeInv, LifeLoads PROVE LifeInv'
  OBVIOUS
<1>1. /\ life.status = "active" /\ UNCHANGED <<life, visits, lifePolicy, lifeOps, approved>>
      /\ lifeTurn' = [IdleLife EXCEPT !.stage = "loaded", !.cfg = lifePolicy]
  BY DEF LifeLoads
<1>2. lifeTurn' \in LifeTurns /\ lifeTurn'.stage = "loaded"
  BY <1>1, IdleRow DEF LifeTurns, LifeInv
<1>3. lifeBudget' \in Budgets /\ lifeBudget'.edits = lifeBudget.edits
  <2>1. PICK left \in Budgets : left = lifeBudget /\ left.turns > 0
    BY DEF LifeInv, LifeLoads
  <2>2. lifeBudget' = [left EXCEPT !.turns = @ - 1]
    BY <2>1 DEF LifeLoads
  <2>3. left.turns - 1 \in 0 .. MaxLifeTurns
    BY <2>1, LifecycleConstants DEF Budgets
  <2> QED BY <2>1, <2>2, <2>3 DEF Budgets
<1> QED BY <1>1, <1>2, <1>3 DEF LifeInv, VersionsFit

LEMMA PolicyStep == LifeInv /\ LifePolicyChanges => LifeInv'
<1> SUFFICES ASSUME LifeInv, LifePolicyChanges PROVE LifeInv'
  OBVIOUS
<1>1. UNCHANGED <<life, visits, lifeTurn, lifeOps, approved>> /\ lifePolicy' \in LifePolicies
  BY DEF LifePolicyChanges
<1>2. lifeBudget' \in Budgets /\ lifeBudget'.edits = lifeBudget.edits
  <2>1. PICK left \in Budgets : left = lifeBudget /\ left.policies > 0
    BY DEF LifeInv, LifePolicyChanges
  <2>2. lifeBudget' = [left EXCEPT !.policies = @ - 1]
    BY <2>1 DEF LifePolicyChanges
  <2>3. left.policies - 1 \in 0 .. MaxLifePolicies
    BY <2>1, LifecycleConstants DEF Budgets
  <2> QED BY <2>1, <2>2, <2>3 DEF Budgets
<1> QED BY <1>1, <1>2 DEF LifeInv, VersionsFit

LEMMA DeathStep == LifeInv /\ LifeDies => LifeInv'
BY IdleRow DEF LifeInv, LifeDies

LEMMA LifeInitial == LifeInit => LifeInv
<1> SUFFICES ASSUME LifeInit PROVE LifeInv
  OBVIOUS
<1>1. \A a : LifeFits(life, a)
  BY NewLifeRow DEF LifeInit
<1>2. ToldFits(life, lifeOps, visits)
  <2>1. life.outcome = "collecting"
    <3>1. PICK phone \in BOOLEAN : life = [NewLife EXCEPT !.phone = phone]
      BY DEF LifeInit
    <3>2. NewLife.outcome = "collecting" /\ NewLife \in LifeRows
      BY NewLifeRow DEF NewLife
    <3> QED BY <3>1, <3>2 DEF LifeRows
  <2> QED BY <2>1 DEF ToldFits
<1>3. /\ visits \in [Visits -> VisitStates] /\ \A v \in Visits : visits[v].version = 1
  BY DEF LifeInit, VisitStates, LifeTimes
<1>4. lifeBudget \in Budgets /\ lifeBudget.edits = MaxVisitEdits /\ MaxVisitEdits \in Nat
  BY LifecycleConstants DEF LifeInit, Budgets
<1>5. DOMAIN lifeOps = {}
  BY DEF LifeInit
<1>6. OpsFit(lifeOps, visits)
  BY <1>5 DEF OpsFit
<1>7. VersionsFit(visits, lifeOps, lifeBudget)
  BY <1>3, <1>4, <1>5 DEF VersionsFit, Moved, Cancelled
<1>8. lifeTurn = IdleLife /\ lifePolicy \in LifePolicies
  BY DEF LifeInit
<1> QED BY <1>1, <1>2, <1>3, <1>4, <1>6, <1>7, <1>8, IdleRow DEF LifeInv

LEMMA LifeInductive == LifeInv /\ [LifeNext]_lifeVars => LifeInv'
<1> SUFFICES ASSUME LifeInv, [LifeNext]_lifeVars PROVE LifeInv'
  OBVIOUS
<1>1. CASE UNCHANGED lifeVars
  BY <1>1 DEF lifeVars, LifeInv
<1> QED
  BY <1>1, LoadStep, DeathStep, MoveStep, CancelStep, ExecuteStep, SaveStep, OwnerStep, PolicyStep
  DEF LifeNext

LEMMA LifeSafe == LifeInv => LifeTypeOK /\ ChangedAsApproved /\ LifecycleToldTruly
<1> SUFFICES ASSUME LifeInv PROVE LifeTypeOK /\ ChangedAsApproved /\ LifecycleToldTruly
  OBVIOUS
<1>1. ChangedAsApproved
  BY DEF LifeInv, OpsFit, OpSound, AskedOf, ChangedAsApproved
<1>2. LifecycleToldTruly
  BY DEF LifeInv, ToldFits, LifecycleToldTruly
<1>3. PICK t \in LifeRows : t = life
  BY DEF LifeInv, LifeFits
<1>4. /\ t.status \in {"active", "completed", "handoff"}
      /\ t.action \in {"book", "reschedule", "cancel"}
      /\ t.target \in Visits \cup {NoVisit, Manual}
      /\ DOMAIN t.candidates \subseteq Visits /\ t.options \subseteq VisitTimes
      /\ t.pending \in {"none", "manual", "move", "reason", "cancel"}
  BY SeenOf DEF LifeRows, LifeTargets
<1>5. \A v \in Visits : visits[v].version \in 1 .. 1 + MaxVisitEdits + 2 * Cardinality(Visits)
  <2> SUFFICES ASSUME NEW v \in Visits
               PROVE  visits[v].version \in 1 .. 1 + MaxVisitEdits + 2 * Cardinality(Visits)
    OBVIOUS
  <2>1. Cardinality(Visits) \in Nat /\ Cardinality(Visits) # 0
    BY LifecycleConstants, FS_CardinalityType, FS_EmptySet
  <2>2. /\ visits[v].version \in Nat /\ 1 <= visits[v].version
        /\ visits[v].version <= 1 + (MaxVisitEdits - lifeBudget.edits)
                                  + Moved(lifeOps, v) + Cancelled(lifeOps, v)
    BY DEF LifeInv, VersionsFit, VisitStates
  <2>3. Moved(lifeOps, v) \in {0, 1} /\ Cancelled(lifeOps, v) \in {0, 1}
    BY DEF Moved, Cancelled
  <2>4. MaxVisitEdits \in Nat /\ lifeBudget.edits \in Nat
    BY LifecycleConstants DEF LifeInv, Budgets
  <2> QED BY ONLY <2>1, <2>2, <2>3, <2>4
<1>6. LifeTypeOK
  BY <1>3, <1>4, <1>5 DEF LifeTypeOK, LifeInv, LifeTurns, OpsFit
<1> QED BY <1>1, <1>2, <1>6

(************************** The booking dialogue ***************************)
-----------------------------------------------------------------------------
(* Rows.                                                                   *)

Times == OpenSlots \cup {0}
Names == CallerNames \cup {NoName}
ReviewModes == BookingModes \cup {""}
ReviewAuthorities == TalkAuthorities \cup {""}
Salons == [mode : BookingModes, authority : TalkAuthorities, ai : BOOLEAN]
TalkOutcomes ==
    {"collecting", "booking_confirmed", "owner_review_pending", "booking_fallback_pending",
     "handoff_requested", "ai_disabled"}
ActKinds ==
    {"none", "review", "undo", "add", "replace", "remove", "staff_any", "staff_x",
     "staff_alternative", "time_clear", "guests", "customer"}
Prompts ==
    {"", "add_target", "replace_target", "replace_source", "remove_source", "staff_alternative",
     "final_review", "final_review_retry", "fuzzy_service", "semantic_add_or_replace", "datetime"}
Pendings ==
    [kind : {"none", "edit", "fuzzy", "datetime", "name"}, services : SUBSET MenuServices,
     when : Times, name : Names, act : ActKinds \cup {"set", "unknown"}]
TalkRows ==
    [status : {"active", "completed", "handoff"}, outcome : TalkOutcomes,
     services : SUBSET MenuServices, when : Times, staff : {"any", "x"}, assigned : BOOLEAN,
     name : Names, party : {"none", "open", "whole"}, offers : SUBSET OpenSlots,
     quote : [services : SUBSET MenuServices, when : Times, staff : {"any", "x"}],
     requestOnly : BOOLEAN, phase : {"open", "drafting", "clarifying", "review"},
     revision : Nat, reviewed : Nat, authorized : Nat, accepted : BOOLEAN, mode : ReviewModes,
     authority : ReviewAuthorities, pending : Pendings, prompt : Prompts, noProgress : 0 .. 3,
     consent : Int, sequence : Nat, history : Seq(SUBSET MenuServices)]
Payloads ==
    [services : SUBSET MenuServices, when : Times, staff : {"any", "x"}, name : Names,
     party : {"none", "open", "whole"}]
Heards == [payload : Payloads, mode : ReviewModes, aside : BOOLEAN]
TalkBudgets == [turns : 0 .. MaxTalkTurns, policies : 0 .. MaxPolicyChanges]
Kinds == {"confirmed", "owner_review", "fallback"}
TalkOperations == [kind : Kinds, payload : Payloads, mode : ReviewModes, heard : Heards]
Acts ==
    [kind : ActKinds, services : SUBSET MenuServices, sources : SUBSET MenuServices,
     another : BOOLEAN, name : Names]
Turns ==
    [stage : {"idle", "loaded", "booking", "executing", "saving"}, talk : TalkRows,
     cfg : [mode : ReviewModes, authority : ReviewAuthorities, ai : BOOLEAN],
     authority : ReviewAuthorities]

(* A draft: openings are on offer while no time is chosen.                 *)
Drafts ==
    {t \in TalkRows : /\ 1 <= t.revision /\ t.reviewed <= t.revision /\ t.authorized <= t.revision
                      /\ Len(t.history) <= HistoryLimit
                      /\ t.consent <= t.revision
                      /\ t.offers # {} => t.when = 0}

(* The draft is the one that was read out, while a "yes" would book it.    *)
AsHeard(t, h) == h.aside \/ (Payload(t) = h.payload /\ t.mode = h.mode)
Kept(t, h) == ReviewStands(t) /\ t.when # 0 /\ t.party # "open" => AsHeard(t, h)

(* A conversation that goes on.                                            *)
Open(t) == t.status = "active" /\ t.outcome = "collecting" /\ t.noProgress <= 2

Ops(ops, t) == DOMAIN ops \subseteq {OperationKey(t)}
OpSoundTalk(op) ==
    /\ op \in TalkOperations
    /\ op.heard.aside \/ (op.payload = op.heard.payload /\ op.mode = op.heard.mode)
Told(t, ops) ==
    t.outcome = "booking_confirmed" =>
        /\ OperationKey(t) \in DOMAIN ops
        /\ ops[OperationKey(t)].kind = "confirmed"
        /\ ops[OperationKey(t)].payload = Payload(t)

TalkRowsOK ==
    /\ talk \in Drafts /\ talkTurn \in Turns /\ policy \in Policies
    /\ heard \in Heards /\ talkBudget \in TalkBudgets
OpenParty(t) == t.party = "open" => t.consent # t.revision /\ t.pending.kind \notin {"fuzzy", "name"}
SavedFits ==
    /\ talk.status = "active" => Open(talk) /\ OpenParty(talk) /\ Kept(talk, heard)
    /\ Told(talk, operations)
TurnFits ==
    /\ talkTurn.stage # "idle" => talk.status = "active" /\ talkTurn.cfg \in Policies
                                  /\ talkTurn.talk \in Drafts
                                  /\ talkTurn.talk.sequence = talk.sequence
    /\ talkTurn.stage \in {"booking", "executing"} =>
         /\ Open(talkTurn.talk) /\ AsHeard(talkTurn.talk, heard) /\ talkTurn.talk.party # "open"
         /\ talkTurn.talk.mode = talkTurn.cfg.mode
    /\ talkTurn.stage = "saving" =>
         /\ talkTurn.talk.status = "completed" /\ Told(talkTurn.talk, operations)
OperationsFit ==
    /\ Ops(operations, talk)
    /\ \A k \in DOMAIN operations : OpSoundTalk(operations[k])
BudgetFits ==
    /\ talk.sequence + talkBudget.turns + (IF talkTurn.stage = "idle" THEN 0 ELSE 1) <= MaxTalkTurns

TalkInv == TalkRowsOK /\ SavedFits /\ TurnFits /\ OperationsFit /\ BudgetFits

-----------------------------------------------------------------------------
(* Lemmas about drafts.                                                    *)

LEMMA TalkBounds ==
    /\ OpenSlots \subseteq Nat /\ 0 \notin OpenSlots
    /\ MaxTalkTurns \in Nat /\ MaxPolicyChanges \in Nat /\ HistoryLimit \in Nat
    /\ Policies \subseteq Salons
    /\ \A m \in Mentions : /\ m.when \in Times \cup {NoMention}
                           /\ m.staff \in {"none", "any", "x"} /\ m.name \in Names
BY DialogueConstants DEF DialogueConstants, Salons, Times, Names

(* What a change of the draft leaves of it, before the revision is         *)
(* advanced: no review begins to stand, and the call is where it was.      *)
Carries(t, u) ==
    /\ u.revision = t.revision /\ u.sequence = t.sequence /\ u.status = t.status
    /\ u.outcome = t.outcome /\ u.consent = t.consent
    /\ ReviewStands(u) => ReviewStands(t) /\ u.mode = t.mode
Calm(t, u) == t.noProgress <= 2 => u.noProgress <= 2

(* Details that are mentioned leave the dialogue where it was.             *)
Mentioned(t, u) ==
    /\ Carries(t, u)
    /\ u.party = t.party /\ u.pending = t.pending /\ u.noProgress = t.noProgress
    /\ u.accepted = t.accepted /\ u.phase = t.phase /\ u.reviewed = t.reviewed
    /\ u.authorized = t.authorized /\ u.mode = t.mode

LEMMA CarriesTransitive ==
    ASSUME NEW t, NEW u, NEW v, Carries(t, u), Carries(u, v)
    PROVE  Carries(t, v)
BY DEF Carries

LEMMA CarriesReflexive ==
    ASSUME NEW t
    PROVE  Carries(t, t)
BY DEF Carries

LEMMA MentionedTransitive ==
    ASSUME NEW t, NEW u, NEW v, Mentioned(t, u), Mentioned(u, v)
    PROVE  Mentioned(t, v)
BY DEF Mentioned, Carries

LEMMA MentionedReflexive ==
    ASSUME NEW t
    PROVE  Mentioned(t, t)
BY DEF Mentioned, Carries

(* A change of details only: what it leaves alone carries over.            *)
LEMMA DetailsMentioned ==
    ASSUME NEW t \in TalkRows, NEW u,
           u.revision = t.revision, u.sequence = t.sequence, u.status = t.status,
           u.outcome = t.outcome, u.consent = t.consent, u.mode = t.mode, u.party = t.party,
           u.pending = t.pending, u.noProgress = t.noProgress, u.accepted = t.accepted,
           u.phase = t.phase, u.reviewed = t.reviewed, u.authorized = t.authorized
    PROVE  Mentioned(t, u)
BY DEF Mentioned, Carries, ReviewStands

LEMMA RequestedTimeDraft ==
    ASSUME NEW t \in Drafts, NEW when \in Times \cup {NoMention}
    PROVE  /\ applyRequestedTime(t, when) \in Drafts
           /\ Mentioned(t, applyRequestedTime(t, when))
<1>0. t \in TalkRows
  BY DEF Drafts
<1>1. CASE when = NoMention
  BY <1>1, MentionedReflexive DEF applyRequestedTime
<1>2. CASE when # NoMention
  <2> DEFINE u == [t EXCEPT !.when = when, !.quote = NoQuote, !.offers = {}]
  <2>0. when \in Times /\ NoQuote \in [services : SUBSET MenuServices, when : Times, staff : {"any", "x"}]
    BY <1>2 DEF NoQuote, Times
  <2>1. applyRequestedTime(t, when) = u
    BY <1>2 DEF applyRequestedTime
  <2>2. u \in TalkRows
    BY <1>0, <2>0 DEF TalkRows
  <2>3. /\ u.revision = t.revision /\ u.sequence = t.sequence /\ u.status = t.status
        /\ u.outcome = t.outcome /\ u.consent = t.consent /\ u.mode = t.mode
        /\ u.party = t.party /\ u.pending = t.pending /\ u.noProgress = t.noProgress
        /\ u.accepted = t.accepted /\ u.phase = t.phase /\ u.reviewed = t.reviewed
        /\ u.offers = {} /\ u.authorized = t.authorized /\ u.history = t.history
    BY <1>0 DEF TalkRows
  <2> HIDE DEF u
  <2>4. Mentioned(t, u)
    BY <1>0, <2>3, DetailsMentioned
  <2>5. u \in Drafts
    BY <2>2, <2>3 DEF Drafts
  <2> QED
    BY <2>1, <2>4, <2>5
<1> QED
  BY <1>1, <1>2

LEMMA ExtractionDraft ==
    ASSUME NEW t \in Drafts, NEW m \in Mentions
    PROVE  applyExtraction(t, m) \in Drafts /\ Mentioned(t, applyExtraction(t, m))
<1> DEFINE a == applyRequestedTime(t, m.when)
           b == CASE m.staff = "any" -> [a EXCEPT !.staff = "any", !.assigned = FALSE]
                  [] m.staff = "x"   -> [a EXCEPT !.staff = "x", !.assigned = TRUE]
                  [] OTHER           -> a
           u == IF b.name = NoName THEN [b EXCEPT !.name = m.name] ELSE b
<1>3. applyExtraction(t, m) = u
  BY DEF applyExtraction
<1>0. a \in Drafts /\ Mentioned(t, a)
  BY TalkBounds, RequestedTimeDraft
<1>m. m.name \in Names /\ m.staff \in {"none", "any", "x"}
  BY TalkBounds
<1> HIDE DEF a
<1>1. b \in Drafts /\ Mentioned(a, b)
  <2>0. a \in TalkRows
    BY <1>0 DEF Drafts
  <2>1. b = a \/ \E s \in {"any", "x"}, g \in BOOLEAN : b = [a EXCEPT !.staff = s, !.assigned = g]
    BY <1>m
  <2> HIDE DEF b
  <2>2. ASSUME NEW s \in {"any", "x"}, NEW g \in BOOLEAN, b = [a EXCEPT !.staff = s, !.assigned = g]
        PROVE  b \in Drafts /\ Mentioned(a, b)
    <3>1. [a EXCEPT !.staff = s, !.assigned = g] \in TalkRows
      BY <2>0 DEF TalkRows
    <3>2. /\ b.revision = a.revision /\ b.sequence = a.sequence /\ b.status = a.status
          /\ b.outcome = a.outcome /\ b.consent = a.consent /\ b.mode = a.mode
          /\ b.party = a.party /\ b.pending = a.pending /\ b.noProgress = a.noProgress
          /\ b.accepted = a.accepted /\ b.phase = a.phase /\ b.reviewed = a.reviewed
          /\ b.offers = a.offers /\ b.when = a.when /\ b.authorized = a.authorized
          /\ b.history = a.history
      BY <2>0, <2>2 DEF TalkRows
    <3>3. Mentioned(a, b)
      BY <2>0, <3>2, DetailsMentioned
    <3>4. b \in Drafts
      BY <1>0, <2>2, <3>1, <3>2 DEF Drafts
    <3> QED
      BY <3>3, <3>4
  <2> QED
    BY <1>0, <2>1, <2>2, MentionedReflexive
<1> HIDE DEF b
<1>2. u \in Drafts /\ Mentioned(b, u)
  <2>0. b \in TalkRows
    BY <1>1 DEF Drafts
  <2>1. CASE b.name # NoName
    BY <1>1, <2>1, MentionedReflexive
  <2>2. CASE b.name = NoName
    <3>1. u = [b EXCEPT !.name = m.name]
      BY <2>2
    <3>2. [b EXCEPT !.name = m.name] \in TalkRows
      BY <2>0, <1>m DEF TalkRows
    <3> HIDE DEF u
    <3>3. /\ u.revision = b.revision /\ u.sequence = b.sequence /\ u.status = b.status
          /\ u.outcome = b.outcome /\ u.consent = b.consent /\ u.mode = b.mode
          /\ u.party = b.party /\ u.pending = b.pending /\ u.noProgress = b.noProgress
          /\ u.accepted = b.accepted /\ u.phase = b.phase /\ u.reviewed = b.reviewed
          /\ u.offers = b.offers /\ u.when = b.when /\ u.authorized = b.authorized
          /\ u.history = b.history
      BY <2>0, <3>1 DEF TalkRows
    <3>4. Mentioned(b, u)
      BY <2>0, <3>3, DetailsMentioned
    <3>5. u \in Drafts
      BY <1>1, <3>1, <3>2, <3>3 DEF Drafts
    <3> QED
      BY <3>4, <3>5
  <2> QED
    BY <2>1, <2>2
<1> HIDE DEF u
<1> QED
  BY <1>0, <1>1, <1>2, <1>3, MentionedTransitive

-----------------------------------------------------------------------------
(* What an act does to the draft.                                          *)

Acted(t, u) ==
    /\ u \in Drafts /\ Carries(t, u)
    /\ t.noProgress <= 2 => u.noProgress <= 2
    /\ t.pending.kind \in {"none", "edit"} => u.pending.kind \in {"none", "edit"}

LEMMA ActedTransitive ==
    ASSUME NEW t, NEW u, NEW v, Acted(t, u), Acted(u, v)
    PROVE  Acted(t, v)
BY CarriesTransitive DEF Acted

LEMMA ActedReflexive ==
    ASSUME NEW t \in Drafts
    PROVE  Acted(t, t)
BY CarriesReflexive DEF Acted

LEMMA MentionedActs ==
    ASSUME NEW t \in Drafts, NEW u \in Drafts, Mentioned(t, u)
    PROVE  Acted(t, u)
BY DEF Mentioned, Acted

(* The details of a draft change and what the dialogue stands at does not. *)
LEMMA DetailsActed ==
    ASSUME NEW t \in Drafts, NEW u \in TalkRows,
           u.revision = t.revision, u.sequence = t.sequence, u.status = t.status,
           u.outcome = t.outcome, u.consent = t.consent, u.mode = t.mode,
           u.pending.kind \in {"none", "edit"} \/ u.pending = t.pending,
           u.noProgress = t.noProgress, u.accepted = t.accepted,
           u.phase = t.phase, u.reviewed = t.reviewed, u.authorized = t.authorized,
           Len(u.history) <= HistoryLimit, u.offers # {} => u.when = 0
    PROVE  Acted(t, u)
<1>1. Carries(t, u)
  BY DEF Carries, ReviewStands
<1>2. u \in Drafts
  BY DEF Drafts
<1> QED
  BY <1>1, <1>2 DEF Acted

LEMMA ResetDraft ==
    ASSUME NEW t \in Drafts
    PROVE  LET u == resetDialogProgress(t) IN
           /\ Acted(t, u)
           /\ u.services = t.services /\ u.when = t.when /\ u.offers = t.offers
           /\ u.party = t.party /\ u.history = t.history
           /\ u.accepted = FALSE /\ u.reviewed = 0 /\ u.noProgress = 0 /\ u.pending = NoPending
<1> DEFINE u == [t EXCEPT !.phase = "drafting", !.pending = NoPending, !.prompt = "",
                          !.noProgress = 0, !.accepted = FALSE, !.reviewed = 0,
                          !.authorized = 0, !.mode = "", !.authority = ""]
<1>0. t \in TalkRows /\ 1 <= t.revision
  BY DEF Drafts
<1>1. resetDialogProgress(t) = u
  BY DEF resetDialogProgress
<1>2. NoPending \in Pendings
  BY DEF NoPending, Pendings, Times, Names, ActKinds
<1>3. u \in TalkRows
  <2> DEFINE v == [t EXCEPT !.phase = "drafting", !.pending = NoPending, !.prompt = "",
                            !.noProgress = 0]
  <2>1. v \in TalkRows
    <3>1. /\ "drafting" \in {"open", "drafting", "clarifying", "review"}
          /\ "" \in Prompts /\ 0 \in 0 .. 3
      BY DEF Prompts
    <3> QED
      BY ONLY <1>0, <1>2, <3>1 DEF TalkRows
  <2>2. u = [v EXCEPT !.accepted = FALSE, !.reviewed = 0, !.authorized = 0, !.mode = "",
                      !.authority = ""]
    BY <1>0 DEF TalkRows
  <2> HIDE DEF u, v
  <2> QED
    BY <2>1, <2>2 DEF TalkRows, ReviewModes, ReviewAuthorities
<1>4. /\ u.services = t.services /\ u.when = t.when /\ u.offers = t.offers
      /\ u.party = t.party /\ u.history = t.history /\ u.revision = t.revision
      /\ u.sequence = t.sequence /\ u.status = t.status /\ u.outcome = t.outcome
      /\ u.consent = t.consent
      /\ u.accepted = FALSE /\ u.reviewed = 0 /\ u.noProgress = 0 /\ u.pending = NoPending
      /\ u.authorized = 0
  BY <1>0 DEF TalkRows
<1> HIDE DEF u
<1>5. u \in Drafts
  BY <1>0, <1>3, <1>4 DEF Drafts, TalkRows
<1>6. u.revision # u.reviewed
  BY <1>0, <1>4 DEF TalkRows
<1>7. Carries(t, u)
  BY <1>4, <1>6 DEF Carries, ReviewStands
<1>8. u.pending.kind = "none"
  BY <1>4 DEF NoPending
<1> QED
  BY <1>1, <1>4, <1>5, <1>7, <1>8 DEF Acted

(* A draft with no review standing takes any services.                     *)
LEMMA ServicesActed ==
    ASSUME NEW t \in Drafts, NEW S \in SUBSET MenuServices,
           NEW h \in Seq(SUBSET MenuServices), Len(h) <= HistoryLimit,
           NEW p \in {"none", "open", "whole"}
    PROVE  /\ Acted(t, [t EXCEPT !.services = S, !.offers = {}, !.history = h])
           /\ Acted(t, [t EXCEPT !.services = S, !.offers = {}, !.party = p])
           /\ Acted(t, [t EXCEPT !.party = p, !.services = S, !.offers = {}])
           /\ Acted(t, [t EXCEPT !.party = p, !.offers = {}])
           /\ Acted(t, [t EXCEPT !.party = p])
<1>0. t \in TalkRows
  BY DEF Drafts
<1>1. Acted(t, [t EXCEPT !.services = S, !.offers = {}, !.history = h])
  <2> DEFINE u == [t EXCEPT !.services = S, !.offers = {}, !.history = h]
  <2>1. u \in TalkRows
    BY <1>0 DEF TalkRows
  <2>2. /\ u.revision = t.revision /\ u.sequence = t.sequence /\ u.status = t.status
        /\ u.outcome = t.outcome /\ u.consent = t.consent /\ u.mode = t.mode
        /\ u.pending = t.pending /\ u.noProgress = t.noProgress /\ u.accepted = t.accepted
        /\ u.phase = t.phase /\ u.reviewed = t.reviewed /\ u.authorized = t.authorized
        /\ u.history = h /\ u.offers = {}
    BY <1>0 DEF TalkRows
  <2> HIDE DEF u
  <2>3. Acted(t, u)
    BY <2>1, <2>2, DetailsActed DEF Drafts
  <2> QED
    BY <2>3 DEF u
<1>2. Acted(t, [t EXCEPT !.services = S, !.offers = {}, !.party = p])
  <2> DEFINE u == [t EXCEPT !.services = S, !.offers = {}, !.party = p]
  <2>1. u \in TalkRows
    BY <1>0 DEF TalkRows
  <2>2. /\ u.revision = t.revision /\ u.sequence = t.sequence /\ u.status = t.status
        /\ u.outcome = t.outcome /\ u.consent = t.consent /\ u.mode = t.mode
        /\ u.pending = t.pending /\ u.noProgress = t.noProgress /\ u.accepted = t.accepted
        /\ u.phase = t.phase /\ u.reviewed = t.reviewed /\ u.authorized = t.authorized
        /\ u.history = t.history /\ u.offers = {}
    BY <1>0 DEF TalkRows
  <2> HIDE DEF u
  <2>3. Acted(t, u)
    BY <2>1, <2>2, DetailsActed DEF Drafts
  <2> QED
    BY <2>3 DEF u
<1>3. [t EXCEPT !.services = S, !.offers = {}, !.party = p] = [t EXCEPT !.party = p, !.services = S, !.offers = {}]
  BY <1>0 DEF TalkRows
<1>4. Acted(t, [t EXCEPT !.party = p, !.offers = {}])
  <2> DEFINE u == [t EXCEPT !.party = p, !.offers = {}]
  <2>1. u \in TalkRows
    BY <1>0 DEF TalkRows
  <2>2. /\ u.revision = t.revision /\ u.sequence = t.sequence /\ u.status = t.status
        /\ u.outcome = t.outcome /\ u.consent = t.consent /\ u.mode = t.mode
        /\ u.pending = t.pending /\ u.noProgress = t.noProgress /\ u.accepted = t.accepted
        /\ u.phase = t.phase /\ u.reviewed = t.reviewed /\ u.authorized = t.authorized
        /\ u.history = t.history /\ u.offers = {}
    BY <1>0 DEF TalkRows
  <2> HIDE DEF u
  <2>3. Acted(t, u)
    BY <2>1, <2>2, DetailsActed DEF Drafts
  <2> QED
    BY <2>3 DEF u
<1>5. Acted(t, [t EXCEPT !.party = p])
  <2> DEFINE u == [t EXCEPT !.party = p]
  <2>1. u \in TalkRows
    BY <1>0 DEF TalkRows
  <2>2. /\ u.revision = t.revision /\ u.sequence = t.sequence /\ u.status = t.status
        /\ u.outcome = t.outcome /\ u.consent = t.consent /\ u.mode = t.mode
        /\ u.pending = t.pending /\ u.noProgress = t.noProgress /\ u.accepted = t.accepted
        /\ u.phase = t.phase /\ u.reviewed = t.reviewed /\ u.authorized = t.authorized
        /\ u.history = t.history /\ u.offers = t.offers /\ u.when = t.when
    BY <1>0 DEF TalkRows
  <2> HIDE DEF u
  <2>3. Acted(t, u)
    BY <2>1, <2>2, DetailsActed DEF Drafts
  <2> QED
    BY <2>3 DEF u
<1> QED
  BY <1>1, <1>2, <1>3, <1>4, <1>5

LEMMA LastOfBounds ==
    ASSUME NEW s \in Seq(SUBSET MenuServices)
    PROVE  LastOf(s) \in Seq(SUBSET MenuServices) /\ Len(LastOf(s)) <= HistoryLimit
<1> DEFINE i == IF Len(s) > HistoryLimit THEN Len(s) - HistoryLimit + 1 ELSE 1
<1>1. Len(s) \in Nat /\ HistoryLimit \in Nat
  BY TalkBounds
<1>2. i \in Int /\ i >= 1 /\ Len(s) - i + 1 <= HistoryLimit
  BY <1>1
<1>3. \A k \in i .. Len(s) : s[k] \in SUBSET MenuServices
  <2> TAKE k \in i .. Len(s)
  <2>1. k \in 1 .. Len(s)
    BY <1>1, <1>2
  <2> QED
    BY <2>1
<1> HIDE DEF i
<1>4. SubSeq(s, i, Len(s)) \in Seq(SUBSET MenuServices)
  BY <1>1, <1>2, <1>3, SubSeqProperties
<1>5. Len(SubSeq(s, i, Len(s))) = IF i <= Len(s) THEN Len(s) - i + 1 ELSE 0
  BY <1>1, <1>2, <1>3, SubSeqProperties
<1>6. Len(SubSeq(s, i, Len(s))) <= HistoryLimit
  BY <1>1, <1>2, <1>5
<1> QED
  BY <1>4, <1>6 DEF LastOf, i

LEMMA ReselectedDraft ==
    ASSUME NEW t \in Drafts, NEW S \in SUBSET MenuServices
    PROVE  Acted(t, Reselected(t, S))
<1>1. CASE S = t.services
  BY <1>1, ActedReflexive DEF Reselected
<1>2. CASE S # t.services
  <2> DEFINE r == resetDialogProgress(t)
             h == LastOf(Append(t.history, t.services))
  <2>1. Acted(t, r)
    BY ResetDraft
  <2>2. t.history \in Seq(SUBSET MenuServices) /\ t.services \in SUBSET MenuServices
    BY DEF Drafts, TalkRows
  <2>3. h \in Seq(SUBSET MenuServices) /\ Len(h) <= HistoryLimit
    BY <2>2, AppendProperties, LastOfBounds
  <2> HIDE DEF r, h
  <2>4. r \in Drafts
    BY <2>1 DEF Acted
  <2>5. Acted(r, [r EXCEPT !.services = S, !.offers = {}, !.history = h])
    BY <2>3, <2>4, ServicesActed
  <2>6. Acted(t, [r EXCEPT !.services = S, !.offers = {}, !.history = h])
    BY <2>1, <2>5, ActedTransitive
  <2> QED
    BY <1>2, <2>6 DEF Reselected, r, h
<1> QED
  BY <1>1, <1>2

LEMMA UndoneDraft ==
    ASSUME NEW t \in Drafts
    PROVE  Acted(t, Undone(t))
<1>1. CASE t.history = <<>>
  BY <1>1, ActedReflexive DEF Undone
<1>2. CASE t.history # <<>>
  <2> DEFINE r == resetDialogProgress(t)
             n == Len(t.history)
             S == t.history[n]
             h == SubSeq(t.history, 1, n - 1)
  <2>1. Acted(t, r)
    BY ResetDraft
  <2>2. t.history \in Seq(SUBSET MenuServices) /\ n <= HistoryLimit
    BY DEF Drafts, TalkRows
  <2>3. n \in Nat /\ n >= 1 /\ HistoryLimit \in Nat
    BY <1>2, <2>2, EmptySeq, TalkBounds
  <2>4. \A k \in 1 .. n : t.history[k] \in SUBSET MenuServices
    BY <2>2
  <2>5. S \in SUBSET MenuServices
    BY <2>3, <2>4
  <2>6. \A k \in 1 .. n - 1 : t.history[k] \in SUBSET MenuServices
    BY <2>3, <2>4
  <2> HIDE DEF n
  <2>7. h \in Seq(SUBSET MenuServices)
    BY <2>3, <2>6, SubSeqProperties
  <2>7a. Len(h) = IF 1 <= n - 1 THEN n - 1 - 1 + 1 ELSE 0
    BY <2>3, <2>6, SubSeqProperties
  <2>8. Len(h) <= HistoryLimit
    BY <2>2, <2>3, <2>7a
  <2> HIDE DEF r, S, h
  <2>9. r \in Drafts
    BY <2>1 DEF Acted
  <2>10. Acted(r, [r EXCEPT !.services = S, !.offers = {}, !.history = h])
    BY <2>5, <2>7, <2>8, <2>9, ServicesActed
  <2>11. Acted(t, [r EXCEPT !.services = S, !.offers = {}, !.history = h])
    BY <2>1, <2>10, ActedTransitive
  <2> QED
    BY <1>2, <2>11 DEF Undone, r, S, h, n
<1> QED
  BY <1>1, <1>2

LEMMA ActsTyped == ConversationActs \subseteq Acts /\ NoAct \in Acts
<1>1. /\ {{s} : s \in MenuServices} \subseteq SUBSET MenuServices
      /\ {} \in SUBSET MenuServices /\ NoName \in Names /\ CallerNames \cup {NoName} = Names
  BY DEF Names
<1>2. ASSUME NEW kinds \in SUBSET ActKinds, NEW services \in SUBSET (SUBSET MenuServices),
             NEW another \in SUBSET BOOLEAN
      PROVE  ActsOf(kinds, services, another) \subseteq Acts
  BY <1>1, <1>2 DEF ActsOf, Acts
<1>3. ReviewResponses \subseteq Acts
  BY <1>2 DEF ActKinds, ReviewResponses
<1>4. ActsOf({"none", "undo", "staff_any", "staff_x", "staff_alternative", "time_clear", "guests"},
             {{}}, {FALSE}) \subseteq Acts
  BY <1>2 DEF ActKinds
<1>5. ActsOf(ServiceActs, SUBSET MenuServices, BOOLEAN) \subseteq Acts
  BY <1>2 DEF ActKinds, ServiceActs
<1>6. [kind : {"replace"}, services : SUBSET MenuServices, sources : {{s} : s \in MenuServices},
       another : {FALSE}, name : {NoName}] \subseteq Acts
  BY <1>1 DEF Acts, ActKinds
<1>7. [kind : {"customer"}, services : {{}}, sources : {{}}, another : {FALSE},
       name : CallerNames \cup {NoName}] \subseteq Acts
  BY <1>1 DEF Acts, ActKinds
<1>8. NoAct \in Acts
  BY <1>1 DEF NoAct, Acts, ActKinds
<1> QED
  BY <1>3, <1>4, <1>5, <1>6, <1>7, <1>8 DEF ConversationActs

(* What the reducer returns, of a draft with fewer than three questions    *)
(* without progress.                                                       *)
Reduction(t, r) ==
    /\ r.clarify \in BOOLEAN /\ r.escalate \in BOOLEAN
    /\ r.talk \in Drafts /\ r.talk.sequence = t.sequence
    /\ ~ r.escalate => Acted(t, r.talk)

LEMMA ReducedActed ==
    ASSUME NEW t, NEW u, Acted(t, u)
    PROVE  Reduction(t, Reduced(u))
BY DEF Reduction, Reduced, Acted, Carries

LEMMA ClarifiedDraft ==
    ASSUME NEW t \in Drafts, t.noProgress <= 2, NEW act \in Acts, NEW prompt \in Prompts
    PROVE  Reduction(t, setConversationClarification(t, act, prompt))
<1> DEFINE count == Escalation(t, prompt)
           pending == [NoPending EXCEPT !.kind = "edit", !.services = act.services, !.act = act.kind]
           u == [t EXCEPT !.phase = "clarifying", !.accepted = FALSE, !.prompt = prompt,
                          !.noProgress = count, !.pending = pending]
           r == setConversationClarification(t, act, prompt)
<1>0. t \in TalkRows /\ t.noProgress \in 0 .. 2
  BY DEF Drafts, TalkRows
<1>1. r = [talk |-> u, clarify |-> TRUE, escalate |-> count >= 3]
  BY DEF setConversationClarification
<1>2. count \in 0 .. 3
  BY <1>0 DEF Escalation
<1>3. pending \in Pendings /\ pending.kind = "edit"
  BY DEF Acts, NoPending, Pendings, Times, Names
<1> HIDE DEF count, pending
<1>4. u \in TalkRows
  BY ONLY <1>0, <1>2, <1>3, prompt \in Prompts DEF TalkRows
<1>5. /\ u.revision = t.revision /\ u.sequence = t.sequence /\ u.status = t.status
      /\ u.outcome = t.outcome /\ u.consent = t.consent /\ u.mode = t.mode
      /\ u.accepted = FALSE /\ u.phase = "clarifying" /\ u.reviewed = t.reviewed
      /\ u.authorized = t.authorized /\ u.history = t.history /\ u.offers = t.offers
      /\ u.when = t.when /\ u.pending = pending /\ u.noProgress = count
  BY <1>0 DEF TalkRows
<1> HIDE DEF u
<1>6. u \in Drafts
  BY <1>4, <1>5 DEF Drafts
<1>7. Carries(t, u)
  BY <1>5 DEF Carries, ReviewStands
<1>8. count < 3 => u.noProgress <= 2
  BY <1>2, <1>5
<1>9. ~ (count >= 3) => Acted(t, u)
  BY <1>2, <1>3, <1>5, <1>6, <1>7, <1>8 DEF Acted
<1>10. r.talk = u /\ r.clarify = TRUE /\ r.escalate = (count >= 3)
  BY <1>1
<1> HIDE DEF r
<1>11. r.escalate \in BOOLEAN
  BY <1>10
<1> QED
  BY <1>5, <1>6, <1>9, <1>10, <1>11 DEF Reduction, r

LEMMA ReviewAcceptedDraft ==
    ASSUME NEW t \in Drafts
    PROVE  Acted(t, ReviewAccepted(t))
<1> DEFINE current == t.phase = "review" /\ t.reviewed = t.revision
           u == [t EXCEPT !.accepted = current, !.authorized = IF current THEN t.revision ELSE 0,
                          !.pending = NoPending, !.noProgress = 0]
<1>0. t \in TalkRows
  BY DEF Drafts
<1>1. ReviewAccepted(t) = u
  BY DEF ReviewAccepted
<1>2. NoPending \in Pendings /\ NoPending.kind = "none"
  BY DEF NoPending, Pendings, Times, Names, ActKinds
<1>3. current \in BOOLEAN
  OBVIOUS
<1>4. (IF current THEN t.revision ELSE 0) \in Nat /\ (IF current THEN t.revision ELSE 0) <= t.revision
  BY <1>0 DEF TalkRows
<1> DEFINE c == current
           n == IF current THEN t.revision ELSE 0
           v == [t EXCEPT !.accepted = c, !.authorized = n, !.pending = NoPending, !.noProgress = 0]
<1>5. c \in BOOLEAN /\ n \in Nat /\ n <= t.revision /\ u = v /\ (c => ReviewStands(t))
  BY <1>3, <1>4 DEF ReviewStands
<1> HIDE DEF c, n, u
<1>6. v \in TalkRows
  <2>1. 0 \in 0 .. 3
    OBVIOUS
  <2>2. NoPending \in Pendings /\ n \in Nat /\ c \in BOOLEAN
    BY <1>2, <1>5
  <2> QED
    BY ONLY <1>0, <2>1, <2>2 DEF TalkRows
<1>7. /\ v.revision = t.revision /\ v.sequence = t.sequence /\ v.status = t.status
      /\ v.outcome = t.outcome /\ v.consent = t.consent /\ v.mode = t.mode
      /\ v.accepted = c /\ v.phase = t.phase /\ v.reviewed = t.reviewed
      /\ v.authorized = n /\ v.history = t.history /\ v.offers = t.offers
      /\ v.when = t.when /\ v.pending = NoPending /\ v.noProgress = 0
  BY <1>0 DEF TalkRows
<1> HIDE DEF v
<1>8. v \in Drafts
  BY <1>5, <1>6, <1>7 DEF Drafts
<1>9. Carries(t, v)
  BY <1>5, <1>7 DEF Carries, ReviewStands
<1>10. Acted(t, v)
  BY <1>2, <1>7, <1>8, <1>9 DEF Acted
<1> QED
  BY <1>1, <1>5, <1>10

LEMMA ReplacedDraft ==
    ASSUME NEW t \in Drafts, NEW from \in SUBSET MenuServices, NEW to \in SUBSET MenuServices
    PROVE  Acted(t, replaceSelectedServices(t, from, to))
<1> DEFINE S == (t.services \ from) \cup to
           r == Reselected(t, S)
<1>1. S \in SUBSET MenuServices
  BY DEF Drafts, TalkRows
<1> HIDE DEF S
<1>2. Acted(t, r)
  BY <1>1, ReselectedDraft
<1> HIDE DEF r
<1>3. r \in Drafts /\ <<>> \in Seq(SUBSET MenuServices)
  BY <1>2, EmptySeq DEF Acted
<1>4. Len(<<>>) <= HistoryLimit
  BY TalkBounds, EmptySeq
<1>5. Acted(r, [r EXCEPT !.party = "none"])
  BY <1>1, <1>3, <1>4, ServicesActed
<1>6. Acted(t, [r EXCEPT !.party = "none"])
  BY <1>2, <1>5, ActedTransitive
<1> QED
  BY <1>6 DEF replaceSelectedServices, r, S

LEMMA AddedDraft ==
    ASSUME NEW t \in Drafts, NEW act \in Acts
    PROVE  Acted(t, [Reselected(t, t.services \cup act.services) EXCEPT
                     !.party = IF act.another /\ ~ act.services \subseteq t.services
                               THEN "whole" ELSE @])
<1> DEFINE S == t.services \cup act.services
           r == Reselected(t, S)
           p == IF act.another /\ ~ act.services \subseteq t.services THEN "whole" ELSE r.party
<1>1. S \in SUBSET MenuServices
  BY DEF Drafts, TalkRows, Acts
<1> HIDE DEF S
<1>2. Acted(t, r)
  BY <1>1, ReselectedDraft
<1> HIDE DEF r
<1>3. r \in Drafts /\ <<>> \in Seq(SUBSET MenuServices)
  BY <1>2, EmptySeq DEF Acted
<1>4. Len(<<>>) <= HistoryLimit
  BY TalkBounds, EmptySeq
<1>5. p \in {"none", "open", "whole"}
  BY <1>3 DEF Drafts, TalkRows
<1>6. [r EXCEPT !.party = IF act.another /\ ~ act.services \subseteq t.services THEN "whole" ELSE @]
      = [r EXCEPT !.party = p]
  BY <1>3 DEF Drafts, TalkRows
<1> HIDE DEF p
<1>7. Acted(r, [r EXCEPT !.party = p])
  BY <1>1, <1>3, <1>4, <1>5, ServicesActed
<1>8. Acted(t, [r EXCEPT !.party = p])
  BY <1>2, <1>7, ActedTransitive
<1> QED
  BY <1>6, <1>8 DEF r, S

LEMMA RemovedDraft ==
    ASSUME NEW t \in Drafts, NEW from
    PROVE  Acted(t, removeSelectedServices(t, from))
<1> DEFINE S == IF Cardinality(t.services) = 1 THEN {} ELSE t.services \ from
<1>1. S \in SUBSET MenuServices
  BY DEF Drafts, TalkRows
<1> HIDE DEF S
<1>2. Acted(t, Reselected(t, S))
  BY <1>1, ReselectedDraft
<1> QED
  BY <1>2 DEF removeSelectedServices, S

LEMMA ServiceActDraft ==
    ASSUME NEW t \in Drafts, t.noProgress <= 2, NEW act \in Acts
    PROVE  Reduction(t, applyConversationActToDraft(t, act))
<1> DEFINE r == applyConversationActToDraft(t, act)
<1>0. act.services \in SUBSET MenuServices /\ act.sources \in SUBSET MenuServices
      /\ t.services \in SUBSET MenuServices
  BY DEF Acts, Drafts, TalkRows
<1>1. CASE act.kind = "review"
  BY <1>1, ReviewAcceptedDraft, ReducedActed DEF applyConversationActToDraft
<1>2. CASE act.kind = "undo"
  BY <1>2, UndoneDraft, ReducedActed DEF applyConversationActToDraft
<1>3. CASE act.kind = "add"
  <2>1. CASE Cardinality(act.services) # 1
    <3>1. r = setConversationClarification(t, act, "add_target")
      BY <1>3, <2>1 DEF applyConversationActToDraft
    <3>2. "add_target" \in Prompts
      BY DEF Prompts
    <3> QED
      BY <3>1, <3>2, ClarifiedDraft
  <2>2. CASE Cardinality(act.services) = 1 /\ act.another /\ Cardinality(t.services) # 1
    BY <1>3, <2>2 DEF applyConversationActToDraft, Reduction, r
  <2>3. CASE Cardinality(act.services) = 1 /\ ~ (act.another /\ Cardinality(t.services) # 1)
    <3> DEFINE u == [Reselected(t, t.services \cup act.services) EXCEPT
                      !.party = IF act.another /\ ~ act.services \subseteq t.services
                                THEN "whole" ELSE @]
    <3>1. r = Reduced(u)
      BY <1>3, <2>3 DEF applyConversationActToDraft
    <3>2. Acted(t, u)
      BY AddedDraft
    <3> HIDE DEF u, r
    <3> QED
      BY <3>1, <3>2, ReducedActed DEF r
  <2> QED
    BY <2>1, <2>2, <2>3
<1>4. CASE act.kind = "replace"
  <2> DEFINE named == act.sources \cap t.services
             from == IF named = {} THEN t.services ELSE named
  <2>1. CASE Cardinality(act.services) # 1
    <3>1. r = setConversationClarification(t, act, "replace_target")
      BY <1>4, <2>1 DEF applyConversationActToDraft
    <3>2. "replace_target" \in Prompts
      BY DEF Prompts
    <3> QED
      BY <3>1, <3>2, ClarifiedDraft
  <2>2. CASE Cardinality(act.services) = 1 /\ named = {} /\ Cardinality(t.services) # 1
    <3>1. r = setConversationClarification(t, act, "replace_source")
      BY <1>4, <2>2 DEF applyConversationActToDraft
    <3>2. "replace_source" \in Prompts
      BY DEF Prompts
    <3> QED
      BY <3>1, <3>2, ClarifiedDraft
  <2>3. CASE Cardinality(act.services) = 1 /\ ~ (named = {} /\ Cardinality(t.services) # 1)
    BY <1>0, <1>4, <2>3, ReplacedDraft, ReducedActed DEF applyConversationActToDraft, r
  <2> QED
    BY <2>1, <2>2, <2>3
<1>5. CASE act.kind = "remove"
  <2>1. CASE Cardinality(t.services) # 1 /\ act.services \cap t.services = {}
    <3>1. r = setConversationClarification(t, act, "remove_source")
      BY <1>5, <2>1 DEF applyConversationActToDraft
    <3>2. "remove_source" \in Prompts
      BY DEF Prompts
    <3> QED
      BY <3>1, <3>2, ClarifiedDraft
  <2>2. CASE ~ (Cardinality(t.services) # 1 /\ act.services \cap t.services = {})
    BY <1>5, <2>2, RemovedDraft, ReducedActed DEF applyConversationActToDraft
  <2> QED
    BY <2>1, <2>2
<1>6. CASE act.kind \notin {"review", "undo", "add", "replace", "remove"}
  BY <1>6, ActedReflexive, ReducedActed DEF applyConversationActToDraft
<1> QED
  BY <1>1, <1>2, <1>3, <1>4, <1>5, <1>6

LEMMA PartyActDraft ==
    ASSUME NEW t \in Drafts, NEW act \in Acts
    PROVE  Reduction(t, applyPartyServiceConversationAct(t, act))
<1> DEFINE next == IF act.kind = "remove" THEN t.services \ act.services
                   ELSE t.services \cup act.services
           r == applyPartyServiceConversationAct(t, act)
           z == resetDialogProgress(t)
           p == IF next = {} THEN "open" ELSE "whole"
<1>0. next \in SUBSET MenuServices
  BY DEF Acts, Drafts, TalkRows
<1>1. Acted(t, z)
  BY ResetDraft
<1>2. z \in Drafts /\ <<>> \in Seq(SUBSET MenuServices)
  BY <1>1, EmptySeq DEF Acted
<1>3. Len(<<>>) <= HistoryLimit
  BY TalkBounds, EmptySeq
<1>4. \/ r = [talk |-> t, clarify |-> TRUE, escalate |-> FALSE]
      \/ r = [talk |-> z, clarify |-> TRUE, escalate |-> FALSE]
      \/ r = Reduced([z EXCEPT !.services = next, !.offers = {}, !.party = p])
  BY DEF applyPartyServiceConversationAct
<1>5. p \in {"none", "open", "whole"}
  OBVIOUS
<1> HIDE DEF next, z, p, r
<1>6. Acted(z, [z EXCEPT !.services = next, !.offers = {}, !.party = p])
  BY <1>0, <1>2, <1>3, <1>5, ServicesActed
<1>7. Acted(t, [z EXCEPT !.services = next, !.offers = {}, !.party = p])
  BY <1>1, <1>6, ActedTransitive
<1>8. ASSUME NEW u, Acted(t, u), r = [talk |-> u, clarify |-> TRUE, escalate |-> FALSE]
      PROVE  Reduction(t, r)
  BY <1>8 DEF Reduction, Acted, Carries
<1>9. Reduction(t, r)
  BY <1>1, <1>4, <1>7, <1>8, ActedReflexive, ReducedActed
<1> QED
  BY <1>9 DEF r

LEMMA StaffActDraft ==
    ASSUME NEW t \in Drafts, NEW act \in Acts,
           act.kind \in {"staff_any", "staff_x", "staff_alternative"}
    PROVE  Reduction(t, applyStaffConversationAct(t, act))
<1>0. t \in TalkRows
  BY DEF Drafts
<1>1. CASE act.kind = "staff_alternative"
  <2> DEFINE pending == [NoPending EXCEPT !.kind = "edit", !.act = act.kind]
             u == [t EXCEPT !.phase = "clarifying", !.prompt = "staff_alternative", !.pending = pending]
             r == applyStaffConversationAct(t, act)
  <2>1. r = [talk |-> u, clarify |-> TRUE, escalate |-> FALSE]
    BY <1>1 DEF applyStaffConversationAct
  <2>2. pending \in Pendings /\ pending.kind = "edit" /\ "staff_alternative" \in Prompts
    BY DEF Acts, NoPending, Pendings, Times, Names, Prompts
  <2> HIDE DEF pending
  <2>3. u \in TalkRows
    BY ONLY <1>0, <2>2 DEF TalkRows
  <2>4. /\ u.revision = t.revision /\ u.sequence = t.sequence /\ u.status = t.status
        /\ u.outcome = t.outcome /\ u.consent = t.consent /\ u.mode = t.mode
        /\ u.accepted = t.accepted /\ u.phase = "clarifying" /\ u.reviewed = t.reviewed
        /\ u.authorized = t.authorized /\ u.history = t.history /\ u.offers = t.offers
        /\ u.when = t.when /\ u.pending = pending /\ u.noProgress = t.noProgress
    BY <1>0 DEF TalkRows
  <2> HIDE DEF u
  <2>5. u \in Drafts
    BY <2>3, <2>4 DEF Drafts
  <2>6. Carries(t, u)
    BY <2>4 DEF Carries, ReviewStands
  <2>7. Acted(t, u)
    BY <2>2, <2>4, <2>5, <2>6 DEF Acted
  <2> HIDE DEF r
  <2>8. Reduction(t, r)
    BY <2>1, <2>7 DEF Reduction, Acted, Carries
  <2> QED
    BY <2>8 DEF r
<1>2. CASE act.kind = "staff_any"
  <2> DEFINE o == IF t.assigned THEN {} ELSE t.offers
             u == [t EXCEPT !.staff = "any", !.assigned = FALSE, !.offers = o]
  <2>1. applyStaffConversationAct(t, act) = Reduced(u)
    <3>1. [t EXCEPT !.staff = "any", !.assigned = FALSE, !.offers = IF t.assigned THEN {} ELSE @] = u
      BY <1>0 DEF TalkRows
    <3>2. applyStaffConversationAct(t, act)
          = Reduced([t EXCEPT !.staff = "any", !.assigned = FALSE, !.offers = IF t.assigned THEN {} ELSE @])
      BY <1>2 DEF applyStaffConversationAct
    <3> QED
      BY ONLY <3>1, <3>2
  <2>2. o \in SUBSET OpenSlots /\ (o # {} => t.when = 0)
    BY DEF Drafts, TalkRows
  <2> HIDE DEF o
  <2>3. u \in TalkRows
    BY ONLY <1>0, <2>2 DEF TalkRows
  <2>4. /\ u.revision = t.revision /\ u.sequence = t.sequence /\ u.status = t.status
        /\ u.outcome = t.outcome /\ u.consent = t.consent /\ u.mode = t.mode
        /\ u.accepted = t.accepted /\ u.phase = t.phase /\ u.reviewed = t.reviewed
        /\ u.authorized = t.authorized /\ u.history = t.history /\ u.offers = o
        /\ u.when = t.when /\ u.pending = t.pending /\ u.noProgress = t.noProgress
    BY <1>0 DEF TalkRows
  <2> HIDE DEF u
  <2>5. Acted(t, u)
    BY <2>2, <2>3, <2>4, DetailsActed DEF Drafts
  <2> QED
    BY <2>1, <2>5, ReducedActed
<1>3. CASE act.kind = "staff_x"
  <2> DEFINE q == IF t.prompt = "staff_alternative" THEN NoPending ELSE t.pending
             u == [t EXCEPT !.staff = "x", !.assigned = TRUE, !.offers = {}, !.pending = q]
  <2>1. applyStaffConversationAct(t, act) = Reduced(u)
    <3>1. [t EXCEPT !.staff = "x", !.assigned = TRUE, !.offers = {},
                    !.pending = IF t.prompt = "staff_alternative" THEN NoPending ELSE @] = u
      BY <1>0 DEF TalkRows
    <3>2. applyStaffConversationAct(t, act)
          = Reduced([t EXCEPT !.staff = "x", !.assigned = TRUE, !.offers = {},
                              !.pending = IF t.prompt = "staff_alternative" THEN NoPending ELSE @])
      BY <1>3 DEF applyStaffConversationAct
    <3> QED
      BY ONLY <3>1, <3>2
  <2>2. q \in Pendings /\ (q.kind \in {"none", "edit"} \/ q = t.pending)
    BY <1>0 DEF NoPending, Pendings, Times, Names, ActKinds, TalkRows
  <2> HIDE DEF q
  <2>3. u \in TalkRows
    BY ONLY <1>0, <2>2 DEF TalkRows
  <2>4. /\ u.revision = t.revision /\ u.sequence = t.sequence /\ u.status = t.status
        /\ u.outcome = t.outcome /\ u.consent = t.consent /\ u.mode = t.mode
        /\ u.accepted = t.accepted /\ u.phase = t.phase /\ u.reviewed = t.reviewed
        /\ u.authorized = t.authorized /\ u.history = t.history /\ u.offers = {}
        /\ u.pending = q /\ u.noProgress = t.noProgress
    BY <1>0 DEF TalkRows
  <2> HIDE DEF u
  <2>5. Acted(t, u)
    BY <2>2, <2>3, <2>4, DetailsActed DEF Drafts
  <2> QED
    BY <2>1, <2>5, ReducedActed
<1> QED
  BY <1>1, <1>2, <1>3

LEMMA DateTimeActDraft ==
    ASSUME NEW t \in Drafts
    PROVE  Reduction(t, applyDateTimeConversationAct(t))
<1> DEFINE o == IF t.when # 0 THEN {} ELSE t.offers
           u == [t EXCEPT !.when = 0, !.offers = o]
<1>0. t \in TalkRows
  BY DEF Drafts
<1>1. applyDateTimeConversationAct(t) = Reduced(u)
  <2>1. [t EXCEPT !.when = 0, !.offers = IF t.when # 0 THEN {} ELSE @] = u
    BY <1>0 DEF TalkRows
  <2>2. applyDateTimeConversationAct(t)
        = Reduced([t EXCEPT !.when = 0, !.offers = IF t.when # 0 THEN {} ELSE @])
    BY DEF applyDateTimeConversationAct
  <2> QED
    BY ONLY <2>1, <2>2
<1>2. o \in SUBSET OpenSlots /\ 0 \in Times
  BY DEF Drafts, TalkRows, Times
<1> HIDE DEF o
<1>3. u \in TalkRows
  BY ONLY <1>0, <1>2 DEF TalkRows
<1>4. /\ u.revision = t.revision /\ u.sequence = t.sequence /\ u.status = t.status
      /\ u.outcome = t.outcome /\ u.consent = t.consent /\ u.mode = t.mode
      /\ u.accepted = t.accepted /\ u.phase = t.phase /\ u.reviewed = t.reviewed
      /\ u.authorized = t.authorized /\ u.history = t.history
      /\ u.when = 0 /\ u.pending = t.pending /\ u.noProgress = t.noProgress
  BY <1>0 DEF TalkRows
<1> HIDE DEF u
<1>5. Acted(t, u)
  BY <1>3, <1>4, DetailsActed DEF Drafts
<1> QED
  BY <1>1, <1>5, ReducedActed

LEMMA NamedDraft ==
    ASSUME NEW t \in Drafts, NEW name \in Names
    PROVE  [t EXCEPT !.name = name] \in Drafts /\ Mentioned(t, [t EXCEPT !.name = name])
<1> DEFINE u == [t EXCEPT !.name = name]
<1>0. t \in TalkRows
  BY DEF Drafts
<1>1. u \in TalkRows
  BY ONLY <1>0, name \in Names DEF TalkRows
<1>2. /\ u.revision = t.revision /\ u.sequence = t.sequence /\ u.status = t.status
      /\ u.outcome = t.outcome /\ u.consent = t.consent /\ u.mode = t.mode
      /\ u.party = t.party /\ u.pending = t.pending /\ u.noProgress = t.noProgress
      /\ u.accepted = t.accepted /\ u.phase = t.phase /\ u.reviewed = t.reviewed
      /\ u.offers = t.offers /\ u.when = t.when /\ u.authorized = t.authorized
      /\ u.history = t.history
  BY <1>0 DEF TalkRows
<1> HIDE DEF u
<1>3. Mentioned(t, u)
  BY <1>0, <1>2, DetailsMentioned
<1>4. u \in Drafts
  BY <1>1, <1>2 DEF Drafts
<1> QED
  BY <1>3, <1>4 DEF u

LEMMA UnderstoodDraft ==
    ASSUME NEW t \in Drafts, t.noProgress <= 2, NEW act \in Acts
    PROVE  Reduction(t, applyTurnUnderstandingToDraft(t, act))
<1>1. CASE act.kind \in {"staff_any", "staff_x", "staff_alternative"}
  BY <1>1, StaffActDraft DEF applyTurnUnderstandingToDraft, ServiceActs
<1>2. CASE act.kind = "time_clear"
  BY <1>2, DateTimeActDraft DEF applyTurnUnderstandingToDraft, ServiceActs
<1>3. CASE act.kind = "customer"
  BY <1>3, NamedDraft, MentionedActs, ReducedActed DEF Acts, applyTurnUnderstandingToDraft,
     applyCustomerConversationAct, ServiceActs
<1>4. CASE act.kind = "guests"
  <2>1. <<>> \in Seq(SUBSET MenuServices) /\ Len(<<>>) <= HistoryLimit /\ {} \in SUBSET MenuServices
    BY TalkBounds, EmptySeq
  <2>2. Acted(t, [t EXCEPT !.party = "open", !.offers = {}])
    BY <2>1, ServicesActed
  <2>3. applyTurnUnderstandingToDraft(t, act) = Reduced([t EXCEPT !.party = "open", !.offers = {}])
    BY <1>4 DEF applyTurnUnderstandingToDraft, applyGuestConversationAct, ServiceActs
  <2> QED
    BY <2>2, <2>3, ReducedActed
<1>5. CASE act.kind \in ServiceActs /\ t.party # "none"
  BY <1>5, PartyActDraft DEF applyTurnUnderstandingToDraft, ServiceActs
<1>6. CASE /\ act.kind \notin {"staff_any", "staff_x", "staff_alternative", "time_clear", "customer", "guests"}
           /\ ~ (act.kind \in ServiceActs /\ t.party # "none")
  BY <1>6, ServiceActDraft DEF applyTurnUnderstandingToDraft
<1> QED
  BY <1>1, <1>2, <1>3, <1>4, <1>5, <1>6

LEMMA PartyResolvedDraft ==
    ASSUME NEW t \in Drafts, NEW S \in SUBSET MenuServices
    PROVE  /\ Acted(t, PartyResolved(t, S))
           /\ S = {} => PartyResolved(t, S) = t
           /\ S # {} => PartyResolved(t, S).party = "whole"
<1>1. CASE S = {}
  BY <1>1, ActedReflexive DEF PartyResolved
<1>2. CASE S # {}
  <2>0. t \in TalkRows
    BY DEF Drafts
  <2>1. <<>> \in Seq(SUBSET MenuServices) /\ Len(<<>>) <= HistoryLimit
    BY TalkBounds, EmptySeq
  <2>2. PartyResolved(t, S) = [t EXCEPT !.party = "whole", !.services = S, !.offers = {}]
    BY <1>2 DEF PartyResolved
  <2>3. Acted(t, [t EXCEPT !.party = "whole", !.services = S, !.offers = {}])
    BY <2>1, ServicesActed
  <2>4. [t EXCEPT !.party = "whole", !.services = S, !.offers = {}].party = "whole"
    BY <2>0 DEF TalkRows
  <2> QED
    BY <1>2, <2>2, <2>3, <2>4
<1> QED
  BY <1>1, <1>2

LEMMA SelectedSlotDraft ==
    ASSUME NEW t \in Drafts, NEW when \in Times
    PROVE  /\ applySelectedOfferedSlot(t, when) \in Drafts
           /\ Mentioned(t, applySelectedOfferedSlot(t, when))
           /\ when = t.when => Payload(applySelectedOfferedSlot(t, when)) = Payload(t)
           /\ applySelectedOfferedSlot(t, when).when = when
<1> DEFINE q == [services |-> t.services, when |-> when, staff |-> t.staff]
           u == [t EXCEPT !.when = when, !.assigned = TRUE, !.offers = {}, !.quote = q]
<1>0. t \in TalkRows
  BY DEF Drafts
<1>1. applySelectedOfferedSlot(t, when) = u
  BY DEF applySelectedOfferedSlot
<1>2. q \in [services : SUBSET MenuServices, when : Times, staff : {"any", "x"}]
  BY <1>0 DEF TalkRows
<1> HIDE DEF q
<1>3. u \in TalkRows
  BY ONLY <1>0, <1>2, when \in Times DEF TalkRows
<1>4. /\ u.revision = t.revision /\ u.sequence = t.sequence /\ u.status = t.status
      /\ u.outcome = t.outcome /\ u.consent = t.consent /\ u.mode = t.mode
      /\ u.party = t.party /\ u.pending = t.pending /\ u.noProgress = t.noProgress
      /\ u.accepted = t.accepted /\ u.phase = t.phase /\ u.reviewed = t.reviewed
      /\ u.offers = {} /\ u.when = when /\ u.authorized = t.authorized
      /\ u.history = t.history /\ u.services = t.services /\ u.staff = t.staff /\ u.name = t.name
  BY <1>0 DEF TalkRows
<1> HIDE DEF u
<1>5. Mentioned(t, u)
  BY <1>0, <1>4, DetailsMentioned
<1>6. u \in Drafts
  BY <1>3, <1>4 DEF Drafts
<1>7. when = t.when => Payload(u) = Payload(t)
  BY <1>4 DEF Payload
<1> QED
  BY <1>1, <1>4, <1>5, <1>6, <1>7

LEMMA ProofInvalidated ==
    ASSUME NEW before, NEW t \in Drafts
    PROVE  LET u == invalidateCarriedAvailabilityProof(before, t) IN
           /\ u \in Drafts /\ Mentioned(t, u)
           /\ Draft(u) = Draft(t) /\ Payload(u) = Payload(t)
<1> DEFINE w == invalidateCarriedAvailabilityProof(before, t)
           u == [t EXCEPT !.quote = NoQuote]
<1>0. t \in TalkRows
  BY DEF Drafts
<1>1. w = t \/ w = u
  BY DEF invalidateCarriedAvailabilityProof
<1>2. NoQuote \in [services : SUBSET MenuServices, when : Times, staff : {"any", "x"}]
  BY DEF NoQuote, Times
<1>3. u \in TalkRows
  BY ONLY <1>0, <1>2 DEF TalkRows
<1>4. /\ u.revision = t.revision /\ u.sequence = t.sequence /\ u.status = t.status
      /\ u.outcome = t.outcome /\ u.consent = t.consent /\ u.mode = t.mode
      /\ u.party = t.party /\ u.pending = t.pending /\ u.noProgress = t.noProgress
      /\ u.accepted = t.accepted /\ u.phase = t.phase /\ u.reviewed = t.reviewed
      /\ u.offers = t.offers /\ u.when = t.when /\ u.authorized = t.authorized
      /\ u.history = t.history /\ u.services = t.services /\ u.staff = t.staff /\ u.name = t.name
      /\ u.assigned = t.assigned
  BY <1>0 DEF TalkRows
<1> HIDE DEF u
<1>5. Mentioned(t, u)
  BY <1>0, <1>4, DetailsMentioned
<1>6. u \in Drafts
  BY <1>3, <1>4 DEF Drafts
<1>7. Draft(u) = Draft(t) /\ Payload(u) = Payload(t)
  BY <1>4 DEF Draft, Payload
<1> HIDE DEF w
<1>8. w \in Drafts /\ Mentioned(t, w) /\ Draft(w) = Draft(t) /\ Payload(w) = Payload(t)
  BY <1>1, <1>5, <1>6, <1>7, MentionedReflexive
<1> QED
  BY <1>8 DEF w

(* Advancing the revision: a review stands only of the draft it was of.    *)
Advanced(before, t, u) ==
    /\ u \in Drafts
    /\ u.sequence = t.sequence /\ u.status = t.status /\ u.outcome = t.outcome
    /\ u.noProgress = t.noProgress /\ u.pending = t.pending /\ u.party = t.party
    /\ u.consent = t.consent
    /\ u.consent # t.revision => u.consent # u.revision
    /\ Draft(u) = Draft(t) /\ Payload(u) = Payload(t) /\ u.when = t.when
    /\ Draft(t) # Draft(before) => ~ ReviewStands(u) /\ ~ u.accepted
    /\ Draft(t) = Draft(before) /\ ReviewStands(u) => ReviewStands(t) /\ u.mode = t.mode

LEMMA NextRevision ==
    ASSUME NEW r \in Nat, NEW c \in Int, 1 <= r, c <= r
    PROVE  r + 1 \in Nat /\ 1 <= r + 1 /\ 0 <= r + 1 /\ r + 1 # 0 /\ c <= r + 1 /\ c # r + 1
OBVIOUS

LEMMA AdvancedDraft ==
    ASSUME NEW before \in Drafts, NEW t \in Drafts, t.revision = before.revision
    PROVE  Advanced(before, t, advanceDraftRevision(before, t))
<1>0. t \in TalkRows /\ before \in TalkRows /\ 1 <= t.revision /\ t.consent <= t.revision
  BY DEF Drafts
<1>1. CASE Draft(before) = Draft(t)
  <2> DEFINE c == t.accepted /\ t.reviewed = t.revision /\ t.authorized = t.revision
             u == [t EXCEPT !.accepted = c]
  <2>1. advanceDraftRevision(before, t) = u
    BY <1>0, <1>1 DEF TalkRows, advanceDraftRevision, normalizedDialogState
  <2>2. c \in BOOLEAN /\ (c => t.accepted)
    OBVIOUS
  <2> HIDE DEF c
  <2>3. u \in TalkRows
    BY ONLY <1>0, <2>2 DEF TalkRows
  <2>4. /\ u.revision = t.revision /\ u.sequence = t.sequence /\ u.status = t.status
        /\ u.outcome = t.outcome /\ u.consent = t.consent /\ u.mode = t.mode
        /\ u.party = t.party /\ u.pending = t.pending /\ u.noProgress = t.noProgress
        /\ u.accepted = c /\ u.phase = t.phase /\ u.reviewed = t.reviewed
        /\ u.offers = t.offers /\ u.when = t.when /\ u.authorized = t.authorized
        /\ u.history = t.history /\ u.services = t.services /\ u.staff = t.staff /\ u.name = t.name
        /\ u.assigned = t.assigned
    BY <1>0 DEF TalkRows
  <2> HIDE DEF u
  <2>5. u \in Drafts
    BY <2>3, <2>4 DEF Drafts
  <2>6. Draft(u) = Draft(t) /\ Payload(u) = Payload(t)
    BY <2>4 DEF Draft, Payload
  <2>7. ReviewStands(u) => ReviewStands(t)
    BY <2>2, <2>4 DEF ReviewStands
  <2> QED
    BY <1>1, <2>1, <2>4, <2>5, <2>6, <2>7 DEF Advanced
<1>2. CASE Draft(before) # Draft(t)
  <2> DEFINE ph == IF t.phase = "review" THEN "drafting" ELSE t.phase
             n == before.revision + 1
             u == [t EXCEPT !.revision = n, !.accepted = FALSE, !.reviewed = 0,
                            !.authorized = 0, !.mode = "", !.authority = "", !.phase = ph]
  <2>1. advanceDraftRevision(before, t) = u
    BY <1>0, <1>2 DEF TalkRows, advanceDraftRevision
  <2>2. /\ ph \in {"open", "drafting", "clarifying", "review"} /\ n \in Nat
        /\ 0 \in Nat /\ "" \in ReviewModes /\ "" \in ReviewAuthorities
        /\ 1 <= n /\ 0 <= n /\ n # 0 /\ t.consent <= n /\ t.consent # n
    <3>1. /\ ph \in {"open", "drafting", "clarifying", "review"} /\ t.revision \in Nat
          /\ t.consent \in Int
      BY <1>0 DEF TalkRows
    <3>2. n = t.revision + 1 /\ 1 <= t.revision /\ t.consent <= t.revision
      BY <1>0
    <3>4. n \in Nat /\ 1 <= n /\ 0 <= n /\ n # 0 /\ t.consent <= n /\ t.consent # n
      BY <3>1, <3>2, NextRevision
    <3>3. "" \in ReviewModes /\ "" \in ReviewAuthorities
      BY DEF ReviewModes, ReviewAuthorities
    <3> HIDE DEF ph, n
    <3> QED
      BY <3>1, <3>3, <3>4
  <2> HIDE DEF ph, n
  <2>3. u \in TalkRows
    <3> DEFINE v == [t EXCEPT !.revision = n, !.accepted = FALSE, !.reviewed = 0]
    <3>1. v \in TalkRows
      BY ONLY <1>0, <2>2 DEF TalkRows
    <3>2. u = [v EXCEPT !.authorized = 0, !.mode = "", !.authority = "", !.phase = ph]
      BY <1>0 DEF TalkRows
    <3> HIDE DEF u, v
    <3> QED
      BY ONLY <2>2, <3>1, <3>2 DEF TalkRows
  <2>4. /\ u.revision = n /\ u.sequence = t.sequence /\ u.status = t.status
        /\ u.outcome = t.outcome /\ u.consent = t.consent
        /\ u.party = t.party /\ u.pending = t.pending /\ u.noProgress = t.noProgress
        /\ u.accepted = FALSE /\ u.reviewed = 0
        /\ u.offers = t.offers /\ u.when = t.when /\ u.authorized = 0
        /\ u.history = t.history /\ u.services = t.services /\ u.staff = t.staff /\ u.name = t.name
        /\ u.assigned = t.assigned
    BY <1>0 DEF TalkRows
  <2> HIDE DEF u
  <2>6. u \in Drafts
    BY <2>2, <2>3, <2>4 DEF Drafts
  <2>7. Draft(u) = Draft(t) /\ Payload(u) = Payload(t)
    BY <2>4 DEF Draft, Payload
  <2>8. ~ ReviewStands(u)
    BY <2>2, <2>4 DEF ReviewStands
  <2> QED
    BY <1>2, <2>1, <2>2, <2>4, <2>6, <2>7, <2>8 DEF Advanced
<1> QED
  BY <1>1, <1>2

-----------------------------------------------------------------------------
(* What a turn makes of its copy.                                          *)

LEMMA ConsultedDraft ==
    ASSUME policy \in Salons, NEW t \in Drafts
    PROVE  /\ Consulted(t) \in Drafts /\ Mentioned(t, Consulted(t))
           /\ Payload(Consulted(t)) = Payload(t) /\ Consulted(t).when = t.when
<1> DEFINE a == policy.authority
           o == policy.authority = "owner_manual"
           u == [t EXCEPT !.authority = a, !.requestOnly = o]
<1>0. t \in TalkRows
  BY DEF Drafts
<1>1. Consulted(t) = u
  BY DEF Consulted
<1>2. a \in ReviewAuthorities /\ o \in BOOLEAN
  BY DEF Salons, ReviewAuthorities
<1> HIDE DEF a, o
<1>3. u \in TalkRows
  BY ONLY <1>0, <1>2 DEF TalkRows
<1>4. /\ u.revision = t.revision /\ u.sequence = t.sequence /\ u.status = t.status
      /\ u.outcome = t.outcome /\ u.consent = t.consent /\ u.mode = t.mode
      /\ u.party = t.party /\ u.pending = t.pending /\ u.noProgress = t.noProgress
      /\ u.accepted = t.accepted /\ u.phase = t.phase /\ u.reviewed = t.reviewed
      /\ u.offers = t.offers /\ u.when = t.when /\ u.authorized = t.authorized
      /\ u.history = t.history /\ u.services = t.services /\ u.staff = t.staff /\ u.name = t.name
  BY <1>0 DEF TalkRows
<1> HIDE DEF u
<1>5. Mentioned(t, u)
  BY <1>0, <1>4, DetailsMentioned
<1>6. u \in Drafts
  BY <1>3, <1>4 DEF Drafts
<1>7. Payload(u) = Payload(t)
  BY <1>4 DEF Payload
<1> QED
  BY <1>1, <1>4, <1>5, <1>6, <1>7

LEMMA OfferedDraft ==
    ASSUME policy \in Salons, NEW t \in Drafts, NEW slots \in SUBSET OpenSlots
    PROVE  /\ Offered(t, slots) \in Drafts /\ Mentioned(t, Offered(t, slots))
           /\ Offered(t, slots).when = 0
           /\ RequestOnly(t) \in Drafts /\ Mentioned(t, RequestOnly(t))
           /\ Payload(RequestOnly(t)) = Payload(t)
           /\ [RequestOnly(t) EXCEPT !.when = 0] \in Drafts
           /\ Mentioned(t, [RequestOnly(t) EXCEPT !.when = 0])
           /\ [RequestOnly(t) EXCEPT !.when = 0].when = 0
<1> DEFINE c == Consulted(t)
           u == [c EXCEPT !.when = 0, !.quote = NoQuote, !.offers = slots]
           v == [c EXCEPT !.quote = NoQuote, !.offers = {}]
           w == [v EXCEPT !.when = 0]
<1>1. c \in Drafts /\ Mentioned(t, c) /\ Payload(c) = Payload(t)
  BY ConsultedDraft
<1>2. Offered(t, slots) = u /\ RequestOnly(t) = v
  BY DEF Offered, RequestOnly
<1> HIDE DEF c
<1>3. c \in TalkRows
  BY <1>1 DEF Drafts
<1>4. NoQuote \in [services : SUBSET MenuServices, when : Times, staff : {"any", "x"}] /\ 0 \in Times
  BY DEF NoQuote, Times
<1>5. u \in TalkRows
  BY ONLY <1>3, <1>4, slots \in SUBSET OpenSlots DEF TalkRows
<1>6. v \in TalkRows
  BY ONLY <1>3, <1>4 DEF TalkRows
<1>7. /\ u.revision = c.revision /\ u.sequence = c.sequence /\ u.status = c.status
      /\ u.outcome = c.outcome /\ u.consent = c.consent /\ u.mode = c.mode
      /\ u.party = c.party /\ u.pending = c.pending /\ u.noProgress = c.noProgress
      /\ u.accepted = c.accepted /\ u.phase = c.phase /\ u.reviewed = c.reviewed
      /\ u.when = 0 /\ u.authorized = c.authorized /\ u.history = c.history
  BY <1>3 DEF TalkRows
<1>8. /\ v.revision = c.revision /\ v.sequence = c.sequence /\ v.status = c.status
      /\ v.outcome = c.outcome /\ v.consent = c.consent /\ v.mode = c.mode
      /\ v.party = c.party /\ v.pending = c.pending /\ v.noProgress = c.noProgress
      /\ v.accepted = c.accepted /\ v.phase = c.phase /\ v.reviewed = c.reviewed
      /\ v.when = c.when /\ v.authorized = c.authorized /\ v.history = c.history
      /\ v.offers = {} /\ v.services = c.services /\ v.staff = c.staff /\ v.name = c.name
  BY <1>3 DEF TalkRows
<1> HIDE DEF u, v
<1>9. u \in Drafts
  BY <1>1, <1>5, <1>7 DEF Drafts
<1>10. v \in Drafts /\ Payload(v) = Payload(c)
  BY <1>1, <1>6, <1>8 DEF Drafts, Payload
<1>11. w \in TalkRows
  BY ONLY <1>6, <1>4 DEF TalkRows
<1>12. /\ w.revision = v.revision /\ w.sequence = v.sequence /\ w.status = v.status
       /\ w.outcome = v.outcome /\ w.consent = v.consent /\ w.mode = v.mode
       /\ w.party = v.party /\ w.pending = v.pending /\ w.noProgress = v.noProgress
       /\ w.accepted = v.accepted /\ w.phase = v.phase /\ w.reviewed = v.reviewed
       /\ w.when = 0 /\ w.authorized = v.authorized /\ w.history = v.history
  BY <1>6 DEF TalkRows
<1> HIDE DEF w
<1>13. w \in Drafts
  BY <1>10, <1>11, <1>12 DEF Drafts
<1>14. Mentioned(c, u) /\ Mentioned(c, v) /\ Mentioned(v, w)
  BY <1>3, <1>6, <1>7, <1>8, <1>12, DetailsMentioned
<1>15. Mentioned(t, u) /\ Mentioned(t, v) /\ Mentioned(t, w)
  BY <1>1, <1>14, MentionedTransitive
<1> QED
  BY <1>1, <1>2, <1>7, <1>9, <1>10, <1>12, <1>13, <1>15 DEF w

(* A copy that may be saved as the session, and one the turn may go on     *)
(* with: the services of a group are known before its draft is accepted.   *)
GoodCopy(t) ==
    /\ t \in Drafts /\ Open(t) /\ OpenParty(t) /\ Kept(t, heard)
    /\ t.sequence = talk.sequence
Going(t) == GoodCopy(t) /\ (t.party = "open" => ~ t.accepted)

LEMMA StaysGood ==
    ASSUME NEW t, GoodCopy(t), NEW u \in Drafts, Mentioned(t, u),
           u.when = 0 \/ Payload(u) = Payload(t)
    PROVE  GoodCopy(u) /\ (Going(t) => Going(u))
<1>1. Payload(u) = Payload(t) => u.when = t.when
  BY DEF Payload
<1>2. Kept(u, heard)
  BY <1>1 DEF GoodCopy, Kept, AsHeard, Mentioned, Carries
<1>3. Open(u) /\ OpenParty(u) /\ u.sequence = talk.sequence
  BY DEF GoodCopy, Open, OpenParty, Mentioned, Carries
<1> QED
  BY <1>2, <1>3 DEF GoodCopy, Going, Mentioned

LEMMA OffersGood ==
    ASSUME policy \in Salons, NEW t, GoodCopy(t)
    PROVE  /\ \A u \in offerAvailableSlots(t) : GoodCopy(u)
           /\ \A checked \in CheckedTime(t) : GoodCopy(checked.talk)
           /\ Going(t) => \A checked \in CheckedTime(t) : Going(checked.talk)
<1>0. t \in Drafts /\ t.when \in Times
  BY DEF GoodCopy, Drafts, TalkRows
<1>1. ASSUME NEW slots \in SUBSET OpenSlots
      PROVE  GoodCopy(Offered(t, slots)) /\ (Going(t) => Going(Offered(t, slots)))
  BY <1>0, OfferedDraft, StaysGood
<1>2. /\ GoodCopy(RequestOnly(t)) /\ (Going(t) => Going(RequestOnly(t)))
      /\ GoodCopy([RequestOnly(t) EXCEPT !.when = 0])
  BY <1>0, OfferedDraft, StaysGood
<1>3. LET u == applySelectedOfferedSlot(Consulted(t), t.when) IN GoodCopy(u) /\ (Going(t) => Going(u))
  <2> DEFINE c == Consulted(t)
             u == applySelectedOfferedSlot(c, t.when)
  <2>1. c \in Drafts /\ Mentioned(t, c) /\ Payload(c) = Payload(t) /\ c.when = t.when
    BY <1>0, ConsultedDraft
  <2> HIDE DEF c
  <2>2. u \in Drafts /\ Mentioned(c, u) /\ Payload(u) = Payload(c)
    BY <1>0, <2>1, SelectedSlotDraft
  <2> HIDE DEF u
  <2>3. Mentioned(t, u) /\ Payload(u) = Payload(t)
    BY <2>1, <2>2, MentionedTransitive
  <2>4. GoodCopy(u) /\ (Going(t) => Going(u))
    BY <2>2, <2>3, StaysGood
  <2> QED
    BY <2>4 DEF u, c
<1>4. \A u \in offerAvailableSlots(t) : GoodCopy(u)
  BY <1>1, <1>2 DEF offerAvailableSlots
<1>5. ASSUME NEW checked \in CheckedTime(t)
      PROVE  GoodCopy(checked.talk) /\ (Going(t) => Going(checked.talk))
  BY <1>1, <1>2, <1>3, <1>5 DEF CheckedTime
<1> QED
  BY <1>4, <1>5

LEMMA PlanMeans ==
    ASSUME NEW t \in Drafts, NEW cfg
    PROVE  LET plan == planNextConversationAction(t, cfg) IN
           /\ plan \in {"ask_missing_field", "execute_booking", "ask_review_authorization",
                        "read_final_review"}
           /\ plan = "execute_booking" =>
                ReviewStands(t) /\ t.accepted /\ t.when # 0 /\ t.mode = cfg.mode
           /\ plan = "ask_review_authorization" =>
                ReviewStands(t) /\ t.phase = "review" /\ t.mode = cfg.mode
<1> DEFINE n == normalizedDialogState(t)
           plan == planNextConversationAction(t, cfg)
<1>0. t \in TalkRows
  BY DEF Drafts
<1>1. /\ n.revision = t.revision /\ n.reviewed = t.reviewed /\ n.mode = t.mode
      /\ n.accepted => t.accepted
  BY <1>0 DEF normalizedDialogState, TalkRows
<1>2. missingBookingField(t) = "" => t.when # 0
  BY DEF missingBookingField
<1>3. CASE missingBookingField(t) # ""
  <2>1. plan = "ask_missing_field"
    BY <1>3 DEF planNextConversationAction
  <2> QED
    BY <2>1
<1>4. CASE missingBookingField(t) = "" /\ reviewAuthorizationCurrentForPolicy(n, cfg)
  <2>1. plan = "execute_booking"
    BY <1>4 DEF planNextConversationAction
  <2>2. ReviewStands(t) /\ t.accepted /\ t.mode = cfg.mode
    BY <1>1, <1>4 DEF reviewAuthorizationCurrentForPolicy, ReviewStands
  <2> QED
    BY <1>2, <1>4, <2>1, <2>2
<1>5. CASE missingBookingField(t) = "" /\ ~ reviewAuthorizationCurrentForPolicy(n, cfg)
  <2>1. \/ plan = "ask_review_authorization" /\ t.phase = "review" /\ t.reviewed = t.revision
             /\ t.mode = cfg.mode
        \/ plan = "read_final_review"
    BY <1>5 DEF planNextConversationAction
  <2> HIDE DEF plan
  <2>2. plan # "execute_booking" /\ plan \in {"ask_review_authorization", "read_final_review"}
    BY <2>1
  <2>3. plan = "ask_review_authorization" => t.phase = "review" /\ ReviewStands(t) /\ t.mode = cfg.mode
    BY <2>1 DEF ReviewStands
  <2> QED
    BY <2>2, <2>3 DEF plan
<1> QED
  BY <1>3, <1>4, <1>5

LEMMA AskedDraft ==
    ASSUME NEW t \in Drafts, NEW cfg, cfg.mode \in ReviewModes, cfg.authority \in ReviewAuthorities
    PROVE  /\ AskReview(t, cfg) \in Drafts
           /\ stampSchedulingReviewFence(AskReview(t, cfg), cfg) \in Drafts
           /\ t.phase = "review" /\ t.mode = cfg.mode =>
                /\ Acted(t, AskReview(t, cfg))
                /\ Acted(t, stampSchedulingReviewFence(AskReview(t, cfg), cfg))
           /\ \A u \in {AskReview(t, cfg), stampSchedulingReviewFence(AskReview(t, cfg), cfg)} :
                /\ u.party = t.party /\ u.when = t.when /\ Payload(u) = Payload(t)
                /\ u.accepted = FALSE /\ u.pending = NoPending
<1> DEFINE u == [t EXCEPT !.phase = "review", !.pending = NoPending, !.accepted = FALSE,
                          !.authorized = 0, !.prompt = "final_review_retry"]
           a == IF u.authority = "" THEN cfg.authority ELSE u.authority
           m == cfg.mode
           w == [u EXCEPT !.mode = m, !.authority = a]
<1>0. t \in TalkRows
  BY DEF Drafts
<1>1. AskReview(t, cfg) = u
  BY DEF AskReview
<1>2. NoPending \in Pendings /\ NoPending.kind = "none" /\ "final_review_retry" \in Prompts
  BY DEF NoPending, Pendings, Times, Names, ActKinds, Prompts
<1>3. u \in TalkRows
  BY ONLY <1>0, <1>2 DEF TalkRows
<1>4. /\ u.revision = t.revision /\ u.sequence = t.sequence /\ u.status = t.status
      /\ u.outcome = t.outcome /\ u.consent = t.consent /\ u.mode = t.mode
      /\ u.party = t.party /\ u.pending = NoPending /\ u.noProgress = t.noProgress
      /\ u.accepted = FALSE /\ u.phase = "review" /\ u.reviewed = t.reviewed
      /\ u.offers = t.offers /\ u.when = t.when /\ u.authorized = 0
      /\ u.history = t.history /\ u.services = t.services /\ u.staff = t.staff /\ u.name = t.name
  BY <1>0 DEF TalkRows
<1>5. stampSchedulingReviewFence(u, cfg) = w
  BY <1>3 DEF TalkRows, stampSchedulingReviewFence
<1> HIDE DEF u
<1>6. a \in ReviewAuthorities /\ m \in ReviewModes
  BY <1>3 DEF TalkRows
<1>7. m = cfg.mode
  OBVIOUS
<1> HIDE DEF a, m
<1>8. w \in TalkRows
  BY ONLY <1>3, <1>6 DEF TalkRows
<1>9. /\ w.revision = u.revision /\ w.sequence = u.sequence /\ w.status = u.status
      /\ w.outcome = u.outcome /\ w.consent = u.consent /\ w.mode = m
      /\ w.party = u.party /\ w.pending = u.pending /\ w.noProgress = u.noProgress
      /\ w.accepted = u.accepted /\ w.phase = u.phase /\ w.reviewed = u.reviewed
      /\ w.offers = u.offers /\ w.when = u.when /\ w.authorized = u.authorized
      /\ w.history = u.history /\ w.services = u.services /\ w.staff = u.staff /\ w.name = u.name
  BY <1>3 DEF TalkRows
<1> HIDE DEF w
<1>10. u \in Drafts
  BY <1>0, <1>3, <1>4 DEF TalkRows, Drafts
<1>11. w \in Drafts
  BY <1>8, <1>9, <1>10 DEF Drafts
<1>12. t.phase = "review" /\ t.mode = cfg.mode => Acted(t, u) /\ Acted(t, w)
  BY <1>2, <1>4, <1>7, <1>9, <1>10, <1>11 DEF Acted, Carries, ReviewStands
<1>13. Payload(u) = Payload(t) /\ Payload(w) = Payload(t)
  BY <1>4, <1>9 DEF Payload
<1> QED
  BY <1>1, <1>4, <1>5, <1>9, <1>10, <1>11, <1>12, <1>13

LEMMA ReadDraft ==
    ASSUME NEW t \in Drafts, NEW cfg, cfg.mode \in ReviewModes, cfg.authority \in ReviewAuthorities
    PROVE  LET u == ReadReview(t, cfg) IN
           /\ u \in Drafts /\ u.status = t.status /\ u.outcome = t.outcome
           /\ u.sequence = t.sequence /\ u.revision = t.revision /\ u.consent = t.consent
           /\ u.party = t.party /\ u.noProgress = 0 /\ u.mode = cfg.mode
           /\ u.pending = NoPending /\ Payload(u) = Payload(t)
<1> DEFINE r == t.revision
           u == [t EXCEPT !.phase = "review", !.pending = NoPending, !.accepted = FALSE,
                          !.reviewed = r, !.authorized = 0, !.noProgress = 0,
                          !.prompt = "final_review"]
           a == IF u.authority = "" THEN cfg.authority ELSE u.authority
           m == cfg.mode
           w == [u EXCEPT !.mode = m, !.authority = a]
<1>0. t \in TalkRows /\ r \in Nat /\ r = t.revision
  BY DEF Drafts, TalkRows
<1>2. NoPending \in Pendings /\ NoPending.kind = "none" /\ "final_review" \in Prompts /\ 0 \in 0 .. 3
  BY DEF NoPending, Pendings, Times, Names, ActKinds, Prompts
<1>1. ReadReview(t, cfg) = stampSchedulingReviewFence(u, cfg)
  BY DEF ReadReview
<1> HIDE DEF r
<1>3. u \in TalkRows
  <2> DEFINE v == [t EXCEPT !.phase = "review", !.pending = NoPending, !.accepted = FALSE]
  <2>1. v \in TalkRows
    BY ONLY <1>0, <1>2 DEF TalkRows
  <2>2. u = [v EXCEPT !.reviewed = r, !.authorized = 0, !.noProgress = 0, !.prompt = "final_review"]
    BY <1>0 DEF TalkRows
  <2> HIDE DEF u, v
  <2> QED
    BY ONLY <1>0, <1>2, <2>1, <2>2 DEF TalkRows
<1>4. /\ u.revision = t.revision /\ u.sequence = t.sequence /\ u.status = t.status
      /\ u.outcome = t.outcome /\ u.consent = t.consent
      /\ u.party = t.party /\ u.pending = NoPending /\ u.noProgress = 0
      /\ u.accepted = FALSE /\ u.phase = "review" /\ u.reviewed = r
      /\ u.offers = t.offers /\ u.when = t.when /\ u.authorized = 0
      /\ u.history = t.history /\ u.services = t.services /\ u.staff = t.staff /\ u.name = t.name
  BY <1>0 DEF TalkRows
<1>5. stampSchedulingReviewFence(u, cfg) = w
  BY <1>3 DEF TalkRows, stampSchedulingReviewFence
<1> HIDE DEF u
<1>6. a \in ReviewAuthorities /\ m \in ReviewModes
  BY <1>3 DEF TalkRows
<1>7. m = cfg.mode
  OBVIOUS
<1> HIDE DEF a, m
<1>8. w \in TalkRows
  BY ONLY <1>3, <1>6 DEF TalkRows
<1>9. /\ w.revision = u.revision /\ w.sequence = u.sequence /\ w.status = u.status
      /\ w.outcome = u.outcome /\ w.consent = u.consent /\ w.mode = m
      /\ w.party = u.party /\ w.pending = u.pending /\ w.noProgress = u.noProgress
      /\ w.accepted = u.accepted /\ w.phase = u.phase /\ w.reviewed = u.reviewed
      /\ w.offers = u.offers /\ w.when = u.when /\ w.authorized = u.authorized
      /\ w.history = u.history /\ w.services = u.services /\ w.staff = u.staff /\ w.name = u.name
  BY <1>3 DEF TalkRows
<1> HIDE DEF w
<1>10. 0 <= r /\ r <= r
  BY <1>0
<1>11. u \in Drafts
  BY <1>0, <1>3, <1>4, <1>10 DEF Drafts
<1>12. w \in Drafts
  BY <1>8, <1>9, <1>11 DEF Drafts
<1>13. Payload(w) = Payload(t)
  BY <1>4, <1>9 DEF Payload
<1> QED
  BY <1>1, <1>4, <1>5, <1>7, <1>9, <1>12, <1>13

LEMMA HandoffDraft ==
    ASSUME NEW t \in Drafts, NEW outcome \in {"handoff_requested", "ai_disabled"}
    PROVE  LET u == [t EXCEPT !.status = "handoff", !.outcome = outcome] IN
           /\ u \in Drafts /\ u.sequence = t.sequence
           /\ u.status = "handoff" /\ u.outcome = outcome
<1> DEFINE u == [t EXCEPT !.status = "handoff", !.outcome = outcome]
<1>0. t \in TalkRows /\ outcome \in TalkOutcomes
  BY DEF Drafts, TalkOutcomes
<1>1. u \in TalkRows
  BY ONLY <1>0 DEF TalkRows
<1>2. /\ u.revision = t.revision /\ u.sequence = t.sequence /\ u.status = "handoff"
      /\ u.outcome = outcome /\ u.consent = t.consent /\ u.reviewed = t.reviewed
      /\ u.offers = t.offers /\ u.when = t.when /\ u.authorized = t.authorized
      /\ u.history = t.history
  BY <1>0 DEF TalkRows
<1> HIDE DEF u
<1>3. u \in Drafts
  BY <1>1, <1>2 DEF Drafts
<1> QED
  BY <1>2, <1>3 DEF u

LEMMA ConsentDraft ==
    ASSUME NEW t \in Drafts, NEW c \in Int, c <= t.revision
    PROVE  LET u == [t EXCEPT !.consent = c] IN
           /\ u \in Drafts /\ u.sequence = t.sequence /\ u.revision = t.revision
           /\ u.status = t.status /\ u.outcome = t.outcome /\ u.noProgress = t.noProgress
           /\ u.party = t.party /\ u.accepted = t.accepted /\ u.when = t.when
           /\ ReviewStands(u) = ReviewStands(t) /\ u.consent = c /\ u.mode = t.mode
           /\ Payload(u) = Payload(t) /\ u.pending = t.pending
<1> DEFINE u == [t EXCEPT !.consent = c]
<1>0. t \in TalkRows
  BY DEF Drafts
<1>1. u \in TalkRows
  BY ONLY <1>0, c \in Int DEF TalkRows
<1>2. /\ u.revision = t.revision /\ u.sequence = t.sequence /\ u.status = t.status
      /\ u.outcome = t.outcome /\ u.consent = c /\ u.mode = t.mode
      /\ u.party = t.party /\ u.pending = t.pending /\ u.noProgress = t.noProgress
      /\ u.accepted = t.accepted /\ u.phase = t.phase /\ u.reviewed = t.reviewed
      /\ u.offers = t.offers /\ u.when = t.when /\ u.authorized = t.authorized
      /\ u.history = t.history /\ u.services = t.services /\ u.staff = t.staff /\ u.name = t.name
  BY <1>0 DEF TalkRows
<1> HIDE DEF u
<1>3. u \in Drafts
  BY <1>1, <1>2 DEF Drafts
<1>4. Payload(u) = Payload(t) /\ (ReviewStands(u) = ReviewStands(t))
  BY <1>2 DEF Payload, ReviewStands
<1> QED
  BY <1>2, <1>3, <1>4 DEF u

-----------------------------------------------------------------------------
(* Ends of a turn.                                                         *)

LEMMA NewTalkDraft ==
    /\ NewTalk \in Drafts /\ IdleTurn \in Turns /\ ~ ReviewStands(NewTalk)
    /\ NewTalk.status = "active" /\ NewTalk.outcome = "collecting" /\ NewTalk.noProgress = 0
    /\ NewTalk.party = "none" /\ NewTalk.sequence = 0 /\ Payload(NewTalk) \in Payloads
    /\ IdleTurn.stage = "idle"
<1>1. /\ NoQuote \in [services : SUBSET MenuServices, when : Times, staff : {"any", "x"}]
      /\ NoPending \in Pendings /\ 0 \in Times /\ NoName \in Names
      /\ "collecting" \in TalkOutcomes /\ "" \in ReviewModes /\ "" \in ReviewAuthorities
      /\ "" \in Prompts /\ <<>> \in Seq(SUBSET MenuServices) /\ 0 \in 0 .. 3
  BY DEF NoQuote, NoPending, Pendings, Times, Names, ActKinds, TalkOutcomes, ReviewModes,
         ReviewAuthorities, Prompts
<1>2. NewTalk \in TalkRows
  <2>1. /\ "active" \in {"active", "completed", "handoff"} /\ "any" \in {"any", "x"}
        /\ "none" \in {"none", "open", "whole"} /\ "open" \in {"open", "drafting", "clarifying", "review"}
        /\ 0 \in Nat /\ 1 \in Nat /\ 0 \in Int /\ FALSE \in BOOLEAN
        /\ {} \in SUBSET MenuServices /\ {} \in SUBSET OpenSlots
    OBVIOUS
  <2>2. NewTalk \in TalkRows
    BY ONLY <1>1, <2>1 DEF NewTalk, TalkRows
  <2> QED
    BY <2>2
<1>3. /\ NewTalk.revision = 1 /\ NewTalk.reviewed = 0 /\ NewTalk.authorized = 0
      /\ NewTalk.consent = 0 /\ NewTalk.offers = {} /\ NewTalk.history = <<>>
      /\ NewTalk.status = "active" /\ NewTalk.outcome = "collecting" /\ NewTalk.noProgress = 0
      /\ NewTalk.party = "none" /\ NewTalk.sequence = 0
      /\ NewTalk.services = {} /\ NewTalk.when = 0 /\ NewTalk.staff = "any" /\ NewTalk.name = NoName
  BY DEF NewTalk
<1>4. Len(<<>>) <= HistoryLimit
  BY TalkBounds, EmptySeq
<1>5. NewTalk \in Drafts /\ ~ ReviewStands(NewTalk)
  BY <1>2, <1>3, <1>4 DEF Drafts, ReviewStands
<1>6. Payload(NewTalk) \in Payloads
  BY <1>1, <1>3 DEF Payload, Payloads
<1>7. IdleTurn \in Turns /\ IdleTurn.stage = "idle"
  BY <1>1, <1>2 DEF IdleTurn, Turns
<1> QED
  BY <1>3, <1>5, <1>6, <1>7

LEMMA BudgetBounds ==
    ASSUME TalkInv, talkTurn.stage # "idle"
    PROVE  /\ talk.sequence \in Nat /\ talkBudget.turns \in Nat
           /\ talk.sequence + 1 + talkBudget.turns <= MaxTalkTurns
<1>1. talk.sequence \in Nat /\ talkBudget.turns \in Nat
  BY TalkBounds DEF TalkInv, TalkRowsOK, Drafts, TalkRows, TalkBudgets
<1>2. talk.sequence + talkBudget.turns + 1 <= MaxTalkTurns
  BY DEF TalkInv, BudgetFits
<1> QED
  BY <1>1, <1>2, TalkBounds

(* What a turn may save: the session as it goes on or as it ended.         *)
SaveFits(t) ==
    /\ t \in Drafts
    /\ t.status = "active" => Open(t) /\ OpenParty(t) /\ Kept(t, heard)
    /\ Told(t, operations) /\ Ops(operations, t)
    /\ t.sequence \in {talk.sequence, talk.sequence + 1}

LEMMA SaySaves ==
    ASSUME TalkInv, talkTurn.stage # "idle", NEW t, SaveFits(t), Say(t)
    PROVE  TalkInv'
<1>1. /\ talk' = t /\ talkTurn' = IdleTurn /\ policy' = policy /\ operations' = operations
      /\ heard' = heard /\ talkBudget' = talkBudget
  BY DEF Say
<1>2. talkTurn'.stage = "idle" /\ talkTurn' \in Turns
  BY <1>1, NewTalkDraft
<1>3. TalkRowsOK'
  BY <1>1, <1>2 DEF TalkInv, TalkRowsOK, SaveFits
<1>4. SavedFits'
  BY <1>1 DEF SavedFits, SaveFits
<1>5. TurnFits'
  BY <1>2 DEF TurnFits
<1>6. OperationsFit'
  BY <1>1 DEF TalkInv, OperationsFit, SaveFits
<1>7. BudgetFits'
  <2>1. talk' = t /\ talkBudget' = talkBudget /\ talkTurn'.stage = "idle"
    BY <1>1, <1>2
  <2>2. t.sequence \in {talk.sequence, talk.sequence + 1}
    BY DEF SaveFits
  <2>3. t.sequence + talkBudget.turns + 0 <= MaxTalkTurns
    BY ONLY <2>2, BudgetBounds, TalkBounds, TalkInv, talkTurn.stage # "idle"
  <2> QED
    BY <2>1, <2>3 DEF BudgetFits
<1> QED
  BY <1>3, <1>4, <1>5, <1>6, <1>7 DEF TalkInv

LEMMA GoodSaves ==
    ASSUME TalkInv, NEW t, GoodCopy(t)
    PROVE  SaveFits(t)
<1>1. t.outcome = "collecting"
  BY DEF GoodCopy, Open
<1>2. Told(t, operations)
  BY <1>1 DEF Told
<1>3. Ops(operations, t)
  BY DEF GoodCopy, TalkInv, OperationsFit, Ops, OperationKey
<1> QED
  BY <1>2, <1>3 DEF GoodCopy, SaveFits

LEMMA HandoffSaves ==
    ASSUME TalkInv, talkTurn.stage # "idle", NEW t \in Drafts, t.sequence = talk.sequence,
           NEW outcome \in {"handoff_requested", "ai_disabled"}, saveHandoffTurn(t, outcome)
    PROVE  TalkInv'
<1> DEFINE u == [t EXCEPT !.status = "handoff", !.outcome = outcome]
<1>1. u \in Drafts /\ u.sequence = t.sequence /\ u.status = "handoff" /\ u.outcome = outcome
  BY HandoffDraft
<1>2. Say(u)
  BY DEF saveHandoffTurn
<1> HIDE DEF u
<1>3. Told(u, operations)
  BY <1>1 DEF Told
<1>4. Ops(operations, u)
  BY <1>1 DEF TalkInv, OperationsFit, Ops, OperationKey
<1>5. SaveFits(u)
  BY <1>1, <1>3, <1>4 DEF SaveFits
<1> QED
  BY <1>2, <1>5, SaySaves

LEMMA UnrevisedSaves ==
    ASSUME TalkInv, talkTurn.stage # "idle", NEW t \in Drafts, Open(t), OpenParty(t),
           t.sequence = talk.sequence, ReviewStands(t) => ReviewStands(talk) /\ t.mode = talk.mode,
           SayUnrevised(t)
    PROVE  TalkInv'
<1> DEFINE b == heard.aside \/ (ReviewStands(t) /\ Payload(t) # Payload(talk))
<1>0. heard \in Heards /\ b \in BOOLEAN
  BY DEF TalkInv, TalkRowsOK
<1>1. /\ talk' = t /\ talkTurn' = IdleTurn /\ policy' = policy /\ operations' = operations
      /\ heard' = [heard EXCEPT !.aside = b] /\ talkBudget' = talkBudget
  BY <1>0 DEF Heards, SayUnrevised
<1>2. talkTurn'.stage = "idle" /\ talkTurn' \in Turns
  BY <1>1, NewTalkDraft
<1>3. heard' \in Heards /\ heard'.payload = heard.payload /\ heard'.mode = heard.mode /\ heard'.aside = b
  BY <1>0, <1>1 DEF Heards
<1>4. TalkRowsOK'
  BY <1>1, <1>2, <1>3 DEF TalkInv, TalkRowsOK
<1>5. talk.status = "active"
  BY DEF TalkInv, TurnFits
<1>6. Kept(talk, heard)
  BY <1>5 DEF TalkInv, SavedFits
<1>7. Kept(t, heard')
  <2> SUFFICES ASSUME ReviewStands(t), t.when # 0, t.party # "open"
               PROVE  AsHeard(t, heard')
    BY DEF Kept
  <2>1. CASE Payload(t) # Payload(talk)
    BY <1>3, <2>1 DEF AsHeard
  <2>2. CASE Payload(t) = Payload(talk)
    BY <1>3, <1>6, <2>2 DEF Payload, Kept, b, AsHeard
  <2> QED
    BY <2>1, <2>2
<1>8. Told(t, operations) /\ Ops(operations, t)
  BY DEF Told, Open, TalkInv, OperationsFit, Ops, OperationKey
<1>9. SavedFits'
  BY <1>1, <1>7, <1>8 DEF SavedFits
<1>10. TurnFits'
  BY <1>2 DEF TurnFits
<1>11. OperationsFit'
  BY <1>1, <1>8 DEF TalkInv, OperationsFit
<1>12. BudgetFits'
  <2>1. t.sequence + talkBudget.turns + 0 <= MaxTalkTurns
    BY ONLY t.sequence = talk.sequence, BudgetBounds, TalkBounds, TalkInv, talkTurn.stage # "idle"
  <2> QED
    BY <1>1, <1>2, <2>1 DEF BudgetFits
<1> QED
  BY <1>4, <1>9, <1>10, <1>11, <1>12 DEF TalkInv

LEMMA ReviewSaves ==
    ASSUME TalkInv, talkTurn.stage # "idle", NEW t, t \in Drafts, Open(t),
           t.party = "open" => t.consent # t.revision, t.sequence = talk.sequence,
           SayReview(t, talkTurn.cfg)
    PROVE  TalkInv'
<1> DEFINE cfg == talkTurn.cfg
           u == ReadReview(t, cfg)
           h == [payload |-> Payload(t), mode |-> cfg.mode, aside |-> FALSE]
<1>0. cfg.mode \in ReviewModes /\ cfg.authority \in ReviewAuthorities
  BY DEF TalkInv, TalkRowsOK, Turns
<1>1. /\ talk' = u /\ heard' = h /\ talkTurn' = IdleTurn /\ policy' = policy
      /\ operations' = operations /\ talkBudget' = talkBudget
  BY DEF SayReview
<1>2. talkTurn'.stage = "idle" /\ talkTurn' \in Turns
  BY <1>1, NewTalkDraft
<1>3. /\ u \in Drafts /\ u.status = t.status /\ u.outcome = t.outcome
      /\ u.sequence = t.sequence /\ u.revision = t.revision /\ u.consent = t.consent
      /\ u.party = t.party /\ u.noProgress = 0 /\ u.mode = cfg.mode
      /\ u.pending = NoPending /\ Payload(u) = Payload(t)
  BY <1>0, ReadDraft
<1>4. Payload(t) \in Payloads
  BY DEF Drafts, TalkRows, Payload, Payloads
<1>5. h \in Heards
  BY <1>0, <1>4 DEF Heards
<1>6. AsHeard(u, h)
  BY <1>3 DEF AsHeard
<1> HIDE DEF u, h, cfg
<1>7. Open(u) /\ OpenParty(u)
  BY <1>3 DEF Open, OpenParty, NoPending
<1>8. Kept(u, h)
  BY <1>6 DEF Kept
<1>9. Told(u, operations) /\ Ops(operations, u)
  BY <1>3, <1>7 DEF Told, Open, TalkInv, OperationsFit, Ops, OperationKey
<1>10. TalkRowsOK'
  BY <1>1, <1>2, <1>3, <1>5 DEF TalkInv, TalkRowsOK
<1>11. SavedFits'
  BY <1>1, <1>7, <1>8, <1>9 DEF SavedFits
<1>12. TurnFits'
  BY <1>2 DEF TurnFits
<1>13. OperationsFit'
  BY <1>1, <1>9 DEF TalkInv, OperationsFit
<1>14. BudgetFits'
  <2>0. u.sequence = talk.sequence
    BY <1>3
  <2>1. u.sequence + talkBudget.turns + 0 <= MaxTalkTurns
    BY ONLY <2>0, BudgetBounds, TalkBounds, TalkInv, talkTurn.stage # "idle"
  <2> QED
    BY <1>1, <1>2, <2>1 DEF BudgetFits
<1> QED
  BY <1>10, <1>11, <1>12, <1>13, <1>14 DEF TalkInv

-----------------------------------------------------------------------------
(* The roads from a draft to the end of a turn.                            *)

LEMMA ConfigTyped ==
    ASSUME TalkInv
    PROVE  /\ talkTurn.cfg.mode \in ReviewModes /\ talkTurn.cfg.authority \in ReviewAuthorities
           /\ policy \in Salons
BY TalkBounds DEF TalkInv, TalkRowsOK, Turns

LEMMA GoodSay ==
    ASSUME TalkInv, talkTurn.stage # "idle", NEW t, GoodCopy(t), Say(t)
    PROVE  TalkInv'
BY GoodSaves, SaySaves

LEMMA GoodHandoff ==
    ASSUME TalkInv, talkTurn.stage # "idle", NEW t, GoodCopy(t),
           NEW outcome \in {"handoff_requested", "ai_disabled"}, saveHandoffTurn(t, outcome)
    PROVE  TalkInv'
BY HandoffSaves DEF GoodCopy

LEMMA BookingStage ==
    ASSUME TalkInv, talkTurn.stage # "idle", NEW t \in Drafts, Open(t), t.sequence = talk.sequence,
           t.party # "open", AsHeard(t, heard), t.mode = talkTurn.cfg.mode,
           NEW stage \in {"booking", "executing"}, NEW authority \in ReviewAuthorities,
           talkTurn' = [talkTurn EXCEPT !.stage = stage, !.talk = t, !.authority = authority],
           UNCHANGED <<talk, policy, operations, heard, talkBudget>>
    PROVE  TalkInv'
<1>0. talkTurn \in Turns /\ t \in TalkRows
  BY DEF TalkInv, TalkRowsOK, Drafts
<1>1. /\ talkTurn' \in Turns /\ talkTurn'.stage = stage /\ talkTurn'.talk = t
      /\ talkTurn'.cfg = talkTurn.cfg
  BY <1>0 DEF Turns
<1>2. TalkRowsOK' /\ SavedFits' /\ OperationsFit'
  BY <1>1 DEF TalkInv, TalkRowsOK, SavedFits, OperationsFit, Ops, Told, OperationKey
<1>3. TurnFits'
  BY <1>1 DEF TalkInv, TurnFits
<1>4. BudgetFits'
  BY <1>1 DEF TalkInv, BudgetFits
<1> QED
  BY <1>2, <1>3, <1>4 DEF TalkInv

LEMMA BookingGoesOn ==
    ASSUME TalkInv, talkTurn.stage # "idle", NEW t \in Drafts, Open(t), t.sequence = talk.sequence,
           talkTurn.cfg.mode # "disabled" =>
             /\ t.party # "open" /\ AsHeard(t, heard) /\ t.mode = talkTurn.cfg.mode,
           tryBooking(t, talkTurn.cfg)
    PROVE  TalkInv'
<1>1. CASE talkTurn.cfg.mode = "disabled"
  BY <1>1, HandoffSaves DEF tryBooking
<1>2. CASE talkTurn.cfg.mode # "disabled"
  <2>1. /\ talkTurn' = [talkTurn EXCEPT !.stage = "booking", !.talk = t]
        /\ UNCHANGED <<talk, policy, operations, heard, talkBudget>>
    BY <1>2 DEF tryBooking
  <2>2. talkTurn \in Turns
    BY DEF TalkInv, TalkRowsOK
  <2>3. talkTurn.authority \in ReviewAuthorities
    BY <2>2 DEF Turns
  <2>4. talkTurn' = [talkTurn EXCEPT !.stage = "booking", !.talk = t,
                                     !.authority = talkTurn.authority]
    BY <2>1, <2>2 DEF Turns
  <2> QED
    BY <1>2, <2>1, <2>3, <2>4, BookingStage
<1> QED
  BY <1>1, <1>2

(* An authorized draft is the one that was heard.                          *)
LEMMA PlannedAsHeard ==
    ASSUME NEW t, Going(t), NEW cfg,
           planNextConversationAction(t, cfg) = "execute_booking"
    PROVE  t.party # "open" /\ AsHeard(t, heard) /\ t.mode = cfg.mode /\ t.accepted
<1>1. t \in Drafts /\ Kept(t, heard) /\ (t.party = "open" => ~ t.accepted)
  BY DEF Going, GoodCopy
<1>2. ReviewStands(t) /\ t.accepted /\ t.when # 0 /\ t.mode = cfg.mode
  BY <1>1, PlanMeans
<1> QED
  BY <1>1, <1>2 DEF Kept

LEMMA AskedGood ==
    ASSUME NEW t, GoodCopy(t), NEW cfg, cfg.mode \in ReviewModes, cfg.authority \in ReviewAuthorities,
           planNextConversationAction(t, cfg) = "ask_review_authorization"
    PROVE  /\ GoodCopy(AskReview(t, cfg))
           /\ GoodCopy(stampSchedulingReviewFence(AskReview(t, cfg), cfg))
<1>1. t \in Drafts
  BY DEF GoodCopy
<1>2. ReviewStands(t) /\ t.phase = "review" /\ t.mode = cfg.mode
  BY <1>1, PlanMeans
<1>3. ASSUME NEW u \in {AskReview(t, cfg), stampSchedulingReviewFence(AskReview(t, cfg), cfg)}
      PROVE  GoodCopy(u)
  <2>1. /\ Acted(t, u) /\ u \in Drafts /\ u.party = t.party /\ u.when = t.when
        /\ Payload(u) = Payload(t) /\ u.accepted = FALSE /\ u.pending = NoPending
    BY <1>1, <1>2, <1>3, AskedDraft
  <2>2. u.pending.kind = "none"
    BY <2>1 DEF NoPending
  <2>3. t.revision = u.revision /\ t.consent = u.consent /\ u.sequence = t.sequence
        /\ u.status = t.status /\ u.outcome = t.outcome
        /\ (ReviewStands(u) => ReviewStands(t) /\ u.mode = t.mode)
        /\ (t.noProgress <= 2 => u.noProgress <= 2)
    BY <2>1 DEF Acted, Carries
  <2> HIDE <1>3
  <2>4. Open(u) /\ OpenParty(u)
    BY <2>1, <2>2, <2>3 DEF GoodCopy, Open, OpenParty
  <2>5. Kept(u, heard)
    BY <2>1, <2>3 DEF GoodCopy, Kept, AsHeard
  <2> QED
    BY <2>1, <2>3, <2>4, <2>5 DEF GoodCopy
<1> QED
  BY <1>3

LEMMA ReadSaves ==
    ASSUME TalkInv, talkTurn.stage # "idle", NEW t, GoodCopy(t), SayReview(t, talkTurn.cfg)
    PROVE  TalkInv'
BY ReviewSaves DEF GoodCopy, OpenParty

LEMMA ConsentAsked ==
    ASSUME TalkInv, talkTurn.stage # "idle", NEW t, GoodCopy(t), t.party # "open", AskConsent(t)
    PROVE  TalkInv'
<1> DEFINE u == [t EXCEPT !.consent = t.revision]
<1>1. t \in Drafts /\ t.revision \in Int /\ t.revision <= t.revision
  BY DEF GoodCopy, Drafts, TalkRows
<1>2. /\ u \in Drafts /\ u.sequence = t.sequence /\ u.status = t.status /\ u.outcome = t.outcome
      /\ u.noProgress = t.noProgress /\ u.party = t.party /\ u.when = t.when
      /\ ReviewStands(u) = ReviewStands(t) /\ u.mode = t.mode /\ Payload(u) = Payload(t)
  BY <1>1, ConsentDraft
<1>3. Say(u)
  BY DEF AskConsent
<1> HIDE DEF u
<1>4. GoodCopy(u)
  BY <1>2 DEF GoodCopy, Open, OpenParty, Kept, AsHeard
<1> QED
  BY <1>3, <1>4, GoodSay

LEMMA ContinueSaves ==
    ASSUME TalkInv, talkTurn.stage # "idle", NEW t, Going(t),
           continueAfterDraftReady(t, talkTurn.cfg)
    PROVE  TalkInv'
<1> DEFINE plan == planNextConversationAction(t, talkTurn.cfg)
<1>1. GoodCopy(t) /\ t \in Drafts /\ Open(t) /\ t.sequence = talk.sequence
  BY DEF Going, GoodCopy
<1>2. plan \in {"ask_missing_field", "execute_booking", "ask_review_authorization",
                "read_final_review"}
  BY <1>1, PlanMeans
<1> HIDE DEF plan
<1>3. CASE plan = "ask_missing_field"
  BY <1>1, <1>3, GoodSay DEF continueAfterDraftReady, plan
<1>4. CASE plan = "ask_review_authorization"
  BY <1>1, <1>4, ConfigTyped, AskedGood, GoodSay DEF continueAfterDraftReady, plan
<1>5. CASE plan = "read_final_review"
  BY <1>1, <1>5, ReadSaves DEF continueAfterDraftReady, plan
<1>6. CASE plan = "execute_booking"
  BY <1>1, <1>6, PlannedAsHeard, ConsentAsked, BookingGoesOn DEF continueAfterDraftReady, plan
<1> QED
  BY <1>2, <1>3, <1>4, <1>5, <1>6

LEMMA ResumeSaves ==
    ASSUME TalkInv, talkTurn.stage # "idle", NEW t, GoodCopy(t), Resume(t, talkTurn.cfg)
    PROVE  TalkInv'
<1> DEFINE plan == planNextConversationAction(t, talkTurn.cfg)
<1>1. \/ plan = "read_final_review" /\ SayReview(t, talkTurn.cfg)
      \/ plan = "ask_review_authorization" /\ Say(AskReview(t, talkTurn.cfg))
      \/ Say(t)
  BY DEF Resume
<1> HIDE DEF plan
<1>2. CASE plan = "read_final_review" /\ SayReview(t, talkTurn.cfg)
  BY <1>2, ReadSaves
<1>3. CASE plan = "ask_review_authorization" /\ Say(AskReview(t, talkTurn.cfg))
  BY <1>3, ConfigTyped, AskedGood, GoodSay DEF plan
<1>4. CASE Say(t)
  BY <1>4, GoodSay
<1> QED
  BY <1>1, <1>2, <1>3, <1>4

LEMMA SettleSaves ==
    ASSUME TalkInv, talkTurn.stage # "idle", NEW t, Going(t), NEW before, NEW selected,
           SettleTime(before, t, talkTurn.cfg, selected)
    PROVE  TalkInv'
<1>1. \/ saveHandoffTurn(t, "handoff_requested")
      \/ \E checked \in CheckedTime(t) : continueAfterDraftReady(checked.talk, talkTurn.cfg)
      \/ \E checked \in CheckedTime(t) : Say(checked.talk)
      \/ Say(t)
      \/ \E offered \in offerAvailableSlots(t) : Say(offered)
      \/ continueAfterDraftReady(t, talkTurn.cfg)
  BY DEF SettleTime
<1>2. /\ GoodCopy(t)
      /\ \A u \in offerAvailableSlots(t) : GoodCopy(u)
      /\ \A checked \in CheckedTime(t) : GoodCopy(checked.talk) /\ Going(checked.talk)
  BY ConfigTyped, OffersGood DEF Going
<1>3. CASE saveHandoffTurn(t, "handoff_requested")
  BY <1>2, <1>3, GoodHandoff
<1>4. CASE \E checked \in CheckedTime(t) : continueAfterDraftReady(checked.talk, talkTurn.cfg)
  <2>1. PICK checked \in CheckedTime(t) : continueAfterDraftReady(checked.talk, talkTurn.cfg)
    BY <1>4
  <2>2. Going(checked.talk)
    BY <1>2, <2>1
  <2> QED
    BY <2>1, <2>2, ContinueSaves
<1>5. CASE \E checked \in CheckedTime(t) : Say(checked.talk)
  <2>1. PICK checked \in CheckedTime(t) : Say(checked.talk)
    BY <1>5
  <2>2. GoodCopy(checked.talk)
    BY <1>2, <2>1
  <2> QED
    BY <2>1, <2>2, GoodSay
<1>6. CASE Say(t)
  BY <1>2, <1>6, GoodSay
<1>7. CASE \E offered \in offerAvailableSlots(t) : Say(offered)
  <2>1. PICK offered \in offerAvailableSlots(t) : Say(offered)
    BY <1>7
  <2>2. GoodCopy(offered)
    BY <1>2, <2>1
  <2> QED
    BY <2>1, <2>2, GoodSay
<1>8. CASE continueAfterDraftReady(t, talkTurn.cfg)
  BY <1>8, ContinueSaves
<1> QED
  BY <1>1, <1>3, <1>4, <1>5, <1>6, <1>7, <1>8

-----------------------------------------------------------------------------
(* The turns that end early.                                               *)

LEMMA LoadedTalk ==
    ASSUME TalkInv, talkTurn.stage # "idle"
    PROVE  /\ talk.status = "active" /\ GoodCopy(talk) /\ talk \in Drafts /\ talk \in TalkRows
           /\ talk.noProgress <= 2 /\ talkTurn.cfg \in Policies
BY DEF TalkInv, TurnFits, SavedFits, TalkRowsOK, GoodCopy, Open, Drafts

LEMMA CarriedGood ==
    ASSUME NEW t, GoodCopy(t), NEW u \in Drafts, Carries(t, u), u.noProgress <= 2, OpenParty(u),
           \/ u.when = 0 \/ Payload(u) = Payload(t) \/ ~ ReviewStands(u)
    PROVE  GoodCopy(u)
<1>1. Payload(u) = Payload(t) => u.when = t.when /\ u.party = t.party
  BY DEF Payload
<1>2. Kept(u, heard)
  BY <1>1 DEF GoodCopy, Kept, AsHeard, Carries
<1> QED
  BY <1>2 DEF GoodCopy, Open, Carries

LEMMA NothingPending == NoPending \in Pendings /\ NoPending.kind = "none"
BY DEF NoPending, Pendings, Times, Names, ActKinds

LEMMA PendingTyped ==
    ASSUME NEW kind \in {"edit", "fuzzy", "datetime", "name"}, NEW S \in SUBSET MenuServices,
           NEW when \in Times, NEW name \in Names, NEW act \in ActKinds \cup {"set", "unknown"}
    PROVE  /\ NoPending \in Pendings /\ NoPending.kind = "none"
           /\ [NoPending EXCEPT !.kind = kind, !.services = S] \in Pendings
           /\ [NoPending EXCEPT !.kind = kind, !.services = S].kind = kind
           /\ [NoPending EXCEPT !.kind = kind, !.services = S, !.act = act] \in Pendings
           /\ [NoPending EXCEPT !.kind = kind, !.services = S, !.act = act].kind = kind
           /\ [NoPending EXCEPT !.kind = kind, !.when = when] \in Pendings
           /\ [NoPending EXCEPT !.kind = kind, !.when = when].kind = kind
           /\ [NoPending EXCEPT !.kind = kind, !.name = name] \in Pendings
           /\ [NoPending EXCEPT !.kind = kind, !.name = name].kind = kind
<1>1. 0 \in Times /\ NoName \in Names /\ "none" \in ActKinds
  BY DEF Times, Names, ActKinds
<1> QED
  BY <1>1 DEF NoPending, Pendings

(* Only the dialogue's own fields change.                                  *)
Turned(t, u, p) ==
    /\ u \in Drafts /\ Carries(t, u) /\ u.noProgress = t.noProgress
    /\ u.pending = p /\ Payload(u) = Payload(t) /\ Draft(u) = Draft(t)

LEMMA TurnedDraft ==
    ASSUME NEW t \in Drafts, NEW p \in Pendings, NEW pr \in Prompts, NEW ph,
           ph = t.phase \/ ph \in {"open", "drafting", "clarifying"}
    PROVE  Turned(t, [t EXCEPT !.phase = ph, !.prompt = pr, !.pending = p], p)
<1> DEFINE v == [t EXCEPT !.phase = ph, !.prompt = pr, !.pending = p]
<1>0. t \in TalkRows
  BY DEF Drafts
<1>1. ph \in {"open", "drafting", "clarifying", "review"}
  BY <1>0 DEF TalkRows
<1>2. v \in TalkRows
  BY ONLY <1>0, <1>1, pr \in Prompts, p \in Pendings DEF TalkRows
<1>3. /\ v.revision = t.revision /\ v.sequence = t.sequence /\ v.status = t.status
      /\ v.outcome = t.outcome /\ v.consent = t.consent /\ v.mode = t.mode
      /\ v.party = t.party /\ v.pending = p /\ v.noProgress = t.noProgress
      /\ v.accepted = t.accepted /\ v.phase = ph /\ v.reviewed = t.reviewed
      /\ v.offers = t.offers /\ v.when = t.when /\ v.authorized = t.authorized
      /\ v.history = t.history /\ v.services = t.services /\ v.staff = t.staff
      /\ v.assigned = t.assigned /\ v.name = t.name
  BY <1>0 DEF TalkRows
<1> HIDE DEF v
<1>4. v \in Drafts
  BY <1>2, <1>3 DEF Drafts
<1>5. Carries(t, v)
  BY <1>3 DEF Carries, ReviewStands
<1>6. Payload(v) = Payload(t) /\ Draft(v) = Draft(t)
  BY <1>3 DEF Payload, Draft
<1>7. Turned(t, v, p)
  BY <1>3, <1>4, <1>5, <1>6 DEF Turned
<1> QED
  BY <1>7 DEF v

LEMMA PromptedDraft ==
    ASSUME NEW t \in Drafts, NEW p \in Pendings, NEW q \in Prompts
    PROVE  /\ Turned(t, [t EXCEPT !.prompt = q, !.pending = p], p)
           /\ Turned(t, [t EXCEPT !.pending = p, !.prompt = q], p)
<1>1. /\ [t EXCEPT !.prompt = q, !.pending = p] =
           [t EXCEPT !.phase = t.phase, !.prompt = q, !.pending = p]
      /\ [t EXCEPT !.pending = p, !.prompt = q] =
           [t EXCEPT !.phase = t.phase, !.prompt = q, !.pending = p]
  BY DEF TalkRows, Drafts
<1>2. Turned(t, [t EXCEPT !.phase = t.phase, !.prompt = q, !.pending = p], p)
  BY TurnedDraft
<1> QED
  BY <1>1, <1>2

LEMMA PendingDraft ==
    ASSUME NEW t \in Drafts, NEW p \in Pendings
    PROVE  Turned(t, [t EXCEPT !.pending = p], p)
<1>1. [t EXCEPT !.pending = p] =
           [t EXCEPT !.phase = t.phase, !.prompt = t.prompt, !.pending = p]
  BY DEF TalkRows, Drafts
<1>2. t.prompt \in Prompts
  BY DEF TalkRows, Drafts
<1>3. Turned(t, [t EXCEPT !.phase = t.phase, !.prompt = t.prompt, !.pending = p], p)
  BY <1>2, TurnedDraft
<1> QED
  BY <1>1, <1>3

LEMMA ClearedDraft ==
    ASSUME NEW t \in Drafts
    PROVE  /\ Turned(t, [t EXCEPT !.pending = NoPending, !.prompt = ""], NoPending)
           /\ Turned(t, [t EXCEPT !.pending = NoPending, !.prompt = "", !.phase = "drafting"], NoPending)
<1>0. NoPending \in Pendings /\ "" \in Prompts
  BY NothingPending DEF Prompts
<1>1. [t EXCEPT !.pending = NoPending, !.prompt = "", !.phase = "drafting"] =
           [t EXCEPT !.phase = "drafting", !.prompt = "", !.pending = NoPending]
  BY DEF TalkRows, Drafts
<1>2. Turned(t, [t EXCEPT !.phase = "drafting", !.prompt = "", !.pending = NoPending], NoPending)
  BY <1>0, TurnedDraft
<1> QED
  BY <1>0, <1>1, <1>2, PromptedDraft

LEMMA LoadTurnKeeps == TalkInv /\ LoadTurn => TalkInv'
<1> SUFFICES ASSUME TalkInv, LoadTurn
             PROVE  TalkInv'
  OBVIOUS
<1> DEFINE x == [IdleTurn EXCEPT !.stage = "loaded", !.cfg = policy, !.talk = talk]
<1>1. /\ talkTurn.stage = "idle" /\ talk.status = "active" /\ talkBudget.turns > 0
      /\ talkTurn' = x /\ talkBudget' = [talkBudget EXCEPT !.turns = @ - 1]
      /\ talk' = talk /\ policy' = policy /\ operations' = operations /\ heard' = heard
  BY DEF LoadTurn
<1>2. /\ policy \in Policies /\ policy \in Salons /\ talk \in Drafts /\ talk \in TalkRows
      /\ talkBudget \in TalkBudgets
  BY TalkBounds DEF TalkInv, TalkRowsOK, Drafts
<1>3. policy \in [mode : ReviewModes, authority : ReviewAuthorities, ai : BOOLEAN]
  BY <1>2 DEF Salons, ReviewModes, ReviewAuthorities
<1>4. IdleTurn \in Turns
  BY NewTalkDraft
<1>5. x \in Turns /\ x.stage = "loaded" /\ x.cfg = policy /\ x.talk = talk
  BY ONLY <1>2, <1>3, <1>4 DEF Turns
<1> HIDE DEF x
<1>6. /\ talkBudget' \in TalkBudgets /\ talkBudget'.turns = talkBudget.turns - 1
      /\ talkBudget.turns \in Int
  BY <1>1, <1>2, TalkBounds DEF TalkBudgets
<1>7. TalkRowsOK' /\ SavedFits' /\ OperationsFit'
  BY <1>1, <1>5, <1>6 DEF TalkInv, TalkRowsOK, SavedFits, OperationsFit, Ops, Told, OperationKey
<1>8. TurnFits'
  BY <1>1, <1>2, <1>5 DEF TurnFits
<1>9. BudgetFits'
  <2>1. talk.sequence + talkBudget.turns + 0 <= MaxTalkTurns
    BY <1>1 DEF TalkInv, BudgetFits
  <2>2. talk.sequence \in Int /\ MaxTalkTurns \in Int
    BY <1>2, TalkBounds DEF TalkRows
  <2>3. talk.sequence + (talkBudget.turns - 1) + 1 <= MaxTalkTurns
    BY ONLY <1>6, <2>1, <2>2
  <2> QED
    BY <1>1, <1>5, <1>6, <2>3 DEF BudgetFits
<1> QED
  BY <1>7, <1>8, <1>9 DEF TalkInv

LEMMA TurnDiesKeeps == TalkInv /\ TurnDies => TalkInv'
<1> SUFFICES ASSUME TalkInv, TurnDies
             PROVE  TalkInv'
  OBVIOUS
<1>1. /\ talkTurn.stage # "idle" /\ talkTurn' = IdleTurn /\ talk' = talk /\ policy' = policy
      /\ operations' = operations /\ heard' = heard /\ talkBudget' = talkBudget
  BY DEF TurnDies
<1>2. talkTurn'.stage = "idle" /\ talkTurn' \in Turns
  BY <1>1, NewTalkDraft
<1>3. TalkRowsOK' /\ SavedFits' /\ OperationsFit' /\ TurnFits'
  BY <1>1, <1>2 DEF TalkInv, TalkRowsOK, SavedFits, OperationsFit, Ops, Told, OperationKey, TurnFits
<1>4. BudgetFits'
  <2>1. talk.sequence + talkBudget.turns + 0 <= MaxTalkTurns
    BY ONLY <1>1, BudgetBounds, TalkBounds, TalkInv
  <2> QED
    BY <1>1, <1>2, <2>1 DEF BudgetFits
<1> QED
  BY <1>3, <1>4 DEF TalkInv

LEMMA ChangePolicyKeeps == TalkInv /\ ChangePolicy => TalkInv'
<1> SUFFICES ASSUME TalkInv, ChangePolicy
             PROVE  TalkInv'
  OBVIOUS
<1>1. /\ talkBudget.policies > 0 /\ policy' \in Policies
      /\ talkBudget' = [talkBudget EXCEPT !.policies = @ - 1]
      /\ talk' = talk /\ talkTurn' = talkTurn /\ operations' = operations /\ heard' = heard
  BY DEF ChangePolicy
<1>2. talkBudget \in TalkBudgets
  BY DEF TalkInv, TalkRowsOK
<1>3. talkBudget' \in TalkBudgets /\ talkBudget'.turns = talkBudget.turns
  BY <1>1, <1>2, TalkBounds DEF TalkBudgets
<1>4. TalkRowsOK' /\ SavedFits' /\ OperationsFit' /\ TurnFits' /\ BudgetFits'
  BY <1>1, <1>3 DEF TalkInv, TalkRowsOK, SavedFits, OperationsFit, Ops, Told, OperationKey,
                    TurnFits, BudgetFits
<1> QED
  BY <1>4 DEF TalkInv

LEMMA AsideKeeps == TalkInv /\ (HandoffRequested \/ AnsweredAside) => TalkInv'
<1> SUFFICES ASSUME TalkInv, HandoffRequested \/ AnsweredAside
             PROVE  TalkInv'
  OBVIOUS
<1>1. talkTurn.stage # "idle"
  BY DEF HandoffRequested, AnsweredAside, FreeTurn
<1>2. saveHandoffTurn(talk, "handoff_requested") \/ Say(talk)
  BY DEF HandoffRequested, AnsweredAside
<1> QED
  BY <1>1, <1>2, LoadedTalk, GoodHandoff, GoodSay

LEMMA NeutralBookingKeeps == TalkInv /\ tryNeutralBooking => TalkInv'
<1> SUFFICES ASSUME TalkInv, tryNeutralBooking
             PROVE  TalkInv'
  OBVIOUS
<1> DEFINE t == talkTurn.talk
<1>1. /\ talkTurn.stage = "booking" /\ t \in Drafts /\ t.sequence = talk.sequence /\ Open(t)
      /\ AsHeard(t, heard) /\ t.party # "open" /\ t.mode = talkTurn.cfg.mode
  BY DEF tryNeutralBooking, TalkInv, TurnFits
<1>2. \/ saveHandoffTurn(t, "handoff_requested")
      \/ \E next \in {t, Refreshed(t)} :
           /\ talkTurn' = [talkTurn EXCEPT !.stage = "executing", !.talk = next,
                                           !.authority = policy.authority]
           /\ UNCHANGED <<talk, policy, operations, heard, talkBudget>>
      \/ \E slots \in SUBSET OpenSlots : Say(Offered(resetDialogProgress(t), slots))
  BY DEF tryNeutralBooking
<1> HIDE DEF t
<1>3. CASE saveHandoffTurn(t, "handoff_requested")
  BY <1>1, <1>3, HandoffSaves
<1>4. CASE \E next \in {t, Refreshed(t)} :
             /\ talkTurn' = [talkTurn EXCEPT !.stage = "executing", !.talk = next,
                                             !.authority = policy.authority]
             /\ UNCHANGED <<talk, policy, operations, heard, talkBudget>>
  <2>1. PICK next \in {t, Refreshed(t)} :
             /\ talkTurn' = [talkTurn EXCEPT !.stage = "executing", !.talk = next,
                                             !.authority = policy.authority]
             /\ UNCHANGED <<talk, policy, operations, heard, talkBudget>>
    BY <1>4
  <2>0. policy \in Salons
    BY ConfigTyped
  <2>2. /\ Refreshed(t) \in Drafts /\ Mentioned(t, Refreshed(t)) /\ Payload(Refreshed(t)) = Payload(t)
    <3>1. CASE policy.authority = "owner_manual"
      BY <1>1, <2>0, <3>1, OfferedDraft DEF Refreshed
    <3>2. CASE policy.authority # "owner_manual"
      <4>1. /\ Consulted(t) \in Drafts /\ Mentioned(t, Consulted(t))
            /\ Payload(Consulted(t)) = Payload(t) /\ Consulted(t).when = t.when
        BY <1>1, <2>0, ConsultedDraft
      <4>2. Refreshed(t) = applySelectedOfferedSlot(Consulted(t), t.when)
        BY <3>2 DEF Refreshed
      <4>3. t.when \in Times
        BY <1>1 DEF Drafts, TalkRows
      <4>4. /\ Refreshed(t) \in Drafts /\ Mentioned(Consulted(t), Refreshed(t))
            /\ Payload(Refreshed(t)) = Payload(Consulted(t))
        BY <4>1, <4>2, <4>3, SelectedSlotDraft
      <4> QED
        BY <4>1, <4>4, MentionedTransitive
    <3> QED
      BY <3>1, <3>2
  <2>3. /\ next \in Drafts /\ Open(next) /\ next.sequence = talk.sequence
        /\ next.party # "open" /\ AsHeard(next, heard) /\ next.mode = talkTurn.cfg.mode
    BY <1>1, <2>1, <2>2 DEF Mentioned, Carries, Open, AsHeard
  <2>4. policy.authority \in ReviewAuthorities
    BY <2>0 DEF Salons, ReviewAuthorities
  <2> QED
    BY <1>1, <2>1, <2>3, <2>4, BookingStage
<1>5. CASE \E slots \in SUBSET OpenSlots : Say(Offered(resetDialogProgress(t), slots))
  <2>1. PICK slots \in SUBSET OpenSlots : Say(Offered(resetDialogProgress(t), slots))
    BY <1>5
  <2> DEFINE u == resetDialogProgress(t)
             v == Offered(u, slots)
  <2>2. /\ Acted(t, u) /\ u.accepted = FALSE /\ u.reviewed = 0 /\ u.noProgress = 0
        /\ u.pending = NoPending /\ u.party = t.party
    BY <1>1, ResetDraft
  <2>3. v \in Drafts /\ Mentioned(u, v) /\ v.when = 0
    BY <2>2, ConfigTyped, OfferedDraft DEF Acted
  <2> HIDE DEF u, v
  <2>4. Open(v) /\ v.sequence = t.sequence /\ v.party # "open"
    BY <1>1, <2>2, <2>3 DEF Acted, Carries, Mentioned, Open
  <2>5. GoodCopy(v)
    BY <1>1, <2>3, <2>4 DEF GoodCopy, OpenParty, Kept
  <2> QED
    BY <1>1, <2>1, <2>5, GoodSay DEF u, v
<1> QED
  BY <1>2, <1>3, <1>4, <1>5

LEMMA SaveExecutedKeeps == TalkInv /\ SaveExecutedTurn => TalkInv'
<1> SUFFICES ASSUME TalkInv, SaveExecutedTurn
             PROVE  TalkInv'
  OBVIOUS
<1> DEFINE t == talkTurn.talk
<1>1. talkTurn.stage = "saving" /\ Say(t)
  BY DEF SaveExecutedTurn
<1>2. /\ t \in Drafts /\ t.sequence = talk.sequence /\ t.status = "completed" /\ Told(t, operations)
  BY <1>1 DEF TalkInv, TurnFits
<1> HIDE DEF t
<1>3. SaveFits(t)
  BY <1>2 DEF SaveFits, TalkInv, OperationsFit, Ops, OperationKey
<1> QED
  BY <1>1, <1>3, SaySaves

-----------------------------------------------------------------------------
(* Confirmations.                                                          *)

LEMMA ConsentKeeps == TalkInv /\ handlePendingCustomerSMSConsent => TalkInv'
<1> SUFFICES ASSUME TalkInv, handlePendingCustomerSMSConsent
             PROVE  TalkInv'
  OBVIOUS
<1> DEFINE u == [talk EXCEPT !.consent = -1]
<1>1. talkTurn.stage # "idle" /\ talk.consent = talk.revision
  BY DEF handlePendingCustomerSMSConsent, AwaitsConsent
<1>2. IF talkTurn.cfg.mode # "disabled"
         /\ planNextConversationAction(u, talkTurn.cfg) # "execute_booking"
      THEN continueAfterDraftReady(u, talkTurn.cfg)
      ELSE tryBooking(u, talkTurn.cfg)
  BY DEF handlePendingCustomerSMSConsent
<1>3. GoodCopy(talk) /\ talk \in Drafts /\ talk.revision \in Nat
  BY <1>1, LoadedTalk DEF TalkRows
<1>4. talk.party # "open"
  BY <1>1, <1>3 DEF GoodCopy, OpenParty
<1>5. -1 \in Int /\ -1 <= talk.revision /\ -1 # talk.revision
  BY <1>3
<1>6. /\ u \in Drafts /\ u.sequence = talk.sequence /\ u.revision = talk.revision
      /\ u.status = talk.status /\ u.outcome = talk.outcome /\ u.noProgress = talk.noProgress
      /\ u.party = talk.party /\ u.when = talk.when
      /\ ReviewStands(u) = ReviewStands(talk) /\ u.consent = -1 /\ u.mode = talk.mode
      /\ Payload(u) = Payload(talk)
  BY <1>3, <1>5, ConsentDraft
<1> HIDE DEF u
<1>7. Going(u)
  BY <1>3, <1>4, <1>6 DEF GoodCopy, Going, Open, OpenParty, Kept, AsHeard
<1>8. CASE continueAfterDraftReady(u, talkTurn.cfg)
  BY <1>1, <1>7, <1>8, ContinueSaves
<1>9. CASE /\ tryBooking(u, talkTurn.cfg)
           /\ talkTurn.cfg.mode # "disabled" =>
                planNextConversationAction(u, talkTurn.cfg) = "execute_booking"
  BY <1>1, <1>7, <1>9, PlannedAsHeard, BookingGoesOn DEF Going, GoodCopy
<1> QED
  BY <1>2, <1>8, <1>9

(* The revision moves on with the draft, and a review of it is void.       *)
LEMMA AdvancedGood ==
    ASSUME TalkInv, talkTurn.stage # "idle", talk.consent # talk.revision,
           NEW t \in Drafts, Carries(talk, t), t.noProgress <= 2,
           t.pending.kind \notin {"fuzzy", "name"}
    PROVE  LET u == advanceDraftRevision(talk, t) IN
           /\ GoodCopy(u) /\ u.pending = t.pending
           /\ (t.party = "open" => talk.party # "open") => Going(u)
<1> DEFINE u == advanceDraftRevision(talk, t)
<1>0. talk \in Drafts /\ GoodCopy(talk)
  BY LoadedTalk
<1>1. /\ t.revision = talk.revision /\ t.sequence = talk.sequence /\ t.status = talk.status
      /\ t.outcome = talk.outcome /\ t.consent = talk.consent
      /\ ReviewStands(t) => ReviewStands(talk) /\ t.mode = talk.mode
  BY DEF Carries
<1>2. Advanced(talk, t, u)
  BY <1>0, <1>1, AdvancedDraft
<1> HIDE DEF u
<1>3. u \in Drafts /\ Open(u) /\ OpenParty(u) /\ u.sequence = talk.sequence
  BY <1>0, <1>1, <1>2 DEF Advanced, GoodCopy, Open, OpenParty
<1>4. ReviewStands(u) => /\ Draft(t) = Draft(talk) /\ ReviewStands(talk)
                         /\ u.mode = talk.mode
  BY <1>1, <1>2 DEF Advanced
<1>5. Draft(t) = Draft(talk) => Payload(t) = Payload(talk) /\ t.party = talk.party /\ t.when = talk.when
  BY DEF Draft, Payload
<1>6. Payload(u) = Payload(t) /\ u.when = t.when /\ u.party = t.party
  BY <1>2 DEF Advanced
<1>7. Kept(u, heard)
  BY <1>0, <1>4, <1>5, <1>6 DEF GoodCopy, Kept, AsHeard
<1>8. GoodCopy(u)
  BY <1>3, <1>7 DEF GoodCopy
<1>9. (t.party = "open" => talk.party # "open") => Going(u)
  BY <1>2, <1>5, <1>6, <1>8 DEF Going, Advanced
<1> QED
  BY <1>2, <1>8, <1>9 DEF u, Advanced

LEMMA FuzzyKeeps == TalkInv /\ handlePendingFuzzyServiceConfirmation => TalkInv'
<1> SUFFICES ASSUME TalkInv, handlePendingFuzzyServiceConfirmation
             PROVE  TalkInv'
  OBVIOUS
<1> DEFINE cleared == [talk EXCEPT !.pending = NoPending, !.prompt = "", !.phase = "drafting"]
           S == IF talk.pending.act = "add" THEN talk.services \cup talk.pending.services
                ELSE talk.pending.services
           v == [cleared EXCEPT !.services = S, !.offers = {}]
           w == invalidateCarriedAvailabilityProof(talk, v)
           asked == [cleared EXCEPT !.phase = "clarifying", !.prompt = "semantic_add_or_replace",
                                    !.pending = [NoPending EXCEPT !.kind = "edit",
                                                 !.services = talk.pending.services]]
<1>1. /\ talkTurn.stage # "idle" /\ talk.consent # talk.revision /\ talk.pending.kind = "fuzzy"
  BY DEF handlePendingFuzzyServiceConfirmation, Claims, AwaitsConsent
<1>2. GoodCopy(talk) /\ talk \in Drafts /\ talk \in TalkRows /\ talk.party # "open"
  BY <1>1, LoadedTalk DEF GoodCopy, OpenParty
<1>3. /\ talk.pending \in Pendings /\ talk.pending.services \in SUBSET MenuServices
      /\ S \in SUBSET MenuServices
  BY <1>2 DEF TalkRows, Pendings
<1>4. \/ Say(talk) \/ Say(cleared) \/ Say(asked)
      \/ SettleTime(talk, advanceDraftRevision(talk, w), talkTurn.cfg, FALSE)
  BY DEF handlePendingFuzzyServiceConfirmation, ConfirmedService
<1>5. /\ NoPending \in Pendings /\ NoPending.kind = "none" /\ "" \in Prompts
      /\ "semantic_add_or_replace" \in Prompts
      /\ {"drafting", "clarifying"} \subseteq {"open", "drafting", "clarifying"}
  BY NothingPending DEF Prompts
<1>6. /\ cleared \in Drafts /\ Carries(talk, cleared) /\ cleared.noProgress = talk.noProgress
      /\ cleared.pending = NoPending /\ Payload(cleared) = Payload(talk)
  BY <1>2, ClearedDraft DEF Turned
<1> HIDE DEF cleared, S
<1>7. GoodCopy(cleared)
  <2>1. cleared.noProgress <= 2 /\ OpenParty(cleared)
    BY <1>2, <1>5, <1>6 DEF GoodCopy, Open, OpenParty, Payload
  <2> QED
    BY <1>2, <1>6, <2>1, CarriedGood
<1>8. GoodCopy(asked)
  <2>1. /\ [NoPending EXCEPT !.kind = "edit", !.services = talk.pending.services] \in Pendings
        /\ [NoPending EXCEPT !.kind = "edit", !.services = talk.pending.services].kind = "edit"
    BY <1>3 DEF Times, Names, ActKinds, NoPending, Pendings
  <2> DEFINE p == [NoPending EXCEPT !.kind = "edit", !.services = talk.pending.services]
  <2>a. Turned(cleared, [cleared EXCEPT !.phase = "clarifying", !.prompt = "semantic_add_or_replace",
                                        !.pending = p], p)
    <3> HIDE DEF p
    <3>1. p \in Pendings
      BY <2>1 DEF p
    <3>2. "semantic_add_or_replace" \in Prompts
      BY <1>5
    <3> QED
      BY <1>6, <3>1, <3>2, TurnedDraft
  <2>2. /\ asked \in Drafts /\ Carries(cleared, asked) /\ asked.noProgress = cleared.noProgress
        /\ asked.pending.kind = "edit" /\ Payload(asked) = Payload(cleared)
    BY <2>1, <2>a DEF Turned
  <2> HIDE DEF asked
  <2>3. asked.noProgress <= 2 /\ OpenParty(asked)
    BY <1>2, <1>6, <2>2 DEF GoodCopy, Open, OpenParty, Payload
  <2> QED
    BY <1>7, <2>2, <2>3, CarriedGood
<1>9. Going(advanceDraftRevision(talk, w))
  <2>1. /\ v \in TalkRows /\ v.party = cleared.party /\ v.pending = NoPending
        /\ v.noProgress = cleared.noProgress
        /\ Acted(cleared, v)
    <3>1. cleared \in TalkRows
      BY <1>6 DEF Drafts
    <3>2. v \in TalkRows
      BY <3>1, <1>3 DEF TalkRows
    <3>3. /\ v.revision = cleared.revision /\ v.sequence = cleared.sequence /\ v.status = cleared.status
          /\ v.outcome = cleared.outcome /\ v.consent = cleared.consent /\ v.mode = cleared.mode
          /\ v.pending = cleared.pending /\ v.noProgress = cleared.noProgress
          /\ v.accepted = cleared.accepted /\ v.party = cleared.party
          /\ v.phase = cleared.phase /\ v.reviewed = cleared.reviewed
          /\ v.authorized = cleared.authorized /\ v.history = cleared.history /\ v.offers = {}
      BY <3>1 DEF TalkRows
    <3>4. Len(v.history) <= HistoryLimit
      BY <1>6, <3>3 DEF Drafts
    <3> HIDE DEF v
    <3> QED
      BY <1>6, <3>2, <3>3, <3>4, DetailsActed
  <2> HIDE DEF v
  <2>2. w \in Drafts /\ Mentioned(v, w)
    BY <2>1, ProofInvalidated DEF Acted
  <2> HIDE DEF w
  <2>3. Carries(talk, w)
    BY <1>6, <2>1, <2>2, CarriesTransitive DEF Acted, Mentioned
  <2>4. w.noProgress <= 2 /\ w.pending.kind = "none" /\ w.party # "open"
    BY <1>2, <1>5, <1>6, <2>1, <2>2 DEF Mentioned, GoodCopy, Open, Payload
  <2> QED
    BY <1>1, <2>2, <2>3, <2>4, AdvancedGood
<1> HIDE DEF w, v, asked
<1> QED
  BY <1>1, <1>2, <1>4, <1>7, <1>8, <1>9, GoodSay, SettleSaves

LEMMA DateTimeKeeps == TalkInv /\ handlePendingOfferedSlotDateTimeCorrection => TalkInv'
<1> SUFFICES ASSUME TalkInv, handlePendingOfferedSlotDateTimeCorrection
             PROVE  TalkInv'
  OBVIOUS
<1> DEFINE cleared == [talk EXCEPT !.pending = NoPending, !.prompt = ""]
           v == [cleared EXCEPT !.when = talk.pending.when, !.offers = {}]
           moved == advanceDraftRevision(talk, v)
<1>1. talkTurn.stage # "idle" /\ talk.consent # talk.revision
  BY DEF handlePendingOfferedSlotDateTimeCorrection, Claims, AwaitsConsent
<1>2. GoodCopy(talk) /\ talk \in Drafts /\ talk \in TalkRows
  BY <1>1, LoadedTalk
<1>3. talk.pending \in Pendings /\ talk.pending.when \in Times
  BY <1>2 DEF TalkRows, Pendings
<1>4. \/ Say(talk) \/ Say(cleared) \/ Say(moved)
      \/ saveHandoffTurn(moved, "handoff_requested")
      \/ \E checked \in CheckedTime(moved) : Say(checked.talk)
      \/ \E offered \in offerAvailableSlots(moved) : Say(offered)
  BY DEF handlePendingOfferedSlotDateTimeCorrection
<1>5. /\ NoPending \in Pendings /\ NoPending.kind = "none" /\ "" \in Prompts
      /\ "drafting" \in {"open", "drafting", "clarifying"}
  BY NothingPending DEF Prompts
<1>6. /\ cleared \in Drafts /\ Carries(talk, cleared) /\ cleared.noProgress = talk.noProgress
      /\ cleared.pending = NoPending /\ Payload(cleared) = Payload(talk)
  BY <1>2, ClearedDraft DEF Turned
<1> HIDE DEF cleared
<1>7. GoodCopy(cleared)
  <2>1. cleared.noProgress <= 2 /\ OpenParty(cleared)
    BY <1>2, <1>5, <1>6 DEF GoodCopy, Open, OpenParty, Payload, Carries
  <2> QED
    BY <1>2, <1>6, <2>1, CarriedGood
<1>8. GoodCopy(moved)
  <2>1. cleared \in TalkRows
    BY <1>6 DEF Drafts
  <2>2. v \in TalkRows
    BY <2>1, <1>3 DEF TalkRows
  <2>3. /\ v.revision = cleared.revision /\ v.sequence = cleared.sequence /\ v.status = cleared.status
        /\ v.outcome = cleared.outcome /\ v.consent = cleared.consent /\ v.mode = cleared.mode
        /\ v.pending = cleared.pending /\ v.noProgress = cleared.noProgress
        /\ v.accepted = cleared.accepted
        /\ v.phase = cleared.phase /\ v.reviewed = cleared.reviewed
        /\ v.authorized = cleared.authorized /\ v.history = cleared.history /\ v.offers = {}
    BY <2>1 DEF TalkRows
  <2>4. Len(v.history) <= HistoryLimit
    BY <1>6, <2>3 DEF Drafts
  <2> HIDE DEF v
  <2>5. Acted(cleared, v)
    BY <1>6, <2>2, <2>3, <2>4, DetailsActed
  <2>6. /\ v \in Drafts /\ Carries(talk, v)
    BY <1>6, <2>5, CarriesTransitive DEF Acted
  <2>7. v.noProgress <= 2 /\ v.pending.kind = "none"
    BY <1>2, <1>5, <1>6, <2>3 DEF GoodCopy, Open
  <2> QED
    BY <1>1, <2>6, <2>7, AdvancedGood
<1> HIDE DEF moved, v
<1>9. CASE \E checked \in CheckedTime(moved) : Say(checked.talk)
  <2>1. PICK checked \in CheckedTime(moved) : Say(checked.talk)
    BY <1>9
  <2>2. GoodCopy(checked.talk)
    BY <1>8, <2>1, ConfigTyped, OffersGood
  <2> QED
    BY <1>1, <2>1, <2>2, GoodSay
<1>10. CASE \E offered \in offerAvailableSlots(moved) : Say(offered)
  <2>1. PICK offered \in offerAvailableSlots(moved) : Say(offered)
    BY <1>10
  <2>2. GoodCopy(offered)
    BY <1>8, <2>1, ConfigTyped, OffersGood
  <2> QED
    BY <1>1, <2>1, <2>2, GoodSay
<1> QED
  BY <1>1, <1>2, <1>4, <1>7, <1>8, <1>9, <1>10, GoodSay, GoodHandoff

LEMMA NameKeeps == TalkInv /\ handlePendingCustomerNameConfirmation => TalkInv'
<1> SUFFICES ASSUME TalkInv, handlePendingCustomerNameConfirmation
             PROVE  TalkInv'
  OBVIOUS
<1> DEFINE cleared == [talk EXCEPT !.pending = NoPending, !.prompt = ""]
           v == [cleared EXCEPT !.name = talk.pending.name]
<1>1. talkTurn.stage # "idle" /\ talk.consent # talk.revision /\ talk.pending.kind = "name"
  BY DEF handlePendingCustomerNameConfirmation, Claims, AwaitsConsent
<1>2. GoodCopy(talk) /\ talk \in Drafts /\ talk \in TalkRows /\ talk.party # "open"
  BY <1>1, LoadedTalk DEF GoodCopy, OpenParty
<1>3. talk.pending \in Pendings /\ talk.pending.name \in Names
  BY <1>2 DEF TalkRows, Pendings
<1>4. \/ Say(talk) \/ Say(cleared)
      \/ continueAfterDraftReady(advanceDraftRevision(talk, v), talkTurn.cfg)
  BY DEF handlePendingCustomerNameConfirmation
<1>5. /\ NoPending \in Pendings /\ NoPending.kind = "none" /\ "" \in Prompts
      /\ "drafting" \in {"open", "drafting", "clarifying"}
  BY NothingPending DEF Prompts
<1>6. /\ cleared \in Drafts /\ Carries(talk, cleared) /\ cleared.noProgress = talk.noProgress
      /\ cleared.pending = NoPending /\ Payload(cleared) = Payload(talk)
  BY <1>2, ClearedDraft DEF Turned
<1> HIDE DEF cleared
<1>7. GoodCopy(cleared)
  <2>1. cleared.noProgress <= 2 /\ OpenParty(cleared)
    BY <1>2, <1>5, <1>6 DEF GoodCopy, Open, OpenParty, Payload, Carries
  <2> QED
    BY <1>2, <1>6, <2>1, CarriedGood
<1>8. v \in Drafts /\ Mentioned(cleared, v)
  BY <1>3, <1>6, NamedDraft
<1> HIDE DEF v
<1>9. /\ Carries(talk, v) /\ v.noProgress <= 2 /\ v.pending.kind = "none" /\ v.party # "open"
  BY <1>2, <1>5, <1>6, <1>8, CarriesTransitive DEF Mentioned, GoodCopy, Open, Payload
<1>10. Going(advanceDraftRevision(talk, v))
  BY <1>1, <1>8, <1>9, AdvancedGood
<1> QED
  BY <1>1, <1>2, <1>4, <1>7, <1>10, GoodSay, ContinueSaves

-----------------------------------------------------------------------------
(* What is said when nothing waits for a confirmation.                     *)

LEMMA FreeTalk ==
    ASSUME TalkInv, FreeTurn
    PROVE  /\ talkTurn.stage # "idle" /\ talk.consent # talk.revision
           /\ talk.pending.kind \in {"none", "edit"}
           /\ GoodCopy(talk) /\ talk \in Drafts /\ talk \in TalkRows /\ talk.noProgress <= 2
<1>1. /\ talkTurn.stage # "idle" /\ talk.consent # talk.revision
      /\ talk.pending.kind \in {"none", "edit"}
  BY DEF FreeTurn, AwaitsConsent
<1> QED
  BY <1>1, LoadedTalk

LEMMA FuzzyStarts == TalkInv /\ startFuzzyServiceConfirmation => TalkInv'
<1> SUFFICES ASSUME TalkInv, startFuzzyServiceConfirmation
             PROVE  TalkInv'
  OBVIOUS
<1>1. PICK m \in Mentions, s \in MenuServices, kind \in {"add", "replace", "unknown"} :
        /\ FreeTurn /\ s \notin talk.services /\ talk.party = "none"
        /\ IF talk.pending # NoPending THEN Say(talk)
           ELSE LET t == applyExtraction(talk, m) IN
                Say([t EXCEPT !.phase = "clarifying", !.accepted = FALSE, !.authorized = 0,
                              !.prompt = "fuzzy_service",
                              !.pending = [NoPending EXCEPT
                                           !.kind = "fuzzy", !.services = {s},
                                           !.act = IF talk.services = {} THEN "set" ELSE kind]])
  BY DEF startFuzzyServiceConfirmation
<1> DEFINE t == applyExtraction(talk, m)
           act == IF talk.services = {} THEN "set" ELSE kind
           p == [NoPending EXCEPT !.kind = "fuzzy", !.services = {s}, !.act = act]
           u == [t EXCEPT !.phase = "clarifying", !.accepted = FALSE, !.authorized = 0,
                          !.prompt = "fuzzy_service", !.pending = p]
<1>2. Say(talk) \/ Say(u)
  BY <1>1
<1>3. /\ talkTurn.stage # "idle" /\ GoodCopy(talk) /\ talk \in Drafts /\ talk.noProgress <= 2
  BY <1>1, FreeTalk
<1>4. t \in Drafts /\ Mentioned(talk, t)
  BY <1>1, <1>3, ExtractionDraft
<1>5. p \in Pendings
  <2>1. act \in ActKinds \cup {"set", "unknown"}
    BY <1>1 DEF ActKinds
  <2>2. 0 \in Times /\ NoName \in Names /\ {s} \in SUBSET MenuServices
    BY <1>1 DEF Times, Names
  <2> HIDE DEF act
  <2> QED
    BY <2>1, <2>2 DEF NoPending, Pendings
<1> HIDE DEF t, p, act
<1>6. GoodCopy(u)
  <2>1. t \in TalkRows /\ "fuzzy_service" \in Prompts
    BY <1>4 DEF Drafts, Prompts
  <2>2. u \in TalkRows
    BY ONLY <2>1, <1>5 DEF TalkRows
  <2>3. /\ u.revision = t.revision /\ u.sequence = t.sequence /\ u.status = t.status
        /\ u.outcome = t.outcome /\ u.consent = t.consent /\ u.mode = t.mode
        /\ u.party = t.party /\ u.noProgress = t.noProgress /\ u.phase = "clarifying"
        /\ u.accepted = FALSE /\ u.reviewed = t.reviewed /\ u.authorized = 0
        /\ u.offers = t.offers /\ u.when = t.when /\ u.history = t.history
    BY <2>1 DEF TalkRows
  <2> HIDE DEF u
  <2>a. 0 <= t.revision
    BY <2>1 DEF TalkRows
  <2>4. u \in Drafts
    BY <1>4, <2>2, <2>3, <2>a DEF Drafts
  <2>5. ~ ReviewStands(u)
    BY <2>3 DEF ReviewStands
  <2>6. Carries(talk, u) /\ u.noProgress <= 2 /\ OpenParty(u)
    BY <1>1, <1>3, <1>4, <2>3, <2>5 DEF Mentioned, Carries, OpenParty
  <2> QED
    BY <1>3, <2>4, <2>5, <2>6, CarriedGood
<1> HIDE DEF u
<1> QED
  BY <1>2, <1>3, <1>6, GoodSay

LEMMA SlotsNarrowedKeeps == TalkInv /\ SlotsNarrowed => TalkInv'
<1> SUFFICES ASSUME TalkInv, SlotsNarrowed
             PROVE  TalkInv'
  OBVIOUS
<1>1. PICK remaining \in SUBSET talk.offers :
        /\ FreeTurn
        /\ \/ Say([talk EXCEPT !.offers = remaining])
           \/ saveHandoffTurn(talk, "handoff_requested")
           \/ \E offered \in offerAvailableSlots(talk) : Say(offered)
  BY DEF SlotsNarrowed
<1>2. talkTurn.stage # "idle" /\ GoodCopy(talk) /\ talk \in Drafts /\ talk \in TalkRows
  BY <1>1, FreeTalk
<1> DEFINE u == [talk EXCEPT !.offers = remaining]
<1>3. GoodCopy(u)
  <2>1. remaining \in SUBSET OpenSlots
    BY <1>1, <1>2 DEF TalkRows
  <2>2. u \in TalkRows
    BY <1>2, <2>1 DEF TalkRows
  <2>3. /\ u.revision = talk.revision /\ u.sequence = talk.sequence /\ u.status = talk.status
        /\ u.outcome = talk.outcome /\ u.consent = talk.consent /\ u.mode = talk.mode
        /\ u.party = talk.party /\ u.pending = talk.pending /\ u.noProgress = talk.noProgress
        /\ u.accepted = talk.accepted /\ u.phase = talk.phase /\ u.reviewed = talk.reviewed
        /\ u.authorized = talk.authorized /\ u.offers = remaining /\ u.when = talk.when
        /\ u.history = talk.history /\ u.services = talk.services /\ u.staff = talk.staff
        /\ u.name = talk.name
    BY <1>2 DEF TalkRows
  <2> HIDE DEF u
  <2>4. Mentioned(talk, u)
    BY <1>2, <2>3, DetailsMentioned
  <2>5. u \in Drafts
    BY <1>1, <1>2, <2>2, <2>3 DEF Drafts
  <2>6. Payload(u) = Payload(talk)
    BY <2>3 DEF Payload
  <2> QED
    BY <1>2, <2>4, <2>5, <2>6, StaysGood
<1> HIDE DEF u
<1>4. CASE \E offered \in offerAvailableSlots(talk) : Say(offered)
  <2>1. PICK offered \in offerAvailableSlots(talk) : Say(offered)
    BY <1>4
  <2>2. GoodCopy(offered)
    BY <1>2, <2>1, ConfigTyped, OffersGood
  <2> QED
    BY <1>2, <2>1, <2>2, GoodSay
<1> QED
  BY <1>1, <1>2, <1>3, <1>4, GoodSay, GoodHandoff DEF u

LEMMA CorrectionGuardKeeps == TalkInv /\ guardOfferedSlotDateTimeCorrection => TalkInv'
<1> SUFFICES ASSUME TalkInv, guardOfferedSlotDateTimeCorrection
             PROVE  TalkInv'
  OBVIOUS
<1>1. PICK m \in Mentions :
        /\ FreeTurn /\ talk.offers # {}
        /\ m.when \notin talk.offers \cup {NoMention} /\ m.when # talk.when
        /\ Say([talk EXCEPT !.prompt = "datetime",
                            !.pending = [NoPending EXCEPT !.kind = "datetime", !.when = m.when]])
  BY DEF guardOfferedSlotDateTimeCorrection
<1> DEFINE p == [NoPending EXCEPT !.kind = "datetime", !.when = m.when]
           u == [talk EXCEPT !.prompt = "datetime", !.pending = p]
<1>2. /\ talkTurn.stage # "idle" /\ GoodCopy(talk) /\ talk \in Drafts /\ talk.noProgress <= 2
      /\ talk.consent # talk.revision
  BY <1>1, FreeTalk
<1>3. p \in Pendings /\ p.kind = "datetime" /\ "datetime" \in Prompts
  BY <1>1, TalkBounds DEF Names, ActKinds, NoPending, Pendings, Prompts
<1>4. Say(u)
  BY <1>1
<1> HIDE DEF p
<1>5. Turned(talk, u, p)
  BY <1>2, <1>3, PromptedDraft
<1> HIDE DEF u
<1>6. u.noProgress <= 2 /\ OpenParty(u) /\ u \in Drafts /\ Carries(talk, u) /\ Payload(u) = Payload(talk)
  BY <1>2, <1>3, <1>5 DEF Turned, Carries, OpenParty
<1>7. GoodCopy(u)
  BY <1>2, <1>6, CarriedGood
<1> QED
  BY <1>2, <1>4, <1>7, GoodSay

LEMMA EditFallbackKeeps == TalkInv /\ semanticServiceEditFallback => TalkInv'
<1> SUFFICES ASSUME TalkInv, semanticServiceEditFallback
             PROVE  TalkInv'
  OBVIOUS
<1> DEFINE count == Escalation(talk, "semantic_add_or_replace")
           r == resetDialogProgress(talk)
<1>1. PICK s \in MenuServices :
        LET asked == [r EXCEPT !.phase = "clarifying", !.prompt = "semantic_add_or_replace",
                               !.noProgress = count,
                               !.pending = [NoPending EXCEPT !.kind = "edit", !.services = {s}]]
        IN  /\ FreeTurn
            /\ IF count >= 3 THEN saveHandoffTurn(asked, "handoff_requested") ELSE Say(asked)
  BY DEF semanticServiceEditFallback
<1> DEFINE p == [NoPending EXCEPT !.kind = "edit", !.services = {s}]
           u == [r EXCEPT !.phase = "clarifying", !.prompt = "semantic_add_or_replace",
                          !.noProgress = count, !.pending = p]
<1>2. /\ talkTurn.stage # "idle" /\ GoodCopy(talk) /\ talk \in Drafts /\ talk.noProgress <= 2
      /\ talk.consent # talk.revision /\ talk \in TalkRows
  BY <1>1, FreeTalk
<1>3. count \in 0 .. 3
  BY <1>2 DEF TalkRows, Escalation
<1>4. /\ Acted(talk, r) /\ r.accepted = FALSE /\ r \in TalkRows /\ r \in Drafts
  BY <1>2, ResetDraft DEF Acted, Drafts
<1>5. p \in Pendings /\ p.kind = "edit" /\ "semantic_add_or_replace" \in Prompts
  BY <1>1 DEF Times, Names, ActKinds, NoPending, Pendings, Prompts
<1>6. IF count >= 3 THEN saveHandoffTurn(u, "handoff_requested") ELSE Say(u)
  BY <1>1
<1> HIDE DEF p, r, count
<1>7. u \in TalkRows
  BY ONLY <1>3, <1>4, <1>5 DEF TalkRows
<1>8. /\ u.revision = r.revision /\ u.sequence = r.sequence /\ u.status = r.status
      /\ u.outcome = r.outcome /\ u.consent = r.consent /\ u.mode = r.mode
      /\ u.party = r.party /\ u.noProgress = count /\ u.phase = "clarifying"
      /\ u.accepted = r.accepted /\ u.reviewed = r.reviewed /\ u.authorized = r.authorized
      /\ u.offers = r.offers /\ u.when = r.when /\ u.history = r.history /\ u.pending = p
  BY <1>4 DEF TalkRows
<1> HIDE DEF u
<1>9. u \in Drafts
  BY <1>4, <1>7, <1>8 DEF Drafts
<1>10. ~ ReviewStands(u) /\ Carries(talk, u)
  BY <1>4, <1>8 DEF ReviewStands, Acted, Carries
<1>11. u.sequence = talk.sequence
  BY <1>10, <1>2 DEF Carries, GoodCopy
<1>12. CASE count >= 3
  BY <1>2, <1>6, <1>9, <1>11, <1>12, HandoffSaves
<1>13. CASE ~ count >= 3
  BY <1>2, <1>3, <1>5, <1>6, <1>8, <1>9, <1>10, <1>13, CarriedGood, GoodSay DEF OpenParty,
     Carries
<1> QED
  BY <1>12, <1>13

LEMMA QuestionKeeps == TalkInv /\ QuestionTurn => TalkInv'
<1> SUFFICES ASSUME TalkInv, QuestionTurn
             PROVE  TalkInv'
  OBVIOUS
<1> DEFINE cfg == talkTurn.cfg
<1>1. PICK m \in Mentions :
        LET t == applyExtraction(talk, m) IN
        /\ FreeTurn
        /\ IF planNextConversationAction(t, cfg) = "read_final_review" THEN SayReview(t, cfg)
           ELSE SayUnrevised(IF planNextConversationAction(t, cfg) = "ask_review_authorization"
                             THEN AskReview(t, cfg) ELSE t)
  BY DEF QuestionTurn
<1> DEFINE t == applyExtraction(talk, m)
           plan == planNextConversationAction(t, cfg)
<1>2. /\ talkTurn.stage # "idle" /\ GoodCopy(talk) /\ talk \in Drafts /\ talk.noProgress <= 2
      /\ talk.consent # talk.revision /\ talk.pending.kind \in {"none", "edit"}
  BY <1>1, FreeTalk
<1>3. t \in Drafts /\ Mentioned(talk, t)
  BY <1>1, <1>2, ExtractionDraft
<1>4. \/ plan = "read_final_review" /\ SayReview(t, cfg)
      \/ plan = "ask_review_authorization" /\ SayUnrevised(AskReview(t, cfg))
      \/ SayUnrevised(t)
  BY <1>1
<1> HIDE DEF t
<1>5. /\ Open(t) /\ OpenParty(t) /\ t.sequence = talk.sequence
      /\ t.consent # t.revision
      /\ ReviewStands(t) => ReviewStands(talk) /\ t.mode = talk.mode
  BY <1>2, <1>3 DEF Mentioned, Carries, GoodCopy, Open, OpenParty
<1>6. CASE plan = "read_final_review" /\ SayReview(t, cfg)
  BY <1>2, <1>3, <1>5, <1>6, ReviewSaves
<1>7. CASE plan = "ask_review_authorization" /\ SayUnrevised(AskReview(t, cfg))
  <2> DEFINE u == AskReview(t, cfg)
  <2>1. t.phase = "review" /\ t.mode = cfg.mode
    BY <1>3, <1>7, PlanMeans
  <2>2. Acted(t, u) /\ u \in Drafts /\ u.party = t.party /\ u.pending = NoPending
    BY <1>3, <2>1, ConfigTyped, AskedDraft
  <2>3. u.pending.kind = "none"
    BY <2>2, NothingPending
  <2> HIDE DEF u
  <2>4. /\ Open(u) /\ OpenParty(u) /\ u.sequence = talk.sequence
        /\ ReviewStands(u) => ReviewStands(talk) /\ u.mode = talk.mode
    BY <1>5, <2>2, <2>3 DEF Acted, Carries, Open, OpenParty
  <2> QED
    BY <1>2, <1>7, <2>2, <2>4, UnrevisedSaves DEF u
<1>8. CASE SayUnrevised(t)
  BY <1>2, <1>3, <1>5, <1>8, UnrevisedSaves
<1> QED
  BY <1>4, <1>6, <1>7, <1>8

LEMMA PartyPlanKeeps == TalkInv /\ PartyPlanOpen => TalkInv'
<1> SUFFICES ASSUME TalkInv, PartyPlanOpen
             PROVE  TalkInv'
  OBVIOUS
<1>1. PICK m \in Mentions :
        LET t == applyExtraction(talk, m) IN FreeTurn /\ Say([t EXCEPT !.party = "open"])
  BY DEF PartyPlanOpen
<1> DEFINE t == applyExtraction(talk, m)
           u == [t EXCEPT !.party = "open"]
<1>2. /\ talkTurn.stage # "idle" /\ GoodCopy(talk) /\ talk \in Drafts /\ talk.noProgress <= 2
      /\ talk.consent # talk.revision /\ talk.pending.kind \in {"none", "edit"}
  BY <1>1, FreeTalk
<1>3. t \in Drafts /\ Mentioned(talk, t)
  BY <1>1, <1>2, ExtractionDraft
<1>4. Say(u)
  BY <1>1
<1> HIDE DEF t
<1>5. u.party = "open" /\ u.pending = t.pending
  BY <1>3 DEF Drafts, TalkRows
<1>6. Acted(t, u)
  <2>1. /\ {} \in SUBSET MenuServices /\ <<>> \in Seq(SUBSET MenuServices) /\ Len(<<>>) <= HistoryLimit
        /\ "open" \in {"none", "open", "whole"}
    BY TalkBounds, EmptySeq
  <2> QED
    BY <1>3, <2>1, ServicesActed
<1> HIDE DEF u
<1>7. /\ Open(u) /\ OpenParty(u) /\ u.sequence = talk.sequence /\ u \in Drafts
  BY <1>2, <1>3, <1>5, <1>6 DEF Acted, Mentioned, Carries, GoodCopy, Open, OpenParty
<1>8. GoodCopy(u)
  BY <1>5, <1>7 DEF GoodCopy, Kept
<1> QED
  BY <1>2, <1>4, <1>8, GoodSay

LEMMA NamePendingKeeps == TalkInv /\ NamePending => TalkInv'
<1> SUFFICES ASSUME TalkInv, NamePending
             PROVE  TalkInv'
  OBVIOUS
<1>1. PICK name \in CallerNames, m \in Mentions :
        LET t == advanceDraftRevision(talk, [applyExtraction(talk, m) EXCEPT !.name = NoName])
        IN  /\ FreeTurn /\ talk.party # "open"
            /\ Say([t EXCEPT !.pending = [NoPending EXCEPT !.kind = "name", !.name = name]])
  BY DEF NamePending
<1> DEFINE x == applyExtraction(talk, m)
           v == [x EXCEPT !.name = NoName]
           t == advanceDraftRevision(talk, v)
           p == [NoPending EXCEPT !.kind = "name", !.name = name]
           u == [t EXCEPT !.pending = p]
<1>2. /\ talkTurn.stage # "idle" /\ GoodCopy(talk) /\ talk \in Drafts /\ talk.noProgress <= 2
      /\ talk.consent # talk.revision /\ talk.pending.kind \in {"none", "edit"}
  BY <1>1, FreeTalk
<1>3. x \in Drafts /\ Mentioned(talk, x)
  BY <1>1, <1>2, ExtractionDraft
<1>4. Say(u)
  BY <1>1
<1>5. p \in Pendings /\ p.kind = "name"
  BY <1>1 DEF Times, Names, ActKinds, NoPending, Pendings
<1> HIDE DEF x, p
<1>6. NoName \in Names
  BY DEF Names
<1>7. v \in Drafts /\ Mentioned(x, v)
  BY <1>3, <1>6, NamedDraft
<1> HIDE DEF v
<1>8. /\ Carries(talk, v) /\ v.noProgress <= 2 /\ v.pending.kind \notin {"fuzzy", "name"}
      /\ v.party # "open"
  BY <1>1, <1>2, <1>3, <1>7, CarriesTransitive DEF Mentioned
<1>9. GoodCopy(t) /\ t.party # "open"
  BY <1>2, <1>7, <1>8, AdvancedGood, AdvancedDraft DEF Carries, Advanced
<1> HIDE DEF t
<1>10. Turned(t, u, p)
  BY <1>5, <1>9, PendingDraft DEF GoodCopy
<1> HIDE DEF u
<1>11. /\ u.noProgress <= 2 /\ OpenParty(u) /\ u \in Drafts /\ Carries(t, u) /\ Payload(u) = Payload(t)
  BY <1>9, <1>10 DEF Turned, GoodCopy, Open, OpenParty, Payload
<1>12. GoodCopy(u)
  BY <1>9, <1>11, CarriedGood
<1> QED
  BY <1>2, <1>4, <1>12, GoodSay

-----------------------------------------------------------------------------
(* The booking turn and its execution.                                     *)

LEMMA FinishSaves ==
    ASSUME TalkInv, talkTurn.stage # "idle", NEW t, Going(t), NEW acted, NEW selected,
           FinishTurn(t, acted, selected)
    PROVE  TalkInv'
<1>1. GoodCopy(t)
  BY DEF Going
<1>2. \/ Resume(t, talkTurn.cfg)
      \/ saveHandoffTurn(t, "handoff_requested") \/ saveHandoffTurn(t, "ai_disabled")
      \/ Say(t)
      \/ SettleTime(talk, t, talkTurn.cfg, selected)
  BY DEF FinishTurn
<1>3. CASE Resume(t, talkTurn.cfg)
  BY <1>1, <1>3, ResumeSaves
<1>4. CASE saveHandoffTurn(t, "handoff_requested") \/ saveHandoffTurn(t, "ai_disabled")
  BY <1>1, <1>4, GoodHandoff
<1>5. CASE Say(t)
  BY <1>1, <1>5, GoodSay
<1>6. CASE SettleTime(talk, t, talkTurn.cfg, selected)
  BY <1>6, SettleSaves
<1> QED
  BY <1>2, <1>3, <1>4, <1>5, <1>6

LEMMA UnderstoodSaves ==
    ASSUME TalkInv, FreeTurn, NEW m \in Mentions, NEW act \in Acts, NEW slot \in Times,
           NEW guests \in SUBSET MenuServices,
           talk.party # "open" \/ (guests # {} /\ act = NoAct),
           Understood(m, act, slot, guests)
    PROVE  TalkInv'
<1> DEFINE t0 == applyExtraction(talk, m)
           t1 == PartyResolved(t0, guests)
           r == applyTurnUnderstandingToDraft(t1, act)
           t == IF slot # 0 /\ m.staff = "none" THEN applySelectedOfferedSlot(r.talk, slot)
                ELSE r.talk
           w == invalidateCarriedAvailabilityProof(talk, t)
           next == advanceDraftRevision(talk, w)
<1>1. \/ r.escalate /\ saveHandoffTurn(r.talk, "handoff_requested")
      \/ ~ r.escalate /\ r.clarify /\ SayUnrevised(r.talk)
      \/ ~ r.escalate /\ ~ r.clarify /\ FinishTurn(next, act.kind # "none", slot # 0)
  BY DEF Understood
<1>2. /\ talkTurn.stage # "idle" /\ GoodCopy(talk) /\ talk \in Drafts /\ talk.noProgress <= 2
      /\ talk.consent # talk.revision /\ talk.pending.kind \in {"none", "edit"}
  BY FreeTalk
<1>3. t0 \in Drafts /\ Mentioned(talk, t0)
  BY <1>2, ExtractionDraft
<1> HIDE DEF t0
<1>4. Acted(t0, t1) /\ (guests # {} => t1.party = "whole")
  BY <1>3, PartyResolvedDraft
<1> HIDE DEF t1
<1>5. Acted(talk, t1) /\ t1 \in Drafts /\ t1.noProgress <= 2
  BY <1>2, <1>3, <1>4, MentionedActs, ActedTransitive DEF Acted
<1>6. Reduction(t1, r)
  BY <1>5, UnderstoodDraft
<1>7. act = NoAct => r.talk = t1
  <2> SUFFICES ASSUME act = NoAct PROVE r.talk = t1
    OBVIOUS
  <2>1. act.kind = "none"
    BY DEF NoAct
  <2>2. applyConversationActToDraft(t1, act) = Reduced(t1)
    BY <2>1 DEF applyConversationActToDraft
  <2>3. r = Reduced(t1)
    BY <2>1, <2>2 DEF applyTurnUnderstandingToDraft, ServiceActs
  <2> QED
    BY <2>3 DEF Reduced
<1> HIDE DEF r
<1>8. CASE r.escalate /\ saveHandoffTurn(r.talk, "handoff_requested")
  BY <1>2, <1>5, <1>6, <1>8, HandoffSaves DEF Reduction, Acted, Carries
<1>9. CASE ~ r.escalate /\ r.clarify /\ SayUnrevised(r.talk)
  BY <1>2, <1>5, <1>6, <1>9, ActedTransitive, UnrevisedSaves DEF Reduction, Acted, Carries,
     GoodCopy, Open, OpenParty
<1>10. CASE ~ r.escalate /\ ~ r.clarify /\ FinishTurn(next, act.kind # "none", slot # 0)
  <2>1. Acted(talk, r.talk) /\ r.talk \in Drafts
    BY <1>5, <1>6, <1>10, ActedTransitive DEF Reduction, Acted
  <2>2. t \in Drafts /\ Mentioned(r.talk, t)
    BY <2>1, MentionedReflexive, SelectedSlotDraft
  <2> HIDE DEF t
  <2>3. w \in Drafts /\ Mentioned(t, w)
    BY <2>2, ProofInvalidated
  <2> HIDE DEF w
  <2>4. /\ Carries(talk, w) /\ w.noProgress <= 2 /\ w.pending.kind \in {"none", "edit"}
        /\ w.party = r.talk.party
    BY <1>2, <2>1, <2>2, <2>3, CarriesTransitive DEF Acted, Mentioned
  <2>5. w.party = "open" => talk.party # "open"
    BY <1>4, <1>7, <2>4
  <2>6. Going(next)
    BY <1>2, <2>3, <2>4, <2>5, AdvancedGood
  <2> HIDE DEF next
  <2> QED
    BY <1>2, <1>10, <2>6, FinishSaves
<1> HIDE DEF next, w, t
<1> QED
  BY <1>1, <1>8, <1>9, <1>10

LEMMA BookingTurnKeeps == TalkInv /\ BookingTurn => TalkInv'
<1> SUFFICES ASSUME TalkInv, BookingTurn
             PROVE  TalkInv'
  OBVIOUS
<1>1. /\ FreeTurn
      /\ \E m \in Mentions :
         \/ talk.party # "open" /\ \E act \in ConversationActs : Understood(m, act, 0, {})
         \/ talk.party # "open" /\ \E slot \in talk.offers : Understood(m, NoAct, slot, {})
         \/ \E guests \in (SUBSET MenuServices) \ {{}} : Understood(m, NoAct, 0, guests)
  BY DEF BookingTurn
<1>2. talk \in TalkRows
  BY <1>1, FreeTalk
<1>3. ConversationActs \subseteq Acts /\ NoAct \in Acts
  BY ActsTyped
<1>4. 0 \in Times /\ talk.offers \subseteq Times /\ {} \in SUBSET MenuServices
  BY <1>2 DEF Times, TalkRows
<1>5. PICK m \in Mentions :
         \/ talk.party # "open" /\ \E act \in ConversationActs : Understood(m, act, 0, {})
         \/ talk.party # "open" /\ \E slot \in talk.offers : Understood(m, NoAct, slot, {})
         \/ \E guests \in (SUBSET MenuServices) \ {{}} : Understood(m, NoAct, 0, guests)
  BY <1>1
<1>6. CASE talk.party # "open" /\ \E act \in ConversationActs : Understood(m, act, 0, {})
  <2>1. PICK act \in ConversationActs : Understood(m, act, 0, {})
    BY <1>6
  <2>2. act \in Acts
    BY <1>3, <2>1
  <2> QED
    BY <1>1, <1>4, <1>6, <2>1, <2>2, UnderstoodSaves
<1>7. CASE talk.party # "open" /\ \E slot \in talk.offers : Understood(m, NoAct, slot, {})
  <2>1. PICK slot \in talk.offers : Understood(m, NoAct, slot, {})
    BY <1>7
  <2>2. slot \in Times
    BY <1>4, <2>1
  <2> QED
    BY <1>1, <1>3, <1>4, <1>7, <2>1, <2>2, UnderstoodSaves
<1>8. CASE \E guests \in (SUBSET MenuServices) \ {{}} : Understood(m, NoAct, 0, guests)
  <2>1. PICK guests \in (SUBSET MenuServices) \ {{}} : Understood(m, NoAct, 0, guests)
    BY <1>8
  <2>2. guests \in SUBSET MenuServices /\ guests \notin {{}}
    BY ONLY <2>1
  <2>3. guests # {}
    BY ONLY <2>2
  <2> QED
    BY <1>1, <1>3, <1>4, <2>1, <2>2, <2>3, UnderstoodSaves
<1> QED
  BY <1>5, <1>6, <1>7, <1>8

LEMMA ReofferedDraft ==
    ASSUME NEW t \in Drafts, Open(t), t.party # "open"
    PROVE  LET u == Reoffered(t) IN
           /\ u \in Drafts /\ Open(u) /\ OpenParty(u) /\ ~ ReviewStands(u) /\ u.when = 0
           /\ u.sequence \in {t.sequence, t.sequence + 1} /\ u.status = "active"
<1> DEFINE r == resetDialogProgress(t)
           q == NextSequence(t)
           u == [r EXCEPT !.sequence = q, !.when = 0, !.quote = NoQuote, !.offers = {}]
<1>1. /\ Acted(t, r) /\ r.accepted = FALSE /\ r.reviewed = 0 /\ r.noProgress = 0
      /\ r.pending = NoPending /\ r.party = t.party /\ r \in Drafts
  BY ResetDraft DEF Acted
<1>2. r \in TalkRows /\ t \in TalkRows /\ t.sequence \in Nat
  BY <1>1 DEF Drafts, TalkRows
<1>3. q \in Nat /\ q \in {t.sequence, t.sequence + 1}
  BY <1>2 DEF NextSequence
<1>4. NoQuote \in [services : SUBSET MenuServices, when : Times, staff : {"any", "x"}] /\ 0 \in Times
  BY DEF NoQuote, Times
<1>5. Reoffered(t) = u
  BY DEF Reoffered
<1> HIDE DEF r, q
<1>6. u \in TalkRows
  BY <1>2, <1>3, <1>4 DEF TalkRows
<1>7. /\ u.revision = r.revision /\ u.sequence = q /\ u.status = r.status
      /\ u.outcome = r.outcome /\ u.consent = r.consent /\ u.mode = r.mode
      /\ u.party = r.party /\ u.noProgress = r.noProgress /\ u.phase = r.phase
      /\ u.accepted = r.accepted /\ u.reviewed = r.reviewed /\ u.authorized = r.authorized
      /\ u.offers = {} /\ u.when = 0 /\ u.history = r.history /\ u.pending = r.pending
  BY <1>2 DEF TalkRows
<1> HIDE DEF u
<1>8. u \in Drafts
  BY <1>1, <1>6, <1>7 DEF Drafts
<1>9. 1 <= r.revision
  BY <1>1 DEF Drafts
<1>10. ~ ReviewStands(u)
  BY <1>1, <1>7, <1>9 DEF ReviewStands
<1>11. Open(u) /\ OpenParty(u) /\ u.status = "active"
  BY <1>1, <1>7 DEF Open, OpenParty, Acted, Carries
<1> QED
  BY <1>3, <1>5, <1>7, <1>8, <1>10, <1>11

LEMMA ExecutedDraft ==
    ASSUME NEW t \in Drafts, NEW kind \in Kinds
    PROVE  LET u == Executed(t, kind) IN
           /\ u \in Drafts /\ u.status = "completed" /\ u.sequence = t.sequence
           /\ Payload(u) = Payload(t)
           /\ u.outcome = "booking_confirmed" => kind = "confirmed"
<1> DEFINE o == ExecutionOutcomes[kind]
           u == [t EXCEPT !.status = "completed", !.outcome = o, !.offers = {}]
<1>0. t \in TalkRows
  BY DEF Drafts
<1>1. o \in TalkOutcomes /\ (o = "booking_confirmed" => kind = "confirmed")
  BY DEF Kinds, ExecutionOutcomes, TalkOutcomes
<1>2. Executed(t, kind) = u
  BY DEF Executed
<1> HIDE DEF o
<1>3. u \in TalkRows
  BY <1>0, <1>1 DEF TalkRows
<1>4. /\ u.revision = t.revision /\ u.sequence = t.sequence /\ u.status = "completed"
      /\ u.outcome = o /\ u.consent = t.consent /\ u.reviewed = t.reviewed
      /\ u.authorized = t.authorized /\ u.offers = {} /\ u.when = t.when /\ u.history = t.history
      /\ u.services = t.services /\ u.staff = t.staff /\ u.name = t.name /\ u.party = t.party
  BY <1>0 DEF TalkRows
<1> HIDE DEF u
<1>5. u \in Drafts /\ Payload(u) = Payload(t)
  BY <1>3, <1>4 DEF Drafts, Payload
<1> QED
  BY <1>1, <1>2, <1>4, <1>5

(* What was executed, now or before, is told when the turn is saved.       *)
LEMMA SavingStage ==
    ASSUME TalkInv, talkTurn.stage = "executing", NEW kind \in Kinds,
           DOMAIN operations' \subseteq {OperationKey(talk)},
           OperationKey(talk) \in DOMAIN operations',
           operations'[OperationKey(talk)].kind = kind,
           operations'[OperationKey(talk)].payload = Payload(talkTurn.talk),
           OpSoundTalk(operations'[OperationKey(talk)]),
           talkTurn' = [talkTurn EXCEPT !.stage = "saving", !.talk = Executed(talkTurn.talk, kind)],
           UNCHANGED <<talk, policy, heard, talkBudget>>
    PROVE  TalkInv'
<1> DEFINE t == talkTurn.talk
           u == Executed(t, kind)
<1>1. t \in Drafts /\ talk.status = "active" /\ t.sequence = talk.sequence /\ talkTurn \in Turns
      /\ talkTurn.cfg \in Policies /\ talk.outcome = "collecting"
  BY DEF TalkInv, TalkRowsOK, TurnFits, SavedFits, Open
<1>2. /\ u \in Drafts /\ u.status = "completed" /\ u.sequence = t.sequence
      /\ Payload(u) = Payload(t) /\ (u.outcome = "booking_confirmed" => kind = "confirmed")
  BY <1>1, ExecutedDraft
<1> HIDE DEF u
<1>3. u \in TalkRows
  BY <1>2 DEF Drafts
<1>4. talkTurn' \in Turns /\ talkTurn'.stage = "saving" /\ talkTurn'.talk = u
      /\ talkTurn'.cfg = talkTurn.cfg
  BY <1>1, <1>3 DEF Turns, u
<1>5. TalkRowsOK'
  BY <1>4 DEF TalkInv, TalkRowsOK
<1>6. SavedFits'
  BY <1>1 DEF TalkInv, SavedFits, Told
<1>7. Told(u, operations')
  BY <1>1, <1>2 DEF Told, OperationKey
<1>8. TurnFits'
  BY <1>1, <1>2, <1>4, <1>7 DEF TurnFits
<1>9. OperationsFit'
  BY DEF OperationsFit, Ops, OperationKey
<1>10. BudgetFits'
  BY <1>4 DEF TalkInv, BudgetFits
<1> QED
  BY <1>5, <1>6, <1>8, <1>9, <1>10 DEF TalkInv

LEMMA ExecuteKeeps == TalkInv /\ ExecuteConversationAction => TalkInv'
<1> SUFFICES ASSUME TalkInv, ExecuteConversationAction
             PROVE  TalkInv'
  OBVIOUS
<1> DEFINE t == talkTurn.talk
           key == OperationKey(t)
           fence == ReviewedFence(t, talkTurn.cfg)
           done(kind) == /\ talkTurn' = [talkTurn EXCEPT !.stage = "saving", !.talk = Executed(t, kind)]
                         /\ UNCHANGED <<talk, policy, heard, talkBudget>>
<1>1. /\ talkTurn.stage = "executing" /\ t \in Drafts /\ t.sequence = talk.sequence /\ Open(t)
      /\ AsHeard(t, heard) /\ t.party # "open" /\ t.mode = talkTurn.cfg.mode
      /\ talkTurn.cfg \in Policies
  BY DEF ExecuteConversationAction, TalkInv, TurnFits
<1>2. /\ key = OperationKey(talk) /\ DOMAIN operations \subseteq {key}
      /\ \A k \in DOMAIN operations : OpSoundTalk(operations[k])
      /\ heard \in Heards
  BY <1>1 DEF TalkInv, TalkRowsOK, OperationsFit, Ops, OperationKey
<1>3. \/ saveHandoffTurn(t, "handoff_requested")
      \/ /\ key \in DOMAIN operations /\ operations[key].payload = Payload(t)
         /\ done(operations[key].kind) /\ operations' = operations
      \/ /\ key \notin DOMAIN operations /\ FencePasses(fence)
         /\ \E kind \in Results(fence) : Record(t, kind) /\ done(kind)
      \/ /\ key \notin DOMAIN operations
         /\ \/ Say(Reoffered(t))
            \/ \E offered \in offerAvailableSlots(Reoffered(t)) : Say(offered)
  BY DEF ExecuteConversationAction
<1>4. CASE saveHandoffTurn(t, "handoff_requested")
  BY <1>1, <1>4, HandoffSaves
<1>5. CASE /\ key \in DOMAIN operations /\ operations[key].payload = Payload(t)
           /\ done(operations[key].kind) /\ operations' = operations
  <2>1. operations[key].kind \in Kinds
    BY <1>2, <1>5 DEF OpSoundTalk, TalkOperations
  <2> QED
    BY <1>1, <1>2, <1>5, <2>1, SavingStage
<1>6. CASE /\ key \notin DOMAIN operations /\ FencePasses(fence)
           /\ \E kind \in Results(fence) : Record(t, kind) /\ done(kind)
  <2>1. PICK kind \in Results(fence) : Record(t, kind) /\ done(kind)
    BY <1>6
  <2>2. kind \in Kinds
    BY <2>1 DEF Results, Kinds
  <2>3. policy.mode = t.mode /\ t.mode \in ReviewModes
    <3>1. fence.mode = policy.mode
      BY <1>6 DEF FencePasses
    <3>2. t.mode \in ReviewModes
      BY <1>1 DEF Drafts, TalkRows
    <3>3. fence.mode = t.mode
      BY <1>1 DEF ReviewedFence
    <3> QED
      BY <3>1, <3>2, <3>3
  <2> DEFINE op == [kind |-> kind, payload |-> Payload(t), mode |-> policy.mode, heard |-> heard]
  <2>4. DOMAIN operations' = {key} /\ operations'[key] = op
    BY <1>2, <2>1 DEF Record
  <2>5. OpSoundTalk(op)
    BY <1>1, <1>2, <2>2, <2>3 DEF Drafts, TalkRows, Payload, Payloads, TalkOperations,
       OpSoundTalk, AsHeard
  <2>6. op.kind = kind /\ op.payload = Payload(t)
    OBVIOUS
  <2> HIDE DEF op, key
  <2>7. /\ DOMAIN operations' \subseteq {OperationKey(talk)}
        /\ OperationKey(talk) \in DOMAIN operations'
        /\ operations'[OperationKey(talk)].kind = kind
        /\ operations'[OperationKey(talk)].payload = Payload(t)
        /\ OpSoundTalk(operations'[OperationKey(talk)])
    BY <1>2, <2>4, <2>5, <2>6
  <2> QED
    BY <1>1, <2>1, <2>2, <2>7, SavingStage
<1>7. CASE /\ key \notin DOMAIN operations
           /\ \/ Say(Reoffered(t))
              \/ \E offered \in offerAvailableSlots(Reoffered(t)) : Say(offered)
  <2> DEFINE u == Reoffered(t)
  <2>1. DOMAIN operations = {}
    BY <1>2, <1>7
  <2>2. /\ u \in Drafts /\ Open(u) /\ OpenParty(u) /\ ~ ReviewStands(u) /\ u.when = 0
        /\ u.sequence \in {t.sequence, t.sequence + 1} /\ u.status = "active"
    BY <1>1, ReofferedDraft
  <2>3. PICK v : Say(v) /\ (v = u \/ v \in offerAvailableSlots(u))
    BY <1>7
  <2> HIDE DEF u
  <2>4. v \in Drafts /\ Mentioned(u, v) /\ v.when = 0
    <3>1. CASE v = u
      BY <2>2, <3>1, MentionedReflexive
    <3>2. CASE v \in offerAvailableSlots(u)
      <4>1. \/ v = [RequestOnly(u) EXCEPT !.when = 0]
            \/ \E slots \in SUBSET OpenSlots : v = Offered(u, slots)
        BY <3>2 DEF offerAvailableSlots
      <4> QED
        BY <2>2, <4>1, ConfigTyped, OfferedDraft
    <3> QED
      BY <2>3, <3>1, <3>2
  <2>5. Open(v) /\ OpenParty(v) /\ v.sequence = u.sequence
    BY <2>2, <2>4 DEF Mentioned, Carries, Open, OpenParty
  <2>6. Kept(v, heard)
    BY <2>4 DEF Kept
  <2>7. Told(v, operations) /\ Ops(operations, v)
    BY <2>1, <2>5 DEF Told, Open, Ops
  <2>8. SaveFits(v)
    BY <1>1, <2>2, <2>4, <2>5, <2>6, <2>7 DEF SaveFits
  <2> QED
    BY <1>1, <2>3, <2>8, SaySaves
<1> QED
  BY <1>3, <1>4, <1>5, <1>6, <1>7

-----------------------------------------------------------------------------

LEMMA TalkInitial == TalkInit => TalkInv
<1> SUFFICES ASSUME TalkInit
             PROVE  TalkInv
  OBVIOUS
<1>1. /\ talk = NewTalk /\ policy \in Policies /\ talkTurn = IdleTurn /\ operations = <<>>
      /\ heard = [payload |-> Payload(NewTalk), mode |-> "", aside |-> FALSE]
      /\ talkBudget = [turns |-> MaxTalkTurns, policies |-> MaxPolicyChanges]
  BY DEF TalkInit
<1>2. heard \in Heards
  <2>1. Payload(NewTalk) \in Payloads /\ "" \in ReviewModes
    BY NewTalkDraft DEF ReviewModes
  <2> QED
    BY ONLY <1>1, <2>1 DEF Heards
<1>3. talkBudget \in TalkBudgets /\ talkBudget.turns = MaxTalkTurns
  <2>1. MaxTalkTurns \in 0 .. MaxTalkTurns /\ MaxPolicyChanges \in 0 .. MaxPolicyChanges
    BY TalkBounds
  <2> QED
    BY ONLY <1>1, <2>1 DEF TalkBudgets
<1>4. TalkRowsOK
  BY <1>1, <1>2, <1>3, NewTalkDraft DEF TalkRowsOK
<1>5. SavedFits
  <2>1. /\ talk.status = "active" /\ talk.outcome = "collecting" /\ talk.noProgress = 0
        /\ talk.party = "none" /\ ~ ReviewStands(talk)
    BY <1>1, NewTalkDraft
  <2>2. Open(talk) /\ OpenParty(talk) /\ Kept(talk, heard) /\ Told(talk, operations)
    BY ONLY <2>1 DEF Open, OpenParty, Kept, Told
  <2> QED
    BY <2>2 DEF SavedFits
<1>6. TurnFits
  BY <1>1, NewTalkDraft DEF TurnFits
<1>7. OperationsFit
  <2>1. DOMAIN operations = {}
    <3>1. operations \in Seq({}) /\ Len(operations) = 0
      BY <1>1, EmptySeq
    <3> QED
      BY ONLY <3>1, LenProperties
  <2> QED
    BY ONLY <2>1 DEF OperationsFit, Ops
<1>8. BudgetFits
  <2>1. talk.sequence = 0 /\ talkTurn.stage = "idle" /\ MaxTalkTurns \in Nat
    BY <1>1, NewTalkDraft, TalkBounds
  <2> QED
    BY ONLY <1>3, <2>1 DEF BudgetFits
<1> QED
  BY <1>4, <1>5, <1>6, <1>7, <1>8 DEF TalkInv

LEMMA TalkInductive == TalkInv /\ [TalkNext]_talkVars => TalkInv'
<1> SUFFICES ASSUME TalkInv, [TalkNext]_talkVars
             PROVE  TalkInv'
  OBVIOUS
<1>1. CASE TalkNext
  BY <1>1, LoadTurnKeeps, TurnDiesKeeps, ChangePolicyKeeps, ConsentKeeps, FuzzyKeeps, DateTimeKeeps,
     NameKeeps, AsideKeeps, FuzzyStarts, SlotsNarrowedKeeps, CorrectionGuardKeeps, EditFallbackKeeps,
     QuestionKeeps, PartyPlanKeeps, NamePendingKeeps, BookingTurnKeeps, NeutralBookingKeeps,
     ExecuteKeeps, SaveExecutedKeeps
     DEF TalkNext
<1>2. CASE UNCHANGED talkVars
  BY <1>2 DEF talkVars, TalkInv, TalkRowsOK, SavedFits, TurnFits, OperationsFit, BudgetFits,
              Ops, Told, OperationKey
<1> QED
  BY <1>1, <1>2

LEMMA TalkSafe == TalkInv => TalkTypeOK /\ ExecutedAsHeard /\ BookedOnceAsTold
<1> SUFFICES ASSUME TalkInv
             PROVE  TalkTypeOK /\ ExecutedAsHeard /\ BookedOnceAsTold
  OBVIOUS
<1>1. /\ talk \in Drafts /\ talk \in TalkRows /\ talkTurn \in Turns /\ policy \in Policies
      /\ talkBudget \in TalkBudgets
  BY DEF TalkInv, TalkRowsOK, Drafts
<1>2. DOMAIN operations \subseteq {talk.sequence} /\ talk.sequence \in 0 .. MaxTalkTurns
  <2>1. talk.sequence \in Nat /\ talkBudget.turns \in Nat /\ MaxTalkTurns \in Nat
    BY <1>1, TalkBounds DEF TalkRows, TalkBudgets
  <2>2. talk.sequence + talkBudget.turns + (IF talkTurn.stage = "idle" THEN 0 ELSE 1) <= MaxTalkTurns
    BY DEF TalkInv, BudgetFits
  <2>3. talk.sequence <= MaxTalkTurns
    BY ONLY <2>1, <2>2
  <2> QED
    BY <2>1, <2>3 DEF TalkInv, OperationsFit, Ops, OperationKey
<1>3. TalkTypeOK
  BY <1>1, <1>2 DEF Drafts, TalkRows, Times, Turns, TalkTypeOK
<1>4. ExecutedAsHeard
  BY DEF TalkInv, OperationsFit, OpSoundTalk, ExecutedAsHeard
<1>5. BookedOnceAsTold
  <2> DEFINE K == {k \in DOMAIN operations : operations[k].kind = "confirmed"}
  <2>1. K \subseteq {talk.sequence}
    BY <1>2
  <2>2. IsFiniteSet({talk.sequence}) /\ Cardinality({talk.sequence}) = 1
    BY FS_Singleton
  <2> HIDE DEF K
  <2>3. IsFiniteSet(K) /\ Cardinality(K) <= 1
    BY <2>1, <2>2, FS_Subset
  <2>4. talk.outcome = "booking_confirmed" =>
           \E k \in DOMAIN operations :
               operations[k].kind = "confirmed" /\ operations[k].payload = Payload(talk)
    BY DEF TalkInv, SavedFits, Told
  <2> QED
    BY <2>3, <2>4 DEF K, BookedOnceAsTold
<1> QED
  BY <1>3, <1>4, <1>5

(******************************* What is proved *******************************)

THEOREM AnswerInvariant == AnswerSpec => []AnswerInv
BY AnswerInitial, AnswerInductive, PTL DEF AnswerSpec

(* KnownOfOneMoment: what a turn tells of the salon (loadFreshAnswerContext *)
(* reads part after part, and the cache keeps earlier answers) is what the  *)
(* salon was at one moment.                                                 *)
THEOREM AnswersStayOfOneMoment == AnswerSpec => []KnownOfOneMoment
BY AnswerInvariant, AnswersOfOneMoment, PTL

THEOREM QuoteInvariant == QuoteSpec => []QuoteInv
BY QuoteInitial, QuoteInductive, PTL DEF QuoteSpec

(* ClaimedAsOffered: claimPendingOperation takes the opening as it was       *)
(* offered, of the location and the import it was computed from, once.      *)
THEOREM QuotesStayAsOffered == QuoteSpec => []ClaimedAsOffered
BY QuoteInvariant, QuotesClaimedAsOffered, PTL

THEOREM GuideInvariant == GuideSpec => []GuideInv
BY GuideInitial, GuideInductive, PTL DEF GuideSpec

(* BookedAsRecommended: the service that goes on to booking after guidance   *)
(* is one the caller was last told of, whatever the owner edits in between. *)
THEOREM GuidanceStaysAsTold == GuideSpec => []BookedAsRecommended
BY GuideInvariant, GuideSafe, PTL

THEOREM LifeInvariant == LifeSpec => []LifeInv
BY LifeInitial, LifeInductive, PTL DEF LifeSpec

(* ChangedAsApproved: an appointment is moved or cancelled as the caller     *)
(* approved it, and as it was then.                                         *)
THEOREM LifecycleStaysApproved == LifeSpec => []ChangedAsApproved
BY LifeInvariant, LifeSafe, PTL

(* LifecycleToldTruly: a move or a cancellation the caller is told of did    *)
(* happen.                                                                  *)
THEOREM LifecycleStaysTrue == LifeSpec => []LifecycleToldTruly
BY LifeInvariant, LifeSafe, PTL

THEOREM TalkInvariant == TalkSpec => []TalkInv
BY TalkInitial, TalkInductive, PTL DEF TalkSpec

(* ExecutedAsHeard: nothing is booked but the draft that was read out        *)
(* (finalBookingReviewPrompt), under the mode it was read for, but for       *)
(* details kept without a new revision.                                     *)
THEOREM DialogueStaysHeard == TalkSpec => []ExecutedAsHeard
BY TalkInvariant, TalkSafe, PTL

(* BookedOnceAsTold: conversationOperationKey names one booking a call,      *)
(* however many turns execute it, and a confirmation that is told is its.   *)
THEOREM DialogueBooksOnce == TalkSpec => []BookedOnceAsTold
BY TalkInvariant, TalkSafe, PTL

-----------------------------------------------------------------------------
(* The parts together: a behaviour of the run is one of each part.          *)

LEMMA ConversationBegin ==
    MCInit => TalkInit /\ LifeInit /\ GuideInit /\ AnswerInit /\ QuoteInit
BY DEF MCInit

LEMMA ConversationStep ==
    [MCNext]_allVars => /\ [TalkNext]_talkVars /\ [LifeNext]_lifeVars /\ [GuideNext]_guideVars
                        /\ [AnswerNext]_answerVars /\ [QuoteNext]_quoteVars
<1> SUFFICES ASSUME [MCNext]_allVars
             PROVE  /\ [TalkNext]_talkVars /\ [LifeNext]_lifeVars /\ [GuideNext]_guideVars
                    /\ [AnswerNext]_answerVars /\ [QuoteNext]_quoteVars
  OBVIOUS
<1>1. CASE UNCHANGED allVars
  BY <1>1 DEF allVars
<1>2. CASE MCNext
  BY <1>2 DEF MCNext
<1> QED BY <1>1, <1>2

LEMMA PartsAreKept == MCSpec => TalkSpec /\ LifeSpec /\ GuideSpec /\ AnswerSpec /\ QuoteSpec
BY ConversationBegin, ConversationStep, PTL
   DEF MCSpec, TalkSpec, LifeSpec, GuideSpec, AnswerSpec, QuoteSpec

(* DoneAsAgreed: what is booked, moved or cancelled is what the caller       *)
(* agreed to, in every behaviour of the conversation.                       *)
THEOREM ConversationDoesAsAgreed == MCSpec => []DoneAsAgreed
<1>1. ExecutedAsHeard /\ ChangedAsApproved /\ BookedAsRecommended => DoneAsAgreed
  BY DEF DoneAsAgreed
<1> QED
  BY <1>1, PartsAreKept, DialogueStaysHeard, LifecycleStaysApproved, GuidanceStaysAsTold, PTL

(* ToldAsDone: a call books at most once, and what it is told of a booking,  *)
(* a move or a cancellation did happen.                                     *)
THEOREM ConversationTellsTruly == MCSpec => []ToldAsDone
<1>1. BookedOnceAsTold /\ LifecycleToldTruly => ToldAsDone
  BY DEF ToldAsDone
<1> QED
  BY <1>1, PartsAreKept, DialogueBooksOnce, LifecycleStaysTrue, PTL

(* OfferedFromOneMoment: a slot is claimed as it was offered and a question  *)
(* is answered from one state of the salon.                                 *)
THEOREM ConversationOffersFromOneMoment == MCSpec => []OfferedFromOneMoment
<1>1. ClaimedAsOffered /\ KnownOfOneMoment => OfferedFromOneMoment
  BY DEF OfferedFromOneMoment
<1> QED
  BY <1>1, PartsAreKept, QuotesStayAsOffered, AnswersStayOfOneMoment, PTL

(* ConversationTypeOK: the variables of every part hold what its tables and  *)
(* memory hold.                                                             *)
THEOREM ConversationTyped == MCSpec => []ConversationTypeOK
<1>1. TalkInv /\ LifeInv /\ GuideInv /\ AnswerInv /\ QuoteInv => ConversationTypeOK
  BY TalkSafe, LifeSafe, GuideSafe, AnswersOfOneMoment, QuotesClaimedAsOffered
     DEF ConversationTypeOK
<1> QED
  BY <1>1, PartsAreKept, TalkInvariant, LifeInvariant, GuideInvariant, AnswerInvariant,
     QuoteInvariant, PTL
=============================================================================
