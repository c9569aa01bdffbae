--------------------------- MODULE JobLeaseProofs ---------------------------
(***************************************************************************)
(* Theorems about JobLease: its two ledgers agree, only a run's owner or   *)
(* the expiry of its lease ends it, a recorded success is earned, and a    *)
(* replica that keeps its heartbeats executes its job alone.               *)
(***************************************************************************)
EXTENDS JobLease, SequenceTheorems, TLAPS

-----------------------------------------------------------------------------
(* The inductive invariant *)

\* A replica past its claim holds a run.
RunIsHeld ==
  \A w \in Workers : phase[w] \in {"executing", "returned", "finishing"} => run[w] # 0

\* The heartbeat row has one holder, and what it read there is still so: nobody
\* changes the row between StartRun's SELECT ... FOR UPDATE and its commit.
LockedStart(w) == phase[w] = "starting" /\ tx[w] = "locked"
StarterIsAlone ==
  \A w \in Workers : LockedStart(w) =>
    ~Held(w) /\ \A u \in Workers : LockedStart(u) => u = w

\* What is about to be recorded has taken the heartbeat's failure into account.
FinisherIsHonest ==
  \A w \in Workers : phase[w] = "finishing" =>
    beatErr[w] # "fenced" /\ (beatErr[w] = "failed" => result[w] = "failed")

\* A run has one replica.
RunsAreOwned ==
  \A v, w \in Workers : run[v] # 0 /\ run[v] = run[w] => v = w

\* An open transaction read its clock in the past, and a replica that is not late
\* read it within Jitter.
ClockIsKept ==
  \A w \in Workers : tx[w] # "none" =>
    /\ clk[w] <= Clock(w)
    /\ w \notin late => Clock(w) <= clk[w] + Jitter

\* A replica that executes its job, keeps time and has had no heartbeat error.
Healthy(w) == phase[w] = "executing" /\ w \notin late /\ beatErr[w] = "none"

\* Its run is the active one, and its next commit comes at most a heartbeat and
\* three times Jitter after the clock reading its lease was computed from.
Ahead(w) ==
  /\ row.active = run[w]
  /\ tx[w] = "none" =>
       /\ now <= beat[w] + Jitter
       /\ beat[w] + Skew[w] <= row.lease - Lease + HeartbeatEvery + Jitter
  /\ tx[w] # "none" =>
       /\ clk[w] <= row.lease - Lease + HeartbeatEvery + 2 * Jitter
       /\ beat[w] + Skew[w] > clk[w]
       /\ beat[w] + Skew[w] <= clk[w] + HeartbeatEvery
HealthyIsAhead == \A w \in Workers : Healthy(w) => Ahead(w)

TimeInv == RunsAreOwned /\ ClockIsKept /\ HealthyIsAhead

JobInv ==
  /\ TypeOK /\ LedgersAgree /\ RunIsHeld /\ StarterIsAlone /\ FinisherIsHonest

-----------------------------------------------------------------------------
(* Types *)

\* Tickers fire at integer times.
LEMMA NextTickInt ==
  ASSUME NEW due \in Int, NEW period \in Nat \ {0}, now \in Int
  PROVE  NextTick(due, period) \in Int
<1>1. ((now - due) \div period) \in Int
  OBVIOUS
<1> DEFINE q == (now - due) \div period
<1> HIDE DEF q
<1>2. q \in Int
  BY <1>1 DEF q
<1>3. due + period * (1 + q) \in Int
  BY <1>2
<1> QED
  BY <1>3 DEF NextTick, q

\* A clock reading is an integer.
LEMMA ClockInt ==
  ASSUME TypeOK, NEW w \in Workers
  PROVE  Clock(w) \in Int
BY JobAssumption DEF TypeOK, Clock

\* A replica that goes idle keeps its types.
LEMMA IdleType ==
  ASSUME TypeOK, NEW w \in Workers, Idle(w)
  PROVE  /\ phase' \in [Workers -> Phases]
         /\ tx' \in [Workers -> {"none", "begun", "locked"}]
         /\ clk' \in [Workers -> Int]
         /\ run' \in [Workers -> 0..Len(runs)]
         /\ beatErr' \in [Workers -> {"none", "fenced", "failed"}]
         /\ result' \in [Workers -> Results]
         /\ beat' \in [Workers -> Int]
         /\ late' \subseteq Workers
BY DEF TypeOK, Idle, Phases, Results

\* What a replica does to its own transaction keeps the types.
LEMMA TxType ==
  ASSUME TypeOK, NEW w \in Workers
  PROVE  /\ \A t \in {"none", "begun", "locked"} :
              [tx EXCEPT ![w] = t] \in [Workers -> {"none", "begun", "locked"}]
         /\ \A i \in Int : [clk EXCEPT ![w] = i] \in [Workers -> Int]
         /\ \A e \in {"none", "fenced", "failed"} :
              [beatErr EXCEPT ![w] = e] \in [Workers -> {"none", "fenced", "failed"}]
         /\ \A p \in Phases : [phase EXCEPT ![w] = p] \in [Workers -> Phases]
         /\ tx \in [Workers -> {"none", "begun", "locked"}]
         /\ clk \in [Workers -> Int]
         /\ beatErr \in [Workers -> {"none", "fenced", "failed"}]
         /\ phase \in [Workers -> Phases]
<1>1. /\ tx \in [Workers -> {"none", "begun", "locked"}]
      /\ clk \in [Workers -> Int]
      /\ beatErr \in [Workers -> {"none", "fenced", "failed"}]
      /\ phase \in [Workers -> Phases]
  BY DEF TypeOK
<1> QED
  BY <1>1

\* The ledger after a takeover has the same rows, each with a status.
LEMMA AbandonedType ==
  ASSUME TypeOK
  PROVE  /\ Abandoned \in Seq({"running", "abandoned"} \cup Results)
         /\ Len(Abandoned) = Len(runs)
         /\ DOMAIN Abandoned = DOMAIN runs
<1> DEFINE S == {"running", "abandoned"} \cup Results
<1>1. Len(runs) \in Nat /\ runs \in [1..Len(runs) -> S] /\ DOMAIN runs = 1..Len(runs)
  BY LenProperties DEF TypeOK
<1>2. Abandoned \in [1..Len(runs) -> S]
  BY <1>1 DEF Abandoned
<1>3. Abandoned \in Seq(S)
  BY <1>1, <1>2, SeqDef
<1>4. DOMAIN Abandoned = 1..Len(runs)
  BY <1>2
<1> HIDE DEF S
<1>5. DOMAIN Abandoned = 1..Len(Abandoned) /\ Len(Abandoned) \in Nat
  BY <1>3, LenProperties
<1>6. Len(Abandoned) = Len(runs)
  BY <1>1, <1>4, <1>5
<1> QED
  BY <1>1, <1>3, <1>4, <1>6 DEF S

\* StartRun's commit adds one row.
LEMMA InstallType ==
  ASSUME TypeOK, NEW w \in Workers, InstallRun(w)
  PROVE  /\ runs' \in Seq({"running", "abandoned"} \cup Results)
         /\ Len(runs') = Len(runs) + 1
         /\ row' \in [active : 0..Len(runs'), lease : Int, started : Int, completed : Int]
         /\ row'.active = Len(runs) + 1
         /\ runs'[Len(runs) + 1] = "running"
         /\ \A r \in DOMAIN runs : runs'[r] = Abandoned[r]
         /\ DOMAIN runs' = 1..(Len(runs) + 1)
         /\ DOMAIN runs = 1..Len(runs)
<1>1. Abandoned \in Seq({"running", "abandoned"} \cup Results) /\ Len(Abandoned) = Len(runs)
  BY AbandonedType
<1>2. runs' = Append(Abandoned, "running")
  BY DEF InstallRun
<1>3. Len(runs) \in Nat /\ DOMAIN runs = 1..Len(runs)
  BY DEF TypeOK
<1>4. /\ runs' \in Seq({"running", "abandoned"} \cup Results)
      /\ Len(runs') = Len(runs) + 1
      /\ runs'[Len(runs) + 1] = "running"
      /\ \A r \in 1..Len(runs) : runs'[r] = Abandoned[r]
      /\ DOMAIN runs' = 1..(Len(runs) + 1)
  BY <1>1, <1>2, <1>3
<1>5. clk[w] \in Int /\ Lease \in Int
  BY JobAssumption DEF TypeOK
<1>6. /\ row' \in [active : 0..Len(runs'), lease : Int, started : Int, completed : Int]
      /\ row'.active = Len(runs) + 1
  <2>1. row \in [active : 0..Len(runs), lease : Int, started : Int, completed : Int]
    BY DEF TypeOK
  <2>2. row' = [row EXCEPT !.active = Len(runs) + 1, !.started = clk[w],
                           !.lease = clk[w] + Lease]
    BY DEF InstallRun
  <2>3. Len(runs) + 1 \in 0..Len(runs') /\ clk[w] + Lease \in Int
    BY <1>3, <1>4, <1>5
  <2> QED
    BY <2>1, <2>2, <2>3, <1>5
<1> QED
  BY <1>3, <1>4, <1>6

\* Every step keeps the types.
LEMMA TypeStep ==
  ASSUME TypeOK, RunIsHeld, [Next]_vars
  PROVE  TypeOK'
<1> USE JobAssumption
<1>1. CASE UNCHANGED vars
  BY <1>1 DEF vars, local, TypeOK
<1>2. CASE Advance
  BY <1>2 DEF Advance, local, TypeOK
<1>3. ASSUME NEW w \in Workers, BeginStart(w) PROVE TypeOK'
  <2>1. Clock(w) \in Int
    BY ClockInt
  <2>2. NextTick(tick[w], Interval) \in Int
    BY NextTickInt DEF TypeOK
  <2> QED
    BY <1>3, <2>1, <2>2 DEF BeginStart, TypeOK, Phases
<1>4. ASSUME NEW w \in Workers, LockStart(w) PROVE TypeOK'
  <2>1. CASE Idle(w) /\ UNCHANGED tick
    BY <1>4, <2>1, IdleType DEF LockStart, TypeOK
  <2>2. CASE ~Held(w) /\ tx' = [tx EXCEPT ![w] = "locked"]
             /\ UNCHANGED <<phase, clk, run, beatErr, result, tick, beat, late>>
    BY <1>4, <2>2 DEF LockStart, TypeOK
  <2> QED
    BY <1>4, <2>1, <2>2 DEF LockStart
<1>5. ASSUME NEW w \in Workers, CommitStart(w) PROVE TypeOK'
  <2>1. CASE Idle(w) /\ UNCHANGED <<row, runs, tick, faults>>
    BY <1>5, <2>1, IdleType DEF CommitStart, TypeOK
  <2>2. CASE /\ InstallRun(w)
             /\ phase' = [phase EXCEPT ![w] = "executing"]
             /\ tx' = [tx EXCEPT ![w] = "none"]
             /\ run' = [run EXCEPT ![w] = Len(runs) + 1]
             /\ clk' = [clk EXCEPT ![w] = 0]
             /\ beat' = [beat EXCEPT ![w] = now + HeartbeatEvery]
             /\ UNCHANGED <<beatErr, result, tick, late, faults>>
    <3>1. run' \in [Workers -> 0..Len(runs')]
      <4>1. Len(runs') = Len(runs) + 1 /\ Len(runs) \in Nat
        BY <2>2, InstallType, LenProperties DEF TypeOK
      <4>2. run \in [Workers -> 0..Len(runs)]
        BY DEF TypeOK
      <4> QED
        BY <2>2, <4>1, <4>2
    <3>2. /\ phase' \in [Workers -> Phases]
          /\ tx' \in [Workers -> {"none", "begun", "locked"}]
          /\ clk' \in [Workers -> Int]
          /\ beat' \in [Workers -> Int]
      BY <2>2 DEF TypeOK, Phases
    <3>3. now' = now
      BY <1>5 DEF CommitStart
    <3> QED
      BY <2>2, <3>1, <3>2, <3>3, InstallType DEF TypeOK
  <2>3. CASE InstallRun(w) /\ Idle(w) /\ faults < MaxFaults /\ faults' = faults + 1
             /\ UNCHANGED tick
    <3>1. run' \in [Workers -> 0..Len(runs')]
      <4>1. Len(runs') = Len(runs) + 1 /\ Len(runs) \in Nat
        BY <2>3, InstallType, LenProperties DEF TypeOK
      <4>2. run' \in [Workers -> 0..Len(runs)]
        BY <2>3, IdleType
      <4> QED
        BY <4>1, <4>2
    <3>2. now' = now /\ faults' \in 0..MaxFaults
      BY <1>5, <2>3 DEF CommitStart, TypeOK
    <3> QED
      BY <2>3, <3>1, <3>2, InstallType, IdleType DEF TypeOK
  <2> QED
    BY <1>5, <2>1, <2>2, <2>3 DEF CommitStart
<1>6. ASSUME NEW w \in Workers, BeginBeat(w) PROVE TypeOK'
  <2>1. Clock(w) \in Int
    BY ClockInt
  <2>2. NextTick(beat[w], HeartbeatEvery) \in Int
    BY NextTickInt DEF TypeOK
  <2> QED
    BY <1>6, <2>1, <2>2 DEF BeginBeat, TypeOK
<1>7. ASSUME NEW w \in Workers, LockBeat(w) PROVE TypeOK'
  <2>1. /\ tx' \in [Workers -> {"none", "begun", "locked"}]
        /\ clk' \in [Workers -> Int]
        /\ beatErr' \in [Workers -> {"none", "fenced", "failed"}]
    BY <1>7, TxType DEF LockBeat, StopBeating
  <2> QED
    BY <1>7, <2>1 DEF LockBeat, TypeOK
<1>8. ASSUME NEW w \in Workers, CommitBeat(w) PROVE TypeOK'
  <2>1. row' \in [active : 0..Len(runs), lease : Int, started : Int, completed : Int]
    <3>1. /\ row \in [active : 0..Len(runs), lease : Int, started : Int, completed : Int]
          /\ clk[w] \in Int /\ Lease \in Int
      BY DEF TypeOK
    <3>2. row' = row \/ row' = [row EXCEPT !.lease = clk[w] + Lease]
      BY <1>8 DEF CommitBeat
    <3>3. clk[w] + Lease \in Int
      BY <3>1
    <3> QED
      BY <3>1, <3>2, <3>3
  <2>2. /\ tx' \in [Workers -> {"none", "begun", "locked"}]
        /\ clk' \in [Workers -> Int]
        /\ beatErr' \in [Workers -> {"none", "fenced", "failed"}]
    BY <1>8, TxType DEF CommitBeat, StopBeating
  <2>3. faults' \in 0..MaxFaults
    <3>1. faults' = faults \/ (faults < MaxFaults /\ faults' = faults + 1)
      BY <1>8 DEF CommitBeat
    <3>2. faults \in 0..MaxFaults
      BY DEF TypeOK
    <3> QED
      BY <3>1, <3>2
  <2> QED
    BY <1>8, <2>1, <2>2, <2>3 DEF CommitBeat, TypeOK
<1>9. ASSUME NEW w \in Workers, JobReturns(w) PROVE TypeOK'
  BY <1>9 DEF JobReturns, TypeOK, Phases
<1>10. ASSUME NEW w \in Workers, BeginFinish(w) PROVE TypeOK'
  <2>1. CASE Idle(w)
    BY <1>10, <2>1, IdleType DEF BeginFinish, TypeOK
  <2>2. CASE ~Idle(w)
    <3>1. Clock(w) \in Int
      BY ClockInt
    <3>2. result' \in [Workers -> Results]
      BY <1>10, <2>2 DEF BeginFinish, TypeOK, Results
    <3>3. /\ phase' \in [Workers -> Phases]
          /\ tx' \in [Workers -> {"none", "begun", "locked"}]
          /\ clk' \in [Workers -> Int]
      BY <1>10, <2>2, <3>1, TxType DEF BeginFinish, Phases
    <3> QED
      BY <1>10, <2>2, <3>2, <3>3 DEF BeginFinish, TypeOK
  <2> QED
    BY <2>1, <2>2
<1>11. ASSUME NEW w \in Workers, LockFinish(w) PROVE TypeOK'
  <2>1. CASE Idle(w)
    BY <1>11, <2>1, IdleType DEF LockFinish, TypeOK
  <2>2. CASE ~Idle(w)
    BY <1>11, <2>2 DEF LockFinish, TypeOK
  <2> QED
    BY <2>1, <2>2
<1>12. ASSUME NEW w \in Workers, CommitFinish(w) PROVE TypeOK'
  <2>1. Idle(w) /\ UNCHANGED <<now, tick, faults>>
    BY <1>12 DEF CommitFinish
  <2>2. CASE UNCHANGED <<row, runs>>
    BY <2>1, <2>2, IdleType DEF TypeOK
  <2>3. CASE /\ row.active = run[w]
             /\ runs' = [runs EXCEPT ![run[w]] = result[w]]
             /\ row' = [row EXCEPT !.active = 0, !.lease = 0, !.completed = clk[w]]
    <3>1. runs' \in Seq({"running", "abandoned"} \cup Results) /\ Len(runs') = Len(runs)
      <4>1. run[w] \in 1..Len(runs)
        <5>1. run[w] \in 0..Len(runs) /\ Len(runs) \in Nat
          BY LenProperties DEF TypeOK
        <5>2. run[w] # 0
          BY <1>12 DEF CommitFinish, RunIsHeld
        <5> QED
          BY <5>1, <5>2
      <4>2. result[w] \in {"running", "abandoned"} \cup Results
        BY DEF TypeOK
      <4> QED
        BY <2>3, <4>1, <4>2, ExceptSeq DEF TypeOK
    <3>2. row' \in [active : 0..Len(runs'), lease : Int, started : Int, completed : Int]
      <4>1. row \in [active : 0..Len(runs), lease : Int, started : Int, completed : Int]
        BY DEF TypeOK
      <4>2. 0 \in 0..Len(runs') /\ clk[w] \in Int
        BY <3>1, LenProperties DEF TypeOK
      <4> QED
        <5>1. row' = [row EXCEPT !.active = 0, !.lease = 0, !.completed = clk[w]]
          BY <2>3
        <5>2. 0 \in Int
          OBVIOUS
        <5> HIDE <2>3
        <5> QED
          BY <4>1, <4>2, <5>1, <5>2
    <3> QED
      BY <2>1, <3>1, <3>2, IdleType DEF TypeOK
  <2> QED
    BY <1>12, <2>2, <2>3 DEF CommitFinish
<1>13. ASSUME NEW w \in Workers, RolledBack(w), UNCHANGED <<now, row, runs, tick>>,
              faults' \in 0..MaxFaults
       PROVE  TypeOK'
  <2>1. CASE Idle(w)
    BY <1>13, <2>1, IdleType DEF TypeOK
  <2>2. CASE ~Idle(w)
    <3>1. /\ tx' \in [Workers -> {"none", "begun", "locked"}]
          /\ clk' \in [Workers -> Int]
          /\ beatErr' \in [Workers -> {"none", "fenced", "failed"}]
          /\ UNCHANGED <<phase, run, result, beat, late>>
      BY <1>13, <2>2, TxType DEF RolledBack, StopBeating
    <3> QED
      BY <1>13, <3>1 DEF TypeOK
  <2> QED
    BY <2>1, <2>2
<1>14. ASSUME NEW w \in Workers, DeadlockAbort(w) PROVE TypeOK'
  BY <1>13, <1>14 DEF DeadlockAbort, TypeOK
<1>15. ASSUME NEW w \in Workers, DbError(w) PROVE TypeOK'
  <2>1. faults' \in 0..MaxFaults
    BY <1>15 DEF DbError, TypeOK
  <2> QED
    BY <1>13, <1>15, <2>1 DEF DbError
<1>16. ASSUME NEW w \in Workers, Crash(w) PROVE TypeOK'
  <2>1. faults' \in 0..MaxFaults /\ tick' \in [Workers -> Int]
    BY <1>16 DEF Crash, TypeOK
  <2>2. Idle(w) /\ UNCHANGED <<now, row, runs>>
    BY <1>16 DEF Crash
  <2> QED
    BY <2>1, <2>2, IdleType DEF TypeOK
<1>17. ASSUME NEW w \in Workers, Stall(w) PROVE TypeOK'
  BY <1>17 DEF Stall, TypeOK
<1> QED
  BY <1>1, <1>2, <1>3, <1>4, <1>5, <1>6, <1>7, <1>8, <1>9, <1>10, <1>11, <1>12,
     <1>14, <1>15, <1>16, <1>17 DEF Next, Step, Fault

-----------------------------------------------------------------------------
(* The invariant *)

\* Initially there are no runs and nobody has started one.
LEMMA InitInv == ASSUME Init PROVE JobInv
<1> USE JobAssumption
<1>1. Len(runs) = 0 /\ runs \in Seq({"running", "abandoned"} \cup Results) /\ DOMAIN runs = {}
  BY DEF Init
<1>2. row \in [active : 0..0, lease : Int, started : Int, completed : Int]
  <2>1. -Interval \in Int
    OBVIOUS
  <2> QED
    BY <2>1 DEF Init
<1>3. TypeOK
  BY <1>1, <1>2 DEF Init, TypeOK, Phases, Results
<1>4. LedgersAgree
  BY <1>1 DEF LedgersAgree
<1>5. RunIsHeld /\ StarterIsAlone /\ FinisherIsHonest
  BY DEF Init, RunIsHeld, StarterIsAlone, LockedStart, FinisherIsHonest
<1> QED
  BY <1>3, <1>4, <1>5 DEF JobInv

\* The ledgers change together: only StartRun's and FinishRun's commits change
\* them, each in one transaction.
LEMMA LedgersStep ==
  ASSUME JobInv, [Next]_vars
  PROVE  LedgersAgree'
<1>0. TypeOK /\ LedgersAgree /\ RunIsHeld
  BY DEF JobInv
<1>1. CASE UNCHANGED <<runs, row>>
  BY <1>0, <1>1 DEF LedgersAgree
<1>2. ASSUME NEW w \in Workers, InstallRun(w) PROVE LedgersAgree'
  <2>1. row'.active = Len(runs) + 1
    BY <1>0, <1>2, InstallType
  <2>2. /\ DOMAIN runs' = 1..(Len(runs) + 1) /\ DOMAIN runs = 1..Len(runs)
        /\ runs'[Len(runs) + 1] = "running"
        /\ \A r \in DOMAIN runs : runs'[r] = Abandoned[r]
    BY <1>0, <1>2, InstallType
  <2>3. \A r \in DOMAIN runs : Abandoned[r] # "running"
    BY <1>0 DEF Abandoned, LedgersAgree
  <2>4. Len(runs) \in Nat
    BY <1>0, LenProperties DEF TypeOK
  <2> QED
    BY <2>1, <2>2, <2>3, <2>4 DEF LedgersAgree
<1>3. ASSUME NEW w \in Workers, CommitFinish(w) PROVE LedgersAgree'
  <2>1. CASE UNCHANGED <<row, runs>>
    BY <1>1, <2>1
  <2>2. CASE /\ row.active = run[w]
             /\ runs' = [runs EXCEPT ![run[w]] = result[w]]
             /\ row' = [row EXCEPT !.active = 0, !.lease = 0, !.completed = clk[w]]
    <3>1. row'.active = 0
      BY <1>0, <2>2 DEF TypeOK
    <3>2. result[w] # "running"
      BY <1>0 DEF TypeOK, Results
    <3>3. DOMAIN runs' = DOMAIN runs /\ DOMAIN runs = 1..Len(runs) /\ Len(runs) \in Nat
      BY <1>0, <2>2, LenProperties DEF TypeOK
    <3>4. \A r \in DOMAIN runs : runs'[r] = IF r = run[w] THEN result[w] ELSE runs[r]
      BY <2>2
    <3>5. \A r \in DOMAIN runs : runs'[r] # "running"
      BY <1>0, <2>2, <3>2, <3>4 DEF LedgersAgree
    <3> QED
      BY <3>1, <3>3, <3>5 DEF LedgersAgree
  <2> QED
    BY <1>3, <2>1, <2>2 DEF CommitFinish
<1>4. ASSUME NEW w \in Workers, CommitBeat(w) PROVE LedgersAgree'
  <2>1. runs' = runs /\ row'.active = row.active
    BY <1>0, <1>4 DEF CommitBeat, TypeOK
  <2> QED
    BY <1>0, <2>1 DEF LedgersAgree
<1>5. CASE UNCHANGED vars
  BY <1>1, <1>5 DEF vars
<1>6. CASE Advance
  BY <1>1, <1>6 DEF Advance
<1>7. ASSUME NEW w \in Workers, Step(w) \/ Fault(w) PROVE LedgersAgree'
  BY <1>1, <1>2, <1>3, <1>4, <1>7
     DEF Step, Fault, BeginStart, LockStart, CommitStart, BeginBeat, LockBeat, JobReturns,
         BeginFinish, LockFinish, DeadlockAbort, DbError, Crash, Stall
<1> QED
  BY <1>5, <1>6, <1>7 DEF Next

\* How a step changes the phase and run of each replica: only its own action
\* does, and it enters "executing" with the run it installed.
LEMMA RunIsHeldStep ==
  ASSUME JobInv, [Next]_vars
  PROVE  RunIsHeld'
<1>0. TypeOK /\ RunIsHeld
  BY DEF JobInv
<1>t. phase \in [Workers -> Phases] /\ run \in [Workers -> 0..Len(runs)] /\ Len(runs) \in Nat
  BY <1>0, LenProperties DEF TypeOK
<1>1. CASE UNCHANGED <<phase, run>>
  BY <1>0, <1>1 DEF RunIsHeld
<1>2. ASSUME NEW w \in Workers, Idle(w) PROVE RunIsHeld'
  BY <1>0, <1>t, <1>2 DEF RunIsHeld, Idle
<1>3. ASSUME NEW w \in Workers, NEW p \in Phases,
             phase' = [phase EXCEPT ![w] = p], UNCHANGED run,
             p = "starting" \/ phase[w] \in {"executing", "returned", "finishing"}
      PROVE  RunIsHeld'
  BY <1>0, <1>t, <1>3 DEF RunIsHeld
<1>4. ASSUME NEW w \in Workers, CommitStart(w) PROVE RunIsHeld'
  <2>1. CASE Idle(w)
    BY <1>2, <2>1
  <2>2. CASE /\ phase' = [phase EXCEPT ![w] = "executing"]
             /\ run' = [run EXCEPT ![w] = Len(runs) + 1]
    BY <1>0, <1>t, <2>2 DEF RunIsHeld
  <2> QED
    BY <1>4, <2>1, <2>2 DEF CommitStart
<1>5. ASSUME NEW w \in Workers, BeginStart(w) PROVE RunIsHeld'
  BY <1>3, <1>5 DEF BeginStart, Phases
<1>6. ASSUME NEW w \in Workers, JobReturns(w) PROVE RunIsHeld'
  BY <1>3, <1>6 DEF JobReturns, Phases
<1>7. ASSUME NEW w \in Workers, BeginFinish(w) PROVE RunIsHeld'
  BY <1>2, <1>3, <1>7 DEF BeginFinish, Phases
<1>8. CASE UNCHANGED vars \/ Advance
  BY <1>1, <1>8 DEF vars, Advance, local
<1>9. ASSUME NEW w \in Workers, Step(w) \/ Fault(w) PROVE RunIsHeld'
  BY <1>1, <1>2, <1>4, <1>5, <1>6, <1>7, <1>9
     DEF Step, Fault, LockStart, BeginBeat, LockBeat, CommitBeat, LockFinish, CommitFinish,
         DeadlockAbort, DbError, RolledBack, Crash, Stall
<1> QED
  BY <1>8, <1>9 DEF Next

\* While StartRun holds the heartbeat row nobody else locks or changes it.
LEMMA StarterStep ==
  ASSUME JobInv, [Next]_vars
  PROVE  StarterIsAlone'
<1>0. TypeOK /\ StarterIsAlone
  BY DEF JobInv
<1>t. /\ phase \in [Workers -> Phases] /\ tx \in [Workers -> {"none", "begun", "locked"}]
      /\ clk \in [Workers -> Int]
  BY <1>0 DEF TypeOK
\* A step that leaves the row alone, and whose replica does not lock it.
<1>1. ASSUME NEW w \in Workers, row' = row,
             \A u \in Workers \ {w} : phase'[u] = phase[u] /\ tx'[u] = tx[u] /\ clk'[u] = clk[u],
             ~LockedStart(w)' \/ (LockedStart(w) /\ clk'[w] = clk[w])
      PROVE  StarterIsAlone'
  BY <1>0, <1>1 DEF StarterIsAlone, LockedStart, Held
\* A step of a replica when nobody else holds the row, and which ends without it.
<1>2. ASSUME NEW w \in Workers,
             \A u \in Workers \ {w} : phase'[u] = phase[u] /\ tx'[u] = tx[u],
             \A u \in Workers \ {w} : ~LockedStart(u), ~LockedStart(w)'
      PROVE  StarterIsAlone'
  BY <1>2 DEF StarterIsAlone, LockedStart
<1>3. ASSUME NEW w \in Workers, Idle(w)
      PROVE  /\ \A u \in Workers \ {w} : phase'[u] = phase[u] /\ tx'[u] = tx[u] /\ clk'[u] = clk[u]
             /\ ~LockedStart(w)'
  BY <1>t, <1>3 DEF Idle, LockedStart
<1>4. ASSUME NEW w \in Workers, BeginStart(w) PROVE StarterIsAlone'
  <2>1. /\ \A u \in Workers \ {w} : phase'[u] = phase[u] /\ tx'[u] = tx[u] /\ clk'[u] = clk[u]
        /\ ~LockedStart(w)' /\ row' = row
    BY <1>t, <1>4 DEF BeginStart, LockedStart
  <2> QED
    BY <1>1, <2>1
<1>5. ASSUME NEW w \in Workers, LockStart(w) PROVE StarterIsAlone'
  <2>1. CASE Idle(w)
    BY <1>1, <1>3, <1>5, <2>1 DEF LockStart
  <2>2. CASE /\ ~Held(w) /\ tx' = [tx EXCEPT ![w] = "locked"]
             /\ UNCHANGED <<phase, clk, run, beatErr, result, tick, beat, late>>
    <3>1. \A u \in Workers : ~LockedStart(u)
      BY <1>5 DEF LockStart, RowLocked, LockedStart
    <3>2. \A u \in Workers \ {w} : ~LockedStart(u)'
      BY <1>t, <2>2, <3>1 DEF LockedStart
    <3>3. ~Held(w)'
      BY <1>5, <2>2 DEF LockStart, Held
    <3> QED
      BY <3>2, <3>3 DEF StarterIsAlone
  <2> QED
    BY <1>5, <2>1, <2>2 DEF LockStart
<1>6. ASSUME NEW w \in Workers, CommitStart(w) PROVE StarterIsAlone'
  <2>1. /\ \A u \in Workers \ {w} : phase'[u] = phase[u] /\ tx'[u] = tx[u]
        /\ ~LockedStart(w)'
    <3>1. CASE Idle(w)
      BY <1>3, <3>1
    <3>2. CASE /\ phase' = [phase EXCEPT ![w] = "executing"]
               /\ tx' = [tx EXCEPT ![w] = "none"]
      BY <1>t, <3>2 DEF LockedStart
    <3> QED
      BY <1>6, <3>1, <3>2 DEF CommitStart
  <2>2. \A u \in Workers \ {w} : ~LockedStart(u)
    BY <1>0, <1>6 DEF CommitStart, StarterIsAlone, LockedStart
  <2> QED
    BY <1>2, <2>1, <2>2
<1>7. ASSUME NEW w \in Workers, CommitBeat(w) \/ CommitFinish(w) PROVE StarterIsAlone'
  <2>1. \A u \in Workers : ~LockedStart(u)
    BY <1>7 DEF CommitBeat, CommitFinish, RowLocked, LockedStart
  <2>2. /\ \A u \in Workers \ {w} : phase'[u] = phase[u] /\ tx'[u] = tx[u]
        /\ ~LockedStart(w)'
    <3>1. CASE CommitFinish(w)
      BY <1>3, <3>1 DEF CommitFinish
    <3>2. CASE CommitBeat(w)
      BY <1>t, <3>2 DEF CommitBeat, StopBeating, LockedStart
    <3> QED
      BY <1>7, <3>1, <3>2
  <2> QED
    BY <1>2, <2>1, <2>2
<1>8. ASSUME NEW w \in Workers, BeginBeat(w) \/ LockBeat(w) PROVE StarterIsAlone'
  <2>1. /\ \A u \in Workers \ {w} : phase'[u] = phase[u] /\ tx'[u] = tx[u] /\ clk'[u] = clk[u]
        /\ ~LockedStart(w)' /\ row' = row
    BY <1>t, <1>8 DEF BeginBeat, LockBeat, StopBeating, Beating, LockedStart
  <2> QED
    BY <1>1, <2>1
<1>9. ASSUME NEW w \in Workers, JobReturns(w) PROVE StarterIsAlone'
  <2>1. /\ \A u \in Workers \ {w} : phase'[u] = phase[u] /\ tx'[u] = tx[u] /\ clk'[u] = clk[u]
        /\ ~LockedStart(w)' /\ row' = row
    BY <1>t, <1>9 DEF JobReturns, LockedStart
  <2> QED
    BY <1>1, <2>1
<1>10. ASSUME NEW w \in Workers, BeginFinish(w) \/ LockFinish(w) PROVE StarterIsAlone'
  <2>1. row' = row
    BY <1>10 DEF BeginFinish, LockFinish
  <2>2. CASE Idle(w)
    BY <1>1, <1>3, <2>1, <2>2
  <2>3. CASE ~Idle(w)
    <3>1. /\ \A u \in Workers \ {w} : phase'[u] = phase[u] /\ tx'[u] = tx[u] /\ clk'[u] = clk[u]
          /\ ~LockedStart(w)'
      BY <1>t, <1>10, <2>3 DEF BeginFinish, LockFinish, LockedStart
    <3> QED
      BY <1>1, <2>1, <3>1
  <2> QED
    BY <2>2, <2>3
<1>11. ASSUME NEW w \in Workers, DeadlockAbort(w) \/ DbError(w) PROVE StarterIsAlone'
  <2>1. row' = row /\ RolledBack(w)
    BY <1>11 DEF DeadlockAbort, DbError
  <2>2. CASE Idle(w)
    BY <1>1, <1>3, <2>1, <2>2
  <2>3. CASE ~Idle(w)
    <3>1. /\ \A u \in Workers \ {w} : phase'[u] = phase[u] /\ tx'[u] = tx[u] /\ clk'[u] = clk[u]
          /\ ~LockedStart(w)'
      BY <1>t, <2>1, <2>3 DEF RolledBack, StopBeating, Beating, LockedStart
    <3> QED
      BY <1>1, <2>1, <3>1
  <2> QED
    BY <2>2, <2>3
<1>12. ASSUME NEW w \in Workers, Crash(w) PROVE StarterIsAlone'
  BY <1>1, <1>3, <1>12 DEF Crash
<1>13. CASE UNCHANGED <<row, phase, tx, clk>>
  BY <1>0, <1>13 DEF StarterIsAlone, LockedStart, Held
<1>14. ASSUME NEW w \in Workers, Stall(w) PROVE StarterIsAlone'
  BY <1>13, <1>14 DEF Stall
<1>15. CASE UNCHANGED vars \/ Advance
  BY <1>13, <1>15 DEF vars, Advance, local
<1> QED
  BY <1>4, <1>5, <1>6, <1>7, <1>8, <1>9, <1>10, <1>11, <1>12, <1>14, <1>15
     DEF Next, Step, Fault

\* Once a replica is finishing its heartbeat goroutine has ended, so what
\* BeginFinish made of the heartbeat's error stays true.
LEMMA FinisherStep ==
  ASSUME JobInv, [Next]_vars
  PROVE  FinisherIsHonest'
<1>0. TypeOK /\ FinisherIsHonest
  BY DEF JobInv
<1>t. /\ phase \in [Workers -> Phases] /\ result \in [Workers -> Results]
      /\ beatErr \in [Workers -> {"none", "fenced", "failed"}]
  BY <1>0 DEF TypeOK
<1>1. CASE UNCHANGED <<phase, beatErr, result>>
  BY <1>0, <1>1 DEF FinisherIsHonest
\* A step of a replica that does not end up finishing.
<1>2. ASSUME NEW w \in Workers,
             \A u \in Workers \ {w} : phase'[u] = phase[u] /\ beatErr'[u] = beatErr[u]
                                      /\ result'[u] = result[u],
             phase'[w] # "finishing"
      PROVE  FinisherIsHonest'
  BY <1>0, <1>2 DEF FinisherIsHonest
<1>3. ASSUME NEW w \in Workers, Idle(w) PROVE FinisherIsHonest'
  <2>1. /\ \A u \in Workers \ {w} : phase'[u] = phase[u] /\ beatErr'[u] = beatErr[u]
                                      /\ result'[u] = result[u]
        /\ phase'[w] # "finishing"
    BY <1>t, <1>3 DEF Idle
  <2> QED
    BY <1>2, <2>1
<1>4. ASSUME NEW w \in Workers, BeginFinish(w) PROVE FinisherIsHonest'
  <2>1. CASE Idle(w)
    BY <1>3, <2>1
  <2>2. CASE /\ beatErr[w] # "fenced"
             /\ phase' = [phase EXCEPT ![w] = "finishing"]
             /\ result' = [result EXCEPT ![w] = IF beatErr[w] = "failed" THEN "failed" ELSE @]
             /\ UNCHANGED beatErr
    BY <1>0, <1>t, <2>2 DEF FinisherIsHonest
  <2> QED
    BY <1>4, <2>1, <2>2 DEF BeginFinish
<1>5. ASSUME NEW w \in Workers, BeginStart(w) PROVE FinisherIsHonest'
  <2>1. /\ \A u \in Workers \ {w} : phase'[u] = phase[u] /\ beatErr'[u] = beatErr[u]
                                      /\ result'[u] = result[u]
        /\ phase'[w] # "finishing"
    BY <1>t, <1>5 DEF BeginStart
  <2> QED
    BY <1>2, <2>1
<1>6. ASSUME NEW w \in Workers, CommitStart(w) PROVE FinisherIsHonest'
  <2>1. CASE Idle(w)
    BY <1>3, <2>1
  <2>2. CASE phase' = [phase EXCEPT ![w] = "executing"] /\ UNCHANGED <<beatErr, result>>
    BY <1>0, <1>t, <2>2 DEF FinisherIsHonest
  <2> QED
    BY <1>6, <2>1, <2>2 DEF CommitStart
<1>7. ASSUME NEW w \in Workers, JobReturns(w) PROVE FinisherIsHonest'
  <2>1. /\ \A u \in Workers \ {w} : phase'[u] = phase[u] /\ beatErr'[u] = beatErr[u]
                                      /\ result'[u] = result[u]
        /\ phase'[w] # "finishing"
    BY <1>t, <1>7 DEF JobReturns
  <2> QED
    BY <1>2, <2>1
<1>8. ASSUME NEW w \in Workers, NEW e, Beating(w), StopBeating(w, e), UNCHANGED <<phase, result>>
      PROVE  FinisherIsHonest'
  <2>1. /\ \A u \in Workers \ {w} : phase'[u] = phase[u] /\ beatErr'[u] = beatErr[u]
                                      /\ result'[u] = result[u]
        /\ phase'[w] # "finishing"
    BY <1>t, <1>8 DEF StopBeating, Beating
  <2> QED
    BY <1>2, <2>1
<1>9. ASSUME NEW w \in Workers, LockBeat(w) \/ CommitBeat(w) PROVE FinisherIsHonest'
  <2>1. Beating(w) /\ UNCHANGED <<phase, result>>
    BY <1>9 DEF LockBeat, CommitBeat
  <2>2. UNCHANGED beatErr \/ StopBeating(w, "fenced") \/ StopBeating(w, "failed")
    BY <1>9 DEF LockBeat, CommitBeat
  <2> QED
    BY <1>1, <1>8, <2>1, <2>2
<1>10. ASSUME NEW w \in Workers, DeadlockAbort(w) \/ DbError(w) PROVE FinisherIsHonest'
  <2>1. RolledBack(w)
    BY <1>10 DEF DeadlockAbort, DbError
  <2> QED
    BY <1>3, <1>8, <2>1 DEF RolledBack
<1>11. CASE UNCHANGED vars \/ Advance
  BY <1>1, <1>11 DEF vars, Advance, local
<1>12. ASSUME NEW w \in Workers,
              LockStart(w) \/ BeginBeat(w) \/ LockFinish(w) \/ CommitFinish(w)
                \/ Crash(w) \/ Stall(w)
       PROVE  FinisherIsHonest'
  BY <1>1, <1>3, <1>12
     DEF LockStart, BeginBeat, LockFinish, CommitFinish, Crash, Stall
<1> QED
  BY <1>4, <1>5, <1>6, <1>7, <1>9, <1>10, <1>11, <1>12 DEF Next, Step, Fault

\* A ticker's next tick is later than now, by at most its period.
LEMMA NextTickBound ==
  ASSUME NEW due \in Int, NEW period \in Nat \ {0}, now \in Int, now >= due
  PROVE  now < NextTick(due, period) /\ NextTick(due, period) <= now + period
<1> DEFINE d == now - due
           q == d \div period
<1>1. q \in Int /\ d \in Nat
  OBVIOUS
<1>2. period * q <= d /\ d < period * q + period
  OBVIOUS
<1>3. period * (1 + q) = period * q + period
  BY <1>1
<1>4. NextTick(due, period) = due + (period * q + period)
  BY <1>3 DEF NextTick
<1>5. period * q \in Int
  BY <1>1
<1> HIDE DEF q
<1> QED
  BY <1>1, <1>2, <1>4, <1>5

\* Every step keeps the invariant of the ledgers.
LEMMA JobInvStep ==
  ASSUME JobInv, [Next]_vars
  PROVE  JobInv'
<1>1. TypeOK'
  BY TypeStep DEF JobInv
<1> QED
  BY <1>1, LedgersStep, RunIsHeldStep, StarterStep, FinisherStep DEF JobInv

-----------------------------------------------------------------------------
(* Theorems about the ledgers *)

\* The invariant holds throughout.
LEMMA JobInvariant == Spec => []JobInv
<1>1. Init => JobInv
  BY InitInv
<1>2. JobInv /\ [Next]_vars => JobInv'
  BY JobInvStep
<1> QED
  BY <1>1, <1>2, PTL DEF Spec

\* Every column and every replica's memory keeps its type.
THEOREM TypeCorrect == Spec => []TypeOK
<1>1. JobInv => TypeOK
  BY DEF JobInv
<1> QED
  BY <1>1, JobInvariant, PTL

\* The run the heartbeat row calls active is the one run that is running, for any
\* number of replicas and runs.
THEOREM LedgersAlwaysAgree == Spec => []LedgersAgree
<1>1. JobInv => LedgersAgree
  BY DEF JobInv
<1> QED
  BY <1>1, JobInvariant, PTL

\* What may happen to the active run in a step.
RunIsProtected ==
  /\ row.active # 0 /\ row'.active # row.active =>
       \E w \in Workers :
         \/ phase[w] = "finishing" /\ run[w] = row.active
         \/ phase[w] = "starting" /\ row.lease <= clk[w]
  /\ row.active # 0 /\ row'.active = row.active /\ row'.lease # row.lease =>
       \E w \in Workers : run[w] = row.active /\ tx[w] = "locked"
  /\ \A r \in DOMAIN runs : runs[r] # "running" => runs'[r] = runs[r]

\* StartRun's commit replaces only an active run whose lease is over on the clock
\* it read, for the row has not changed since it was locked.
LEMMA TakeoverIsDue ==
  ASSUME JobInv, NEW w \in Workers, CommitStart(w), row.active # 0
  PROVE  row.lease <= clk[w]
<1>1. ~Held(w)
  BY DEF JobInv, StarterIsAlone, LockedStart, CommitStart
<1>2. row.lease \in Int /\ clk[w] \in Int
  BY DEF JobInv, TypeOK
<1> QED
  BY <1>1, <1>2 DEF Held

\* Every step protects the active run and the closed ones.
LEMMA ProtectedStep ==
  ASSUME JobInv, [Next]_vars
  PROVE  RunIsProtected
<1>0. TypeOK /\ LedgersAgree
  BY DEF JobInv
<1>1. CASE UNCHANGED <<row, runs>>
  BY <1>1 DEF RunIsProtected
<1>2. ASSUME NEW w \in Workers, CommitStart(w), InstallRun(w) PROVE RunIsProtected
  <2>1. row'.active = Len(runs) + 1 /\ row.active \in 0..Len(runs) /\ Len(runs) \in Nat
    BY <1>0, <1>2, InstallType, LenProperties DEF TypeOK
  <2>2. row'.active # row.active
    BY <2>1
  <2>3. \A r \in DOMAIN runs : runs[r] # "running" => runs'[r] = runs[r]
    BY <1>0, <1>2, InstallType DEF Abandoned
  <2>4. row.active # 0 => phase[w] = "starting" /\ row.lease <= clk[w]
    BY <1>2, TakeoverIsDue DEF CommitStart
  <2> QED
    BY <2>2, <2>3, <2>4 DEF RunIsProtected
<1>3. ASSUME NEW w \in Workers, CommitFinish(w) PROVE RunIsProtected
  <2>1. CASE UNCHANGED <<row, runs>>
    BY <1>1, <2>1
  <2>2. CASE /\ row.active = run[w]
             /\ runs' = [runs EXCEPT ![run[w]] = result[w]]
             /\ row' = [row EXCEPT !.active = 0, !.lease = 0, !.completed = clk[w]]
    <3>1. phase[w] = "finishing"
      BY <1>3 DEF CommitFinish
    <3>2. row'.active = 0
      BY <1>0, <2>2 DEF TypeOK
    <3>3. \A r \in DOMAIN runs : runs[r] # "running" => runs'[r] = runs[r]
      BY <1>0, <2>2 DEF LedgersAgree
    <3> QED
      BY <2>2, <3>1, <3>2, <3>3 DEF RunIsProtected
  <2> QED
    BY <1>3, <2>1, <2>2 DEF CommitFinish
<1>4. ASSUME NEW w \in Workers, CommitBeat(w) PROVE RunIsProtected
  <2>1. runs' = runs /\ tx[w] = "locked" /\ row'.active = row.active
    BY <1>0, <1>4 DEF CommitBeat, TypeOK
  <2>2. row' = row \/ row.active = run[w]
    BY <1>4 DEF CommitBeat
  <2> QED
    BY <2>1, <2>2 DEF RunIsProtected
<1>5. CASE UNCHANGED vars \/ Advance
  BY <1>1, <1>5 DEF vars, Advance
<1>6. ASSUME NEW w \in Workers, CommitStart(w) PROVE RunIsProtected
  BY <1>1, <1>2, <1>6 DEF CommitStart
<1>7. ASSUME NEW w \in Workers, Step(w) \/ Fault(w) PROVE RunIsProtected
  BY <1>1, <1>3, <1>4, <1>6, <1>7
     DEF Step, Fault, BeginStart, LockStart, BeginBeat, LockBeat, JobReturns,
         BeginFinish, LockFinish, DeadlockAbort, DbError, Crash, Stall
<1> QED
  BY <1>5, <1>7 DEF Next

\* An old replica never ends, extends or replaces another replica's run, for any
\* number of replicas, whatever their clocks say.
THEOREM FencedReplicaChangesNothing == Spec => OnlyOwnerOrExpiry
<1>1. JobInv /\ [Next]_vars => [RunIsProtected]_<<row, runs>>
  BY ProtectedStep
<1>2. Spec => [][RunIsProtected]_<<row, runs>>
  BY <1>1, JobInvariant, PTL DEF Spec
<1> QED
  BY <1>2 DEF OnlyOwnerOrExpiry, RunIsProtected

\* What is recorded as a success.
Earned ==
  \A r \in DOMAIN runs : runs[r] = "running" /\ runs'[r] = "succeeded" =>
    \E w \in Workers : run[w] = r /\ beatErr[w] = "none" /\ result[w] = "succeeded"

\* Only FinishRun's commit writes a success, and only one its replica has earned.
LEMMA EarnedStep ==
  ASSUME JobInv, [Next]_vars
  PROVE  Earned
<1>0. TypeOK /\ LedgersAgree /\ FinisherIsHonest
  BY DEF JobInv
<1>1. CASE UNCHANGED runs
  BY <1>1 DEF Earned
<1>2. ASSUME NEW w \in Workers, InstallRun(w) PROVE Earned
  <2>1. \A r \in DOMAIN runs : runs'[r] = Abandoned[r]
    BY <1>0, <1>2, InstallType
  <2>2. \A r \in DOMAIN runs : runs[r] = "running" => Abandoned[r] = "abandoned"
    BY <1>0 DEF Abandoned, LedgersAgree
  <2> QED
    BY <2>1, <2>2 DEF Earned
<1>3. ASSUME NEW w \in Workers, CommitFinish(w) PROVE Earned
  <2>1. CASE UNCHANGED runs
    BY <1>1, <2>1
  <2>2. CASE runs' = [runs EXCEPT ![run[w]] = result[w]]
    <3>1. beatErr[w] \in {"none", "fenced", "failed"}
      BY <1>0 DEF TypeOK
    <3>2. result[w] = "succeeded" => beatErr[w] = "none"
      BY <1>0, <1>3, <3>1 DEF FinisherIsHonest, CommitFinish
    <3>3. \A r \in DOMAIN runs : runs'[r] = IF r = run[w] THEN result[w] ELSE runs[r]
      BY <2>2
    <3> QED
      BY <3>2, <3>3 DEF Earned
  <2> QED
    BY <1>3, <2>1, <2>2 DEF CommitFinish
<1>4. CASE UNCHANGED vars \/ Advance
  BY <1>1, <1>4 DEF vars, Advance
<1>5. ASSUME NEW w \in Workers, Step(w) \/ Fault(w) PROVE Earned
  BY <1>1, <1>2, <1>3, <1>5
     DEF Step, Fault, BeginStart, LockStart, CommitStart, BeginBeat, LockBeat, CommitBeat,
         JobReturns, BeginFinish, LockFinish, DeadlockAbort, DbError, Crash, Stall
<1> QED
  BY <1>4, <1>5 DEF Next

\* A run recorded as succeeded was neither fenced nor told to stop.
THEOREM RecordedSuccessIsEarned == Spec => SuccessIsEarned
<1>1. JobInv /\ [Next]_vars => [Earned]_runs
  BY EarnedStep
<1>2. Spec => [][Earned]_runs
  BY <1>1, JobInvariant, PTL DEF Spec
<1> QED
  BY <1>2 DEF SuccessIsEarned, Earned

-----------------------------------------------------------------------------
(* Exclusive execution *)

\* The types the arguments about time rest on.
LEMMA TimeTypes ==
  ASSUME TypeOK
  PROVE  /\ now \in Int /\ row.lease \in Int /\ row.active \in 0..Len(runs)
         /\ Len(runs) \in Nat
         /\ phase \in [Workers -> Phases]
         /\ tx \in [Workers -> {"none", "begun", "locked"}]
         /\ clk \in [Workers -> Int] /\ beat \in [Workers -> Int]
         /\ run \in [Workers -> 0..Len(runs)]
         /\ beatErr \in [Workers -> {"none", "fenced", "failed"}]
         /\ Skew \in [Workers -> Int]
         /\ Lease \in Int /\ HeartbeatEvery \in Nat /\ HeartbeatEvery > 0 /\ Jitter \in Nat
BY JobAssumption, LenProperties DEF TypeOK

\* The lease of a healthy replica is live on every replica's clock: this is where
\* the lease has to outlast the heartbeat.
LEMMA HealthyLeaseIsLive ==
  ASSUME TypeOK, ClockIsKept, HealthyIsAhead, NEW w \in Workers, Healthy(w), NEW u \in Workers
  PROVE  row.lease > Clock(u)
<1>1. Ahead(w)
  BY DEF HealthyIsAhead
<1>2. HeartbeatEvery + 3 * Jitter + (Skew[u] - Skew[w]) < Lease
  BY LeaseOutlastsHeartbeat
<1>3. /\ now \in Int /\ row.lease \in Int /\ clk[w] \in Int /\ beat[w] \in Int
      /\ Skew[w] \in Int /\ Skew[u] \in Int /\ Lease \in Int
      /\ HeartbeatEvery \in Nat /\ Jitter \in Nat
  BY TimeTypes
<1>4. CASE tx[w] = "none"
  BY <1>1, <1>2, <1>3, <1>4 DEF Ahead, Clock
<1>5. CASE tx[w] # "none"
  <2>1. Clock(w) <= clk[w] + Jitter
    BY <1>5 DEF ClockIsKept, Healthy
  <2> QED
    BY <1>1, <1>2, <1>3, <1>5, <2>1 DEF Ahead, Clock
<1> QED
  BY <1>4, <1>5

\* Nobody takes over the run of a healthy replica.
LEMMA NoTakeover ==
  ASSUME JobInv, TimeInv, NEW w \in Workers, Healthy(w), NEW u \in Workers, CommitStart(u)
  PROVE  FALSE
<1>1. row.active = run[w] /\ run[w] # 0
  BY DEF JobInv, TimeInv, HealthyIsAhead, Ahead, RunIsHeld, Healthy
<1>2. row.lease <= clk[u]
  BY <1>1, TakeoverIsDue
<1>3. clk[u] <= Clock(u)
  BY DEF TimeInv, ClockIsKept, CommitStart
<1>4. row.lease > Clock(u)
  BY HealthyLeaseIsLive DEF JobInv, TimeInv
<1>5. row.lease \in Int /\ clk[u] \in Int /\ Clock(u) \in Int
  BY TimeTypes, ClockInt DEF JobInv
<1> QED
  BY <1>2, <1>3, <1>4, <1>5

\* A new run is one that no replica holds yet.
LEMMA OwnedStep ==
  ASSUME JobInv, RunsAreOwned, [Next]_vars
  PROVE  RunsAreOwned'
<1>t. run \in [Workers -> 0..Len(runs)] /\ Len(runs) \in Nat
  BY TimeTypes DEF JobInv
<1>1. CASE UNCHANGED run
  BY <1>1 DEF RunsAreOwned
<1>2. ASSUME NEW w \in Workers, Idle(w) PROVE RunsAreOwned'
  BY <1>t, <1>2 DEF RunsAreOwned, Idle
<1>3. ASSUME NEW w \in Workers, run' = [run EXCEPT ![w] = Len(runs) + 1] PROVE RunsAreOwned'
  BY <1>t, <1>3 DEF RunsAreOwned
<1>4. CASE UNCHANGED vars \/ Advance
  BY <1>1, <1>4 DEF vars, Advance, local
<1>5. ASSUME NEW w \in Workers, Step(w) \/ Fault(w) PROVE RunsAreOwned'
  BY <1>1, <1>2, <1>3, <1>5
     DEF Step, Fault, BeginStart, LockStart, CommitStart, BeginBeat, LockBeat, CommitBeat,
         JobReturns, BeginFinish, LockFinish, CommitFinish, DeadlockAbort, DbError, RolledBack,
         Crash, Stall
<1> QED
  BY <1>4, <1>5 DEF Next

\* Clocks are read when a transaction begins, and time does not pass beyond
\* Jitter while a replica that keeps time has one open.
LEMMA ClockStep ==
  ASSUME JobInv, ClockIsKept, [Next]_vars
  PROVE  ClockIsKept'
<1>t. /\ TypeOK /\ now \in Int /\ clk \in [Workers -> Int] /\ Jitter \in Nat
      /\ tx \in [Workers -> {"none", "begun", "locked"}] /\ Skew \in [Workers -> Int]
  BY TimeTypes DEF JobInv
\* A step of w that leaves w without a transaction, or leaves its clock alone.
<1>1. ASSUME NEW w \in Workers, now' = now,
             \A u \in Workers \ {w} : tx'[u] = tx[u] /\ clk'[u] = clk[u]
                                      /\ (u \in late => u \in late'),
             \/ tx'[w] = "none"
             \/ tx[w] # "none" /\ clk'[w] = clk[w] /\ (w \in late => w \in late')
             \/ clk'[w] = Clock(w)
      PROVE  ClockIsKept'
  <2> SUFFICES ASSUME NEW u \in Workers, tx'[u] # "none"
               PROVE  clk'[u] <= Clock(u)' /\ (u \notin late' => Clock(u)' <= clk'[u] + Jitter)
    BY DEF ClockIsKept
  <2>1. Clock(u)' = Clock(u) /\ Clock(u) \in Int
    BY <1>t, <1>1, ClockInt DEF Clock
  <2>2. CASE u # w
    BY <1>1, <2>1, <2>2 DEF ClockIsKept
  <2>3. CASE u = w
    BY <1>t, <1>1, <2>1, <2>3 DEF ClockIsKept
  <2> QED
    BY <2>2, <2>3
<1>2. ASSUME NEW w \in Workers, Idle(w), now' = now PROVE ClockIsKept'
  <2>1. /\ \A u \in Workers \ {w} : tx'[u] = tx[u] /\ clk'[u] = clk[u]
                                      /\ (u \in late => u \in late')
        /\ tx'[w] = "none"
    BY <1>t, <1>2 DEF Idle
  <2> QED
    BY <1>1, <1>2, <2>1
<1>3. CASE UNCHANGED <<now, tx, clk, late>>
  BY <1>3 DEF ClockIsKept, Clock
<1>4. CASE Advance
  <2> SUFFICES ASSUME NEW u \in Workers, tx[u] # "none"
               PROVE  clk[u] <= Clock(u)' /\ (u \notin late => Clock(u)' <= clk[u] + Jitter)
    BY <1>4 DEF Advance, local, ClockIsKept
  <2>1. Clock(u)' = Clock(u) + 1 /\ Clock(u) \in Int /\ clk[u] \in Int
    BY <1>t, <1>4, ClockInt DEF Clock, Advance
  <2>2. u \notin late => ~(Clock(u) >= clk[u] + Jitter)
    BY <1>4 DEF Advance, Overdue
  <2> QED
    BY <1>t, <2>1, <2>2 DEF ClockIsKept
<1>5. ASSUME NEW w \in Workers, BeginStart(w) \/ BeginBeat(w) PROVE ClockIsKept'
  <2>1. /\ now' = now /\ late' = late /\ clk'[w] = Clock(w)
        /\ \A u \in Workers \ {w} : tx'[u] = tx[u] /\ clk'[u] = clk[u]
    BY <1>t, <1>5 DEF BeginStart, BeginBeat
  <2> QED
    BY <1>1, <2>1
<1>6. ASSUME NEW w \in Workers, LockStart(w) \/ LockFinish(w) \/ LockBeat(w) PROVE ClockIsKept'
  <2>1. CASE Idle(w)
    BY <1>2, <1>6, <2>1 DEF LockStart, LockFinish, LockBeat
  <2>2. CASE ~Idle(w)
    <3>1. /\ now' = now /\ late' = late /\ tx[w] # "none"
          /\ \A u \in Workers \ {w} : tx'[u] = tx[u] /\ clk'[u] = clk[u]
          /\ clk'[w] = clk[w] \/ tx'[w] = "none"
      BY <1>t, <1>6, <2>2 DEF LockStart, LockFinish, LockBeat, StopBeating
    <3> QED
      BY <1>1, <3>1
  <2> QED
    BY <2>1, <2>2
<1>7. ASSUME NEW w \in Workers, CommitStart(w) \/ CommitBeat(w) PROVE ClockIsKept'
  <2>1. CASE Idle(w)
    BY <1>2, <1>7, <2>1 DEF CommitStart, CommitBeat
  <2>2. CASE ~Idle(w)
    <3>1. /\ now' = now /\ late' = late
          /\ \A u \in Workers \ {w} : tx'[u] = tx[u] /\ clk'[u] = clk[u]
          /\ tx'[w] = "none"
      BY <1>t, <1>7, <2>2 DEF CommitStart, CommitBeat, StopBeating
    <3> QED
      BY <1>1, <3>1
  <2> QED
    BY <2>1, <2>2
<1>8. ASSUME NEW w \in Workers, BeginFinish(w) PROVE ClockIsKept'
  <2>1. CASE Idle(w)
    BY <1>2, <1>8, <2>1 DEF BeginFinish
  <2>2. CASE ~Idle(w)
    <3>1. /\ now' = now /\ late' = late /\ clk'[w] = Clock(w)
          /\ \A u \in Workers \ {w} : tx'[u] = tx[u] /\ clk'[u] = clk[u]
      BY <1>t, <1>8, <2>2 DEF BeginFinish
    <3> QED
      BY <1>1, <3>1
  <2> QED
    BY <2>1, <2>2
<1>9. ASSUME NEW w \in Workers, CommitFinish(w) \/ Crash(w) PROVE ClockIsKept'
  BY <1>2, <1>9 DEF CommitFinish, Crash
<1>10. ASSUME NEW w \in Workers, DeadlockAbort(w) \/ DbError(w) PROVE ClockIsKept'
  <2>1. RolledBack(w) /\ now' = now
    BY <1>10 DEF DeadlockAbort, DbError
  <2>2. CASE Idle(w)
    BY <1>2, <2>1, <2>2
  <2>3. CASE ~Idle(w)
    <3>1. /\ late' = late /\ tx'[w] = "none"
          /\ \A u \in Workers \ {w} : tx'[u] = tx[u] /\ clk'[u] = clk[u]
      BY <1>t, <2>1, <2>3 DEF RolledBack, StopBeating
    <3> QED
      BY <1>1, <2>1, <3>1
  <2> QED
    BY <2>2, <2>3
<1>11. ASSUME NEW w \in Workers, Stall(w) PROVE ClockIsKept'
  BY <1>11 DEF Stall, ClockIsKept, Clock
<1>12. ASSUME NEW w \in Workers, JobReturns(w) PROVE ClockIsKept'
  BY <1>3, <1>12 DEF JobReturns
<1>13. CASE UNCHANGED vars
  BY <1>3, <1>13 DEF vars, local
<1> QED
  BY <1>4, <1>5, <1>6, <1>7, <1>8, <1>9, <1>10, <1>11, <1>12, <1>13 DEF Next, Step, Fault

\* A healthy replica stays ahead of its lease.
LEMMA AheadStep ==
  ASSUME JobInv, TimeInv, [Next]_vars
  PROVE  HealthyIsAhead'
<1> DEFINE Untouched(w) ==
             /\ phase'[w] = phase[w] /\ tx'[w] = tx[w] /\ clk'[w] = clk[w]
             /\ run'[w] = run[w] /\ beatErr'[w] = beatErr[w] /\ beat'[w] = beat[w]
             /\ w \in late => w \in late'
           LeaseKept == row'.active = row.active /\ row'.lease = row.lease
<1>t. /\ TypeOK /\ now \in Int /\ row.lease \in Int
      /\ phase \in [Workers -> Phases]
      /\ tx \in [Workers -> {"none", "begun", "locked"}]
      /\ clk \in [Workers -> Int] /\ beat \in [Workers -> Int]
      /\ run \in [Workers -> 0..Len(runs)]
      /\ beatErr \in [Workers -> {"none", "fenced", "failed"}]
      /\ Skew \in [Workers -> Int]
      /\ Lease \in Int /\ HeartbeatEvery \in Nat /\ HeartbeatEvery > 0 /\ Jitter \in Nat
  BY TimeTypes DEF JobInv
<1>i. HealthyIsAhead /\ RunsAreOwned /\ ClockIsKept /\ RunIsHeld
  BY DEF TimeInv, JobInv
\* A replica that a step leaves alone is as far ahead as it was.
<1>1. ASSUME NEW w \in Workers, now' = now, Untouched(w), LeaseKept
      PROVE  (Healthy(w) => Ahead(w)) => (Healthy(w)' => Ahead(w)')
  BY <1>1 DEF Healthy, Ahead
\* A step of u that keeps the lease and leaves u unhealthy, or ahead.
<1>2. ASSUME NEW u \in Workers, now' = now, LeaseKept,
             \A w \in Workers \ {u} : Untouched(w),
             Healthy(u)' => Ahead(u)'
      PROVE  HealthyIsAhead'
  <2> SUFFICES ASSUME NEW w \in Workers
               PROVE  Healthy(w)' => Ahead(w)'
    BY DEF HealthyIsAhead
  <2> HIDE DEF Untouched, LeaseKept
  <2>1. CASE w = u
    BY <1>2, <2>1
  <2>2. CASE w # u
    BY <1>1, <1>2, <1>i, <2>2 DEF HealthyIsAhead
  <2> QED
    BY <2>1, <2>2
\* A step of u when u alone may be healthy.
<1>3. ASSUME NEW u \in Workers,
             \A w \in Workers \ {u} : Untouched(w) /\ ~Healthy(w),
             Healthy(u)' => Ahead(u)'
      PROVE  HealthyIsAhead'
  <2> SUFFICES ASSUME NEW w \in Workers, Healthy(w)'
               PROVE  Ahead(w)'
    BY DEF HealthyIsAhead
  <2>1. w \in Workers \ {u} => ~Healthy(w)'
    BY <1>3 DEF Healthy
  <2> QED
    BY <1>3, <2>1
<1>4. ASSUME NEW u \in Workers, Idle(u)
      PROVE  ~Healthy(u)' /\ \A w \in Workers \ {u} : Untouched(w)
  BY <1>t, <1>4 DEF Idle, Healthy
<1>5. ASSUME NEW u \in Workers, Idle(u), now' = now, UNCHANGED row PROVE HealthyIsAhead'
  <2>1. LeaseKept
    BY <1>5
  <2> HIDE DEF Untouched, LeaseKept
  <2> QED
    BY <1>2, <1>4, <1>5, <2>1
<1>6. ASSUME NEW u \in Workers, UNCHANGED <<now, row>>, UNCHANGED <<phase, run, beat, late>>,
             NEW e \in {"fenced", "failed"}, StopBeating(u, e)
      PROVE  HealthyIsAhead'
  <2>1. /\ LeaseKept /\ now' = now /\ ~Healthy(u)'
        /\ \A w \in Workers \ {u} : Untouched(w)
    BY <1>t, <1>6 DEF StopBeating, Healthy
  <2> HIDE DEF Untouched, LeaseKept
  <2> QED
    BY <1>2, <2>1
<1>7. CASE Advance
  <2> SUFFICES ASSUME NEW w \in Workers, Healthy(w)'
               PROVE  Ahead(w)'
    BY DEF HealthyIsAhead
  <2>1. Healthy(w) /\ Ahead(w)
    BY <1>7, <1>i DEF Advance, local, Healthy, HealthyIsAhead
  <2>2. tx[w] = "none" => ~(now >= beat[w] + Jitter)
    BY <1>7, <2>1 DEF Advance, Overdue, Healthy
  <2>3. now' = now + 1 /\ UNCHANGED <<row, tx, clk, run, beat>>
    BY <1>7 DEF Advance, local
  <2> QED
    BY <1>t, <2>1, <2>2, <2>3 DEF Ahead
<1>8. ASSUME NEW u \in Workers, BeginStart(u) \/ JobReturns(u) PROVE HealthyIsAhead'
  <2>1. /\ LeaseKept /\ now' = now /\ ~Healthy(u)'
        /\ \A w \in Workers \ {u} : Untouched(w)
    BY <1>t, <1>8 DEF BeginStart, JobReturns, Healthy
  <2> HIDE DEF Untouched, LeaseKept
  <2> QED
    BY <1>2, <2>1
<1>9. ASSUME NEW u \in Workers, LockStart(u) \/ LockFinish(u) \/ BeginFinish(u)
      PROVE  HealthyIsAhead'
  <2>1. CASE Idle(u)
    BY <1>5, <1>9, <2>1 DEF LockStart, LockFinish, BeginFinish
  <2>2. CASE ~Idle(u)
    <3>1. /\ LeaseKept /\ now' = now /\ ~Healthy(u)'
          /\ \A w \in Workers \ {u} : Untouched(w)
      BY <1>t, <1>9, <2>2 DEF LockStart, LockFinish, BeginFinish, Healthy
    <3> HIDE DEF Untouched, LeaseKept
    <3> QED
      BY <1>2, <3>1
  <2> QED
    BY <2>1, <2>2
\* Nobody was healthy before a takeover; the new owner has a fresh lease.
<1>10. ASSUME NEW u \in Workers, CommitStart(u) PROVE HealthyIsAhead'
  <2>1. CASE UNCHANGED row /\ Idle(u)
    BY <1>5, <1>10, <2>1 DEF CommitStart
  <2>2. \A w \in Workers : ~Healthy(w)
    BY <1>10, NoTakeover
  <2>3. CASE Idle(u)
    BY <1>3, <1>4, <2>2, <2>3
  <2>4. CASE /\ InstallRun(u)
             /\ phase' = [phase EXCEPT ![u] = "executing"]
             /\ tx' = [tx EXCEPT ![u] = "none"]
             /\ run' = [run EXCEPT ![u] = Len(runs) + 1]
             /\ clk' = [clk EXCEPT ![u] = 0]
             /\ beat' = [beat EXCEPT ![u] = now + HeartbeatEvery]
             /\ UNCHANGED <<beatErr, result, tick, late, faults>>
    <3>1. \A w \in Workers \ {u} : Untouched(w)
      BY <1>t, <2>4
    <3>2. row'.active = Len(runs) + 1 /\ row'.lease = clk[u] + Lease
      BY <1>t, <2>4 DEF InstallRun, TypeOK
    <3>3. tx'[u] = "none" /\ run'[u] = Len(runs) + 1 /\ beat'[u] = now + HeartbeatEvery
      BY <1>t, <2>4
    <3>4. now' = now /\ tx[u] # "none"
      BY <1>10 DEF CommitStart
    <3>5. u \notin late => Clock(u) <= clk[u] + Jitter
      BY <1>i, <3>4 DEF ClockIsKept
    <3>6. clk[u] \in Int /\ Skew[u] \in Int
      BY <1>t
    <3>7. u \notin late => Ahead(u)'
      BY <1>t, <3>2, <3>3, <3>4, <3>5, <3>6 DEF Ahead, Clock
    <3>8. Healthy(u)' => Ahead(u)'
      BY <2>4, <3>7 DEF Healthy
    <3> HIDE DEF Untouched
    <3> QED
      BY <1>3, <2>2, <3>1, <3>8
  <2> QED
    BY <1>10, <2>1, <2>3, <2>4 DEF CommitStart
<1>11. ASSUME NEW u \in Workers, BeginBeat(u) PROVE HealthyIsAhead'
  <2>1. /\ LeaseKept /\ now' = now
        /\ \A w \in Workers \ {u} : Untouched(w)
    BY <1>t, <1>11 DEF BeginBeat
  <2>2. ASSUME Healthy(u)' PROVE Ahead(u)'
    <3>1. Ahead(u) /\ tx[u] = "none"
      BY <1>i, <1>11, <2>2 DEF BeginBeat, Healthy, HealthyIsAhead
    <3>2. /\ tx'[u] = "begun" /\ clk'[u] = now + Skew[u] /\ run'[u] = run[u]
          /\ beat'[u] = NextTick(beat[u], HeartbeatEvery)
      BY <1>t, <1>11 DEF BeginBeat, Clock
    <3>3. beat[u] \in Int /\ Skew[u] \in Int /\ HeartbeatEvery \in Nat \ {0} /\ now >= beat[u]
      BY <1>t, <1>11 DEF BeginBeat
    <3> DEFINE next == NextTick(beat[u], HeartbeatEvery)
    <3> HIDE DEF next
    <3>4. now < next /\ next <= now + HeartbeatEvery /\ next \in Int
      BY <1>t, <3>3, NextTickBound, NextTickInt DEF next
    <3>5. beat'[u] = next /\ row'.lease = row.lease /\ row'.active = row.active
      BY <2>1, <3>2 DEF next
    <3>6. /\ now + Skew[u] <= row.lease - Lease + HeartbeatEvery + 2 * Jitter
          /\ next + Skew[u] > now + Skew[u]
          /\ next + Skew[u] <= (now + Skew[u]) + HeartbeatEvery
      <4>1. now <= beat[u] + Jitter
        BY <3>1 DEF Ahead
      <4>2. beat[u] + Skew[u] <= row.lease - Lease + HeartbeatEvery + Jitter
        BY <3>1 DEF Ahead
      <4>3. now \in Int /\ row.lease \in Int /\ Lease \in Int /\ Jitter \in Int
        BY <1>t
      <4>4. now + Skew[u] <= row.lease - Lease + HeartbeatEvery + 2 * Jitter
        BY <3>3, <4>1, <4>2, <4>3
      <4>5. next + Skew[u] > now + Skew[u] /\ next + Skew[u] <= (now + Skew[u]) + HeartbeatEvery
        BY <3>3, <3>4, <4>3
      <4> QED
        BY <4>4, <4>5
    <3>7. row.active = run[u]
      BY <3>1 DEF Ahead
    <3> QED
      BY <3>2, <3>5, <3>6, <3>7 DEF Ahead
  <2> HIDE DEF Untouched, LeaseKept
  <2> QED
    BY <1>2, <2>1, <2>2
<1>12. ASSUME NEW u \in Workers, LockBeat(u) PROVE HealthyIsAhead'
  <2>1. CASE StopBeating(u, "fenced")
    BY <1>6, <1>12, <2>1 DEF LockBeat
  <2>2. CASE tx' = [tx EXCEPT ![u] = "locked"] /\ UNCHANGED <<clk, beatErr>>
    <3>1. /\ LeaseKept /\ now' = now
          /\ \A w \in Workers \ {u} : Untouched(w)
      BY <1>t, <1>12, <2>2 DEF LockBeat
    <3>2. Healthy(u)' => Ahead(u)'
      BY <1>t, <1>i, <1>12, <2>2 DEF LockBeat, Healthy, HealthyIsAhead, Ahead
    <3> HIDE DEF Untouched, LeaseKept
    <3> QED
      BY <1>2, <3>1, <3>2
  <2> QED
    BY <1>12, <2>1, <2>2 DEF LockBeat
\* A heartbeat renews the lease from the clock it read; only the owner of the
\* active run writes one.
<1>13. ASSUME NEW u \in Workers, CommitBeat(u) PROVE HealthyIsAhead'
  <2>1. CASE UNCHANGED row /\ StopBeating(u, "fenced")
    BY <1>6, <1>13, <2>1 DEF CommitBeat
  <2>2. CASE row.active = run[u] /\ row' = [row EXCEPT !.lease = clk[u] + Lease]
    <3>1. run[u] # 0 /\ tx[u] = "locked"
      BY <1>i, <1>13 DEF CommitBeat, Beating, RunIsHeld
    <3>2. \A w \in Workers \ {u} : ~Healthy(w)
      BY <1>i, <2>2, <3>1 DEF HealthyIsAhead, Ahead, RunsAreOwned
    <3>3. \A w \in Workers \ {u} : Untouched(w)
      BY <1>t, <1>13 DEF CommitBeat, StopBeating
    <3>4. ASSUME Healthy(u)' PROVE Ahead(u)'
      <4>1. /\ phase' = phase /\ late' = late /\ run' = run /\ beat' = beat /\ now' = now
        BY <1>13 DEF CommitBeat
      <4>2. tx'[u] = "none" /\ beatErr[u] = "none"
        BY <1>t, <1>13, <2>2, <3>4 DEF CommitBeat, StopBeating, Healthy
      <4>3. Healthy(u) /\ Ahead(u)
        BY <1>i, <3>4, <4>1, <4>2 DEF Healthy, HealthyIsAhead
      <4>4. Clock(u) <= clk[u] + Jitter
        BY <1>i, <3>1, <4>3 DEF ClockIsKept, Healthy
      <4>5. row'.active = row.active /\ row'.lease = clk[u] + Lease
        BY <1>t, <2>2 DEF TypeOK
      <4>6. beat[u] \in Int /\ Skew[u] \in Int /\ clk[u] \in Int
        BY <1>t
      <4>7. now <= beat[u] + Jitter
        BY <1>t, <3>1, <4>3, <4>4, <4>6 DEF Ahead, Clock
      <4>8. beat[u] + Skew[u] <= (clk[u] + Lease) - Lease + HeartbeatEvery + Jitter
        BY <1>t, <3>1, <4>3, <4>6 DEF Ahead
      <4>9. row.active = run[u]
        BY <4>3 DEF Ahead
      <4> QED
        BY <4>1, <4>2, <4>5, <4>7, <4>8, <4>9 DEF Ahead
    <3> HIDE DEF Untouched
    <3> QED
      BY <1>3, <3>2, <3>3, <3>4
  <2> QED
    BY <1>13, <2>1, <2>2 DEF CommitBeat
\* Only the owner of the active run closes it, and it is not executing any more.
<1>14. ASSUME NEW u \in Workers, CommitFinish(u) PROVE HealthyIsAhead'
  <2>1. Idle(u) /\ now' = now
    BY <1>14 DEF CommitFinish
  <2>2. CASE UNCHANGED row
    BY <1>5, <2>1, <2>2
  <2>3. CASE row.active = run[u]
    <3>1. run[u] # 0
      BY <1>i, <1>14 DEF CommitFinish, RunIsHeld
    <3>2. \A w \in Workers \ {u} : ~Healthy(w)
      BY <1>i, <2>3, <3>1 DEF HealthyIsAhead, Ahead, RunsAreOwned
    <3> QED
      BY <1>3, <1>4, <2>1, <3>2
  <2> QED
    BY <1>14, <2>2, <2>3 DEF CommitFinish
<1>15. ASSUME NEW u \in Workers, DeadlockAbort(u) \/ DbError(u) PROVE HealthyIsAhead'
  <2>1. RolledBack(u) /\ UNCHANGED <<now, row>>
    BY <1>15 DEF DeadlockAbort, DbError
  <2>2. CASE Idle(u)
    BY <1>5, <2>1, <2>2
  <2>3. CASE StopBeating(u, "failed") /\ UNCHANGED <<phase, run, result, beat, late>>
    BY <1>6, <2>1, <2>3
  <2> QED
    BY <2>1, <2>2, <2>3 DEF RolledBack
<1>16. ASSUME NEW u \in Workers, Crash(u) PROVE HealthyIsAhead'
  BY <1>5, <1>16 DEF Crash
<1>17. ASSUME NEW u \in Workers, Stall(u) PROVE HealthyIsAhead'
  <2>1. /\ LeaseKept /\ now' = now /\ ~Healthy(u)'
        /\ \A w \in Workers \ {u} : Untouched(w)
    BY <1>t, <1>17 DEF Stall, Healthy
  <2> HIDE DEF Untouched, LeaseKept
  <2> QED
    BY <1>2, <2>1
<1>18. CASE UNCHANGED vars
  BY <1>i, <1>18 DEF vars, local, HealthyIsAhead, Healthy, Ahead
<1> QED
  BY <1>7, <1>8, <1>9, <1>10, <1>11, <1>12, <1>13, <1>14, <1>15, <1>16, <1>17, <1>18
     DEF Next, Step, Fault

\* Initially nobody holds a run or has a transaction open.
LEMMA InitTime == ASSUME Init PROVE TimeInv
<1>1. \A w \in Workers : run[w] = 0 /\ tx[w] = "none" /\ phase[w] = "idle"
  BY DEF Init
<1> QED
  BY <1>1 DEF TimeInv, RunsAreOwned, ClockIsKept, HealthyIsAhead, Healthy

\* The ledgers' invariant and the one about time hold throughout.
LEMMA TimeInvariant == Spec => [](JobInv /\ TimeInv)
<1>1. Init => JobInv /\ TimeInv
  BY InitInv, InitTime
<1>2. JobInv /\ TimeInv /\ [Next]_vars => (JobInv /\ TimeInv)'
  <2> SUFFICES ASSUME JobInv, TimeInv, [Next]_vars
               PROVE  JobInv' /\ TimeInv'
    OBVIOUS
  <2>1. RunsAreOwned /\ ClockIsKept
    BY DEF TimeInv
  <2> QED
    BY <2>1, JobInvStep, OwnedStep, ClockStep, AheadStep DEF TimeInv
<1> QED
  BY <1>1, <1>2, PTL DEF Spec

\* The job body runs on one healthy replica at a time: for any number of replicas,
\* any skew of their clocks and any interval, provided the lease outlasts a
\* heartbeat and its jitter on every clock (LeaseOutlastsHeartbeat).
THEOREM HealthyReplicaIsAlone == Spec => []HealthyRunIsExclusive
<1>1. JobInv /\ TimeInv => HealthyRunIsExclusive
  <2> SUFFICES ASSUME JobInv, TimeInv, NEW v \in Workers, NEW w \in Workers,
                      v # w, Healthy(v), Healthy(w)
               PROVE  FALSE
    BY DEF HealthyRunIsExclusive, Healthy
  <2>1. row.active = run[v] /\ row.active = run[w] /\ run[v] # 0
    BY DEF JobInv, TimeInv, HealthyIsAhead, Ahead, RunIsHeld, Healthy
  <2> QED
    BY <2>1 DEF TimeInv, RunsAreOwned
<1> QED
  BY <1>1, TimeInvariant, PTL

\* A replica that lost its lease neither replaces another's run nor records a success.
THEOREM LostLeaseChangesNothing == Spec => RunsAreFenced
BY FencedReplicaChangesNothing, RecordedSuccessIsEarned DEF RunsAreFenced
=============================================================================
