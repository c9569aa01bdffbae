------------------------------ MODULE JobLease ------------------------------
(***************************************************************************)
(* One recurring job of the worker (cmd/worker/scheduler.go) and its       *)
(* ledger (modules/operations_health/repository.go, V57): the row of       *)
(* worker_job_heartbeats, the rows of worker_job_runs, and the replicas    *)
(* that claim, heartbeat and finish runs of it.  Jobs do not share rows,   *)
(* so one job is enough.                                                   *)
(*                                                                         *)
(* Each repository method is three steps: it reads its replica's clock, it *)
(* locks its first row (StartRun the heartbeat row, HeartbeatRun and       *)
(* FinishRun the run's row), and it locks the other row and commits.  The  *)
(* orders are opposite, so a takeover and a late heartbeat may deadlock in *)
(* PostgreSQL, which aborts one of the two.                                *)
(*                                                                         *)
(* Time is discrete.  A replica that is not `late' takes its steps within  *)
(* Jitter of their due time; a late one may be delayed for ever.           *)
(***************************************************************************)
EXTENDS Integers, Sequences, FiniteSets

CONSTANTS
  Workers,        \* the replicas of the worker process
  Interval,       \* recurringJob.interval
  Lease,          \* defaultJobLeaseDuration
  HeartbeatEvery, \* defaultJobHeartbeatInterval
  Jitter,         \* how late a healthy replica takes a step that is due
  Skew,           \* Skew[w]: the offset of w's wall clock
  MaxTime,        \* bound: the horizon of the clock
  MaxRuns,        \* bound: how many runs are ever started
  MaxFaults       \* bound: crashes, stalls, failed and ambiguous transactions

ASSUME JobAssumption ==
  /\ Interval \in Nat \ {0} /\ Lease \in Nat \ {0} /\ HeartbeatEvery \in Nat \ {0}
  /\ Jitter \in Nat /\ MaxTime \in Nat /\ MaxRuns \in Nat /\ MaxFaults \in Nat
  /\ Skew \in [Workers -> Int]

\* What the lease is for: a healthy replica reads its clock, commits StartRun
\* within Jitter, begins its first heartbeat within Jitter of its due time and
\* commits it within another; the 90 s lease outlasts that on every clock.
ASSUME LeaseOutlastsHeartbeat ==
  \A v, w \in Workers : HeartbeatEvery + 3 * Jitter + (Skew[v] - Skew[w]) < Lease

VARIABLES
  now,      \* real time
  row,      \* the heartbeat row: active run (0: NULL), lease, started, completed
  runs,     \* runs[r]: the status of the r-th row of worker_job_runs
  phase,    \* where each replica's executeRun is
  tx,       \* its transaction: none, begun (clock read) or locked (first row)
  clk,      \* the `now' that transaction read from the replica's clock (0: none)
  run,      \* the run executeRun holds (0: none)
  beatErr,  \* what ended its heartbeat goroutine: none, fenced or failed
  result,   \* what the job returned
  tick,     \* when the replica's job ticker fires next
  beat,     \* when its heartbeat ticker fires next
  late,     \* the replicas that have stopped keeping time
  faults    \* how many faults have happened

local == <<phase, tx, clk, run, beatErr, result, tick, beat, late>>
vars == <<now, row, runs, local, faults>>

Phases == {"idle", "starting", "executing", "returned", "finishing"}
\* "failed" stands for failed, cancelled and panicked alike.
Results == {"succeeded", "failed"}

\* The clock a replica's repository reads.
Clock(w) == now + Skew[w]
\* time.Ticker: ticks at fixed multiples, and ticks nobody waits for are dropped.
NextTick(due, period) == due + period * (1 + ((now - due) \div period))

Init ==
  /\ now = 0
  /\ row = [active |-> 0, lease |-> 0, started |-> -Interval, completed |-> -Interval]
  /\ runs = << >>
  /\ phase = [w \in Workers |-> "idle"]
  /\ tx = [w \in Workers |-> "none"]
  /\ clk = [w \in Workers |-> 0]
  /\ run = [w \in Workers |-> 0]
  /\ beatErr = [w \in Workers |-> "none"]
  /\ result = [w \in Workers |-> "failed"]
  /\ tick = [w \in Workers |-> 0]
  /\ beat = [w \in Workers |-> 0]
  /\ late = {}
  /\ faults = 0

-----------------------------------------------------------------------------
\* executeRun returns to runJob's loop: what it held is forgotten.
Idle(w) ==
  /\ phase' = [phase EXCEPT ![w] = "idle"]
  /\ tx' = [tx EXCEPT ![w] = "none"]
  /\ clk' = [clk EXCEPT ![w] = 0]
  /\ run' = [run EXCEPT ![w] = 0]
  /\ beatErr' = [beatErr EXCEPT ![w] = "none"]
  /\ result' = [result EXCEPT ![w] = "failed"]
  /\ beat' = [beat EXCEPT ![w] = 0]
  /\ late' = late \ {w}

\* The heartbeat row is locked between SELECT ... FOR UPDATE and commit.
RowLocked == \E u \in Workers : phase[u] = "starting" /\ tx[u] = "locked"
\* A run's row is locked between HeartbeatRun's or FinishRun's first statement
\* and its commit.
RunLocked(r) ==
  \E u \in Workers : phase[u] # "starting" /\ tx[u] = "locked" /\ run[u] = r

\* Mutants: the lease counts from the start of the run, whatever heartbeats say;
\* a live lease is not looked at; a lease never runs out.
HeldFromStart(w) ==
  \/ row.active # 0 /\ row.started + Lease > clk[w]
  \/ row.active = 0 /\ row.started + Interval > clk[w]
HeldCadenceOnly(w) == row.active = 0 /\ row.started + Interval > clk[w]
HeldForEver(w) == row.active # 0 \/ row.started + Interval > clk[w]

\* ErrJobLeaseHeld: a live lease, or the cadence fence of a terminal run.
Held(w) ==
  \/ row.active # 0 /\ row.lease > clk[w]
  \/ row.active = 0 /\ row.started + Interval > clk[w]

-----------------------------------------------------------------------------
(* StartRun *)

\* The ticker fired (or the loop has just begun): StartRun reads the clock.
BeginStart(w) ==
  /\ phase[w] = "idle"
  /\ now >= tick[w]
  /\ Len(runs) + Cardinality({u \in Workers : phase[u] = "starting"}) < MaxRuns
  /\ phase' = [phase EXCEPT ![w] = "starting"]
  /\ tx' = [tx EXCEPT ![w] = "begun"]
  /\ clk' = [clk EXCEPT ![w] = Clock(w)]
  /\ tick' = [tick EXCEPT ![w] = NextTick(@, Interval)]
  /\ UNCHANGED <<now, row, runs, run, beatErr, result, beat, late, faults>>

\* SELECT ... FOR UPDATE, and the two refusals.
LockStart(w) ==
  /\ phase[w] = "starting" /\ tx[w] = "begun"
  /\ ~RowLocked
  /\ \/ /\ Held(w)
        /\ Idle(w)
        /\ UNCHANGED tick
     \/ /\ ~Held(w)
        /\ tx' = [tx EXCEPT ![w] = "locked"]
        /\ UNCHANGED <<phase, clk, run, beatErr, result, tick, beat, late>>
  /\ UNCHANGED <<now, row, runs, faults>>

\* Mutant: the expired run is left running.
AbandonedNot == runs
\* An expired run is closed as abandoned ...
Abandoned == [r \in DOMAIN runs |-> IF r = row.active /\ runs[r] = "running"
                                    THEN "abandoned" ELSE runs[r]]
\* Mutant: the row of the new run is not inserted.
InstallRunUnrecorded(w) ==
  /\ runs' = Abandoned
  /\ row' = [row EXCEPT !.active = Len(runs) + 1, !.started = clk[w],
                        !.lease = clk[w] + Lease]
\* ... and the new one is active under a fresh lease.
InstallRun(w) ==
  /\ runs' = Append(Abandoned, "running")
  /\ row' = [row EXCEPT !.active = Len(runs) + 1, !.started = clk[w],
                        !.lease = clk[w] + Lease]

\* The takeover's UPDATE waits for the old run's row.  The V57 time check
\* refuses a clock behind the last completion.  A commit whose answer is lost
\* leaves a run that nobody executes.
CommitStart(w) ==
  /\ phase[w] = "starting" /\ tx[w] = "locked"
  /\ ~RunLocked(row.active)
  /\ \/ /\ row.completed > clk[w]
        /\ Idle(w)
        /\ UNCHANGED <<row, runs, tick, faults>>
     \/ /\ row.completed <= clk[w]
        /\ InstallRun(w)
        /\ phase' = [phase EXCEPT ![w] = "executing"]
        /\ tx' = [tx EXCEPT ![w] = "none"]
        /\ run' = [run EXCEPT ![w] = Len(runs) + 1]
        /\ clk' = [clk EXCEPT ![w] = 0]
        /\ beat' = [beat EXCEPT ![w] = now + HeartbeatEvery]
        /\ UNCHANGED <<beatErr, result, tick, late, faults>>
     \/ /\ row.completed <= clk[w] /\ faults < MaxFaults
        /\ InstallRun(w)
        /\ Idle(w)
        /\ faults' = faults + 1
        /\ UNCHANGED tick
  /\ UNCHANGED now

-----------------------------------------------------------------------------
(* HeartbeatRun, called by the heartbeat goroutine until the job is done *)

Beating(w) == phase[w] \in {"executing", "returned"}

BeginBeat(w) ==
  /\ Beating(w) /\ tx[w] = "none" /\ beatErr[w] = "none"
  /\ now >= beat[w]
  /\ tx' = [tx EXCEPT ![w] = "begun"]
  /\ clk' = [clk EXCEPT ![w] = Clock(w)]
  /\ beat' = [beat EXCEPT ![w] = NextTick(@, HeartbeatEvery)]
  /\ UNCHANGED <<now, row, runs, phase, run, beatErr, result, tick, late, faults>>

\* The goroutine reports the error, cancels the job and ends.
StopBeating(w, err) ==
  /\ tx' = [tx EXCEPT ![w] = "none"]
  /\ clk' = [clk EXCEPT ![w] = 0]
  /\ beatErr' = [beatErr EXCEPT ![w] = err]

\* UPDATE worker_job_runs ... WHERE status = 'running'.
LockBeat(w) ==
  /\ Beating(w) /\ tx[w] = "begun"
  /\ \/ /\ runs[run[w]] = "running"
        /\ tx' = [tx EXCEPT ![w] = "locked"]
        /\ UNCHANGED <<clk, beatErr>>
     \/ /\ runs[run[w]] # "running"
        /\ StopBeating(w, "fenced")
  /\ UNCHANGED <<now, row, runs, phase, run, result, tick, beat, late, faults>>

\* UPDATE worker_job_heartbeats ... WHERE active_run_id = run; the answer of
\* the commit may be lost.
CommitBeat(w) ==
  /\ Beating(w) /\ tx[w] = "locked"
  /\ ~RowLocked
  /\ \/ /\ row.active # run[w]
        /\ StopBeating(w, "fenced")
        /\ UNCHANGED <<row, faults>>
     \/ /\ row.active = run[w]
        /\ row' = [row EXCEPT !.lease = clk[w] + Lease]
        /\ \/ /\ tx' = [tx EXCEPT ![w] = "none"]
              /\ clk' = [clk EXCEPT ![w] = 0]
              /\ UNCHANGED <<beatErr, faults>>
           \/ /\ faults < MaxFaults
              /\ StopBeating(w, "failed")
              /\ faults' = faults + 1
  /\ UNCHANGED <<now, runs, phase, run, result, tick, beat, late>>

-----------------------------------------------------------------------------
(* The job, and FinishRun *)

\* invokeJob returns; a job whose context was cancelled has not succeeded.  (A
\* SIGTERM cancels the job the same way: it returns as failed, is finished, and
\* the process that replaces it is the same replica, idle.)
JobReturns(w) ==
  /\ phase[w] = "executing"
  /\ \E res \in Results :
       /\ beatErr[w] # "none" => res = "failed"
       /\ result' = [result EXCEPT ![w] = res]
  /\ phase' = [phase EXCEPT ![w] = "returned"]
  /\ UNCHANGED <<now, row, runs, tx, clk, run, beatErr, tick, beat, late, faults>>

\* <-heartbeatsDone; a fenced run is left alone, any other heartbeat error makes
\* the run a failed one (JOB_HEARTBEAT_FAILED).
BeginFinish(w) ==
  /\ phase[w] = "returned" /\ tx[w] = "none"
  /\ \/ /\ beatErr[w] = "fenced"
        /\ Idle(w)
     \/ /\ beatErr[w] # "fenced"
        /\ phase' = [phase EXCEPT ![w] = "finishing"]
        /\ tx' = [tx EXCEPT ![w] = "begun"]
        /\ clk' = [clk EXCEPT ![w] = Clock(w)]
        /\ result' = [result EXCEPT ![w] = IF beatErr[w] = "failed" THEN "failed" ELSE @]
        /\ UNCHANGED <<run, beatErr, beat, late>>
  /\ UNCHANGED <<now, row, runs, tick, faults>>

LockFinish(w) ==
  /\ phase[w] = "finishing" /\ tx[w] = "begun"
  /\ \/ /\ runs[run[w]] = "running"
        /\ tx' = [tx EXCEPT ![w] = "locked"]
        /\ UNCHANGED <<phase, clk, run, beatErr, result, beat, late>>
     \/ /\ runs[run[w]] # "running"
        /\ Idle(w)
  /\ UNCHANGED <<now, row, runs, tick, faults>>

\* Both rows, or neither when the heartbeat row is another run's.
CommitFinish(w) ==
  /\ phase[w] = "finishing" /\ tx[w] = "locked"
  /\ ~RowLocked
  /\ \/ /\ row.active = run[w]
        /\ runs' = [runs EXCEPT ![run[w]] = result[w]]
        /\ row' = [row EXCEPT !.active = 0, !.lease = 0, !.completed = clk[w]]
     \/ /\ row.active # run[w]
        /\ UNCHANGED <<row, runs>>
  /\ Idle(w)
  /\ UNCHANGED <<now, tick, faults>>

-----------------------------------------------------------------------------
(* Failures and time *)

\* A replica holding a run's row and a replica taking that run over wait for
\* each other's rows.
Deadlocked(w) ==
  /\ tx[w] = "locked"
  /\ \E u \in Workers \ {w} :
       /\ tx[u] = "locked"
       /\ {phase[u], phase[w]} \cap {"starting"} # {}
       /\ row.active \in {run[u], run[w]} \ {0}

\* What an aborted transaction leaves of each method: StartRun returns, a
\* heartbeat error cancels the job, FinishRun's error is ignored.
RolledBack(w) ==
  \/ Beating(w) /\ StopBeating(w, "failed")
       /\ UNCHANGED <<phase, run, result, beat, late>>
  \/ ~Beating(w) /\ Idle(w)

\* PostgreSQL's deadlock detector picks one of the two.
DeadlockAbort(w) ==
  /\ Deadlocked(w)
  /\ RolledBack(w)
  /\ UNCHANGED <<now, row, runs, tick, faults>>

\* A statement fails, or the method's context times out.
DbError(w) ==
  /\ tx[w] # "none" /\ faults < MaxFaults
  /\ RolledBack(w)
  /\ faults' = faults + 1
  /\ UNCHANGED <<now, row, runs, tick>>

\* The process dies and is started again; its transaction is rolled back.
Crash(w) ==
  /\ phase[w] # "idle" /\ faults < MaxFaults
  /\ Idle(w)
  /\ tick' = [tick EXCEPT ![w] = now]
  /\ faults' = faults + 1
  /\ UNCHANGED <<now, row, runs>>

\* The process stops keeping time (a paused machine, a slow database).
Stall(w) ==
  /\ w \notin late /\ phase[w] # "idle" /\ faults < MaxFaults
  /\ late' = late \cup {w}
  /\ faults' = faults + 1
  /\ UNCHANGED <<now, row, runs, phase, tx, clk, run, beatErr, result, tick, beat>>

\* A healthy replica has a step that cannot wait any longer.
Overdue(w) ==
  /\ w \notin late
  /\ \/ phase[w] = "idle" /\ Len(runs) < MaxRuns /\ now >= tick[w] + Jitter
     \/ tx[w] # "none" /\ Clock(w) >= clk[w] + Jitter
     \/ phase[w] = "executing" /\ tx[w] = "none" /\ beatErr[w] = "none"
          /\ now >= beat[w] + Jitter

Advance ==
  /\ now < MaxTime
  /\ \A w \in Workers : ~Overdue(w)
  /\ now' = now + 1
  /\ UNCHANGED <<row, runs, local, faults>>

Step(w) ==
  \/ BeginStart(w) \/ LockStart(w) \/ CommitStart(w)
  \/ BeginBeat(w) \/ LockBeat(w) \/ CommitBeat(w)
  \/ JobReturns(w) \/ BeginFinish(w) \/ LockFinish(w) \/ CommitFinish(w)
  \/ DeadlockAbort(w)

Fault(w) == DbError(w) \/ Crash(w) \/ Stall(w)

Next == Advance \/ \E w \in Workers : Step(w) \/ Fault(w)

Spec == Init /\ [][Next]_vars

\* runJob's ticker loop, the heartbeat goroutine and PostgreSQL's deadlock
\* detector keep going, jobs return, and time passes.
Fairness == WF_vars(Advance) /\ \A w \in Workers : WF_vars(Step(w))
FairSpec == Spec /\ Fairness

-----------------------------------------------------------------------------
(* Properties *)

\* Every column and variable keeps its type.
TypeOK ==
  /\ now \in 0..MaxTime
  /\ row \in [active : 0..Len(runs), lease : Int, started : Int, completed : Int]
  /\ runs \in Seq({"running", "abandoned"} \cup Results)
  /\ phase \in [Workers -> Phases]
  /\ tx \in [Workers -> {"none", "begun", "locked"}]
  /\ clk \in [Workers -> Int]
  /\ run \in [Workers -> 0..Len(runs)]
  /\ beatErr \in [Workers -> {"none", "fenced", "failed"}]
  /\ result \in [Workers -> Results]
  /\ tick \in [Workers -> Int] /\ beat \in [Workers -> Int]
  /\ late \subseteq Workers
  /\ faults \in 0..MaxFaults

\* The two tables agree: the run the heartbeat row calls active is the one run
\* that is running, across takeovers, deadlocks, lost answers and late finishes
\* (V57's active_run_id and "immutable terminal run history").
LedgersAgree ==
  \A r \in DOMAIN runs : runs[r] = "running" <=> row.active = r

\* The job body runs on one replica at a time, as long as that replica keeps its
\* heartbeats: whoever executes a run that another replica has taken over is
\* late, or its heartbeat failed and its job has been told to stop.  Clocks that
\* are apart, stale reads of the clock and waiting for rows are all allowed for.
HealthyRunIsExclusive ==
  \A v, w \in Workers :
    v # w /\ phase[v] = "executing" /\ phase[w] = "executing" =>
      \E u \in {v, w} : u \in late \/ beatErr[u] # "none"

\* An old replica never ends, extends or replaces another replica's run: the
\* active run changes only when its own replica finishes it, or when its lease
\* has run out on the clock of the replica that takes over; and a closed run
\* stays as it was closed.
OnlyOwnerOrExpiry ==
  [][/\ row.active # 0 /\ row'.active # row.active =>
          \E w \in Workers :
            \/ phase[w] = "finishing" /\ run[w] = row.active
            \/ phase[w] = "starting" /\ row.lease <= clk[w]
     /\ row.active # 0 /\ row'.active = row.active /\ row'.lease # row.lease =>
          \E w \in Workers : run[w] = row.active /\ tx[w] = "locked"
     /\ \A r \in DOMAIN runs : runs[r] # "running" => runs'[r] = runs[r]]_<<row, runs>>

\* A run recorded as succeeded was never told to stop and its job did return:
\* when FinishRun writes it, its replica's heartbeats had not failed.
SuccessIsEarned ==
  [][\A r \in DOMAIN runs : runs[r] = "running" /\ runs'[r] = "succeeded" =>
       \E w \in Workers : run[w] = r /\ beatErr[w] = "none" /\ result[w] = "succeeded"]_runs

\* Nobody executes the active run r any more, and its lease ends too late for
\* the clock's horizon to show the takeover.
OrphanAtHorizon(r) ==
  /\ row.active = r /\ \A w \in Workers : run[w] # r
  /\ row.lease + 3 * Interval > MaxTime

\* Every run is closed, whoever crashed and whatever answer was lost: its replica
\* finishes it, or after its lease the next tick of any replica abandons it.
\* (Nothing is claimed of a run orphaned at the horizon, nor of the last run the
\* bound allows.)
EveryRunEnds ==
  \A r \in 1..(MaxRuns - 1) :
    row.active = r ~> (r \in DOMAIN runs /\ runs[r] # "running") \/ OrphanAtHorizon(r)

\* A replica that lost its lease changes nothing: neither the active run of another nor,
\* by a late success, its own.
RunsAreFenced == OnlyOwnerOrExpiry /\ SuccessIsEarned
=============================================================================
