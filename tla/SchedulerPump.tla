---------------------------- MODULE SchedulerPump ----------------------------
(***************************************************************************)
(* Who wakes the scheduler (the process-local pump of                      *)
(* src/pipeline/jobScheduler.ts, started by jobSchedulerBootstrap.ts and   *)
(* by the report, retry and cancel routes).                                *)
(*                                                                         *)
(* SQLite rows say what is to be done; nothing in SQLite calls a process.  *)
(* Each process keeps one pump: a request schedules a microtask, the pump  *)
(* claims until nothing is claimable, and before it goes idle it arms one  *)
(* timer for the earliest durable time at which it should look again.      *)
(* Other processes, the clock and crashes change the rows at any moment    *)
(* between those steps, and a lost wake strands a row for good.            *)
(***************************************************************************)
EXTENDS Integers, FiniteSets

CONSTANTS
    Procs,       \* Node processes on one database
    Jobs,        \* rows of the jobs table
    MaxJobs,     \* limits.maxActiveJobs
    MaxGen,      \* bound: retries of one job
    MaxCrashes,  \* bound: crashes, over all processes
    MaxFaults,   \* bound: database faults met by a pump, over all processes
    None         \* SQL NULL

ASSUME PumpAssumption ==
    /\ MaxJobs \in Nat \ {0}
    /\ {MaxGen, MaxCrashes, MaxFaults} \subseteq Nat
    /\ None \notin Procs

Gens == 0..MaxGen

Runs == [proc : Procs, job : Jobs, gen : Gens]

VARIABLES
    row,      \* jobs: status, runGeneration, leaseOwner, lease in the past
    paid,     \* job_llm_leases of each generation: "none", "live" or "expired"
    up,       \* processes that are running
    pump,     \* SchedulerPumpState of each process
    runs,     \* claims whose runClaim promise is pending
    failed,   \* SchedulerPumpState.failedClaims
    crashes, faults

vars == <<row, paid, up, pump, runs, failed, crashes, faults>>

\* dirty stands for epoch # startedEpoch, wake for an armed wakeTimer.
Pump == [scheduled : BOOLEAN, phase : {"idle", "failed", "claiming", "ending", "threw"},
         dirty : BOOLEAN, wake : BOOLEAN]

Fresh == [scheduled |-> FALSE, phase |-> "idle", dirty |-> FALSE, wake |-> FALSE]

\* Bug: a job that ends keeps its lease columns.
TerminalLeased(r) == [r EXCEPT !.status = "terminal"]

\* terminalizeClaim, cancelJob and the reconciliation of an expired claim.
Terminal(r) == [status |-> "terminal", gen |-> r.gen, owner |-> None, lapsed |-> FALSE]

\* The exact live claim a run is fenced on.
Owned(r) ==
    /\ row[r.job].status = "running" /\ ~row[r.job].lapsed
    /\ row[r.job].owner = r.proc /\ row[r.job].gen = r.gen

\* The event loop of p turns: the claim loop and what follows it do not await.
Yields(p) == p \in up /\ pump[p].phase \in {"idle", "failed"}

-------------------------------------------------------------------------------
(* The pump.                                                               *)

\* Bug: a request that finds a timer armed relies on it, after clearing it.
RequestedOrArmed(s) ==
    [s EXCEPT !.wake = FALSE, !.dirty = TRUE,
              !.scheduled = @ \/ (s.phase = "idle" /\ ~s.wake)]

\* requestPump.
Requested(s) ==
    [s EXCEPT !.wake = FALSE, !.dirty = TRUE, !.scheduled = @ \/ s.phase = "idle"]

RequestPump(p) == pump' = [pump EXCEPT ![p] = Requested(@)]

\* Bug: only future times count, so what came due since the claim is missed.
FutureWake ==
    \E j \in Jobs : \/ row[j].status = "running" /\ ~row[j].lapsed
                    \/ \E g \in Gens : paid[j][g] = "live"

\* earliestDurableWake: a due row, a claim or a paid lease, past or future.
DurableWake ==
    \E j \in Jobs : \/ row[j].status \in {"queued", "running"}
                    \/ \E g \in Gens : paid[j][g] # "none"

\* The scheduled microtask: pumpQueuedJobs begins.
StartPump(p) ==
    /\ p \in up /\ pump[p].scheduled
    /\ pump' = [pump EXCEPT ![p] = [@ EXCEPT !.scheduled = FALSE, !.dirty = FALSE,
                                             !.phase = "failed"]]
    /\ UNCHANGED <<row, paid, up, runs, failed, crashes, faults>>

\* Bug: the failed claim ends whatever runs under its job id.
EndsAnyClaim(p, r) ==
    /\ row' = IF row[r.job].status = "running"
              THEN [row EXCEPT ![r.job] = Terminal(@)] ELSE row
    /\ failed' = failed \ {r}

\* terminalizeSchedulerExecutionFailure: only the exact live claim ends.
EndsFailedClaim(p, r) ==
    /\ row' = IF Owned(r) THEN [row EXCEPT ![r.job] = Terminal(@)] ELSE row
    /\ failed' = failed \ {r}

TerminalizeFailed(p) ==
    /\ p \in up /\ pump[p].phase = "failed"
    /\ \E r \in failed : r.proc = p /\ EndsFailedClaim(p, r)
    /\ UNCHANGED <<paid, up, pump, runs, crashes, faults>>

BeginClaims(p) ==
    /\ p \in up /\ pump[p].phase = "failed"
    /\ \A r \in failed : r.proc # p
    /\ pump' = [pump EXCEPT ![p].phase = "claiming"]
    /\ UNCHANGED <<row, paid, up, runs, failed, crashes, faults>>

\* pruneExpiredPaidLeases and reconcileExpiredJobClaims, first in every claim.
SweptPaid == [j \in Jobs |-> [g \in Gens |-> IF paid[j][g] = "expired" THEN "none" ELSE paid[j][g]]]

SweptRow ==
    [j \in Jobs |-> IF row[j].status = "running" /\ row[j].lapsed THEN Terminal(row[j]) ELSE row[j]]

HasSlot == Cardinality({j \in Jobs : SweptRow[j].status = "running"}) < MaxJobs

Claimable(j) ==
    /\ HasSlot /\ row[j].status = "queued"
    /\ \A g \in Gens : g < row[j].gen => SweptPaid[j][g] = "none"

\* claimNextQueuedJob and the start of its run.
ClaimJob(p, j) ==
    /\ p \in up /\ pump[p].phase = "claiming" /\ Claimable(j)
    /\ row' = [SweptRow EXCEPT ![j] = [@ EXCEPT !.status = "running", !.owner = p]]
    /\ paid' = SweptPaid
    /\ runs' = runs \cup {[proc |-> p, job |-> j, gen |-> row[j].gen]}
    /\ UNCHANGED <<up, pump, failed, crashes, faults>>

\* The same transaction ends a retry whose report is already linked or whose
\* source plan is no longer coherent.
EndQueuedRetry(p, j) ==
    /\ p \in up /\ pump[p].phase = "claiming"
    /\ HasSlot /\ row[j].status = "queued" /\ row[j].gen > 0
    /\ row' = [SweptRow EXCEPT ![j] = Terminal(@)]
    /\ paid' = SweptPaid
    /\ UNCHANGED <<up, pump, runs, failed, crashes, faults>>

NothingClaimed(p) ==
    /\ p \in up /\ pump[p].phase = "claiming"
    /\ \A j \in Jobs : ~Claimable(j)
    /\ row' = SweptRow /\ paid' = SweptPaid
    /\ pump' = [pump EXCEPT ![p].phase = "ending"]
    /\ UNCHANGED <<up, runs, failed, crashes, faults>>

\* The finally block: another request came in, or the next durable wake is armed.
Idled(s, wake) ==
    LET idle == [s EXCEPT !.phase = "idle"]
    IN IF s.dirty THEN Requested(idle) ELSE [idle EXCEPT !.wake = wake]

EndPump(p) ==
    /\ p \in up /\ pump[p].phase = "ending"
    /\ pump' = [pump EXCEPT ![p] = Idled(@, DurableWake)]
    /\ UNCHANGED <<row, paid, up, runs, failed, crashes, faults>>

\* A writer lock or filesystem error, in any transaction or read of the pump.
PumpFault(p) ==
    /\ p \in up /\ pump[p].phase \in {"failed", "claiming", "ending"}
    /\ faults < MaxFaults /\ faults' = faults + 1
    /\ pump' = [pump EXCEPT ![p].phase = "threw"]
    /\ UNCHANGED <<row, paid, up, runs, failed, crashes>>

\* Bug: the rejection of the pump is swallowed.
Swallowed(p) ==
    /\ p \in up /\ pump[p].phase = "threw"
    /\ pump' = [pump EXCEPT ![p] = Idled(@, FALSE)]
    /\ UNCHANGED <<row, paid, up, runs, failed, crashes, faults>>

\* schedulePumpRetry, in the catch of the microtask.
RetryPump(p) ==
    /\ p \in up /\ pump[p].phase = "threw"
    /\ pump' = [pump EXCEPT ![p] = [Idled(@, FALSE) EXCEPT !.wake = TRUE]]
    /\ UNCHANGED <<row, paid, up, runs, failed, crashes, faults>>

\* armDurableWake's timer.
WakeFires(p) ==
    /\ Yields(p) /\ pump[p].wake
    /\ RequestPump(p)
    /\ UNCHANGED <<row, paid, up, runs, failed, crashes, faults>>

-------------------------------------------------------------------------------
(* What a run does.                                                        *)

Executing(r) == r \in runs /\ Yields(r.proc)

\* acquirePaidPassLease.
TakePaid(r) ==
    /\ Executing(r) /\ Owned(r)
    /\ paid[r.job][r.gen] = "none"
    /\ paid' = [paid EXCEPT ![r.job][r.gen] = "live"]
    /\ UNCHANGED <<row, up, pump, runs, failed, crashes, faults>>

\* settlePaidPassLease, settleRequestCost, releaseUnbilledPaidPassLease: a stale
\* run too may settle what it was authorized to start.
GiveBackPaid(r) ==
    /\ Executing(r)
    /\ paid[r.job][r.gen] # "none"
    /\ paid' = [paid EXCEPT ![r.job][r.gen] = "none"]
    /\ RequestPump(r.proc)
    /\ UNCHANGED <<row, up, runs, failed, crashes, faults>>

\* The terminal write of the run itself (persistReport, failRun, abortRun).
FinishRun(r) ==
    /\ Executing(r) /\ Owned(r)
    /\ row' = [row EXCEPT ![r.job] = Terminal(@)]
    /\ UNCHANGED <<paid, up, pump, runs, failed, crashes, faults>>

\* runClaim resolves: the run wrote its end, or lost the claim it would end.
RunResolves(r) ==
    /\ Executing(r) /\ ~Owned(r)
    /\ runs' = runs \ {r}
    /\ RequestPump(r.proc)
    /\ UNCHANGED <<row, paid, up, failed, crashes, faults>>

\* runClaim rejects: the run failed and so did writing that it failed.
RunRejects(r) ==
    /\ Executing(r)
    /\ runs' = runs \ {r}
    /\ failed' = failed \cup {r}
    /\ RequestPump(r.proc)
    /\ UNCHANGED <<row, paid, up, crashes, faults>>

-------------------------------------------------------------------------------
(* Routes: each commits its rows and kicks the pump of its own process.    *)

\* getOrCreateJobForSymbol sweeps first, in the same transaction.
EnqueueJob(p, j) ==
    /\ Yields(p) /\ row[j].status = "absent"
    /\ row' = [SweptRow EXCEPT ![j].status = "queued"]
    /\ paid' = SweptPaid
    /\ RequestPump(p)
    /\ UNCHANGED <<up, runs, failed, crashes, faults>>

\* A POST that finds a job of its symbol still active after the sweep.
ReuseActiveJob(p, j) ==
    /\ Yields(p) /\ SweptRow[j].status \in {"queued", "running"}
    /\ row' = SweptRow /\ paid' = SweptPaid
    /\ RequestPump(p)
    /\ UNCHANGED <<up, runs, failed, crashes, faults>>

RetryJob(p, j) ==
    /\ Yields(p) /\ row[j].status = "terminal" /\ row[j].gen < MaxGen
    /\ row' = [row EXCEPT ![j].status = "queued", ![j].gen = @ + 1]
    /\ RequestPump(p)
    /\ UNCHANGED <<paid, up, runs, failed, crashes, faults>>

CancelJob(p, j) ==
    /\ Yields(p) /\ row[j].status \in {"queued", "running"}
    /\ row' = [row EXCEPT ![j] = Terminal(@)]
    /\ RequestPump(p)
    /\ UNCHANGED <<paid, up, runs, failed, crashes, faults>>

\* reconcileExpiredJobClaims of a request that is then refused: nobody is kicked.
ReconcileOnly(p) ==
    /\ Yields(p)
    /\ row' = SweptRow /\ paid' = SweptPaid
    /\ UNCHANGED <<up, pump, runs, failed, crashes, faults>>

-------------------------------------------------------------------------------
(* The clock and crashes.                                                  *)

\* A claim that is not renewed runs out: its run is gone, or the machine slept.
ClaimLapses(j) ==
    /\ row[j].status = "running" /\ ~row[j].lapsed
    /\ row' = [row EXCEPT ![j].lapsed = TRUE]
    /\ UNCHANGED <<paid, up, pump, runs, failed, crashes, faults>>

PaidLapses(j, g) ==
    /\ paid[j][g] = "live"
    /\ paid' = [paid EXCEPT ![j][g] = "expired"]
    /\ UNCHANGED <<row, up, pump, runs, failed, crashes, faults>>

Crash(p) ==
    /\ p \in up /\ crashes < MaxCrashes
    /\ crashes' = crashes + 1
    /\ up' = up \ {p}
    /\ pump' = [pump EXCEPT ![p] = Fresh]
    /\ runs' = {r \in runs : r.proc # p}
    /\ failed' = {r \in failed : r.proc # p}
    /\ UNCHANGED <<row, paid, faults>>

\* bootstrapReportScheduler, with METIS_RESUME_ON_START.
Boot(p) ==
    /\ p \notin up
    /\ up' = up \cup {p}
    /\ RequestPump(p)
    /\ UNCHANGED <<row, paid, runs, failed, crashes, faults>>

-------------------------------------------------------------------------------
Init ==
    /\ row = [j \in Jobs |-> [status |-> "absent", gen |-> 0, owner |-> None, lapsed |-> FALSE]]
    /\ paid = [j \in Jobs |-> [g \in Gens |-> "none"]]
    /\ up = {}
    /\ pump = [p \in Procs |-> Fresh]
    /\ runs = {} /\ failed = {}
    /\ crashes = 0 /\ faults = 0

PumpStep(p) ==
    \/ StartPump(p) \/ TerminalizeFailed(p) \/ BeginClaims(p)
    \/ \E j \in Jobs : ClaimJob(p, j) \/ EndQueuedRetry(p, j)
    \/ NothingClaimed(p) \/ EndPump(p) \/ RetryPump(p)

RunStep(r) == FinishRun(r) \/ RunResolves(r) \/ RunRejects(r)

Route(p) ==
    \/ ReconcileOnly(p)
    \/ \E j \in Jobs : \/ EnqueueJob(p, j) \/ ReuseActiveJob(p, j)
                       \/ RetryJob(p, j) \/ CancelJob(p, j)

Next ==
    \/ \E p \in Procs : PumpStep(p) \/ PumpFault(p) \/ WakeFires(p) \/ Route(p) \/ Crash(p) \/ Boot(p)
    \/ \E r \in Runs : RunStep(r) \/ TakePaid(r) \/ GiveBackPaid(r)
    \/ \E j \in Jobs : ClaimLapses(j) \/ \E g \in Gens : PaidLapses(j, g)

Spec == Init /\ [][Next]_vars

\* Node runs its microtasks and timers, a stopped process is started again, a run
\* ends (its passes have deadlines, and the event loop lets each of its callbacks
\* have a turn between those of others), and a lease nobody renews runs out.
Fairness ==
    /\ \A p \in Procs : WF_vars(PumpStep(p)) /\ WF_vars(WakeFires(p)) /\ WF_vars(Boot(p))
    /\ \A r \in Runs : SF_vars(RunStep(r))
    /\ \A j \in Jobs : /\ WF_vars(ClaimLapses(j))
                       /\ \A g \in Gens : WF_vars(PaidLapses(j, g))

LiveSpec == Spec /\ Fairness

-------------------------------------------------------------------------------
(* Correctness.                                                            *)

\* Every variable keeps to the rows and the process state of the code, and the
\* lease columns of a job are those of a running claim, never of another status.
TypeOK ==
    /\ row \in [Jobs -> [status : {"absent", "queued", "running", "terminal"}, gen : Gens,
                         owner : Procs \cup {None}, lapsed : BOOLEAN]]
    /\ paid \in [Jobs -> [Gens -> {"none", "live", "expired"}]]
    /\ up \subseteq Procs
    /\ pump \in [Procs -> Pump]
    /\ runs \subseteq Runs
    /\ failed \subseteq Runs
    /\ crashes \in Nat /\ faults \in Nat
    /\ \A j \in Jobs : /\ row[j].status = "running" <=> row[j].owner # None
                       /\ row[j].lapsed => row[j].status = "running"

Outstanding(j) ==
    \/ row[j].status \in {"queued", "running"}
    \/ \E g \in Gens : paid[j][g] # "none"

\* p will look at the database again without being asked from outside.
WillLook(p) ==
    \/ p \notin up
    \/ pump[p].scheduled \/ pump[p].phase # "idle" \/ pump[p].wake
    \/ \E r \in runs : r.proc = p

\* "must not strand the only durable queued row" (requestPump): while a row is
\* queued or running, or a paid lease is retained, some process will look again,
\* whatever faults, crashes and foreign transactions came in between.
Attended == \A j \in Jobs : Outstanding(j) => \E p \in Procs : WillLook(p)

\* Cleaning up a claim whose execution failed never ends a run that is still
\* executing under its own live claim (terminalizeClaim's fence).
FailedClaimEndsNoOther ==
    [][\A r \in runs : Owned(r) /\ failed' # failed /\ r \in runs' => Owned(r)']_vars

\* A queued row is eventually claimed, ended or cancelled.
Served == \A j \in Jobs : row[j].status = "queued" ~> row[j].status # "queued"

\* A claim whose run is gone does not stay running: the slot comes back.
Recovered ==
    \A j \in Jobs :
        row[j].status = "running" /\ (\A r \in runs : ~Owned(r) \/ r.job # j)
            ~> row[j].status # "running"

===============================================================================
