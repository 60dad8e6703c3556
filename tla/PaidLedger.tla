------------------------------ MODULE PaidLedger ------------------------------
(***************************************************************************)
(* The paid-pass ledger of the durable report scheduler                    *)
(* (src/pipeline/jobScheduler.ts, jobState.ts, jobArtifacts.ts and the     *)
(* settlement checkpoint of jobRunner.ts).                                 *)
(*                                                                         *)
(* A run that holds a live job claim takes a durable lease on money before *)
(* it calls the provider.  The lease is renewed while the call is in       *)
(* flight, turned into a measured cost row when the call settles, released *)
(* when nothing was billed, and turned into a PRESUMED cost row when it    *)
(* expires without either.  Every operation below is one BEGIN IMMEDIATE   *)
(* transaction, so one action; the interleavings are those of the          *)
(* transactions of several runs, some of them stale, with the clock, with  *)
(* crashes and with the provider.                                          *)
(*                                                                         *)
(* A pass attempt and each provider request inside it ("<attempt>#rN")     *)
(* have a lease and cost rows of their own; both are Attempts here.        *)
(***************************************************************************)
EXTENDS Integers, FiniteSets, FiniteSetsExt

CONSTANTS
    Jobs,        \* rows of the jobs table
    Passes,      \* pass attempt ids (fresh UUIDs: each is acquired at most once)
    Requests,    \* request attempt ids
    PerRequest,  \* METIS_RESERVATION_MODE = "request" (TRUE) or "pass" (FALSE)
    PassUsd,     \* reservation of a pass lease; 0 for routes that bill no USD
    RequestUsd,  \* reservation of one provider request
    Bills,       \* what the provider may bill for one call
    JobCap,      \* jobs.maxCostUsd
    RollingCap,  \* limits.maxRollingCostUsd
    Window,      \* limits.rollingCostWindowMs
    MaxCalls,    \* limits.maxActiveLlmCalls
    MaxJobs,     \* limits.maxActiveJobs
    JobTtl,      \* limits.jobLeaseTtlMs
    PaidTtl,     \* limits.paidPassLeaseTtlMs
    Reports,     \* totals the Cost API may report for a bucket ({}: never run)
    MaxTime,     \* bound: the clock stops here
    MaxGen,      \* bound: retries of one job
    None         \* SQL NULL / no row

Attempts == Passes \cup Requests

ASSUME LimitsAssumption ==
    /\ PerRequest \in BOOLEAN
    /\ {PassUsd, RequestUsd, JobCap, RollingCap, Window, MaxTime, MaxGen} \subseteq Nat
    /\ {MaxCalls, MaxJobs, JobTtl, PaidTtl} \subseteq Nat \ {0}
    /\ Bills \subseteq Nat /\ Reports \subseteq Nat
    /\ RequestUsd > 0

(* Config refuses to start otherwise (DECISIONS D-08, invariant 3).        *)
ASSUME TtlAssumption == JobTtl >= PaidTtl

\* How far the run got with an attempt: its lease taken, a pass launched or a request
\* sent, and how the call ended for it: known in full ("closed"), presumed because the
\* stream stalled or was given up ("stalled", or "unheard" when it had reported
\* nothing), recorded at the part reported before it broke ("cut"), given back although
\* it had been sent ("aborted"), or left to its lease ("dropped").
Stages == {"held", "launched", "sent",
           "closed", "stalled", "unheard", "cut", "aborted", "dropped"}

ASSUME NamesAssumption ==
    /\ Passes \cap Requests = {}
    /\ None \notin Int /\ None \notin Passes
    /\ None \notin [usd : Nat, at : Nat, guess : BOOLEAN, reconciled : BOOLEAN]
    /\ None \notin [usd : Nat, acquired : Nat, expires : Nat]
    /\ None \notin [job : Jobs, gen : Nat, owner : Nat, pass : Passes, usd : Nat,
                    stage : Stages]

VARIABLES
    now,        \* the wall clock every transaction samples after BEGIN IMMEDIATE
    jobs,       \* jobs: status, runGeneration, leaseOwner, leaseExpiresAt
    lease,      \* job_llm_leases by attempt
    billed,     \* cost_log rows whose attemptId is set: real settlements
    presumed,   \* cost_log rows with attemptId NULL: expired, unsettled leases
    artifact,   \* job_pass_artifacts by pass attempt
    permit,     \* the PaidPassLease a run holds in memory, and how far it got
    alive,      \* leaseOwner nonces whose process is still executing the run
    nonces,     \* nonces handed out so far: every claim gets a fresh one
    bill,       \* what the provider charged for an attempt (outside the program)
    versioned   \* jobs whose snapshot revision the last transaction advanced

dbVars  == <<jobs, lease, billed, presumed, artifact>>
memVars == <<permit, alive, nonces>>
vars    == <<now, dbVars, memVars, bill, versioned>>

-------------------------------------------------------------------------------
(* Rows and what is derived from them.                                     *)

Lease(usd) == [usd |-> usd, acquired |-> now, expires |-> now + PaidTtl]

\* guess: settlementKind = "presumed".
CostRow(usd, at, guess) ==
    [usd |-> usd, at |-> at, guess |-> guess, reconciled |-> FALSE]

Terminal(row) == [status |-> "terminal", gen |-> row.gen, owner |-> 0, expires |-> 0]

Acquired == {a \in Attempts : permit[a] # None}

AttemptsOf(j) == {a \in Acquired : permit[a].job = j}

RequestsOf(p) == {r \in Requests : permit[r] # None /\ permit[r].pass = p}

Usd(row) == IF row = None THEN 0 ELSE row.usd

TotalUsd(rows, S) == MapThenSumSet(LAMBDA a : Usd(rows[a]), S)

\* The exact live parent claim every paid operation of a run is fenced on.
LiveClaim(row, gen, owner) ==
    /\ row.status = "running"
    /\ row.gen = gen
    /\ row.owner = owner
    /\ row.expires > now

ParentLive(a) == LiveClaim(jobs[permit[a].job], permit[a].gen, permit[a].owner)

LeaseLive(a) == lease[a] # None /\ lease[a].expires > now

Running(a) == permit[a] # None /\ permit[a].owner \in alive

-------------------------------------------------------------------------------
(* pruneExpiredPaidLeases: run first by every claim, reconciliation,       *)
(* acquisition and launch transaction.                                     *)

Expired == {a \in Attempts : lease[a] # None /\ lease[a].expires <= now}

\* Bug: before D-07 an expired reservation simply vanished.
ForgottenPresumed == presumed

\* presumeExpiredPaidLeasesInTransaction: the whole reservation becomes spend,
\* dated at acquisition, unless the attempt already has a row.
PrunedPresumed ==
    [a \in Attempts |->
        IF a \in Expired /\ billed[a] = None /\ presumed[a] = None /\ lease[a].usd > 0
        THEN CostRow(lease[a].usd, lease[a].acquired, TRUE)
        ELSE presumed[a]]

PrunedLease == [a \in Attempts |-> IF a \in Expired THEN None ELSE lease[a]]

\* Bug: deleting the last retained lease does not touch the job.
FinalizedSilently(leases, touched) == {}

\* finalizeTerminalPaidLeasesInTransaction: a terminal job that loses its last
\* retained lease is versioned.
Finalized(leases, touched) ==
    {j \in touched : /\ jobs[j].status = "terminal"
                     /\ \A a \in AttemptsOf(j) : leases[a] = None}

Pruned == Finalized(PrunedLease, {permit[a].job : a \in Expired})

\* reconcileExpiredJobClaimsInTransaction, on the jobs whose claim ran out.
Abandoned == {j \in Jobs : jobs[j].status = "running" /\ jobs[j].expires <= now}

ReconciledJobs == [j \in Jobs |-> IF j \in Abandoned THEN Terminal(jobs[j]) ELSE jobs[j]]

-------------------------------------------------------------------------------
Init ==
    /\ now = 0
    /\ jobs = [j \in Jobs |-> [status |-> "queued", gen |-> 0, owner |-> 0, expires |-> 0]]
    /\ lease = [a \in Attempts |-> None]
    /\ billed = [a \in Attempts |-> None]
    /\ presumed = [a \in Attempts |-> None]
    /\ artifact = [p \in Passes |-> "none"]
    /\ permit = [a \in Attempts |-> None]
    /\ alive = {}
    /\ nonces = 0
    /\ bill = [a \in Attempts |-> None]
    /\ versioned = {}
-------------------------------------------------------------------------------
(* The job claim.                                                          *)

\* reconcileExpiredJobClaims: the sweep of the POST, retry and resume routes;
\* also what a claim attempt that finds nothing claimable commits.
ReconcileExpiredJobClaims ==
    /\ Expired # {} \/ Abandoned # {}
    /\ jobs' = ReconciledJobs
    /\ lease' = PrunedLease
    /\ presumed' = PrunedPresumed
    /\ versioned' = Pruned \cup Abandoned
    /\ UNCHANGED <<now, billed, artifact, memVars, bill>>

\* Bug: the claim looks at the generation it retries only.
ParentSettled(j) ==
    \A a \in AttemptsOf(j) : permit[a].gen = jobs[j].gen - 1 => PrunedLease[a] = None

\* A live lease of any older generation can still settle into the lineage.
AncestorsSettled(j) ==
    \A a \in AttemptsOf(j) : permit[a].gen < jobs[j].gen => PrunedLease[a] = None

\* claimQueuedJobInternal, for a retry it meets and cannot run: its report is
\* already linked, or its source plan is no longer coherent.
EndQueuedRetry(j) ==
    /\ jobs[j].status = "queued" /\ jobs[j].gen > 0
    /\ Cardinality({k \in Jobs : ReconciledJobs[k].status = "running"}) < MaxJobs
    /\ jobs' = [ReconciledJobs EXCEPT ![j] = Terminal(@)]
    /\ lease' = PrunedLease
    /\ presumed' = PrunedPresumed
    /\ versioned' = Pruned \cup Abandoned \cup {j}
    /\ UNCHANGED <<now, billed, artifact, memVars, bill>>

\* claimQueuedJobInternal, for the row it ends up claiming; a retry waits.
ClaimQueuedJob(j) ==
    /\ jobs[j].status = "queued"
    /\ Cardinality({k \in Jobs : ReconciledJobs[k].status = "running"}) < MaxJobs
    /\ jobs[j].gen > 0 => AncestorsSettled(j)
    /\ nonces' = nonces + 1
    /\ jobs' = [ReconciledJobs EXCEPT ![j] =
                   [@ EXCEPT !.status = "running", !.owner = nonces', !.expires = now + JobTtl]]
    /\ alive' = alive \cup {nonces'}
    /\ lease' = PrunedLease
    /\ presumed' = PrunedPresumed
    /\ versioned' = Pruned \cup Abandoned \cup {j}
    /\ UNCHANGED <<now, billed, artifact, permit, bill>>

\* renewJobLease: lease bookkeeping only, invisible to the revision.
RenewJobLease(j) ==
    /\ jobs[j].status = "running" /\ jobs[j].expires > now
    /\ jobs[j].owner \in alive
    /\ jobs[j].expires # now + JobTtl
    /\ jobs' = [jobs EXCEPT ![j].expires = now + JobTtl]
    /\ versioned' = {}
    /\ UNCHANGED <<now, lease, billed, presumed, artifact, memVars, bill>>

\* terminalizeClaim, and every terminal write of the runner (persistReport,
\* failRun, abortRun): only the exact live owner may end its run.
TerminalizeClaim(j) ==
    /\ jobs[j].status = "running" /\ jobs[j].expires > now
    /\ jobs[j].owner \in alive
    /\ jobs' = [jobs EXCEPT ![j] = Terminal(@)]
    /\ versioned' = {j}
    /\ UNCHANGED <<now, lease, billed, presumed, artifact, memVars, bill>>

\* cancelJob: a queued or running row, whoever owns it.
CancelJob(j) ==
    /\ jobs[j].status \in {"queued", "running"}
    /\ jobs' = [jobs EXCEPT ![j] = Terminal(@)]
    /\ versioned' = {j}
    /\ UNCHANGED <<now, lease, billed, presumed, artifact, memVars, bill>>

\* claimPreparedJobResume: the next generation of a terminal row is queued.
RetryJob(j) ==
    /\ jobs[j].status = "terminal" /\ jobs[j].gen < MaxGen
    /\ jobs' = [jobs EXCEPT ![j].status = "queued", ![j].gen = @ + 1]
    /\ versioned' = {j}
    /\ UNCHANGED <<now, lease, billed, presumed, artifact, memVars, bill>>
-------------------------------------------------------------------------------
(* Taking and keeping a lease.                                             *)

SettledSince(j, at) ==
    LET in(rows) == {a \in AttemptsOf(j) : rows[a] # None /\ rows[a].at >= at}
    IN TotalUsd(billed, in(billed)) + TotalUsd(PrunedPresumed, in(PrunedPresumed))

Reserved(j) == TotalUsd(PrunedLease, AttemptsOf(j))

AllJobs(f(_)) == MapThenSumSet(f, Jobs)

WindowUsd == AllJobs(LAMBDA k : SettledSince(k, now - Window)) + AllJobs(Reserved)

\* Bug: the job cap counts settled spend only.
AdmittedUnreserved(j, usd) ==
    usd > 0 =>
        /\ Cardinality({a \in Attempts : Usd(PrunedLease[a]) > 0}) < MaxCalls
        /\ SettledSince(j, 0) + usd <= JobCap
        /\ WindowUsd + usd <= RollingCap

\* The admission rules of acquirePaidPassLease, on the pruned ledger.
Admitted(j, usd) ==
    usd > 0 =>
        /\ Cardinality({a \in Attempts : Usd(PrunedLease[a]) > 0}) < MaxCalls
        /\ SettledSince(j, 0) + Reserved(j) + usd <= JobCap
        /\ WindowUsd + usd <= RollingCap

\* acquirePaidPassLease.  A dead parent claim throws (nothing is committed); a
\* refusal commits the sweep and the caller polls again.
AcquirePaidPassLease(a, pass, j, owner, usd) ==
    /\ LiveClaim(jobs[j], jobs[j].gen, owner)
    /\ presumed' = PrunedPresumed
    /\ versioned' = Pruned
    /\ \/ /\ Admitted(j, usd)
          /\ lease' = [PrunedLease EXCEPT ![a] = Lease(usd)]
          /\ permit' = [permit EXCEPT ![a] =
                [job |-> j, gen |-> jobs[j].gen, owner |-> owner,
                 pass |-> pass, usd |-> usd, stage |-> "held"]]
       \/ /\ ~Admitted(j, usd)
          /\ lease' = PrunedLease
          /\ UNCHANGED permit
    /\ UNCHANGED <<now, jobs, billed, artifact, alive, nonces, bill>>

\* beforeLaunch: the pass attempt's own lease, taken by the run of job j.
AcquirePass(p, j) ==
    /\ permit[p] = None
    /\ jobs[j].owner \in alive
    /\ AcquirePaidPassLease(p, p, j, jobs[j].owner, PassUsd)

\* reserveRequest: one more provider request of a launched pass, after the pass
\* lease's own headroom was given back and its previous request ended.
AcquireRequest(r, p) ==
    /\ PerRequest
    /\ permit[r] = None
    /\ Running(p) /\ permit[p].stage = "launched"
    /\ \A q \in RequestsOf(p) : permit[q].stage \in {"closed", "stalled", "cut"}
    /\ RequestsOf(p) = {} => permit[p].usd = 0 \/ ~LeaseLive(p)
    /\ jobs[permit[p].job].gen = permit[p].gen
    /\ AcquirePaidPassLease(r, p, permit[p].job, permit[p].owner, RequestUsd)

\* Bug: subtracts the request maximum, as often as it is called.
ResizeBySubtraction(p) ==
    /\ PerRequest
    /\ Running(p) /\ permit[p].stage = "launched" /\ RequestsOf(p) = {}
    /\ LeaseLive(p)
    /\ lease' = [lease EXCEPT ![p].usd = @ - RequestUsd]
    /\ permit' = [permit EXCEPT ![p].usd = @ - RequestUsd]
    /\ versioned' = {}
    /\ UNCHANGED <<now, jobs, billed, presumed, artifact, alive, nonces, bill>>

\* resizePaidPassLease, before the first request of the pass.
ResizePaidPassLease(p) ==
    /\ PerRequest
    /\ Running(p) /\ permit[p].stage = "launched" /\ RequestsOf(p) = {}
    /\ permit[p].usd > 0 /\ LeaseLive(p)
    /\ lease' = [lease EXCEPT ![p].usd = 0]
    /\ permit' = [permit EXCEPT ![p].usd = 0]
    /\ versioned' = {}
    /\ UNCHANGED <<now, jobs, billed, presumed, artifact, alive, nonces, bill>>

\* renewPaidPassLease: the checkpoint's timer, for the pass lease and the
\* leases of requests whose settlement has not committed.
RenewPaidPassLease(a) ==
    /\ Running(a)
    /\ permit[a].stage \in {"held", "launched", "sent", "dropped"}
    /\ permit[permit[a].pass].stage \in {"held", "launched"}
    /\ ParentLive(a) /\ LeaseLive(a)
    /\ lease[a].expires # now + PaidTtl
    /\ lease' = [lease EXCEPT ![a].expires = now + PaidTtl]
    /\ versioned' = {}
    /\ UNCHANGED <<now, jobs, billed, presumed, artifact, memVars, bill>>

\* authorizePaidPassLaunch: exact claim and exact permit, both unexpired, in the
\* transaction that renews both.  A lost authority commits only the sweep.
AuthorizePaidPassLaunch(p) ==
    /\ Running(p) /\ permit[p].stage = "held"
    /\ presumed' = PrunedPresumed
    /\ \/ /\ ParentLive(p) /\ LeaseLive(p)
          /\ jobs' = [jobs EXCEPT ![permit[p].job].expires = now + JobTtl]
          /\ lease' = [PrunedLease EXCEPT ![p].expires = now + PaidTtl]
          /\ permit' = [permit EXCEPT ![p].stage = "launched"]
          /\ \E visible \in SUBSET {permit[p].job} : versioned' = Pruned \cup visible
       \/ /\ ~(ParentLive(p) /\ LeaseLive(p))
          /\ lease' = PrunedLease
          /\ versioned' = Pruned
          /\ UNCHANGED <<jobs, permit>>
    /\ UNCHANGED <<now, billed, artifact, alive, nonces, bill>>

\* The admitted request goes out.
SendRequest(r) ==
    /\ r \in Requests /\ Running(r) /\ permit[r].stage = "held"
    /\ permit' = [permit EXCEPT ![r].stage = "sent"]
    /\ versioned' = {}
    /\ UNCHANGED <<now, dbVars, alive, nonces, bill>>

\* A pass is charged as a whole only in "pass" mode, and not on a route that
\* reserves no USD (subscription CLIs, the deterministic verify).
OnTheWire(a) ==
    /\ permit[a] # None
    /\ IF a \in Requests THEN permit[a].stage \notin {"held", "closed"}
       ELSE ~PerRequest /\ permit[a].usd > 0 /\ permit[a].stage \notin {"held", "closed"}

\* Output tokens are limited: what was reported with the rest of the output bounds the
\* charge, up to the reservation, and what was reported is part of it.
Chargeable(a, usd) ==
    /\ permit[a].stage = "stalled" /\ ~billed[a].reconciled =>
           usd <= billed[a].usd \/ billed[a].usd = permit[a].usd
    /\ permit[a].stage = "cut" => usd >= billed[a].usd

\* The provider charges for a call, whether or not anyone is listening.
ProviderBills(a, usd) ==
    /\ OnTheWire(a) /\ bill[a] = None /\ Chargeable(a, usd)
    /\ bill' = [bill EXCEPT ![a] = usd]
    /\ versioned' = {}
    /\ UNCHANGED <<now, dbVars, memVars>>

-------------------------------------------------------------------------------
(* Ending a lease.                                                         *)

\* Bug: the presumption goes only while the lease is still there.
DropPresumptionOfLease(a) ==
    presumed' = IF lease[a] # None THEN [presumed EXCEPT ![a] = None] ELSE presumed

\* reconcilePresumedCostFromSettlement: the settlement replaces the presumption.
DropPresumption(a) == presumed' = [presumed EXCEPT ![a] = None]

\* settleRequestCost: no lease is required, so a settlement may follow expiry.
SettleRequestCost(r, usd, guess, stage) ==
    /\ lease' = [lease EXCEPT ![r] = None]
    /\ IF billed[r] # None
       THEN /\ versioned' = IF lease[r] # None THEN {permit[r].job} ELSE {}
            /\ UNCHANGED <<billed, presumed>>
       ELSE /\ DropPresumption(r)
            /\ billed' = [billed EXCEPT ![r] =
                             IF usd > 0 THEN CostRow(usd, now, guess) ELSE None]
            /\ versioned' = {permit[r].job}
    /\ permit' = [permit EXCEPT ![r].stage = stage]
    /\ UNCHANGED <<now, jobs, artifact, alive, nonces, bill>>

\* Bug: a stalled call is presumed at the part of it that was reported.
PresumedAsSeen(a, usd) == usd \in 1..permit[a].usd

\* What a stalled or aborted stream is presumed at, once it had reported usage: that and
\* the rest of its output, or the request maximum where searches or a fallback may have
\* run; the maximum too for a connection lost before any usage.
PresumedInFull(a, usd) ==
    /\ usd \in 1..permit[a].usd
    /\ bill[a] # None => usd >= bill[a] \/ usd = permit[a].usd

\* What the run knows of a call when it ends.  A stream that goes silent before its first
\* usage is presumed at its output ceiling, without the input; one that breaks after it
\* settles as measured at what it had reported.
Heard(a, usd, guess, stage) ==
    \/ stage = "closed" /\ ~guess /\ bill[a] # None /\ usd = bill[a]
    \/ stage = "stalled" /\ guess /\ PresumedInFull(a, usd)
    \/ stage = "unheard" /\ guess /\ usd \in 1..(permit[a].usd - 1)
    \/ /\ stage = "cut" /\ ~guess /\ usd \in 1..permit[a].usd
       /\ bill[a] # None => usd <= bill[a]

Amounts(a) == Bills \cup 0..permit[a].usd

\* The request ends and its settlement commits.
SettleRequest(r) ==
    /\ Running(r) /\ permit[r].stage = "sent"
    /\ \E usd \in Amounts(r), guess \in BOOLEAN, stage \in Stages :
          Heard(r, usd, guess, stage) /\ SettleRequestCost(r, usd, guess, stage)

\* Both settlement writes failed: the lease is left to be presumed at expiry.
DropRequest(r) ==
    /\ r \in Requests /\ Running(r) /\ permit[r].stage = "sent"
    /\ permit' = [permit EXCEPT ![r].stage = "dropped"]
    /\ versioned' = {}
    /\ UNCHANGED <<now, dbVars, alive, nonces, bill>>

\* When a lease is given back: a pass that never launched, a request the provider
\* refused unbilled, and one that was sent but ended before its first usage event by the
\* run's own abort, whether or not the provider charges for it.
GivenBack(a, stage) ==
    \/ a \in Passes /\ permit[a].stage = "held" /\ stage = "closed" /\ UNCHANGED bill
    \/ /\ a \in Requests /\ permit[a].stage = "sent"
       /\ \/ stage = "closed" /\ bill[a] \in {None, 0} /\ bill' = [bill EXCEPT ![a] = 0]
          \/ stage = "aborted" /\ UNCHANGED bill

\* releaseUnbilledPaidPassLease: an expired lease is left for the sweep.
ReleaseUnbilledPaidPassLease(a) ==
    /\ Running(a)
    /\ \E stage \in Stages :
          GivenBack(a, stage) /\ permit' = [permit EXCEPT ![a].stage = stage]
    /\ \/ /\ LeaseLive(a)
          /\ lease' = [lease EXCEPT ![a] = None]
          /\ versioned' = Finalized(lease', {permit[a].job})
       \/ /\ ~LeaseLive(a)
          /\ versioned' = {}
          /\ UNCHANGED lease
    /\ UNCHANGED <<now, jobs, billed, presumed, artifact, alive, nonces>>

\* Who may record the immutable truth of an attempt: the holder of its lease,
\* even expired, of the presumed row a sweep made of it, or of settled requests.
SettlementAuthority(p) ==
    \/ lease[p] # None
    \/ presumed[p] # None
    \/ \E r \in RequestsOf(p) : billed[r] # None

\* What a pass reports at its end: what its requests settled, or, where it was charged as
\* a whole, what the run heard of it; nothing for a call refused, lost or aborted before
\* any usage.
PassReport(p, usd, guess, stage) ==
    \/ /\ ~OnTheWire(p) /\ ~guess /\ stage = "closed"
       /\ usd = IF RequestsOf(p) = {} THEN 0 ELSE TotalUsd(billed, RequestsOf(p))
    \/ OnTheWire(p) /\ Heard(p, usd, guess, stage)
    \/ /\ OnTheWire(p) /\ usd = 0 /\ ~guess
       /\ stage = "aborted" \/ (stage = "closed" /\ bill[p] \in {None, 0})

\* Bug: the pass bills what its requests already billed.
BillableTwice(p, usd) == usd > 0

\* A pass that admitted its own requests stores its artifact unbilled.
Billable(p, usd) == usd > 0 /\ RequestsOf(p) = {}

\* settlePaidPassLease.
SettlePaidPassLease(p, usd, guess, stage) ==
    /\ artifact[p] = "none" /\ billed[p] = None
    /\ \/ /\ SettlementAuthority(p)
          /\ permit' = [permit EXCEPT ![p].stage = stage]
          /\ artifact' = [artifact EXCEPT ![p] =
                             IF Billable(p, usd) THEN "billable" ELSE "unbillable"]
          /\ billed' = [billed EXCEPT ![p] =
                           IF Billable(p, usd) THEN CostRow(usd, now, guess) ELSE None]
          /\ bill' = [bill EXCEPT ![p] = IF stage = "closed" /\ @ = None THEN 0 ELSE @]
          /\ DropPresumption(p)
          /\ lease' = [lease EXCEPT ![p] = None]
          /\ versioned' = {permit[p].job}
       \/ /\ ~SettlementAuthority(p)
          /\ permit' = [permit EXCEPT ![p].stage = "closed"]
          /\ versioned' = {}
          /\ UNCHANGED <<lease, billed, presumed, artifact, bill>>
    /\ UNCHANGED <<now, jobs, alive, nonces>>

\* The pass ends and its run records it.
SettlePass(p) ==
    /\ Running(p) /\ permit[p].stage = "launched"
    /\ \A r \in RequestsOf(p) : permit[r].stage \notin {"held", "sent"}
    /\ \E usd \in Amounts(p) \cup {TotalUsd(billed, RequestsOf(p))},
          guess \in BOOLEAN, stage \in Stages :
          PassReport(p, usd, guess, stage) /\ SettlePaidPassLease(p, usd, guess, stage)

-------------------------------------------------------------------------------
(* reconcilePresumedCostsAgainstReportedTotals, for one bucket [from, to). *)

Guess(rows, a, from, to) ==
    /\ rows[a] # None /\ rows[a].guess /\ ~rows[a].reconciled
    /\ from <= rows[a].at /\ rows[a].at < to

Guesses(rows, from, to) == {a \in Attempts : Guess(rows, a, from, to)}

\* Bug: an earlier run's reconciled rows are handed back to the remainder.
AccountedMeasured(rows, from, to) ==
    TotalUsd(rows, {a \in Attempts : /\ rows[a] # None /\ ~rows[a].guess
                                     /\ from <= rows[a].at /\ rows[a].at < to})

Accounted(rows, from, to) ==
    TotalUsd(rows, {a \in Attempts : /\ rows[a] # None /\ ~Guess(rows, a, from, to)
                                     /\ from <= rows[a].at /\ rows[a].at < to})

Lower(rows, from, to, remaining, total) ==
    [a \in Attempts |->
        LET share == (rows[a].usd * remaining) \div total
        IN IF Guess(rows, a, from, to) /\ share \in 0..(rows[a].usd - 1)
           THEN [rows[a] EXCEPT !.usd = share, !.reconciled = TRUE]
           ELSE rows[a]]

ReconcilePresumedCosts(from, to, reported) ==
    LET accounted == Accounted(billed, from, to) + Accounted(presumed, from, to)
        remaining == IF reported > accounted THEN reported - accounted ELSE 0
        total == TotalUsd(billed, Guesses(billed, from, to))
                 + TotalUsd(presumed, Guesses(presumed, from, to))
    IN /\ total > remaining
       /\ billed' = Lower(billed, from, to, remaining, total)
       /\ presumed' = Lower(presumed, from, to, remaining, total)
       /\ versioned' = {permit[a].job : a \in {b \in Acquired : \/ billed'[b] # billed[b]
                                                                \/ presumed'[b] # presumed[b]}}
       /\ UNCHANGED <<now, jobs, lease, artifact, memVars, bill>>

-------------------------------------------------------------------------------
\* The run's process dies, or the run returns: its permits have no holder left.
RunEnds(owner) ==
    /\ alive' = alive \ {owner}
    /\ versioned' = {}
    /\ UNCHANGED <<now, dbVars, permit, nonces, bill>>

Tick ==
    /\ now < MaxTime
    /\ now' = now + 1
    /\ versioned' = {}
    /\ UNCHANGED <<dbVars, memVars, bill>>

Next ==
    \/ Tick
    \/ ReconcileExpiredJobClaims
    \/ \E j \in Jobs : \/ ClaimQueuedJob(j) \/ EndQueuedRetry(j) \/ RenewJobLease(j)
                       \/ TerminalizeClaim(j) \/ CancelJob(j) \/ RetryJob(j)
    \/ \E p \in Passes : \/ \E j \in Jobs : AcquirePass(p, j)
                         \/ \E r \in Requests : AcquireRequest(r, p)
                         \/ ResizePaidPassLease(p)
                         \/ AuthorizePaidPassLaunch(p)
                         \/ SettlePass(p)
    \/ \E r \in Requests : SendRequest(r) \/ SettleRequest(r) \/ DropRequest(r)
    \/ \E a \in Attempts : \/ RenewPaidPassLease(a)
                           \/ ReleaseUnbilledPaidPassLease(a)
                           \/ \E usd \in Bills : ProviderBills(a, usd)
    \/ \E from \in 0..now, reported \in Reports : ReconcilePresumedCosts(from, now + 1, reported)
    \/ \E owner \in alive : RunEnds(owner)

Spec == Init /\ [][Next]_vars

-------------------------------------------------------------------------------
(* Types.                                                                  *)

JobRow == [status : {"queued", "running", "terminal"}, gen : Nat, owner : Nat, expires : Nat]

LeaseRow == [usd : Nat, acquired : Nat, expires : Nat]

Cost == [usd : Nat, at : Nat, guess : BOOLEAN, reconciled : BOOLEAN]

Permit == [job : Jobs, gen : Nat, owner : Nat, pass : Passes, usd : Nat,
           stage : Stages]

\* Every variable keeps to the rows and in-memory records of the code, and no
\* row exists for an attempt that no run has acquired.
TypeOK ==
    /\ now \in Nat
    /\ jobs \in [Jobs -> JobRow]
    /\ lease \in [Attempts -> LeaseRow \cup {None}]
    /\ billed \in [Attempts -> Cost \cup {None}]
    /\ presumed \in [Attempts -> Cost \cup {None}]
    /\ artifact \in [Passes -> {"none", "billable", "unbillable"}]
    /\ permit \in [Attempts -> Permit \cup {None}]
    /\ alive \subseteq Nat
    /\ nonces \in Nat
    /\ bill \in [Attempts -> Nat \cup {None}]
    /\ versioned \subseteq Jobs

-------------------------------------------------------------------------------
(* Safety.                                                                 *)

\* An attempt is charged once, whichever of the sweep of its expired lease and
\* its own late settlement commits first: never a presumed and a billed row,
\* never a row beside the reservation it came from
\* (presumeExpiredPaidLeasesInTransaction against settleRequestCost and
\* settlePaidPassLease).
OneChargePerAttempt ==
    \A a \in Attempts :
        /\ billed[a] = None \/ presumed[a] = None
        /\ lease[a] = None \/ (billed[a] = None /\ presumed[a] = None)

\* A pass is billed by its own row or by the rows of its requests, never by both.
NoDoubleBilling ==
    \A p \in Passes : billed[p] # None => RequestsOf(p) = {}

\* What the provider charged stays reserved, presumed or recorded, up to the
\* reservation, through crashes, expiry, lost settlements and stale runs
\* (DECISIONS D-07), until the Cost API lowers a presumption.  Three endings of a call
\* are too short for that, and are named: recorded at the part reported, presumed
\* without its input, and given back although sent (see README).
Reconciled(a) == \E row \in {billed[a], presumed[a]} : row # None /\ row.reconciled

Counted(a) == Usd(lease[a]) + Usd(billed[a]) + Usd(presumed[a])

Short(a) ==
    /\ lease[a] = None /\ presumed[a] = None
    /\ permit[a].stage = "aborted" \/ (permit[a].stage \in {"cut", "unheard"} /\ billed[a] # None)

SpendAccounted ==
    \A a \in Acquired :
        bill[a] # None /\ ~Reconciled(a) /\ ~Short(a) =>
            \/ Counted(a) >= bill[a]
            \/ Counted(a) >= permit[a].usd

\* A running generation never overlaps a live paid lease of an older one: the
\* claim waits for every ancestor lease, and a stale run can neither take nor
\* renew one.
NoAncestorOverlap ==
    \A j \in Jobs : jobs[j].status = "running" =>
        \A a \in AttemptsOf(j) : LeaseLive(a) => permit[a].gen = jobs[j].gen

\* Authority to record an authorized attempt "never depends on which transaction
\* happened to run first" (settlePaidPassLease): a launched pass that has not
\* settled can still do so, swept or not.
AuthorityKept ==
    \A p \in Passes : Running(p) /\ permit[p].stage = "launched" => SettlementAuthority(p)

-------------------------------------------------------------------------------
(* Action properties.                                                      *)

\* settlementsPending of a terminal snapshot: some paid lease row is retained.
Pending(j) == \E a \in AttemptsOf(j) : lease[a] # None

\* "pruning/deletion commits the revision that changes it" (getJobSnapshot): no
\* transaction flips a terminal job's settlementsPending behind its revision.
PendingFlipIsVersioned ==
    [][\A j \in Jobs :
          jobs[j].status = "terminal" /\ jobs'[j].status = "terminal"
              /\ Pending(j)' # Pending(j) => j \in versioned']_vars

\* What a job has spent and reserved grows within its cap only: every way a lease ends
\* replaces it by no more.  The one exception is a settlement that takes the place of a
\* presumption the Cost API had lowered.
JobUsd(j) == SettledSince(j, 0) + Reserved(j)

JobCapHeld ==
    [][\A j \in Jobs :
          JobUsd(j)' > JobUsd(j) =>
              \/ JobUsd(j)' <= JobCap
              \/ \E a \in AttemptsOf(j) : Reconciled(a) /\ ~Reconciled(a)']_vars

\* "a second run over the same day ... raised the bucket above the reported total"
\* (reconcilePresumedCostsAgainstReportedTotals): a bucket the script lowers ends
\* within what was reported, or holds nothing but what was already accounted for.
InBucket(rows, from, to) ==
    {a \in Attempts : rows[a] # None /\ from <= rows[a].at /\ rows[a].at < to}

BucketUsd(from, to) ==
    TotalUsd(billed, InBucket(billed, from, to)) + TotalUsd(presumed, InBucket(presumed, from, to))

FirmUsd(from, to) ==
    LET firm(rows) == {a \in InBucket(rows, from, to) : ~rows[a].guess \/ rows[a].reconciled}
    IN TotalUsd(billed, firm(billed)) + TotalUsd(presumed, firm(presumed))

ReconciledWithinReport ==
    [][\A from \in 0..now, reported \in Reports :
          ReconcilePresumedCosts(from, now + 1, reported) =>
              \/ BucketUsd(from, now + 1)' <= reported
              \/ BucketUsd(from, now + 1)' = FirmUsd(from, now + 1)]_vars

-------------------------------------------------------------------------------
(* Refinement: every attempt's rows are one account of AttemptAccount.     *)

Phase(a) ==
    IF permit[a] = None THEN "unopened"
    ELSE IF lease[a] # None THEN "reserved"
    ELSE IF Short(a) THEN "short"
    ELSE IF Reconciled(a) THEN "lowered"
    ELSE IF presumed[a] # None THEN "guessed"
    ELSE IF billed[a] = None THEN "empty"
    ELSE IF billed[a].guess THEN "guessed" ELSE "measured"

AccountOf ==
    [a \in Attempts |->
        [phase |-> Phase(a),
         limit |-> IF permit[a] = None THEN 0 ELSE permit[a].usd,
         owed |-> Counted(a),
         due |-> IF bill[a] = None THEN 0 ELSE bill[a]]]

Accounts == INSTANCE AttemptAccount WITH account <- AccountOf

\* The ledger keeps the promise of AttemptAccount for every attempt, through
\* sweeps, late settlements, stale runs, crashes and reconciliation.
AccountsKept == Accounts!Spec

=============================================================================
