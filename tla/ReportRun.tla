------------------------------- MODULE ReportRun -------------------------------
(***************************************************************************)
(* One report job across its retries: the runner's stages (jobRunner.ts),  *)
(* the terminal writes, and the plan by which a retry reuses the passes    *)
(* that earlier generations paid for (jobStore.ts, jobArtifacts.ts).       *)
(*                                                                         *)
(* A run writes only while it holds the exact live claim of its            *)
(* generation.  Its pass attempts outlive it: an attempt that was launched *)
(* may settle into the job's artifacts after the run was cancelled, timed  *)
(* out or lost its lease, even while a later generation runs.              *)
(*                                                                         *)
(* Steps of the runner between two awaits are one action.  Money, permits  *)
(* and leases are PaidLedger's; the queue and its workers SchedulerPump's. *)
(***************************************************************************)
EXTENDS Integers, FiniteSets, FiniteSetsExt

CONSTANTS
    MaxGen,     \* bound: retries of the job
    MaxLosses,  \* bound: crashes of the worker and leases it fails to renew
    Prints,     \* payload fingerprints the fetched data may have
    Retries,    \* MAX_JUDGE_RETRIES: judge attempts after the first
    Tries,      \* SUBSCRIPTION_ANALYST_ATTEMPTS: re-sends of a dropped analyst
    None        \* SQL NULL

ASSUME RunAssumption ==
    /\ {MaxGen, MaxLosses, Retries} \subseteq Nat
    /\ Tries \in Nat \ {0}
    /\ Prints # {} /\ None \notin Prints

Gens == 0..MaxGen
Analysts == {"bull", "bear"}
Passes == Analysts \cup {"synthesize", "verify"}   \* DURABLE_PASSES, LLM_STEPS
Steps == Passes \cup {"fetch", "compute"}          \* compute stands for validate too

VARIABLES
    job,       \* jobs: status, runGeneration, an unexpired lease, the linked report
    steps,     \* jobs.stepsJson
    attempts,  \* launched pass attempts with their artifacts and cost rows
    run,       \* RunState of each generation's only run
    losses

vars == <<job, steps, attempts, run, losses>>

-------------------------------------------------------------------------------
(* Attempts, their artifacts, and the plan of a retry.                     *)

\* n orders the attempts of one pass in one generation.  fate is "flight", then
\* "ok" or "failed" (it has an artifact) or "gone".  held: its paid lease is live.
\* rows: a request of it has a cost row, and there is no artifact it belongs to.
\* inputs: the attempts it was built from.  The failed artifacts of one pass and
\* generation are not told apart (n = -1).
Attempt(g, p, n, inputs) ==
    [gen |-> g, pass |-> p, n |-> n, inputs |-> inputs, print |-> run[g].print,
     fate |-> "flight", held |-> TRUE, rows |-> FALSE]

Settled(a) == a.fate \in {"ok", "failed"}

\* How a pass fails, as far as its run tells the ways apart: a rejected output or
\* a dropped stream may be tried again, anything else is fatal.
Failures(p) == {"fatal"} \cup (IF p = "verify" THEN {} ELSE {"rejected"})
                       \cup (IF p \in Analysts THEN {"dropped"} ELSE {})

Of(g, p) == {a \in attempts : a.gen = g /\ a.pass = p}

Name(a) == <<a.gen, a.pass, a.n>>

\* Bug: one incoherent pass spoils its whole generation.
CorruptGeneration(g, p) == \E a \in attempts : a.gen = g /\ a.rows

\* readGenerationResumeArtifacts: cost rows without their artifact.
Corrupt(g, p) == \E a \in Of(g, p) : a.rows

Mentioned(g, p) == \E a \in Of(g, p) : a.rows \/ Settled(a)

Last(p, through) == Max({-1} \cup {g \in 0..through : Mentioned(g, p)})

Upstream(p) ==
    CASE p \in Analysts -> {} [] p = "synthesize" -> Analysts
      [] p = "verify" -> Analysts \cup {"synthesize"}

\* foldLineageArtifacts: the artifacts of the newest generation that mentions the
\* pass, unless a still newer one mentions an upstream pass.
Selected(p, through) ==
    LET g == Last(p, through)
    IN IF g < 0 \/ Corrupt(g, p) \/ \E q \in Upstream(p) : Last(q, through) > g
       THEN {} ELSE {a \in Of(g, p) : Settled(a)}

Successes(p, through) == {a \in Selected(p, through) : a.fate = "ok"}

\* singleSuccessfulArtifact and analystResumeCandidate.
Reusable(p, through) ==
    IF Cardinality(Successes(p, through)) = 1 THEN Successes(p, through) ELSE {}

\* computeJobResumePlan: what a retry of the generations so far starts from.
Plan(through) ==
    LET sides == Reusable("bull", through) \cup Reusable("bear", through)
    IN IF Reusable("verify", through) # {} THEN Reusable("verify", through)
       ELSE IF Reusable("synthesize", through) # {} THEN Reusable("synthesize", through)
       ELSE IF \/ \E p \in Analysts : Cardinality(Successes(p, through)) > 1
               \/ Cardinality({a.print : a \in sides}) > 1
       THEN {} ELSE sides

-------------------------------------------------------------------------------
(* What a run holds.                                                       *)

Alive(g) == run[g].pc \notin {"none", "over"}

\* withLiveRunAuthority.
Authority(g) == Alive(g) /\ job.gen = g /\ job.status = "running" /\ job.live

At(g, pc) == Authority(g) /\ run[g].pc = pc

Sent(g, p) == {x[2] : x \in {y \in run[g].sent : y[1] = p}}

\* How attempt n of pass p failed, as the run learns from the error it caught.
FailedAs(g, p, n, kinds) == \E kind \in kinds : <<p, n, kind>> \in run[g].errors

\* isRetryableJudgeError and the retryable flag of an analyst failure.
Retryable(g, p, n) == FailedAs(g, p, n, {"rejected", "dropped"})

Pending(g) == {a \in attempts : a.gen = g /\ a.fate = "flight"}

Reuses(g, p) == \E a \in run[g].plan : a.pass = p

\* The result of a pass this run goes on with, as a set of at most one attempt.
Result(g, p) ==
    IF Reuses(g, p) THEN {a \in run[g].plan : a.pass = p}
    ELSE {a \in Of(g, p) : a.fate = "ok" /\ \A n \in Sent(g, p) : n <= a.n}

Missing(g) == {p \in Analysts : Result(g, p) = {}}

\* The analyst side a resumed or repaired run works on: bull before bear.
Side(g) == IF "bull" \in Missing(g) THEN "bull" ELSE "bear"

\* The steps s, with those among `over` whose status is `from` moved to `to`.
Moved(s, over, from, to) == [x \in Steps |-> IF x \in over /\ s[x] = from THEN to ELSE s[x]]

\* persistSteps(.., "error"), abortRun, cancelJob and normalizeTerminalSteps: no
\* terminal row keeps a live step.
Swept(s) == Moved(Moved(s, Steps, "running", "error"), Steps, "pending", "skipped")

\* Bug: before the common exit swept them, only a pending step was skipped.
SkippedPasses(s) == Moved(s, Passes, "pending", "skipped")

\* persistDataOnly sweeps the four model steps.
SweptPasses(s) == Moved(Moved(s, Passes, "running", "error"), Passes, "pending", "skipped")

Fresh == [pc |-> "none", plan |-> {}, print |-> None, tries |-> 0,
          sent |-> {}, errors |-> {}]

Goes(g, pc) == run' = [run EXCEPT ![g].pc = pc]

\* The run returns, and with it what it held in memory.
Returns(g) == run' = [run EXCEPT ![g] = [Fresh EXCEPT !.pc = "over"]]

\* Bug: the terminal write keeps the lease columns.
EndedLeased(status) == [job EXCEPT !.status = status]

Ended(status) == [job EXCEPT !.status = status, !.live = FALSE]

-------------------------------------------------------------------------------
Init ==
    /\ job = [status |-> "queued", gen |-> 0, live |-> FALSE, link |-> None]
    /\ steps = [x \in Steps |-> "pending"]
    /\ attempts = {}
    /\ run = [g \in Gens |-> Fresh]
    /\ losses = 0
-------------------------------------------------------------------------------
(* The routes and the scheduler.                                           *)

\* linkedReportBlocksResume.
Blocked == job.link # None /\ job.link.full

\* prepareJobResume and claimPreparedJobResume (the retry route).  A stale run of
\* the old generation passes no fence from here on: it is taken as returned.
Retry ==
    /\ job.status \in {"done", "error"} /\ ~Blocked
    /\ Plan(job.gen) # {}
    /\ job.gen < MaxGen
    /\ job' = [job EXCEPT !.status = "queued", !.gen = @ + 1]
    /\ steps' = [x \in Steps |-> "pending"]
    /\ Returns(job.gen)
    /\ UNCHANGED <<attempts, losses>>

\* cancelJob.
Cancel ==
    /\ job.status \in {"queued", "running"}
    /\ job' = Ended("error")
    /\ steps' = Swept(steps)
    /\ UNCHANGED <<attempts, run, losses>>

\* claimQueuedJobInternal, a retry whose report is linked: nothing is run.
ClaimLinked ==
    /\ job.status = "queued" /\ job.gen > 0 /\ job.link # None
    /\ job' = Ended("done")
    /\ steps' = Moved(Moved(steps, Steps, "running", "skipped"), Steps, "pending", "skipped")
    /\ UNCHANGED <<attempts, run, losses>>

\* Bug: any lease row of an ancestor counts, expired or not.
AncestorRows == \E a \in attempts : a.gen < job.gen /\ a.fate \in {"flight", "gone"}

\* A live ancestor lease can still settle into the lineage.
AncestorLeased == \E a \in attempts : a.gen < job.gen /\ a.held

\* claimQueuedJobInternal, and the run it starts.  A retry without a plan would
\* end there as an error; AcceptedRetryHasPlan says that there is none.
Claim ==
    /\ job.status = "queued"
    /\ job.gen > 0 => job.link = None /\ Plan(job.gen - 1) # {} /\ ~AncestorLeased
    /\ job' = [job EXCEPT !.status = "running", !.live = TRUE]
    /\ run' = [run EXCEPT ![job.gen] =
                  [Fresh EXCEPT !.pc = "begin", !.plan = Plan(job.gen - 1)]]
    /\ UNCHANGED <<steps, attempts, losses>>

\* reconcileExpiredJobClaims.
Reconcile ==
    /\ job.status = "running" /\ ~job.live
    /\ job' = Ended("error")
    /\ steps' = Swept(steps)
    /\ UNCHANGED <<attempts, run, losses>>

-------------------------------------------------------------------------------
(* Losing the claim, the worker or a paid lease.                           *)

\* A lease that is not renewed runs out: the worker is gone, or was suspended.
LapseLease ==
    /\ job.status = "running" /\ job.live
    /\ \/ ~Alive(job.gen) /\ UNCHANGED losses
       \/ Alive(job.gen) /\ losses < MaxLosses /\ losses' = losses + 1
    /\ job' = [job EXCEPT !.live = FALSE]
    /\ UNCHANGED <<steps, attempts, run>>

\* The process of run g stops, and with it the calls it had in flight.
Crash(g) ==
    /\ Authority(g) /\ losses < MaxLosses
    /\ losses' = losses + 1
    /\ Returns(g)
    /\ attempts' = (attempts \ Pending(g)) \cup {[a EXCEPT !.fate = "gone"] : a \in Pending(g)}
    /\ UNCHANGED <<job, steps>>

Held(g) == {a \in attempts : a.gen = g /\ a.held}

\* Nobody renews the paid leases of a run that lost its claim.  By then requests
\* of some of its passes have cost rows (settleRequestCost).
ExpirePaid(g) ==
    /\ Held(g) # {} /\ ~Authority(g)
    /\ \E billed \in SUBSET {a \in Held(g) : a.pass # "verify"} :
          attempts' = (attempts \ Held(g))
                        \cup {[a EXCEPT !.held = FALSE, !.rows = a \in billed] : a \in Held(g)}
    /\ UNCHANGED <<job, steps, run, losses>>

\* The fence of a stale run: it returns without writing.
Superseded(g) ==
    /\ Alive(g) /\ ~Authority(g)
    /\ Returns(g)
    /\ UNCHANGED <<job, steps, attempts, losses>>

\* A deadline, a failed settlement hook or any unexpected error ends the run
\* (abortRun, the outer catch of runJob).
AbortRun(g) ==
    /\ Authority(g)
    /\ job' = Ended("error")
    /\ steps' = Swept(steps)
    /\ Returns(g)
    /\ UNCHANGED <<attempts, losses>>

-------------------------------------------------------------------------------
(* Settlement: an attempt settles whether or not its run still owns the    *)
(* job, but only the exact live owner's settlement shows in the steps.     *)

\* Bug: the step follows every settlement.
ProjectedAlways(a, outcome) ==
    [steps EXCEPT ![a.pass] = IF outcome = "ok" THEN "done" ELSE "error"]

\* persistPassSettlementInTransaction and hasCurrentProjectionAuthority.
Projected(a, outcome) ==
    IF Authority(a.gen)
    THEN [steps EXCEPT ![a.pass] = IF outcome = "ok" THEN "done" ELSE "error"]
    ELSE steps

\* settlePaidPassLease.
Settle(a, outcome) ==
    /\ a.fate = "flight"
    /\ steps' = Projected(a, outcome)
    /\ UNCHANGED <<job, losses>>

Succeeds(a) ==
    /\ Settle(a, "ok")
    /\ attempts' = (attempts \ {a})
                     \cup {[a EXCEPT !.fate = "ok", !.held = FALSE, !.rows = FALSE]}
    /\ UNCHANGED run

Fails(a) ==
    /\ Settle(a, "failed")
    /\ attempts' = (attempts \ {a})
                     \cup {[a EXCEPT !.fate = "failed", !.held = FALSE, !.rows = FALSE,
                                     !.n = -1, !.inputs = {}]}
    /\ IF Authority(a.gen)
       THEN \E kind \in Failures(a.pass) :
               run' = [run EXCEPT ![a.gen].errors = @ \cup {<<a.pass, a.n, kind>>}]
       ELSE UNCHANGED run

-------------------------------------------------------------------------------
(* The terminal writes of a run.                                           *)

\* persistReport: the report, its link and the end of the job in one commit.
Persist(g, full, synth, verify, newSteps) ==
    /\ job' = [Ended("done") EXCEPT !.link =
                  [full |-> full, gen |-> g, synth |-> synth, verify |-> verify]]
    /\ steps' = newSteps
    /\ Returns(g)

\* persistDataOnly.
DataOnly(g, s) == Persist(g, FALSE, {}, {}, SweptPasses(s))

\* The degraded exit of a run whose model passes failed.
Degrade(g, s) == UNCHANGED <<attempts, losses>> /\ DataOnly(g, s)

-------------------------------------------------------------------------------
(* From the claim to the first pass.                                       *)

\* A reused verify artifact is the finished report: link it, fetch nothing.
RecoverVerified(g) ==
    /\ At(g, "begin") /\ Reuses(g, "verify")
    /\ UNCHANGED <<attempts, losses>>
    /\ \E v \in run[g].plan :
          Persist(g, TRUE, v.inputs, {v},
                  [Moved(steps, Steps, "pending", "skipped") EXCEPT !["verify"] = "done"])

StartFetch(g) ==
    /\ At(g, "begin") /\ ~Reuses(g, "verify")
    /\ steps' = [steps EXCEPT !["fetch"] = "running"]
    /\ Goes(g, "fetch")
    /\ UNCHANGED <<job, attempts, losses>>

\* failRun.
FetchFails(g) ==
    /\ At(g, "fetch")
    /\ job' = Ended("error")
    /\ steps' = Swept(steps)
    /\ Returns(g)
    /\ UNCHANGED <<attempts, losses>>

Fetched == [steps EXCEPT !["fetch"] = "done"]
Computed == [steps EXCEPT !["fetch"] = "done", !["compute"] = "done"]

\* finishUnsupported: no report, and the link is cleared.
Unsupported(g) ==
    /\ At(g, "fetch")
    /\ job' = [Ended("unsupported") EXCEPT !.link = None]
    /\ steps' = Moved(Fetched, Steps, "pending", "skipped")
    /\ Returns(g)
    /\ UNCHANGED <<attempts, losses>>

\* Stage B throws, there is nothing to analyse, or no model can be called.
Ungrounded(g) ==
    /\ At(g, "fetch")
    /\ \E compute \in {"done", "error"} : DataOnly(g, [Computed EXCEPT !["compute"] = compute])
    /\ UNCHANGED <<attempts, losses>>

\* Bug: the stored artifacts are used whatever the data is now.
FitsAnything(g, print) == TRUE

\* The fingerprint of the payload against that of the reused passes.
Fits(g, print) == \A a \in run[g].plan : a.print = print

\* "stored pass artifacts are incompatible": the outer catch ends the run.
Mismatched(g) ==
    /\ At(g, "fetch")
    /\ \E print \in Prints : ~Fits(g, print)
    /\ job' = Ended("error")
    /\ steps' = Swept(Computed)
    /\ Returns(g)
    /\ UNCHANGED <<attempts, losses>>

\* Bug: a run that lacks a side runs both.
BeginsOver(g) ==
    IF Reuses(g, "synthesize") THEN "verify"
    ELSE IF Missing(g) # {} THEN "pair" ELSE "synth"

\* The pass a run with this plan begins with, and the steps it has by then.
Begins(g) ==
    IF Reuses(g, "synthesize") THEN "verify"
    ELSE IF run[g].plan = {} THEN "pair"
    ELSE IF Missing(g) # {} THEN "side" ELSE "synth"

ReusedSteps(g) ==
    CASE Reuses(g, "synthesize") ->
            [Computed EXCEPT !["bull"] = "skipped", !["bear"] = "skipped",
                             !["synthesize"] = "done", !["verify"] = "running"]
      [] OTHER ->
            [x \in Steps |-> IF \E a \in run[g].plan : a.pass = x THEN "done"
                             ELSE IF x = "synthesize" /\ Begins(g) = "synth" THEN "running"
                             ELSE Computed[x]]

Grounded(g) ==
    /\ At(g, "fetch")
    /\ \E print \in Prints :
          /\ Fits(g, print)
          /\ run' = [run EXCEPT ![g].print = print, ![g].pc = Begins(g)]
    /\ steps' = ReusedSteps(g)
    /\ UNCHANGED <<job, attempts, losses>>

-------------------------------------------------------------------------------
(* Bull and bear.                                                          *)

\* authorizeLaunch: the launch and its step in one fenced transaction.
Launch(g, p, n, inputs) ==
    /\ attempts' = attempts \cup {Attempt(g, p, n, inputs)}
    /\ run' = [run EXCEPT ![g].sent = @ \cup {<<p, n>>}]
    /\ steps' = [steps EXCEPT ![p] = "running"]
    /\ UNCHANGED <<job, losses>>

LaunchBull(g) ==
    /\ At(g, "pair") /\ Sent(g, "bull") = {}
    /\ Launch(g, "bull", 0, {})

\* After bull's first event or success, unless bull already ended the run.
LaunchBear(g) ==
    /\ At(g, "pair") /\ Sent(g, "bear") = {} /\ Sent(g, "bull") # {}
    /\ ~FailedAs(g, "bull", 0, {"fatal"})
    /\ Launch(g, "bear", 0, {})

\* The budget refuses bull: neither side is launched.
PairRefused(g) ==
    /\ At(g, "pair") /\ Sent(g, "bull") = {}
    /\ Degrade(g, steps)

\* A side that has its result, was rejected or dropped, or was never launched
\* because the other one was.
Recoverable(g) ==
    \A p \in Missing(g) :
        \/ Retryable(g, p, 0)
        \/ Sent(g, p) = {} /\ \A q \in Analysts \ {p} : Retryable(g, q, 0)

\* Both sides have answered; a missing bear was refused, or bull failed first.
PairReturns(g) ==
    /\ At(g, "pair") /\ Sent(g, "bull") # {} /\ Pending(g) = {}
    /\ IF Missing(g) = {}
       THEN /\ steps' = [steps EXCEPT !["synthesize"] = "running"]
            /\ Goes(g, "synth")
            /\ UNCHANGED <<job, attempts, losses>>
       ELSE IF Recoverable(g)
       THEN /\ steps' = Moved(steps, {p \in Analysts : Sent(g, p) = {}}, "pending", "skipped")
            /\ Goes(g, "side")
            /\ UNCHANGED <<job, attempts, losses>>
       ELSE Degrade(g, steps)

\* A rejected output gets one repair; a side that was dropped or never launched
\* is re-sent, on a plan connection, while the connection keeps dropping.
TriesLeft(g, p, n) ==
    \/ n = 1
    \/ /\ n <= Tries
       /\ FailedAs(g, p, n - 1, {"dropped"})
       /\ ~FailedAs(g, p, 0, {"rejected"})

\* The next attempt of side p: 0 for the single run of a resumed side.
NextTry(g, p) ==
    IF run[g].plan # {} THEN 0 ELSE Max({0} \cup Sent(g, p)) + 1

MayTry(g, p) ==
    IF run[g].plan # {} THEN Sent(g, p) = {} ELSE TriesLeft(g, p, NextTry(g, p))

\* runAnalystPass of a resume, runAnalystRepairAttempt of a fresh run.
LaunchSide(g) ==
    /\ At(g, "side") /\ Missing(g) # {} /\ Pending(g) = {}
    /\ MayTry(g, Side(g))
    /\ Launch(g, Side(g), NextTry(g, Side(g)), {})

\* Its launch is refused, or its last attempt failed.
SideFails(g) ==
    /\ At(g, "side") /\ Missing(g) # {} /\ Pending(g) = {}
    /\ Degrade(g, IF MayTry(g, Side(g)) THEN [steps EXCEPT ![Side(g)] = "running"] ELSE steps)

SidesDone(g) ==
    /\ At(g, "side") /\ Missing(g) = {}
    /\ steps' = [steps EXCEPT !["synthesize"] = "running"]
    /\ Goes(g, "synth")
    /\ UNCHANGED <<job, attempts, losses>>

-------------------------------------------------------------------------------
(* Judge, verification and the report.                                     *)

Tried(g, p) == run[g].tries \in Sent(g, p)

Answer(g, p) == {a \in Of(g, p) : a.n = run[g].tries /\ a.fate = "ok"}

LaunchJudge(g) ==
    /\ At(g, "synth") /\ ~Tried(g, "synthesize")
    /\ Launch(g, "synthesize", run[g].tries, Result(g, "bull") \cup Result(g, "bear"))

JudgeMayRetry(g) == run[g].tries < Retries

JudgeAgain(g, s) ==
    /\ JudgeMayRetry(g)
    /\ run' = [run EXCEPT ![g].pc = "synth", ![g].tries = @ + 1]
    /\ steps' = [s EXCEPT !["synthesize"] = "running"]
    /\ UNCHANGED <<job, attempts, losses>>

\* finishStep(synthesize, "error"); verify too when it ran.
JudgeExhausted(g) ==
    Degrade(g, [steps EXCEPT !["synthesize"] = "error",
                             !["verify"] = IF @ = "pending" THEN "skipped" ELSE "error"])

\* The preflight or the budget refuses the judge, retryably or not.
JudgeRefused(g) ==
    /\ At(g, "synth") /\ ~Tried(g, "synthesize")
    /\ JudgeAgain(g, steps) \/ JudgeExhausted(g)

JudgeReturns(g) ==
    /\ At(g, "synth")
    /\ \/ /\ Answer(g, "synthesize") # {}
          /\ steps' = [steps EXCEPT !["verify"] = "running"]
          /\ Goes(g, "verify")
          /\ UNCHANGED <<job, attempts, losses>>
       \/ /\ Retryable(g, "synthesize", run[g].tries)
          /\ JudgeAgain(g, steps)
       \/ /\ FailedAs(g, "synthesize", run[g].tries, {"fatal"}) \/ ~JudgeMayRetry(g)
          /\ Tried(g, "synthesize") /\ Answer(g, "synthesize") = {} /\ Pending(g) = {}
          /\ JudgeExhausted(g)

LaunchVerify(g) ==
    /\ At(g, "verify") /\ ~Tried(g, "verify")
    /\ Launch(g, "verify", run[g].tries, Result(g, "synthesize"))

\* Verification is refused before its launch: the report is assembled unverified.
VerifyRefused(g) ==
    /\ At(g, "verify") /\ ~Tried(g, "verify")
    /\ steps' = [steps EXCEPT !["verify"] = "error"]
    /\ Goes(g, "assemble")
    /\ UNCHANGED <<job, attempts, losses>>

VerifyReturns(g) ==
    /\ At(g, "verify")
    /\ Tried(g, "verify") /\ Pending(g) = {}
    /\ Goes(g, "assemble")
    /\ UNCHANGED <<job, steps, attempts, losses>>

\* The report is the verified one, or is assembled from the judge's output.
PublishReport(g) ==
    /\ At(g, "assemble")
    /\ UNCHANGED <<attempts, losses>>
    /\ Persist(g, TRUE, Result(g, "synthesize"), Answer(g, "verify"), steps)

\* Assembly throws.  A reused synthesis has no analysts to judge again.
AssemblyFails(g) ==
    /\ At(g, "assemble") /\ Answer(g, "verify") = {}
    /\ IF ~Reuses(g, "synthesize") /\ JudgeMayRetry(g)
       THEN JudgeAgain(g, [steps EXCEPT !["verify"] = "error"])
       ELSE JudgeExhausted(g)

\* The final report fails its schema after the metadata was reconciled.
FinalInvalid(g) ==
    /\ At(g, "assemble")
    /\ Degrade(g, steps)

-------------------------------------------------------------------------------
Works(g) ==
    \/ RecoverVerified(g) \/ StartFetch(g) \/ FetchFails(g) \/ Unsupported(g)
    \/ Ungrounded(g) \/ Mismatched(g) \/ Grounded(g)
    \/ LaunchBull(g) \/ LaunchBear(g) \/ PairRefused(g) \/ PairReturns(g)
    \/ LaunchSide(g) \/ SideFails(g) \/ SidesDone(g)
    \/ LaunchJudge(g) \/ JudgeRefused(g) \/ JudgeReturns(g)
    \/ LaunchVerify(g) \/ VerifyRefused(g) \/ VerifyReturns(g)
    \/ PublishReport(g) \/ AssemblyFails(g) \/ FinalInvalid(g)

ClaimOrEnd == Claim \/ ClaimLinked

PassSettles == \E a \in attempts : Succeeds(a) \/ Fails(a)

Next ==
    \/ Retry \/ Cancel \/ ClaimOrEnd \/ Reconcile \/ LapseLease
    \/ \E g \in Gens : Works(g) \/ AbortRun(g) \/ Superseded(g) \/ Crash(g) \/ ExpirePaid(g)
    \/ PassSettles

Spec == Init /\ [][Next]_vars

\* The pump claims what is due and sweeps claims that ran out, leases nobody
\* renews run out, every stage of a run has a deadline (awaitJobStage) and every
\* call answers or is aborted by one.
Fairness ==
    /\ WF_vars(ClaimOrEnd) /\ WF_vars(Reconcile)
    /\ WF_vars(LapseLease /\ UNCHANGED losses)
    /\ \A g \in Gens : WF_vars(ExpirePaid(g))
    /\ \A g \in Gens : WF_vars(Works(g) \/ AbortRun(g)) /\ WF_vars(Superseded(g))

LiveSpec == Spec /\ Fairness

-------------------------------------------------------------------------------
(* Correctness.                                                            *)

\* Rows, run states and attempts keep to the shapes the code gives them, and a
\* lease belongs to a running claim only.
TypeOK ==
    /\ job.status \in {"queued", "running", "done", "error", "unsupported"}
    /\ job.gen \in Gens /\ job.live \in BOOLEAN
    /\ job.live => job.status = "running"
    /\ DOMAIN steps = Steps
    /\ \A x \in Steps : steps[x] \in {"pending", "running", "done", "skipped", "error"}
    /\ \A a \in attempts :
          /\ a.gen \in Gens /\ a.pass \in Passes /\ a.n \in -1..(Tries + Retries)
          /\ a.fate \in {"flight", "ok", "failed", "gone"} /\ a.print \in Prints
          /\ a.held \in BOOLEAN /\ a.rows \in BOOLEAN
    /\ \A g \in Gens : run[g].pc \in {"none", "begin", "fetch", "pair", "side", "synth",
                                      "verify", "assemble", "over"}
    /\ losses \in 0..MaxLosses

Over == job.status \in {"done", "error", "unsupported"}

\* "No job may be persisted terminal while a step still reads as live": whatever
\* ended the job, and whatever settles after it, no step is pending or running.
TerminalStepsSettled == Over => \A x \in Steps : steps[x] \notin {"pending", "running"}

\* A full report rests on one coherent cohort, however many generations it was
\* gathered from: one judge output, built from one successful bull and one bear
\* of the same data, and a verification of that very output.
ReportFromOneCohort ==
    Blocked =>
        \E judge \in job.link.synth :
            /\ job.link.synth = {judge} /\ judge.fate = "ok"
            /\ {a.pass : a \in judge.inputs} = Analysts /\ Cardinality(judge.inputs) = 2
            /\ \A a \in judge.inputs : a.fate = "ok" /\ a.print = judge.print
            /\ \A v \in job.link.verify :
                  v.inputs = job.link.synth /\ v.fate = "ok" /\ v.print = judge.print

New(a) == a.fate = "flight" /\ \A b \in attempts : Name(b) # Name(a)

\* A retry that was accepted has something to start from when it is claimed: the
\* settlements and expiries that reach its lineage while it waits never leave it
\* without a plan.
AcceptedRetryHasPlan ==
    job.status = "queued" /\ job.gen > 0 => Plan(job.gen - 1) # {}

\* "Nothing already paid for is re-billed": a run launches neither a pass it
\* reuses nor one that a reused pass was built from.
NothingPaidTwice ==
    [][\A a \in attempts' : New(a) =>
          \A s \in run[a.gen].plan : a.pass # s.pass /\ a.pass \notin Upstream(s.pass)]_vars

\* Once a generation has ended, nothing its run, its late settlements or other
\* workers do changes how it ended; only a retry, a new generation, does.
OutcomeStands ==
    [][Over /\ job'.gen = job.gen => job' = job /\ steps' = steps]_vars

\* A queued or running job ends, whatever was lost on the way.
Concludes == job.status \in {"queued", "running"} ~> Over

\* jobStore.ts: "Every resume check reads this one rule, so a planned resume and
\* its claim cannot disagree"; the retry that was accepted is the one that ends.
RetryEndsWithItsOwnReport == job.status = "done" => job.link.gen = job.gen

===============================================================================
