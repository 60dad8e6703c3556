--------------------------- MODULE ReportRun_proofs ---------------------------
(***************************************************************************)
(* Proofs about ReportRun, for every number of retries, losses, judge and  *)
(* analyst attempts and every set of fingerprints:                         *)
(*  - however a generation ends, it ends with no live step and stays so    *)
(*    (Inv);                                                               *)
(*  - the judge and the verification of a report read results of one data  *)
(*    set, and no try of a pass is paid for twice (CohortInv);             *)
(*  - an accepted retry finds a plan in the attempts it is rebuilt from    *)
(*    (LineageInv).                                                        *)
(*                                                                         *)
(* Only the run with authority writes to the steps, so Inv says of that    *)
(* run what its place in the code and the passes it has in flight imply    *)
(* about them (Early, Late, Analysed, Judging, Verifying).  The two other  *)
(* invariants are about the rows of attempts, and use Inv and one another  *)
(* in this order.                                                          *)
(***************************************************************************)
EXTENDS ReportRun, TLAPS, FiniteSetTheorems

USE RunAssumption DEF Gens, Steps, Passes, Analysts

StepStatus == {"pending", "running", "done", "skipped", "error"}

Places == {"none", "begin", "fetch", "pair", "side", "synth", "verify", "assemble", "over"}

Rows(link) ==
    [status : {"queued", "running", "done", "error", "unsupported"}, gen : Gens,
     live : BOOLEAN, link : {link}]

RunStates(r) ==
    [pc : Places, plan : {r.plan}, print : {r.print}, tries : Nat,
     sent : {r.sent}, errors : {r.errors}]

Attempts(a) ==
    [gen : Gens, pass : Passes, n : {a.n}, inputs : {a.inputs}, print : {a.print},
     fate : {"flight", "ok", "failed", "gone"}, held : BOOLEAN, rows : BOOLEAN]

\* The fields of the records, and the types of those that the argument is about.
Shapes ==
    /\ job \in Rows(job.link)
    /\ steps \in [Steps -> StepStatus]
    /\ run = [g \in Gens |-> run[g]]
    /\ \A g \in Gens : run[g] \in RunStates(run[g])
    /\ \A a \in attempts : a \in Attempts(a) /\ a.gen <= job.gen

Unbegun(g) ==
    /\ \A p \in Passes : steps[p] = "pending"
    /\ steps["compute"] = "pending"
    /\ \A a \in attempts : a.gen # g

\* A queued job has done nothing in its generation.
Queued == job.status = "queued" => Unbegun(job.gen) /\ steps["fetch"] = "pending"

\* Before its first pass a run has sent nothing.
Early(g) ==
    run[g].pc \in {"begin", "fetch"} =>
        /\ Unbegun(g)
        /\ run[g].pc = "begin" => steps["fetch"] = "pending"
        /\ run[g].sent = {} /\ run[g].errors = {}

\* What is in flight, and which steps may still be live, by the place of the run.
Late(g) ==
    run[g].pc \in {"pair", "side", "synth", "verify", "assemble"} =>
        /\ steps["fetch"] = "done" /\ steps["compute"] \in {"done", "error"}
        /\ \A a \in Pending(g) :
             \/ a.pass \in Analysts /\ run[g].pc \in {"pair", "side"}
             \/ a.pass = "synthesize" /\ run[g].pc = "synth"
             \/ a.pass = "verify" /\ run[g].pc = "verify"
        /\ \A p \in Passes : steps[p] = "running" =>
             \/ \E a \in Pending(g) : a.pass = p
             \/ p = "synthesize" /\ run[g].pc = "synth" /\ ~Tried(g, "synthesize")
             \/ p = "verify" /\ run[g].pc = "verify" /\ ~Tried(g, "verify")
        /\ \A p \in Passes : Reuses(g, p) => steps[p] # "pending"
        /\ \A x \in run[g].sent : x[1] \in Passes /\ steps[x[1]] # "pending"
        /\ \A a \in attempts : a.gen = g /\ a.fate # "failed" => <<a.pass, a.n>> \in run[g].sent
        /\ \A x \in run[g].errors : <<x[1], x[2]>> \in run[g].sent

\* A side in flight is one that has no result yet.
OneSide(g) ==
    run[g].pc = "side" =>
        /\ \A a, b \in Pending(g) : a = b
        /\ \A a \in Pending(g) : a.pass \in Missing(g)

Analysed(g) ==
    /\ run[g].pc \in {"pair", "side"} => \A x \in run[g].sent : x[1] # "synthesize"
    /\ run[g].pc \in {"synth", "verify", "assemble"} =>
         \A p \in Analysts : steps[p] # "pending"

\* A judge in flight is the latest try, and has neither answered nor failed.
Judging(g) ==
    /\ \A x \in run[g].sent : x[1] = "synthesize" => x[2] \in Nat /\ x[2] <= run[g].tries
    /\ run[g].pc = "synth" =>
         /\ steps["synthesize"] # "pending"
         /\ \A a, b \in Pending(g) : a = b
         /\ \A a \in Pending(g) : a.n = run[g].tries
         /\ Pending(g) # {} => /\ Answer(g, "synthesize") = {}
                               /\ ~Retryable(g, "synthesize", run[g].tries)

Verifying(g) ==
    /\ run[g].pc \in {"verify", "assemble"} => steps["synthesize"] \notin {"pending", "running"}
    /\ run[g].pc \in {"verify", "assemble"} => steps["verify"] # "pending"
    /\ run[g].pc = "verify" => \A a \in Pending(g) : a.n = run[g].tries
    /\ \A x \in run[g].sent : x[1] = "verify" => x[2] \in Nat /\ x[2] <= run[g].tries
    /\ run[g].pc \in {"pair", "side", "synth"} => ~Tried(g, "verify")
    /\ run[g].pc = "assemble" => Pending(g) = {}

Progress ==
    \A g \in Gens : Authority(g) =>
        Early(g) /\ Late(g) /\ OneSide(g) /\ Analysed(g) /\ Judging(g) /\ Verifying(g)

Inv == Shapes /\ Queued /\ Progress /\ TerminalStepsSettled

-------------------------------------------------------------------------------
(* The end of a job *)

\* Moving the steps of one status to another does what it says.
LEMMA MovedSteps ==
    ASSUME NEW s \in [Steps -> StepStatus], NEW over \in SUBSET Steps,
           NEW from \in StepStatus, NEW to \in StepStatus
    PROVE  /\ Moved(s, over, from, to) \in [Steps -> StepStatus]
           /\ \A x \in Steps :
                Moved(s, over, from, to)[x] = IF x \in over /\ s[x] = from THEN to ELSE s[x]
  BY DEF Moved

\* A job that ends sweeps its steps: none is left live.
LEMMA SweptSteps ==
    ASSUME NEW s \in [Steps -> StepStatus]
    PROVE  /\ Swept(s) \in [Steps -> StepStatus]
           /\ \A x \in Steps : Swept(s)[x] \notin {"pending", "running"}
<1> DEFINE t == Moved(s, Steps, "running", "error")
<1>1. t \in [Steps -> StepStatus] /\ \A x \in Steps : t[x] # "running"
  BY MovedSteps DEF StepStatus, Moved
<1>2. \A x \in Steps : Moved(t, Steps, "pending", "skipped")[x] =
                         IF t[x] = "pending" THEN "skipped" ELSE t[x]
  BY DEF Moved
<1>3. Moved(t, Steps, "pending", "skipped") \in [Steps -> StepStatus]
  BY <1>1 DEF StepStatus, Moved
<1> QED
  BY <1>1, <1>2, <1>3 DEF Swept

\* A data-only report leaves no pass live; the other steps are as they were.
LEMMA SweptPassesSteps ==
    ASSUME NEW s \in [Steps -> StepStatus]
    PROVE  /\ SweptPasses(s) \in [Steps -> StepStatus]
           /\ \A p \in Passes : SweptPasses(s)[p] \notin {"pending", "running"}
           /\ \A x \in Steps \ Passes : SweptPasses(s)[x] = s[x]
<1> DEFINE t == Moved(s, Passes, "running", "error")
<1>1. t \in [Steps -> StepStatus] /\ \A x \in Steps : t[x] =
         IF x \in Passes /\ s[x] = "running" THEN "error" ELSE s[x]
  BY DEF StepStatus, Moved
<1>2. \A x \in Steps : Moved(t, Passes, "pending", "skipped")[x] =
                         IF x \in Passes /\ t[x] = "pending" THEN "skipped" ELSE t[x]
  BY DEF Moved
<1>3. Moved(t, Passes, "pending", "skipped") \in [Steps -> StepStatus]
  BY <1>1 DEF StepStatus, Moved
<1> QED
  BY <1>1, <1>2, <1>3 DEF SweptPasses

\* The row of an ended job, with its own link or a new one.
LEMMA EndedJob ==
    ASSUME Shapes, NEW status \in {"done", "error", "unsupported"}, NEW link
    PROVE  /\ Ended(status) \in Rows(job.link)
           /\ Ended(status).status = status /\ Ended(status).gen = job.gen
           /\ [Ended(status) EXCEPT !.link = link] \in Rows(link)
           /\ [Ended(status) EXCEPT !.link = link].status = status
           /\ [Ended(status) EXCEPT !.link = link].gen = job.gen
  BY DEF Shapes, Rows, Ended

\* A run that returns is over, and the others go on.
LEMMA ReturnsShape ==
    ASSUME Shapes, NEW g \in Gens, Returns(g)
    PROVE  /\ run' = [h \in Gens |-> run'[h]]
           /\ \A h \in Gens : run'[h] \in RunStates(run'[h])
           /\ \A h \in Gens \ {g} : run'[h] = run[h]
           /\ run'[g].pc = "over"
<1> DEFINE r == [pc |-> "over", plan |-> {}, print |-> None, tries |-> 0,
                 sent |-> {}, errors |-> {}]
<1>1. [Fresh EXCEPT !.pc = "over"] = r
  BY DEF Fresh
<1>2. run = [h \in Gens |-> run[h]] /\ run' = [run EXCEPT ![g] = r]
  BY <1>1, Zenon DEF Shapes, Returns
<1>3. r \in RunStates(r) /\ r.pc = "over"
  BY DEF RunStates, Places
<1> HIDE DEF r
<1>4. run' = [h \in Gens |-> IF h = g THEN r ELSE run[h]]
  BY <1>2
<1> QED
  BY <1>3, <1>4 DEF Shapes

\* A job ends: no run has authority from then on.
LEMMA JobEnds ==
    ASSUME Inv,
           NEW status \in {"done", "error", "unsupported"},
           \/ job' = Ended(status)
           \/ \E link : job' = [Ended(status) EXCEPT !.link = link],
           steps' \in [Steps -> StepStatus],
           \A x \in Steps : steps'[x] \notin {"pending", "running"},
           attempts' = attempts,
           run' = run \/ \E g \in Gens : Returns(g)
    PROVE  Inv'
<1>0. job' \in Rows(job'.link) /\ job'.status = status /\ job'.gen = job.gen
  <2>1. CASE job' = Ended(status)
    <3>1. Ended(status) \in Rows(job.link) /\ Ended(status).link = job.link
      BY EndedJob DEF Inv, Rows
    <3> QED
      BY <2>1, <3>1, EndedJob DEF Inv
  <2>2. CASE \E link : job' = [Ended(status) EXCEPT !.link = link]
    <3>1. PICK link : job' = [Ended(status) EXCEPT !.link = link]
      BY <2>2
    <3>2. job' \in Rows(link) /\ job'.status = status /\ job'.gen = job.gen
      BY <3>1, EndedJob DEF Inv
    <3> QED
      BY <3>2 DEF Rows
  <2> QED
    BY <2>1, <2>2
<1>1. Shapes'
  BY <1>0, ReturnsShape DEF Inv, Shapes
<1>2. Queued' /\ Progress'
  BY <1>0 DEF Queued, Progress, Authority
<1> QED
  BY <1>1, <1>2 DEF Inv, TerminalStepsSettled

\* A data-only report ends the job once nothing outside the passes is live.
LEMMA DataOnlyEnds ==
    ASSUME Inv, NEW g \in Gens, NEW s \in [Steps -> StepStatus], DataOnly(g, s),
           s["fetch"] \notin {"pending", "running"}, s["compute"] \notin {"pending", "running"},
           attempts' = attempts
    PROVE  Inv'
<1>1. \E link : job' = [Ended("done") EXCEPT !.link = link]
  BY DEF DataOnly, Persist
<1>2. steps' = SweptPasses(s) /\ Returns(g)
  BY DEF DataOnly, Persist
<1>3. steps' \in [Steps -> StepStatus] /\ \A x \in Steps : steps'[x] \notin {"pending", "running"}
  BY <1>2, SweptPassesSteps
<1> QED
  BY <1>1, <1>2, <1>3, JobEnds

\* The ways a job ends, each of which keeps the invariant since it sweeps.
LEMMA CancelStep == ASSUME Inv, Cancel PROVE Inv'
  BY SweptSteps, JobEnds DEF Cancel, Inv, Shapes

LEMMA ReconcileStep == ASSUME Inv, Reconcile PROVE Inv'
  BY SweptSteps, JobEnds DEF Reconcile, Inv, Shapes

LEMMA ClaimLinkedStep == ASSUME Inv, ClaimLinked PROVE Inv'
<1> DEFINE t == Moved(steps, Steps, "running", "skipped")
<1>1. t \in [Steps -> StepStatus] /\ \A x \in Steps : t[x] # "running"
  BY DEF Inv, Shapes, StepStatus, Moved
<1>2. steps' = Moved(t, Steps, "pending", "skipped")
  BY DEF ClaimLinked
<1>3. steps' \in [Steps -> StepStatus] /\ \A x \in Steps : steps'[x] \notin {"pending", "running"}
  BY <1>1, <1>2 DEF StepStatus, Moved
<1> QED
  BY <1>3, JobEnds DEF ClaimLinked

LEMMA AbortRunStep == ASSUME Inv, NEW g \in Gens, AbortRun(g) PROVE Inv'
  BY SweptSteps, JobEnds DEF AbortRun, Inv, Shapes

LEMMA FetchFailsStep == ASSUME Inv, NEW g \in Gens, FetchFails(g) PROVE Inv'
  BY SweptSteps, JobEnds DEF FetchFails, Inv, Shapes

LEMMA MismatchedStep == ASSUME Inv, NEW g \in Gens, Mismatched(g) PROVE Inv'
<1>1. Computed \in [Steps -> StepStatus]
  BY DEF Inv, Shapes, Computed, StepStatus
<1> QED
  BY <1>1, SweptSteps, JobEnds DEF Mismatched, Inv

LEMMA RecoverVerifiedStep == ASSUME Inv, NEW g \in Gens, RecoverVerified(g) PROVE Inv'
<1> DEFINE t == Moved(steps, Steps, "pending", "skipped")
<1>1. PICK v \in run[g].plan :
        Persist(g, TRUE, v.inputs, {v}, [t EXCEPT !["verify"] = "done"])
  BY DEF RecoverVerified
<1>2. \A x \in Steps : steps[x] = "pending"
  BY DEF RecoverVerified, At, Inv, Progress, Early, Unbegun
<1>3. /\ steps' \in [Steps -> StepStatus]
      /\ \A x \in Steps : steps'[x] \notin {"pending", "running"}
  BY <1>1, <1>2 DEF Persist, Moved, StepStatus
<1>4. \E link : job' = [Ended("done") EXCEPT !.link = link]
  BY <1>1 DEF Persist
<1> QED
  BY <1>1, <1>3, <1>4, JobEnds DEF Persist, RecoverVerified

LEMMA UnsupportedStep == ASSUME Inv, NEW g \in Gens, Unsupported(g) PROVE Inv'
<1>1. \A p \in Passes : steps[p] = "pending"
  BY DEF Unsupported, At, Inv, Progress, Early, Unbegun
<1>2. steps["compute"] = "pending" /\ steps \in [Steps -> StepStatus]
  BY DEF Unsupported, At, Inv, Progress, Early, Unbegun, Shapes
<1>3. /\ steps' \in [Steps -> StepStatus]
      /\ \A x \in Steps : steps'[x] \notin {"pending", "running"}
  BY <1>1, <1>2 DEF Unsupported, Moved, Fetched, StepStatus
<1> QED
  BY <1>3, JobEnds DEF Unsupported

LEMMA UngroundedStep == ASSUME Inv, NEW g \in Gens, Ungrounded(g) PROVE Inv'
<1>1. PICK compute \in {"done", "error"} : DataOnly(g, [Computed EXCEPT !["compute"] = compute])
  BY DEF Ungrounded
<1>2. [Computed EXCEPT !["compute"] = compute] \in [Steps -> StepStatus]
  BY DEF Inv, Shapes, Computed, StepStatus
<1>3. /\ [Computed EXCEPT !["compute"] = compute]["fetch"] = "done"
      /\ [Computed EXCEPT !["compute"] = compute]["compute"] = compute
  BY DEF Inv, Shapes, Computed
<1> QED
  BY <1>1, <1>2, <1>3, DataOnlyEnds DEF Ungrounded

-------------------------------------------------------------------------------
(* Steps that give or take authority *)

\* A retry is a generation that has done nothing.
LEMMA RetryStep == ASSUME Inv, Retry PROVE Inv'
<1>0. job.gen \in Gens /\ job.gen + 1 \in Gens
  BY DEF Retry, Inv, Shapes, Rows
<1>1. job' \in Rows(job'.link) /\ job'.status = "queued" /\ job'.gen = job.gen + 1
  BY <1>0 DEF Retry, Inv, Shapes, Rows
<1>2. steps' \in [Steps -> StepStatus] /\ \A x \in Steps : steps'[x] = "pending"
  BY DEF Retry, StepStatus
<1>3. \A a \in attempts : a \in Attempts(a) /\ a.gen < job.gen + 1
  <2>1. \A a \in attempts : a.gen \in Gens /\ a.gen <= job.gen
    BY DEF Inv, Shapes, Attempts
  <2> QED
    BY <1>0, <2>1 DEF Inv, Shapes
<1>4. Shapes'
  BY <1>0, <1>1, <1>2, <1>3, ReturnsShape DEF Retry, Inv, Shapes, Attempts
<1>5. Queued'
  BY <1>0, <1>1, <1>2, <1>3 DEF Retry, Attempts, Queued, Unbegun
<1> QED
  BY <1>1, <1>4, <1>5 DEF Inv, Progress, Authority, TerminalStepsSettled, Over

\* The claim gives authority to a run that has sent nothing.
LEMMA ClaimStep == ASSUME Inv, Claim PROVE Inv'
<1> DEFINE r == [Fresh EXCEPT !.pc = "begin", !.plan = Plan(job.gen - 1)]
<1>1. /\ job' \in Rows(job'.link) /\ job'.status = "running" /\ job'.gen = job.gen
      /\ job.gen \in Gens
  BY DEF Claim, Inv, Shapes, Rows
<1>2. /\ run' = [h \in Gens |-> run'[h]] /\ \A h \in Gens \ {job.gen} : run'[h] = run[h]
      /\ run'[job.gen] = r
  <2>2. run = [h \in Gens |-> run[h]] /\ run' = [run EXCEPT ![job.gen] = r]
    BY DEF Claim, Inv, Shapes
  <2> HIDE DEF r
  <2> QED
    BY <1>1, <2>2
<1>3. r \in RunStates(r) /\ r.pc = "begin" /\ r.sent = {} /\ r.errors = {}
  BY DEF Fresh, RunStates, Places
<1>4. Shapes'
  <2> HIDE DEF r
  <2> QED
    BY <1>1, <1>2, <1>3 DEF Claim, Inv, Shapes
<1>5. Progress'
  <2>1. run'[job.gen].pc = "begin" /\ run'[job.gen].sent = {} /\ run'[job.gen].errors = {}
    <3> HIDE DEF r
    <3> QED
      BY <1>2, <1>3
  <2>2. \A g \in Gens : Authority(g)' => g = job.gen
    BY <1>1 DEF Authority
  <2>3. Unbegun(job.gen)' /\ steps'["fetch"] = "pending"
    BY DEF Claim, Inv, Queued, Unbegun
  <2> QED
    BY <1>1, <2>1, <2>2, <2>3 DEF Progress, Early, Late, OneSide, Analysed, Judging, Verifying
<1> QED
  BY <1>1, <1>4, <1>5 DEF Inv, Queued, TerminalStepsSettled, Over

\* A lease that runs out takes the authority with it.
LEMMA LapseLeaseStep == ASSUME Inv, LapseLease PROVE Inv'
<1>1. job' \in Rows(job'.link) /\ job'.status = "running" /\ job'.gen = job.gen /\ ~job'.live
  BY DEF LapseLease, Inv, Shapes, Rows
<1> QED
  BY <1>1 DEF LapseLease, Inv, Shapes, Queued, Progress, Authority, TerminalStepsSettled, Over

\* Results depend on the attempts of the generation and on what its run holds.
LEMMA SameResults ==
    ASSUME NEW g \in Gens, run'[g].plan = run[g].plan,
           \A p : Of(g, p)' = Of(g, p),
           \A p : Sent(g, p)' = Sent(g, p) /\ Reuses(g, p)' = Reuses(g, p)
    PROVE  \A p : Result(g, p)' = Result(g, p)
<1> TAKE p
<1>1. Of(g, p)' = Of(g, p) /\ Sent(g, p)' = Sent(g, p) /\ Reuses(g, p)' = Reuses(g, p)
  OBVIOUS
<1>2. {a \in Of(g, p) : a.fate = "ok" /\ \A n \in Sent(g, p) : n <= a.n}'
        = {a \in Of(g, p) : a.fate = "ok" /\ \A n \in Sent(g, p) : n <= a.n}
  BY <1>1
<1>3. {a \in run[g].plan : a.pass = p}' = {a \in run[g].plan : a.pass = p}
  OBVIOUS
<1> QED
  BY <1>1, <1>2, <1>3, Zenon DEF Result

\* What a run without authority does, or goes through, is nothing to the run
\* that has it.
LEMMA OthersStep ==
    ASSUME Inv, Shapes', NEW g \in Gens, ~Authority(g)', UNCHANGED <<job, steps>>,
           \A h \in Gens \ {g} : run'[h] = run[h],
           \A b \in attempts' : \E a \in attempts : a.gen = b.gen,
           \A b : b.gen # g => (b \in attempts' <=> b \in attempts)
    PROVE  Inv'
<1>1. Queued'
  BY DEF Inv, Queued, Unbegun
<1>2. ASSUME NEW h \in Gens, Authority(h)'
      PROVE  (Early(h) /\ Late(h) /\ OneSide(h) /\ Analysed(h) /\ Judging(h) /\ Verifying(h))'
  <2>1. Authority(h) /\ h # g /\ run'[h] = run[h]
    BY <1>2 DEF Authority, Alive
  <2>2. Pending(h)' = Pending(h)
    BY <2>1 DEF Pending
  <2>3. \A p : Of(h, p)' = Of(h, p)
    BY <2>1 DEF Of
  <2>4. \A p : Sent(h, p)' = Sent(h, p) /\ Reuses(h, p)' = Reuses(h, p) /\ Tried(h, p)' = Tried(h, p)
    BY <2>1 DEF Sent, Reuses, Tried
  <2>5. Missing(h)' = Missing(h)
    BY <2>1, <2>3, <2>4, SameResults DEF Missing
  <2>6. /\ Answer(h, "synthesize")' = Answer(h, "synthesize")
        /\ Retryable(h, "synthesize", run[h].tries)' = Retryable(h, "synthesize", run[h].tries)
    BY <2>1, <2>3 DEF Answer, Retryable, FailedAs
  <2>7. Early(h) /\ Late(h) /\ OneSide(h) /\ Analysed(h) /\ Judging(h) /\ Verifying(h)
    BY <2>1 DEF Inv, Progress
  <2>8. Early(h)'
    BY <2>1, <2>7 DEF Early, Unbegun
  <2>9. Late(h)'
    BY <2>1, <2>2, <2>4, <2>7 DEF Late
  <2>10. OneSide(h)' /\ Analysed(h)' /\ Verifying(h)'
    BY <2>1, <2>2, <2>4, <2>5, <2>7 DEF OneSide, Analysed, Verifying
  <2>11. Judging(h)'
    BY <2>1, <2>2, <2>6, <2>7 DEF Judging
  <2> QED
    BY <2>8, <2>9, <2>10, <2>11
<1> QED
  BY <1>1, <1>2 DEF Inv, Progress, TerminalStepsSettled, Over

\* Runs that stop without touching the steps.
LEMMA SupersededStep == ASSUME Inv, NEW g \in Gens, Superseded(g) PROVE Inv'
<1>1. /\ \A h \in Gens \ {g} : run'[h] = run[h]
      /\ run'[g].pc = "over" /\ Shapes'
  BY ReturnsShape DEF Superseded, Inv, Shapes
<1> QED
  BY <1>1, OthersStep DEF Superseded, Authority, Alive

LEMMA CrashStep == ASSUME Inv, NEW g \in Gens, Crash(g) PROVE Inv'
<1>1. /\ \A h \in Gens \ {g} : run'[h] = run[h]
      /\ run'[g].pc = "over" /\ run' = [h \in Gens |-> run'[h]]
      /\ \A h \in Gens : run'[h] \in RunStates(run'[h])
  BY ReturnsShape DEF Crash, Inv
<1>2. UNCHANGED <<job, steps>> /\ job.gen = g /\ job.status = "running"
  BY DEF Crash, Authority
<1>3. \A a \in attempts' : a \in Attempts(a) /\ a.gen <= job.gen
  <2>1. \A a \in attempts : [a EXCEPT !.fate = "gone"] \in Attempts([a EXCEPT !.fate = "gone"])
                            /\ [a EXCEPT !.fate = "gone"].gen = a.gen
    BY DEF Inv, Shapes, Attempts
  <2>2. attempts' = (attempts \ Pending(g)) \cup {[a EXCEPT !.fate = "gone"] : a \in Pending(g)}
    BY DEF Crash
  <2>3. \A a \in attempts : a \in Attempts(a) /\ a.gen <= job.gen
    BY DEF Inv, Shapes
  <2>4. \A a \in Pending(g) : a \in attempts
    BY DEF Pending
  <2> QED
    BY <2>1, <2>2, <2>3, <2>4
<1>4. Shapes'
  BY <1>1, <1>2, <1>3 DEF Inv, Shapes
<1>5. \A h \in Gens : ~Authority(h)'
  BY <1>1, <1>2 DEF Authority, Alive
<1> QED
  BY <1>2, <1>4, <1>5 DEF Inv, Queued, Progress, TerminalStepsSettled, Over

-------------------------------------------------------------------------------
(* Attempts that expire or settle *)

LEMMA ExpirePaidStep == ASSUME Inv, NEW g \in Gens, ExpirePaid(g) PROVE Inv'
<1>1. PICK billed \in SUBSET {a \in Held(g) : a.pass # "verify"} :
        attempts' = (attempts \ Held(g))
                      \cup {[a EXCEPT !.held = FALSE, !.rows = a \in billed] : a \in Held(g)}
  BY DEF ExpirePaid
<1> DEFINE Late1(a) == [a EXCEPT !.held = FALSE, !.rows = a \in billed]
<1>2. \A a \in attempts : a \in Attempts(a) /\ a.gen <= job.gen
  BY DEF Inv, Shapes
<1>3. \A a \in attempts : Late1(a) \in Attempts(Late1(a)) /\ Late1(a).gen = a.gen
  <2>1. \A a \in attempts, x \in BOOLEAN :
          LET c == [a EXCEPT !.held = FALSE, !.rows = x]
          IN  c \in Attempts(c) /\ c.gen = a.gen
    BY <1>2 DEF Attempts
  <2>2. \A a \in attempts : (a \in billed) \in BOOLEAN
    OBVIOUS
  <2> QED
    BY <2>1, <2>2
<1>4. attempts' = (attempts \ Held(g)) \cup {Late1(a) : a \in Held(g)}
  BY <1>1
<1> HIDE DEF Late1
<1>5. Held(g) \subseteq attempts /\ \A a \in Held(g) : a.gen = g
  BY DEF Held
<1>6. \A b \in attempts' : b \in Attempts(b) /\ b.gen <= job.gen
                           /\ \E a \in attempts : a.gen = b.gen
  BY <1>2, <1>3, <1>4, <1>5
<1>7. \A b : b.gen # g => (b \in attempts' <=> b \in attempts)
  BY <1>3, <1>4, <1>5
<1> QED
  BY <1>6, <1>7, OthersStep DEF ExpirePaid, Authority, Alive, Inv, Shapes

\* An attempt of the run with authority settles: its step is settled too.
LEMMA OwnSettlement ==
    ASSUME Inv, NEW a \in attempts, NEW b, NEW g \in Gens, NEW outcome \in {"done", "error"},
           a.fate = "flight", a.gen = g, Authority(g),
           b \in Attempts(b), b.gen = g, b.pass = a.pass, b.fate \in {"ok", "failed"},
           b.fate = "ok" => b.n = a.n,
           attempts' = (attempts \ {a}) \cup {b},
           steps' = [steps EXCEPT ![a.pass] = outcome],
           job' = job, run' = [h \in Gens |-> run'[h]],
           \A h \in Gens : run'[h] \in RunStates(run'[h]),
           run'[g].pc = run[g].pc, run'[g].plan = run[g].plan,
           run'[g].tries = run[g].tries, run'[g].sent = run[g].sent,
           \A x \in run'[g].errors : x \in run[g].errors \/ (x[1] = a.pass /\ x[2] = a.n)
    PROVE  Inv'
<1>1. /\ a \in Pending(g) /\ Pending(g)' = Pending(g) \ {a}
      /\ a \in Attempts(a) /\ a.pass \in Passes /\ job.gen = g
  BY DEF Pending, Inv, Shapes, Attempts, Authority
<1>2. /\ steps' \in [Steps -> StepStatus] /\ steps'[a.pass] = outcome
      /\ \A x \in Steps : x # a.pass => steps'[x] = steps[x]
  BY <1>1 DEF Inv, Shapes, StepStatus
<1>3. Shapes'
  BY <1>1, <1>2 DEF Inv, Shapes
<1>4. Early(g) /\ Late(g) /\ OneSide(g) /\ Analysed(g) /\ Judging(g) /\ Verifying(g)
  BY DEF Inv, Progress
<1>5. run[g].pc \in {"pair", "side", "synth", "verify", "assemble"}
  <2>1. run[g].pc \notin {"begin", "fetch"}
    BY <1>4 DEF Early, Unbegun
  <2>2. run[g] \in RunStates(run[g])
    BY DEF Inv, Shapes
  <2> QED
    BY <2>1, <2>2 DEF Authority, Alive, RunStates, Places
<1>6. Late(g)'
  <2>1. \A p : Reuses(g, p)' = Reuses(g, p) /\ Tried(g, p)' = Tried(g, p)
    BY DEF Reuses, Tried, Sent
  <2>2. \A p \in Passes : steps'[p] = "running" =>
             \/ \E c \in Pending(g)' : c.pass = p
             \/ p = "synthesize" /\ run[g].pc = "synth" /\ ~Tried(g, "synthesize")
             \/ p = "verify" /\ run[g].pc = "verify" /\ ~Tried(g, "verify")
    BY <1>1, <1>2, <1>4, <1>5 DEF Late
  <2>3. \A c \in attempts' : c.gen = g /\ c.fate # "failed" => <<c.pass, c.n>> \in run[g].sent
    BY <1>4, <1>5 DEF Late
  <2>4. \A x \in run'[g].errors : <<x[1], x[2]>> \in run[g].sent
    BY <1>4, <1>5 DEF Late
  <2>5. \A p \in Passes : Reuses(g, p) => steps'[p] # "pending"
    BY <1>2, <1>4, <1>5 DEF Late
  <2>6. \A x \in run[g].sent : x[1] \in Passes /\ steps'[x[1]] # "pending"
    BY <1>1, <1>2, <1>4, <1>5 DEF Late, Inv, Shapes
  <2>7. steps'["fetch"] = "done" /\ steps'["compute"] \in {"done", "error"}
    BY <1>1, <1>2, <1>4, <1>5 DEF Late
  <2> QED
    BY <1>1, <1>4, <1>5, <2>1, <2>2, <2>3, <2>4, <2>5, <2>6, <2>7 DEF Late
<1>7. OneSide(g)' /\ Analysed(g)' /\ Judging(g)'
  BY <1>1, <1>2, <1>4 DEF OneSide, Analysed, Judging
<1>8. Verifying(g)'
  BY <1>1, <1>2, <1>4, <1>5 DEF Verifying, Late, Tried, Sent
<1>9. Progress'
  <2>1. \A h \in Gens : Authority(h)' => h = g
    BY <1>1 DEF Authority
  <2>2. Early(g)'
    BY <1>5 DEF Early
  <2> QED
    BY <1>6, <1>7, <1>8, <2>1, <2>2 DEF Progress
<1> QED
  BY <1>3, <1>9 DEF Inv, Queued, Authority, TerminalStepsSettled, Over

LEMMA SucceedsStep == ASSUME Inv, NEW a \in attempts, Succeeds(a) PROVE Inv'
<1> DEFINE b == [a EXCEPT !.fate = "ok", !.held = FALSE, !.rows = FALSE]
<1>1. /\ a.fate = "flight" /\ UNCHANGED <<job, run>> /\ steps' = Projected(a, "ok")
      /\ attempts' = (attempts \ {a}) \cup {b}
  BY DEF Succeeds, Settle
<1>2. a \in Attempts(a) /\ a.gen \in Gens /\ a.gen <= job.gen
  BY DEF Inv, Shapes, Attempts
<1>3. /\ b \in Attempts(b) /\ b.gen = a.gen /\ b.pass = a.pass /\ b.n = a.n /\ b.fate = "ok"
  BY <1>2 DEF Attempts
<1> HIDE DEF b
<1>4. CASE Authority(a.gen)
  <2>1. steps' = [steps EXCEPT ![a.pass] = "done"]
    BY <1>1, <1>4 DEF Projected
  <2> QED
    BY <1>1, <1>2, <1>3, <1>4, <2>1, OwnSettlement DEF Inv, Shapes
<1>5. CASE ~Authority(a.gen)
  BY <1>1, <1>2, <1>3, <1>5, OthersStep DEF Projected, Authority, Alive, Inv, Shapes
<1> QED
  BY <1>4, <1>5

LEMMA FailsStep == ASSUME Inv, NEW a \in attempts, Fails(a) PROVE Inv'
<1> DEFINE b == [a EXCEPT !.fate = "failed", !.held = FALSE, !.rows = FALSE,
                          !.n = -1, !.inputs = {}]
<1>1. /\ a.fate = "flight" /\ job' = job /\ steps' = Projected(a, "failed")
      /\ attempts' = (attempts \ {a}) \cup {b}
  BY DEF Fails, Settle
<1>2. a \in Attempts(a) /\ a.gen \in Gens /\ a.gen <= job.gen
  BY DEF Inv, Shapes, Attempts
<1>3. b \in Attempts(b) /\ b.gen = a.gen /\ b.pass = a.pass /\ b.fate = "failed"
  BY <1>2 DEF Attempts
<1> HIDE DEF b
<1>4. CASE Authority(a.gen)
  <2>1. steps' = [steps EXCEPT ![a.pass] = "error"]
    BY <1>1, <1>4 DEF Projected
  <2>2. PICK kind : run' = [run EXCEPT ![a.gen].errors = @ \cup {<<a.pass, a.n, kind>>}]
    BY <1>4 DEF Fails
  <2> DEFINE e == run[a.gen].errors \cup {<<a.pass, a.n, kind>>}
             r == [run[a.gen] EXCEPT !.errors = e]
  <2>3. run' = [run EXCEPT ![a.gen] = r] /\ run = [h \in Gens |-> run[h]]
    BY <2>2 DEF Inv, Shapes
  <2>4. /\ r \in RunStates(r) /\ r.pc = run[a.gen].pc /\ r.plan = run[a.gen].plan
        /\ r.tries = run[a.gen].tries /\ r.sent = run[a.gen].sent /\ r.errors = e
    BY <1>2 DEF Inv, Shapes, RunStates
  <2>5. \A x \in e : x \in run[a.gen].errors \/ (x[1] = a.pass /\ x[2] = a.n)
    OBVIOUS
  <2> HIDE DEF e, r
  <2>6. run' = [h \in Gens |-> IF h = a.gen THEN r ELSE run[h]]
    BY <2>3
  <2>7. /\ run' = [h \in Gens |-> run'[h]] /\ run'[a.gen] = r
        /\ \A h \in Gens : run'[h] \in RunStates(run'[h])
    BY <1>2, <2>4, <2>6 DEF Inv, Shapes
  <2> QED
    BY <1>1, <1>2, <1>3, <1>4, <2>1, <2>4, <2>5, <2>7, OwnSettlement
<1>5. CASE ~Authority(a.gen)
  <2>1. UNCHANGED run
    BY <1>5 DEF Fails
  <2> QED
    BY <1>1, <1>2, <1>3, <1>5, <2>1, OthersStep DEF Projected, Authority, Alive, Inv, Shapes
<1> QED
  BY <1>4, <1>5

-------------------------------------------------------------------------------
(* The run at work *)

\* What the run with authority does leaves the rest of the state alone.
LEMMA RunStep ==
    ASSUME Inv, NEW g \in Gens, Authority(g), job' = job, Shapes',
           Early(g)', Late(g)', OneSide(g)', Analysed(g)', Judging(g)', Verifying(g)'
    PROVE  Inv'
<1>1. job.gen = g /\ job.status = "running"
  BY DEF Authority
<1>2. \A h \in Gens : Authority(h)' => h = g
  BY <1>1 DEF Authority
<1> QED
  BY <1>1, <1>2 DEF Inv, Queued, Progress, TerminalStepsSettled, Over

\* An attempt that changes its fate is replaced in the set by its successor.
LEMMA Replaced ==
    ASSUME Shapes, NEW g \in Gens, NEW r, r \in RunStates(r), run' = [run EXCEPT ![g] = r]
    PROVE  /\ run' = [h \in Gens |-> run'[h]] /\ run'[g] = r
           /\ \A h \in Gens : run'[h] \in RunStates(run'[h])
  BY DEF Shapes

\* The run moves on to another place, and forgets nothing.
LEMMA GoesOn ==
    ASSUME Inv, NEW g \in Gens, NEW pc \in Places, Goes(g, pc), UNCHANGED <<job, attempts>>,
           steps' \in [Steps -> StepStatus]
    PROVE  /\ Shapes' /\ run'[g].pc = pc
           /\ run'[g].sent = run[g].sent /\ run'[g].errors = run[g].errors
           /\ run'[g].tries = run[g].tries
           /\ Pending(g)' = Pending(g) /\ Missing(g)' = Missing(g)
           /\ \A p : Reuses(g, p)' = Reuses(g, p) /\ Tried(g, p)' = Tried(g, p)
<1> DEFINE r == [run[g] EXCEPT !.pc = pc]
<1>1. run' = [run EXCEPT ![g] = r]
  BY DEF Goes, Inv, Shapes
<1>2. /\ r \in RunStates(r) /\ r.pc = pc /\ r.sent = run[g].sent /\ r.errors = run[g].errors
      /\ r.tries = run[g].tries /\ r.plan = run[g].plan
  BY DEF Inv, Shapes, RunStates
<1> HIDE DEF r
<1>3. /\ run'[g] = r /\ run' = [h \in Gens |-> run'[h]]
      /\ \A h \in Gens : run'[h] \in RunStates(run'[h])
  BY <1>1, <1>2, Replaced DEF Inv
<1>4. Pending(g)' = Pending(g) /\ \A p : Of(g, p)' = Of(g, p) /\ Sent(g, p)' = Sent(g, p)
  BY <1>2, <1>3 DEF Pending, Of, Sent
<1>5. \A p : Reuses(g, p)' = Reuses(g, p) /\ Tried(g, p)' = Tried(g, p)
  BY <1>2, <1>3, <1>4 DEF Reuses, Tried
<1>6. \A p : Result(g, p)' = Result(g, p)
  BY <1>2, <1>3, <1>4, <1>5, SameResults
<1> QED
  BY <1>2, <1>3, <1>4, <1>5, <1>6 DEF Missing, Inv, Shapes

\* A launch adds one attempt in flight, and its pass to what the run has sent.
LEMMA Launched ==
    ASSUME Inv, NEW g \in Gens, NEW p \in Passes, NEW n, NEW inputs, Authority(g),
           Launch(g, p, n, inputs)
    PROVE  /\ Shapes' /\ job' = job
           /\ steps'[p] = "running" /\ \A x \in Steps \ {p} : steps'[x] = steps[x]
           /\ run'[g].sent = run[g].sent \cup {<<p, n>>} /\ run'[g].errors = run[g].errors
           /\ run'[g].tries = run[g].tries /\ run'[g].plan = run[g].plan
           /\ run'[g].pc = run[g].pc
           /\ \E a \in Pending(g)' :
                /\ a.gen = g /\ a.pass = p /\ a.n = n /\ a.fate = "flight"
                /\ attempts' = attempts \cup {a} /\ Pending(g)' = Pending(g) \cup {a}
<1> DEFINE a == Attempt(g, p, n, inputs)
           sent == run[g].sent \cup {<<p, n>>}
           r == [run[g] EXCEPT !.sent = sent]
<1>1. /\ attempts' = attempts \cup {a} /\ job' = job
      /\ steps' = [steps EXCEPT ![p] = "running"]
  BY DEF Launch
<1>2. run' = [run EXCEPT ![g] = r]
  BY DEF Launch, Inv, Shapes
<1>3. /\ r \in RunStates(r) /\ r.pc = run[g].pc /\ r.sent = sent /\ r.errors = run[g].errors
      /\ r.tries = run[g].tries /\ r.plan = run[g].plan
  BY DEF Inv, Shapes, RunStates
<1>4. a \in Attempts(a) /\ a.gen = g /\ a.pass = p /\ a.n = n /\ a.fate = "flight"
  BY DEF Attempt, Attempts
<1>5. job.gen = g /\ g <= job.gen
  BY DEF Authority
<1> HIDE DEF a, sent, r
<1>6. /\ run'[g] = r /\ run' = [h \in Gens |-> run'[h]]
      /\ \A h \in Gens : run'[h] \in RunStates(run'[h])
  BY <1>2, <1>3, Replaced DEF Inv
<1>7. Pending(g)' = Pending(g) \cup {a}
  BY <1>1, <1>4 DEF Pending
<1>8. /\ steps' \in [Steps -> StepStatus] /\ steps'[p] = "running"
      /\ \A x \in Steps \ {p} : steps'[x] = steps[x]
  BY <1>1 DEF Inv, Shapes, StepStatus
<1>9. Shapes'
  BY <1>1, <1>4, <1>5, <1>6, <1>8 DEF Inv, Shapes
<1> QED
  BY <1>1, <1>3, <1>4, <1>6, <1>7, <1>8, <1>9 DEF sent

\* The steps outside the passes are settled from the first launch on.
LEMMA LateSteps ==
    ASSUME Inv, NEW g \in Gens, Authority(g),
           run[g].pc \in {"pair", "side", "synth", "verify", "assemble"}
    PROVE  /\ steps \in [Steps -> StepStatus]
           /\ steps["fetch"] \notin {"pending", "running"}
           /\ steps["compute"] \notin {"pending", "running"}
  BY DEF Inv, Shapes, Progress, Late

LEMMA StartFetchStep == ASSUME Inv, NEW g \in Gens, StartFetch(g) PROVE Inv'
<1>1. /\ Authority(g) /\ run[g].pc = "begin" /\ Goes(g, "fetch") /\ UNCHANGED <<job, attempts>>
      /\ steps' = [steps EXCEPT !["fetch"] = "running"]
  BY DEF StartFetch, At
<1>2. /\ steps' \in [Steps -> StepStatus]
      /\ \A x \in Steps \ {"fetch"} : steps'[x] = steps[x]
  BY <1>1 DEF Inv, Shapes, StepStatus
<1>3. Shapes' /\ run'[g].pc = "fetch" /\ run'[g].sent = run[g].sent /\ run'[g].errors = run[g].errors
  BY <1>1, <1>2, GoesOn DEF Places
<1>4. Early(g) /\ run[g].sent = {}
  BY <1>1 DEF Inv, Progress, Early
<1>5. Early(g)'
  BY <1>1, <1>2, <1>3, <1>4 DEF Early, Unbegun
<1> QED
  BY <1>1, <1>3, <1>4, <1>5, RunStep DEF Late, OneSide, Analysed, Judging, Verifying

\* With a result of both sides, no analyst is in flight and its step is settled.
LEMMA SidesSettled ==
    ASSUME Inv, NEW g \in Gens, Authority(g), run[g].pc \in {"pair", "side"},
           Missing(g) = {}, run[g].pc = "pair" => Pending(g) = {}
    PROVE  /\ Pending(g) = {}
           /\ \A p \in Passes : steps[p] # "running"
           /\ \A p \in Analysts : steps[p] # "pending"
<1>1. Early(g) /\ Late(g) /\ OneSide(g)
  BY DEF Inv, Progress
<1>2. Pending(g) = {}
  BY <1>1 DEF OneSide
<1>3. \A p \in Passes : steps[p] # "running"
  BY <1>1, <1>2 DEF Late
<1>4. ASSUME NEW p \in Analysts
      PROVE  steps[p] # "pending"
  <2>1. Result(g, p) # {}
    BY DEF Missing
  <2>2. CASE Reuses(g, p)
    BY <1>1, <2>2 DEF Late
  <2>3. CASE ~Reuses(g, p)
    <3>1. PICK a \in attempts : a.gen = g /\ a.pass = p /\ a.fate = "ok"
      BY <2>1, <2>3 DEF Result, Of
    <3>2. <<p, a.n>> \in run[g].sent
      BY <1>1, <3>1 DEF Late
    <3> QED
      BY <1>1, <3>2 DEF Late
  <2> QED
    BY <2>2, <2>3
<1> QED
  BY <1>2, <1>3, <1>4

\* The judge is next.
LEMMA ToJudge ==
    ASSUME Inv, NEW g \in Gens, Authority(g), run[g].pc \in {"pair", "side"},
           Missing(g) = {}, run[g].pc = "pair" => Pending(g) = {},
           steps' = [steps EXCEPT !["synthesize"] = "running"], Goes(g, "synth"),
           UNCHANGED <<job, attempts>>
    PROVE  Inv'
<1>1. Late(g) /\ Analysed(g) /\ Judging(g) /\ Verifying(g)
  BY DEF Inv, Progress
<1>2. /\ Pending(g) = {} /\ \A p \in Passes : steps[p] # "running"
      /\ \A p \in Analysts : steps[p] # "pending"
  BY SidesSettled
<1>3. /\ steps' \in [Steps -> StepStatus] /\ steps'["synthesize"] = "running"
      /\ \A x \in Steps \ {"synthesize"} : steps'[x] = steps[x]
  BY DEF Inv, Shapes, StepStatus
<1>4. /\ Shapes' /\ run'[g].pc = "synth" /\ run'[g].tries = run[g].tries
      /\ run'[g].sent = run[g].sent /\ run'[g].errors = run[g].errors
      /\ Pending(g)' = Pending(g)
      /\ \A p : Reuses(g, p)' = Reuses(g, p) /\ Tried(g, p)' = Tried(g, p)
  BY <1>3, GoesOn DEF Places
<1>5. ~Tried(g, "synthesize")
  BY <1>1 DEF Analysed, Tried, Sent
<1>6. Late(g)'
  BY <1>1, <1>2, <1>3, <1>4, <1>5 DEF Late
<1>7. Analysed(g)'
  BY <1>2, <1>3, <1>4 DEF Analysed
<1>8. Judging(g)'
  BY <1>1, <1>2, <1>3, <1>4 DEF Judging
<1>9. Verifying(g)'
  BY <1>1, <1>4 DEF Verifying
<1> QED
  BY <1>4, <1>6, <1>7, <1>8, <1>9, RunStep DEF Early, OneSide

LEMMA SidesDoneStep == ASSUME Inv, NEW g \in Gens, SidesDone(g) PROVE Inv'
  BY ToJudge DEF SidesDone, At

LEMMA PairReturnsStep == ASSUME Inv, NEW g \in Gens, PairReturns(g) PROVE Inv'
<1>1. Authority(g) /\ run[g].pc = "pair" /\ Pending(g) = {}
  BY DEF PairReturns, At
<1>2. CASE Missing(g) = {}
  BY <1>1, <1>2, ToJudge DEF PairReturns
<1>3. CASE Missing(g) # {} /\ Recoverable(g)
  <2> DEFINE unsent == {p \in Analysts : Sent(g, p) = {}}
  <2>1. /\ steps' = Moved(steps, unsent, "pending", "skipped")
        /\ Goes(g, "side") /\ UNCHANGED <<job, attempts>>
    BY <1>3 DEF PairReturns
  <2>2. /\ steps' \in [Steps -> StepStatus]
        /\ \A x \in Steps : steps'[x] = steps[x]
                            \/ (x \in Analysts /\ steps'[x] = "skipped")
    BY <2>1 DEF Inv, Shapes, StepStatus, Moved
  <2>3. /\ Shapes' /\ run'[g].pc = "side" /\ run'[g].tries = run[g].tries
        /\ run'[g].sent = run[g].sent /\ run'[g].errors = run[g].errors
        /\ Pending(g)' = Pending(g)
        /\ \A p : Reuses(g, p)' = Reuses(g, p) /\ Tried(g, p)' = Tried(g, p)
    BY <2>1, <2>2, GoesOn DEF Places
  <2>4. Late(g) /\ Analysed(g) /\ Judging(g) /\ Verifying(g)
    BY <1>1 DEF Inv, Progress
  <2>5. Late(g)'
    <3>1. \A p \in Passes : steps'[p] \in {"running", "pending"} => steps'[p] = steps[p]
      BY <2>2
    <3>2. steps'["fetch"] = steps["fetch"] /\ steps'["compute"] = steps["compute"]
      BY <2>2
    <3> QED
      BY <1>1, <2>1, <2>3, <2>4, <3>1, <3>2 DEF Late
  <2>6. OneSide(g)' /\ Analysed(g)' /\ Judging(g)' /\ Verifying(g)'
    BY <1>1, <2>3, <2>4 DEF OneSide, Analysed, Judging, Verifying
  <2> QED
    BY <1>1, <2>1, <2>3, <2>5, <2>6, RunStep DEF Early
<1>4. CASE Missing(g) # {} /\ ~Recoverable(g)
  BY <1>1, <1>4, LateSteps, DataOnlyEnds DEF PairReturns, Degrade
<1> QED
  BY <1>2, <1>3, <1>4

\* An analyst is launched: by the pair, or for the side that has no result.
LEMMA AnalystLaunched ==
    ASSUME Inv, NEW g \in Gens, NEW p \in Analysts, NEW n, Authority(g),
           Launch(g, p, n, {}), run[g].pc \in {"pair", "side"},
           run[g].pc = "side" => Pending(g) = {} /\ p \in Missing(g)
    PROVE  Inv'
<1>1. Late(g) /\ Analysed(g) /\ Judging(g) /\ Verifying(g)
  BY DEF Inv, Progress
<1>2. /\ Shapes' /\ job' = job
      /\ steps'[p] = "running" /\ \A x \in Steps \ {p} : steps'[x] = steps[x]
      /\ run'[g].sent = run[g].sent \cup {<<p, n>>} /\ run'[g].errors = run[g].errors
      /\ run'[g].tries = run[g].tries /\ run'[g].plan = run[g].plan /\ run'[g].pc = run[g].pc
  BY Launched
<1>3. PICK a \in Pending(g)' :
        /\ a.gen = g /\ a.pass = p /\ a.n = n /\ a.fate = "flight"
        /\ attempts' = attempts \cup {a} /\ Pending(g)' = Pending(g) \cup {a}
  BY Launched
<1>4. \A q : Reuses(g, q)' = Reuses(g, q)
  BY <1>2 DEF Reuses
<1>5. Late(g)'
  <2>1. \A q \in Passes : steps'[q] = "running" => \E c \in Pending(g)' : c.pass = q
    BY <1>1, <1>2, <1>3 DEF Late
  <2>2. \A x \in run'[g].sent : x[1] \in Passes /\ steps'[x[1]] # "pending"
    BY <1>1, <1>2 DEF Late
  <2>3. \A c \in attempts' : c.gen = g /\ c.fate # "failed" => <<c.pass, c.n>> \in run'[g].sent
    BY <1>1, <1>2, <1>3 DEF Late
  <2> QED
    BY <1>1, <1>2, <1>3, <1>4, <2>1, <2>2, <2>3 DEF Late
<1>6. Analysed(g)' /\ Judging(g)' /\ Verifying(g)'
  BY <1>1, <1>2 DEF Analysed, Judging, Verifying, Tried, Sent
<1>7. OneSide(g)'
  <2>1. CASE run[g].pc = "side"
    <3>1. Pending(g)' = {a} /\ ~Reuses(g, p)' /\ Result(g, p) = {}
      BY <1>3, <1>4, <2>1 DEF Missing, Result, Reuses
    <3>2. \A c \in Of(g, p)' : c.fate = "ok" => c \in Of(g, p)
      BY <1>3 DEF Of
    <3>3. \A m : m \in Sent(g, p) => m \in Sent(g, p)'
      BY <1>2 DEF Sent
    <3>4. \A c \in Of(g, p) : ~(c.fate = "ok" /\ \A m \in Sent(g, p) : m <= c.n)
      BY <1>4, <3>1 DEF Result
    <3>5. \A c \in Of(g, p)' : ~(c.fate = "ok" /\ \A m \in Sent(g, p)' : m <= c.n)
      BY <3>2, <3>3, <3>4
    <3>6. Result(g, p)' = {}
      BY <3>1, <3>5 DEF Result
    <3> QED
      BY <1>3, <3>1, <3>6 DEF OneSide, Missing
  <2>2. CASE run[g].pc = "pair"
    BY <1>2, <2>2 DEF OneSide
  <2> QED
    BY <2>1, <2>2
<1> QED
  BY <1>2, <1>5, <1>6, <1>7, RunStep DEF Early

LEMMA LaunchBullStep == ASSUME Inv, NEW g \in Gens, LaunchBull(g) PROVE Inv'
  BY AnalystLaunched DEF LaunchBull, At

LEMMA LaunchBearStep == ASSUME Inv, NEW g \in Gens, LaunchBear(g) PROVE Inv'
  BY AnalystLaunched DEF LaunchBear, At

\* The side to work on is one without a result.
LEMMA SideIsMissing ==
    ASSUME NEW g \in Gens, Missing(g) # {}
    PROVE  Side(g) \in Missing(g) /\ Side(g) \in Analysts
  BY DEF Side, Missing

LEMMA LaunchSideStep == ASSUME Inv, NEW g \in Gens, LaunchSide(g) PROVE Inv'
  BY SideIsMissing, AnalystLaunched DEF LaunchSide, At

LEMMA PairRefusedStep == ASSUME Inv, NEW g \in Gens, PairRefused(g) PROVE Inv'
  BY LateSteps, DataOnlyEnds DEF PairRefused, Degrade, At

LEMMA SideFailsStep == ASSUME Inv, NEW g \in Gens, SideFails(g) PROVE Inv'
<1> DEFINE s == IF MayTry(g, Side(g)) THEN [steps EXCEPT ![Side(g)] = "running"] ELSE steps
<1>1. Authority(g) /\ run[g].pc = "side" /\ attempts' = attempts /\ DataOnly(g, s)
      /\ Side(g) \in Analysts
  BY SideIsMissing DEF SideFails, Degrade, At
<1>2. /\ s \in [Steps -> StepStatus]
      /\ s["fetch"] = steps["fetch"] /\ s["compute"] = steps["compute"]
  BY <1>1, LateSteps DEF StepStatus
<1> HIDE DEF s
<1> QED
  BY <1>1, <1>2, LateSteps, DataOnlyEnds

LEMMA FinalInvalidStep == ASSUME Inv, NEW g \in Gens, FinalInvalid(g) PROVE Inv'
  BY LateSteps, DataOnlyEnds DEF FinalInvalid, Degrade, At

LEMMA JudgeExhaustedStep ==
    ASSUME Inv, NEW g \in Gens, Authority(g), run[g].pc \in {"synth", "assemble"},
           JudgeExhausted(g)
    PROVE  Inv'
<1> DEFINE s == [steps EXCEPT !["synthesize"] = "error",
                              !["verify"] = IF @ = "pending" THEN "skipped" ELSE "error"]
<1>1. attempts' = attempts /\ DataOnly(g, s)
  BY DEF JudgeExhausted, Degrade
<1>2. /\ s \in [Steps -> StepStatus]
      /\ s["fetch"] = steps["fetch"] /\ s["compute"] = steps["compute"]
  BY LateSteps DEF StepStatus
<1> HIDE DEF s
<1> QED
  BY <1>1, <1>2, LateSteps, DataOnlyEnds

\* The judge is tried again once nothing is in flight.
LEMMA JudgeAgainStep ==
    ASSUME Inv, NEW g \in Gens, NEW s \in {steps, [steps EXCEPT !["verify"] = "error"]},
           Authority(g), run[g].pc \in {"synth", "assemble"}, Pending(g) = {}, JudgeAgain(g, s)
    PROVE  Inv'
<1> DEFINE r == [run[g] EXCEPT !.pc = "synth", !.tries = run[g].tries + 1]
<1>1. Late(g) /\ Analysed(g) /\ Judging(g) /\ Verifying(g)
  BY DEF Inv, Progress
<1>2. /\ run' = [run EXCEPT ![g] = r] /\ UNCHANGED <<job, attempts>>
      /\ steps' = [s EXCEPT !["synthesize"] = "running"]
  BY DEF JudgeAgain, Inv, Shapes
<1>3. /\ r \in RunStates(r) /\ r.pc = "synth" /\ r.sent = run[g].sent
      /\ r.errors = run[g].errors /\ r.tries = run[g].tries + 1 /\ r.plan = run[g].plan
      /\ run[g].tries \in Nat
  <2>1. run[g] \in RunStates(run[g]) /\ run[g].tries \in Nat /\ run[g].tries + 1 \in Nat
    BY DEF Inv, Shapes, RunStates
  <2>2. \A n \in Nat : LET x == [run[g] EXCEPT !.pc = "synth", !.tries = n]
                       IN  /\ x \in RunStates(x) /\ x.pc = "synth" /\ x.sent = run[g].sent
                           /\ x.errors = run[g].errors /\ x.tries = n
                           /\ x.plan = run[g].plan
    BY <2>1 DEF RunStates, Places
  <2> QED
    BY <2>1, <2>2
<1> HIDE DEF r
<1>4. /\ run'[g] = r /\ run' = [h \in Gens |-> run'[h]]
      /\ \A h \in Gens : run'[h] \in RunStates(run'[h])
  BY <1>2, <1>3, Replaced DEF Inv
<1>5. /\ steps' \in [Steps -> StepStatus] /\ steps'["synthesize"] = "running"
      /\ \A x \in Steps : steps'[x] \in {"pending", "running"} /\ x # "synthesize"
           => steps'[x] = steps[x]
      /\ \A x \in Steps \ Passes : steps'[x] = steps[x]
  BY <1>2 DEF Inv, Shapes, StepStatus
<1>6. Shapes' /\ Pending(g)' = {}
  BY <1>2, <1>4, <1>5 DEF Inv, Shapes, Pending
<1>7. \A p : Reuses(g, p)' = Reuses(g, p) /\ Sent(g, p)' = Sent(g, p)
  BY <1>3, <1>4 DEF Reuses, Sent
<1>8. ~Tried(g, "synthesize")'
  <2>1. \A x \in run[g].sent : x[1] = "synthesize" => x[2] \in Nat /\ x[2] <= run[g].tries
    BY <1>1 DEF Judging
  <2>2. run[g].tries + 1 \notin Sent(g, "synthesize")
    BY <1>3, <2>1 DEF Sent
  <2> QED
    BY <1>3, <1>4, <1>7, <2>2 DEF Tried
<1>9. \A p \in Passes : p # "synthesize" => steps'[p] # "running"
  <2>1. CASE run[g].pc = "synth"
    BY <1>1, <1>5, <2>1 DEF Late
  <2>2. CASE run[g].pc = "assemble"
    BY <1>1, <1>5, <2>2 DEF Late
  <2> QED
    BY <2>1, <2>2
<1>10. Late(g)'
  BY <1>1, <1>2, <1>3, <1>4, <1>5, <1>6, <1>7, <1>8, <1>9 DEF Late
<1>11. Analysed(g)'
  BY <1>1, <1>3, <1>4, <1>5 DEF Analysed
<1>12. Judging(g)'
  BY <1>1, <1>3, <1>4, <1>5, <1>6 DEF Judging
<1>13. Verifying(g)'
  <2>1. run[g].tries + 1 \notin Sent(g, "verify")
    BY <1>1, <1>3 DEF Verifying, Sent
  <2> QED
    BY <1>1, <1>3, <1>4, <1>7, <2>1 DEF Verifying, Tried
<1> QED
  BY <1>2, <1>3, <1>4, <1>6, <1>10, <1>11, <1>12, <1>13, RunStep DEF Early, OneSide

\* A judge that was not sent yet is not in flight, and has not answered or failed.
LEMMA JudgeUntried ==
    ASSUME Inv, NEW g \in Gens, Authority(g), run[g].pc = "synth", ~Tried(g, "synthesize")
    PROVE  /\ Pending(g) = {}
           /\ Answer(g, "synthesize") = {} /\ ~Retryable(g, "synthesize", run[g].tries)
<1>1. Late(g) /\ Judging(g)
  BY DEF Inv, Progress
<1>2. <<"synthesize", run[g].tries>> \notin run[g].sent
  BY DEF Tried, Sent
<1>3. Pending(g) = {}
  BY <1>1, <1>2 DEF Late, Judging, Pending
<1>4. Answer(g, "synthesize") = {}
  BY <1>1, <1>2 DEF Late, Answer, Of
<1>5. ~Retryable(g, "synthesize", run[g].tries)
  BY <1>1, <1>2 DEF Late, Retryable, FailedAs
<1> QED
  BY <1>3, <1>4, <1>5

LEMMA JudgeRefusedStep == ASSUME Inv, NEW g \in Gens, JudgeRefused(g) PROVE Inv'
  BY JudgeUntried, JudgeAgainStep, JudgeExhaustedStep DEF JudgeRefused, At

LEMMA LaunchJudgeStep == ASSUME Inv, NEW g \in Gens, LaunchJudge(g) PROVE Inv'
<1> DEFINE n == run[g].tries
           inputs == Result(g, "bull") \cup Result(g, "bear")
<1>1. /\ Authority(g) /\ run[g].pc = "synth" /\ ~Tried(g, "synthesize")
      /\ Launch(g, "synthesize", n, inputs)
  BY DEF LaunchJudge, At
<1>2. Late(g) /\ Analysed(g) /\ Judging(g) /\ Verifying(g) /\ n \in Nat
  BY <1>1 DEF Inv, Progress, Shapes, RunStates
<1> HIDE DEF inputs
<1>3. /\ Shapes' /\ job' = job
      /\ steps'["synthesize"] = "running"
      /\ \A x \in Steps \ {"synthesize"} : steps'[x] = steps[x]
      /\ run'[g].sent = run[g].sent \cup {<<"synthesize", n>>}
      /\ run'[g].errors = run[g].errors
      /\ run'[g].tries = n /\ run'[g].plan = run[g].plan /\ run'[g].pc = "synth"
  BY <1>1, Launched
<1>4. PICK a \in Pending(g)' :
        /\ a.gen = g /\ a.pass = "synthesize" /\ a.n = n /\ a.fate = "flight"
        /\ attempts' = attempts \cup {a} /\ Pending(g)' = Pending(g) \cup {a}
  BY <1>1, Launched
<1>5. /\ Pending(g) = {} /\ Answer(g, "synthesize") = {}
      /\ ~Retryable(g, "synthesize", n)
  BY <1>1, JudgeUntried
<1>6. \A q : Reuses(g, q)' = Reuses(g, q)
  BY <1>3 DEF Reuses
<1>7. Late(g)'
  <2>1. \A q \in Passes : steps'[q] = "running" => \E c \in Pending(g)' : c.pass = q
    BY <1>1, <1>2, <1>3, <1>4, <1>5 DEF Late
  <2>2. \A x \in run'[g].sent : x[1] \in Passes /\ steps'[x[1]] # "pending"
    BY <1>1, <1>2, <1>3 DEF Late
  <2>3. \A c \in attempts' : c.gen = g /\ c.fate # "failed" => <<c.pass, c.n>> \in run'[g].sent
    BY <1>1, <1>2, <1>3, <1>4 DEF Late
  <2> QED
    BY <1>1, <1>2, <1>3, <1>4, <1>5, <1>6, <2>1, <2>2, <2>3 DEF Late
<1>8. Analysed(g)'
  BY <1>1, <1>2, <1>3 DEF Analysed
<1>9. Judging(g)'
  <2>1. Answer(g, "synthesize")' = {}
    BY <1>3, <1>4, <1>5 DEF Answer, Of
  <2>2. ~Retryable(g, "synthesize", n)'
    BY <1>3, <1>5 DEF Retryable, FailedAs
  <2> QED
    BY <1>2, <1>3, <1>4, <1>5, <2>1, <2>2 DEF Judging
<1>10. Verifying(g)'
  BY <1>1, <1>2, <1>3 DEF Verifying, Tried, Sent
<1> QED
  BY <1>1, <1>3, <1>7, <1>8, <1>9, <1>10, RunStep DEF Early, OneSide

LEMMA JudgeReturnsStep == ASSUME Inv, NEW g \in Gens, JudgeReturns(g) PROVE Inv'
<1>1. Authority(g) /\ run[g].pc = "synth"
  BY DEF JudgeReturns, At
<1>2. Late(g) /\ Analysed(g) /\ Judging(g) /\ Verifying(g)
  BY <1>1 DEF Inv, Progress
<1>3. CASE /\ Answer(g, "synthesize") # {} /\ Goes(g, "verify") /\ UNCHANGED <<job, attempts>>
           /\ steps' = [steps EXCEPT !["verify"] = "running"]
  <2>1. Pending(g) = {}
    BY <1>1, <1>2, <1>3 DEF Judging
  <2>2. Tried(g, "synthesize")
    BY <1>1, <1>3, JudgeUntried
  <2>3. \A p \in Passes : steps[p] # "running"
    BY <1>1, <1>2, <2>1, <2>2 DEF Late
  <2>4. /\ steps' \in [Steps -> StepStatus] /\ steps'["verify"] = "running"
        /\ \A x \in Steps \ {"verify"} : steps'[x] = steps[x]
    BY <1>3 DEF Inv, Shapes, StepStatus
  <2>5. /\ Shapes' /\ run'[g].pc = "verify" /\ run'[g].tries = run[g].tries
        /\ run'[g].sent = run[g].sent /\ run'[g].errors = run[g].errors
        /\ Pending(g)' = {}
        /\ \A p : Reuses(g, p)' = Reuses(g, p) /\ Tried(g, p)' = Tried(g, p)
    BY <1>3, <2>1, <2>4, GoesOn DEF Places
  <2>6. Late(g)'
    BY <1>1, <1>2, <1>3, <2>1, <2>3, <2>4, <2>5 DEF Late, Verifying
  <2>7. Analysed(g)' /\ Judging(g)'
    BY <1>1, <1>2, <2>4, <2>5 DEF Analysed, Judging
  <2>8. Verifying(g)'
    BY <1>1, <1>2, <2>3, <2>4, <2>5 DEF Verifying, Judging
  <2> QED
    BY <1>1, <1>3, <2>5, <2>6, <2>7, <2>8, RunStep DEF Early, OneSide
<1>4. CASE Retryable(g, "synthesize", run[g].tries) /\ JudgeAgain(g, steps)
  BY <1>1, <1>2, <1>4, JudgeAgainStep DEF Judging
<1>5. CASE JudgeExhausted(g)
  BY <1>1, <1>5, JudgeExhaustedStep
<1> QED
  BY <1>3, <1>4, <1>5 DEF JudgeReturns

\* A verification that was not sent yet is not in flight.
LEMMA VerifyUntried ==
    ASSUME Inv, NEW g \in Gens, Authority(g), run[g].pc = "verify", ~Tried(g, "verify")
    PROVE  Pending(g) = {}
<1>1. Late(g) /\ Verifying(g)
  BY DEF Inv, Progress
<1>2. <<"verify", run[g].tries>> \notin run[g].sent
  BY DEF Tried, Sent
<1> QED
  BY <1>1, <1>2 DEF Late, Verifying, Pending

LEMMA LaunchVerifyStep == ASSUME Inv, NEW g \in Gens, LaunchVerify(g) PROVE Inv'
<1> DEFINE n == run[g].tries
           inputs == Result(g, "synthesize")
<1>1. /\ Authority(g) /\ run[g].pc = "verify" /\ ~Tried(g, "verify")
      /\ Launch(g, "verify", n, inputs)
  BY DEF LaunchVerify, At
<1>2. Late(g) /\ Analysed(g) /\ Judging(g) /\ Verifying(g) /\ n \in Nat /\ Pending(g) = {}
  BY <1>1, VerifyUntried DEF Inv, Progress, Shapes, RunStates
<1> HIDE DEF inputs
<1>3. /\ Shapes' /\ job' = job
      /\ steps'["verify"] = "running"
      /\ \A x \in Steps \ {"verify"} : steps'[x] = steps[x]
      /\ run'[g].sent = run[g].sent \cup {<<"verify", n>>}
      /\ run'[g].errors = run[g].errors
      /\ run'[g].tries = n /\ run'[g].plan = run[g].plan /\ run'[g].pc = "verify"
  BY <1>1, Launched
<1>4. PICK a \in Pending(g)' :
        /\ a.gen = g /\ a.pass = "verify" /\ a.n = n /\ a.fate = "flight"
        /\ attempts' = attempts \cup {a} /\ Pending(g)' = Pending(g) \cup {a}
  BY <1>1, Launched
<1>5. \A q : Reuses(g, q)' = Reuses(g, q)
  BY <1>3 DEF Reuses
<1>6. Late(g)'
  <2>1. \A q \in Passes : steps'[q] = "running" => \E c \in Pending(g)' : c.pass = q
    BY <1>1, <1>2, <1>3, <1>4 DEF Late
  <2>2. \A x \in run'[g].sent : x[1] \in Passes /\ steps'[x[1]] # "pending"
    BY <1>1, <1>2, <1>3 DEF Late
  <2>3. \A c \in attempts' : c.gen = g /\ c.fate # "failed" => <<c.pass, c.n>> \in run'[g].sent
    BY <1>1, <1>2, <1>3, <1>4 DEF Late
  <2> QED
    BY <1>1, <1>2, <1>3, <1>4, <1>5, <2>1, <2>2, <2>3 DEF Late
<1>7. Analysed(g)' /\ Judging(g)'
  BY <1>1, <1>2, <1>3 DEF Analysed, Judging
<1>8. Verifying(g)'
  BY <1>1, <1>2, <1>3, <1>4 DEF Verifying
<1> QED
  BY <1>1, <1>3, <1>6, <1>7, <1>8, RunStep DEF Early, OneSide

\* With nothing in flight and its verification answered or refused, the run
\* assembles its report.
LEMMA ToAssembly ==
    ASSUME Inv, NEW g \in Gens, Authority(g), run[g].pc = "verify", Pending(g) = {},
           Goes(g, "assemble"), UNCHANGED <<job, attempts>>,
           \/ steps' = steps /\ Tried(g, "verify")
           \/ steps' = [steps EXCEPT !["verify"] = "error"]
    PROVE  Inv'
<1>1. Late(g) /\ Analysed(g) /\ Judging(g) /\ Verifying(g)
  BY DEF Inv, Progress
<1>2. /\ steps' \in [Steps -> StepStatus] /\ steps'["verify"] \notin {"pending", "running"}
      /\ \A x \in Steps \ {"verify"} : steps'[x] = steps[x]
  BY <1>1 DEF Late, Verifying, Inv, Shapes, StepStatus
<1>3. /\ Shapes' /\ run'[g].pc = "assemble" /\ run'[g].tries = run[g].tries
      /\ run'[g].sent = run[g].sent /\ run'[g].errors = run[g].errors
      /\ Pending(g)' = {}
      /\ \A p : Reuses(g, p)' = Reuses(g, p) /\ Tried(g, p)' = Tried(g, p)
  BY <1>2, GoesOn DEF Places
<1>4. Late(g)'
  BY <1>1, <1>2, <1>3 DEF Late
<1>5. Analysed(g)' /\ Judging(g)' /\ Verifying(g)'
  BY <1>1, <1>2, <1>3 DEF Analysed, Judging, Verifying
<1> QED
  BY <1>3, <1>4, <1>5, RunStep DEF Early, OneSide

LEMMA VerifyRefusedStep == ASSUME Inv, NEW g \in Gens, VerifyRefused(g) PROVE Inv'
  BY VerifyUntried, ToAssembly DEF VerifyRefused, At

LEMMA VerifyReturnsStep == ASSUME Inv, NEW g \in Gens, VerifyReturns(g) PROVE Inv'
  BY ToAssembly DEF VerifyReturns, At

LEMMA AssemblyFailsStep == ASSUME Inv, NEW g \in Gens, AssemblyFails(g) PROVE Inv'
<1>1. Authority(g) /\ run[g].pc = "assemble"
  BY DEF AssemblyFails, At
<1>2. Pending(g) = {}
  BY <1>1 DEF Inv, Progress, Verifying
<1> QED
  BY <1>1, <1>2, JudgeAgainStep, JudgeExhaustedStep DEF AssemblyFails

LEMMA PublishReportStep == ASSUME Inv, NEW g \in Gens, PublishReport(g) PROVE Inv'
<1>1. Authority(g) /\ run[g].pc = "assemble" /\ attempts' = attempts
  BY DEF PublishReport, At
<1>2. /\ \E link : job' = [Ended("done") EXCEPT !.link = link]
      /\ steps' = steps /\ Returns(g)
  BY DEF PublishReport, Persist
<1>3. Late(g) /\ Analysed(g) /\ Verifying(g)
  BY <1>1 DEF Inv, Progress
<1>4. \A p \in Passes : steps[p] \notin {"pending", "running"}
  BY <1>1, <1>3 DEF Late, Analysed, Verifying
<1>5. steps \in [Steps -> StepStatus] /\ \A x \in Steps : steps[x] \notin {"pending", "running"}
  BY <1>1, <1>4, LateSteps
<1> QED
  BY <1>1, <1>2, <1>5, JobEnds

\* The first pass of a run finds nothing sent, and the steps of what is reused done.
LEMMA GroundedStep == ASSUME Inv, NEW g \in Gens, Grounded(g) PROVE Inv'
<1>1. PICK print \in Prints :
        run' = [run EXCEPT ![g].print = print, ![g].pc = Begins(g)]
  BY DEF Grounded
<1>2. /\ Authority(g) /\ run[g].pc = "fetch" /\ UNCHANGED <<job, attempts>>
      /\ steps' = ReusedSteps(g)
  BY DEF Grounded, At
<1> DEFINE r == [run[g] EXCEPT !.print = print, !.pc = Begins(g)]
<1>3. Begins(g) \in {"pair", "side", "synth", "verify"}
  BY DEF Begins
<1>4. /\ r \in RunStates(r) /\ r.pc = Begins(g) /\ r.sent = run[g].sent
      /\ r.errors = run[g].errors /\ r.tries = run[g].tries /\ r.plan = run[g].plan
  BY <1>3 DEF Inv, Shapes, RunStates, Places
<1>5. run' = [run EXCEPT ![g] = r]
  BY <1>1 DEF Inv, Shapes
<1> HIDE DEF r
<1>6. /\ run'[g] = r /\ run' = [h \in Gens |-> run'[h]]
      /\ \A h \in Gens : run'[h] \in RunStates(run'[h])
  BY <1>4, <1>5, Replaced DEF Inv
<1>7. /\ \A a \in attempts : a.gen # g
      /\ \A p \in Passes : steps[p] = "pending"
      /\ run[g].sent = {} /\ run[g].errors = {}
  BY <1>2 DEF Inv, Progress, Early, Unbegun
<1>8. Pending(g)' = {} /\ \A p : Of(g, p) = {} /\ Reuses(g, p)' = Reuses(g, p)
  BY <1>2, <1>4, <1>6, <1>7 DEF Pending, Of, Reuses
<1>9. ~Tried(g, "synthesize")' /\ ~Tried(g, "verify")'
  BY <1>4, <1>6, <1>7 DEF Tried, Sent
<1>10. /\ Computed \in [Steps -> StepStatus] /\ Computed["fetch"] = "done"
       /\ Computed["compute"] = "done" /\ \A p \in Passes : Computed[p] = "pending"
  BY <1>7 DEF Inv, Shapes, Computed, StepStatus
<1>11. CASE Reuses(g, "synthesize")
  <2>1. Begins(g) = "verify"
    BY <1>11 DEF Begins
  <2>2. /\ steps' \in [Steps -> StepStatus]
        /\ steps'["fetch"] = "done" /\ steps'["compute"] = "done"
        /\ steps'["bull"] = "skipped" /\ steps'["bear"] = "skipped"
        /\ steps'["synthesize"] = "done" /\ steps'["verify"] = "running"
    BY <1>2, <1>10, <1>11 DEF ReusedSteps, StepStatus
  <2>3. Shapes'
    BY <1>2, <1>6, <2>2 DEF Inv, Shapes
  <2>4. Late(g)'
    BY <1>2, <1>4, <1>6, <1>7, <1>8, <1>9, <2>1, <2>2 DEF Late
  <2>5. Analysed(g)' /\ Judging(g)' /\ Verifying(g)'
    BY <1>4, <1>6, <1>7, <1>8, <2>1, <2>2 DEF Analysed, Judging, Verifying
  <2> QED
    BY <1>2, <1>4, <1>6, <2>1, <2>3, <2>4, <2>5, RunStep DEF Early, OneSide
<1>12. CASE ~Reuses(g, "synthesize")
  <2>1. Begins(g) \in {"pair", "side", "synth"}
    BY <1>12 DEF Begins
  <2>2. steps' = [x \in Steps |-> IF \E a \in run[g].plan : a.pass = x THEN "done"
                                  ELSE IF x = "synthesize" /\ Begins(g) = "synth" THEN "running"
                                  ELSE Computed[x]]
    BY <1>2, <1>12 DEF ReusedSteps
  <2>3. /\ steps' \in [Steps -> StepStatus]
        /\ steps'["fetch"] = "done" /\ steps'["compute"] = "done"
        /\ \A p \in Passes : Reuses(g, p) => steps'[p] = "done"
        /\ \A p \in Passes : steps'[p] = "running" => p = "synthesize" /\ Begins(g) = "synth"
        /\ Begins(g) = "synth" => steps'["synthesize"] = "running"
    BY <1>10, <1>12, <2>2 DEF Reuses, StepStatus
  <2>4. Shapes'
    BY <1>2, <1>6, <2>3 DEF Inv, Shapes
  <2>5. Begins(g) = "synth" => \A p \in Analysts : Reuses(g, p)
    BY <1>8, <1>12 DEF Begins, Missing, Result
  <2>6. Late(g)'
    BY <1>2, <1>4, <1>6, <1>7, <1>8, <1>9, <2>1, <2>3 DEF Late
  <2>7. Analysed(g)' /\ Judging(g)' /\ Verifying(g)'
    BY <1>4, <1>6, <1>7, <1>8, <1>9, <2>1, <2>3, <2>5 DEF Analysed, Judging, Verifying
  <2>8. OneSide(g)'
    BY <1>8 DEF OneSide
  <2> QED
    BY <1>2, <1>4, <1>6, <2>1, <2>4, <2>6, <2>7, <2>8, RunStep DEF Early
<1> QED
  BY <1>11, <1>12

-------------------------------------------------------------------------------
(* The theorems *)

LEMMA InvInit == Init => Inv
<1> SUFFICES ASSUME Init PROVE Inv
  OBVIOUS
<1>1. /\ job = [status |-> "queued", gen |-> 0, live |-> FALSE, link |-> None]
      /\ steps = [x \in Steps |-> "pending"] /\ attempts = {}
      /\ run = [g \in Gens |-> Fresh]
  BY DEF Init
<1>2. Fresh \in RunStates(Fresh)
  BY DEF Fresh, RunStates, Places
<1>3. Shapes
  BY <1>1, <1>2 DEF Shapes, Rows, StepStatus
<1>4. Queued /\ Progress /\ TerminalStepsSettled
  BY <1>1 DEF Queued, Unbegun, Progress, Authority, TerminalStepsSettled, Over
<1> QED
  BY <1>3, <1>4 DEF Inv

LEMMA StutterStep == ASSUME Inv, UNCHANGED vars PROVE Inv'
<1>1. UNCHANGED <<job, steps, attempts, run>>
  BY DEF vars
<1>2. Shapes' /\ Queued' /\ TerminalStepsSettled'
  BY <1>1 DEF Inv, Shapes, Queued, Unbegun, TerminalStepsSettled, Over
<1>3. ASSUME NEW g \in Gens, Authority(g)'
      PROVE  (Early(g) /\ Late(g) /\ OneSide(g) /\ Analysed(g) /\ Judging(g) /\ Verifying(g))'
  <2>1. Authority(g)
    BY <1>1, <1>3 DEF Authority, Alive
  <2>2. Early(g) /\ Late(g) /\ OneSide(g) /\ Analysed(g) /\ Judging(g) /\ Verifying(g)
    BY <2>1 DEF Inv, Progress
  <2>3. /\ Pending(g)' = Pending(g)
        /\ \A p : /\ Of(g, p)' = Of(g, p) /\ Sent(g, p)' = Sent(g, p)
                  /\ Reuses(g, p)' = Reuses(g, p) /\ Tried(g, p)' = Tried(g, p)
    BY <1>1 DEF Pending, Of, Sent, Reuses, Tried
  <2>4. Missing(g)' = Missing(g)
    BY <1>1, <2>3, SameResults DEF Missing
  <2>5. /\ Answer(g, "synthesize")' = Answer(g, "synthesize")
        /\ Retryable(g, "synthesize", run[g].tries)' = Retryable(g, "synthesize", run[g].tries)
    BY <1>1, <2>3 DEF Answer, Retryable, FailedAs
  <2>6. Early(g)' /\ Late(g)'
    BY <1>1, <2>2, <2>3 DEF Early, Unbegun, Late
  <2>7. OneSide(g)' /\ Analysed(g)' /\ Judging(g)' /\ Verifying(g)'
    BY <1>1, <2>2, <2>3, <2>4, <2>5 DEF OneSide, Analysed, Judging, Verifying
  <2> QED
    BY <2>6, <2>7
<1> QED
  BY <1>2, <1>3 DEF Inv, Progress

\* Every step of the specification keeps the invariant.
LEMMA InvStep == Inv /\ [Next]_vars => Inv'
<1> SUFFICES ASSUME Inv, [Next]_vars PROVE Inv'
  OBVIOUS
<1>1. CASE Retry \/ Cancel \/ ClaimOrEnd \/ Reconcile \/ LapseLease
  BY <1>1, RetryStep, CancelStep, ClaimStep, ClaimLinkedStep, ReconcileStep, LapseLeaseStep
     DEF ClaimOrEnd
<1>2. ASSUME NEW g \in Gens, Works(g)
      PROVE  Inv'
  <2>1. CASE \/ RecoverVerified(g) \/ StartFetch(g) \/ FetchFails(g) \/ Unsupported(g)
             \/ Ungrounded(g) \/ Mismatched(g) \/ Grounded(g)
    BY <2>1, RecoverVerifiedStep, StartFetchStep, FetchFailsStep, UnsupportedStep,
       UngroundedStep, MismatchedStep, GroundedStep
  <2>2. CASE \/ LaunchBull(g) \/ LaunchBear(g) \/ PairRefused(g) \/ PairReturns(g)
             \/ LaunchSide(g) \/ SideFails(g) \/ SidesDone(g)
    BY <2>2, LaunchBullStep, LaunchBearStep, PairRefusedStep, PairReturnsStep,
       LaunchSideStep, SideFailsStep, SidesDoneStep
  <2>3. CASE \/ LaunchJudge(g) \/ JudgeRefused(g) \/ JudgeReturns(g)
             \/ LaunchVerify(g) \/ VerifyRefused(g) \/ VerifyReturns(g)
             \/ PublishReport(g) \/ AssemblyFails(g) \/ FinalInvalid(g)
    BY <2>3, LaunchJudgeStep, JudgeRefusedStep, JudgeReturnsStep, LaunchVerifyStep,
       VerifyRefusedStep, VerifyReturnsStep, PublishReportStep, AssemblyFailsStep,
       FinalInvalidStep
  <2> QED
    BY <1>2, <2>1, <2>2, <2>3 DEF Works
<1>3. ASSUME NEW g \in Gens, AbortRun(g) \/ Superseded(g) \/ Crash(g) \/ ExpirePaid(g)
      PROVE  Inv'
  BY <1>3, AbortRunStep, SupersededStep, CrashStep, ExpirePaidStep
<1>4. CASE PassSettles
  BY <1>4, SucceedsStep, FailsStep DEF PassSettles
<1>5. CASE UNCHANGED vars
  BY <1>5, StutterStep
<1> QED
  BY <1>1, <1>2, <1>3, <1>4, <1>5 DEF Next

\* The invariant holds of every reachable state.
LEMMA Invariant == Spec => []Inv
  BY InvInit, InvStep, PTL DEF Spec

\* However a job ends and whatever settles after it, no step of it is left
\* pending or running.
THEOREM EndsSettled == Spec => []TerminalStepsSettled
<1>1. Inv => TerminalStepsSettled
  BY DEF Inv
<1> QED
  BY <1>1, Invariant, PTL

\* Only a retry changes how a job ended.
LEMMA OutcomeStep ==
    Inv /\ [Next]_vars => (Over /\ job'.gen = job.gen => job' = job /\ steps' = steps)
<1> SUFFICES ASSUME Inv, [Next]_vars, Over, job'.gen = job.gen
             PROVE  job' = job /\ steps' = steps
  OBVIOUS
<1>1. /\ job.gen \in Gens /\ job.status \notin {"queued", "running"}
      /\ \A g : ~Authority(g)
  BY DEF Over, Authority, Inv, Shapes, Rows
<1>2. CASE Retry
  <2>1. job'.gen = job.gen + 1
    BY <1>2 DEF Retry, Inv, Shapes, Rows
  <2> QED
    BY <1>1, <2>1
<1>3. CASE Cancel \/ ClaimOrEnd \/ Reconcile \/ LapseLease
  BY <1>1, <1>3 DEF Cancel, ClaimOrEnd, Claim, ClaimLinked, Reconcile, LapseLease
<1>4. ASSUME NEW g \in Gens, Works(g)
      PROVE  FALSE
  BY <1>1, <1>4 DEF Works, At, RecoverVerified, StartFetch, FetchFails, Unsupported, Ungrounded,
     Mismatched, Grounded, LaunchBull, LaunchBear, PairRefused, PairReturns, LaunchSide,
     SideFails, SidesDone, LaunchJudge, JudgeRefused, JudgeReturns, LaunchVerify,
     VerifyRefused, VerifyReturns, PublishReport, AssemblyFails, FinalInvalid
<1>5. ASSUME NEW g \in Gens, AbortRun(g) \/ Superseded(g) \/ Crash(g) \/ ExpirePaid(g)
      PROVE  job' = job /\ steps' = steps
  BY <1>1, <1>5 DEF AbortRun, Superseded, Crash, ExpirePaid
<1>6. CASE PassSettles
  BY <1>1, <1>6 DEF PassSettles, Succeeds, Fails, Settle, Projected
<1>7. CASE UNCHANGED vars
  BY <1>7 DEF vars
<1> QED
  BY <1>2, <1>3, <1>4, <1>5, <1>6, <1>7 DEF Next

\* A generation that has ended stays as it ended: no late settlement, stale run
\* or other worker changes its row or its steps.
THEOREM OutcomeIsFinal == Spec => OutcomeStands
  BY Invariant, OutcomeStep, PTL DEF Spec, OutcomeStands

-------------------------------------------------------------------------------
(* One cohort.  An attempt that succeeded never changes again, so a report is  *)
(* as coherent as what the run with authority worked with when it wrote it:    *)
(* one try of each number, all of one data set, each launched from results of  *)
(* the passes before it.                                                       *)

Working == {"pair", "side", "synth", "verify", "assemble"}

\* The inputs of a judge: one successful bull and one bear of the same data.
Cohort(inputs, print) ==
    \E x, y \in inputs :
        /\ inputs = {x, y} /\ x.pass = "bull" /\ y.pass = "bear"
        /\ x.fate = "ok" /\ y.fate = "ok" /\ x.print = print /\ y.print = print

\* The inputs of a verification: one judge output of the same data.
Judged(inputs, print) ==
    \E judge \in inputs :
        /\ inputs = {judge} /\ judge.fate = "ok" /\ judge.print = print
        /\ Cohort(judge.inputs, print)

\* A judge output and a verification rest on what they were built from.
WellBuilt(a) ==
    a.fate # "failed" =>
        /\ a.pass = "synthesize" => Cohort(a.inputs, a.print)
        /\ a.pass = "verify" => Judged(a.inputs, a.print)

\* A plan has one success of each pass it reuses, and reuses the judge or the
\* verification alone.
Planned(plan) ==
    /\ \A a \in plan : a.pass \in Passes /\ a.fate = "ok" /\ WellBuilt(a)
    /\ \A a, b \in plan : a.pass = b.pass => a = b
    /\ \A a \in plan : a.pass \in {"synthesize", "verify"} => plan = {a}

\* The tries of a pass are numbered, the latest last.
Numbered(g) ==
    /\ run[g].tries \in 0..Retries
    /\ \A x \in run[g].sent : x[1] \in Analysts => x[2] \in 0..Tries
    /\ \A p \in Analysts :
         \E m \in {0} \cup Sent(g, p) : \A n \in Sent(g, p) : n <= m

\* What a run reuses, by its place.
Reusing(g) ==
    /\ Planned(run[g].plan)
    /\ run[g].pc # "begin" => ~Reuses(g, "verify")
    /\ run[g].pc \in {"pair", "side", "synth"} => ~Reuses(g, "synthesize")
    /\ run[g].pc = "pair" => run[g].plan = {}

\* Everything a run works with is of one data set, and no try is sent twice.
OneData(g) ==
    run[g].pc \in Working =>
        /\ run[g].print \in Prints
        /\ \A a \in run[g].plan : a.print = run[g].print
        /\ \A a \in attempts : a.gen = g => a.print = run[g].print
        /\ \A a, b \in attempts :
             /\ a.gen = g /\ b.gen = g /\ a.pass = b.pass /\ a.n = b.n
             /\ a.fate # "failed" /\ b.fate # "failed"
             => a = b

\* Every verification of this try was given what the report is made of.
VerifiesResult(g) ==
    \A a \in attempts :
        a.gen = g /\ a.pass = "verify" /\ a.n = run[g].tries /\ a.fate # "failed"
          => a.inputs = Result(g, "synthesize")

\* The judge has both sides, the verifier the judge's latest answer.
Supplied(g) ==
    /\ run[g].pc \in {"synth", "verify", "assemble"} /\ ~Reuses(g, "synthesize") =>
         \A p \in Analysts : Result(g, p) # {}
    /\ run[g].pc \in {"verify", "assemble"} =>
         Result(g, "synthesize") # {} /\ VerifiesResult(g)

Attempted ==
    /\ IsFiniteSet(attempts)
    /\ \A a \in attempts :
         WellBuilt(a) /\ a.print \in Prints /\ a.n \in -1..(Tries + Retries)

Books ==
    /\ job.live => job.status = "running"
    /\ losses \in 0..MaxLosses

Equipped == \A g \in Gens : Authority(g) =>
                Numbered(g) /\ Reusing(g) /\ OneData(g) /\ Supplied(g)

CohortInv == Attempted /\ Books /\ Equipped /\ ReportFromOneCohort

\* A pass that is reused has one success.
LEMMA ReusableOne ==
    ASSUME Shapes, Attempted, NEW p \in Passes, NEW through
    PROVE  /\ Reusable(p, through) \subseteq attempts
           /\ \A a \in Reusable(p, through) :
                 a.pass = p /\ a.fate = "ok" /\ Reusable(p, through) = {a}
<1> DEFINE S == Successes(p, through)
<1>1. S \subseteq attempts /\ \A a \in S : a.pass = p /\ a.fate = "ok"
  <2>1. Selected(p, through) \subseteq attempts /\ \A a \in Selected(p, through) : a.pass = p
    BY DEF Selected, Of
  <2> QED
    BY <2>1 DEF Successes
<1>2. IsFiniteSet(S)
  BY <1>1, FS_Subset DEF Attempted
<1> HIDE DEF S
<1>3. Reusable(p, through) = IF Cardinality(S) = 1 THEN S ELSE {}
  BY DEF Reusable, S
<1>4. Cardinality(S) = 1 => \E a : S = {a}
  BY <1>2, FS_Singleton
<1> QED
  BY <1>1, <1>3, <1>4

LEMMA PlanIsPlanned ==
    ASSUME Shapes, Attempted, NEW through
    PROVE  Planned(Plan(through))
<1> DEFINE V == Reusable("verify", through)
           J == Reusable("synthesize", through)
           X == Reusable("bull", through)
           Y == Reusable("bear", through)
<1>1. /\ \A a \in V : a \in attempts /\ a.pass = "verify" /\ a.fate = "ok" /\ V = {a}
      /\ \A a \in J : a \in attempts /\ a.pass = "synthesize" /\ a.fate = "ok" /\ J = {a}
      /\ \A a \in X : a \in attempts /\ a.pass = "bull" /\ a.fate = "ok" /\ X = {a}
      /\ \A a \in Y : a \in attempts /\ a.pass = "bear" /\ a.fate = "ok" /\ Y = {a}
  BY ReusableOne
<1>2. \/ Plan(through) = V \/ Plan(through) = J
      \/ Plan(through) = {} \/ Plan(through) = X \cup Y
  BY Zenon DEF Plan
<1> HIDE DEF V, J, X, Y
<1>3. \A a \in attempts : WellBuilt(a)
  BY DEF Attempted
<1>4. Planned(V)
  BY <1>1, <1>3 DEF Planned
<1>5. Planned(J)
  BY <1>1, <1>3 DEF Planned
<1>6. Planned(X \cup Y)
  BY <1>1, <1>3 DEF Planned
<1>7. Planned({})
  BY DEF Planned
<1> QED
  BY <1>2, <1>4, <1>5, <1>6, <1>7

\* Results of the run with authority: at most one for each pass, of its data.
LEMMA Results ==
    ASSUME Inv, CohortInv, NEW g \in Gens, Authority(g), run[g].pc \in Working, NEW p \in Passes
    PROVE  /\ \A a \in Result(g, p) : /\ a.pass = p /\ a.fate = "ok" /\ WellBuilt(a)
                                      /\ a.print = run[g].print
           /\ \A a, b \in Result(g, p) : a = b
<1>1. Reusing(g) /\ OneData(g) /\ Late(g)
  BY DEF CohortInv, Equipped, Inv, Progress
<1>2. CASE Reuses(g, p)
  <2>1. Result(g, p) = {a \in run[g].plan : a.pass = p}
    BY <1>2 DEF Result
  <2> QED
    BY <1>1, <2>1 DEF Reusing, Planned, OneData
<1>3. CASE ~Reuses(g, p)
  <2>1. \A a \in Result(g, p) : /\ a \in attempts /\ a.gen = g /\ a.pass = p /\ a.fate = "ok"
                                /\ \A n \in Sent(g, p) : n <= a.n
    BY <1>3 DEF Result, Of
  <2>2. \A a \in Result(g, p) : a.n \in Sent(g, p) /\ a.n \in Int
    <3>1. \A a \in attempts : a.gen = g /\ a.fate = "ok" => <<a.pass, a.n>> \in run[g].sent
      BY <1>1 DEF Late, Working
    <3>2. \A a \in attempts : a.n \in Int
      BY DEF CohortInv, Attempted
    <3>3. \A n : <<p, n>> \in run[g].sent => n \in Sent(g, p)
      BY DEF Sent
    <3>4. \A a \in Result(g, p) : <<p, a.n>> \in run[g].sent
      BY <2>1, <3>1
    <3> QED
      BY <2>1, <3>2, <3>3, <3>4
  <2>3. \A a, b \in Result(g, p) : a.n = b.n
    BY <2>1, <2>2
  <2>4. \A a, b \in Result(g, p) : a = b
    <3>1. \A a, b \in attempts :
             a.gen = g /\ b.gen = g /\ a.pass = b.pass /\ a.n = b.n /\ a.fate = "ok" /\ b.fate = "ok"
               => a = b
      BY <1>1 DEF OneData
    <3> QED
      BY <2>1, <2>3, <3>1
  <2>5. \A a \in Result(g, p) : WellBuilt(a) /\ a.print = run[g].print
    BY <1>1, <2>1 DEF OneData, CohortInv, Attempted
  <2> QED
    BY <2>1, <2>4, <2>5
<1> QED
  BY <1>2, <1>3

\* The judge is given one bull and one bear of its data.
LEMMA JudgeInputs ==
    ASSUME Inv, CohortInv, NEW g \in Gens, Authority(g), run[g].pc = "synth"
    PROVE  Cohort(Result(g, "bull") \cup Result(g, "bear"), run[g].print)
<1>1. Reusing(g) /\ Supplied(g)
  BY DEF CohortInv, Equipped
<1>2. Result(g, "bull") # {} /\ Result(g, "bear") # {}
  BY <1>1 DEF Reusing, Supplied
<1>3. /\ \A a \in Result(g, "bull") : a.pass = "bull" /\ a.fate = "ok" /\ a.print = run[g].print
      /\ \A a, b \in Result(g, "bull") : a = b
      /\ \A a \in Result(g, "bear") : a.pass = "bear" /\ a.fate = "ok" /\ a.print = run[g].print
      /\ \A a, b \in Result(g, "bear") : a = b
  BY Results DEF Working
<1>4. PICK x \in Result(g, "bull"), y \in Result(g, "bear") : TRUE
  BY <1>2
<1>5. Result(g, "bull") \cup Result(g, "bear") = {x, y}
  BY <1>3, <1>4
<1> QED
  BY <1>3, <1>4, <1>5 DEF Cohort

\* The verifier is given one judge output of its data.
LEMMA VerifyInputs ==
    ASSUME Inv, CohortInv, NEW g \in Gens, Authority(g), run[g].pc \in {"verify", "assemble"}
    PROVE  /\ Judged(Result(g, "synthesize"), run[g].print)
           /\ VerifiesResult(g)
<1>1. Result(g, "synthesize") # {} /\ VerifiesResult(g)
  BY DEF CohortInv, Equipped, Supplied
<1>2. /\ \A a \in Result(g, "synthesize") : /\ a.pass = "synthesize" /\ a.fate = "ok"
                                            /\ WellBuilt(a) /\ a.print = run[g].print
      /\ \A a, b \in Result(g, "synthesize") : a = b
  BY Results DEF Working
<1>3. PICK judge : Result(g, "synthesize") = {judge}
  BY <1>1, <1>2
<1>4. Cohort(judge.inputs, run[g].print)
  BY <1>2, <1>3 DEF WellBuilt
<1> QED
  BY <1>1, <1>2, <1>3, <1>4 DEF Judged

-------------------------------------------------------------------------------
(* What keeps the cohort *)

\* A job without a running owner owes nothing to a run.
LEMMA Unowned ==
    ASSUME Attempted', Books', ReportFromOneCohort', \A g \in Gens : ~Authority(g)'
    PROVE  CohortInv'
BY DEF CohortInv, Equipped

\* A job that ends without a full report, or with one of one cohort.
LEMMA EndsCohort ==
    ASSUME Inv, CohortInv, NEW status \in {"done", "error", "unsupported"}, NEW link,
           job' = [Ended(status) EXCEPT !.link = link], UNCHANGED <<attempts, losses>>,
           link = job.link \/ link = None \/ ~link.full \/ ReportFromOneCohort'
    PROVE  CohortInv'
<1>1. job'.status = status /\ ~job'.live /\ job'.link = link
  BY DEF Ended, Inv, Shapes, Rows
<1>2. Attempted' /\ Books'
  BY <1>1 DEF CohortInv, Attempted, Books
<1>3. ReportFromOneCohort'
  BY <1>1 DEF CohortInv, ReportFromOneCohort, Blocked
<1> QED
  BY <1>1, <1>2, <1>3, Unowned DEF Authority

LEMMA EndedCohort ==
    ASSUME Inv, CohortInv, NEW status \in {"done", "error", "unsupported"},
           job' = Ended(status), UNCHANGED <<attempts, losses>>
    PROVE  CohortInv'
<1>1. Ended(status) = [Ended(status) EXCEPT !.link = job.link]
  BY DEF Ended, Inv, Shapes, Rows
<1> QED
  BY <1>1, EndsCohort

\* A data-only report is not a full one.
LEMMA DataOnlyCohort ==
    ASSUME Inv, CohortInv, NEW g \in Gens, NEW s, DataOnly(g, s), UNCHANGED <<attempts, losses>>
    PROVE  CohortInv'
<1> DEFINE link == [full |-> FALSE, gen |-> g, synth |-> {}, verify |-> {}]
<1>1. job' = [Ended("done") EXCEPT !.link = link]
  BY DEF DataOnly, Persist
<1>2. ~link.full
  OBVIOUS
<1> HIDE DEF link
<1> QED
  BY <1>1, <1>2, EndsCohort

\* A full report of a judge output and its verification.
LEMMA FullCohort ==
    ASSUME Inv, CohortInv, NEW g \in Gens, NEW synth, NEW verify, NEW s, NEW print,
           Persist(g, TRUE, synth, verify, s), UNCHANGED <<attempts, losses>>,
           Judged(synth, print),
           \A v \in verify : v.inputs = synth /\ v.fate = "ok" /\ v.print = print
    PROVE  CohortInv'
<1> DEFINE link == [full |-> TRUE, gen |-> g, synth |-> synth, verify |-> verify]
<1>1. job' = [Ended("done") EXCEPT !.link = link]
  BY DEF Persist
<1>2. link.synth = synth /\ link.verify = verify
  OBVIOUS
<1> HIDE DEF link
<1>3. job'.link = link
  BY <1>1 DEF Ended, Inv, Shapes, Rows
<1>4. PICK judge \in synth :
        synth = {judge} /\ judge.fate = "ok" /\ judge.print = print /\ Cohort(judge.inputs, print)
  BY DEF Judged
<1>5. PICK x, y \in judge.inputs :
        /\ judge.inputs = {x, y} /\ x.pass = "bull" /\ y.pass = "bear"
        /\ x.fate = "ok" /\ y.fate = "ok" /\ x.print = print /\ y.print = print
  BY <1>4 DEF Cohort
<1>6. {a.pass : a \in judge.inputs} = Analysts /\ Cardinality(judge.inputs) = 2
  <2>1. {a.pass : a \in judge.inputs} = Analysts
    BY <1>5
  <2>2. x # y
    BY <1>5
  <2>3. IsFiniteSet({x}) /\ Cardinality({x}) = 1
    BY FS_Singleton
  <2>4. Cardinality({x} \cup {y}) = 2
    <3>1. y \notin {x}
      BY <2>2
    <3>2. Cardinality({x} \cup {y}) = Cardinality({x}) + 1
      BY <2>3, <3>1, FS_AddElement, Zenon
    <3> QED
      BY <2>3, <3>2
  <2>5. {x} \cup {y} = {x, y}
    OBVIOUS
  <2> QED
    BY <1>5, <2>1, <2>4, <2>5
<1>7. ReportFromOneCohort'
  BY <1>2, <1>3, <1>4, <1>5, <1>6 DEF ReportFromOneCohort
<1> QED
  BY <1>1, <1>7, EndsCohort

\* The report and its link are as they were.
LEMMA LinkKept ==
    ASSUME ReportFromOneCohort, job'.link = job.link
    PROVE  ReportFromOneCohort'
BY DEF ReportFromOneCohort, Blocked

\* The result of a pass whose attempts do not change.
LEMMA SameResult ==
    ASSUME NEW g \in Gens, NEW p, run'[g].plan = run[g].plan, run'[g].sent = run[g].sent,
           Of(g, p)' = Of(g, p)
    PROVE  Result(g, p)' = Result(g, p)
<1>1. Sent(g, p)' = Sent(g, p) /\ Reuses(g, p)' = Reuses(g, p)
  BY DEF Sent, Reuses
<1>2. {a \in Of(g, p) : a.fate = "ok" /\ \A n \in Sent(g, p) : n <= a.n}'
        = {a \in Of(g, p) : a.fate = "ok" /\ \A n \in Sent(g, p) : n <= a.n}
  BY <1>1
<1>3. {a \in run[g].plan : a.pass = p}' = {a \in run[g].plan : a.pass = p}
  OBVIOUS
<1> QED
  BY <1>1, <1>2, <1>3, Zenon DEF Result

\* What a run has sent and reuses stays what it was.
LEMMA SameNumbers ==
    ASSUME NEW g \in Gens, Numbered(g), Reusing(g), run'[g].sent = run[g].sent,
           run'[g].plan = run[g].plan, run'[g].tries \in 0..Retries,
           run'[g].pc # "begin" => ~Reuses(g, "verify"),
           run'[g].pc \in {"pair", "side", "synth"} => ~Reuses(g, "synthesize"),
           run'[g].pc = "pair" => run[g].plan = {}
    PROVE  Numbered(g)' /\ Reusing(g)'
<1>1. \A p : Sent(g, p)' = Sent(g, p) /\ Reuses(g, p)' = Reuses(g, p)
  BY DEF Sent, Reuses
<1>2. Numbered(g)'
  BY <1>1 DEF Numbered
<1>3. Planned(run[g].plan)'
  BY DEF Reusing
<1>4. Reusing(g)'
  BY <1>1, <1>3 DEF Reusing
<1> QED
  BY <1>2, <1>4

\* An attempt that settles: a result that is built as it was launched, or a failure.
LEMMA SettledCohort ==
    ASSUME Inv, CohortInv, NEW a \in attempts, NEW b, a.fate = "flight",
           b.gen = a.gen, b.pass = a.pass, b.print = a.print, b.fate \in {"ok", "failed"},
           b.fate = "ok" => b.n = a.n /\ b.inputs = a.inputs,
           b.fate = "failed" => b.n = -1,
           attempts' = (attempts \ {a}) \cup {b}, UNCHANGED <<job, losses>>,
           \A h \in Gens : /\ run'[h].pc = run[h].pc /\ run'[h].plan = run[h].plan
                           /\ run'[h].print = run[h].print /\ run'[h].tries = run[h].tries
                           /\ run'[h].sent = run[h].sent
    PROVE  CohortInv'
<1>1. Attempted'
  <2>1. IsFiniteSet(attempts')
    <3>1. IsFiniteSet(attempts \ {a})
      BY FS_Subset DEF CohortInv, Attempted
    <3> QED
      BY <3>1, FS_AddElement
  <2>2. WellBuilt(a) /\ a.print \in Prints /\ a.n \in -1..(Tries + Retries)
    BY DEF CohortInv, Attempted
  <2>3. WellBuilt(b)
    BY <2>2 DEF WellBuilt
  <2>4. b.n \in -1..(Tries + Retries)
    BY <2>2
  <2> QED
    BY <2>1, <2>2, <2>3, <2>4 DEF CohortInv, Attempted
<1>2. ASSUME NEW g \in Gens, Authority(g)'
      PROVE  (Numbered(g) /\ Reusing(g) /\ OneData(g) /\ Supplied(g))'
  <2>1. Authority(g)
    BY <1>2 DEF Authority, Alive
  <2>2. Numbered(g) /\ Reusing(g) /\ OneData(g) /\ Supplied(g) /\ Late(g)
    BY <2>1 DEF CohortInv, Equipped, Inv, Progress
  <2>3. Numbered(g)' /\ Reusing(g)'
    <3>1. run'[g].tries \in 0..Retries
      BY <2>2 DEF Numbered
    <3> QED
      BY <2>2, <3>1, SameNumbers DEF Reusing
  <2>4. OneData(g)'
    <3> SUFFICES ASSUME run[g].pc \in Working
                 PROVE  OneData(g)'
      BY DEF OneData
    <3>1. \A c \in attempts' : c.gen = g => c.print = run[g].print
      BY <2>2 DEF OneData
    <3>2. ASSUME NEW c \in attempts', NEW d \in attempts', c.gen = g, d.gen = g,
                 c.pass = d.pass, c.n = d.n, c.fate # "failed", d.fate # "failed"
          PROVE  c = d
      <4>1. \A x, y \in attempts :
               /\ x.gen = g /\ y.gen = g /\ x.pass = y.pass /\ x.n = y.n
               /\ x.fate # "failed" /\ y.fate # "failed"
               => x = y
        BY <2>2 DEF OneData
      <4>2. CASE c # b /\ d # b
        BY <3>2, <4>1, <4>2
      <4>3. CASE c = b /\ d # b
        BY <3>2, <4>1, <4>3
      <4>4. CASE c # b /\ d = b
        BY <3>2, <4>1, <4>4
      <4> QED
        BY <4>2, <4>3, <4>4
    <3> QED
      BY <2>2, <3>1, <3>2 DEF OneData
  <2>5. Supplied(g)'
    <3>1. ASSUME NEW p \in Passes, a.gen # g \/ a.pass # p
          PROVE  Result(g, p)' = Result(g, p)
      <4>1. Of(g, p)' = Of(g, p)
        BY <3>1 DEF Of
      <4> QED
        BY <4>1, SameResult
    <3>2. a.gen = g => a \in Pending(g)
      BY DEF Pending
    <3>3. run[g].pc \in {"synth", "verify", "assemble"} /\ a.gen = g =>
             \/ a.pass = "synthesize" /\ run[g].pc = "synth"
             \/ a.pass = "verify" /\ run[g].pc = "verify"
      BY <2>2, <3>2 DEF Late
    <3>4. ASSUME run[g].pc \in {"synth", "verify", "assemble"}, ~Reuses(g, "synthesize"),
                 NEW p \in Analysts
          PROVE  Result(g, p)' # {}
      BY <2>2, <3>1, <3>3, <3>4 DEF Supplied
    <3>5. ASSUME run[g].pc \in {"verify", "assemble"}
          PROVE  Result(g, "synthesize")' # {} /\ VerifiesResult(g)'
      <4>1. Result(g, "synthesize")' = Result(g, "synthesize")
        BY <3>1, <3>3, <3>5
      <4>2. Result(g, "synthesize") # {} /\ VerifiesResult(g)
        BY <2>2, <3>5 DEF Supplied
      <4>3. ASSUME NEW c \in attempts', c.gen = g, c.pass = "verify", c.n = run[g].tries,
                   c.fate # "failed"
            PROVE  c.inputs = Result(g, "synthesize")
        BY <4>2, <4>3 DEF VerifiesResult
      <4> QED
        BY <4>1, <4>2, <4>3 DEF VerifiesResult
    <3>6. Reuses(g, "synthesize")' = Reuses(g, "synthesize")
      BY DEF Reuses
    <3> QED
      BY <3>4, <3>5, <3>6 DEF Supplied
  <2> QED
    BY <2>3, <2>4, <2>5
<1>3. Books' /\ ReportFromOneCohort'
  BY LinkKept DEF CohortInv, Books
<1> QED
  BY <1>1, <1>2, <1>3 DEF CohortInv, Equipped

LEMMA SucceedsCohort == ASSUME Inv, CohortInv, NEW a \in attempts, Succeeds(a) PROVE CohortInv'
<1> DEFINE b == [a EXCEPT !.fate = "ok", !.held = FALSE, !.rows = FALSE]
<1>1. /\ a.fate = "flight" /\ UNCHANGED <<job, losses, run>>
      /\ attempts' = (attempts \ {a}) \cup {b}
  BY DEF Succeeds, Settle
<1>2. /\ b.gen = a.gen /\ b.pass = a.pass /\ b.print = a.print /\ b.fate = "ok" /\ b.n = a.n
      /\ b.inputs = a.inputs
  BY DEF Inv, Shapes, Attempts
<1> HIDE DEF b
<1> QED
  BY <1>1, <1>2, SettledCohort

\* A failure tells its run how it failed, and nothing else.
LEMMA FailedRun ==
    ASSUME Inv, NEW a \in attempts, Fails(a)
    PROVE  \A h \in Gens : /\ run'[h].pc = run[h].pc /\ run'[h].plan = run[h].plan
                           /\ run'[h].print = run[h].print /\ run'[h].tries = run[h].tries
                           /\ run'[h].sent = run[h].sent
<1>1. CASE UNCHANGED run
  BY <1>1
<1>2. CASE \E e : run' = [run EXCEPT ![a.gen].errors = e]
  <2>1. PICK e : run' = [run EXCEPT ![a.gen].errors = e]
    BY <1>2
  <2> DEFINE r == [run[a.gen] EXCEPT !.errors = e]
  <2>2. /\ run' = [run EXCEPT ![a.gen] = r] /\ run = [h \in Gens |-> run[h]]
        /\ a.gen \in Gens
    BY <2>1 DEF Inv, Shapes, Attempts
  <2>3. /\ r.pc = run[a.gen].pc /\ r.plan = run[a.gen].plan /\ r.print = run[a.gen].print
        /\ r.tries = run[a.gen].tries /\ r.sent = run[a.gen].sent
    BY <2>2 DEF Inv, Shapes, RunStates
  <2> HIDE DEF r
  <2>4. \A h \in Gens : run'[h] = IF h = a.gen THEN r ELSE run[h]
    BY <2>2
  <2> QED
    BY <2>3, <2>4
<1> QED
  BY <1>1, <1>2, Zenon DEF Fails

LEMMA FailsCohort == ASSUME Inv, CohortInv, NEW a \in attempts, Fails(a) PROVE CohortInv'
<1> DEFINE b == [a EXCEPT !.fate = "failed", !.held = FALSE, !.rows = FALSE,
                          !.n = -1, !.inputs = {}]
<1>1. /\ a.fate = "flight" /\ UNCHANGED <<job, losses>>
      /\ attempts' = (attempts \ {a}) \cup {b}
  BY DEF Fails, Settle
<1>2. b.gen = a.gen /\ b.pass = a.pass /\ b.print = a.print /\ b.fate = "failed" /\ b.n = -1
  BY DEF Inv, Shapes, Attempts
<1> HIDE DEF b
<1> QED
  BY <1>1, <1>2, FailedRun, SettledCohort

\* Attempts that are rewritten in place: what they were launched as stays.
Rewrites(S, f) ==
    /\ S \subseteq attempts /\ f = [a \in S |-> f[a]]
    /\ attempts' = (attempts \ S) \cup {f[a] : a \in S}
    /\ \A a \in S : /\ f[a].gen = a.gen /\ f[a].pass = a.pass /\ f[a].print = a.print
                     /\ f[a].n = a.n /\ f[a].inputs = a.inputs

\* A crash loses what is in flight.
LEMMA CrashRewrites ==
    ASSUME Inv, NEW g \in Gens, Crash(g)
    PROVE  \E f : /\ Rewrites(Pending(g), f)
                 /\ \A a \in Pending(g) : a.fate = "flight" /\ f[a].fate = "gone"
<1> DEFINE f == [a \in Pending(g) |-> [a EXCEPT !.fate = "gone"]]
<1>1. attempts' = (attempts \ Pending(g)) \cup {f[a] : a \in Pending(g)}
  BY DEF Crash
<1>2. \A a \in Pending(g) :
         /\ f[a].gen = a.gen /\ f[a].pass = a.pass /\ f[a].print = a.print
         /\ f[a].n = a.n /\ f[a].inputs = a.inputs
         /\ a.fate = "flight" /\ f[a].fate = "gone"
  BY DEF Pending, Inv, Shapes, Attempts
<1>3. Pending(g) \subseteq attempts /\ f = [a \in Pending(g) |-> f[a]]
  BY DEF Pending
<1> HIDE DEF f
<1>4. Rewrites(Pending(g), f)
  BY <1>1, <1>2, <1>3 DEF Rewrites
<1> QED
  BY <1>2, <1>4

\* Leases that expire are all that changes of their attempts.
LEMMA ExpiryRewrites ==
    ASSUME Inv, NEW g \in Gens, ExpirePaid(g)
    PROVE  \E f : /\ Rewrites(Held(g), f)
                 /\ \A a \in Held(g) : a.gen = g /\ f[a].fate = a.fate
<1>1. PICK billed \in SUBSET {a \in Held(g) : a.pass # "verify"} :
        attempts' = (attempts \ Held(g))
                      \cup {[a EXCEPT !.held = FALSE, !.rows = a \in billed] : a \in Held(g)}
  BY DEF ExpirePaid
<1> DEFINE f == [a \in Held(g) |-> [a EXCEPT !.held = FALSE, !.rows = a \in billed]]
<1>2. attempts' = (attempts \ Held(g)) \cup {f[a] : a \in Held(g)}
  BY <1>1
<1>3. Held(g) \subseteq attempts /\ f = [a \in Held(g) |-> f[a]] /\ \A a \in Held(g) : a.gen = g
  BY DEF Held
<1>4. \A a \in Held(g) : /\ f[a].gen = a.gen /\ f[a].pass = a.pass /\ f[a].print = a.print
                         /\ f[a].n = a.n /\ f[a].inputs = a.inputs /\ f[a].fate = a.fate
  <2>1. \A a \in attempts, x \in BOOLEAN :
          LET c == [a EXCEPT !.held = FALSE, !.rows = x]
          IN  /\ c.gen = a.gen /\ c.pass = a.pass /\ c.print = a.print
              /\ c.n = a.n /\ c.inputs = a.inputs /\ c.fate = a.fate
    BY DEF Inv, Shapes, Attempts
  <2> TAKE a \in Held(g)
  <2> DEFINE x == a \in billed
  <2>2. a \in attempts /\ x \in BOOLEAN
    BY <1>3
  <2>3. f[a] = [a EXCEPT !.held = FALSE, !.rows = x]
    OBVIOUS
  <2> HIDE DEF x, f
  <2> QED
    BY <2>1, <2>2, <2>3
<1> HIDE DEF f
<1>5. Rewrites(Held(g), f)
  BY <1>2, <1>3, <1>4 DEF Rewrites
<1> QED
  BY <1>3, <1>4, <1>5

\* Rewritten attempts are as many as before, built as they were.
LEMMA RewrittenAttempts ==
    ASSUME Attempted, NEW S, NEW f, Rewrites(S, f),
           \A a \in S : /\ f[a].fate \in {a.fate, "gone"}
                        /\ a.fate = "failed" => f[a].fate = "failed"
    PROVE  Attempted'
<1> DEFINE T == {f[a] : a \in S}
<1>1. IsFiniteSet(S) /\ IsFiniteSet(attempts \ S)
  BY FS_Subset DEF Attempted, Rewrites
<1>2. f \in Surjection(S, T)
  BY DEF Surjection, Rewrites
<1>3. IsFiniteSet(T)
  BY <1>1, <1>2, FS_Surjection
<1>4. IsFiniteSet(attempts')
  BY <1>1, <1>3, FS_Union DEF Rewrites
<1>5. ASSUME NEW a \in S
      PROVE  WellBuilt(f[a]) /\ f[a].print \in Prints /\ f[a].n \in -1..(Tries + Retries)
  <2>1. WellBuilt(a) /\ a.print \in Prints /\ a.n \in -1..(Tries + Retries)
    BY DEF Attempted, Rewrites
  <2>2. WellBuilt(f[a])
    BY <2>1 DEF WellBuilt, Rewrites
  <2> QED
    BY <2>1, <2>2 DEF Rewrites
<1> QED
  BY <1>4, <1>5 DEF Attempted, Rewrites

LEMMA CrashCohort == ASSUME Inv, CohortInv, NEW g \in Gens, Crash(g) PROVE CohortInv'
<1>1. Attempted'
  <2>1. PICK f : /\ Rewrites(Pending(g), f)
                 /\ \A a \in Pending(g) : a.fate = "flight" /\ f[a].fate = "gone"
    BY CrashRewrites
  <2> QED
    BY <2>1, RewrittenAttempts DEF CohortInv
<1>2. job' = job /\ job.gen = g /\ losses' = losses + 1 /\ losses < MaxLosses
  BY DEF Crash, Authority
<1>3. Books' /\ ReportFromOneCohort'
  BY <1>2, LinkKept DEF CohortInv, Books
<1>4. run'[g].pc = "over"
  BY ReturnsShape DEF Crash, Inv
<1>5. \A h \in Gens : ~Authority(h)'
  BY <1>2, <1>4 DEF Authority, Alive
<1> QED
  BY <1>1, <1>3, <1>5, Unowned

\* What a run without authority leaves behind is nothing to the run that has it.
LEMMA OthersCohort ==
    ASSUME Inv, CohortInv, NEW g \in Gens, ~Authority(g)', Attempted', UNCHANGED <<job, losses>>,
           \A h \in Gens \ {g} : run'[h] = run[h],
           \A b : b.gen # g => (b \in attempts' <=> b \in attempts)
    PROVE  CohortInv'
<1>1. ASSUME NEW h \in Gens, Authority(h)'
      PROVE  (Numbered(h) /\ Reusing(h) /\ OneData(h) /\ Supplied(h))'
  <2>1. Authority(h) /\ h # g /\ run'[h] = run[h]
    BY <1>1 DEF Authority, Alive
  <2>2. Numbered(h) /\ Reusing(h) /\ OneData(h) /\ Supplied(h)
    BY <2>1 DEF CohortInv, Equipped
  <2>3. \A b : b.gen = h => (b \in attempts' <=> b \in attempts)
    BY <2>1
  <2>4. \A p \in Passes : Result(h, p)' = Result(h, p)
    <3> TAKE p \in Passes
    <3>1. Of(h, p)' = Of(h, p)
      BY <2>3 DEF Of
    <3> QED
      BY <2>1, <3>1, SameResult
  <2>5. Numbered(h)' /\ Reusing(h)'
    <3>1. run'[h].tries \in 0..Retries
      BY <2>1, <2>2 DEF Numbered
    <3> QED
      BY <2>1, <2>2, <3>1, SameNumbers DEF Reusing
  <2>6. OneData(h)'
    BY <2>1, <2>2, <2>3 DEF OneData
  <2>7. Supplied(h)'
    <3>1. Reuses(h, "synthesize")' = Reuses(h, "synthesize")
      BY <2>1 DEF Reuses
    <3>2. VerifiesResult(h) => VerifiesResult(h)'
      BY <2>1, <2>3, <2>4 DEF VerifiesResult
    <3> QED
      BY <2>1, <2>2, <2>4, <3>1, <3>2 DEF Supplied
  <2> QED
    BY <2>5, <2>6, <2>7
<1>2. Books' /\ ReportFromOneCohort'
  BY LinkKept DEF CohortInv, Books
<1> QED
  BY <1>1, <1>2 DEF CohortInv, Equipped

LEMMA SupersededCohort == ASSUME Inv, CohortInv, NEW g \in Gens, Superseded(g) PROVE CohortInv'
<1>1. run'[g].pc = "over" /\ \A h \in Gens \ {g} : run'[h] = run[h]
  BY ReturnsShape DEF Superseded, Inv
<1>2. ~Authority(g)'
  BY <1>1 DEF Authority, Alive
<1>3. Attempted'
  BY DEF Superseded, CohortInv, Attempted
<1> QED
  BY <1>1, <1>2, <1>3, OthersCohort DEF Superseded

LEMMA ExpirePaidCohort == ASSUME Inv, CohortInv, NEW g \in Gens, ExpirePaid(g) PROVE CohortInv'
<1>1. PICK f : /\ Rewrites(Held(g), f)
               /\ \A a \in Held(g) : a.gen = g /\ f[a].fate = a.fate
  BY ExpiryRewrites
<1>2. Attempted'
  BY <1>1, RewrittenAttempts DEF CohortInv
<1>3. \A b : b.gen # g => (b \in attempts' <=> b \in attempts)
  BY <1>1 DEF Rewrites
<1>4. ~Authority(g)' /\ UNCHANGED <<job, losses, run>>
  BY DEF ExpirePaid, Authority, Alive
<1> QED
  BY <1>2, <1>3, <1>4, OthersCohort

-------------------------------------------------------------------------------
(* Steps outside the passes of a run *)

LEMMA RetryCohort == ASSUME Inv, CohortInv, Retry PROVE CohortInv'
<1>1. job'.status = "queued" /\ job'.live = job.live /\ job'.link = job.link
      /\ UNCHANGED <<attempts, losses>> /\ job.status # "running"
  BY DEF Retry, Inv, Shapes, Rows
<1>2. ~job'.live
  BY <1>1 DEF CohortInv, Books, Inv, Shapes, Rows
<1>3. Attempted' /\ Books' /\ ReportFromOneCohort'
  BY <1>1, <1>2, LinkKept DEF CohortInv, Attempted, Books
<1> QED
  BY <1>2, <1>3, Unowned DEF Authority

LEMMA LapseLeaseCohort == ASSUME Inv, CohortInv, LapseLease PROVE CohortInv'
<1>1. ~job'.live /\ job'.link = job.link /\ attempts' = attempts
  BY DEF LapseLease, Inv, Shapes, Rows
<1>2. losses' \in 0..MaxLosses
  BY DEF LapseLease, CohortInv, Books
<1>3. Attempted' /\ Books' /\ ReportFromOneCohort'
  BY <1>1, <1>2, LinkKept DEF CohortInv, Attempted, Books
<1> QED
  BY <1>1, <1>3, Unowned DEF Authority

\* The run that is claimed starts from the plan of the generations before it.
LEMMA ClaimCohort == ASSUME Inv, CohortInv, Claim PROVE CohortInv'
<1> SUFFICES ASSUME NEW g \in Gens, g = job.gen
             PROVE  CohortInv'
  BY DEF Inv, Shapes, Rows
<1> DEFINE plan == Plan(job.gen - 1)
           r == [Fresh EXCEPT !.pc = "begin", !.plan = plan]
<1>1. /\ job'.status = "running" /\ job'.link = job.link /\ job'.gen = g
      /\ UNCHANGED <<attempts, losses>>
  BY DEF Claim, Inv, Shapes, Rows
<1>2. Planned(plan)
  BY PlanIsPlanned DEF Inv, CohortInv
<1> HIDE DEF plan
<1>3. r.pc = "begin" /\ r.sent = {} /\ r.plan = plan /\ r.tries = 0
  BY DEF Fresh
<1>4. run' = [run EXCEPT ![g] = r] /\ run = [h \in Gens |-> run[h]]
  BY DEF Claim, Inv, Shapes, plan
<1> HIDE DEF r
<1>5. run'[g] = r
  BY <1>1, <1>4
<1>6. Numbered(g)'
  BY <1>3, <1>5 DEF Numbered, Sent
<1>7. Reusing(g)'
  BY <1>2, <1>3, <1>5 DEF Reusing
<1>8. OneData(g)' /\ Supplied(g)'
  BY <1>3, <1>5 DEF OneData, Supplied, Working
<1>9. \A h \in Gens : Authority(h)' => h = g
  BY <1>1 DEF Authority
<1>10. Attempted' /\ Books' /\ ReportFromOneCohort'
  BY <1>1, LinkKept DEF CohortInv, Attempted, Books
<1> QED
  BY <1>6, <1>7, <1>8, <1>9, <1>10 DEF CohortInv, Equipped

\* A reused verification is the finished report, with the judge it was given.
LEMMA RecoverVerifiedCohort ==
    ASSUME Inv, CohortInv, NEW g \in Gens, RecoverVerified(g)
    PROVE  CohortInv'
<1>1. Authority(g) /\ run[g].pc = "begin" /\ Reuses(g, "verify") /\ UNCHANGED <<attempts, losses>>
  BY DEF RecoverVerified, At
<1> DEFINE s == [Moved(steps, Steps, "pending", "skipped") EXCEPT !["verify"] = "done"]
<1>2. PICK v \in run[g].plan : Persist(g, TRUE, v.inputs, {v}, s)
  BY DEF RecoverVerified
<1> HIDE DEF s
<1>3. Planned(run[g].plan)
  BY <1>1 DEF CohortInv, Equipped, Reusing
<1>4. PICK a \in run[g].plan : a.pass = "verify"
  BY <1>1 DEF Reuses
<1>5. v = a /\ v.fate = "ok" /\ WellBuilt(v)
  BY <1>3, <1>4 DEF Planned
<1>6. Judged(v.inputs, v.print)
  BY <1>4, <1>5 DEF WellBuilt
<1> DEFINE synth == v.inputs
           verify == {v}
           print == v.print
<1>7. /\ \A w \in verify : w.inputs = synth /\ w.fate = "ok" /\ w.print = print
      /\ Judged(synth, print) /\ Persist(g, TRUE, synth, verify, s)
  BY <1>2, <1>5, <1>6
<1> HIDE DEF synth, verify, print
<1> QED
  BY <1>1, <1>7, FullCohort

\* The report of a run is the judge's last output and the verification of it.
LEMMA PublishReportCohort ==
    ASSUME Inv, CohortInv, NEW g \in Gens, PublishReport(g)
    PROVE  CohortInv'
<1>1. /\ Authority(g) /\ run[g].pc = "assemble" /\ UNCHANGED <<attempts, losses>>
      /\ Persist(g, TRUE, Result(g, "synthesize"), Answer(g, "verify"), steps)
  BY DEF PublishReport, At
<1>2. Judged(Result(g, "synthesize"), run[g].print) /\ VerifiesResult(g) /\ OneData(g)
  BY <1>1, VerifyInputs DEF CohortInv, Equipped
<1>3. \A v \in Answer(g, "verify") :
         v.inputs = Result(g, "synthesize") /\ v.fate = "ok" /\ v.print = run[g].print
  BY <1>1, <1>2 DEF Answer, Of, VerifiesResult, OneData, Working
<1> QED
  BY <1>1, <1>2, <1>3, FullCohort

\* Every other way in which a job ends.
LEMMA UngroundedCohort == ASSUME Inv, CohortInv, NEW g \in Gens, Ungrounded(g) PROVE CohortInv'
  BY DataOnlyCohort DEF Ungrounded

LEMMA UnsupportedCohort == ASSUME Inv, CohortInv, NEW g \in Gens, Unsupported(g) PROVE CohortInv'
  BY EndsCohort DEF Unsupported

LEMMA DegradeCohort == ASSUME Inv, CohortInv, NEW g \in Gens, NEW s, Degrade(g, s) PROVE CohortInv'
  BY DataOnlyCohort DEF Degrade

LEMMA JobEndsCohort ==
    ASSUME Inv, CohortInv, NEW g \in Gens,
           \/ Cancel \/ Reconcile \/ ClaimLinked
           \/ AbortRun(g) \/ FetchFails(g) \/ Mismatched(g)
    PROVE  CohortInv'
<1>1. \E status \in {"done", "error", "unsupported"} : job' = Ended(status)
  BY DEF Cancel, Reconcile, ClaimLinked, AbortRun, FetchFails, Mismatched
<1>2. UNCHANGED <<attempts, losses>>
  BY DEF Cancel, Reconcile, ClaimLinked, AbortRun, FetchFails, Mismatched
<1> QED
  BY <1>1, <1>2, EndedCohort

LEMMA PassesEndCohort ==
    ASSUME Inv, CohortInv, NEW g \in Gens,
           PairRefused(g) \/ SideFails(g) \/ FinalInvalid(g) \/ JudgeExhausted(g)
    PROVE  CohortInv'
<1>1. \E s : Degrade(g, s)
  BY Zenon DEF PairRefused, SideFails, FinalInvalid, JudgeExhausted
<1> QED
  BY <1>1, DegradeCohort

-------------------------------------------------------------------------------
(* The passes of a run *)

\* Only the run with authority has anything to keep.
LEMMA OwnerCohort ==
    ASSUME Inv, CohortInv, NEW g \in Gens, Authority(g), UNCHANGED <<job, losses>>, Attempted',
           Numbered(g)', Reusing(g)', OneData(g)', Supplied(g)'
    PROVE  CohortInv'
<1>1. \A h \in Gens : Authority(h)' => h = g
  BY DEF Authority
<1>2. Books' /\ ReportFromOneCohort'
  BY LinkKept DEF CohortInv, Books
<1> QED
  BY <1>1, <1>2 DEF CohortInv, Equipped

\* The run moves on, and holds what it held.
LEMMA MovesOnCohort ==
    ASSUME Inv, CohortInv, NEW g \in Gens, Authority(g), UNCHANGED <<job, attempts, losses>>,
           NEW pc, NEW tries \in 0..Retries,
           run' = [run EXCEPT ![g] = [@ EXCEPT !.pc = pc, !.tries = tries]],
           pc \in {"fetch", "side", "synth", "verify", "assemble"},
           pc # "fetch" => run[g].pc \in Working,
           ~Reuses(g, "verify"),
           pc \in {"side", "synth"} => ~Reuses(g, "synthesize"),
           pc \in {"synth", "verify", "assemble"} /\ ~Reuses(g, "synthesize") =>
              \A p \in Analysts : Result(g, p) # {},
           pc \in {"verify", "assemble"} =>
              /\ Result(g, "synthesize") # {}
              /\ \A a \in attempts : a.gen = g /\ a.pass = "verify" /\ a.n = tries
                                     /\ a.fate # "failed" => a.inputs = Result(g, "synthesize")
    PROVE  CohortInv'
<1> DEFINE r == [run[g] EXCEPT !.pc = pc, !.tries = tries]
<1>1. /\ r.pc = pc /\ r.tries = tries /\ r.plan = run[g].plan /\ r.sent = run[g].sent
      /\ r.print = run[g].print
  BY DEF Inv, Shapes, RunStates
<1>2. run' = [run EXCEPT ![g] = r] /\ run = [h \in Gens |-> run[h]]
  BY DEF Inv, Shapes
<1> HIDE DEF r
<1>3. run'[g] = r
  BY <1>2
<1>4. Numbered(g) /\ Reusing(g) /\ OneData(g)
  BY DEF CohortInv, Equipped
<1>5. Numbered(g)' /\ Reusing(g)'
  BY <1>1, <1>3, <1>4, SameNumbers
<1>6. \A p : Of(g, p)' = Of(g, p)
  BY DEF Of
<1>7. \A p : Result(g, p)' = Result(g, p) /\ Reuses(g, p)' = Reuses(g, p)
  BY <1>1, <1>3, <1>6, SameResult DEF Reuses
<1>8. OneData(g)'
  BY <1>1, <1>3, <1>4 DEF OneData, Working
<1>9. Supplied(g)'
  BY <1>1, <1>3, <1>7 DEF Supplied, VerifiesResult
<1>10. Attempted'
  BY DEF CohortInv, Attempted
<1> QED
  BY <1>5, <1>8, <1>9, <1>10, OwnerCohort

\* Goes keeps the number of the try.
LEMMA GoesCohort ==
    ASSUME Inv, CohortInv, NEW g \in Gens, Authority(g), UNCHANGED <<job, attempts, losses>>,
           NEW pc \in {"fetch", "side", "synth", "verify", "assemble"}, Goes(g, pc),
           pc # "fetch" => run[g].pc \in Working,
           ~Reuses(g, "verify"),
           pc \in {"side", "synth"} => ~Reuses(g, "synthesize"),
           pc \in {"synth", "verify", "assemble"} /\ ~Reuses(g, "synthesize") =>
              \A p \in Analysts : Result(g, p) # {},
           pc \in {"verify", "assemble"} => Result(g, "synthesize") # {} /\ VerifiesResult(g)
    PROVE  CohortInv'
<1> DEFINE tries == run[g].tries
<1>1. tries \in 0..Retries
  BY DEF CohortInv, Equipped, Numbered
<1>2. [run[g] EXCEPT !.pc = pc] = [run[g] EXCEPT !.pc = pc, !.tries = tries]
  BY DEF Inv, Shapes, RunStates
<1>3. run' = [run EXCEPT ![g] = [@ EXCEPT !.pc = pc]]
  BY DEF Goes
<1>4. run' = [run EXCEPT ![g] = [@ EXCEPT !.pc = pc, !.tries = tries]]
  BY <1>2, <1>3
<1>5. pc \in {"verify", "assemble"} =>
         /\ Result(g, "synthesize") # {}
         /\ \A a \in attempts : a.gen = g /\ a.pass = "verify" /\ a.n = tries
                                /\ a.fate # "failed" => a.inputs = Result(g, "synthesize")
  BY DEF VerifiesResult
<1> HIDE DEF tries
<1> QED
  BY <1>1, <1>4, <1>5, MovesOnCohort

LEMMA StartFetchCohort == ASSUME Inv, CohortInv, NEW g \in Gens, StartFetch(g) PROVE CohortInv'
BY GoesCohort DEF StartFetch, At

\* Neither a pass that is to run nor one that a later pass was built from is reused.
LEMMA Unreused ==
    ASSUME CohortInv, NEW g \in Gens, Authority(g), run[g].pc \in Working
    PROVE  /\ ~Reuses(g, "verify")
           /\ run[g].pc \in {"pair", "side", "synth"} => ~Reuses(g, "synthesize")
BY DEF CohortInv, Equipped, Reusing, Working

LEMMA SidesFoundCohort ==
    ASSUME Inv, CohortInv, NEW g \in Gens, Authority(g), run[g].pc \in {"pair", "side"},
           Missing(g) = {}, Goes(g, "synth"), UNCHANGED <<job, attempts, losses>>
    PROVE  CohortInv'
<1>1. \A p \in Analysts : Result(g, p) # {}
  BY DEF Missing
<1> QED
  BY <1>1, Unreused, GoesCohort DEF Working

LEMMA SidesDoneCohort == ASSUME Inv, CohortInv, NEW g \in Gens, SidesDone(g) PROVE CohortInv'
BY SidesFoundCohort DEF SidesDone, At

LEMMA PairReturnsCohort ==
    ASSUME Inv, CohortInv, NEW g \in Gens, PairReturns(g)
    PROVE  CohortInv'
<1>1. Authority(g) /\ run[g].pc = "pair"
  BY DEF PairReturns, At
<1>2. CASE Missing(g) = {}
  BY <1>1, <1>2, SidesFoundCohort DEF PairReturns
<1>3. CASE Missing(g) # {} /\ Recoverable(g)
  BY <1>1, <1>3, Unreused, GoesCohort DEF PairReturns, Working
<1>4. CASE Missing(g) # {} /\ ~Recoverable(g)
  BY <1>4, DegradeCohort DEF PairReturns
<1> QED
  BY <1>2, <1>3, <1>4

LEMMA JudgeAgainCohort ==
    ASSUME Inv, CohortInv, NEW g \in Gens, NEW s, Authority(g),
           \/ run[g].pc = "synth"
           \/ run[g].pc = "assemble" /\ ~Reuses(g, "synthesize"),
           JudgeAgain(g, s)
    PROVE  CohortInv'
<1> DEFINE tries == run[g].tries + 1
<1>1. tries \in 0..Retries
  <2>1. run[g].tries \in 0..Retries /\ run[g].tries < Retries
    BY DEF CohortInv, Equipped, Numbered, JudgeAgain, JudgeMayRetry
  <2> QED
    BY <2>1
<1>2. run' = [run EXCEPT ![g] = [@ EXCEPT !.pc = "synth", !.tries = tries]]
  BY DEF JudgeAgain, Inv, Shapes
<1> HIDE DEF tries
<1>3. ~Reuses(g, "verify") /\ ~Reuses(g, "synthesize")
  BY Unreused DEF Working
<1>4. \A p \in Analysts : Result(g, p) # {}
  BY <1>3 DEF CohortInv, Equipped, Supplied
<1>5. UNCHANGED <<job, attempts, losses>>
  BY DEF JudgeAgain
<1> QED
  BY <1>1, <1>2, <1>3, <1>4, <1>5, MovesOnCohort DEF Working

LEMMA JudgeRefusedCohort ==
    ASSUME Inv, CohortInv, NEW g \in Gens, JudgeRefused(g)
    PROVE  CohortInv'
BY JudgeAgainCohort, PassesEndCohort DEF JudgeRefused, At

\* The judge has answered: the verification of its answer is next, and no earlier
\* one has this number.
LEMMA JudgeReturnsCohort ==
    ASSUME Inv, CohortInv, NEW g \in Gens, JudgeReturns(g)
    PROVE  CohortInv'
<1>1. Authority(g) /\ run[g].pc = "synth"
  BY DEF JudgeReturns, At
<1>2. CASE JudgeExhausted(g)
  BY <1>2, PassesEndCohort
<1>3. CASE JudgeAgain(g, steps)
  BY <1>1, <1>3, JudgeAgainCohort
<1>4. CASE /\ Answer(g, "synthesize") # {} /\ Goes(g, "verify")
           /\ UNCHANGED <<job, attempts, losses>>
  <2>1. ~Reuses(g, "verify") /\ ~Reuses(g, "synthesize")
    BY <1>1, Unreused DEF Working
  <2>2. \A p \in Analysts : Result(g, p) # {}
    BY <1>1, <2>1 DEF CohortInv, Equipped, Supplied
  <2>3. Judging(g) /\ Verifying(g) /\ Late(g)
    BY <1>1 DEF Inv, Progress
  <2>4. Result(g, "synthesize") # {}
    <3>1. PICK a \in Of(g, "synthesize") : a.n = run[g].tries /\ a.fate = "ok"
      BY <1>4 DEF Answer
    <3>2. \A n \in Sent(g, "synthesize") : n <= run[g].tries
      BY <2>3 DEF Judging, Sent
    <3> QED
      BY <2>1, <3>1, <3>2 DEF Result
  <2>5. VerifiesResult(g)
    <3>1. \A a \in attempts : a.gen = g /\ a.fate # "failed" => <<a.pass, a.n>> \in run[g].sent
      BY <1>1, <2>3 DEF Late
    <3>2. <<"verify", run[g].tries>> \notin run[g].sent
      BY <1>1, <2>3 DEF Verifying, Tried, Sent
    <3> QED
      BY <3>1, <3>2 DEF VerifiesResult
  <2> QED
    BY <1>1, <1>4, <2>1, <2>2, <2>4, <2>5, GoesCohort DEF Working
<1> QED
  BY <1>2, <1>3, <1>4 DEF JudgeReturns

LEMMA VerifyEndsCohort ==
    ASSUME Inv, CohortInv, NEW g \in Gens, VerifyRefused(g) \/ VerifyReturns(g)
    PROVE  CohortInv'
<1>1. /\ Authority(g) /\ run[g].pc = "verify" /\ Goes(g, "assemble")
      /\ UNCHANGED <<job, attempts, losses>>
  BY DEF VerifyRefused, VerifyReturns, At
<1>2. Supplied(g) /\ ~Reuses(g, "verify")
  BY <1>1, Unreused DEF CohortInv, Equipped, Working
<1> QED
  BY <1>1, <1>2, GoesCohort DEF Supplied, Working

LEMMA AssemblyFailsCohort ==
    ASSUME Inv, CohortInv, NEW g \in Gens, AssemblyFails(g)
    PROVE  CohortInv'
BY JudgeAgainCohort, PassesEndCohort DEF AssemblyFails, At

\* The launch of a pass is one number more of it.
LEMMA SentMore ==
    ASSUME NEW g \in Gens, NEW p \in Passes, NEW n \in Int,
           run'[g].sent = run[g].sent \cup {<<p, n>>}
    PROVE  Sent(g, p)' = Sent(g, p) \cup {n}
<1> DEFINE All == run[g].sent \cup {<<p, n>>}
           Mine(S) == {x[2] : x \in {y \in S : y[1] = p}}
<1>1. /\ <<p, n>>[1] = p /\ <<p, n>>[2] = n
      /\ <<p, n>> \in {y \in All : y[1] = p}
  OBVIOUS
<1>2. n \in Mine(All)
  BY <1>1
<1>3. Mine(run[g].sent) \subseteq Mine(All)
  OBVIOUS
<1>4. Mine(All) \subseteq Mine(run[g].sent) \cup {n}
  <2> SUFFICES ASSUME NEW x \in All, x[1] = p
               PROVE  x[2] \in Mine(run[g].sent) \cup {n}
    OBVIOUS
  <2>1. CASE x \in run[g].sent
    BY <2>1
  <2>2. CASE x = <<p, n>>
    BY <2>2, <1>1
  <2> QED
    BY <2>1, <2>2
<1>5. Sent(g, p)' = Mine(All) /\ Sent(g, p) = Mine(run[g].sent)
  BY DEF Sent
<1> HIDE DEF Mine, All
<1> QED
  BY <1>2, <1>3, <1>4, <1>5

\* An attempt is launched from results of its run, with a number that is new.
LEMMA LaunchedCohort ==
    ASSUME Inv, CohortInv, NEW g \in Gens, NEW p \in Passes, NEW n \in 0..(Tries + Retries),
           NEW inputs, Authority(g), Launch(g, p, n, inputs),
           run[g].pc \in Working, <<p, n>> \notin run[g].sent,
           p \in Analysts => /\ run[g].pc \in {"pair", "side"} /\ n \in 0..Tries
                             /\ \A m \in Sent(g, p) : m <= n,
           p = "synthesize" => run[g].pc = "synth" /\ Cohort(inputs, run[g].print),
           p = "verify" => /\ run[g].pc = "verify"
                           /\ Judged(inputs, run[g].print) /\ inputs = Result(g, "synthesize")
    PROVE  CohortInv'
<1> DEFINE a == Attempt(g, p, n, inputs)
<1>1. attempts' = attempts \cup {a} /\ losses' = losses
  BY DEF Launch
<1>2. /\ a.gen = g /\ a.pass = p /\ a.n = n /\ a.inputs = inputs /\ a.print = run[g].print
      /\ a.fate = "flight"
  BY DEF Attempt
<1> HIDE DEF a
<1>3. /\ job' = job /\ run'[g].sent = run[g].sent \cup {<<p, n>>}
      /\ run'[g].tries = run[g].tries /\ run'[g].plan = run[g].plan /\ run'[g].pc = run[g].pc
  BY Launched
<1>4. run'[g].print = run[g].print
  <2> DEFINE r == [run[g] EXCEPT !.sent = @ \cup {<<p, n>>}]
  <2>1. run' = [run EXCEPT ![g] = r] /\ run = [h \in Gens |-> run[h]]
    BY DEF Launch, Inv, Shapes
  <2>2. r.print = run[g].print
    BY DEF Inv, Shapes, RunStates
  <2> HIDE DEF r
  <2>3. run'[g] = r
    BY <2>1
  <2> QED
    BY <2>2, <2>3
<1>5. Numbered(g) /\ Reusing(g) /\ OneData(g) /\ Supplied(g) /\ Late(g)
  BY DEF CohortInv, Equipped, Inv, Progress
<1>6. Attempted'
  <2>1. IsFiniteSet(attempts')
    BY <1>1, FS_AddElement DEF CohortInv, Attempted
  <2>2. WellBuilt(a)
    BY <1>2 DEF WellBuilt
  <2>3. a.print \in Prints
    BY <1>2, <1>5 DEF OneData
  <2>4. a.n \in -1..(Tries + Retries)
    BY <1>2
  <2> QED
    BY <1>1, <2>1, <2>2, <2>3, <2>4 DEF CohortInv, Attempted
<1>7. \A q : q # p => Sent(g, q)' = Sent(g, q)
  BY <1>3 DEF Sent
<1>8. Sent(g, p)' = Sent(g, p) \cup {n}
  <2>1. n \in Int /\ run'[g].sent = run[g].sent \cup {<<p, n>>}
    BY <1>3
  <2> QED
    BY <2>1, SentMore
<1>9. Numbered(g)'
  <2>1. \A x \in run'[g].sent : x[1] \in Analysts => x[2] \in 0..Tries
    BY <1>3, <1>5 DEF Numbered
  <2>2. ASSUME NEW q \in Analysts
        PROVE  (\E m \in {0} \cup Sent(g, q) : \A k \in Sent(g, q) : k <= m)'
    <3>1. CASE q # p
      BY <1>5, <1>7, <3>1 DEF Numbered
    <3>2. CASE q = p
      BY <1>8, <3>2
    <3> QED
      BY <3>1, <3>2
  <2> QED
    BY <1>3, <1>5, <2>1, <2>2 DEF Numbered
<1>10. \A q : Reuses(g, q)' = Reuses(g, q)
  BY <1>3 DEF Reuses
<1>11. Reusing(g)'
  <2>1. Planned(run[g].plan)'
    BY <1>3, <1>5 DEF Reusing
  <2> QED
    BY <1>3, <1>5, <1>10, <2>1 DEF Reusing
<1>12. \A c \in attempts : c.gen = g /\ c.pass = p /\ c.fate # "failed" => c.n # n
  BY <1>5 DEF Late, Working
<1>13. OneData(g)'
  <2>1. \A c \in attempts' : c.gen = g => c.print = run[g].print
    BY <1>1, <1>2, <1>5 DEF OneData
  <2>2. ASSUME NEW c \in attempts', NEW d \in attempts', c.gen = g, d.gen = g,
               c.pass = d.pass, c.n = d.n, c.fate # "failed", d.fate # "failed"
        PROVE  c = d
    <3>1. \A x, y \in attempts :
             /\ x.gen = g /\ y.gen = g /\ x.pass = y.pass /\ x.n = y.n
             /\ x.fate # "failed" /\ y.fate # "failed"
             => x = y
      BY <1>5 DEF OneData
    <3>2. CASE c # a /\ d # a
      BY <1>1, <2>2, <3>1, <3>2
    <3>3. CASE c = a \/ d = a
      BY <1>1, <1>2, <1>12, <2>2, <3>3
    <3> QED
      BY <3>2, <3>3
  <2> QED
    BY <1>3, <1>4, <1>5, <2>1, <2>2 DEF OneData
<1>14. Supplied(g)'
  <2>1. ASSUME NEW q \in Passes, q # p
        PROVE  Result(g, q)' = Result(g, q)
    <3>1. Of(g, q)' = Of(g, q)
      BY <1>1, <1>2, <2>1 DEF Of
    <3>2. {c \in Of(g, q) : c.fate = "ok" /\ \A m \in Sent(g, q) : m <= c.n}'
            = {c \in Of(g, q) : c.fate = "ok" /\ \A m \in Sent(g, q) : m <= c.n}
      BY <1>7, <2>1, <3>1
    <3>3. {c \in run[g].plan : c.pass = q}' = {c \in run[g].plan : c.pass = q}
      BY <1>3
    <3> QED
      BY <1>10, <3>2, <3>3, Zenon DEF Result
  <2>2. ASSUME run[g].pc \in {"synth", "verify", "assemble"}, ~Reuses(g, "synthesize"),
               NEW q \in Analysts
        PROVE  Result(g, q)' # {}
    BY <1>5, <2>1, <2>2 DEF Supplied
  <2>3. ASSUME run[g].pc \in {"verify", "assemble"}
        PROVE  Result(g, "synthesize")' # {} /\ VerifiesResult(g)'
    <3>1. Result(g, "synthesize")' = Result(g, "synthesize")
      BY <2>1, <2>3
    <3>2. Result(g, "synthesize") # {} /\ VerifiesResult(g)
      BY <1>5, <2>3 DEF Supplied
    <3>3. \A c \in attempts' :
             c.gen = g /\ c.pass = "verify" /\ c.n = run[g].tries /\ c.fate # "failed"
               => c.inputs = Result(g, "synthesize")
      BY <1>1, <1>2, <3>2 DEF VerifiesResult
    <3> QED
      BY <1>3, <3>1, <3>2, <3>3 DEF VerifiesResult
  <2> QED
    BY <1>3, <1>10, <2>2, <2>3 DEF Supplied
<1> QED
  BY <1>1, <1>3, <1>6, <1>9, <1>11, <1>13, <1>14, OwnerCohort

\* A pass without a number has not been sent.
LEMMA Unsent ==
    ASSUME NEW g \in Gens, NEW p, NEW n, n \notin Sent(g, p)
    PROVE  <<p, n>> \notin run[g].sent
BY DEF Sent

LEMMA LaunchPairCohort ==
    ASSUME Inv, CohortInv, NEW g \in Gens, LaunchBull(g) \/ LaunchBear(g)
    PROVE  CohortInv'
<1>1. Authority(g) /\ run[g].pc = "pair"
  BY DEF LaunchBull, LaunchBear, At
<1>2. PICK p \in Analysts : Sent(g, p) = {} /\ Launch(g, p, 0, {})
  BY DEF LaunchBull, LaunchBear
<1>3. <<p, 0>> \notin run[g].sent
  BY <1>2, Unsent
<1>4. 0 \in 0..(Tries + Retries) /\ 0 \in 0..Tries
  OBVIOUS
<1> QED
  BY <1>1, <1>2, <1>3, <1>4, LaunchedCohort DEF Working

\* The next try of a side is later than every earlier one.
LEMMA NextTryIsNew ==
    ASSUME CohortInv, NEW g \in Gens, Authority(g), NEW p \in Analysts, MayTry(g, p)
    PROVE  /\ NextTry(g, p) \in 0..Tries /\ NextTry(g, p) \notin Sent(g, p)
           /\ \A m \in Sent(g, p) : m <= NextTry(g, p)
<1> DEFINE S == {0} \cup Sent(g, p)
           top == Max(S)
<1>1. Numbered(g)
  BY DEF CohortInv, Equipped
<1>2. \A m \in Sent(g, p) : m \in 0..Tries
  BY <1>1 DEF Numbered, Sent
<1>3. top \in S /\ \A m \in S : top >= m
  <2>1. PICK m \in S : \A n \in Sent(g, p) : n <= m
    BY <1>1 DEF Numbered
  <2>2. \A n \in S : m >= n
    BY <1>2, <2>1
  <2> QED
    BY <2>2 DEF Max
<1>4. top \in 0..Tries
  BY <1>2, <1>3
<1> HIDE DEF top
<1>5. CASE run[g].plan # {}
  BY <1>5 DEF NextTry, MayTry
<1>6. CASE run[g].plan = {}
  <2>1. NextTry(g, p) = top + 1 /\ TriesLeft(g, p, NextTry(g, p))
    BY <1>6 DEF NextTry, MayTry, top
  <2>2. NextTry(g, p) <= Tries
    BY <2>1 DEF TriesLeft
  <2>3. \A m \in Sent(g, p) : m <= top
    BY <1>2, <1>3, <1>4
  <2> HIDE DEF S
  <2>4. NextTry(g, p) \notin Sent(g, p)
    BY <1>2, <1>4, <2>1, <2>3
  <2> QED
    BY <1>2, <1>4, <2>1, <2>2, <2>3, <2>4
<1> QED
  BY <1>5, <1>6

LEMMA LaunchSideCohort ==
    ASSUME Inv, CohortInv, NEW g \in Gens, LaunchSide(g)
    PROVE  CohortInv'
<1> DEFINE p == Side(g)
           n == NextTry(g, p)
<1>1. /\ Authority(g) /\ run[g].pc = "side" /\ MayTry(g, p) /\ Launch(g, p, n, {})
      /\ p \in Analysts
  BY SideIsMissing DEF LaunchSide, At
<1>2. /\ n \in 0..Tries /\ n \notin Sent(g, p) /\ \A m \in Sent(g, p) : m <= n
  BY <1>1, NextTryIsNew
<1>3. <<p, n>> \notin run[g].sent
  BY <1>2, Unsent
<1>4. n \in 0..(Tries + Retries)
  BY <1>2
<1> HIDE DEF n, p
<1> QED
  BY <1>1, <1>2, <1>3, <1>4, LaunchedCohort DEF Working

LEMMA LaunchJudgeCohort ==
    ASSUME Inv, CohortInv, NEW g \in Gens, LaunchJudge(g)
    PROVE  CohortInv'
<1> DEFINE n == run[g].tries
           inputs == Result(g, "bull") \cup Result(g, "bear")
<1>1. /\ Authority(g) /\ run[g].pc = "synth" /\ n \notin Sent(g, "synthesize")
      /\ Launch(g, "synthesize", n, inputs)
  BY DEF LaunchJudge, At, Tried
<1>2. Cohort(inputs, run[g].print)
  BY <1>1, JudgeInputs
<1>3. <<"synthesize", n>> \notin run[g].sent
  BY <1>1, Unsent
<1>4. n \in 0..(Tries + Retries)
  <2>1. n \in 0..Retries
    BY <1>1 DEF CohortInv, Equipped, Numbered
  <2> QED
    BY <2>1
<1> HIDE DEF n, inputs
<1> QED
  BY <1>1, <1>2, <1>3, <1>4, LaunchedCohort DEF Working

LEMMA LaunchVerifyCohort ==
    ASSUME Inv, CohortInv, NEW g \in Gens, LaunchVerify(g)
    PROVE  CohortInv'
<1> DEFINE n == run[g].tries
           inputs == Result(g, "synthesize")
<1>1. /\ Authority(g) /\ run[g].pc = "verify" /\ n \notin Sent(g, "verify")
      /\ Launch(g, "verify", n, inputs)
  BY DEF LaunchVerify, At, Tried
<1>2. Judged(inputs, run[g].print)
  BY <1>1, VerifyInputs
<1>3. <<"verify", n>> \notin run[g].sent
  BY <1>1, Unsent
<1>4. n \in 0..(Tries + Retries)
  <2>1. n \in 0..Retries
    BY <1>1 DEF CohortInv, Equipped, Numbered
  <2> QED
    BY <2>1
<1>5. inputs = Result(g, "synthesize")
  OBVIOUS
<1> HIDE DEF n, inputs
<1> QED
  BY <1>1, <1>2, <1>3, <1>4, <1>5, LaunchedCohort DEF Working

\* The data fits what the run reuses, and nothing was launched for other data.
LEMMA GroundedCohort ==
    ASSUME Inv, CohortInv, NEW g \in Gens, Grounded(g)
    PROVE  CohortInv'
<1>1. PICK print \in Prints :
        Fits(g, print) /\ run' = [run EXCEPT ![g].print = print, ![g].pc = Begins(g)]
  BY DEF Grounded
<1>2. Authority(g) /\ run[g].pc = "fetch" /\ UNCHANGED <<job, attempts, losses>>
  BY DEF Grounded, At
<1> DEFINE r == [run[g] EXCEPT !.print = print, !.pc = Begins(g)]
<1>3. run' = [run EXCEPT ![g] = r] /\ run = [h \in Gens |-> run[h]]
  BY <1>1 DEF Inv, Shapes
<1>4. /\ r.pc = Begins(g) /\ r.print = print /\ r.plan = run[g].plan /\ r.sent = run[g].sent
      /\ r.tries = run[g].tries
  BY DEF Inv, Shapes, RunStates
<1> HIDE DEF r
<1>5. run'[g] = r
  BY <1>3
<1>6. Numbered(g) /\ Reusing(g) /\ \A a \in attempts : a.gen # g
  BY <1>2 DEF CohortInv, Equipped, Inv, Progress, Early, Unbegun
<1>7. /\ ~Reuses(g, "verify")
      /\ Begins(g) \in {"pair", "side", "synth", "verify"}
      /\ Begins(g) = "verify" <=> Reuses(g, "synthesize")
      /\ Begins(g) = "pair" => run[g].plan = {}
      /\ Begins(g) = "synth" => Missing(g) = {}
  BY <1>2, <1>6 DEF Begins, Reusing
<1>8. Numbered(g)' /\ Reusing(g)'
  <2>1. run'[g].tries \in 0..Retries
    BY <1>4, <1>5, <1>6 DEF Numbered
  <2> QED
    BY <1>4, <1>5, <1>6, <1>7, <2>1, SameNumbers
<1>9. OneData(g)'
  <2>1. \A a \in run[g].plan : a.print = print
    BY <1>1 DEF Fits
  <2> QED
    BY <1>2, <1>4, <1>5, <1>6, <2>1 DEF OneData
<1>10. Supplied(g)'
  <2>1. \A p : Of(g, p)' = Of(g, p)
    BY <1>2 DEF Of
  <2>2. \A p : Result(g, p)' = Result(g, p) /\ Reuses(g, p)' = Reuses(g, p)
    BY <1>4, <1>5, <2>1, SameResult DEF Reuses
  <2>3. Begins(g) = "verify" => Result(g, "synthesize") # {}
    BY <1>7 DEF Result, Reuses
  <2>4. Begins(g) = "synth" => \A p \in Analysts : Result(g, p) # {}
    BY <1>7 DEF Missing
  <2>5. VerifiesResult(g)'
    BY <1>2, <1>6 DEF VerifiesResult
  <2> QED
    BY <1>4, <1>5, <1>7, <2>2, <2>3, <2>4, <2>5 DEF Supplied
<1>11. Attempted'
  BY <1>2 DEF CohortInv, Attempted
<1> QED
  BY <1>2, <1>8, <1>9, <1>10, <1>11, OwnerCohort

LEMMA CohortInit == Init => CohortInv
<1> SUFFICES ASSUME Init PROVE CohortInv
  OBVIOUS
<1>1. /\ job = [status |-> "queued", gen |-> 0, live |-> FALSE, link |-> None]
      /\ attempts = {} /\ losses = 0
  BY DEF Init
<1>2. Attempted
  BY <1>1, FS_EmptySet DEF Attempted
<1>3. Books
  BY <1>1 DEF Books
<1>4. ReportFromOneCohort
  BY <1>1 DEF ReportFromOneCohort, Blocked
<1>5. \A g \in Gens : ~Authority(g)
  BY <1>1 DEF Authority
<1> QED
  BY <1>2, <1>3, <1>4, <1>5 DEF CohortInv, Equipped

LEMMA CohortStutter == ASSUME CohortInv, UNCHANGED vars PROVE CohortInv'
<1>1. UNCHANGED <<job, attempts, run, losses>>
  BY DEF vars
<1>2. Attempted' /\ Books' /\ ReportFromOneCohort'
  BY <1>1, LinkKept DEF CohortInv, Attempted, Books
<1>3. ASSUME NEW g \in Gens, Authority(g)'
      PROVE  (Numbered(g) /\ Reusing(g) /\ OneData(g) /\ Supplied(g))'
  <2>1. Authority(g)
    BY <1>1, <1>3 DEF Authority, Alive
  <2>2. Numbered(g) /\ Reusing(g) /\ OneData(g) /\ Supplied(g)
    BY <2>1 DEF CohortInv, Equipped
  <2>3. \A p : Of(g, p)' = Of(g, p) /\ Reuses(g, p)' = Reuses(g, p)
    BY <1>1 DEF Of, Reuses
  <2>4. \A p : Result(g, p)' = Result(g, p)
    BY <1>1, <2>3, SameResult
  <2>5. Numbered(g)' /\ Reusing(g)'
    <3>1. run'[g].tries \in 0..Retries
      BY <1>1, <2>2 DEF Numbered
    <3> QED
      BY <1>1, <2>2, <3>1, SameNumbers DEF Reusing
  <2>6. OneData(g)'
    BY <1>1, <2>2 DEF OneData
  <2>7. Supplied(g)'
    BY <1>1, <2>2, <2>3, <2>4 DEF Supplied, VerifiesResult
  <2> QED
    BY <2>5, <2>6, <2>7
<1> QED
  BY <1>2, <1>3 DEF CohortInv, Equipped

LEMMA CohortStep == Inv /\ CohortInv /\ [Next]_vars => CohortInv'
<1> SUFFICES ASSUME Inv, CohortInv, [Next]_vars PROVE CohortInv'
  OBVIOUS
<1>1. CASE Retry \/ Cancel \/ ClaimOrEnd \/ Reconcile \/ LapseLease
  <2>1. CASE Cancel \/ Reconcile \/ ClaimLinked
    <3>1. 0 \in Gens
      OBVIOUS
    <3> QED
      BY <2>1, <3>1, JobEndsCohort
  <2> QED
    BY <1>1, <2>1, RetryCohort, ClaimCohort, LapseLeaseCohort DEF ClaimOrEnd
<1>2. ASSUME NEW g \in Gens, Works(g)
      PROVE  CohortInv'
  <2>1. CASE \/ RecoverVerified(g) \/ StartFetch(g) \/ FetchFails(g) \/ Unsupported(g)
             \/ Ungrounded(g) \/ Mismatched(g) \/ Grounded(g)
    BY <2>1, RecoverVerifiedCohort, StartFetchCohort, JobEndsCohort, UnsupportedCohort,
       UngroundedCohort, GroundedCohort
  <2>2. CASE \/ LaunchBull(g) \/ LaunchBear(g) \/ PairRefused(g) \/ PairReturns(g)
             \/ LaunchSide(g) \/ SideFails(g) \/ SidesDone(g)
    BY <2>2, LaunchPairCohort, PassesEndCohort, PairReturnsCohort, LaunchSideCohort,
       SidesDoneCohort
  <2>3. CASE \/ LaunchJudge(g) \/ JudgeRefused(g) \/ JudgeReturns(g)
             \/ LaunchVerify(g) \/ VerifyRefused(g) \/ VerifyReturns(g)
             \/ PublishReport(g) \/ AssemblyFails(g) \/ FinalInvalid(g)
    BY <2>3, LaunchJudgeCohort, JudgeRefusedCohort, JudgeReturnsCohort, LaunchVerifyCohort,
       VerifyEndsCohort, PublishReportCohort, AssemblyFailsCohort, PassesEndCohort
  <2> QED
    BY <1>2, <2>1, <2>2, <2>3 DEF Works
<1>3. ASSUME NEW g \in Gens, AbortRun(g) \/ Superseded(g) \/ Crash(g) \/ ExpirePaid(g)
      PROVE  CohortInv'
  BY <1>3, JobEndsCohort, SupersededCohort, CrashCohort, ExpirePaidCohort
<1>4. CASE PassSettles
  BY <1>4, SucceedsCohort, FailsCohort DEF PassSettles
<1>5. CASE UNCHANGED vars
  BY <1>5, CohortStutter
<1> QED
  BY <1>1, <1>2, <1>3, <1>4, <1>5 DEF Next

LEMMA CohortInvariant == Spec => []CohortInv
<1>1. Init => CohortInv
  BY CohortInit
<1> QED
  BY <1>1, Invariant, CohortStep, PTL DEF Spec

\* A full report rests on one judge output, on the one bull and the one bear of
\* the same data it was built from, and on a verification of that very output,
\* whatever settled late and whatever a retry gathered from earlier generations.
THEOREM OneCohort == Spec => []ReportFromOneCohort
<1>1. CohortInv => ReportFromOneCohort
  BY DEF CohortInv
<1> QED
  BY <1>1, CohortInvariant, PTL

\* Rows, run states and attempts keep their shapes, a lease belongs to a running
\* claim, and the tries of a pass stay within their numbers.
THEOREM RunTypes == Spec => []TypeOK
<1>1. Inv /\ CohortInv => TypeOK
  <2> SUFFICES ASSUME Inv, CohortInv PROVE TypeOK
    OBVIOUS
  <2>1. /\ job.status \in {"queued", "running", "done", "error", "unsupported"}
        /\ job.gen \in Gens /\ job.live \in BOOLEAN
    BY DEF Inv, Shapes, Rows
  <2>2. DOMAIN steps = Steps /\ \A x \in Steps : steps[x] \in StepStatus
    BY DEF Inv, Shapes
  <2>3. \A a \in attempts :
          /\ a.gen \in Gens /\ a.pass \in Passes
          /\ a.fate \in {"flight", "ok", "failed", "gone"}
          /\ a.held \in BOOLEAN /\ a.rows \in BOOLEAN
    BY DEF Inv, Shapes, Attempts
  <2>4. \A a \in attempts : a.print \in Prints /\ a.n \in -1..(Tries + Retries)
    BY DEF CohortInv, Attempted
  <2>5. \A g \in Gens : run[g].pc \in Places
    BY DEF Inv, Shapes, RunStates
  <2>6. (job.live => job.status = "running") /\ losses \in 0..MaxLosses
    BY DEF CohortInv, Books
  <2> QED
    BY <2>1, <2>2, <2>3, <2>4, <2>5, <2>6 DEF TypeOK, StepStatus, Places
<1> QED
  BY <1>1, Invariant, CohortInvariant, PTL

-------------------------------------------------------------------------------
(* Nothing is paid for twice *)

\* What is launched is neither reused nor what a reused pass was built from.
Unpaid(a) == \A s \in run[a.gen].plan : a.pass # s.pass /\ a.pass \notin Upstream(s.pass)

\* Only a launch is new.
LEMMA NothingNew ==
    ASSUME \A a \in attempts' : a.fate = "flight" => \E b \in attempts : Name(b) = Name(a)
    PROVE  \A a \in attempts' : New(a) => Unpaid(a)
BY DEF New

\* A launch is paid for once when its run reuses neither it nor a later pass.
LEMMA LaunchedUnpaid ==
    ASSUME CohortInv, NEW g \in Gens, NEW p \in Passes, NEW n, NEW inputs, Authority(g),
           Launch(g, p, n, inputs), ~Reuses(g, p), ~Reuses(g, "verify"),
           p # "verify" => ~Reuses(g, "synthesize")
    PROVE  \A a \in attempts' : New(a) => Unpaid(a)
<1> DEFINE a == Attempt(g, p, n, inputs)
<1>1. attempts' = attempts \cup {a} /\ a.gen = g /\ a.pass = p
  BY DEF Launch, Attempt
<1> HIDE DEF a
<1>2. ASSUME NEW s \in run[g].plan
      PROVE  p # s.pass /\ p \notin Upstream(s.pass)
  <2>1. s.pass \in Passes
    BY DEF CohortInv, Equipped, Reusing, Planned
  <2>2. s.pass # p /\ s.pass # "verify" /\ (p # "verify" => s.pass # "synthesize")
    BY DEF Reuses
  <2>3. s.pass \in Analysts \/ (s.pass = "synthesize" /\ p = "verify")
    BY <2>1, <2>2
  <2>4. CASE s.pass \in Analysts
    BY <2>2, <2>4 DEF Upstream
  <2>5. CASE s.pass = "synthesize" /\ p = "verify"
    BY <2>5 DEF Upstream
  <2> QED
    BY <2>2, <2>3, <2>4, <2>5
<1>3. Unpaid(a)
  BY <1>1, <1>2 DEF Unpaid
<1>4. \A b \in attempts : ~New(b)
  BY DEF New
<1> QED
  BY <1>1, <1>3, <1>4

LEMMA PassesUnpaid ==
    ASSUME CohortInv, NEW g \in Gens,
           LaunchBull(g) \/ LaunchBear(g) \/ LaunchSide(g) \/ LaunchJudge(g) \/ LaunchVerify(g)
    PROVE  \A a \in attempts' : New(a) => Unpaid(a)
<1>1. CASE LaunchBull(g) \/ LaunchBear(g)
  <2>1. Authority(g) /\ run[g].pc = "pair"
    BY <1>1 DEF LaunchBull, LaunchBear, At
  <2>2. PICK p \in Analysts : Launch(g, p, 0, {})
    BY <1>1 DEF LaunchBull, LaunchBear
  <2>3. \A q : ~Reuses(g, q)
    BY <2>1 DEF CohortInv, Equipped, Reusing, Reuses
  <2> QED
    BY <2>1, <2>2, <2>3, LaunchedUnpaid
<1>2. CASE LaunchSide(g)
  <2>1. /\ Authority(g) /\ run[g].pc = "side" /\ Side(g) \in Missing(g) /\ Side(g) \in Analysts
        /\ Launch(g, Side(g), NextTry(g, Side(g)), {})
    BY <1>2, SideIsMissing DEF LaunchSide, At
  <2>2. ~Reuses(g, "verify") /\ ~Reuses(g, "synthesize")
    BY <2>1, Unreused DEF Working
  <2>3. ~Reuses(g, Side(g))
    BY <2>1 DEF Missing, Result, Reuses
  <2> QED
    BY <2>1, <2>2, <2>3, LaunchedUnpaid
<1>3. CASE LaunchJudge(g)
  <2>1. /\ Authority(g) /\ run[g].pc = "synth"
        /\ \E n, inputs : Launch(g, "synthesize", n, inputs)
    BY <1>3 DEF LaunchJudge, At
  <2>2. ~Reuses(g, "verify") /\ ~Reuses(g, "synthesize")
    BY <2>1, Unreused DEF Working
  <2> QED
    BY <2>1, <2>2, LaunchedUnpaid
<1>4. CASE LaunchVerify(g)
  <2>1. Authority(g) /\ run[g].pc = "verify" /\ \E n, inputs : Launch(g, "verify", n, inputs)
    BY <1>4 DEF LaunchVerify, At
  <2>2. ~Reuses(g, "verify")
    BY <2>1, Unreused DEF Working
  <2> QED
    BY <2>1, <2>2, LaunchedUnpaid
<1> QED
  BY <1>1, <1>2, <1>3, <1>4

\* Settlements and expiries change attempts, and launch none.
LEMMA ChangesAreNotNew ==
    ASSUME Inv, NEW g \in Gens, Crash(g) \/ ExpirePaid(g) \/ PassSettles
    PROVE  \A a \in attempts' : a.fate = "flight" => \E b \in attempts : Name(b) = Name(a)
<1>1. CASE Crash(g)
  <2>1. PICK f : /\ Rewrites(Pending(g), f)
                 /\ \A a \in Pending(g) : a.fate = "flight" /\ f[a].fate = "gone"
    BY <1>1, CrashRewrites
  <2> QED
    BY <2>1 DEF Rewrites
<1>2. CASE ExpirePaid(g)
  <2>1. PICK f : Rewrites(Held(g), f)
    BY <1>2, ExpiryRewrites
  <2> QED
    BY <2>1 DEF Rewrites, Name
<1>3. CASE PassSettles
  <2>1. PICK a \in attempts : Succeeds(a) \/ Fails(a)
    BY <1>3 DEF PassSettles
  <2>2. \E b : b.fate \in {"ok", "failed"} /\ attempts' = (attempts \ {a}) \cup {b}
    <3> DEFINE won == [a EXCEPT !.fate = "ok", !.held = FALSE, !.rows = FALSE]
               lost == [a EXCEPT !.fate = "failed", !.held = FALSE, !.rows = FALSE,
                                 !.n = -1, !.inputs = {}]
    <3>1. won.fate = "ok" /\ lost.fate = "failed"
      BY DEF Inv, Shapes, Attempts
    <3>2. attempts' = (attempts \ {a}) \cup {won} \/ attempts' = (attempts \ {a}) \cup {lost}
      BY <2>1, Zenon DEF Succeeds, Fails
    <3> HIDE DEF won, lost
    <3> QED
      BY <3>1, <3>2
  <2> QED
    BY <2>2
<1> QED
  BY <1>1, <1>2, <1>3

LEMMA UnpaidStep ==
    Inv /\ CohortInv /\ [Next]_vars => \A a \in attempts' : New(a) => Unpaid(a)
<1> SUFFICES ASSUME Inv, CohortInv, [Next]_vars
             PROVE  \A a \in attempts' : New(a) => Unpaid(a)
  OBVIOUS
<1>1. CASE attempts' = attempts
  BY <1>1, NothingNew
<1>2. CASE Retry \/ Cancel \/ ClaimOrEnd \/ Reconcile \/ LapseLease \/ UNCHANGED vars
  <2>1. attempts' = attempts
    BY <1>2 DEF Retry, Cancel, ClaimOrEnd, Claim, ClaimLinked, Reconcile, LapseLease, vars
  <2> QED
    BY <1>1, <2>1
<1>3. ASSUME NEW g \in Gens, Works(g)
      PROVE  \A a \in attempts' : New(a) => Unpaid(a)
  <2>1. CASE \/ LaunchBull(g) \/ LaunchBear(g) \/ LaunchSide(g) \/ LaunchJudge(g)
             \/ LaunchVerify(g)
    BY <2>1, PassesUnpaid
  <2>2. CASE \/ RecoverVerified(g) \/ StartFetch(g) \/ FetchFails(g) \/ Unsupported(g)
             \/ Ungrounded(g) \/ Mismatched(g) \/ Grounded(g) \/ PairRefused(g)
             \/ SideFails(g) \/ SidesDone(g) \/ VerifyRefused(g) \/ VerifyReturns(g)
             \/ PublishReport(g) \/ FinalInvalid(g)
    <3>1. attempts' = attempts
      BY <2>2 DEF RecoverVerified, StartFetch, FetchFails, Unsupported, Ungrounded, Mismatched,
         Grounded, PairRefused, SideFails, SidesDone, VerifyRefused, VerifyReturns,
         PublishReport, FinalInvalid, Degrade
    <3> QED
      BY <1>1, <3>1
  <2>3. CASE PairReturns(g) \/ JudgeRefused(g) \/ JudgeReturns(g) \/ AssemblyFails(g)
    <3>1. attempts' = attempts
      BY <2>3 DEF PairReturns, JudgeRefused, JudgeReturns, AssemblyFails, JudgeAgain,
         JudgeExhausted, Degrade
    <3> QED
      BY <1>1, <3>1
  <2> QED
    BY <1>3, <2>1, <2>2, <2>3 DEF Works
<1>4. ASSUME NEW g \in Gens, AbortRun(g) \/ Superseded(g) \/ Crash(g) \/ ExpirePaid(g)
      PROVE  \A a \in attempts' : New(a) => Unpaid(a)
  <2>1. CASE AbortRun(g) \/ Superseded(g)
    BY <1>1, <2>1 DEF AbortRun, Superseded
  <2>2. CASE Crash(g) \/ ExpirePaid(g)
    BY <2>2, ChangesAreNotNew, NothingNew
  <2> QED
    BY <1>4, <2>1, <2>2
<1>5. CASE PassSettles
  <2>1. 0 \in Gens
    OBVIOUS
  <2> QED
    BY <1>5, <2>1, ChangesAreNotNew, NothingNew
<1> QED
  BY <1>2, <1>3, <1>4, <1>5 DEF Next

\* Nothing that is paid for is bought again: a run launches neither a pass that it
\* reuses nor one that a reused pass was built from.
THEOREM PaidOnce == Spec => NothingPaidTwice
<1>1. Inv /\ CohortInv /\ [Next]_vars =>
        \A a \in attempts' : New(a) =>
          \A s \in run[a.gen].plan : a.pass # s.pass /\ a.pass \notin Upstream(s.pass)
  BY UnpaidStep DEF Unpaid
<1> QED
  BY <1>1, Invariant, CohortInvariant, PTL DEF Spec, NothingPaidTwice

-------------------------------------------------------------------------------
(* A retry that was accepted has a plan.  Its lineage may still change while it *)
(* waits, but one side of the first generation cannot: it has succeeded, and no *)
(* later generation tries that side again.                                      *)

\* What has settled owes nothing, what was built has its inputs still, all attempts
\* are of one data set, and a generation has one analyst of a side unless it failed.
Lineage ==
    /\ \A a \in attempts : Settled(a) => ~a.held /\ ~a.rows
    /\ \A a \in attempts : a.inputs \subseteq attempts /\ \A x \in a.inputs : x.fate = "ok"
    /\ \A a, b \in attempts : a.print = b.print
    /\ \A a, b \in attempts :
          /\ a.gen = b.gen /\ a.pass = b.pass /\ a.pass \in Analysts
          /\ a.fate # "failed" /\ b.fate # "failed"
          => a = b

\* The first generation has a success of side p, and no other generation tries p.
Anchor(p) ==
    /\ \E a \in attempts : a.gen = 0 /\ a.pass = p /\ a.fate = "ok"
    /\ \A b \in attempts : b.pass = p => b.gen = 0

\* A retry rests on one side of the first generation, which its run reuses unless
\* it reuses what was built from it.
Anchored ==
    job.gen > 0 =>
        \E p \in Analysts :
            /\ Anchor(p)
            /\ Authority(job.gen) =>
                 \E q \in {p, "synthesize", "verify"} : Reuses(job.gen, q)

\* What a run reuses is still there, and an analyst of it that has not failed is its
\* latest try.
Sourced(g) ==
    /\ run[g].plan \subseteq attempts
    /\ g > 0 => run[g].plan # {}
    /\ \A a \in attempts : a.gen = g => a.fate # "gone"
    /\ \A a \in attempts :
          a.gen = g /\ a.pass \in Analysts /\ a.fate # "failed" =>
            \A n \in Sent(g, a.pass) : n <= a.n

LineageInv == Lineage /\ Anchored /\ \A g \in Gens : Authority(g) => Sourced(g)

\* An anchor is reusable, whatever else its lineage holds.
LEMMA AnchorIsReusable ==
    ASSUME Shapes, Attempted, Lineage, NEW p \in Analysts, Anchor(p), NEW through \in Nat
    PROVE  Reusable(p, through) # {}
<1>1. PICK a \in attempts : a.gen = 0 /\ a.pass = p /\ a.fate = "ok"
  BY DEF Anchor
<1>2. \A b \in attempts : b.pass = p => b.gen = 0
  BY DEF Anchor
<1>3. Mentioned(0, p) /\ \A g : g # 0 => ~Mentioned(g, p)
  BY <1>1, <1>2 DEF Mentioned, Of, Settled
<1>4. Last(p, through) = 0
  <2>1. {g \in 0..through : Mentioned(g, p)} = {0}
    BY <1>3
  <2>2. Last(p, through) = Max({-1} \cup {0})
    BY <2>1 DEF Last
  <2>3. Max({-1} \cup {0}) = 0
    BY DEF Max
  <2> QED
    BY <2>2, <2>3
<1>5. ~Corrupt(0, p)
  <2>1. ASSUME NEW b \in attempts, b.gen = 0, b.pass = p
        PROVE  ~b.rows
    <3>1. b.fate = "failed" \/ b = a
      BY <1>1, <2>1 DEF Lineage
    <3> QED
      BY <1>1, <2>1, <3>1 DEF Lineage, Settled
  <2> QED
    BY <2>1 DEF Corrupt, Of
<1>6. Upstream(p) = {}
  BY DEF Upstream
<1>7. Selected(p, through) = {b \in Of(0, p) : Settled(b)}
  BY <1>4, <1>5, <1>6 DEF Selected
<1>8. Successes(p, through) = {a}
  <2>1. a \in Successes(p, through)
    BY <1>1, <1>7 DEF Successes, Of, Settled
  <2>2. \A b \in Successes(p, through) : b = a
    BY <1>1, <1>7 DEF Successes, Of, Lineage
  <2> QED
    BY <2>1, <2>2
<1>9. Cardinality({a}) = 1
  BY FS_Singleton
<1> QED
  BY <1>8, <1>9 DEF Reusable

\* A plan is made of what there is.
LEMMA PlanIsThere ==
    ASSUME Shapes, Attempted, NEW through
    PROVE  Plan(through) \subseteq attempts
<1>1. \A p \in Passes : Reusable(p, through) \subseteq attempts
  BY ReusableOne
<1> QED
  BY <1>1 DEF Plan

\* With an anchor there is a plan, which reuses it or what was built from it.
LEMMA AnchoredPlan ==
    ASSUME Shapes, Attempted, Lineage, NEW p \in Analysts, Anchor(p), NEW through \in Nat
    PROVE  \E a \in Plan(through) : a.pass \in {p, "synthesize", "verify"}
<1> DEFINE V == Reusable("verify", through)
           J == Reusable("synthesize", through)
           X == Reusable("bull", through)
           Y == Reusable("bear", through)
<1>1. /\ \A a \in V : a.pass = "verify"
      /\ \A a \in J : a.pass = "synthesize"
      /\ \A a \in X : a \in attempts /\ a.pass = "bull"
      /\ \A a \in Y : a \in attempts /\ a.pass = "bear"
  BY ReusableOne
<1>2. \E a \in X \cup Y : a.pass = p
  BY <1>1, AnchorIsReusable
<1>3. ASSUME NEW q \in Analysts
      PROVE  ~(Cardinality(Successes(q, through)) > 1)
  <2>1. \A a, b \in Successes(q, through) : a = b
    BY DEF Successes, Selected, Of, Lineage
  <2>2. CASE Successes(q, through) = {}
    BY <2>2, FS_EmptySet
  <2>3. CASE Successes(q, through) # {}
    <3>1. PICK a : Successes(q, through) = {a}
      BY <2>1, <2>3
    <3>2. Cardinality({a}) = 1
      BY FS_Singleton
    <3> QED
      BY <3>1, <3>2
  <2> QED
    BY <2>2, <2>3
<1>4. ~(Cardinality({a.print : a \in X \cup Y}) > 1)
  <2>1. PICK a \in X \cup Y : TRUE
    BY <1>2
  <2>2. \A b \in X \cup Y : b.print = a.print
    BY <1>1, <2>1 DEF Lineage
  <2>3. {b.print : b \in X \cup Y} = {a.print}
    BY <2>1, <2>2
  <2>4. Cardinality({a.print}) = 1
    BY FS_Singleton
  <2> QED
    BY <2>3, <2>4
<1>5. \/ V # {} /\ Plan(through) = V
      \/ J # {} /\ Plan(through) = J
      \/ Plan(through) = X \cup Y
  <2> HIDE DEF V, J
  <2>1. Plan(through) = IF V # {} THEN V ELSE IF J # {} THEN J ELSE
           IF \/ \E q \in Analysts : Cardinality(Successes(q, through)) > 1
              \/ Cardinality({a.print : a \in X \cup Y}) > 1
           THEN {} ELSE X \cup Y
    BY DEF Plan, V, J
  <2> QED
    BY <1>3, <1>4, <2>1
<1> QED
  BY <1>1, <1>2, <1>5

\* Whatever the first generation can be resumed from, it has the success of a side.
LEMMA FirstAnchor ==
    ASSUME Shapes, Attempted, Lineage, job.gen = 0, NEW through, Plan(through) # {}
    PROVE  \E p \in Analysts : Anchor(p)
<1>1. \A a \in attempts : a.gen = 0
  BY DEF Shapes, Attempts
<1>2. PICK a \in Plan(through) : TRUE
  OBVIOUS
<1>3. a \in attempts /\ a.pass \in Passes /\ a.fate = "ok" /\ WellBuilt(a)
  BY <1>2, PlanIsThere, PlanIsPlanned DEF Planned
<1>4. ASSUME NEW b \in attempts, b.fate = "ok", b.pass \in Analysts
      PROVE  \E p \in Analysts : Anchor(p)
  BY <1>1, <1>4 DEF Anchor
<1>5. ASSUME NEW b \in attempts, Cohort(b.inputs, b.print)
      PROVE  \E p \in Analysts : Anchor(p)
  <2>1. PICK x \in b.inputs : x.pass = "bull" /\ x.fate = "ok"
    BY <1>5 DEF Cohort
  <2>2. x \in attempts
    BY <2>1 DEF Lineage
  <2> QED
    BY <1>4, <2>1, <2>2
<1>6. CASE a.pass \in Analysts
  BY <1>3, <1>4, <1>6
<1>7. CASE a.pass = "synthesize"
  BY <1>3, <1>5, <1>7 DEF WellBuilt
<1>8. CASE a.pass = "verify"
  <2>1. Judged(a.inputs, a.print)
    BY <1>3, <1>8 DEF WellBuilt
  <2>2. PICK judge \in a.inputs : judge.print = a.print /\ Cohort(judge.inputs, a.print)
    BY <2>1 DEF Judged
  <2>3. judge \in attempts
    BY <1>3, <2>2 DEF Lineage
  <2> QED
    BY <1>5, <2>2, <2>3
<1> QED
  BY <1>3, <1>6, <1>7, <1>8

\* The run that has authority had it, and reuses and has sent what it had.
Onward(g) == Authority(g) /\ run'[g].plan = run[g].plan /\ run'[g].sent = run[g].sent

\* Steps that leave the attempts alone.
LEMMA LineageKept ==
    ASSUME Inv, LineageInv, attempts' = attempts, job'.gen = job.gen,
           \A g \in Gens : Authority(g)' => Onward(g)
    PROVE  LineageInv'
<1>1. Lineage'
  BY DEF LineageInv, Lineage
<1>2. ASSUME NEW g \in Gens, Authority(g)'
      PROVE  Sourced(g)' /\ \A q : Reuses(g, q)' = Reuses(g, q)
  <2>1. /\ Authority(g) /\ Sourced(g)
        /\ run'[g].plan = run[g].plan /\ run'[g].sent = run[g].sent
    BY <1>2 DEF LineageInv, Onward
  <2>2. \A p : Sent(g, p)' = Sent(g, p)
    BY <2>1 DEF Sent
  <2>3. \A q : Reuses(g, q)' = Reuses(g, q)
    BY <2>1 DEF Reuses
  <2> QED
    BY <2>1, <2>2, <2>3 DEF Sourced
<1>3. Anchored'
  <2> SUFFICES ASSUME job.gen > 0 PROVE Anchored'
    BY DEF Anchored
  <2>1. PICK p \in Analysts :
          /\ Anchor(p)
          /\ Authority(job.gen) => \E q \in {p, "synthesize", "verify"} : Reuses(job.gen, q)
    BY DEF LineageInv, Anchored
  <2>2. Anchor(p)'
    BY <2>1 DEF Anchor
  <2> SUFFICES ASSUME NEW g \in Gens, g = job.gen PROVE Anchored'
    BY DEF Inv, Shapes, Rows
  <2>3. Authority(g)' => \E q \in {p, "synthesize", "verify"} : Reuses(g, q)'
    BY <1>2, <2>1 DEF Onward
  <2> QED
    BY <2>2, <2>3 DEF Anchored
<1> QED
  BY <1>1, <1>2, <1>3 DEF LineageInv

\* A job that ends or waits is nobody's.
LEMMA LineageUnowned ==
    ASSUME Inv, LineageInv, attempts' = attempts, job'.gen = job.gen, ~job'.live
    PROVE  LineageInv'
BY LineageKept DEF Authority

LEMMA LineageEnded ==
    ASSUME Inv, LineageInv, attempts' = attempts,
           NEW status \in {"done", "error", "unsupported"}, NEW link,
           job' = Ended(status) \/ job' = [Ended(status) EXCEPT !.link = link]
    PROVE  LineageInv'
<1>1. job'.gen = job.gen /\ ~job'.live
  BY DEF Ended, Inv, Shapes, Rows
<1> QED
  BY <1>1, LineageUnowned

\* The run with authority goes on without launching anything.
LEMMA LineageGoesOn ==
    ASSUME Inv, LineageInv, NEW g \in Gens, Authority(g), UNCHANGED <<job, attempts>>,
           NEW r, run' = [run EXCEPT ![g] = r], r.plan = run[g].plan, r.sent = run[g].sent
    PROVE  LineageInv'
<1>1. run'[g] = r
  BY DEF Inv, Shapes
<1>2. \A h \in Gens : Authority(h)' => h = g
  BY DEF Authority
<1> QED
  BY <1>1, <1>2, LineageKept DEF Onward

\* Attempts of S, none of which has settled, become those of f.
Changed(S, f) ==
    /\ S \subseteq attempts /\ f = [a \in S |-> f[a]]
    /\ attempts' = (attempts \ S) \cup {f[a] : a \in S}
    /\ \A a \in S :
         /\ a.fate \in {"flight", "gone"}
         /\ f[a].gen = a.gen /\ f[a].pass = a.pass /\ f[a].print = a.print
         /\ f[a].inputs \in {a.inputs, {}}
         /\ Settled(f[a]) => ~f[a].held /\ ~f[a].rows
         /\ f[a].fate # "failed" => f[a].n = a.n

LEMMA ChangedLineage ==
    ASSUME Lineage, NEW S, NEW f, Changed(S, f)
    PROVE  /\ Lineage'
           /\ \A x \in attempts : x.fate = "ok" => x \in attempts'
           /\ \A p : Anchor(p) => Anchor(p)'
<1>1. \A x \in attempts : x.fate = "ok" => x \in attempts'
  BY DEF Changed
<1>2. \A c \in attempts' : \/ c \in attempts /\ c \notin S
                           \/ \E a \in S : c = f[a]
  BY DEF Changed
<1>3. \A a \in attempts' : Settled(a) => ~a.held /\ ~a.rows
  BY <1>2 DEF Changed, Lineage
<1>4. \A a \in attempts' : a.inputs \subseteq attempts' /\ \A x \in a.inputs : x.fate = "ok"
  <2> TAKE c \in attempts'
  <2>1. PICK a \in attempts : c.inputs \in {a.inputs, {}}
    BY <1>2 DEF Changed
  <2> QED
    BY <1>1, <2>1 DEF Lineage
<1>5. \A a, b \in attempts' : a.print = b.print
  <2> TAKE c, d \in attempts'
  <2>1. PICK a \in attempts, b \in attempts : c.print = a.print /\ d.print = b.print
    BY <1>2 DEF Changed
  <2> QED
    BY <2>1 DEF Lineage
<1>6. ASSUME NEW c \in attempts', NEW d \in attempts',
             c.gen = d.gen, c.pass = d.pass, c.pass \in Analysts,
             c.fate # "failed", d.fate # "failed"
      PROVE  c = d
  <2>1. \A a, b \in attempts :
          /\ a.gen = b.gen /\ a.pass = b.pass /\ a.pass \in Analysts
          /\ a.fate # "failed" /\ b.fate # "failed"
          => a = b
    BY DEF Lineage
  <2>2. \A a \in S : a \in attempts /\ a.fate # "failed" /\ f[a].gen = a.gen /\ f[a].pass = a.pass
    BY DEF Changed
  <2>3. CASE c \in attempts \ S /\ d \in attempts \ S
    BY <1>6, <2>1, <2>3
  <2>4. CASE c \in attempts \ S /\ \E a \in S : d = f[a]
    BY <1>6, <2>1, <2>2, <2>4
  <2>5. CASE d \in attempts \ S /\ \E a \in S : c = f[a]
    BY <1>6, <2>1, <2>2, <2>5
  <2>6. CASE \E a, b \in S : c = f[a] /\ d = f[b]
    BY <1>6, <2>1, <2>2, <2>6
  <2> QED
    BY <1>2, <2>3, <2>4, <2>5, <2>6
<1>7. Lineage'
  BY <1>3, <1>4, <1>5, <1>6 DEF Lineage
<1>8. ASSUME NEW p, Anchor(p)
      PROVE  Anchor(p)'
  <2>1. \E a \in attempts' : a.gen = 0 /\ a.pass = p /\ a.fate = "ok"
    BY <1>1, <1>8 DEF Anchor
  <2>2. \A c \in attempts' : c.pass = p => c.gen = 0
    BY <1>2, <1>8 DEF Anchor, Changed
  <2> QED
    BY <2>1, <2>2 DEF Anchor
<1> QED
  BY <1>1, <1>7, <1>8

\* Settlements, and leases that expire.
LEMMA LineageChanged ==
    ASSUME Inv, CohortInv, LineageInv, NEW S, NEW f, Changed(S, f), job'.gen = job.gen,
           \A g \in Gens : Authority(g)' => Onward(g),
           \A a \in S : f[a].fate = "gone" /\ Authority(a.gen)' => a.fate = "gone"
    PROVE  LineageInv'
<1>1. /\ Lineage'
      /\ \A x \in attempts : x.fate = "ok" => x \in attempts'
      /\ \A p : Anchor(p) => Anchor(p)'
  BY ChangedLineage DEF LineageInv
<1>2. ASSUME NEW g \in Gens, Authority(g)'
      PROVE  Sourced(g)' /\ \A q : Reuses(g, q)' = Reuses(g, q)
  <2>1. /\ Authority(g) /\ Sourced(g) /\ Planned(run[g].plan)
        /\ run'[g].plan = run[g].plan /\ run'[g].sent = run[g].sent
    BY <1>2 DEF LineageInv, Onward, CohortInv, Equipped, Reusing
  <2>2. \A p : Sent(g, p)' = Sent(g, p)
    BY <2>1 DEF Sent
  <2>3. \A q : Reuses(g, q)' = Reuses(g, q)
    BY <2>1 DEF Reuses
  <2>4. run'[g].plan \subseteq attempts'
    BY <1>1, <2>1 DEF Planned, Sourced
  <2>5. ASSUME NEW c \in attempts', c.gen = g
        PROVE  /\ c.fate # "gone"
               /\ c.pass \in Analysts /\ c.fate # "failed" => \A n \in Sent(g, c.pass) : n <= c.n
    <3>1. CASE c \in attempts
      BY <2>1, <2>5, <3>1 DEF Sourced
    <3>2. CASE c \notin attempts
      <4>1. PICK a \in S : c = f[a]
        BY <3>2 DEF Changed
      <4>2. /\ a \in attempts /\ a.gen = g /\ a.pass = c.pass /\ a.fate # "failed"
            /\ c.fate # "failed" => c.n = a.n
        BY <2>5, <4>1 DEF Changed
      <4>3. a.fate # "gone"
        BY <2>1, <4>2 DEF Sourced
      <4> QED
        BY <1>2, <2>1, <4>1, <4>2, <4>3 DEF Sourced
    <3> QED
      BY <3>1, <3>2
  <2> QED
    BY <2>1, <2>2, <2>3, <2>4, <2>5 DEF Sourced
<1>3. Anchored'
  <2> SUFFICES ASSUME job.gen > 0, NEW g \in Gens, g = job.gen PROVE Anchored'
    BY DEF Anchored, Inv, Shapes, Rows
  <2>1. PICK p \in Analysts :
          /\ Anchor(p)
          /\ Authority(g) => \E q \in {p, "synthesize", "verify"} : Reuses(g, q)
    BY DEF LineageInv, Anchored
  <2>2. Anchor(p)'
    BY <1>1, <2>1
  <2>3. Authority(g)' => \E q \in {p, "synthesize", "verify"} : Reuses(g, q)'
    BY <1>2, <2>1 DEF Onward
  <2> QED
    BY <2>2, <2>3 DEF Anchored
<1> QED
  BY <1>1, <1>2, <1>3 DEF LineageInv

\* An attempt that settles is b.
LEMMA SettledLineage ==
    ASSUME Inv, CohortInv, LineageInv, NEW a \in attempts, NEW b, a.fate = "flight",
           b.gen = a.gen, b.pass = a.pass, b.print = a.print, b.inputs \in {a.inputs, {}},
           b.fate \in {"ok", "failed"}, ~b.held, ~b.rows, b.fate = "ok" => b.n = a.n,
           attempts' = (attempts \ {a}) \cup {b}, job' = job,
           \A g \in Gens : /\ run'[g].pc = run[g].pc /\ run'[g].plan = run[g].plan
                           /\ run'[g].sent = run[g].sent
    PROVE  LineageInv'
<1> DEFINE f == [x \in {a} |-> b]
<1>1. f = [x \in {a} |-> f[x]] /\ f[a] = b /\ {f[x] : x \in {a}} = {b}
  OBVIOUS
<1> HIDE DEF f
<1>2. Changed({a}, f)
  BY <1>1 DEF Changed
<1>3. \A g \in Gens : Authority(g)' => Onward(g)
  BY DEF Authority, Alive, Onward
<1> QED
  BY <1>1, <1>2, <1>3, LineageChanged

LEMMA SucceedsLineage ==
    ASSUME Inv, CohortInv, LineageInv, NEW a \in attempts, Succeeds(a)
    PROVE  LineageInv'
<1> DEFINE b == [a EXCEPT !.fate = "ok", !.held = FALSE, !.rows = FALSE]
<1>1. /\ a.fate = "flight" /\ UNCHANGED <<job, run>>
      /\ attempts' = (attempts \ {a}) \cup {b}
  BY DEF Succeeds, Settle
<1>2. /\ b.gen = a.gen /\ b.pass = a.pass /\ b.print = a.print /\ b.fate = "ok" /\ b.n = a.n
      /\ b.inputs = a.inputs /\ b.held = FALSE /\ b.rows = FALSE
  BY DEF Inv, Shapes, Attempts
<1> HIDE DEF b
<1>3. ~b.held /\ ~b.rows
  BY <1>2
<1> QED
  BY <1>1, <1>2, <1>3, SettledLineage

LEMMA FailsLineage ==
    ASSUME Inv, CohortInv, LineageInv, NEW a \in attempts, Fails(a)
    PROVE  LineageInv'
<1> DEFINE b == [a EXCEPT !.fate = "failed", !.held = FALSE, !.rows = FALSE,
                          !.n = -1, !.inputs = {}]
<1>1. /\ a.fate = "flight" /\ job' = job
      /\ attempts' = (attempts \ {a}) \cup {b}
  BY DEF Fails, Settle
<1>2. /\ b.gen = a.gen /\ b.pass = a.pass /\ b.print = a.print /\ b.fate = "failed"
      /\ b.inputs = {} /\ b.held = FALSE /\ b.rows = FALSE
  BY DEF Inv, Shapes, Attempts
<1> HIDE DEF b
<1>3. ~b.held /\ ~b.rows
  BY <1>2
<1> QED
  BY <1>1, <1>2, <1>3, FailedRun, SettledLineage

LEMMA CrashLineage ==
    ASSUME Inv, CohortInv, LineageInv, NEW g \in Gens, Crash(g)
    PROVE  LineageInv'
<1>1. PICK f : /\ Rewrites(Pending(g), f)
               /\ \A a \in Pending(g) : a.fate = "flight" /\ f[a].fate = "gone"
  BY CrashRewrites
<1>2. Changed(Pending(g), f)
  BY <1>1 DEF Rewrites, Changed, Settled
<1>3. run'[g].pc = "over"
  BY ReturnsShape DEF Crash, Inv
<1>4. job' = job /\ job.gen = g
  BY DEF Crash, Authority
<1>5. \A h : ~Authority(h)'
  BY <1>3, <1>4 DEF Authority, Alive
<1> QED
  BY <1>2, <1>4, <1>5, LineageChanged

LEMMA ExpirePaidLineage ==
    ASSUME Inv, CohortInv, LineageInv, NEW g \in Gens, ExpirePaid(g)
    PROVE  LineageInv'
<1>1. PICK f : /\ Rewrites(Held(g), f)
               /\ \A a \in Held(g) : a.gen = g /\ f[a].fate = a.fate
  BY ExpiryRewrites
<1>2. \A a \in Held(g) : a.fate \in {"flight", "gone"}
  <2> TAKE a \in Held(g)
  <2>1. a \in attempts /\ a.held
    BY DEF Held
  <2>2. ~Settled(a) /\ a.fate \in {"flight", "ok", "failed", "gone"}
    BY <2>1 DEF LineageInv, Lineage, Inv, Shapes, Attempts
  <2> QED
    BY <2>2 DEF Settled
<1>3. Changed(Held(g), f)
  BY <1>1, <1>2 DEF Rewrites, Changed, Settled
<1>4. \A h \in Gens : Authority(h)' => Onward(h)
  BY DEF ExpirePaid, Authority, Alive, Onward
<1>5. job' = job
  BY DEF ExpirePaid
<1> QED
  BY <1>1, <1>3, <1>4, <1>5, LineageChanged

\* The first retry finds its anchor, and every later one finds it still there.
LEMMA RetryLineage ==
    ASSUME Inv, CohortInv, LineageInv, Retry
    PROVE  LineageInv'
<1>1. /\ attempts' = attempts /\ Plan(job.gen) # {} /\ job.gen \in Gens
      /\ job'.status = "queued" /\ job'.gen = job.gen + 1
  BY DEF Retry, Inv, Shapes, Rows
<1>2. \E p \in Analysts : Anchor(p)
  <2>1. CASE job.gen = 0
    BY <1>1, <2>1, FirstAnchor DEF Inv, CohortInv, LineageInv
  <2>2. CASE job.gen > 0
    BY <2>2 DEF LineageInv, Anchored
  <2> QED
    BY <1>1, <2>1, <2>2
<1>3. \E p \in Analysts : Anchor(p)'
  BY <1>1, <1>2 DEF Anchor
<1>4. \A g : ~Authority(g)'
  BY <1>1 DEF Authority
<1>5. Lineage'
  BY <1>1 DEF LineageInv, Lineage
<1> QED
  BY <1>3, <1>4, <1>5 DEF LineageInv, Anchored

\* The run of a retry reuses its anchor, or what was built from it.
LEMMA ClaimLineage ==
    ASSUME Inv, CohortInv, LineageInv, Claim
    PROVE  LineageInv'
<1> SUFFICES ASSUME NEW g \in Gens, g = job.gen
             PROVE  LineageInv'
  BY DEF Inv, Shapes, Rows
<1> DEFINE plan == Plan(job.gen - 1)
           r == [Fresh EXCEPT !.pc = "begin", !.plan = plan]
<1>1. job'.gen = g /\ attempts' = attempts /\ job.status = "queued"
  BY DEF Claim, Inv, Shapes, Rows
<1>2. plan \subseteq attempts
  BY PlanIsThere DEF Inv, CohortInv
<1>3. g > 0 => \E p \in Analysts :
                 Anchor(p) /\ \E a \in plan : a.pass \in {p, "synthesize", "verify"}
  <2> HAVE g > 0
  <2>1. PICK p \in Analysts : Anchor(p)
    BY DEF LineageInv, Anchored
  <2>2. job.gen - 1 \in Nat
    OBVIOUS
  <2>3. \E a \in Plan(job.gen - 1) : a.pass \in {p, "synthesize", "verify"}
    BY <2>1, <2>2, AnchoredPlan DEF Inv, CohortInv, LineageInv
  <2> QED
    BY <2>1, <2>3
<1> HIDE DEF plan
<1>4. r.pc = "begin" /\ r.sent = {} /\ r.plan = plan
  BY DEF Fresh
<1>5. run' = [run EXCEPT ![g] = r] /\ run = [h \in Gens |-> run[h]]
  BY DEF Claim, Inv, Shapes, plan
<1> HIDE DEF r
<1>6. run'[g] = r
  BY <1>5
<1>7. \A h : Authority(h)' => h = g
  BY <1>1 DEF Authority
<1>8. \A a \in attempts : a.gen # g
  BY <1>1 DEF Inv, Queued, Unbegun
<1>9. Sourced(g)'
  BY <1>1, <1>2, <1>3, <1>4, <1>6, <1>8 DEF Sourced
<1>10. Lineage'
  BY <1>1 DEF LineageInv, Lineage
<1>11. Anchored'
  <2> SUFFICES ASSUME g > 0 PROVE Anchored'
    BY <1>1 DEF Anchored
  <2>1. PICK p \in Analysts : Anchor(p) /\ \E a \in plan : a.pass \in {p, "synthesize", "verify"}
    BY <1>3
  <2>2. Anchor(p)'
    BY <1>1, <2>1 DEF Anchor
  <2>3. \E q \in {p, "synthesize", "verify"} : Reuses(g, q)'
    BY <1>4, <1>6, <2>1 DEF Reuses
  <2> QED
    BY <1>1, <2>2, <2>3 DEF Anchored
<1> QED
  BY <1>7, <1>9, <1>10, <1>11 DEF LineageInv

\* A run works with the data of its whole lineage.
LEMMA OnePrint ==
    ASSUME Inv, CohortInv, LineageInv, NEW g \in Gens, Authority(g), run[g].pc \in Working
    PROVE  \A b \in attempts : b.print = run[g].print
<1>1. OneData(g) /\ Sourced(g) /\ job.gen = g
  BY DEF CohortInv, Equipped, LineageInv, Authority
<1>2. CASE g > 0
  <2>1. PICK a \in run[g].plan : a \in attempts
    BY <1>1, <1>2 DEF Sourced
  <2>2. a.print = run[g].print
    BY <1>1, <2>1 DEF OneData
  <2> QED
    BY <2>1, <2>2 DEF LineageInv, Lineage
<1>3. CASE g = 0
  <2>1. \A b \in attempts : b.gen = g
    BY <1>1, <1>3 DEF Inv, Shapes, Attempts
  <2> QED
    BY <1>1, <2>1 DEF OneData
<1> QED
  BY <1>2, <1>3

LEMMA ResultsAreThere ==
    ASSUME Inv, CohortInv, LineageInv, NEW g \in Gens, Authority(g), run[g].pc \in Working,
           NEW p \in Passes
    PROVE  Result(g, p) \subseteq attempts /\ \A a \in Result(g, p) : a.fate = "ok"
<1>1. run[g].plan \subseteq attempts
  BY DEF LineageInv, Sourced
<1>2. Result(g, p) \subseteq attempts
  BY <1>1 DEF Result, Of
<1> QED
  BY <1>2, Results

\* A launch of a side is of one without anything but failures, and is the latest.
LEMMA LaunchedLineage ==
    ASSUME Inv, CohortInv, LineageInv, NEW g \in Gens, NEW p \in Passes, NEW n \in Int,
           NEW inputs, Authority(g), Launch(g, p, n, inputs), run[g].pc \in Working,
           inputs \subseteq attempts, \A x \in inputs : x.fate = "ok",
           p \in Analysts =>
              /\ run[g].pc \in {"pair", "side"} /\ ~Reuses(g, p)
              /\ \A b \in attempts : b.gen = g /\ b.pass = p => b.fate = "failed"
              /\ \A m \in Sent(g, p) : m <= n
    PROVE  LineageInv'
<1> DEFINE a == Attempt(g, p, n, inputs)
<1>1. /\ attempts' = attempts \cup {a}
      /\ a.gen = g /\ a.pass = p /\ a.n = n /\ a.inputs = inputs /\ a.print = run[g].print
      /\ a.fate = "flight"
  BY DEF Launch, Attempt
<1> HIDE DEF a
<1>2. /\ job' = job /\ job.gen = g /\ run'[g].sent = run[g].sent \cup {<<p, n>>}
      /\ run'[g].plan = run[g].plan
  BY Launched DEF Authority
<1>3. Lineage'
  <2>1. \A c \in attempts' : Settled(c) => ~c.held /\ ~c.rows
    BY <1>1 DEF LineageInv, Lineage, Settled
  <2>2. \A c \in attempts' : c.inputs \subseteq attempts' /\ \A x \in c.inputs : x.fate = "ok"
    BY <1>1 DEF LineageInv, Lineage
  <2>3. \A c, d \in attempts' : c.print = d.print
    BY <1>1, OnePrint
  <2>4. \A c, d \in attempts' :
          /\ c.gen = d.gen /\ c.pass = d.pass /\ c.pass \in Analysts
          /\ c.fate # "failed" /\ d.fate # "failed"
          => c = d
    BY <1>1 DEF LineageInv, Lineage
  <2> QED
    BY <2>1, <2>2, <2>3, <2>4 DEF Lineage
<1>4. \A q : Reuses(g, q)' = Reuses(g, q)
  BY <1>2 DEF Reuses
<1>5. Sourced(g)'
  <2>1. Sourced(g)
    BY DEF LineageInv
  <2>2. \A q : q # p => Sent(g, q)' = Sent(g, q)
    BY <1>2 DEF Sent
  <2>3. Sent(g, p)' = Sent(g, p) \cup {n}
    <3>1. run'[g].sent = run[g].sent \cup {<<p, n>>}
      BY <1>2
    <3> QED
      BY <3>1, SentMore
  <2>4. ASSUME NEW c \in attempts', c.gen = g, c.pass \in Analysts, c.fate # "failed"
        PROVE  \A m \in Sent(g, c.pass)' : m <= c.n
    <3>1. CASE c = a
      BY <1>1, <2>3, <2>4, <3>1
    <3>2. CASE c \in attempts
      <4>1. c.pass # p
        BY <2>4, <3>2
      <4> QED
        BY <2>1, <2>2, <2>4, <3>2, <4>1 DEF Sourced
    <3> QED
      BY <1>1, <3>1, <3>2
  <2>5. \A c \in attempts' : c.gen = g => c.fate # "gone"
    BY <1>1, <2>1 DEF Sourced
  <2>6. run'[g].plan \subseteq attempts' /\ (g > 0 => run'[g].plan # {})
    BY <1>1, <1>2, <2>1 DEF Sourced
  <2> QED
    BY <2>4, <2>5, <2>6 DEF Sourced
<1>6. Anchored'
  <2> SUFFICES ASSUME g > 0 PROVE Anchored'
    BY <1>2 DEF Anchored
  <2>1. PICK s \in Analysts :
          Anchor(s) /\ \E q \in {s, "synthesize", "verify"} : Reuses(g, q)
    BY <1>2 DEF LineageInv, Anchored
  <2>2. p # s
    <3>1. p \in Analysts => ~Reuses(g, "synthesize") /\ ~Reuses(g, "verify") /\ ~Reuses(g, p)
      BY Unreused
    <3> QED
      BY <2>1, <3>1
  <2>3. Anchor(s)'
    BY <1>1, <2>1, <2>2 DEF Anchor
  <2> QED
    BY <1>2, <1>4, <2>1, <2>3 DEF Anchored
<1>7. \A h : Authority(h)' => h = g
  BY <1>2 DEF Authority
<1> QED
  BY <1>3, <1>5, <1>6, <1>7 DEF LineageInv

LEMMA LaunchPairLineage ==
    ASSUME Inv, CohortInv, LineageInv, NEW g \in Gens, LaunchBull(g) \/ LaunchBear(g)
    PROVE  LineageInv'
<1>1. Authority(g) /\ run[g].pc = "pair"
  BY DEF LaunchBull, LaunchBear, At
<1>2. PICK p \in Analysts : Sent(g, p) = {} /\ Launch(g, p, 0, {})
  BY DEF LaunchBull, LaunchBear
<1>3. \A b \in attempts : b.gen = g /\ b.fate # "failed" => <<b.pass, b.n>> \in run[g].sent
  BY <1>1 DEF Inv, Progress, Late
<1>4. \A b \in attempts : b.gen = g /\ b.pass = p => b.fate = "failed"
  BY <1>2, <1>3, Unsent
<1>5. ~Reuses(g, p)
  BY <1>1 DEF CohortInv, Equipped, Reusing, Reuses
<1> QED
  BY <1>1, <1>2, <1>4, <1>5, LaunchedLineage DEF Working

LEMMA LaunchSideLineage ==
    ASSUME Inv, CohortInv, LineageInv, NEW g \in Gens, LaunchSide(g)
    PROVE  LineageInv'
<1> DEFINE p == Side(g)
           n == NextTry(g, p)
<1>1. /\ Authority(g) /\ run[g].pc = "side" /\ MayTry(g, p) /\ Launch(g, p, n, {})
      /\ p \in Analysts /\ p \in Missing(g) /\ Pending(g) = {}
  BY SideIsMissing DEF LaunchSide, At
<1>2. n \in Int /\ \A m \in Sent(g, p) : m <= n
  BY <1>1, NextTryIsNew
<1> HIDE DEF n, p
<1>3. ~Reuses(g, p) /\ Result(g, p) = {}
  BY <1>1 DEF Missing, Result, Reuses
<1>4. ASSUME NEW b \in attempts, b.gen = g, b.pass = p, b.fate # "failed"
      PROVE  FALSE
  <2>1. b.fate # "gone" /\ \A m \in Sent(g, p) : m <= b.n
    BY <1>1, <1>4 DEF LineageInv, Sourced
  <2>2. b.fate # "flight"
    BY <1>1, <1>4 DEF Pending
  <2>3. b.fate = "ok"
    BY <1>4, <2>1, <2>2 DEF Inv, Shapes, Attempts
  <2>4. b \in Of(g, p)
    BY <1>4 DEF Of
  <2> QED
    BY <1>3, <2>1, <2>3, <2>4 DEF Result
<1> QED
  BY <1>1, <1>2, <1>3, <1>4, LaunchedLineage DEF Working

LEMMA LaunchLateLineage ==
    ASSUME Inv, CohortInv, LineageInv, NEW g \in Gens, LaunchJudge(g) \/ LaunchVerify(g)
    PROVE  LineageInv'
<1>1. Authority(g) /\ run[g].pc \in Working
  BY DEF LaunchJudge, LaunchVerify, At, Working
<1>2. run[g].tries \in Int
  BY <1>1 DEF CohortInv, Equipped, Numbered
<1>3. PICK p \in {"synthesize", "verify"}, inputs \in SUBSET attempts :
        Launch(g, p, run[g].tries, inputs) /\ \A x \in inputs : x.fate = "ok"
  <2>1. \A q \in Passes : Result(g, q) \subseteq attempts /\ \A a \in Result(g, q) : a.fate = "ok"
    BY <1>1, ResultsAreThere
  <2>2. CASE LaunchJudge(g)
    <3> DEFINE inputs == Result(g, "bull") \cup Result(g, "bear")
    <3>1. inputs \in SUBSET attempts /\ \A x \in inputs : x.fate = "ok"
      BY <2>1
    <3>2. Launch(g, "synthesize", run[g].tries, inputs)
      BY <2>2 DEF LaunchJudge
    <3> HIDE DEF inputs
    <3> QED
      BY <3>1, <3>2
  <2>3. CASE LaunchVerify(g)
    <3> DEFINE inputs == Result(g, "synthesize")
    <3>1. inputs \in SUBSET attempts /\ \A x \in inputs : x.fate = "ok"
      BY <2>1
    <3>2. Launch(g, "verify", run[g].tries, inputs)
      BY <2>3 DEF LaunchVerify
    <3> HIDE DEF inputs
    <3> QED
      BY <3>1, <3>2
  <2> QED
    BY <2>2, <2>3
<1> QED
  BY <1>1, <1>2, <1>3, LaunchedLineage

\* Steps of the run with authority that launch nothing.
LEMMA LineageGoes ==
    ASSUME Inv, LineageInv, NEW g \in Gens, Authority(g), UNCHANGED <<job, attempts>>,
           NEW pc, Goes(g, pc)
    PROVE  LineageInv'
<1> DEFINE r == [run[g] EXCEPT !.pc = pc]
<1>1. run' = [run EXCEPT ![g] = r] /\ r.plan = run[g].plan /\ r.sent = run[g].sent
  BY DEF Goes, Inv, Shapes, RunStates
<1> HIDE DEF r
<1> QED
  BY <1>1, LineageGoesOn

LEMMA JudgeAgainLineage ==
    ASSUME Inv, LineageInv, NEW g \in Gens, NEW s, Authority(g), JudgeAgain(g, s)
    PROVE  LineageInv'
<1> DEFINE r == [run[g] EXCEPT !.pc = "synth", !.tries = run[g].tries + 1]
<1>1. run' = [run EXCEPT ![g] = r] /\ UNCHANGED <<job, attempts>>
  BY DEF JudgeAgain, Inv, Shapes
<1>2. r.plan = run[g].plan /\ r.sent = run[g].sent
  BY DEF Inv, Shapes, RunStates
<1> HIDE DEF r
<1> QED
  BY <1>1, <1>2, LineageGoesOn

LEMMA GroundedLineage ==
    ASSUME Inv, LineageInv, NEW g \in Gens, Grounded(g)
    PROVE  LineageInv'
<1>1. PICK print : run' = [run EXCEPT ![g].print = print, ![g].pc = Begins(g)]
  BY DEF Grounded
<1> DEFINE r == [run[g] EXCEPT !.print = print, !.pc = Begins(g)]
<1>2. run' = [run EXCEPT ![g] = r] /\ r.plan = run[g].plan /\ r.sent = run[g].sent
  BY <1>1 DEF Inv, Shapes, RunStates
<1>3. Authority(g) /\ UNCHANGED <<job, attempts>>
  BY DEF Grounded, At
<1> HIDE DEF r
<1> QED
  BY <1>2, <1>3, LineageGoesOn

\* A run that stops, or a job that ends, takes nothing from the lineage.
LEMMA PersistLineage ==
    ASSUME Inv, LineageInv, NEW g \in Gens, NEW full, NEW synth, NEW verify, NEW s,
           Persist(g, full, synth, verify, s), attempts' = attempts
    PROVE  LineageInv'
BY LineageEnded DEF Persist

LEMMA DegradeLineage ==
    ASSUME Inv, LineageInv, NEW g \in Gens, NEW s, Degrade(g, s)
    PROVE  LineageInv'
BY PersistLineage DEF Degrade, DataOnly

LEMMA StopsLineage ==
    ASSUME Inv, LineageInv, NEW g \in Gens,
           \/ Cancel \/ Reconcile \/ ClaimLinked \/ AbortRun(g) \/ FetchFails(g) \/ Mismatched(g)
           \/ Unsupported(g) \/ Ungrounded(g) \/ RecoverVerified(g) \/ PublishReport(g)
           \/ PairRefused(g) \/ SideFails(g) \/ FinalInvalid(g) \/ JudgeExhausted(g)
    PROVE  LineageInv'
<1>1. CASE Cancel \/ Reconcile \/ ClaimLinked \/ AbortRun(g) \/ FetchFails(g) \/ Mismatched(g)
  <2>1. \E status \in {"done", "error", "unsupported"} : job' = Ended(status)
    BY <1>1 DEF Cancel, Reconcile, ClaimLinked, AbortRun, FetchFails, Mismatched
  <2>2. attempts' = attempts
    BY <1>1 DEF Cancel, Reconcile, ClaimLinked, AbortRun, FetchFails, Mismatched
  <2> QED
    BY <2>1, <2>2, LineageEnded
<1>2. CASE Unsupported(g)
  BY <1>2, LineageEnded DEF Unsupported
<1>3. CASE Ungrounded(g) \/ RecoverVerified(g) \/ PublishReport(g)
  BY <1>3, PersistLineage DEF Ungrounded, DataOnly, RecoverVerified, PublishReport
<1>4. CASE PairRefused(g) \/ SideFails(g) \/ FinalInvalid(g) \/ JudgeExhausted(g)
  <2>1. \E s : Degrade(g, s)
    BY <1>4, Zenon DEF PairRefused, SideFails, FinalInvalid, JudgeExhausted
  <2> QED
    BY <2>1, DegradeLineage
<1> QED
  BY <1>1, <1>2, <1>3, <1>4

LEMMA SupersededLineage ==
    ASSUME Inv, LineageInv, NEW g \in Gens, Superseded(g)
    PROVE  LineageInv'
<1>1. run'[g].pc = "over" /\ \A h \in Gens \ {g} : run'[h] = run[h]
  BY ReturnsShape DEF Superseded, Inv
<1>2. \A h \in Gens : Authority(h)' => Onward(h)
  BY <1>1 DEF Superseded, Authority, Alive, Onward
<1> QED
  BY <1>2, LineageKept DEF Superseded

LEMMA PairReturnsLineage ==
    ASSUME Inv, LineageInv, NEW g \in Gens, PairReturns(g)
    PROVE  LineageInv'
<1>1. Authority(g)
  BY DEF PairReturns, At
<1>2. \/ \E pc : Goes(g, pc) /\ UNCHANGED <<job, attempts>>
      \/ Degrade(g, steps)
  BY DEF PairReturns
<1> QED
  BY <1>1, <1>2, LineageGoes, DegradeLineage

LEMMA JudgeLineage ==
    ASSUME Inv, LineageInv, NEW g \in Gens,
           JudgeRefused(g) \/ JudgeReturns(g) \/ AssemblyFails(g)
    PROVE  LineageInv'
<1>1. Authority(g)
  BY DEF JudgeRefused, JudgeReturns, AssemblyFails, At
<1>2. \/ \E pc : Goes(g, pc) /\ UNCHANGED <<job, attempts>>
      \/ \E s : JudgeAgain(g, s)
      \/ JudgeExhausted(g)
  BY Zenon DEF JudgeRefused, JudgeReturns, AssemblyFails
<1> QED
  BY <1>1, <1>2, LineageGoes, JudgeAgainLineage, StopsLineage

LEMMA GoesLineage ==
    ASSUME Inv, LineageInv, NEW g \in Gens,
           StartFetch(g) \/ SidesDone(g) \/ VerifyRefused(g) \/ VerifyReturns(g)
    PROVE  LineageInv'
<1>1. Authority(g)
  BY DEF StartFetch, SidesDone, VerifyRefused, VerifyReturns, At
<1>2. \E pc : Goes(g, pc) /\ UNCHANGED <<job, attempts>>
  BY DEF StartFetch, SidesDone, VerifyRefused, VerifyReturns
<1> QED
  BY <1>1, <1>2, LineageGoes

LEMMA LineageInit == Init => LineageInv
BY DEF Init, LineageInv, Lineage, Anchored, Authority

LEMMA LineageStep == Inv /\ CohortInv /\ LineageInv /\ [Next]_vars => LineageInv'
<1> SUFFICES ASSUME Inv, CohortInv, LineageInv, [Next]_vars PROVE LineageInv'
  OBVIOUS
<1>1. CASE Retry \/ Cancel \/ ClaimOrEnd \/ Reconcile \/ LapseLease
  <2>1. CASE Cancel \/ Reconcile \/ ClaimLinked
    <3>1. 0 \in Gens
      OBVIOUS
    <3> QED
      BY <2>1, <3>1, StopsLineage
  <2>2. CASE LapseLease
    <3>1. ~job'.live /\ job'.gen = job.gen /\ attempts' = attempts
      BY <2>2 DEF LapseLease, Inv, Shapes, Rows
    <3> QED
      BY <3>1, LineageUnowned
  <2> QED
    BY <1>1, <2>1, <2>2, RetryLineage, ClaimLineage DEF ClaimOrEnd
<1>2. ASSUME NEW g \in Gens, Works(g)
      PROVE  LineageInv'
  <2>1. CASE \/ RecoverVerified(g) \/ StartFetch(g) \/ FetchFails(g) \/ Unsupported(g)
             \/ Ungrounded(g) \/ Mismatched(g) \/ Grounded(g)
    BY <2>1, StopsLineage, GoesLineage, GroundedLineage
  <2>2. CASE \/ LaunchBull(g) \/ LaunchBear(g) \/ PairRefused(g) \/ PairReturns(g)
             \/ LaunchSide(g) \/ SideFails(g) \/ SidesDone(g)
    BY <2>2, LaunchPairLineage, StopsLineage, PairReturnsLineage, LaunchSideLineage, GoesLineage
  <2>3. CASE \/ LaunchJudge(g) \/ JudgeRefused(g) \/ JudgeReturns(g)
             \/ LaunchVerify(g) \/ VerifyRefused(g) \/ VerifyReturns(g)
             \/ PublishReport(g) \/ AssemblyFails(g) \/ FinalInvalid(g)
    BY <2>3, LaunchLateLineage, JudgeLineage, GoesLineage, StopsLineage
  <2> QED
    BY <1>2, <2>1, <2>2, <2>3 DEF Works
<1>3. ASSUME NEW g \in Gens, AbortRun(g) \/ Superseded(g) \/ Crash(g) \/ ExpirePaid(g)
      PROVE  LineageInv'
  BY <1>3, StopsLineage, SupersededLineage, CrashLineage, ExpirePaidLineage
<1>4. CASE PassSettles
  BY <1>4, SucceedsLineage, FailsLineage DEF PassSettles
<1>5. CASE UNCHANGED vars
  <2>1. \A g \in Gens : Authority(g)' => Onward(g)
    BY <1>5 DEF vars, Authority, Alive, Onward
  <2> QED
    BY <1>5, <2>1, LineageKept DEF vars
<1> QED
  BY <1>1, <1>2, <1>3, <1>4, <1>5 DEF Next

LEMMA LineageInvariant == Spec => []LineageInv
<1>1. Init => LineageInv
  BY LineageInit
<1> QED
  BY <1>1, Invariant, CohortInvariant, LineageStep, PTL DEF Spec

\* A retry that was accepted has something to start from when it is claimed, and
\* does not end for the want of a plan: no late settlement and no expiry of a lease
\* takes the one side away that every plan of its lineage can fall back to.
THEOREM RetryHasPlan == Spec => []AcceptedRetryHasPlan
<1>1. Inv /\ CohortInv /\ LineageInv => AcceptedRetryHasPlan
  <2> SUFFICES ASSUME Inv, CohortInv, LineageInv, job.gen > 0
               PROVE  Plan(job.gen - 1) # {}
    BY DEF AcceptedRetryHasPlan
  <2>1. PICK p \in Analysts : Anchor(p)
    BY DEF LineageInv, Anchored
  <2>2. job.gen - 1 \in Nat
    BY DEF Inv, Shapes, Rows
  <2> QED
    BY <2>1, <2>2, AnchoredPlan DEF Inv, CohortInv, LineageInv
<1> QED
  BY <1>1, Invariant, CohortInvariant, LineageInvariant, PTL
===============================================================================
