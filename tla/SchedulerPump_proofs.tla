------------------------- MODULE SchedulerPump_proofs -------------------------
(***************************************************************************)
(* Proofs about SchedulerPump, for every number of processes, jobs,        *)
(* generations, crashes and faults: the rows keep their shape, a row that  *)
(* needs attention is never left without a process that will look, and the *)
(* cleanup of a failed claim ends no other run.                            *)
(*                                                                         *)
(* Attended is inductive with TypeOK alone: a process stops being one that *)
(* will look only by going idle, and then it reads the rows after its last *)
(* change to them (EndPump) or arms a timer blindly (RetryPump); what      *)
(* makes a new row outstanding is done by a process that looks.            *)
(***************************************************************************)
EXTENDS SchedulerPump, TLAPS

\* What requestPump does to a pump keeps its type and leaves it scheduled or busy.
LEMMA RequestedWillRun ==
    ASSUME NEW s \in Pump
    PROVE  /\ Requested(s) \in Pump
           /\ Requested(s).scheduled \/ Requested(s).phase # "idle"
  BY DEF Requested, Pump

\* The finally block leaves a pump that is scheduled, busy or idle with the timer
\* it was told to arm.
LEMMA IdledWillWake ==
    ASSUME NEW s \in Pump, NEW wake \in BOOLEAN
    PROVE  /\ Idled(s, wake) \in Pump
           /\ \/ Idled(s, wake).scheduled \/ Idled(s, wake).phase # "idle"
              \/ Idled(s, wake).wake = wake
<1> DEFINE idle == [s EXCEPT !.phase = "idle"]
<1>1. idle \in Pump
  BY DEF Pump
<1>2. CASE s.dirty
  BY <1>1, <1>2, RequestedWillRun DEF Idled
<1>3. CASE ~s.dirty
  BY <1>3 DEF Idled, Pump
<1> QED
  BY <1>2, <1>3

Row == [status : {"absent", "queued", "running", "terminal"}, gen : Gens,
        owner : Procs \cup {None}, lapsed : BOOLEAN]

Fits(r) ==
    /\ r \in Row
    /\ r.status = "running" <=> r.owner # None
    /\ r.lapsed => r.status = "running"

\* A job that ends has no owner and no lease.
LEMMA TerminalFits ==
    ASSUME NEW r \in Row
    PROVE  Fits(Terminal(r))
  BY DEF Terminal, Fits, Row

\* The sweep of expired claims and paid leases keeps the shape of both tables.
LEMMA SweptFits ==
    ASSUME TypeOK
    PROVE  /\ SweptRow \in [Jobs -> Row]
           /\ \A j \in Jobs : Fits(SweptRow[j])
           /\ SweptPaid \in [Jobs -> [Gens -> {"none", "live", "expired"}]]
<1>1. \A j \in Jobs : Fits(row[j])
  BY DEF TypeOK, Fits, Row
<1>2. \A j \in Jobs : Fits(SweptRow[j])
  BY <1>1, TerminalFits DEF SweptRow, Fits
<1> QED
  BY <1>2 DEF TypeOK, SweptRow, SweptPaid, Fits

\* The state of a pump that will start, or is at work.
Busy(s) == s.scheduled \/ s.phase # "idle"

\* A request leaves the pump of p busy and the others alone.
LEMMA RequestPumpBusies ==
    ASSUME TypeOK, NEW p \in Procs, RequestPump(p)
    PROVE  /\ pump' \in [Procs -> Pump]
           /\ Busy(pump'[p])
           /\ \A q \in Procs \ {p} : pump'[q] = pump[q]
<1>1. pump[p] \in Pump
  BY DEF TypeOK
<1>2. Requested(pump[p]) \in Pump /\ Busy(Requested(pump[p]))
  BY <1>1, RequestedWillRun DEF Busy
<1> QED
  BY <1>2 DEF TypeOK, RequestPump

-------------------------------------------------------------------------------
(* Types.                                                                  *)

RowsOK ==
    /\ row \in [Jobs -> Row]
    /\ \A j \in Jobs : Fits(row[j])
    /\ paid \in [Jobs -> [Gens -> {"none", "live", "expired"}]]

ProcsOK ==
    /\ up \subseteq Procs
    /\ pump \in [Procs -> Pump]
    /\ runs \subseteq Runs
    /\ failed \subseteq Runs
    /\ crashes \in Nat /\ faults \in Nat

LEMMA TypeSplits ==
    /\ TypeOK <=> RowsOK /\ ProcsOK
    /\ TypeOK' <=> RowsOK' /\ ProcsOK'
  BY DEF TypeOK, RowsOK, ProcsOK, Fits, Row

\* What the sweep commits fits, and so does ending one job on top of it.
LEMMA SweepType ==
    ASSUME TypeOK, row' = SweptRow, paid' = SweptPaid
    PROVE  RowsOK'
  BY SweptFits DEF RowsOK, Fits

\* Ending one job fits.
LEMMA EndType ==
    ASSUME TypeOK, NEW j \in Jobs, row' = [row EXCEPT ![j] = Terminal(@)], paid' = paid
    PROVE  RowsOK'
<1>1. Fits(Terminal(row[j]))
  BY TerminalFits DEF TypeOK, Row
<1> QED
  BY <1>1, TypeSplits DEF RowsOK, Fits

LEMMA InitType == Init => TypeOK
<1> SUFFICES ASSUME Init PROVE TypeOK
  OBVIOUS
<1>0. 0 \in Gens
  BY PumpAssumption DEF Gens
<1>1. RowsOK
  BY <1>0 DEF Init, RowsOK, Row, Fits
<1>2. ProcsOK
  BY DEF Init, ProcsOK, Fresh, Pump
<1> QED
  BY <1>1, <1>2, TypeSplits

\* The steps of the pump that leave the rows alone.
LEMMA PumpOnlyType ==
    ASSUME TypeOK, NEW p \in Procs,
           StartPump(p) \/ BeginClaims(p) \/ EndPump(p) \/ RetryPump(p) \/ PumpFault(p)
    PROVE  TypeOK'
<1>0. RowsOK /\ ProcsOK /\ pump[p] \in Pump /\ DurableWake \in BOOLEAN
  BY TypeSplits DEF ProcsOK, DurableWake
<1>1. CASE StartPump(p)
  <2>1. [pump[p] EXCEPT !.scheduled = FALSE, !.dirty = FALSE, !.phase = "failed"] \in Pump
    BY <1>0 DEF Pump
  <2> QED
    BY <1>0, <1>1, <2>1, TypeSplits DEF StartPump, RowsOK, ProcsOK
<1>2. CASE BeginClaims(p)
  <2>1. [pump[p] EXCEPT !.phase = "claiming"] \in Pump
    BY <1>0 DEF Pump
  <2> QED
    BY <1>0, <1>2, <2>1, TypeSplits DEF BeginClaims, RowsOK, ProcsOK
<1>3. CASE EndPump(p)
  <2>1. Idled(pump[p], DurableWake) \in Pump
    BY <1>0, IdledWillWake
  <2> QED
    BY <1>0, <1>3, <2>1, TypeSplits DEF EndPump, RowsOK, ProcsOK
<1>4. CASE RetryPump(p)
  <2>1. Idled(pump[p], FALSE) \in Pump
    BY <1>0, IdledWillWake
  <2>2. [Idled(pump[p], FALSE) EXCEPT !.wake = TRUE] \in Pump
    BY <2>1 DEF Pump
  <2> QED
    BY <1>0, <1>4, <2>2, TypeSplits DEF RetryPump, RowsOK, ProcsOK
<1>5. CASE PumpFault(p)
  <2>1. [pump[p] EXCEPT !.phase = "threw"] \in Pump
    BY <1>0 DEF Pump
  <2> QED
    BY <1>0, <1>5, <2>1, TypeSplits DEF PumpFault, RowsOK, ProcsOK
<1> QED
  BY <1>1, <1>2, <1>3, <1>4, <1>5

\* The transactions of the pump.
LEMMA ClaimType ==
    ASSUME TypeOK, NEW p \in Procs,
           \/ TerminalizeFailed(p) \/ NothingClaimed(p)
           \/ \E j \in Jobs : ClaimJob(p, j) \/ EndQueuedRetry(p, j)
    PROVE  TypeOK'
<1>0. RowsOK /\ ProcsOK /\ pump[p] \in Pump
  BY TypeSplits DEF ProcsOK
<1>1. CASE TerminalizeFailed(p)
  <2>1. PICK r \in failed : EndsFailedClaim(p, r)
    BY <1>1 DEF TerminalizeFailed
  <2>2. r.job \in Jobs
    BY <1>0, <2>1 DEF ProcsOK, Runs
  <2>3. CASE Owned(r)
    <3>1. row' = [row EXCEPT ![r.job] = Terminal(@)] /\ paid' = paid
      BY <1>1, <2>1, <2>3 DEF TerminalizeFailed, EndsFailedClaim
    <3> QED
      BY <1>0, <1>1, <2>1, <2>2, <3>1, EndType, TypeSplits
         DEF TerminalizeFailed, EndsFailedClaim, ProcsOK
  <2>4. CASE ~Owned(r)
    BY <1>0, <1>1, <2>1, <2>4, TypeSplits
       DEF TerminalizeFailed, EndsFailedClaim, RowsOK, ProcsOK
  <2> QED
    BY <2>3, <2>4
<1>2. CASE NothingClaimed(p)
  <2>1. [pump[p] EXCEPT !.phase = "ending"] \in Pump
    BY <1>0 DEF Pump
  <2>2. RowsOK'
    BY <1>2, SweepType DEF NothingClaimed
  <2> QED
    BY <1>0, <1>2, <2>1, <2>2, TypeSplits DEF NothingClaimed, ProcsOK
<1>3. ASSUME NEW j \in Jobs, ClaimJob(p, j)
      PROVE  TypeOK'
  <2>1. [SweptRow[j] EXCEPT !.status = "running", !.owner = p] \in Row
    BY SweptFits DEF Row
  <2>2. Fits([SweptRow[j] EXCEPT !.status = "running", !.owner = p])
    BY <2>1, SweptFits, PumpAssumption DEF Fits, Row
  <2>3. RowsOK'
    BY <1>3, <2>2, SweptFits DEF ClaimJob, RowsOK, Fits
  <2>4. [proc |-> p, job |-> j, gen |-> row[j].gen] \in Runs
    BY <1>0 DEF RowsOK, Row, Runs
  <2> QED
    BY <1>0, <1>3, <2>3, <2>4, TypeSplits DEF ClaimJob, ProcsOK
<1>4. ASSUME NEW j \in Jobs, EndQueuedRetry(p, j)
      PROVE  TypeOK'
  <2>1. Fits(Terminal(SweptRow[j]))
    BY SweptFits, TerminalFits
  <2>2. RowsOK'
    BY <1>4, <2>1, SweptFits DEF EndQueuedRetry, RowsOK, Fits
  <2> QED
    BY <1>0, <1>4, <2>2, TypeSplits DEF EndQueuedRetry, ProcsOK
<1> QED
  BY <1>1, <1>2, <1>3, <1>4

\* The steps of runs.
LEMMA RunType ==
    ASSUME TypeOK, NEW r \in Runs, RunStep(r) \/ TakePaid(r) \/ GiveBackPaid(r)
    PROVE  TypeOK'
<1>0. RowsOK /\ ProcsOK /\ r.proc \in Procs /\ r.job \in Jobs /\ r.gen \in Gens
  BY TypeSplits DEF Runs
<1>1. CASE FinishRun(r)
  <2>1. RowsOK'
    BY <1>0, <1>1, EndType DEF FinishRun
  <2> QED
    BY <1>0, <1>1, <2>1, TypeSplits DEF FinishRun, ProcsOK
<1>2. CASE RunResolves(r)
  <2>1. pump' \in [Procs -> Pump]
    BY <1>0, <1>2, RequestPumpBusies DEF RunResolves
  <2> QED
    BY <1>0, <1>2, <2>1, TypeSplits DEF RunResolves, RowsOK, ProcsOK
<1>3. CASE RunRejects(r)
  <2>1. pump' \in [Procs -> Pump]
    BY <1>0, <1>3, RequestPumpBusies DEF RunRejects
  <2> QED
    BY <1>0, <1>3, <2>1, TypeSplits DEF RunRejects, RowsOK, ProcsOK
<1>4. CASE TakePaid(r)
  BY <1>0, <1>4, TypeSplits DEF TakePaid, RowsOK, ProcsOK
<1>5. CASE GiveBackPaid(r)
  <2>1. pump' \in [Procs -> Pump]
    BY <1>0, <1>5, RequestPumpBusies DEF GiveBackPaid
  <2> QED
    BY <1>0, <1>5, <2>1, TypeSplits DEF GiveBackPaid, RowsOK, ProcsOK
<1> QED
  BY <1>1, <1>2, <1>3, <1>4, <1>5 DEF RunStep

\* Routes, timers, boots and crashes of one process.
LEMMA ProcessType ==
    ASSUME TypeOK, NEW p \in Procs, WakeFires(p) \/ Route(p) \/ Crash(p) \/ Boot(p)
    PROVE  TypeOK'
<1>0. RowsOK /\ ProcsOK
  BY TypeSplits
<1>1. CASE WakeFires(p)
  <2>1. pump' \in [Procs -> Pump]
    BY <1>1, RequestPumpBusies DEF WakeFires
  <2> QED
    BY <1>0, <1>1, <2>1, TypeSplits DEF WakeFires, RowsOK, ProcsOK
<1>2. CASE ReconcileOnly(p)
  <2>1. RowsOK'
    BY <1>2, SweepType DEF ReconcileOnly
  <2> QED
    BY <1>0, <1>2, <2>1, TypeSplits DEF ReconcileOnly, ProcsOK
<1>3. ASSUME NEW j \in Jobs, EnqueueJob(p, j)
      PROVE  TypeOK'
  <2>1. pump' \in [Procs -> Pump]
    BY <1>3, RequestPumpBusies DEF EnqueueJob
  <2>2. SweptRow[j] = row[j] /\ Fits([row[j] EXCEPT !.status = "queued"])
    BY <1>0, <1>3 DEF EnqueueJob, RowsOK, Fits, Row, SweptRow
  <2>3. Fits([SweptRow[j] EXCEPT !.status = "queued"])
    BY <2>2
  <2>4. RowsOK'
    BY <1>3, <2>3, SweptFits DEF EnqueueJob, RowsOK, Fits
  <2> QED
    BY <1>0, <1>3, <2>1, <2>4, TypeSplits DEF EnqueueJob, ProcsOK
<1>4. ASSUME NEW j \in Jobs, ReuseActiveJob(p, j)
      PROVE  TypeOK'
  <2>1. pump' \in [Procs -> Pump]
    BY <1>4, RequestPumpBusies DEF ReuseActiveJob
  <2>2. RowsOK'
    BY <1>4, SweepType DEF ReuseActiveJob
  <2> QED
    BY <1>0, <1>4, <2>1, <2>2, TypeSplits DEF ReuseActiveJob, ProcsOK
<1>5. ASSUME NEW j \in Jobs, RetryJob(p, j)
      PROVE  TypeOK'
  <2>1. pump' \in [Procs -> Pump]
    BY <1>5, RequestPumpBusies DEF RetryJob
  <2>2. row[j].gen + 1 \in Gens
    BY <1>0, <1>5, PumpAssumption DEF RetryJob, RowsOK, Row, Gens
  <2>3. Fits([row[j] EXCEPT !.status = "queued", !.gen = @ + 1])
    BY <1>0, <1>5, <2>2 DEF RetryJob, RowsOK, Fits, Row
  <2>4. RowsOK'
    BY <1>0, <1>5, <2>3 DEF RetryJob, RowsOK, Fits
  <2> QED
    BY <1>0, <1>5, <2>1, <2>4, TypeSplits DEF RetryJob, ProcsOK
<1>6. ASSUME NEW j \in Jobs, CancelJob(p, j)
      PROVE  TypeOK'
  <2>1. pump' \in [Procs -> Pump]
    BY <1>6, RequestPumpBusies DEF CancelJob
  <2>2. RowsOK'
    BY <1>6, EndType DEF CancelJob
  <2> QED
    BY <1>0, <1>6, <2>1, <2>2, TypeSplits DEF CancelJob, ProcsOK
<1>7. CASE Crash(p)
  <2>1. Fresh \in Pump
    BY DEF Fresh, Pump
  <2> QED
    BY <1>0, <1>7, <2>1, TypeSplits DEF Crash, RowsOK, ProcsOK
<1>8. CASE Boot(p)
  <2>1. pump' \in [Procs -> Pump]
    BY <1>8, RequestPumpBusies DEF Boot
  <2> QED
    BY <1>0, <1>8, <2>1, TypeSplits DEF Boot, RowsOK, ProcsOK
<1> QED
  BY <1>1, <1>2, <1>3, <1>4, <1>5, <1>6, <1>7, <1>8 DEF Route

\* The clock.
LEMMA LapseType ==
    ASSUME TypeOK, NEW j \in Jobs,
           ClaimLapses(j) \/ \E g \in Gens : PaidLapses(j, g)
    PROVE  TypeOK'
<1>0. RowsOK /\ ProcsOK
  BY TypeSplits
<1>1. CASE ClaimLapses(j)
  <2>1. Fits([row[j] EXCEPT !.lapsed = TRUE])
    BY <1>0, <1>1 DEF ClaimLapses, RowsOK, Fits, Row
  <2> QED
    BY <1>0, <1>1, <2>1, TypeSplits DEF ClaimLapses, RowsOK, ProcsOK, Fits
<1>2. CASE \E g \in Gens : PaidLapses(j, g)
  BY <1>0, <1>2, TypeSplits DEF PaidLapses, RowsOK, ProcsOK
<1> QED
  BY <1>1, <1>2

LEMMA NextType == TypeOK /\ [Next]_vars => TypeOK'
<1> SUFFICES ASSUME TypeOK, [Next]_vars PROVE TypeOK'
  OBVIOUS
<1>1. ASSUME NEW p \in Procs,
             PumpStep(p) \/ PumpFault(p) \/ WakeFires(p) \/ Route(p) \/ Crash(p) \/ Boot(p)
      PROVE  TypeOK'
  BY <1>1, PumpOnlyType, ClaimType, ProcessType DEF PumpStep
<1>2. CASE \E r \in Runs : RunStep(r) \/ TakePaid(r) \/ GiveBackPaid(r)
  BY <1>2, RunType
<1>3. CASE \E j \in Jobs : ClaimLapses(j) \/ \E g \in Gens : PaidLapses(j, g)
  BY <1>3, LapseType
<1>4. CASE UNCHANGED vars
  BY <1>4, TypeSplits DEF vars, RowsOK, ProcsOK
<1> QED
  BY <1>1, <1>2, <1>3, <1>4 DEF Next

\* Type correctness of the pump, and of the lease columns it fences on.
THEOREM TypeCorrect == Spec => []TypeOK
  BY InitType, NextType, PTL DEF Spec

-------------------------------------------------------------------------------
(* No row is stranded.                                                     *)

\* A pump at work, or about to be, settles the matter for every row.
LEMMA BusyAttends ==
    ASSUME NEW p \in Procs, Busy(pump'[p])
    PROVE  Attended'
  BY DEF Busy, Attended, WillLook

\* Rows that need nothing new, and nobody who looks stops looking.
LEMMA QuietAttends ==
    ASSUME Attended, UNCHANGED <<up, pump, runs>>,
           \A j \in Jobs : Outstanding(j)' => Outstanding(j)
    PROVE  Attended'
  BY DEF Attended, WillLook

\* The pump's own steps: only EndPump and RetryPump can go idle.
LEMMA PumpStepAttends ==
    ASSUME TypeOK, NEW p \in Procs, PumpStep(p) \/ PumpFault(p)
    PROVE  Attended'
<1>0. pump \in [Procs -> Pump] /\ pump[p] \in Pump
  BY DEF TypeOK
<1>1. CASE StartPump(p) \/ BeginClaims(p) \/ NothingClaimed(p) \/ PumpFault(p)
  <2>1. pump'[p].phase # "idle"
    BY <1>0, <1>1 DEF StartPump, BeginClaims, NothingClaimed, PumpFault, Pump
  <2> QED
    BY <2>1, BusyAttends DEF Busy
<1>2. CASE TerminalizeFailed(p) \/ \E j \in Jobs : ClaimJob(p, j) \/ EndQueuedRetry(p, j)
  <2>1. pump'[p].phase # "idle"
    BY <1>0, <1>2 DEF TerminalizeFailed, ClaimJob, EndQueuedRetry
  <2> QED
    BY <2>1, BusyAttends DEF Busy
<1>3. CASE EndPump(p)
  <2>1. DurableWake \in BOOLEAN
    BY DEF DurableWake
  <2>2. pump'[p] = Idled(pump[p], DurableWake)
    BY <1>0, <1>3 DEF EndPump
  <2>3. Busy(pump'[p]) \/ pump'[p].wake = DurableWake
    BY <1>0, <2>1, <2>2, IdledWillWake DEF Busy
  <2>4. CASE DurableWake /\ pump'[p].wake = DurableWake
    BY <2>4 DEF Attended, WillLook
  <2>5. CASE ~DurableWake
    BY <1>3, <2>5 DEF EndPump, DurableWake, Attended, Outstanding
  <2> QED
    BY <2>3, <2>4, <2>5, BusyAttends
<1>4. CASE RetryPump(p)
  <2>1. Idled(pump[p], FALSE) \in Pump
    BY <1>0, IdledWillWake
  <2>2. pump'[p].wake = TRUE
    BY <1>0, <1>4, <2>1 DEF RetryPump, Pump
  <2> QED
    BY <2>2 DEF Attended, WillLook
<1> QED
  BY <1>1, <1>2, <1>3, <1>4 DEF PumpStep

\* Everything else a process does asks its pump to look, or keeps the run.
LEMMA ProcessAttends ==
    ASSUME TypeOK, Attended, NEW p \in Procs,
           WakeFires(p) \/ Route(p) \/ Crash(p) \/ Boot(p)
    PROVE  Attended'
<1>1. CASE ReconcileOnly(p)
  <2>1. \A j \in Jobs : Outstanding(j)' => Outstanding(j)
    BY <1>1 DEF ReconcileOnly, Outstanding, SweptRow, SweptPaid, Terminal, TypeOK
  <2> QED
    BY <1>1, <2>1, QuietAttends DEF ReconcileOnly
<1>2. CASE Crash(p)
  BY <1>2 DEF Crash, Attended, WillLook
<1>3. CASE RequestPump(p)
  BY <1>3, RequestPumpBusies, BusyAttends
<1> QED
  BY <1>1, <1>2, <1>3 DEF WakeFires, Route, Boot, EnqueueJob, ReuseActiveJob, RetryJob, CancelJob

LEMMA RunAttends ==
    ASSUME TypeOK, NEW r \in Runs, RunStep(r) \/ TakePaid(r) \/ GiveBackPaid(r)
    PROVE  Attended'
<1>0. r.proc \in Procs
  BY DEF Runs
<1>1. CASE FinishRun(r) \/ TakePaid(r)
  <2>1. r \in runs'
    BY <1>1 DEF FinishRun, TakePaid, Executing
  <2> QED
    BY <1>0, <2>1 DEF Attended, WillLook
<1>2. CASE RequestPump(r.proc)
  BY <1>0, <1>2, RequestPumpBusies, BusyAttends
<1> QED
  BY <1>1, <1>2 DEF RunStep, RunResolves, RunRejects, GiveBackPaid

LEMMA LapseAttends ==
    ASSUME TypeOK, Attended, NEW k \in Jobs,
           ClaimLapses(k) \/ \E g \in Gens : PaidLapses(k, g)
    PROVE  Attended'
<1>1. \A j \in Jobs : Outstanding(j)' => Outstanding(j)
  BY DEF ClaimLapses, PaidLapses, Outstanding, TypeOK
<1>2. UNCHANGED <<up, pump, runs>>
  BY DEF ClaimLapses, PaidLapses
<1> QED
  BY <1>1, <1>2, QuietAttends

LEMMA InitAttended == Init => Attended
  BY DEF Init, Attended, Outstanding

LEMMA NextAttends == TypeOK /\ Attended /\ [Next]_vars => Attended'
<1> SUFFICES ASSUME TypeOK, Attended, [Next]_vars PROVE Attended'
  OBVIOUS
<1>1. CASE \E p \in Procs : \/ PumpStep(p) \/ PumpFault(p) \/ WakeFires(p)
                           \/ Route(p) \/ Crash(p) \/ Boot(p)
  BY <1>1, PumpStepAttends, ProcessAttends
<1>2. CASE \E r \in Runs : RunStep(r) \/ TakePaid(r) \/ GiveBackPaid(r)
  BY <1>2, RunAttends
<1>3. CASE \E j \in Jobs : ClaimLapses(j) \/ \E g \in Gens : PaidLapses(j, g)
  BY <1>3, LapseAttends
<1>4. CASE UNCHANGED vars
  BY <1>4 DEF vars, Attended, WillLook, Outstanding
<1> QED
  BY <1>1, <1>2, <1>3, <1>4 DEF Next

\* A queued or running job, and a paid lease that nobody gave back, always have
\* a process that will look at them again without being asked from outside.
THEOREM NothingStranded == Spec => []Attended
  BY InitType, NextType, InitAttended, NextAttends, PTL DEF Spec

-------------------------------------------------------------------------------
(* A claim whose execution failed ends no other run.                       *)

\* A failed claim is not a pending one, and a pump that claims has none of its own
\* left: it cleaned them up before its first claim, and no run rejects meanwhile.
FailuresApart ==
    /\ runs \cap failed = {}
    /\ \A p \in Procs, r \in failed : pump[p].phase = "claiming" => r.proc # p

\* The pump of another process is not touched.
LEMMA OthersApart ==
    ASSUME TypeOK, FailuresApart, NEW p \in Procs, runs' \cap failed' = {},
           \A q \in Procs \ {p} : pump'[q] = pump[q],
           \A r \in failed' : r.proc # p => r \in failed,
           pump'[p].phase = "claiming" => \A r \in failed' : r.proc # p
    PROVE  FailuresApart'
  BY DEF FailuresApart

\* A request for the pump that comes while it does not claim leaves it so.
LEMMA RequestKeepsPhase ==
    ASSUME TypeOK, NEW p \in Procs, RequestPump(p)
    PROVE  pump'[p].phase = pump[p].phase
<1>1. pump[p] \in Pump /\ pump'[p] = Requested(pump[p])
  BY DEF TypeOK, RequestPump
<1> QED
  BY <1>1 DEF Requested, Pump

LEMMA PumpStepApart ==
    ASSUME TypeOK, FailuresApart, NEW p \in Procs, PumpStep(p) \/ PumpFault(p)
    PROVE  FailuresApart'
<1>0. pump \in [Procs -> Pump] /\ pump[p] \in Pump
  BY DEF TypeOK
<1>1. \A q \in Procs \ {p} : pump'[q] = pump[q]
  BY <1>0 DEF PumpStep, PumpFault, StartPump, TerminalizeFailed, BeginClaims, ClaimJob,
              EndQueuedRetry, NothingClaimed, EndPump, RetryPump
<1>2. CASE ~\E j \in Jobs : ClaimJob(p, j)
  <2>1. runs' = runs /\ failed' \subseteq failed
    BY <1>2 DEF PumpStep, PumpFault, StartPump, TerminalizeFailed, EndsFailedClaim, BeginClaims,
                EndQueuedRetry, NothingClaimed, EndPump, RetryPump
  <2>2. ASSUME pump'[p].phase = "claiming"
        PROVE  \A r \in failed' : r.proc # p
    <3>1. CASE BeginClaims(p)
      BY <3>1 DEF BeginClaims
    <3>2. CASE \E j \in Jobs : EndQueuedRetry(p, j)
      BY <3>2, <2>1 DEF EndQueuedRetry, FailuresApart
    <3>3. CASE StartPump(p) \/ NothingClaimed(p) \/ PumpFault(p)
      BY <3>3, <2>2, <1>0 DEF StartPump, NothingClaimed, PumpFault, Pump
    <3>4. CASE TerminalizeFailed(p)
      BY <3>4, <2>2, <1>0 DEF TerminalizeFailed
    <3>5. CASE EndPump(p) \/ RetryPump(p)
      <4>1. \A wake \in BOOLEAN : Idled(pump[p], wake) \in Pump /\ Idled(pump[p], wake).phase = "idle"
        BY <1>0, IdledWillWake DEF Idled, Requested, Pump
      <4>2. DurableWake \in BOOLEAN
        BY DEF DurableWake
      <4>3. pump'[p].phase = "idle"
        <5>1. CASE EndPump(p)
          BY <5>1, <4>1, <4>2, <1>0 DEF EndPump
        <5>2. CASE RetryPump(p)
          <6>1. pump'[p] = [Idled(pump[p], FALSE) EXCEPT !.wake = TRUE]
            BY <5>2, <1>0 DEF RetryPump
          <6>2. Idled(pump[p], FALSE) \in Pump /\ Idled(pump[p], FALSE).phase = "idle"
            BY <4>1
          <6> QED
            BY <6>1, <6>2 DEF Pump
        <5> QED
          BY <3>5, <5>1, <5>2
      <4> QED
        BY <4>3, <2>2
    <3> QED
      BY <1>2, <3>1, <3>2, <3>3, <3>4, <3>5 DEF PumpStep
  <2> QED
    BY <1>1, <2>1, <2>2, OthersApart DEF FailuresApart
<1>3. ASSUME NEW j \in Jobs, ClaimJob(p, j)
      PROVE  FailuresApart'
  <2>1. /\ runs' = runs \cup {[proc |-> p, job |-> j, gen |-> row[j].gen]}
        /\ failed' = failed /\ pump' = pump /\ \A r \in failed : r.proc # p
    BY <1>3 DEF ClaimJob, FailuresApart
  <2> QED
    BY <2>1 DEF FailuresApart
<1> QED
  BY <1>2, <1>3

LEMMA ProcessApart ==
    ASSUME TypeOK, FailuresApart, NEW p \in Procs,
           WakeFires(p) \/ Route(p) \/ Crash(p) \/ Boot(p)
    PROVE  FailuresApart'
<1>1. CASE ReconcileOnly(p)
  BY <1>1 DEF ReconcileOnly, FailuresApart
<1>2. CASE Crash(p)
  <2>1. runs' \subseteq runs /\ failed' \subseteq failed /\ \A r \in failed' : r.proc # p
    BY <1>2 DEF Crash
  <2>2. \A q \in Procs \ {p} : pump'[q] = pump[q]
    BY <1>2 DEF Crash, TypeOK
  <2> QED
    BY <2>1, <2>2 DEF FailuresApart
<1>3. CASE RequestPump(p) /\ UNCHANGED <<runs, failed>>
  <2>1. pump'[p].phase = pump[p].phase /\ \A q \in Procs \ {p} : pump'[q] = pump[q]
    BY <1>3, RequestKeepsPhase, RequestPumpBusies
  <2> QED
    BY <1>3, <2>1 DEF FailuresApart
<1> QED
  BY <1>1, <1>2, <1>3 DEF WakeFires, Route, Boot, EnqueueJob, ReuseActiveJob, RetryJob, CancelJob

LEMMA RunApart ==
    ASSUME TypeOK, FailuresApart, NEW r \in Runs, RunStep(r) \/ TakePaid(r) \/ GiveBackPaid(r)
    PROVE  FailuresApart'
<1>0. r.proc \in Procs
  BY DEF Runs
<1>1. CASE FinishRun(r) \/ TakePaid(r)
  BY <1>1 DEF FinishRun, TakePaid, FailuresApart
<1>2. CASE RunResolves(r) \/ RunRejects(r) \/ GiveBackPaid(r)
  <2>1. RequestPump(r.proc) /\ pump[r.proc].phase # "claiming"
    BY <1>2 DEF RunResolves, RunRejects, GiveBackPaid, Executing, Yields
  <2>2. /\ pump'[r.proc].phase # "claiming"
        /\ \A q \in Procs \ {r.proc} : pump'[q] = pump[q]
    BY <1>0, <2>1, RequestKeepsPhase, RequestPumpBusies
  <2>3. runs' \cap failed' = {} /\ \A q \in failed' : q \in failed \/ q = r
    BY <1>2 DEF RunResolves, RunRejects, GiveBackPaid, FailuresApart
  <2> QED
    BY <1>0, <2>2, <2>3, OthersApart
<1> QED
  BY <1>1, <1>2 DEF RunStep

LEMMA NextApart == TypeOK /\ FailuresApart /\ [Next]_vars => FailuresApart'
<1> SUFFICES ASSUME TypeOK, FailuresApart, [Next]_vars PROVE FailuresApart'
  OBVIOUS
<1>1. CASE \E p \in Procs : \/ PumpStep(p) \/ PumpFault(p) \/ WakeFires(p)
                           \/ Route(p) \/ Crash(p) \/ Boot(p)
  BY <1>1, PumpStepApart, ProcessApart
<1>2. CASE \E r \in Runs : RunStep(r) \/ TakePaid(r) \/ GiveBackPaid(r)
  BY <1>2, RunApart
<1>3. CASE \E j \in Jobs : ClaimLapses(j) \/ \E g \in Gens : PaidLapses(j, g)
  BY <1>3 DEF ClaimLapses, PaidLapses, FailuresApart
<1>4. CASE UNCHANGED vars
  BY <1>4 DEF vars, FailuresApart
<1> QED
  BY <1>1, <1>2, <1>3, <1>4 DEF Next

\* Two runs that own a job's live claim are one: the claim names process and
\* generation.
LEMMA OwnerIsOne ==
    ASSUME NEW r \in Runs, NEW s \in Runs, Owned(r), Owned(s), r.job = s.job
    PROVE  r = s
  BY DEF Owned, Runs

LEMMA FailureStep ==
    ASSUME TypeOK, FailuresApart, [Next]_vars,
           NEW r \in runs, Owned(r), failed' # failed, r \in runs'
    PROVE  Owned(r)'
<1>1. CASE row' = row
  BY <1>1 DEF Owned
<1>2. ASSUME NEW p \in Procs, TerminalizeFailed(p)
      PROVE  Owned(r)'
  <2>1. PICK s \in failed : EndsFailedClaim(p, s)
    BY <1>2 DEF TerminalizeFailed
  <2>2. r \in Runs /\ s \in Runs /\ r # s
    BY <2>1 DEF TypeOK, FailuresApart
  <2>3. Owned(s) => s.job # r.job
    BY <2>2, OwnerIsOne
  <2>4. row'[r.job] = row[r.job]
    BY <2>1, <2>2, <2>3 DEF EndsFailedClaim, TypeOK, Runs
  <2> QED
    BY <2>4 DEF Owned
<1> QED
  <2>1. CASE \E p \in Procs : \/ PumpStep(p) \/ PumpFault(p) \/ WakeFires(p)
                             \/ Route(p) \/ Crash(p) \/ Boot(p)
    BY <2>1, <1>1, <1>2
       DEF PumpStep, PumpFault, StartPump, BeginClaims, ClaimJob, EndQueuedRetry, NothingClaimed,
           EndPump, RetryPump, WakeFires, Route, ReconcileOnly, EnqueueJob, ReuseActiveJob,
           RetryJob, CancelJob, Crash, Boot
  <2>2. CASE \E q \in Runs : RunStep(q) \/ TakePaid(q) \/ GiveBackPaid(q)
    BY <2>2, <1>1 DEF RunStep, FinishRun, RunResolves, RunRejects, TakePaid, GiveBackPaid
  <2>3. CASE \E j \in Jobs : ClaimLapses(j) \/ \E g \in Gens : PaidLapses(j, g)
    BY <2>3 DEF ClaimLapses, PaidLapses
  <2>4. CASE UNCHANGED vars
    BY <2>4 DEF vars
  <2> QED
    BY <2>1, <2>2, <2>3, <2>4 DEF Next

\* The cleanup of a claim whose execution failed ends that claim or nothing: a run
\* that goes on under its own live claim, even of the same job, keeps it.
THEOREM CleanupEndsOwnClaim == Spec => FailedClaimEndsNoOther
<1>1. Init => FailuresApart
  BY DEF Init, FailuresApart
<1>2. /\ TypeOK /\ FailuresApart /\ [Next]_vars
      => [\A r \in runs : Owned(r) /\ failed' # failed /\ r \in runs' => Owned(r)']_vars
  BY FailureStep
<1> QED
  BY <1>1, <1>2, InitType, NextType, NextApart, PTL DEF Spec, FailedClaimEndsNoOther

===============================================================================
