-------------------------- MODULE PaidLedger_proofs --------------------------
(***************************************************************************)
(* What holds of the paid-pass ledger for every number of jobs, passes and *)
(* requests, every limit and every bill.  TLC checks the same formulas on  *)
(* the instances of MCPaidLedger.                                          *)
(***************************************************************************)
EXTENDS PaidLedger, TLAPS

\* No row, lease or charge exists for an attempt that no run has acquired.
RowsHavePermits ==
    \A a \in Attempts : permit[a] = None =>
        /\ lease[a] = None /\ billed[a] = None /\ presumed[a] = None
        /\ bill[a] = None

\* The typed core of every inductive invariant below.
TypeInv == TypeOK /\ RowsHavePermits

USE DEF Attempts

\* A null is none of the rows it stands in for.
LEMMA NullFacts ==
    /\ None \notin LeaseRow
    /\ None \notin Cost
    /\ None \notin Permit
    /\ None \notin Nat
BY NamesAssumption DEF NamesAssumption, LeaseRow, Cost, Permit

\* The sweep leaves well-typed rows, and touches no attempt without a lease.
LEMMA SweepTypes ==
    ASSUME TypeInv
    PROVE  /\ PrunedLease \in [Attempts -> LeaseRow \cup {None}]
           /\ PrunedPresumed \in [Attempts -> Cost \cup {None}]
           /\ Pruned \subseteq Jobs
           /\ ReconciledJobs \in [Jobs -> JobRow]
           /\ Abandoned \subseteq Jobs
           /\ \A a \in Attempts : permit[a] = None =>
                  PrunedLease[a] = None /\ PrunedPresumed[a] = None
<1> USE NullFacts DEF TypeInv, TypeOK, RowsHavePermits, LeaseRow, Cost
<1>1. PrunedLease \in [Attempts -> LeaseRow \cup {None}]
  BY DEF PrunedLease
<1>2. PrunedPresumed \in [Attempts -> Cost \cup {None}]
  BY DEF PrunedPresumed, CostRow, Expired
<1>3. Pruned \subseteq Jobs
  BY DEF Pruned, Finalized, Expired, Permit
<1>4. ReconciledJobs \in [Jobs -> JobRow]
  BY DEF ReconciledJobs, Terminal, JobRow
<1>5. Abandoned \subseteq Jobs
  BY DEF Abandoned
<1>6. \A a \in Attempts : permit[a] = None =>
          PrunedLease[a] = None /\ PrunedPresumed[a] = None
  BY DEF PrunedLease, PrunedPresumed, Expired
<1> QED
  BY <1>1, <1>2, <1>3, <1>4, <1>5, <1>6

\* Permits that hold no fewer attempts than before.
Staged(permits) ==
    /\ permits \in [Attempts -> Permit \cup {None}]
    /\ \A b \in Attempts : permits[b] = None => permit[b] = None

\* Updating one field of a permit or of a lease keeps its shape, and no other row.
LEMMA StageTypes ==
    ASSUME permit \in [Attempts -> Permit \cup {None}],
           NEW a \in Attempts, permit[a] # None,
           NEW stage \in Stages,
           permit' = [permit EXCEPT ![a].stage = stage]
    PROVE  Staged(permit')
<1>1. [permit[a] EXCEPT !.stage = stage] \in Permit
  BY DEF Permit
<1> QED
  BY <1>1, NullFacts DEF Staged

LEMMA ExpiryTypes ==
    ASSUME TypeInv, NEW a \in Attempts, lease[a] # None, NEW e \in Nat
    PROVE  /\ [lease EXCEPT ![a].expires = e] \in [Attempts -> LeaseRow \cup {None}]
           /\ [lease[a] EXCEPT !.expires = e] \in LeaseRow
<1>1. [lease[a] EXCEPT !.expires = e] \in LeaseRow
  BY DEF TypeInv, TypeOK, LeaseRow
<1> QED
  BY <1>1 DEF TypeInv, TypeOK

\* What a settlement of a request is.
LEMMA RequestSettles ==
    ASSUME NEW r \in Requests, SettleRequest(r)
    PROVE  /\ permit[r] # None /\ permit[r].stage = "sent" /\ Running(r)
           /\ \E usd, guess, stage :
                 /\ guess \in BOOLEAN /\ stage \in Stages /\ Heard(r, usd, guess, stage)
                 /\ SettleRequestCost(r, usd, guess, stage)
BY Zenon DEF SettleRequest, Running

\* What a settlement of a pass is.
LEMMA PassSettles ==
    ASSUME NEW p \in Passes, SettlePass(p)
    PROVE  /\ permit[p] # None /\ permit[p].stage = "launched" /\ Running(p)
           /\ \E usd, guess, stage :
                 /\ guess \in BOOLEAN /\ stage \in Stages /\ PassReport(p, usd, guess, stage)
                 /\ SettlePaidPassLease(p, usd, guess, stage)
BY Zenon DEF SettlePass, Running

\* The stages a settlement leaves.
LEMMA SettledStages ==
    ASSUME NEW p, NEW usd, NEW guess, NEW stage, PassReport(p, usd, guess, stage)
    PROVE  stage \in Stages \ {"held", "launched", "sent", "dropped"}
BY DEF PassReport, Heard, Stages

\* A request and a billable pass are settled at a natural number.
LEMMA SettledAmounts ==
    ASSUME TypeInv, NEW a \in Attempts, permit[a] # None, NEW usd, NEW guess, NEW stage
    PROVE  /\ Heard(a, usd, guess, stage) => usd \in Nat
           /\ PassReport(a, usd, guess, stage) /\ Billable(a, usd) => usd \in Nat
<1>1. permit[a].usd \in Nat /\ bill[a] \in Nat \cup {None}
  BY DEF TypeInv, TypeOK, Permit
<1>2. Heard(a, usd, guess, stage) => usd \in Nat
  BY <1>1 DEF Heard, PresumedInFull
<1> QED
  BY <1>2 DEF PassReport, Billable

-------------------------------------------------------------------------------
(* Typing.                                                                 *)

LEMMA InitTyped == Init => TypeInv
BY LimitsAssumption
   DEF Init, TypeInv, TypeOK, RowsHavePermits, LimitsAssumption, JobRow

\* The transactions on the job row and the sweeps.
LEMMA ClaimsTyped ==
    ASSUME TypeInv,
           \/ Tick \/ ReconcileExpiredJobClaims
           \/ \E owner \in alive : RunEnds(owner)
           \/ \E j \in Jobs : \/ ClaimQueuedJob(j) \/ EndQueuedRetry(j) \/ RenewJobLease(j)
                              \/ TerminalizeClaim(j) \/ CancelJob(j) \/ RetryJob(j)
    PROVE  TypeInv'
<1> USE SweepTypes, LimitsAssumption
    DEF TypeInv, TypeOK, RowsHavePermits, JobRow, LimitsAssumption
<1>1. CASE Tick
  BY <1>1 DEF Tick, dbVars, memVars
<1>2. CASE ReconcileExpiredJobClaims
  BY <1>2 DEF ReconcileExpiredJobClaims, memVars
<1>3. CASE \E owner \in alive : RunEnds(owner)
  BY <1>3 DEF RunEnds, dbVars
<1>4. ASSUME NEW j \in Jobs, ClaimQueuedJob(j) PROVE TypeInv'
  <2>0. nonces' = nonces + 1 /\ alive' = alive \cup {nonces'}
    BY <1>4, Zenon DEF ClaimQueuedJob
  <2>1. nonces' \in Nat /\ alive' \subseteq Nat
    BY <2>0
  <2>2. jobs' \in [Jobs -> JobRow]
    <3>1. ReconciledJobs[j] \in JobRow /\ now + JobTtl \in Nat
      OBVIOUS
    <3>2. [ReconciledJobs[j] EXCEPT !.status = "running", !.owner = nonces',
                                    !.expires = now + JobTtl] \in JobRow
      BY <2>1, <3>1
    <3> QED
      BY <1>4, <3>2 DEF ClaimQueuedJob
  <2>3. versioned' \subseteq Jobs
    BY <1>4 DEF ClaimQueuedJob
  <2> QED
    BY <1>4, <2>1, <2>2, <2>3 DEF ClaimQueuedJob
<1>5. ASSUME NEW j \in Jobs, RenewJobLease(j) PROVE TypeInv'
  <2>1. [jobs[j] EXCEPT !.expires = now + JobTtl] \in JobRow
    OBVIOUS
  <2>2. jobs' = [jobs EXCEPT ![j] = [jobs[j] EXCEPT !.expires = now + JobTtl]]
    BY <1>5 DEF RenewJobLease
  <2>3. jobs' \in [Jobs -> JobRow]
    BY <2>1, <2>2
  <2> QED
    BY <1>5, <2>3 DEF RenewJobLease, memVars
<1>6. ASSUME NEW j \in Jobs, TerminalizeClaim(j) \/ CancelJob(j) PROVE TypeInv'
  <2>1. Terminal(jobs[j]) \in JobRow
    BY DEF Terminal
  <2>2. jobs' = [jobs EXCEPT ![j] = Terminal(jobs[j])]
    BY <1>6 DEF TerminalizeClaim, CancelJob
  <2>3. jobs' \in [Jobs -> JobRow]
    BY <2>1, <2>2
  <2> QED
    BY <1>6, <2>3 DEF TerminalizeClaim, CancelJob, memVars
<1>7. ASSUME NEW j \in Jobs, RetryJob(j) PROVE TypeInv'
  <2>1. [jobs[j] EXCEPT !.status = "queued", !.gen = jobs[j].gen + 1] \in JobRow
    <3>1. jobs[j] \in JobRow /\ jobs[j].gen + 1 \in Nat
      OBVIOUS
    <3> QED
      BY <3>1
  <2>2. jobs' = [jobs EXCEPT ![j] = [jobs[j] EXCEPT !.status = "queued", !.gen = jobs[j].gen + 1]]
    BY <1>7 DEF RetryJob
  <2>3. jobs' \in [Jobs -> JobRow]
    BY <2>1, <2>2
  <2> QED
    BY <1>7, <2>3 DEF RetryJob, memVars
<1>8. ASSUME NEW j \in Jobs, EndQueuedRetry(j) PROVE TypeInv'
  <2>1. Terminal(ReconciledJobs[j]) \in JobRow
    BY DEF Terminal
  <2>2. jobs' = [ReconciledJobs EXCEPT ![j] = Terminal(ReconciledJobs[j])]
    BY <1>8 DEF EndQueuedRetry
  <2>3. jobs' \in [Jobs -> JobRow]
    BY <2>1, <2>2
  <2> QED
    BY <1>8, <2>3 DEF EndQueuedRetry, memVars
<1> QED
  BY <1>1, <1>2, <1>3, <1>4, <1>5, <1>6, <1>7, <1>8

\* The transactions that take, keep and end leases.
LEMMA LeasesTyped ==
    ASSUME TypeInv,
           \/ \E p \in Passes : \/ \E j \in Jobs : AcquirePass(p, j)
                                \/ \E r \in Requests : AcquireRequest(r, p)
                                \/ ResizePaidPassLease(p)
                                \/ AuthorizePaidPassLaunch(p)
                                \/ SettlePass(p)
           \/ \E a \in Attempts : \/ RenewPaidPassLease(a)
                                  \/ ReleaseUnbilledPaidPassLease(a)
    PROVE  TypeInv'
<1> USE SweepTypes, NullFacts, LimitsAssumption
    DEF TypeInv, TypeOK, RowsHavePermits, JobRow, LeaseRow, Permit, LimitsAssumption
<1>1. ASSUME NEW a \in Attempts, NEW pass \in Passes, NEW j \in Jobs,
             NEW owner \in Nat, NEW usd \in Nat, permit[a] = None,
             AcquirePaidPassLease(a, pass, j, owner, usd)
      PROVE  TypeInv'
  <2>1. Lease(usd) \in LeaseRow
    BY DEF Lease
  <2>2. lease' \in [Attempts -> LeaseRow \cup {None}]
    BY <1>1, <2>1 DEF AcquirePaidPassLease
  <2>3. permit' \in [Attempts -> Permit \cup {None}]
    BY <1>1 DEF AcquirePaidPassLease, Stages
  <2>4. RowsHavePermits'
    <3>1. \A b \in Attempts : permit'[b] = None =>
              permit[b] = None /\ (lease'[b] = PrunedLease[b])
      <4>1. CASE /\ lease' = [PrunedLease EXCEPT ![a] = Lease(usd)]
                 /\ permit' = [permit EXCEPT ![a] =
                        [job |-> j, gen |-> jobs[j].gen, owner |-> owner,
                         pass |-> pass, usd |-> usd, stage |-> "held"]]
        <5>1. [job |-> j, gen |-> jobs[j].gen, owner |-> owner,
               pass |-> pass, usd |-> usd, stage |-> "held"] \in Permit
          BY <1>1 DEF Stages
        <5> QED
          BY <4>1, <5>1
      <4>2. CASE lease' = PrunedLease /\ permit' = permit
        BY <4>2
      <4> QED
        BY <1>1, <4>1, <4>2 DEF AcquirePaidPassLease
    <3>2. presumed' = PrunedPresumed /\ billed' = billed /\ bill' = bill
      BY <1>1 DEF AcquirePaidPassLease
    <3> QED
      BY <3>1, <3>2
  <2> QED
    BY <1>1, <2>2, <2>3, <2>4 DEF AcquirePaidPassLease
<1>2. ASSUME NEW p \in Passes, NEW j \in Jobs, AcquirePass(p, j) PROVE TypeInv'
  BY <1>2, <1>1 DEF AcquirePass
<1>3. ASSUME NEW p \in Passes, NEW r \in Requests, AcquireRequest(r, p) PROVE TypeInv'
  BY <1>3, <1>1 DEF AcquireRequest, Running
<1>4. ASSUME NEW p \in Passes, ResizePaidPassLease(p) PROVE TypeInv'
  <2>1. permit[p] # None /\ lease[p] # None
    BY <1>4 DEF ResizePaidPassLease, LeaseLive, Running
  <2>2. /\ lease' = [lease EXCEPT ![p] = [lease[p] EXCEPT !.usd = 0]]
        /\ permit' = [permit EXCEPT ![p] = [permit[p] EXCEPT !.usd = 0]]
        /\ versioned' = {}
        /\ UNCHANGED <<now, jobs, billed, presumed, artifact, alive, nonces, bill>>
    BY <1>4 DEF ResizePaidPassLease
  <2>3. [lease[p] EXCEPT !.usd = 0] \in LeaseRow
    <3>1. lease[p] \in LeaseRow
      BY <2>1
    <3> QED
      BY <3>1
  <2>4. [permit[p] EXCEPT !.usd = 0] \in Permit
    <3>1. permit[p] \in Permit
      BY <2>1
    <3> QED
      BY <3>1
  <2>5. /\ lease' \in [Attempts -> LeaseRow \cup {None}]
        /\ permit' \in [Attempts -> Permit \cup {None}]
    BY <2>2, <2>3, <2>4
  <2>6. \A a \in Attempts : permit'[a] = None => permit[a] = None /\ lease'[a] = lease[a]
    <3>1. permit'[p] # None
      BY <2>2, <2>4
    <3>2. \A a \in Attempts : a # p => permit'[a] = permit[a] /\ lease'[a] = lease[a]
      BY <2>2
    <3> QED
      BY <3>1, <3>2
  <2>7. TypeOK'
    BY <2>2, <2>5
  <2>8. RowsHavePermits'
    BY <2>2, <2>6
  <2> QED
    BY <2>7, <2>8 DEF TypeInv
<1>5. ASSUME NEW p \in Passes, AuthorizePaidPassLaunch(p) PROVE TypeInv'
  <2>1. permit[p] # None /\ permit[p].job \in Jobs
    BY <1>5 DEF AuthorizePaidPassLaunch, Running
  <2>2. CASE ParentLive(p) /\ LeaseLive(p)
    <3>1. p \notin Expired /\ lease[p] # None
      BY <2>2 DEF Expired, LeaseLive
    <3>2. [PrunedLease EXCEPT ![p].expires = now + PaidTtl] \in [Attempts -> LeaseRow \cup {None}]
      <4>1. PrunedLease[p] = lease[p] /\ now + PaidTtl \in Nat
        BY <3>1 DEF PrunedLease
      <4>2. [PrunedLease[p] EXCEPT !.expires = now + PaidTtl] \in LeaseRow
        BY <3>1, <4>1, ExpiryTypes
      <4> QED
        BY <4>2, SweepTypes
    <3>3. [jobs EXCEPT ![permit[p].job].expires = now + JobTtl] \in [Jobs -> JobRow]
      BY <2>1
    <3>4. /\ lease' = [PrunedLease EXCEPT ![p].expires = now + PaidTtl]
          /\ jobs' = [jobs EXCEPT ![permit[p].job].expires = now + JobTtl]
          /\ permit' = [permit EXCEPT ![p].stage = "launched"]
          /\ versioned' \subseteq Jobs
      BY <1>5, <2>1, <2>2 DEF AuthorizePaidPassLaunch
    <3>5. Staged(permit')
      BY <3>4, <2>1, StageTypes DEF Stages
    <3>6. RowsHavePermits'
      <4>1. UNCHANGED <<billed, bill>> /\ presumed' = PrunedPresumed
        BY <1>5 DEF AuthorizePaidPassLaunch
      <4>2. \A b \in Attempts : permit[b] = None => lease'[b] = PrunedLease[b]
        BY <3>4, <2>1
      <4> QED
        BY <3>5, <4>1, <4>2 DEF Staged
    <3> QED
      BY <1>5, <3>2, <3>3, <3>4, <3>5, <3>6 DEF AuthorizePaidPassLaunch, Staged
  <2>3. CASE ~(ParentLive(p) /\ LeaseLive(p))
    BY <1>5, <2>3 DEF AuthorizePaidPassLaunch
  <2> QED
    BY <2>2, <2>3
<1>6. ASSUME NEW p \in Passes, SettlePass(p) PROVE TypeInv'
  <2>1. permit[p] # None /\ permit[p].job \in Jobs
    BY <1>6, PassSettles
  <2>2. PICK usd, guess, stage :
            /\ guess \in BOOLEAN /\ stage \in Stages /\ PassReport(p, usd, guess, stage)
            /\ SettlePaidPassLease(p, usd, guess, stage)
    BY <1>6, PassSettles
  <2>3. Staged(permit')
    <3>1. \/ permit' = [permit EXCEPT ![p].stage = stage]
          \/ permit' = [permit EXCEPT ![p].stage = "closed"]
      BY <2>2, Zenon DEF SettlePaidPassLease
    <3>2. "closed" \in Stages
      BY DEF Stages
    <3> QED
      BY <2>1, <2>2, <3>1, <3>2, StageTypes
  <2> USE DEF Staged
  <2>6. UNCHANGED <<now, jobs, alive, nonces>>
    BY <2>2, Zenon DEF SettlePaidPassLease
  <2>4. CASE SettlementAuthority(p)
    <3>1. Billable(p, usd) => CostRow(usd, now, guess) \in Cost
      <4>1. Billable(p, usd) => usd \in Nat
        BY <2>1, <2>2, SettledAmounts
      <4> QED
        BY <2>2, <4>1 DEF CostRow, Cost
    <3>2. /\ lease' = [lease EXCEPT ![p] = None]
          /\ presumed' = [presumed EXCEPT ![p] = None]
          /\ billed' = [billed EXCEPT ![p] =
                           IF Billable(p, usd) THEN CostRow(usd, now, guess) ELSE None]
          /\ bill' = [bill EXCEPT ![p] = IF stage = "closed" /\ @ = None THEN 0 ELSE @]
          /\ artifact' = [artifact EXCEPT ![p] =
                             IF Billable(p, usd) THEN "billable" ELSE "unbillable"]
          /\ versioned' = {permit[p].job}
      BY <2>2, <2>4 DEF SettlePaidPassLease, DropPresumption
    <3> DEFINE row == IF Billable(p, usd) THEN CostRow(usd, now, guess) ELSE None
               due == IF stage = "closed" /\ bill[p] = None THEN 0 ELSE bill[p]
               kind == IF Billable(p, usd) THEN "billable" ELSE "unbillable"
    <3>5. row \in Cost \cup {None} /\ due \in Nat \cup {None} /\ kind \in {"billable", "unbillable"}
      BY <3>1
    <3>6. /\ billed' = [billed EXCEPT ![p] = row] /\ bill' = [bill EXCEPT ![p] = due]
          /\ artifact' = [artifact EXCEPT ![p] = kind]
      BY <3>2
    <3> HIDE DEF row, due, kind
    <3>3. RowsHavePermits'
      BY <2>1, <2>3, <3>2, <3>5, <3>6
    <3>4. /\ lease' \in [Attempts -> LeaseRow \cup {None}]
          /\ presumed' \in [Attempts -> Cost \cup {None}]
          /\ billed' \in [Attempts -> Cost \cup {None}]
          /\ bill' \in [Attempts -> Nat \cup {None}]
          /\ artifact' \in [Passes -> {"none", "billable", "unbillable"}]
      BY <3>2, <3>5, <3>6
    <3> QED
      BY <2>1, <2>3, <2>6, <3>2, <3>3, <3>4
  <2>5. CASE ~SettlementAuthority(p)
    <3>1. /\ UNCHANGED <<lease, billed, presumed, artifact, bill>>
          /\ versioned' = {}
      BY <2>2, <2>5 DEF SettlePaidPassLease
    <3> QED
      BY <2>3, <2>6, <3>1
  <2> QED
    BY <2>4, <2>5
<1>7. ASSUME NEW a \in Attempts, RenewPaidPassLease(a) PROVE TypeInv'
  BY <1>7 DEF RenewPaidPassLease, LeaseLive, Running, memVars
<1>8. ASSUME NEW a \in Attempts, ReleaseUnbilledPaidPassLease(a) PROVE TypeInv'
  <2>1. permit[a] # None /\ permit[a].job \in Jobs
    BY <1>8 DEF ReleaseUnbilledPaidPassLease, Running
  <2>2. PICK stage \in Stages : GivenBack(a, stage) /\ permit' = [permit EXCEPT ![a].stage = stage]
    BY <1>8 DEF ReleaseUnbilledPaidPassLease
  <2>3. Staged(permit')
    BY <2>1, <2>2, StageTypes
  <2> USE DEF Staged
  <2>4. bill' = bill \/ bill' = [bill EXCEPT ![a] = 0]
    BY <2>2 DEF GivenBack
  <2>5. /\ lease' = lease \/ lease' = [lease EXCEPT ![a] = None]
        /\ versioned' \subseteq Jobs
    BY <1>8, <2>1 DEF ReleaseUnbilledPaidPassLease, Finalized
  <2>6. UNCHANGED <<now, jobs, billed, presumed, artifact, alive, nonces>>
    BY <1>8 DEF ReleaseUnbilledPaidPassLease
  <2>7. /\ lease' \in [Attempts -> LeaseRow \cup {None}]
        /\ bill' \in [Attempts -> Nat \cup {None}]
    BY <2>4, <2>5
  <2>8. RowsHavePermits'
    BY <2>1, <2>3, <2>4, <2>5, <2>6
  <2> QED
    BY <2>3, <2>5, <2>6, <2>7, <2>8
<1> QED
  BY <1>2, <1>3, <1>4, <1>5, <1>6, <1>7, <1>8

\* Lowering the guesses of a bucket keeps every row a row and adds none.
LEMMA LowerTypes ==
    ASSUME NEW rows \in [Attempts -> Cost \cup {None}],
           NEW from, NEW to, NEW remaining, NEW total
    PROVE  /\ Lower(rows, from, to, remaining, total) \in [Attempts -> Cost \cup {None}]
           /\ \A a \in Attempts :
                  rows[a] = None => Lower(rows, from, to, remaining, total)[a] = None
<1> USE NullFacts
<1> DEFINE lowered == Lower(rows, from, to, remaining, total)
<1>1. ASSUME NEW a \in Attempts
      PROVE  /\ lowered[a] \in Cost \cup {None}
             /\ rows[a] = None => lowered[a] = None
  <2> DEFINE share == (rows[a].usd * remaining) \div total
  <2>1. CASE Guess(rows, a, from, to) /\ share \in 0..(rows[a].usd - 1)
    <3>1. /\ rows[a] \in Cost /\ share \in Nat
          /\ lowered[a] = [rows[a] EXCEPT !.usd = share, !.reconciled = TRUE]
      BY <2>1 DEF Lower, Guess, Cost
    <3> HIDE DEF share, lowered
    <3> QED
      BY <3>1 DEF Cost
  <2>2. CASE ~(Guess(rows, a, from, to) /\ share \in 0..(rows[a].usd - 1))
    BY <2>2 DEF Lower
  <2> QED
    BY <2>1, <2>2
<1>2. lowered = [a \in Attempts |-> lowered[a]]
  BY DEF Lower
<1> HIDE DEF lowered
<1>3. lowered \in [Attempts -> Cost \cup {None}]
  BY <1>1, <1>2
<1> QED
  BY <1>1, <1>3 DEF lowered

LEMMA ReconciledTypes ==
    ASSUME TypeInv, NEW from, NEW to, NEW reported,
           ReconcilePresumedCosts(from, to, reported)
    PROVE  /\ billed' \in [Attempts -> Cost \cup {None}]
           /\ presumed' \in [Attempts -> Cost \cup {None}]
           /\ \A a \in Attempts : /\ billed[a] = None => billed'[a] = None
                                  /\ presumed[a] = None => presumed'[a] = None
<1>1. PICK remaining, total : /\ billed' = Lower(billed, from, to, remaining, total)
                              /\ presumed' = Lower(presumed, from, to, remaining, total)
  BY Zenon DEF ReconcilePresumedCosts
<1>2. billed \in [Attempts -> Cost \cup {None}] /\ presumed \in [Attempts -> Cost \cup {None}]
  BY DEF TypeInv, TypeOK
<1> QED
  BY <1>1, <1>2, LowerTypes

\* The life of a request, the provider's bill and the Cost API.
LEMMA RequestsTyped ==
    ASSUME TypeInv,
           \/ \E r \in Requests : SendRequest(r) \/ SettleRequest(r) \/ DropRequest(r)
           \/ \E a \in Attempts : \E usd \in Bills : ProviderBills(a, usd)
           \/ \E from \in 0..now, reported \in Reports :
                  ReconcilePresumedCosts(from, now + 1, reported)
    PROVE  TypeInv'
<1> USE NullFacts, LimitsAssumption
    DEF TypeInv, TypeOK, RowsHavePermits, Permit, LimitsAssumption
<1>1. ASSUME NEW r \in Requests, SendRequest(r) \/ DropRequest(r) PROVE TypeInv'
  <2>1. permit[r] # None
    BY <1>1 DEF SendRequest, DropRequest, Running
  <2>2. PICK stage \in Stages : permit' = [permit EXCEPT ![r].stage = stage]
    BY <1>1 DEF SendRequest, DropRequest, Stages
  <2>3. Staged(permit')
    BY <2>1, <2>2, StageTypes
  <2> USE DEF Staged
  <2>4. UNCHANGED <<now, jobs, lease, billed, presumed, artifact, alive, nonces, bill>> /\ versioned' = {}
    BY <1>1 DEF SendRequest, DropRequest, dbVars
  <2> QED
    BY <2>3, <2>4
<1>2. ASSUME NEW r \in Requests, NEW usd \in Nat, NEW guess \in BOOLEAN,
             NEW stage \in Stages, permit[r] # None,
             SettleRequestCost(r, usd, guess, stage)
      PROVE  TypeInv'
  <2>1. permit' = [permit EXCEPT ![r].stage = stage]
    BY <1>2 DEF SettleRequestCost
  <2>2. Staged(permit')
    BY <1>2, <2>1, StageTypes
  <2> USE DEF Staged
  <2>3. CostRow(usd, now, guess) \in Cost
    BY DEF CostRow, Cost
  <2>4. /\ billed' = billed \/ \E row \in Cost \cup {None} : billed' = [billed EXCEPT ![r] = row]
        /\ presumed' = presumed \/ presumed' = [presumed EXCEPT ![r] = None]
        /\ versioned' \subseteq Jobs
    BY <1>2, <2>3 DEF SettleRequestCost, DropPresumption
  <2>5. lease' = [lease EXCEPT ![r] = None]
    BY <1>2 DEF SettleRequestCost
  <2>6. RowsHavePermits'
    BY <1>2, <2>2, <2>4, <2>5 DEF SettleRequestCost
  <2> QED
    BY <1>2, <2>2, <2>4, <2>5, <2>6 DEF SettleRequestCost
<1>3. ASSUME NEW r \in Requests, SettleRequest(r)
      PROVE  TypeInv'
  <2>1. permit[r] # None
    BY <1>3, RequestSettles
  <2>2. PICK usd, guess, stage :
            /\ guess \in BOOLEAN /\ stage \in Stages /\ Heard(r, usd, guess, stage)
            /\ SettleRequestCost(r, usd, guess, stage)
    BY <1>3, RequestSettles
  <2>3. usd \in Nat
    BY <2>1, <2>2, SettledAmounts
  <2> QED
    BY <1>2, <2>1, <2>2, <2>3
<1>4. ASSUME NEW a \in Attempts, NEW usd \in Bills, ProviderBills(a, usd) PROVE TypeInv'
  BY <1>4 DEF ProviderBills, OnTheWire, dbVars, memVars
<1>5. ASSUME NEW from \in 0..now, NEW reported \in Reports,
             ReconcilePresumedCosts(from, now + 1, reported)
      PROVE  TypeInv'
  <2>2. /\ billed' \in [Attempts -> Cost \cup {None}]
        /\ presumed' \in [Attempts -> Cost \cup {None}]
        /\ \A a \in Attempts : /\ billed[a] = None => billed'[a] = None
                               /\ presumed[a] = None => presumed'[a] = None
    BY <1>5, ReconciledTypes
  <2> QED
    BY <1>5, <2>2 DEF ReconcilePresumedCosts, Acquired, memVars
<1> QED
  BY <1>1, <1>3, <1>4, <1>5

LEMMA TypePreserved == TypeInv /\ [Next]_vars => TypeInv'
<1> SUFFICES ASSUME TypeInv, [Next]_vars PROVE TypeInv'
  OBVIOUS
<1>1. CASE UNCHANGED vars
  BY <1>1 DEF vars, dbVars, memVars, TypeInv, TypeOK, RowsHavePermits
<1>2. CASE Next
  BY <1>2, ClaimsTyped, LeasesTyped, RequestsTyped DEF Next
<1> QED
  BY <1>1, <1>2

\* The rows and in-memory records keep their shape in every behaviour.
THEOREM TypeCorrect == Spec => []TypeOK
<1>1. Spec => []TypeInv
  BY InitTyped, TypePreserved, PTL DEF Spec
<1> QED
  BY <1>1, PTL DEF TypeInv

-------------------------------------------------------------------------------
(* One charge per attempt.                                                 *)

ChargedOnce(a) ==
    /\ billed[a] = None \/ presumed[a] = None
    /\ lease[a] = None \/ (billed[a] = None /\ presumed[a] = None)

ChargeInv == TypeInv /\ \A a \in Attempts : ChargedOnce(a)

\* The sweep turns an expired lease into a row, never beside one.
LEMMA SweepChargesOnce ==
    ASSUME ChargeInv, NEW a \in Attempts
    PROVE  /\ billed[a] = None \/ PrunedPresumed[a] = None
           /\ PrunedLease[a] = None \/ (billed[a] = None /\ PrunedPresumed[a] = None)
BY DEF ChargeInv, ChargedOnce, TypeInv, TypeOK, PrunedLease, PrunedPresumed, Expired

\* Transactions that touch no row of any attempt.
LEMMA ChargeStutter ==
    ASSUME ChargeInv, TypeInv', UNCHANGED <<lease, billed, presumed>>
    PROVE  ChargeInv'
BY DEF ChargeInv, ChargedOnce

\* Transactions that only sweep.
LEMMA ChargeSwept ==
    ASSUME ChargeInv, TypeInv',
           lease' = PrunedLease, presumed' = PrunedPresumed, billed' = billed
    PROVE  ChargeInv'
BY SweepChargesOnce DEF ChargeInv, ChargedOnce

LEMMA ClaimsChargeOnce ==
    ASSUME ChargeInv, TypeInv',
           \/ Tick \/ ReconcileExpiredJobClaims
           \/ \E owner \in alive : RunEnds(owner)
           \/ \E j \in Jobs : \/ ClaimQueuedJob(j) \/ EndQueuedRetry(j) \/ RenewJobLease(j)
                              \/ TerminalizeClaim(j) \/ CancelJob(j) \/ RetryJob(j)
    PROVE  ChargeInv'
<1>1. CASE Tick
  BY <1>1, ChargeStutter DEF Tick, dbVars
<1>2. CASE ReconcileExpiredJobClaims
  BY <1>2, ChargeSwept DEF ReconcileExpiredJobClaims
<1>3. CASE \E owner \in alive : RunEnds(owner)
  BY <1>3, ChargeStutter DEF RunEnds, dbVars
<1>4. ASSUME NEW j \in Jobs, ClaimQueuedJob(j) PROVE ChargeInv'
  <2>1. lease' = PrunedLease /\ presumed' = PrunedPresumed /\ billed' = billed
    BY <1>4, Zenon DEF ClaimQueuedJob
  <2> QED
    BY <2>1, ChargeSwept
<1>5. ASSUME NEW j \in Jobs, RenewJobLease(j) PROVE ChargeInv'
  BY <1>5, ChargeStutter DEF RenewJobLease
<1>6. ASSUME NEW j \in Jobs, TerminalizeClaim(j) PROVE ChargeInv'
  BY <1>6, ChargeStutter DEF TerminalizeClaim
<1>7. ASSUME NEW j \in Jobs, CancelJob(j) PROVE ChargeInv'
  BY <1>7, ChargeStutter DEF CancelJob
<1>8. ASSUME NEW j \in Jobs, RetryJob(j) PROVE ChargeInv'
  BY <1>8, ChargeStutter DEF RetryJob
<1>9. ASSUME NEW j \in Jobs, EndQueuedRetry(j) PROVE ChargeInv'
  BY <1>9, ChargeSwept, Zenon DEF EndQueuedRetry
<1> QED
  BY <1>1, <1>2, <1>3, <1>4, <1>5, <1>6, <1>7, <1>8, <1>9

LEMMA LeasesChargeOnce ==
    ASSUME ChargeInv, TypeInv',
           \/ \E p \in Passes : \/ \E j \in Jobs : AcquirePass(p, j)
                                \/ \E r \in Requests : AcquireRequest(r, p)
                                \/ ResizePaidPassLease(p)
                                \/ AuthorizePaidPassLaunch(p)
                                \/ SettlePass(p)
           \/ \E a \in Attempts : \/ RenewPaidPassLease(a)
                                  \/ ReleaseUnbilledPaidPassLease(a)
    PROVE  ChargeInv'
<1> USE DEF ChargeInv, ChargedOnce, TypeInv, TypeOK
<1>1. ASSUME NEW a \in Attempts, NEW pass, NEW j, NEW owner, NEW usd, permit[a] = None,
             AcquirePaidPassLease(a, pass, j, owner, usd)
      PROVE  ChargeInv'
  <2>1. billed[a] = None /\ PrunedPresumed[a] = None
    BY <1>1, SweepTypes DEF RowsHavePermits
  <2>2. /\ presumed' = PrunedPresumed /\ billed' = billed
        /\ lease' = PrunedLease \/ lease' = [PrunedLease EXCEPT ![a] = Lease(usd)]
    BY <1>1, Zenon DEF AcquirePaidPassLease
  <2>3. PrunedLease \in [Attempts -> LeaseRow \cup {None}]
    BY SweepTypes
  <2> QED
    BY <2>1, <2>2, <2>3, SweepChargesOnce
<1>2. ASSUME NEW p \in Passes, NEW j \in Jobs, AcquirePass(p, j) PROVE ChargeInv'
  BY <1>2, <1>1 DEF AcquirePass
<1>3. ASSUME NEW p \in Passes, NEW r \in Requests, AcquireRequest(r, p) PROVE ChargeInv'
  BY <1>3, <1>1 DEF AcquireRequest
<1>4. ASSUME NEW p \in Passes, ResizePaidPassLease(p) PROVE ChargeInv'
  BY <1>4 DEF ResizePaidPassLease, LeaseLive
<1>5. ASSUME NEW p \in Passes, AuthorizePaidPassLaunch(p) PROVE ChargeInv'
  <2>1. CASE ParentLive(p) /\ LeaseLive(p)
    <3>1. /\ lease' = [PrunedLease EXCEPT ![p].expires = now + PaidTtl]
          /\ presumed' = PrunedPresumed /\ billed' = billed
      BY <1>5, <2>1 DEF AuthorizePaidPassLaunch
    <3>2. PrunedLease[p] = lease[p] /\ lease[p] # None
      <4>1. lease[p] \in LeaseRow /\ lease[p].expires > now
        BY <2>1 DEF LeaseLive
      <4>2. p \notin Expired
        BY <4>1 DEF Expired, LeaseRow
      <4> QED
        BY <4>1, <4>2, NullFacts DEF PrunedLease
    <3>3. PrunedLease \in [Attempts -> LeaseRow \cup {None}]
      BY SweepTypes
    <3> QED
      BY <3>1, <3>2, <3>3, SweepChargesOnce
  <2>2. CASE ~(ParentLive(p) /\ LeaseLive(p))
    BY <1>5, <2>2, ChargeSwept DEF AuthorizePaidPassLaunch
  <2> QED
    BY <2>1, <2>2
<1>6. ASSUME NEW p \in Passes, SettlePass(p) PROVE ChargeInv'
  <2>1. \/ /\ lease' = [lease EXCEPT ![p] = None]
           /\ presumed' = [presumed EXCEPT ![p] = None]
           /\ \E row : billed' = [billed EXCEPT ![p] = row]
        \/ UNCHANGED <<lease, billed, presumed>>
    <3>1. PICK usd, guess, stage : SettlePaidPassLease(p, usd, guess, stage)
      BY <1>6, PassSettles
    <3> QED
      BY <3>1 DEF SettlePaidPassLease, DropPresumption
  <2> QED
    BY <2>1
<1>7. ASSUME NEW a \in Attempts, RenewPaidPassLease(a) PROVE ChargeInv'
  BY <1>7 DEF RenewPaidPassLease, LeaseLive
<1>8. ASSUME NEW a \in Attempts, ReleaseUnbilledPaidPassLease(a) PROVE ChargeInv'
  BY <1>8 DEF ReleaseUnbilledPaidPassLease, LeaseLive
<1> QED
  BY <1>2, <1>3, <1>4, <1>5, <1>6, <1>7, <1>8

LEMMA RequestsChargeOnce ==
    ASSUME ChargeInv, TypeInv',
           \/ \E r \in Requests : SendRequest(r) \/ SettleRequest(r) \/ DropRequest(r)
           \/ \E a \in Attempts : \E usd \in Bills : ProviderBills(a, usd)
           \/ \E from \in 0..now, reported \in Reports :
                  ReconcilePresumedCosts(from, now + 1, reported)
    PROVE  ChargeInv'
<1>1. ASSUME NEW r \in Requests, SendRequest(r) \/ DropRequest(r) PROVE ChargeInv'
  BY <1>1, ChargeStutter DEF SendRequest, DropRequest, dbVars
<1>2. ASSUME NEW r \in Requests, NEW usd, NEW guess, NEW stage,
             SettleRequestCost(r, usd, guess, stage)
      PROVE  ChargeInv'
  <2>1. /\ lease' = [lease EXCEPT ![r] = None]
        /\ \/ billed[r] # None /\ UNCHANGED <<billed, presumed>>
           \/ /\ presumed' = [presumed EXCEPT ![r] = None]
              /\ \E row : billed' = [billed EXCEPT ![r] = row]
    BY <1>2 DEF SettleRequestCost, DropPresumption
  <2> QED
    BY <2>1 DEF ChargeInv, ChargedOnce, TypeInv, TypeOK
<1>3. ASSUME NEW r \in Requests, SettleRequest(r)
      PROVE  ChargeInv'
  BY <1>2, <1>3, RequestSettles
<1>4. ASSUME NEW a \in Attempts, NEW usd \in Bills, ProviderBills(a, usd) PROVE ChargeInv'
  BY <1>4, ChargeStutter DEF ProviderBills, dbVars
<1>5. ASSUME NEW from \in 0..now, NEW reported \in Reports,
             ReconcilePresumedCosts(from, now + 1, reported)
      PROVE  ChargeInv'
  <2>1. \A a \in Attempts : /\ billed[a] = None => billed'[a] = None
                            /\ presumed[a] = None => presumed'[a] = None
    BY <1>5, ReconciledTypes DEF ChargeInv
  <2>2. lease' = lease
    BY <1>5, Zenon DEF ReconcilePresumedCosts
  <2> QED
    BY <2>1, <2>2 DEF ChargeInv, ChargedOnce
<1> QED
  BY <1>1, <1>3, <1>4, <1>5

LEMMA ChargePreserved == ChargeInv /\ [Next]_vars => ChargeInv'
<1> SUFFICES ASSUME ChargeInv, [Next]_vars PROVE ChargeInv'
  OBVIOUS
<1>1. TypeInv'
  BY TypePreserved DEF ChargeInv
<1>2. CASE UNCHANGED vars
  BY <1>1, <1>2, ChargeStutter DEF vars, dbVars
<1>3. CASE Next
  BY <1>1, <1>3, ClaimsChargeOnce, LeasesChargeOnce, RequestsChargeOnce DEF Next
<1> QED
  BY <1>2, <1>3

\* Whatever the order of sweeps, late settlements, stale runs and crashes, no
\* attempt is ever charged twice or charged beside its own reservation.
THEOREM ChargedAtMostOnce == Spec => []OneChargePerAttempt
<1>1. Init => ChargeInv
  BY InitTyped DEF Init, ChargeInv, ChargedOnce
<1>2. Spec => []ChargeInv
  BY <1>1, ChargePreserved, PTL DEF Spec
<1>3. ChargeInv => OneChargePerAttempt
  BY DEF ChargeInv, ChargedOnce, OneChargePerAttempt
<1> QED
  BY <1>2, <1>3, PTL

-------------------------------------------------------------------------------
(* No overlap of generations.                                              *)

\* No permit is younger than the job it belongs to.
PermitsAreNotYounger ==
    \A a \in Attempts : permit[a] # None => permit[a].gen <= jobs[permit[a].job].gen

OverlapInv == TypeInv /\ PermitsAreNotYounger /\ NoAncestorOverlap

\* What every transaction but a claim and an acquisition respects.
PermitsKept ==
    \A a \in Attempts :
        permit'[a] # None =>
            /\ permit[a] # None
            /\ permit'[a].job = permit[a].job
            /\ permit'[a].gen = permit[a].gen

NoLeaseRevived == \A a \in Attempts : LeaseLive(a)' => LeaseLive(a)

NoRunStarted ==
    \A j \in Jobs :
        /\ jobs[j].gen <= jobs'[j].gen
        /\ jobs'[j].status = "running" =>
               jobs[j].status = "running" /\ jobs'[j].gen = jobs[j].gen

LEMMA OverlapKept ==
    ASSUME OverlapInv, TypeInv', PermitsKept, NoLeaseRevived, NoRunStarted
    PROVE  OverlapInv'
<1> USE DEF OverlapInv, TypeInv, TypeOK, JobRow, Permit
<1>1. PermitsAreNotYounger'
  <2>1. ASSUME NEW a \in Attempts, permit'[a] # None
        PROVE  permit'[a].gen <= jobs'[permit'[a].job].gen
    <3>1. permit'[a] \in Permit /\ permit[a] \in Permit
      BY <2>1 DEF PermitsKept
    <3>2. permit[a].gen <= jobs[permit[a].job].gen
      BY <2>1 DEF PermitsAreNotYounger, PermitsKept
    <3>3. jobs[permit[a].job].gen <= jobs'[permit[a].job].gen
      BY <3>1 DEF NoRunStarted
    <3>4. permit'[a].job = permit[a].job /\ permit'[a].gen = permit[a].gen
      BY <2>1 DEF PermitsKept
    <3>5. /\ permit[a].gen \in Nat /\ jobs[permit[a].job].gen \in Nat
          /\ jobs'[permit[a].job].gen \in Nat
      BY <3>1
    <3> QED
      BY <3>2, <3>3, <3>4, <3>5
  <2> QED
    BY <2>1 DEF PermitsAreNotYounger
<1>2. NoAncestorOverlap'
  BY DEF NoAncestorOverlap, AttemptsOf, Acquired, PermitsKept, NoLeaseRevived, NoRunStarted
<1> QED
  BY <1>1, <1>2

\* The sweep and the end of a lease revive none.
LEMMA SweepRevivesNone ==
    ASSUME TypeInv, now' = now, NEW a \in Attempts, lease'[a] \in {lease[a], PrunedLease[a], None}
    PROVE  LeaseLive(a)' => LeaseLive(a)
BY DEF LeaseLive, PrunedLease, TypeInv, TypeOK

\* The claim: every lease of an older generation is gone before the run starts.
LEMMA ClaimWaits ==
    ASSUME OverlapInv, TypeInv', NEW j \in Jobs, ClaimQueuedJob(j)
    PROVE  OverlapInv'
<1> USE DEF OverlapInv, TypeInv, TypeOK, JobRow, Permit
<1>1. /\ lease' = PrunedLease /\ permit' = permit /\ now' = now
      /\ jobs[j].gen > 0 => AncestorsSettled(j)
      /\ jobs[j].status = "queued"
  BY Zenon DEF ClaimQueuedJob
<1>2. jobs' = [ReconciledJobs EXCEPT ![j] =
                   [@ EXCEPT !.status = "running", !.owner = nonces', !.expires = now + JobTtl]]
  BY Zenon DEF ClaimQueuedJob
<1>3. /\ \A k \in Jobs : jobs'[k].gen = jobs[k].gen
      /\ \A k \in Jobs \ {j} : jobs'[k].status = "running" => jobs[k].status = "running"
  BY <1>2, SweepTypes DEF ReconciledJobs, Terminal
<1>4. PermitsAreNotYounger'
  BY <1>1, <1>3 DEF PermitsAreNotYounger
<1>5. \A a \in Attempts : LeaseLive(a)' => LeaseLive(a)
  BY <1>1, SweepRevivesNone
<1>6. ASSUME NEW a \in AttemptsOf(j)', LeaseLive(a)' PROVE permit'[a].gen = jobs'[j].gen
  <2>1. a \in AttemptsOf(j) /\ PrunedLease[a] # None
    BY <1>1, <1>6 DEF AttemptsOf, Acquired, LeaseLive
  <2>2. permit[a] \in Permit /\ permit[a].job = j /\ permit[a].gen <= jobs[j].gen
    BY <2>1 DEF AttemptsOf, Acquired, PermitsAreNotYounger
  <2>3. ~(permit[a].gen < jobs[j].gen)
    <3>1. CASE jobs[j].gen > 0
      BY <1>1, <2>1, <3>1 DEF AncestorsSettled
    <3>2. CASE ~(jobs[j].gen > 0)
      BY <2>2, <3>2
    <3> QED
      BY <3>1, <3>2
  <2> QED
    BY <1>1, <1>3, <2>2, <2>3
<1>7. NoAncestorOverlap'
  BY <1>1, <1>3, <1>5, <1>6 DEF NoAncestorOverlap, AttemptsOf, Acquired
<1> QED
  BY <1>4, <1>7

\* An acquisition: the parent claim it is fenced on carries its generation.
LEMMA AcquisitionIsCurrent ==
    ASSUME OverlapInv, TypeInv', NEW a \in Attempts, NEW pass, NEW j \in Jobs,
           NEW owner, NEW usd, permit[a] = None,
           AcquirePaidPassLease(a, pass, j, owner, usd)
    PROVE  OverlapInv'
<1> USE DEF OverlapInv, TypeInv, TypeOK, JobRow, Permit
<1>1. /\ now' = now /\ jobs' = jobs
      /\ \/ /\ lease' = [PrunedLease EXCEPT ![a] = Lease(usd)]
            /\ permit' = [permit EXCEPT ![a] =
                  [job |-> j, gen |-> jobs[j].gen, owner |-> owner,
                   pass |-> pass, usd |-> usd, stage |-> "held"]]
         \/ lease' = PrunedLease /\ permit' = permit
  BY Zenon DEF AcquirePaidPassLease
<1>2. \A b \in Attempts \ {a} : permit'[b] = permit[b] /\ lease'[b] = PrunedLease[b]
  BY <1>1, SweepTypes
<1>3. permit'[a] # None => permit'[a].job = j /\ permit'[a].gen = jobs[j].gen
  BY <1>1
<1>4. PermitsAreNotYounger'
  BY <1>1, <1>2, <1>3 DEF PermitsAreNotYounger
<1>5. \A b \in Attempts \ {a} : LeaseLive(b)' => LeaseLive(b)
  BY <1>1, <1>2, SweepRevivesNone
<1>6. NoAncestorOverlap'
  BY <1>1, <1>2, <1>3, <1>5 DEF NoAncestorOverlap, AttemptsOf, Acquired
<1> QED
  BY <1>4, <1>6

LEMMA ClaimsOverlapNone ==
    ASSUME OverlapInv, TypeInv',
           \/ Tick \/ ReconcileExpiredJobClaims
           \/ \E owner \in alive : RunEnds(owner)
           \/ \E j \in Jobs : \/ ClaimQueuedJob(j) \/ EndQueuedRetry(j) \/ RenewJobLease(j)
                              \/ TerminalizeClaim(j) \/ CancelJob(j) \/ RetryJob(j)
    PROVE  OverlapInv'
<1> USE DEF OverlapInv, TypeInv, TypeOK, JobRow
<1>1. CASE Tick
  <2>1. PermitsKept /\ NoRunStarted
    BY <1>1 DEF Tick, dbVars, memVars, PermitsKept, NoRunStarted
  <2>2. NoLeaseRevived
    BY <1>1 DEF Tick, dbVars, NoLeaseRevived, LeaseLive, LeaseRow
  <2> QED
    BY <2>1, <2>2, OverlapKept
<1>2. CASE ReconcileExpiredJobClaims
  <2>1. PermitsKept /\ NoRunStarted
    BY <1>2 DEF ReconcileExpiredJobClaims, memVars, PermitsKept, NoRunStarted,
                ReconciledJobs, Terminal
  <2>2. NoLeaseRevived
    BY <1>2, SweepRevivesNone DEF ReconcileExpiredJobClaims, NoLeaseRevived
  <2> QED
    BY <2>1, <2>2, OverlapKept
<1>3. CASE \E owner \in alive : RunEnds(owner)
  BY <1>3, OverlapKept
  DEF RunEnds, dbVars, PermitsKept, NoRunStarted, NoLeaseRevived, LeaseLive
<1>4. ASSUME NEW j \in Jobs,
             RenewJobLease(j) \/ TerminalizeClaim(j) \/ CancelJob(j) \/ RetryJob(j)
      PROVE  OverlapInv'
  <2>1. UNCHANGED <<now, lease, permit>>
    BY <1>4 DEF RenewJobLease, TerminalizeClaim, CancelJob, RetryJob, memVars
  <2>2. NoRunStarted
    BY <1>4 DEF RenewJobLease, TerminalizeClaim, CancelJob, RetryJob, NoRunStarted, Terminal
  <2> QED
    BY <2>1, <2>2, OverlapKept DEF PermitsKept, NoLeaseRevived, LeaseLive
<1>5. ASSUME NEW j \in Jobs, EndQueuedRetry(j) PROVE OverlapInv'
  <2>1. /\ now' = now /\ lease' = PrunedLease /\ permit' = permit
        /\ jobs' = [ReconciledJobs EXCEPT ![j] = Terminal(@)]
    BY <1>5, Zenon DEF EndQueuedRetry, memVars
  <2>2. NoLeaseRevived
    BY <2>1, SweepRevivesNone DEF NoLeaseRevived
  <2>3. NoRunStarted
    BY <2>1, SweepTypes DEF NoRunStarted, ReconciledJobs, Terminal
  <2> QED
    BY <2>1, <2>2, <2>3, OverlapKept DEF PermitsKept
<1> QED
  BY <1>1, <1>2, <1>3, <1>4, <1>5, ClaimWaits

LEMMA LeasesOverlapNone ==
    ASSUME OverlapInv, TypeInv',
           \/ \E p \in Passes : \/ \E j \in Jobs : AcquirePass(p, j)
                                \/ \E r \in Requests : AcquireRequest(r, p)
                                \/ ResizePaidPassLease(p)
                                \/ AuthorizePaidPassLaunch(p)
                                \/ SettlePass(p)
           \/ \E a \in Attempts : \/ RenewPaidPassLease(a)
                                  \/ ReleaseUnbilledPaidPassLease(a)
    PROVE  OverlapInv'
<1> USE DEF OverlapInv, TypeInv, TypeOK, JobRow, Permit
<1>1. ASSUME NEW p \in Passes, NEW j \in Jobs, AcquirePass(p, j) PROVE OverlapInv'
  BY <1>1, AcquisitionIsCurrent DEF AcquirePass
<1>2. ASSUME NEW p \in Passes, NEW r \in Requests, AcquireRequest(r, p) PROVE OverlapInv'
  BY <1>2, AcquisitionIsCurrent DEF AcquireRequest, Running
<1>3. ASSUME NEW p \in Passes, ResizePaidPassLease(p) PROVE OverlapInv'
  <2>1. LeaseLive(p) /\ permit[p] # None
    BY <1>3 DEF ResizePaidPassLease, Running
  <2>2. /\ UNCHANGED <<now, jobs>>
        /\ lease' = [lease EXCEPT ![p] = [lease[p] EXCEPT !.usd = 0]]
        /\ permit' = [permit EXCEPT ![p] = [permit[p] EXCEPT !.usd = 0]]
    BY <1>3 DEF ResizePaidPassLease
  <2>3. PermitsKept
    BY <2>1, <2>2 DEF PermitsKept
  <2>4. NoLeaseRevived
    BY <2>1, <2>2 DEF NoLeaseRevived, LeaseLive
  <2> QED
    BY <2>2, <2>3, <2>4, OverlapKept DEF NoRunStarted
<1>4. ASSUME NEW p \in Passes, AuthorizePaidPassLaunch(p) PROVE OverlapInv'
  <2>1. permit[p] # None /\ now' = now
    BY <1>4 DEF AuthorizePaidPassLaunch, Running
  <2>2. CASE ParentLive(p) /\ LeaseLive(p)
    <3>1. /\ lease' = [PrunedLease EXCEPT ![p].expires = now + PaidTtl]
          /\ jobs' = [jobs EXCEPT ![permit[p].job].expires = now + JobTtl]
          /\ permit' = [permit EXCEPT ![p].stage = "launched"]
      BY <1>4, <2>2 DEF AuthorizePaidPassLaunch
    <3>2. PermitsKept
      BY <2>1, <3>1 DEF PermitsKept
    <3>3. NoRunStarted
      BY <2>1, <3>1 DEF NoRunStarted
    <3>4. \A a \in Attempts \ {p} : lease'[a] = PrunedLease[a]
      BY <3>1, SweepTypes
    <3>5. NoLeaseRevived
      BY <2>1, <2>2, <3>4, SweepRevivesNone DEF NoLeaseRevived
    <3> QED
      BY <3>2, <3>3, <3>5, OverlapKept
  <2>3. CASE ~(ParentLive(p) /\ LeaseLive(p))
    <3>1. lease' = PrunedLease /\ jobs' = jobs /\ permit' = permit
      BY <1>4, <2>3 DEF AuthorizePaidPassLaunch
    <3>2. NoLeaseRevived
      BY <2>1, <3>1, SweepRevivesNone DEF NoLeaseRevived
    <3> QED
      BY <3>1, <3>2, OverlapKept DEF PermitsKept, NoRunStarted
  <2> QED
    BY <2>2, <2>3
<1>5. ASSUME NEW a \in Attempts,
             \/ a \in Passes /\ SettlePass(a)
             \/ ReleaseUnbilledPaidPassLease(a)
      PROVE  OverlapInv'
  <2>1. permit[a] # None
    BY <1>5, PassSettles DEF ReleaseUnbilledPaidPassLease, Running
  <2>2. /\ UNCHANGED <<now, jobs>>
        /\ \E stage : permit' = [permit EXCEPT ![a].stage = stage]
        /\ lease' = lease \/ lease' = [lease EXCEPT ![a] = None]
    <3>1. CASE a \in Passes /\ SettlePass(a)
      <4>1. PICK usd, guess, stage : SettlePaidPassLease(a, usd, guess, stage)
        BY <3>1, PassSettles
      <4> QED
        BY <4>1, Zenon DEF SettlePaidPassLease
    <3>2. CASE ReleaseUnbilledPaidPassLease(a)
      BY <3>2 DEF ReleaseUnbilledPaidPassLease
    <3> QED
      BY <1>5, <3>1, <3>2
  <2>3. PermitsKept
    BY <2>1, <2>2 DEF PermitsKept
  <2>4. NoLeaseRevived
    BY <2>2, SweepRevivesNone DEF NoLeaseRevived
  <2> QED
    BY <2>2, <2>3, <2>4, OverlapKept DEF NoRunStarted
<1>6. ASSUME NEW a \in Attempts, RenewPaidPassLease(a) PROVE OverlapInv'
  <2>1. /\ LeaseLive(a)
        /\ UNCHANGED <<now, jobs, permit>>
        /\ lease' = [lease EXCEPT ![a].expires = now + PaidTtl]
    BY <1>6 DEF RenewPaidPassLease, memVars
  <2>2. NoLeaseRevived
    BY <2>1 DEF NoLeaseRevived, LeaseLive
  <2> QED
    BY <2>1, <2>2, OverlapKept DEF PermitsKept, NoRunStarted
<1> QED
  BY <1>1, <1>2, <1>3, <1>4, <1>5, <1>6

LEMMA RequestsOverlapNone ==
    ASSUME OverlapInv, TypeInv',
           \/ \E r \in Requests : SendRequest(r) \/ SettleRequest(r) \/ DropRequest(r)
           \/ \E a \in Attempts : \E usd \in Bills : ProviderBills(a, usd)
           \/ \E from \in 0..now, reported \in Reports :
                  ReconcilePresumedCosts(from, now + 1, reported)
    PROVE  OverlapInv'
<1> USE DEF OverlapInv, TypeInv, TypeOK, JobRow, Permit
<1>1. ASSUME NEW r \in Requests, NEW stage,
             permit[r] # None, UNCHANGED <<now, jobs>>,
             permit' = [permit EXCEPT ![r].stage = stage],
             lease' = lease \/ lease' = [lease EXCEPT ![r] = None]
      PROVE  OverlapInv'
  <2>1. PermitsKept
    BY <1>1 DEF PermitsKept
  <2>2. NoLeaseRevived
    BY <1>1, SweepRevivesNone DEF NoLeaseRevived
  <2> QED
    BY <1>1, <2>1, <2>2, OverlapKept DEF NoRunStarted
<1>2. ASSUME NEW r \in Requests, SendRequest(r) \/ DropRequest(r) PROVE OverlapInv'
  BY <1>1, <1>2 DEF SendRequest, DropRequest, Running, dbVars
<1>3. ASSUME NEW r \in Requests, SettleRequest(r)
      PROVE  OverlapInv'
  <2>1. permit[r] # None
    BY <1>3, RequestSettles
  <2>2. PICK usd, guess, stage : SettleRequestCost(r, usd, guess, stage)
    BY <1>3, RequestSettles
  <2> QED
    BY <1>1, <2>1, <2>2 DEF SettleRequestCost
<1>4. ASSUME \/ \E a \in Attempts : \E usd \in Bills : ProviderBills(a, usd)
             \/ \E from \in 0..now, reported \in Reports :
                    ReconcilePresumedCosts(from, now + 1, reported)
      PROVE  OverlapInv'
  <2>1. UNCHANGED <<now, jobs, lease, permit>>
    BY <1>4, Zenon DEF ProviderBills, ReconcilePresumedCosts, dbVars, memVars
  <2> QED
    BY <2>1, OverlapKept DEF PermitsKept, NoRunStarted, NoLeaseRevived, LeaseLive
<1> QED
  BY <1>2, <1>3, <1>4

LEMMA OverlapPreserved == OverlapInv /\ [Next]_vars => OverlapInv'
<1> SUFFICES ASSUME OverlapInv, [Next]_vars PROVE OverlapInv'
  OBVIOUS
<1>1. TypeInv'
  BY TypePreserved DEF OverlapInv
<1>2. CASE UNCHANGED vars
  <2>1. UNCHANGED <<now, jobs, lease, permit>>
    BY <1>2 DEF vars, dbVars, memVars
  <2> QED
    BY <1>1, <2>1, OverlapKept
    DEF OverlapInv, TypeInv, TypeOK, JobRow, PermitsKept, NoRunStarted, NoLeaseRevived, LeaseLive
<1>3. CASE Next
  BY <1>1, <1>3, ClaimsOverlapNone, LeasesOverlapNone, RequestsOverlapNone DEF Next
<1> QED
  BY <1>2, <1>3

\* A retry never runs beside money its ancestors still hold: neither a late renewal
\* nor a late launch of a stale run brings an ancestor's lease back.
THEOREM GenerationsNeverOverlap == Spec => []NoAncestorOverlap
<1>1. Init => OverlapInv
  <2>1. Init => PermitsAreNotYounger /\ NoAncestorOverlap
    BY DEF Init, PermitsAreNotYounger, NoAncestorOverlap, AttemptsOf, Acquired
  <2> QED
    BY <2>1, InitTyped DEF OverlapInv
<1>2. Spec => []OverlapInv
  BY <1>1, OverlapPreserved, PTL DEF Spec
<1> QED
  BY <1>2, PTL DEF OverlapInv

-------------------------------------------------------------------------------
(* A pass or its requests are billed.                                      *)

\* A pass bills when it is through with its requests, and has none then.
BillInv ==
    /\ TypeInv
    /\ \A p \in Passes : billed[p] # None =>
        RequestsOf(p) = {} /\ permit[p].stage \notin {"held", "launched"}

\* Steps that bill no pass, leave the permits of billed ones alone and add no request.
LEMMA BillsKept ==
    ASSUME BillInv, TypeInv',
           \A p \in Passes : billed'[p] # None => billed[p] # None /\ permit'[p] = permit[p],
           \A r \in Requests : permit'[r] # None =>
               permit[r] # None /\ permit'[r].pass = permit[r].pass
    PROVE  BillInv'
BY DEF BillInv, RequestsOf

\* A permit that changes its stage only, of an attempt that is not billed.
LEMMA BillsStaged ==
    ASSUME BillInv, TypeInv', NEW a \in Attempts, NEW stage, permit[a] # None,
           a \in Passes => permit[a].stage \in {"held", "launched"},
           permit' = [permit EXCEPT ![a].stage = stage],
           \A p \in Passes : billed'[p] # None => billed[p] # None
    PROVE  BillInv'
<1>1. permit[a] \in Permit /\ permit'[a] = [permit[a] EXCEPT !.stage = stage]
  BY DEF BillInv, TypeInv, TypeOK
<1>2. permit'[a].pass = permit[a].pass
  BY <1>1 DEF Permit
<1>3. \A b \in Attempts \ {a} : permit'[b] = permit[b]
  BY DEF BillInv, TypeInv, TypeOK
<1>4. \A p \in Passes : billed'[p] # None => p # a
  BY DEF BillInv
<1> QED
  BY <1>2, <1>3, <1>4, BillsKept

LEMMA ClaimsBillNone ==
    ASSUME BillInv, TypeInv',
           \/ Tick \/ ReconcileExpiredJobClaims
           \/ \E owner \in alive : RunEnds(owner)
           \/ \E j \in Jobs : \/ ClaimQueuedJob(j) \/ EndQueuedRetry(j) \/ RenewJobLease(j)
                              \/ TerminalizeClaim(j) \/ CancelJob(j) \/ RetryJob(j)
    PROVE  BillInv'
<1>1. UNCHANGED <<billed, permit>>
  BY Zenon DEF Tick, ReconcileExpiredJobClaims, RunEnds, ClaimQueuedJob, EndQueuedRetry,
               RenewJobLease, TerminalizeClaim, CancelJob, RetryJob, dbVars, memVars
<1> QED
  BY <1>1, BillsKept

LEMMA LeasesBillOnce ==
    ASSUME BillInv, TypeInv',
           \/ \E p \in Passes : \/ \E j \in Jobs : AcquirePass(p, j)
                                \/ \E r \in Requests : AcquireRequest(r, p)
                                \/ ResizePaidPassLease(p)
                                \/ AuthorizePaidPassLaunch(p)
                                \/ SettlePass(p)
           \/ \E a \in Attempts : \/ RenewPaidPassLease(a)
                                  \/ ReleaseUnbilledPaidPassLease(a)
    PROVE  BillInv'
<1> USE DEF BillInv
<1>0. permit \in [Attempts -> Permit \cup {None}] /\ Passes \cap Requests = {}
  BY NamesAssumption DEF TypeInv, TypeOK
<1>1. ASSUME NEW p \in Passes, NEW j \in Jobs, AcquirePass(p, j) PROVE BillInv'
  <2>1. /\ permit[p] = None /\ billed' = billed
        /\ \A b \in Attempts \ {p} : permit'[b] = permit[b]
    BY <1>0, <1>1 DEF AcquirePass, AcquirePaidPassLease
  <2>2. billed[p] = None
    BY <2>1 DEF TypeInv, RowsHavePermits
  <2> QED
    BY <1>0, <2>1, <2>2, BillsKept
<1>2. ASSUME NEW p \in Passes, NEW r \in Requests, AcquireRequest(r, p) PROVE BillInv'
  <2>1. /\ permit[r] = None /\ billed' = billed /\ permit[p].stage = "launched"
        /\ \/ permit' = permit
           \/ \E row : permit' = [permit EXCEPT ![r] = row] /\ row.pass = p
    <3>1. /\ permit[r] = None /\ permit[p].stage = "launched"
          /\ AcquirePaidPassLease(r, p, permit[p].job, permit[p].owner, RequestUsd)
      BY <1>2 DEF AcquireRequest
    <3> DEFINE j == permit[p].job
               row == [job |-> j, gen |-> jobs[j].gen, owner |-> permit[p].owner,
                       pass |-> p, usd |-> RequestUsd, stage |-> "held"]
    <3>2. /\ billed' = billed
          /\ permit' = permit \/ permit' = [permit EXCEPT ![r] = row]
      BY <3>1 DEF AcquirePaidPassLease
    <3>3. row.pass = p
      OBVIOUS
    <3> HIDE DEF row
    <3> QED
      BY <3>1, <3>2, <3>3
  <2>2. billed[p] = None
    BY <2>1
  <2>3. /\ \A b \in Attempts \ {r} : permit'[b] = permit[b]
        /\ permit'[r] # None => permit'[r].pass = p
    BY <1>0, <2>1
  <2>4. \A q \in Passes : q # p => RequestsOf(q)' = RequestsOf(q)
    BY <2>1, <2>3 DEF RequestsOf
  <2> QED
    BY <1>0, <2>1, <2>2, <2>3, <2>4
<1>3. ASSUME NEW p \in Passes, ResizePaidPassLease(p) PROVE BillInv'
  <2>1. /\ permit[p].stage = "launched" /\ billed' = billed
        /\ \A b \in Attempts \ {p} : permit'[b] = permit[b]
    BY <1>0, <1>3 DEF ResizePaidPassLease
  <2>2. billed[p] = None
    BY <2>1
  <2> QED
    BY <1>0, <2>1, <2>2, BillsKept
<1>4. ASSUME NEW p \in Passes, AuthorizePaidPassLaunch(p) PROVE BillInv'
  <2>1. /\ permit[p].stage = "held" /\ permit[p] # None /\ billed' = billed
        /\ permit' = permit \/ permit' = [permit EXCEPT ![p].stage = "launched"]
    BY <1>4 DEF AuthorizePaidPassLaunch, Running
  <2> QED
    BY <2>1, BillsKept, BillsStaged
<1>5. ASSUME NEW p \in Passes, SettlePass(p) PROVE BillInv'
  <2>0. PICK usd, guess, end :
            PassReport(p, usd, guess, end) /\ SettlePaidPassLease(p, usd, guess, end)
    BY <1>5, PassSettles
  <2>4. end \notin {"held", "launched"}
    BY <2>0, SettledStages
  <2>5. PICK stage : /\ stage \notin {"held", "launched"}
                     /\ permit' = [permit EXCEPT ![p].stage = stage]
    BY <2>0, <2>4 DEF SettlePaidPassLease
  <2>1. /\ permit[p].stage = "launched" /\ permit[p] # None
        /\ permit' = [permit EXCEPT ![p].stage = stage]
        /\ \/ billed' = [billed EXCEPT ![p] =
                            IF Billable(p, usd) THEN CostRow(usd, now, guess) ELSE None]
           \/ billed' = billed
    BY <1>5, <2>0, <2>5, PassSettles DEF SettlePaidPassLease
  <2>2. CASE billed'[p] = None
    <3>1. \A q \in Passes : billed'[q] # None => billed[q] # None
      BY <2>1, <2>2 DEF TypeInv, TypeOK
    <3> QED
      BY <2>1, <3>1, BillsStaged
  <2>3. CASE billed'[p] # None
    <3>1. Billable(p, usd)
      BY <2>1, <2>3 DEF TypeInv, TypeOK
    <3>2. RequestsOf(p) = {} /\ permit[p] \in Permit
      BY <1>0, <2>1, <3>1 DEF Billable
    <3>3. \A b \in Attempts \ {p} : permit'[b] = permit[b]
      BY <1>0, <2>1
    <3>4. permit'[p].stage \notin {"held", "launched"}
      BY <1>0, <2>1, <2>5, <3>2 DEF Permit
    <3>5. \A q \in Passes : RequestsOf(q)' = RequestsOf(q)
      BY <1>0, <3>3 DEF RequestsOf
    <3>6. \A q \in Passes \ {p} : billed'[q] = billed[q]
      BY <2>1 DEF TypeInv, TypeOK
    <3> QED
      BY <3>2, <3>3, <3>4, <3>5, <3>6
  <2> QED
    BY <2>2, <2>3
<1>6. ASSUME NEW a \in Attempts, RenewPaidPassLease(a) PROVE BillInv'
  BY <1>6, BillsKept DEF RenewPaidPassLease, memVars
<1>7. ASSUME NEW a \in Attempts, ReleaseUnbilledPaidPassLease(a) PROVE BillInv'
  <2>1. /\ permit[a] # None /\ billed' = billed
        /\ \E stage : permit' = [permit EXCEPT ![a].stage = stage]
        /\ a \in Passes => permit[a].stage = "held"
    BY <1>0, <1>7 DEF ReleaseUnbilledPaidPassLease, GivenBack, Running
  <2> QED
    BY <2>1, BillsStaged
<1> QED
  BY <1>1, <1>2, <1>3, <1>4, <1>5, <1>6, <1>7

LEMMA RequestsBillThemselves ==
    ASSUME BillInv, TypeInv',
           \/ \E r \in Requests : SendRequest(r) \/ SettleRequest(r) \/ DropRequest(r)
           \/ \E a \in Attempts : \E usd \in Bills : ProviderBills(a, usd)
           \/ \E from \in 0..now, reported \in Reports :
                  ReconcilePresumedCosts(from, now + 1, reported)
    PROVE  BillInv'
<1>0. billed \in [Attempts -> Cost \cup {None}] /\ Passes \cap Requests = {}
  BY NamesAssumption DEF BillInv, TypeInv, TypeOK
<1>1. ASSUME NEW r \in Requests, NEW stage, permit[r] # None,
             permit' = [permit EXCEPT ![r].stage = stage],
             billed' = billed \/ \E row : billed' = [billed EXCEPT ![r] = row]
      PROVE  BillInv'
  <2>1. \A p \in Passes : billed'[p] = billed[p]
    BY <1>0, <1>1
  <2> QED
    BY <1>0, <1>1, <2>1, BillsStaged
<1>2. ASSUME NEW r \in Requests, SendRequest(r) \/ DropRequest(r) PROVE BillInv'
  BY <1>1, <1>2 DEF SendRequest, DropRequest, Running, dbVars
<1>3. ASSUME NEW r \in Requests, SettleRequest(r)
      PROVE  BillInv'
  <2>1. PICK usd, guess, stage : SettleRequestCost(r, usd, guess, stage)
    BY <1>3, RequestSettles
  <2>2. permit[r] # None
    BY <1>3, RequestSettles
  <2>3. /\ permit' = [permit EXCEPT ![r].stage = stage]
        /\ billed' = billed \/ \E row : billed' = [billed EXCEPT ![r] = row]
    BY <2>1 DEF SettleRequestCost
  <2> QED
    BY <1>1, <2>2, <2>3
<1>4. ASSUME NEW a \in Attempts, NEW usd \in Bills, ProviderBills(a, usd) PROVE BillInv'
  BY <1>4, BillsKept DEF ProviderBills, dbVars, memVars
<1>5. ASSUME NEW from \in 0..now, NEW reported \in Reports,
             ReconcilePresumedCosts(from, now + 1, reported)
      PROVE  BillInv'
  <2>1. \A p \in Passes : billed'[p] # None => billed[p] # None
    BY <1>5, ReconciledTypes DEF BillInv
  <2>2. permit' = permit
    BY <1>5, Zenon DEF ReconcilePresumedCosts, memVars
  <2> QED
    BY <2>1, <2>2, BillsKept
<1> QED
  BY <1>2, <1>3, <1>4, <1>5

LEMMA BillPreserved == BillInv /\ [Next]_vars => BillInv'
<1> SUFFICES ASSUME BillInv, [Next]_vars PROVE BillInv'
  OBVIOUS
<1>1. TypeInv'
  BY TypePreserved DEF BillInv
<1>2. CASE UNCHANGED vars
  BY <1>1, <1>2, BillsKept DEF vars, dbVars, memVars
<1>3. CASE Next
  BY <1>1, <1>3, ClaimsBillNone, LeasesBillOnce, RequestsBillThemselves DEF Next
<1> QED
  BY <1>2, <1>3

\* Money a request has billed is never billed again by its pass, in whichever order
\* requests are admitted and settlements commit.
THEOREM BilledByPassOrRequests == Spec => []NoDoubleBilling
<1>1. Init => BillInv
  BY InitTyped DEF Init, BillInv
<1>2. Spec => []BillInv
  BY <1>1, BillPreserved, PTL DEF Spec
<1>3. BillInv => NoDoubleBilling
  BY DEF BillInv, NoDoubleBilling
<1> QED
  BY <1>2, <1>3, PTL

-------------------------------------------------------------------------------
(* Pending settlements and the revision.                                   *)

FlipVersioned(j) ==
    jobs[j].status = "terminal" /\ jobs'[j].status = "terminal"
        /\ Pending(j)' # Pending(j) => j \in versioned'

\* A permit that changes stays with its job.
LEMMA AttemptsStay ==
    ASSUME TypeInv, NEW a \in Attempts, permit[a] # None,
           \/ \E stage \in Stages :
                 permit' = [permit EXCEPT ![a].stage = stage]
           \/ permit' = [permit EXCEPT ![a].usd = 0]
    PROVE  \A j \in Jobs : AttemptsOf(j)' = AttemptsOf(j)
<1>0. permit \in [Attempts -> Permit \cup {None}] /\ permit[a] \in Permit
  BY DEF TypeInv, TypeOK
<1>1. ASSUME NEW row \in Permit, permit' = [permit EXCEPT ![a] = row], row.job = permit[a].job
      PROVE  \A j \in Jobs : AttemptsOf(j)' = AttemptsOf(j)
  <2>1. permit'[a] = row /\ row # None /\ \A b \in Attempts \ {a} : permit'[b] = permit[b]
    BY <1>0, <1>1, NullFacts
  <2> QED
    BY <1>1, <2>1 DEF AttemptsOf, Acquired
<1>2. ASSUME NEW stage \in Stages,
             permit' = [permit EXCEPT ![a].stage = stage]
      PROVE  \A j \in Jobs : AttemptsOf(j)' = AttemptsOf(j)
  <2> DEFINE row == [permit[a] EXCEPT !.stage = stage]
  <2>1. row \in Permit /\ row.job = permit[a].job
    BY <1>0 DEF Permit
  <2>2. permit' = [permit EXCEPT ![a] = row]
    BY <1>2
  <2> HIDE DEF row
  <2> QED
    BY <1>1, <2>1, <2>2
<1>3. CASE permit' = [permit EXCEPT ![a].usd = 0]
  <2> DEFINE row == [permit[a] EXCEPT !.usd = 0]
  <2>1. row \in Permit /\ row.job = permit[a].job
    BY <1>0 DEF Permit
  <2>2. permit' = [permit EXCEPT ![a] = row]
    BY <1>3
  <2> HIDE DEF row
  <2> QED
    BY <1>1, <2>1, <2>2
<1> QED
  BY <1>2, <1>3

\* Leases that come and go for none of the job's attempts.
LEMMA NothingFlips ==
    ASSUME NEW j \in Jobs, AttemptsOf(j)' = AttemptsOf(j),
           \A a \in AttemptsOf(j) : lease'[a] = None <=> lease[a] = None
    PROVE  FlipVersioned(j)
BY DEF FlipVersioned, Pending

\* The sweep that takes a terminal job's last lease versions the job.
LEMMA SweepFlips ==
    ASSUME TypeInv, NEW j \in Jobs,
           jobs[j].status = "terminal" => AttemptsOf(j)' = AttemptsOf(j),
           \A a \in Attempts : a \in AttemptsOf(j) =>
               (lease'[a] = None <=> PrunedLease[a] = None),
           Pruned \subseteq versioned'
    PROVE  FlipVersioned(j)
<1> SUFFICES ASSUME jobs[j].status = "terminal", Pending(j)' # Pending(j)
             PROVE  j \in versioned'
  BY DEF FlipVersioned
<1>1. AttemptsOf(j) \subseteq Attempts /\ \A a \in AttemptsOf(j) : permit[a].job = j
  BY DEF AttemptsOf, Acquired
<1>2. \A a \in AttemptsOf(j) : lease[a] = None => PrunedLease[a] = None
  BY <1>1 DEF PrunedLease, Expired
<1>3. Pending(j) /\ \A a \in AttemptsOf(j) : PrunedLease[a] = None
  BY <1>1, <1>2 DEF Pending
<1>4. PICK a \in AttemptsOf(j) : lease[a] # None /\ PrunedLease[a] = None
  BY <1>3 DEF Pending
<1>5. a \in Expired /\ permit[a].job = j
  BY <1>1, <1>4 DEF PrunedLease
<1>6. j \in Pruned
  BY <1>3, <1>5 DEF Pruned, Finalized
<1> QED
  BY <1>6

\* A transaction that ends the lease of one attempt versions its job.
LEMMA EndFlips ==
    ASSUME TypeInv, NEW a \in Attempts, permit[a] # None, NEW j \in Jobs,
           AttemptsOf(j)' = AttemptsOf(j), lease' = [lease EXCEPT ![a] = None],
           lease[a] # None => permit[a].job \in versioned'
    PROVE  FlipVersioned(j)
<1>1. \A b \in Attempts : b # a \/ lease[a] = None => lease'[b] = lease[b]
  BY DEF TypeInv, TypeOK
<1>2. CASE lease[a] # None /\ permit[a].job = j
  BY <1>2 DEF FlipVersioned
<1>3. CASE lease[a] = None \/ permit[a].job # j
  BY <1>1, <1>3, NothingFlips DEF AttemptsOf, Acquired
<1> QED
  BY <1>2, <1>3

LEMMA ClaimsVersion ==
    ASSUME TypeInv, NEW j \in Jobs,
           \/ Tick \/ ReconcileExpiredJobClaims
           \/ \E owner \in alive : RunEnds(owner)
           \/ \E k \in Jobs : \/ ClaimQueuedJob(k) \/ EndQueuedRetry(k) \/ RenewJobLease(k)
                              \/ TerminalizeClaim(k) \/ CancelJob(k) \/ RetryJob(k)
    PROVE  FlipVersioned(j)
<1>1. permit' = permit
  BY Zenon DEF Tick, ReconcileExpiredJobClaims, RunEnds, ClaimQueuedJob, EndQueuedRetry,
               RenewJobLease, TerminalizeClaim, CancelJob, RetryJob, dbVars, memVars
<1>2. AttemptsOf(j)' = AttemptsOf(j)
  BY <1>1 DEF AttemptsOf, Acquired
<1>3. \/ lease' = lease
      \/ lease' = PrunedLease /\ Pruned \subseteq versioned'
  <2>1. ASSUME NEW k \in Jobs, ClaimQueuedJob(k) \/ EndQueuedRetry(k)
        PROVE  lease' = PrunedLease /\ Pruned \subseteq versioned'
    <3>1. lease' = PrunedLease /\ versioned' = Pruned \cup Abandoned \cup {k}
      BY <2>1, Zenon DEF ClaimQueuedJob, EndQueuedRetry
    <3> QED
      BY <3>1
  <2> QED
    BY <2>1 DEF Tick, ReconcileExpiredJobClaims, RunEnds, RenewJobLease,
                TerminalizeClaim, CancelJob, RetryJob, dbVars
<1> QED
  BY <1>2, <1>3, NothingFlips, SweepFlips

LEMMA AcquisitionVersions ==
    ASSUME TypeInv, NEW a \in Attempts, NEW pass, NEW k \in Jobs, NEW owner, NEW usd,
           permit[a] = None, AcquirePaidPassLease(a, pass, k, owner, usd), NEW j \in Jobs
    PROVE  FlipVersioned(j)
<1>1. /\ jobs[k].status = "running" /\ versioned' = Pruned
      /\ \/ /\ lease' = [PrunedLease EXCEPT ![a] = Lease(usd)]
            /\ permit' = [permit EXCEPT ![a] =
                  [job |-> k, gen |-> jobs[k].gen, owner |-> owner,
                   pass |-> pass, usd |-> usd, stage |-> "held"]]
         \/ lease' = PrunedLease /\ permit' = permit
  BY Zenon DEF AcquirePaidPassLease, LiveClaim
<1>2. /\ \A b \in Attempts \ {a} : permit'[b] = permit[b] /\ lease'[b] = PrunedLease[b]
      /\ permit'[a] = None \/ permit'[a].job = k
  BY <1>1, SweepTypes DEF TypeInv, TypeOK
<1>3. j # k => AttemptsOf(j)' = AttemptsOf(j)
  BY <1>2 DEF AttemptsOf, Acquired
<1>4. a \notin AttemptsOf(j)
  BY DEF AttemptsOf, Acquired
<1>5. jobs[j].status = "terminal" => AttemptsOf(j)' = AttemptsOf(j)
  BY <1>1, <1>3
<1> QED
  BY <1>1, <1>2, <1>4, <1>5, SweepFlips

LEMMA LeasesVersion ==
    ASSUME TypeInv, NEW j \in Jobs,
           \/ \E p \in Passes : \/ \E k \in Jobs : AcquirePass(p, k)
                                \/ \E r \in Requests : AcquireRequest(r, p)
                                \/ ResizePaidPassLease(p)
                                \/ AuthorizePaidPassLaunch(p)
                                \/ SettlePass(p)
           \/ \E a \in Attempts : \/ RenewPaidPassLease(a)
                                  \/ ReleaseUnbilledPaidPassLease(a)
    PROVE  FlipVersioned(j)
<1>0. lease \in [Attempts -> LeaseRow \cup {None}]
  BY DEF TypeInv, TypeOK
<1>1. ASSUME NEW p \in Passes, NEW k \in Jobs, AcquirePass(p, k) PROVE FlipVersioned(j)
  BY <1>1, AcquisitionVersions DEF AcquirePass
<1>2. ASSUME NEW p \in Passes, NEW r \in Requests, AcquireRequest(r, p) PROVE FlipVersioned(j)
  <2>1. /\ permit[r] = None /\ permit[p].job \in Jobs
        /\ AcquirePaidPassLease(r, p, permit[p].job, permit[p].owner, RequestUsd)
    BY <1>2 DEF AcquireRequest, Running, TypeInv, TypeOK, Permit
  <2> QED
    BY <2>1, AcquisitionVersions
<1>3. ASSUME NEW p \in Passes, ResizePaidPassLease(p) PROVE FlipVersioned(j)
  <2>1. /\ permit[p] # None /\ lease[p] # None
        /\ permit' = [permit EXCEPT ![p].usd = 0]
        /\ lease' = [lease EXCEPT ![p] = [lease[p] EXCEPT !.usd = 0]]
    BY <1>3 DEF ResizePaidPassLease, LeaseLive, Running
  <2>2. [lease[p] EXCEPT !.usd = 0] # None
    BY <1>0, <2>1, NullFacts DEF LeaseRow
  <2>3. \A a \in Attempts : lease'[a] = None <=> lease[a] = None
    BY <1>0, <2>1, <2>2
  <2>4. AttemptsOf(j)' = AttemptsOf(j)
    BY <2>1, AttemptsStay
  <2> QED
    BY <2>3, <2>4, NothingFlips DEF AttemptsOf, Acquired
<1>4. ASSUME NEW p \in Passes, AuthorizePaidPassLaunch(p) PROVE FlipVersioned(j)
  <2>1. permit[p] # None
    BY <1>4 DEF AuthorizePaidPassLaunch, Running
  <2>2. /\ permit' = permit \/ \E stage \in Stages : permit' = [permit EXCEPT ![p].stage = stage]
        /\ \/ lease' = PrunedLease
           \/ LeaseLive(p) /\ lease' = [PrunedLease EXCEPT ![p].expires = now + PaidTtl]
        /\ Pruned \subseteq versioned'
    BY <1>4 DEF AuthorizePaidPassLaunch, Stages
  <2>3. AttemptsOf(j)' = AttemptsOf(j)
    BY <2>1, <2>2, AttemptsStay DEF AttemptsOf, Acquired
  <2>4. \A a \in Attempts : lease'[a] = None <=> PrunedLease[a] = None
    <3>1. PrunedLease \in [Attempts -> LeaseRow \cup {None}]
      BY SweepTypes
    <3>2. ASSUME LeaseLive(p), lease' = [PrunedLease EXCEPT ![p].expires = now + PaidTtl]
          PROVE  lease'[p] # None /\ PrunedLease[p] # None
      <4>1. lease[p] \in LeaseRow /\ p \notin Expired
        BY <1>0, <3>2 DEF LeaseLive, Expired, TypeInv, TypeOK, LeaseRow
      <4>2. PrunedLease[p] = lease[p] /\ now + PaidTtl \in Nat
        BY <4>1, LimitsAssumption DEF PrunedLease, TypeInv, TypeOK, LimitsAssumption
      <4>3. [PrunedLease[p] EXCEPT !.expires = now + PaidTtl] \in LeaseRow
        BY <4>1, <4>2 DEF LeaseRow
      <4> QED
        BY <3>1, <3>2, <4>1, <4>2, <4>3, NullFacts
    <3> QED
      BY <2>2, <3>1, <3>2
  <2> QED
    BY <2>2, <2>3, <2>4, SweepFlips
<1>5. ASSUME NEW p \in Passes, SettlePass(p) PROVE FlipVersioned(j)
  <2>0. PICK usd, guess, end : end \in Stages /\ SettlePaidPassLease(p, usd, guess, end)
    BY <1>5, PassSettles
  <2>1. /\ permit[p] # None /\ \E stage \in Stages : permit' = [permit EXCEPT ![p].stage = stage]
        /\ \/ lease' = [lease EXCEPT ![p] = None] /\ versioned' = {permit[p].job}
           \/ lease' = lease
    <3>1. "closed" \in Stages
      BY DEF Stages
    <3> QED
      BY <1>5, <2>0, <3>1, PassSettles DEF SettlePaidPassLease
  <2>2. AttemptsOf(j)' = AttemptsOf(j)
    BY <2>1, AttemptsStay
  <2> QED
    BY <2>1, <2>2, EndFlips, NothingFlips
<1>6. ASSUME NEW a \in Attempts, RenewPaidPassLease(a) PROVE FlipVersioned(j)
  <2>1. /\ lease[a] # None /\ permit' = permit
        /\ lease' = [lease EXCEPT ![a].expires = now + PaidTtl]
    BY <1>6 DEF RenewPaidPassLease, LeaseLive, memVars
  <2>2. now + PaidTtl \in Nat
    BY LimitsAssumption DEF LimitsAssumption, TypeInv, TypeOK
  <2>3. [lease[a] EXCEPT !.expires = now + PaidTtl] \in LeaseRow
    BY <2>1, <2>2, ExpiryTypes
  <2>4. \A b \in Attempts : lease'[b] = None <=> lease[b] = None
    BY <1>0, <2>1, <2>3, NullFacts
  <2> QED
    BY <2>1, <2>4, NothingFlips DEF AttemptsOf, Acquired
<1>7. ASSUME NEW a \in Attempts, ReleaseUnbilledPaidPassLease(a) PROVE FlipVersioned(j)
  <2>1. /\ permit[a] # None /\ \E stage \in Stages : permit' = [permit EXCEPT ![a].stage = stage]
        /\ \/ /\ lease' = [lease EXCEPT ![a] = None]
              /\ versioned' = Finalized(lease', {permit[a].job})
           \/ lease' = lease
    BY <1>7 DEF ReleaseUnbilledPaidPassLease, Running
  <2>2. AttemptsOf(j)' = AttemptsOf(j)
    BY <2>1, AttemptsStay
  <2>3. CASE lease' = lease
    BY <2>2, <2>3, NothingFlips
  <2>4. CASE /\ lease' = [lease EXCEPT ![a] = None]
             /\ versioned' = Finalized(lease', {permit[a].job})
    <3>1. CASE permit[a].job = j /\ jobs[j].status = "terminal"
      BY <1>0, <2>2, <2>4, <3>1 DEF FlipVersioned, Pending, Finalized, AttemptsOf, Acquired
    <3>2. CASE permit[a].job # j
      <4>1. \A b \in AttemptsOf(j) : lease'[b] = lease[b]
        BY <1>0, <2>4, <3>2 DEF AttemptsOf, Acquired
      <4> QED
        BY <2>2, <4>1, NothingFlips
    <3>3. CASE jobs[j].status # "terminal"
      BY <3>3 DEF FlipVersioned
    <3> QED
      BY <3>1, <3>2, <3>3
  <2> QED
    BY <2>1, <2>3, <2>4
<1> QED
  BY <1>1, <1>2, <1>3, <1>4, <1>5, <1>6, <1>7

LEMMA RequestsVersion ==
    ASSUME TypeInv, NEW j \in Jobs,
           \/ \E r \in Requests : SendRequest(r) \/ SettleRequest(r) \/ DropRequest(r)
           \/ \E a \in Attempts : \E usd \in Bills : ProviderBills(a, usd)
           \/ \E from \in 0..now, reported \in Reports :
                  ReconcilePresumedCosts(from, now + 1, reported)
    PROVE  FlipVersioned(j)
<1>1. ASSUME NEW r \in Requests, SendRequest(r) \/ DropRequest(r) PROVE FlipVersioned(j)
  <2>1. /\ permit[r] # None /\ lease' = lease
        /\ \E stage \in Stages : permit' = [permit EXCEPT ![r].stage = stage]
    BY <1>1 DEF SendRequest, DropRequest, Running, dbVars, Stages
  <2>2. AttemptsOf(j)' = AttemptsOf(j)
    BY <2>1, AttemptsStay
  <2> QED
    BY <2>1, <2>2, NothingFlips
<1>2. ASSUME NEW r \in Requests, SettleRequest(r)
      PROVE  FlipVersioned(j)
  <2>1. PICK usd, guess, stage : stage \in Stages /\ SettleRequestCost(r, usd, guess, stage)
    BY <1>2, RequestSettles
  <2>2. permit[r] # None
    BY <1>2, RequestSettles
  <2>3. /\ permit' = [permit EXCEPT ![r].stage = stage]
        /\ lease' = [lease EXCEPT ![r] = None]
        /\ lease[r] # None => permit[r].job \in versioned'
    BY <2>1 DEF SettleRequestCost
  <2>4. \E s \in Stages :
           permit' = [permit EXCEPT ![r].stage = s]
    BY <2>1, <2>3
  <2>5. AttemptsOf(j)' = AttemptsOf(j)
    BY <2>2, <2>4, AttemptsStay
  <2> QED
    BY <2>2, <2>3, <2>5, EndFlips
<1>3. ASSUME \/ \E a \in Attempts : \E usd \in Bills : ProviderBills(a, usd)
             \/ \E from \in 0..now, reported \in Reports :
                    ReconcilePresumedCosts(from, now + 1, reported)
      PROVE  FlipVersioned(j)
  <2>1. UNCHANGED <<lease, permit>>
    BY <1>3, Zenon DEF ProviderBills, ReconcilePresumedCosts, dbVars, memVars
  <2> QED
    BY <2>1, NothingFlips DEF AttemptsOf, Acquired
<1> QED
  BY <1>1, <1>2, <1>3

\* No transaction of any run, sweep or settlement changes what a terminal snapshot
\* says of pending settlements behind the revision clients compare.
THEOREM FlipsAreVersioned == Spec => PendingFlipIsVersioned
<1>1. TypeInv /\ [Next]_vars =>
          [\A j \in Jobs :
              jobs[j].status = "terminal" /\ jobs'[j].status = "terminal"
                  /\ Pending(j)' # Pending(j) => j \in versioned']_vars
  <2>1. ASSUME TypeInv, Next, NEW j \in Jobs PROVE FlipVersioned(j)
    BY <2>1, ClaimsVersion, LeasesVersion, RequestsVersion DEF Next
  <2> QED
    BY <2>1 DEF FlipVersioned
<1>2. Spec => []TypeInv
  BY InitTyped, TypePreserved, PTL DEF Spec
<1> QED
  BY <1>1, <1>2, PTL DEF Spec, PendingFlipIsVersioned

=============================================================================
